----------------------------- MODULE Extraction -----------------------------
(***************************************************************************)
(* app/services/entity_relation_extraction_service.py: a request extracts  *)
(* one chunk, or all chunks of a document, in one transaction.  For each   *)
(* chunk the LLM answers with entity candidates, then relation candidates; *)
(* what it answers is any list of them.  Rows are flushed as they are made *)
(* and visible to the request's own SELECTs; other requests see them with  *)
(* the audit row, at the single commit.                                    *)
(*                                                                         *)
(* Registry requests and reviewers of committed rows run meanwhile: every  *)
(* SELECT sees what is committed when it runs.                             *)
(***************************************************************************)
EXTENDS Ontology, Naturals, FiniteSets

CONSTANTS
    Chunk,          \* ids of document_chunk rows
    Document,       \* ids of document rows
    ChunksOf,       \* the chunks of a document
    Name,           \* normalized names
    Run,            \* extraction requests, each served once
    MaxEntities,    \* bound on the entity candidates of one answer
    MaxRelations,   \* bound on the relation candidates of one answer
    Null            \* SQL NULL, or no entry in id_by_norm

ASSUME ExtractionAssumption ==
    /\ ChunksOf \in [Document -> SUBSET Chunk]
    /\ MaxEntities \in Nat /\ MaxRelations \in Nat
    /\ Null \notin Run \X Nat

VARIABLES
    entity,     \* the committed rows of extracted_entity
    relation,   \* the committed rows of extracted_relation
    audit,      \* the EXTRACTION_RUN row of each request
    run         \* the requests

stagingVars == <<entity, relation, audit>>
vars == <<entityType, relationType, entity, relation, audit, run>>

-----------------------------------------------------------------------------

RowId == Run \X Nat
Key   == [name : Name, type : EntityType]

\* status is APPROVED, MODIFIED or MERGED, and the key is edited, by a review
\* only; placeholder is "(auto-created from relation reference)".
EntityRow == [id : RowId, chunk : Chunk, key : Key,
              status : {"PENDING", "REJECTED", "APPROVED", "MODIFIED", "MERGED"},
              placeholder : BOOLEAN]

RelationRow == [id : RowId, chunk : Chunk, status : {"PENDING", "REJECTED"},
                srcKey : Key, type : RelType, tgtKey : Key,
                src : RowId \cup {Null}, tgt : RowId \cup {Null}]

RelationCandidate == [srcKey : Key, type : RelType, tgtKey : Key]

Counters == [entities : Nat, relations : Nat, violations : Nat]
NoAudit  == [entities |-> Null]

\* count numbers the rows of a request; asked and told are the candidates of
\* the current answer handled so far; made holds its flushed rows.
RunState == [pc : {"chunk", "entities", "relations", "source", "newSource",
                   "target", "newTarget", "insert"},
             todo : SUBSET Chunk, chunk : Chunk \cup {Null},
             idByNorm : [Name -> RowId \cup {Null}],
             told : Nat, asked : Nat, count : Nat,
             entities : SUBSET EntityRow, relations : SUBSET RelationRow,
             item : RelationCandidate \cup {Null},
             src : RowId \cup {Null}, tgt : RowId \cup {Null},
             counters : Counters]
NoRun   == [pc |-> "none"]
DoneRun == [pc |-> "done"]

ExtractionTypeOK ==
    /\ OntologyTypeOK
    /\ entity \in SUBSET EntityRow
    /\ relation \in SUBSET RelationRow
    /\ audit \in [Run -> Counters \cup {NoAudit}]
    /\ run \in [Run -> RunState \cup {NoRun, DoneRun}]

Init ==
    /\ OntologyInit
    /\ entity = {}
    /\ relation = {}
    /\ audit = [s \in Run |-> NoAudit]
    /\ run = [s \in Run |-> NoRun]

At(s, pc) == run[s].pc = pc
SetRun(s, r) == run' = [run EXCEPT ![s] = r]

-----------------------------------------------------------------------------
(* extract_document and extract_chunk. *)

NoNames == [n \in Name |-> Null]

StartRun(s, chunks) ==
    /\ At(s, "none")
    /\ SetRun(s, [pc |-> "chunk", todo |-> chunks, chunk |-> Null,
                  idByNorm |-> NoNames, told |-> 0, asked |-> 0, count |-> 0,
                  entities |-> {}, relations |-> {},
                  item |-> Null, src |-> Null, tgt |-> Null,
                  counters |-> [entities |-> 0, relations |-> 0,
                                violations |-> 0]])
    /\ UNCHANGED <<ontologyVars, stagingVars>>

ExtractDocument(s, d) == StartRun(s, ChunksOf[d])
ExtractChunk(s, c) == StartRun(s, {c})

\* Mutant of NextChunk: id_by_norm lives as long as the request.
NextChunkKeepsNames(s) ==
    /\ At(s, "chunk")
    /\ \E c \in run[s].todo :
         SetRun(s, [run[s] EXCEPT !.pc = "entities", !.chunk = c,
                                  !.todo = @ \ {c}, !.told = 0, !.asked = 0])
    /\ UNCHANGED <<ontologyVars, stagingVars>>

\* The provider answers for the next chunk.
NextChunk(s) ==
    /\ At(s, "chunk")
    /\ \E c \in run[s].todo :
         SetRun(s, [run[s] EXCEPT !.pc = "entities", !.chunk = c,
                                  !.todo = @ \ {c}, !.told = 0, !.asked = 0,
                                  !.idByNorm = NoNames])
    /\ UNCHANGED <<ontologyVars, stagingVars>>

NewId(s) == <<s, run[s].count + 1>>

\* Mutant of Verdict: the reason is written to the status column.
VerdictAsStatus(ok) == IF ok THEN "PENDING" ELSE "SCHEMA_VIOLATION"

Verdict(ok) == IF ok THEN "PENDING" ELSE "REJECTED"

\* Mutant of Counted: what is rejected counts as extracted too.
CountedTwice(counters, kind, ok) ==
    [counters EXCEPT ![kind] = @ + 1, !.violations = IF ok THEN @ ELSE @ + 1]

Counted(counters, kind, ok) ==
    IF ok THEN [counters EXCEPT ![kind] = @ + 1]
    ELSE [counters EXCEPT !.violations = @ + 1]

\* A row is written for a violation too, and takes the name in id_by_norm.
SaveEntity(s, key) ==
    /\ At(s, "entities")
    /\ run[s].told < MaxEntities
    /\ LET ok == ValidateEntityType(key.type)
       IN  SetRun(s, [run[s] EXCEPT
             !.told = @ + 1, !.count = @ + 1,
             !.entities = @ \cup {[id |-> NewId(s), chunk |-> run[s].chunk,
                                   key |-> key, status |-> Verdict(ok),
                                   placeholder |-> FALSE]},
             !.idByNorm[key.name] = NewId(s),
             !.counters = Counted(@, "entities", ok)])
    /\ UNCHANGED <<ontologyVars, stagingVars>>

-----------------------------------------------------------------------------
(* _save_relation. *)

SaveRelation(s, candidate) ==
    /\ At(s, "entities") \/ At(s, "relations")
    /\ run[s].asked < MaxRelations
    /\ SetRun(s, [run[s] EXCEPT !.pc = "source", !.item = candidate,
                                !.asked = @ + 1])
    /\ UNCHANGED <<ontologyVars, stagingVars>>

EndKey(s) == IF run[s].pc \in {"source", "newSource"}
             THEN run[s].item.srcKey ELSE run[s].item.tgtKey

\* The state after the end at hand is resolved to id.
Resolved(r, id) ==
    IF r.pc \in {"source", "newSource"}
    THEN [r EXCEPT !.pc = "target", !.src = id]
    ELSE [r EXCEPT !.pc = "insert", !.tgt = id]

\* The request's own rows are flushed, so its SELECT finds them as well.
FindPendingEntity(s, key) ==
    {e \in entity \cup run[s].entities :
       /\ e.chunk = run[s].chunk
       /\ e.key = key
       /\ e.status \in {"PENDING", "APPROVED", "MODIFIED"}}

\* _resolve_entity_id: id_by_norm first, whatever type the name was given with,
\* then any row the SELECT finds.
ResolveEntityId(s) ==
    /\ run[s].pc \in {"source", "target"}
    /\ LET key   == EndKey(s)
           known == run[s].idByNorm[key.name]
           found == FindPendingEntity(s, key)
       IN  \/ /\ known # Null
              /\ SetRun(s, Resolved(run[s], known))
           \/ /\ known = Null
              /\ \E e \in found :
                   SetRun(s, [Resolved(run[s], e.id) EXCEPT
                                !.idByNorm[key.name] = e.id])
           \/ /\ known = Null /\ found = {}
              /\ SetRun(s, [run[s] EXCEPT !.pc = IF @ = "source" THEN "newSource"
                                                 ELSE "newTarget"])
    /\ UNCHANGED <<ontologyVars, stagingVars>>

\* Mutants of CreatePlaceholder: the type is not validated; the name is not
\* entered in id_by_norm.
CreatePlaceholderUnvalidated(s) ==
    /\ run[s].pc \in {"newSource", "newTarget"}
    /\ LET key == EndKey(s)
       IN  SetRun(s, [Resolved(run[s], NewId(s)) EXCEPT
             !.count = @ + 1, !.idByNorm[key.name] = NewId(s),
             !.entities = @ \cup {[id |-> NewId(s), chunk |-> run[s].chunk,
                                   key |-> key, status |-> "PENDING",
                                   placeholder |-> TRUE]}])
    /\ UNCHANGED <<ontologyVars, stagingVars>>

CreatePlaceholderUnlisted(s) ==
    /\ run[s].pc \in {"newSource", "newTarget"}
    /\ LET key == EndKey(s)
       IN  SetRun(s,
             IF ValidateEntityType(key.type)
             THEN [Resolved(run[s], NewId(s)) EXCEPT
                     !.count = @ + 1,
                     !.entities = @ \cup {[id |-> NewId(s),
                         chunk |-> run[s].chunk, key |-> key,
                         status |-> "PENDING", placeholder |-> TRUE]}]
             ELSE Resolved(run[s], Null))
    /\ UNCHANGED <<ontologyVars, stagingVars>>

\* Nothing is found: a PENDING placeholder, or NULL if the type is not active.
CreatePlaceholder(s) ==
    /\ run[s].pc \in {"newSource", "newTarget"}
    /\ LET key == EndKey(s)
       IN  SetRun(s,
             IF ValidateEntityType(key.type)
             THEN [Resolved(run[s], NewId(s)) EXCEPT
                     !.count = @ + 1, !.idByNorm[key.name] = NewId(s),
                     !.entities = @ \cup {[id |-> NewId(s),
                         chunk |-> run[s].chunk, key |-> key,
                         status |-> "PENDING", placeholder |-> TRUE]}]
             ELSE Resolved(run[s], Null))
    /\ UNCHANGED <<ontologyVars, stagingVars>>

\* The signature is checked by the names the candidate gives, not by the types
\* of the rows its keys were resolved to.
InsertRelation(s) ==
    /\ At(s, "insert")
    /\ LET i  == run[s].item
           ok == ValidateRelation(i.srcKey.type, i.type, i.tgtKey.type)
       IN  SetRun(s, [run[s] EXCEPT
             !.pc = "relations", !.count = @ + 1,
             !.item = Null, !.src = Null, !.tgt = Null,
             !.relations = @ \cup {[id |-> NewId(s), chunk |-> run[s].chunk,
                                    status |-> Verdict(ok), srcKey |-> i.srcKey,
                                    type |-> i.type, tgtKey |-> i.tgtKey,
                                    src |-> run[s].src, tgt |-> run[s].tgt]},
             !.counters = Counted(@, "relations", ok)])
    /\ UNCHANGED <<ontologyVars, stagingVars>>

EndChunk(s) ==
    /\ At(s, "entities") \/ At(s, "relations")
    /\ SetRun(s, [run[s] EXCEPT !.pc = "chunk"])
    /\ UNCHANGED <<ontologyVars, stagingVars>>

-----------------------------------------------------------------------------

\* Rows and EXTRACTION_RUN are published by one commit, after all chunks.
Commit(s) ==
    /\ At(s, "chunk") /\ run[s].todo = {}
    /\ entity' = entity \cup run[s].entities
    /\ relation' = relation \cup run[s].relations
    /\ audit' = [audit EXCEPT ![s] = run[s].counters]
    /\ SetRun(s, DoneRun)
    /\ UNCHANGED ontologyVars

\* The provider raises, the database refuses a row, or the process dies: the
\* session is closed and everything flushed is rolled back.
Fail(s) ==
    /\ run[s].pc \notin {"none", "done"}
    /\ SetRun(s, DoneRun)
    /\ UNCHANGED <<ontologyVars, stagingVars>>

\* What review requests, of which Review gives the steps, may make of a
\* committed entity: any status but PENDING, any name and type, same id and
\* chunk.
ReviewEntity(e, status, key) ==
    /\ entity' = (entity \ {e}) \cup {[e EXCEPT !.status = status, !.key = key]}
    /\ UNCHANGED <<ontologyVars, relation, audit, run>>

RunStep(s) ==
    \/ \E d \in Document : ExtractDocument(s, d)
    \/ \E c \in Chunk : ExtractChunk(s, c)
    \/ NextChunk(s)
    \/ \E key \in Key : SaveEntity(s, key)
    \/ \E candidate \in RelationCandidate : SaveRelation(s, candidate)
    \/ ResolveEntityId(s)
    \/ CreatePlaceholder(s)
    \/ InsertRelation(s)
    \/ EndChunk(s)
    \/ Commit(s)
    \/ Fail(s)

Next ==
    \/ \E s \in Run : RunStep(s)
    \/ \E e \in entity, key \in Key :
         \E status \in {"APPROVED", "REJECTED", "MODIFIED", "MERGED"} :
           ReviewEntity(e, status, key)
    \/ OntologyRequest /\ UNCHANGED <<stagingVars, run>>

Spec == Init /\ [][Next]_vars

-----------------------------------------------------------------------------

Running(s) == run[s].pc \notin {"none", "done"}

\* A relation's foreign keys name entities of the relation's own chunk, also
\* while its request is in flight and whatever committed row it was resolved
\* to: id_by_norm is a dict of one chunk, and every id in it is a row that is
\* flushed by this request or committed (_run, _resolve_entity_id).
KeyHolds(rows, chunk, id) ==
    id # Null => \E e \in rows : e.id = id /\ e.chunk = chunk

KeysInChunk ==
    /\ \A r \in relation : /\ KeyHolds(entity, r.chunk, r.src)
                           /\ KeyHolds(entity, r.chunk, r.tgt)
    /\ \A s \in Run : Running(s) =>
         \A r \in run[s].relations :
            /\ KeyHolds(entity \cup run[s].entities, r.chunk, r.src)
            /\ KeyHolds(entity \cup run[s].entities, r.chunk, r.tgt)

\* No candidate the registry has never known waits for review: a PENDING
\* entity's type and a PENDING relation's signature are registered, though
\* perhaps no longer active, and a placeholder is no way around it.
SchemaChecked ==
    /\ \A e \in entity : e.status = "PENDING" => entityType[e.key.type] # "absent"
    /\ \A r \in relation : r.status = "PENDING" =>
         relationType[[source |-> r.srcKey.type, name |-> r.type,
                       target |-> r.tgtKey.type]] # "absent"

\* The relations of one answer share a placeholder: a request makes none for a
\* name that another of its rows of the chunk has (docs/02-domain-model.md,
\* invariant 4, as far as one request can keep it).
OnePlaceholder ==
    \A s \in Run : Running(s) =>
        \A p, e \in run[s].entities :
            p.placeholder /\ e.chunk = p.chunk /\ e.key.name = p.key.name => e = p

Written(rows, s) == {x \in rows : x.id[1] = s}

\* The rows of a request appear with its EXTRACTION_RUN row or not at all, and
\* that row counts them: what was extracted, what was rejected, placeholders
\* not counted (_run).
AuditTellsRun ==
    [][\A s \in Run :
         LET es == Written(entity', s)
             rs == Written(relation', s)
         IN  IF audit'[s] = audit[s]
             THEN /\ {e.id : e \in es} = {e.id : e \in Written(entity, s)}
                  /\ rs = Written(relation, s)
             ELSE /\ Cardinality({e \in es : e.status = "PENDING"
                                             /\ ~e.placeholder})
                       = audit'[s].entities
                  /\ Cardinality({r \in rs : r.status = "PENDING"})
                       = audit'[s].relations
                  /\ Cardinality({x \in es \cup rs : x.status = "REJECTED"})
                       = audit'[s].violations]_vars

=============================================================================
