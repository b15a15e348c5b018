------------------------------- MODULE Review -------------------------------
(***************************************************************************)
(* The review workflow of app/services/review_service.py over the staging  *)
(* tables extracted_entity and extracted_relation.                         *)
(*                                                                         *)
(* A request runs in a thread of its own with a SQLAlchemy session of its  *)
(* own under READ COMMITTED: it SELECTs the row, assigns columns of the    *)
(* object in memory, and flush + audit insert + commit publish the change. *)
(* The UPDATE carries only the columns whose value differs from the loaded *)
(* one, so a column the request did not change keeps whatever another      *)
(* request has committed meanwhile.                                        *)
(*                                                                         *)
(* Of audit_log the model keeps what the properties read: under which      *)
(* content each item has an approval row.                                  *)
(***************************************************************************)
EXTENDS FiniteSets

CONSTANTS
    Entity,     \* ids of extracted_entity rows
    Relation,   \* ids of extracted_relation rows
    Reviewer,   \* request threads serving the review endpoints
    Chunk,      \* ids of document_chunk rows
    Name,       \* normalized names
    EntityType, \* entity type names
    RelType,    \* relation type names
    ChunkOf,    \* the chunk an entity or a relation was extracted from
    Null        \* SQL NULL in a foreign key

ASSUME ReviewAssumption ==
    /\ Null \notin Entity
    /\ Entity \cap Relation = {}
    /\ ChunkOf \in [Entity \cup Relation -> Chunk]

VARIABLES
    entity,         \* the rows of extracted_entity
    relation,       \* the rows of extracted_relation
    entityVouched,  \* contents under which ENTITY_APPROVED rows name an entity
    relationVouched,\* edges under which RELATION_APPROVED rows name a relation
    entityTxn,      \* the entity request each thread is serving
    relationTxn     \* the relation request each thread is serving

staging  == <<entity, relation>>
vouched  == <<entityVouched, relationVouched>>
vars     == <<entity, relation, entityVouched, relationVouched,
              entityTxn, relationTxn>>

-----------------------------------------------------------------------------

Status == {"PENDING", "APPROVED", "REJECTED", "MODIFIED", "MERGED"}

\* The columns normalized_name and entity_type of an entity, or those by which a
\* relation names an end.
Content == [name : Name, type : EntityType]

EntityRow == [status : Status, content : Content, merged : Entity \cup {Null}]

\* srcKey and tgtKey are source/target_entity_name and _type; src and tgt the
\* nullable foreign keys.
RelationRow == [status : Status, type : RelType,
                srcKey : Content, tgtKey : Content,
                src : Entity \cup {Null}, tgt : Entity \cup {Null}]

\* The part of a relation's after image that becomes an edge of the graph.
Edge == [type : RelType, src : Entity \cup {Null}, tgt : Entity \cup {Null}]
EdgeOf(row) == [type |-> row.type, src |-> row.src, tgt |-> row.tgt]

\* A request in flight: the row as loaded and the object as assigned.
EntityOp    == {"approve", "reject", "modify", "merge"}
EntityTxn   == [op : EntityOp, id : Entity,
                loaded : EntityRow, mem : EntityRow]
RelationTxn == [op : EntityOp, id : Relation,
                pc : {"source", "target", "commit"}, srcOk : BOOLEAN,
                loaded : RelationRow, mem : RelationRow]
NoTxn       == [op |-> "none"]

TypeOK ==
    /\ entity \in [Entity -> EntityRow]
    /\ relation \in [Relation -> RelationRow]
    /\ entityVouched \in [Entity -> SUBSET Content]
    /\ relationVouched \in [Relation -> SUBSET Edge]
    /\ entityTxn \in [Reviewer -> EntityTxn \cup {NoTxn}]
    /\ relationTxn \in [Reviewer -> RelationTxn \cup {NoTxn}]

-----------------------------------------------------------------------------

\* What an extraction run may leave behind: candidates are PENDING, or REJECTED
\* by "system" on a schema violation; a foreign key points at an entity of the
\* same chunk with the referenced name (id_by_norm is keyed by name alone, so
\* the type may differ) or is NULL.
ExtractedKey(r, fk, key) ==
    fk # Null => /\ ChunkOf[fk] = ChunkOf[r]
                 /\ entity[fk].content.name = key.name

ExtractedEntities ==
    [Entity -> [status : {"PENDING", "REJECTED"}, content : Content,
                merged : {Null}]]

ExtractedRelations ==
    [Relation -> [status : {"PENDING", "REJECTED"}, type : RelType,
                  srcKey : Content, tgtKey : Content,
                  src : Entity \cup {Null}, tgt : Entity \cup {Null}]]

Init ==
    /\ entity \in ExtractedEntities
    /\ relation \in ExtractedRelations
    /\ \A r \in Relation : /\ ExtractedKey(r, relation[r].src, relation[r].srcKey)
                           /\ ExtractedKey(r, relation[r].tgt, relation[r].tgtKey)
    /\ entityVouched = [e \in Entity |-> {}]
    /\ relationVouched = [r \in Relation |-> {}]
    /\ entityTxn = [s \in Reviewer |-> NoTxn]
    /\ relationTxn = [s \in Reviewer |-> NoTxn]

Idle(s) == entityTxn[s] = NoTxn /\ relationTxn[s] = NoTxn

-----------------------------------------------------------------------------
(* Entity requests: load the row and assign the object.  No operation looks  *)
(* at the current status.                                                    *)

BeginEntity(s, e, op, mem) ==
    /\ Idle(s)
    /\ entityTxn' = [entityTxn EXCEPT ![s] =
                        [op |-> op, id |-> e, loaded |-> entity[e], mem |-> mem]]
    /\ UNCHANGED <<staging, vouched, relationTxn>>

ApproveEntity(s, e) ==
    BeginEntity(s, e, "approve", [entity[e] EXCEPT !.status = "APPROVED"])

RejectEntity(s, e) ==
    BeginEntity(s, e, "reject", [entity[e] EXCEPT !.status = "REJECTED"])

\* Mutants of ModifyEntity: a field the request leaves out is stored as NULL;
\* the status is left as it was.
ModifyEntityUnset(s, e, c) ==
    \E d \in {c, [c EXCEPT !.name = Null]} :
        BeginEntity(s, e, "modify",
                    [entity[e] EXCEPT !.status = "MODIFIED", !.content = d])

ModifyEntityInPlace(s, e, c) ==
    BeginEntity(s, e, "modify", [entity[e] EXCEPT !.content = c])

\* A field the request does not set keeps what was loaded.
ModifyEntity(s, e, c) ==
    BeginEntity(s, e, "modify",
                [entity[e] EXCEPT !.status = "MODIFIED", !.content = c])

\* The target must exist and differ from e; its status is not looked at.
MergeEntity(s, e, target) ==
    /\ target # e
    /\ BeginEntity(s, e, "merge",
                   [entity[e] EXCEPT !.status = "MERGED", !.merged = target])

\* The UPDATE of a flush: a column is written iff memory differs from the load.
Flushed(current, loaded, mem) == IF mem # loaded THEN mem ELSE current

\* Name and type are columns of their own.
FlushedContent(current, loaded, mem) ==
    [name |-> Flushed(current.name, loaded.name, mem.name),
     type |-> Flushed(current.type, loaded.type, mem.type)]

\* Mutant of FlushEntity: only the status is written.
FlushEntityStatus(row, txn) ==
    [row EXCEPT !.status = Flushed(row.status, txn.loaded.status, txn.mem.status)]

FlushEntity(row, txn) ==
    [status  |-> Flushed(row.status, txn.loaded.status, txn.mem.status),
     content |-> FlushedContent(row.content, txn.loaded.content, txn.mem.content),
     merged  |-> Flushed(row.merged, txn.loaded.merged, txn.mem.merged)]

\* Mutant of CommitEntity: no audit row.
CommitEntityUnaudited(s) ==
    /\ entityTxn[s] # NoTxn
    /\ LET txn == entityTxn[s]
       IN  entity' = [entity EXCEPT ![txn.id] = FlushEntity(@, txn)]
    /\ entityTxn' = [entityTxn EXCEPT ![s] = NoTxn]
    /\ UNCHANGED <<relation, vouched, relationTxn>>

\* flush, audit.log (after = the object in memory) and commit.
CommitEntity(s) ==
    /\ entityTxn[s] # NoTxn
    /\ LET txn == entityTxn[s]
       IN  /\ entity' = [entity EXCEPT ![txn.id] = FlushEntity(@, txn)]
           /\ entityVouched' =
                IF txn.op = "approve"
                THEN [entityVouched EXCEPT ![txn.id] = @ \cup {txn.mem.content}]
                ELSE entityVouched
    /\ entityTxn' = [entityTxn EXCEPT ![s] = NoTxn]
    /\ UNCHANGED <<relation, relationVouched, relationTxn>>

-----------------------------------------------------------------------------
(* Relation requests. *)

BeginRelation(s, r, op, pc, mem) ==
    /\ Idle(s)
    /\ relationTxn' = [relationTxn EXCEPT ![s] =
                          [op |-> op, id |-> r, pc |-> pc, srcOk |-> FALSE,
                           loaded |-> relation[r], mem |-> mem]]
    /\ UNCHANGED <<staging, vouched, entityTxn>>

ApproveRelation(s, r) ==
    BeginRelation(s, r, "approve", "source",
                  [relation[r] EXCEPT !.status = "APPROVED"])

\* Mutant of RejectRelation: the foreign keys are cleared as well.
RejectRelationUnlinked(s, r) ==
    BeginRelation(s, r, "reject", "commit",
                  [relation[r] EXCEPT !.status = "REJECTED",
                                      !.src = Null, !.tgt = Null])

RejectRelation(s, r) ==
    BeginRelation(s, r, "reject", "commit",
                  [relation[r] EXCEPT !.status = "REJECTED"])

\* The endpoints' names and types may change, the foreign keys never do, and
\* the result is not validated against the ontology.
ModifyRelation(s, r, type, srcKey, tgtKey) ==
    BeginRelation(s, r, "modify", "commit",
                  [relation[r] EXCEPT !.status = "MODIFIED", !.type = type,
                                      !.srcKey = srcKey, !.tgtKey = tgtKey])

MergeRelation(s, r, target) ==
    /\ target # r
    /\ BeginRelation(s, r, "merge", "commit",
                     [relation[r] EXCEPT !.status = "MERGED"])

\* find_pending_entity: .first() of an unordered SELECT, any row that matches.
FindPendingEntity(chunk, key) ==
    {e \in Entity : /\ ChunkOf[e] = chunk
                    /\ entity[e].content = key
                    /\ entity[e].status \in {"PENDING", "APPROVED", "MODIFIED"}}

\* _resolve_relation_endpoint: an existing foreign key wins, the lookup by
\* (chunk, name, type) is the fallback.  Rows are never deleted.
ResolveEndpoint(r, fk, key) ==
    IF fk # Null THEN {fk}
    ELSE LET found == FindPendingEntity(ChunkOf[r], key)
         IN  IF found = {} THEN {Null} ELSE found

\* Mutant of Approved: an edited entity counts as approved.
Reviewed(e) == e # Null /\ entity[e].status \in {"APPROVED", "MODIFIED"}

Approved(e) == e # Null /\ entity[e].status = "APPROVED"

\* Mutant of ReadSource: a resolved key is judged but not stored.
ReadSourceUnstored(s) ==
    /\ relationTxn[s] # NoTxn /\ relationTxn[s].pc = "source"
    /\ LET txn == relationTxn[s]
       IN  \E e \in ResolveEndpoint(txn.id, txn.loaded.src, txn.loaded.srcKey) :
             relationTxn' = [relationTxn EXCEPT ![s] =
                [txn EXCEPT !.pc = "target", !.srcOk = Approved(e)]]
    /\ UNCHANGED <<staging, vouched, entityTxn>>

ReadSource(s) ==
    /\ relationTxn[s] # NoTxn /\ relationTxn[s].pc = "source"
    /\ LET txn == relationTxn[s]
       IN  \E e \in ResolveEndpoint(txn.id, txn.loaded.src, txn.loaded.srcKey) :
             relationTxn' = [relationTxn EXCEPT ![s] =
                [txn EXCEPT !.pc = "target", !.srcOk = Approved(e), !.mem.src = e]]
    /\ UNCHANGED <<staging, vouched, entityTxn>>

\* Mutant of ReadTarget: the verdict looks at the source only.
ReadTargetUnjudged(s) ==
    /\ relationTxn[s] # NoTxn /\ relationTxn[s].pc = "target"
    /\ LET txn == relationTxn[s]
       IN  \E e \in ResolveEndpoint(txn.id, txn.loaded.tgt, txn.loaded.tgtKey) :
             relationTxn' = [relationTxn EXCEPT ![s] =
                IF txn.srcOk THEN [txn EXCEPT !.pc = "commit", !.mem.tgt = e]
                ELSE NoTxn]
    /\ UNCHANGED <<staging, vouched, entityTxn>>

\* The second read and evaluate_relation_approval.  A target that is the source
\* is the same object of the identity map and is not read again.  A refused
\* request ends with 409.
ReadTarget(s) ==
    /\ relationTxn[s] # NoTxn /\ relationTxn[s].pc = "target"
    /\ LET txn == relationTxn[s]
       IN  \E e \in ResolveEndpoint(txn.id, txn.loaded.tgt, txn.loaded.tgtKey) :
             LET tgtOk == IF e = txn.mem.src THEN txn.srcOk ELSE Approved(e)
             IN  relationTxn' = [relationTxn EXCEPT ![s] =
                   IF txn.srcOk /\ tgtOk
                   THEN [txn EXCEPT !.pc = "commit", !.mem.tgt = e]
                   ELSE NoTxn]
    /\ UNCHANGED <<staging, vouched, entityTxn>>

FlushRelation(row, txn) ==
    [status |-> Flushed(row.status, txn.loaded.status, txn.mem.status),
     type   |-> Flushed(row.type, txn.loaded.type, txn.mem.type),
     srcKey |-> FlushedContent(row.srcKey, txn.loaded.srcKey, txn.mem.srcKey),
     tgtKey |-> FlushedContent(row.tgtKey, txn.loaded.tgtKey, txn.mem.tgtKey),
     src    |-> Flushed(row.src, txn.loaded.src, txn.mem.src),
     tgt    |-> Flushed(row.tgt, txn.loaded.tgt, txn.mem.tgt)]

CommitRelation(s) ==
    /\ relationTxn[s] # NoTxn /\ relationTxn[s].pc = "commit"
    /\ LET txn == relationTxn[s]
       IN  /\ relation' = [relation EXCEPT ![txn.id] = FlushRelation(@, txn)]
           /\ relationVouched' =
                IF txn.op = "approve"
                THEN [relationVouched EXCEPT ![txn.id] = @ \cup {EdgeOf(txn.mem)}]
                ELSE relationVouched
    /\ relationTxn' = [relationTxn EXCEPT ![s] = NoTxn]
    /\ UNCHANGED <<entity, entityVouched, entityTxn>>

\* The request dies before its commit: a database error, or the process is
\* killed.  Closing the session rolls the transaction back.
Abort(s) ==
    /\ ~Idle(s)
    /\ entityTxn' = [entityTxn EXCEPT ![s] = NoTxn]
    /\ relationTxn' = [relationTxn EXCEPT ![s] = NoTxn]
    /\ UNCHANGED <<staging, vouched>>

-----------------------------------------------------------------------------

EntityRequest(s) ==
    \E e \in Entity :
        \/ ApproveEntity(s, e)
        \/ RejectEntity(s, e)
        \/ \E c \in Content : ModifyEntity(s, e, c)
        \/ \E target \in Entity : MergeEntity(s, e, target)

RelationRequest(s) ==
    \E r \in Relation :
        \/ ApproveRelation(s, r)
        \/ RejectRelation(s, r)
        \/ \E t \in RelType, k, l \in Content : ModifyRelation(s, r, t, k, l)
        \/ \E target \in Relation : MergeRelation(s, r, target)

Next ==
    \E s \in Reviewer :
        \/ EntityRequest(s)
        \/ RelationRequest(s)
        \/ CommitEntity(s)
        \/ ReadSource(s)
        \/ ReadTarget(s)
        \/ CommitRelation(s)
        \/ Abort(s)

Spec == Init /\ [][Next]_vars

-----------------------------------------------------------------------------
(* Properties of every run, however many requests are in flight. *)

\* An APPROVED row has an approval row in audit_log: approve_entity and
\* approve_relation write both in one transaction, and no other operation and
\* no overlapping flush produces the status.
ApprovalOnRecord ==
    /\ \A e \in Entity : entity[e].status = "APPROVED" => entityVouched[e] # {}
    /\ \A r \in Relation : relation[r].status = "APPROVED" => relationVouched[r] # {}

\* An APPROVED relation has both foreign keys, and both endpoints have been
\* approved at some time, even when two approvals resolved a NULL key to
\* different entities or an endpoint was rejected meanwhile
\* (_assert_relation_endpoints_approved).
OnRecord(e) == e # Null /\ entityVouched[e] # {}

EndpointsOnRecord ==
    \A r \in Relation :
        relation[r].status = "APPROVED" =>
            OnRecord(relation[r].src) /\ OnRecord(relation[r].tgt)

\* The same of every edge an approval row names, for all time: what the graph
\* may be loaded with later.
VouchedEdgesOnRecord ==
    \A r \in Relation : \A d \in relationVouched[r] :
        OnRecord(d.src) /\ OnRecord(d.tgt)

\* What a request in flight has read and decided stays good until its commit,
\* whatever the others commit meanwhile: only an approval carries APPROVED, only
\* one whose endpoints have approvals on record reaches its commit, and a
\* foreign key it saw set is still that one or was refilled by an approval.
\* This is why the three properties above survive any interleaving.
StillResolved(loadedKey, key) ==
    loadedKey # Null => key = loadedKey \/ OnRecord(key)

EntityInFlight(txn) == txn.mem.status = "APPROVED" => txn.op = "approve"

RelationInFlight(txn) ==
    /\ txn.mem.status = "APPROVED" => txn.op = "approve"
    /\ txn.op # "approve" => /\ txn.pc = "commit"
                             /\ txn.mem.src = txn.loaded.src
                             /\ txn.mem.tgt = txn.loaded.tgt
    /\ txn.pc = "target" /\ txn.srcOk => OnRecord(txn.mem.src)
    /\ txn.pc = "commit" /\ txn.op = "approve" =>
            OnRecord(txn.mem.src) /\ OnRecord(txn.mem.tgt)
    /\ StillResolved(txn.loaded.src, relation[txn.id].src)
    /\ StillResolved(txn.loaded.tgt, relation[txn.id].tgt)

RequestsInFlight ==
    \A s \in Reviewer :
        /\ entityTxn[s] # NoTxn => EntityInFlight(entityTxn[s])
        /\ relationTxn[s] # NoTxn => RelationInFlight(relationTxn[s])

-----------------------------------------------------------------------------
(* Properties of requests that do not overlap (one reviewer).  With two      *)
(* none of them holds: there is no lock and no version column.               *)

\* A relation becomes APPROVED only while both endpoints are APPROVED.
ApprovalGuard ==
    [][\A r \in Relation :
         relation[r].status # "APPROVED" /\ relation'[r].status = "APPROVED" =>
            Approved(relation'[r].src) /\ Approved(relation'[r].tgt)]_vars

\* The after image an audit row records is the row that the commit leaves.
AuditTellsStaging ==
    [][\A s \in Reviewer :
         /\ CommitEntity(s) => entity'[entityTxn[s].id] = entityTxn[s].mem
         /\ CommitRelation(s) => relation'[relationTxn[s].id] = relationTxn[s].mem]_vars

\* What an APPROVED row says now is what an approval was given for: the
\* expert's verdict is on this content, not on an earlier or a later one.
ApprovedAsVouched ==
    /\ \A e \in Entity :
         entity[e].status = "APPROVED" => entity[e].content \in entityVouched[e]
    /\ \A r \in Relation :
         relation[r].status = "APPROVED" => EdgeOf(relation[r]) \in relationVouched[r]

=============================================================================
