----------------------------- MODULE GraphSync ------------------------------
(***************************************************************************)
(* app/services/graph_sync_service.py: loading APPROVED rows from staging  *)
(* into Neo4j, next to the review requests of module Review.               *)
(*                                                                         *)
(* A job is one call of sync_all, sync_approved_entities or                *)
(* sync_approved_relations, in a request thread of its own or, with        *)
(* AUTO_GRAPH_SYNC_ON_APPROVE, at the end of the approve request that      *)
(* triggered it.  graph_sync_log rows are flushed as the loop goes and     *)
(* committed at its end; every Neo4j call is a transaction of its own.     *)
(* Nothing is ever deleted from Neo4j.                                     *)
(***************************************************************************)
EXTENDS Review

CONSTANTS
    Syncer,     \* request threads serving the /graph/sync endpoints
    AutoSync,   \* settings.auto_graph_sync_on_approve
    Faults      \* "neo4j": a Neo4j call may raise; "crash": a job may die

ASSUME GraphSyncAssumption ==
    /\ Reviewer \cap Syncer = {}
    /\ AutoSync \in BOOLEAN
    /\ Faults \subseteq {"neo4j", "crash"}
    /\ Null \notin Content
    /\ Null \notin Relation

VARIABLES
    activeTypes, \* (source type, relation, target type) rows that are active
    node,        \* Neo4j: content of the :Entity node with that id, or Null
    chunkNode,   \* Neo4j: the :DocumentChunk nodes
    definedIn,   \* Neo4j: the DEFINED_IN edges
    edge,        \* Neo4j: the edges between :Entity nodes
    syncLog,     \* committed graph_sync_log rows
    job          \* the sync job each thread is running

graph    == <<node, chunkNode, definedIn, edge>>
syncVars == <<activeTypes, graph, syncLog, job>>
allVars  == <<vars, syncVars>>

-----------------------------------------------------------------------------

Thread    == Reviewer \cup Syncer
Signature == [source : EntityType, name : RelType, target : EntityType]
Item      == Entity \cup Relation
LogRow    == [id : Item, status : {"SUCCESS", "FAILED", "SKIPPED"}]

\* Rows as a job holds them: an entity with its content, a relation with the
\* columns that make its edge.
EntityItem   == [id : Entity, content : Content]
RelationItem == [id : Relation, edge : Edge]
NoItem       == [id |-> Null]

GraphEdge == [id : Relation, type : RelType, src : Entity, tgt : Entity]

EntityPc   == {"selectEntities", "entities", "mergeNode", "mergeChunk",
               "linkChunk"}
RelationPc == {"whitelist", "selectRelations", "relations", "readSource",
               "readTarget", "relationChunk", "linkSource", "linkTarget",
               "mergeEdge"}

\* The steps that call Neo4j.
EntityCall   == {"mergeNode", "mergeChunk", "linkChunk"}
RelationCall == {"relationChunk", "linkSource", "linkTarget", "mergeEdge"}

\* held: the row the approve request has in the session's identity map, which a
\* later SELECT in the same session does not refresh.
Job == [pc : EntityPc \cup RelationPc, scope : {"all", "entities", "relations"},
        force : BOOLEAN, held : EntityItem \cup RelationItem \cup {NoItem},
        todoE : SUBSET EntityItem, todoR : SUBSET RelationItem,
        itemE : EntityItem \cup {NoItem}, itemR : RelationItem \cup {NoItem},
        whitelist : SUBSET RelType, srcOk : BOOLEAN, logs : SUBSET LogRow]
NoJob == [pc |-> "none"]

SyncTypeOK ==
    /\ TypeOK
    /\ activeTypes \subseteq Signature
    /\ node \in [Entity -> Content \cup {Null}]
    /\ chunkNode \subseteq Chunk
    /\ definedIn \subseteq Entity \X Chunk
    /\ edge \subseteq GraphEdge
    /\ syncLog \subseteq LogRow
    /\ job \in [Thread -> Job \cup {NoJob}]

SyncInit ==
    /\ Init
    /\ activeTypes \in SUBSET Signature
    /\ node = [e \in Entity |-> Null]
    /\ chunkNode = {}
    /\ definedIn = {}
    /\ edge = {}
    /\ syncLog = {}
    /\ job = [s \in Thread |-> NoJob]

-----------------------------------------------------------------------------
(* Starting a job. *)

NewJob(scope, force, held) ==
    [pc |-> IF scope = "relations" THEN "whitelist" ELSE "selectEntities",
     scope |-> scope, force |-> force, held |-> held,
     todoE |-> {}, todoR |-> {}, itemE |-> NoItem, itemR |-> NoItem,
     whitelist |-> {}, srcOk |-> FALSE, logs |-> {}]

SetJob(s, j) == job' = [job EXCEPT ![s] = j]

StartSync(s, scope, force) ==
    /\ s \in Syncer
    /\ job[s] = NoJob
    /\ SetJob(s, NewJob(scope, force, NoItem))
    /\ UNCHANGED <<vars, activeTypes, graph, syncLog>>

\* _maybe_auto_sync after approve_entity and after approve_relation.
AutoSyncEntity(s) ==
    /\ CommitEntity(s)
    /\ IF AutoSync /\ entityTxn[s].op = "approve"
       THEN SetJob(s, NewJob("entities", FALSE,
                             [id |-> entityTxn[s].id,
                              content |-> entityTxn[s].mem.content]))
       ELSE UNCHANGED job
    /\ UNCHANGED <<activeTypes, graph, syncLog>>

AutoSyncRelation(s) ==
    /\ CommitRelation(s)
    /\ IF AutoSync /\ relationTxn[s].op = "approve"
       THEN SetJob(s, NewJob("all", FALSE,
                             [id |-> relationTxn[s].id,
                              edge |-> EdgeOf(relationTxn[s].mem)]))
       ELSE UNCHANGED job
    /\ UNCHANGED <<activeTypes, graph, syncLog>>

-----------------------------------------------------------------------------
(* Helpers of the job's steps. *)

At(s, pc) == job[s] # NoJob /\ job[s].pc = pc

Success(x) == [id |-> x, status |-> "SUCCESS"]

\* Mutant of HasSuccess: any row of the log counts, whatever its status.
HasRow(s, x) == \E l \in syncLog \cup job[s].logs : l.id = x

\* has_success sees committed rows and the session's own flushed ones.
HasSuccess(s, x) == Success(x) \in syncLog \cup job[s].logs

\* _record_log: one more flushed row, back to the loop over the rows.
Record(s, x, status, pc) ==
    SetJob(s, [job[s] EXCEPT !.pc = pc, !.itemE = NoItem, !.itemR = NoItem,
                             !.srcOk = FALSE,
                             !.logs = @ \cup {[id |-> x, status |-> status]}])

RecordEntity(s, status)   == Record(s, job[s].itemE.id, status, "entities")
RecordRelation(s, status) == Record(s, job[s].itemR.id, status, "relations")

Goto(s, pc) == SetJob(s, [job[s] EXCEPT !.pc = pc])

\* The answer of a call that took effect may be lost, which raises all the same.
\* Of merge_document_chunk and link_defined_in this is an assumption on the
\* driver: they never read the result of sess.run (neo4j_repository.py:121-128,
\* 137-138), and an error that only arrives with it may be lost in closing the
\* session, so that the row is logged SUCCESS.
AnswerLost == "neo4j" \in Faults

-----------------------------------------------------------------------------
(* _sync_entities. *)

LoadedContent(s, e) ==
    IF job[s].held.id = e THEN job[s].held.content ELSE entity[e].content

\* Mutant of SelectEntities: edited rows are loaded as well.
SelectReviewed(s) ==
    /\ At(s, "selectEntities")
    /\ SetJob(s, [job[s] EXCEPT !.pc = "entities", !.todoE =
                    {[id |-> e, content |-> LoadedContent(s, e)] :
                       e \in {x \in Entity :
                                /\ entity[x].status \in {"APPROVED", "MODIFIED"}
                                /\ entity[x].merged = Null}}])
    /\ UNCHANGED <<vars, activeTypes, graph, syncLog>>

SelectEntities(s) ==
    /\ At(s, "selectEntities")
    /\ SetJob(s, [job[s] EXCEPT !.pc = "entities", !.todoE =
                    {[id |-> e, content |-> LoadedContent(s, e)] :
                       e \in {x \in Entity : /\ entity[x].status = "APPROVED"
                                             /\ entity[x].merged = Null}}])
    /\ UNCHANGED <<vars, activeTypes, graph, syncLog>>

\* Mutant of SkipEntity: the loop does not advance.
SkipEntityStuck(s) ==
    /\ At(s, "entities")
    /\ ~job[s].force
    /\ \E i \in job[s].todoE :
         /\ HasSuccess(s, i.id)
         /\ SetJob(s, [job[s] EXCEPT
                          !.logs = @ \cup {[id |-> i.id, status |-> "SKIPPED"]}])
    /\ UNCHANGED <<vars, activeTypes, graph, syncLog>>

\* Rows of one extraction share created_at, so the order is any order.
SkipEntity(s) ==
    /\ At(s, "entities")
    /\ ~job[s].force
    /\ \E i \in job[s].todoE :
         /\ HasSuccess(s, i.id)
         /\ SetJob(s, [job[s] EXCEPT !.todoE = @ \ {i},
                          !.logs = @ \cup {[id |-> i.id, status |-> "SKIPPED"]}])
    /\ UNCHANGED <<vars, activeTypes, graph, syncLog>>

PickEntity(s) ==
    /\ At(s, "entities")
    /\ \E i \in job[s].todoE :
         /\ job[s].force \/ ~HasSuccess(s, i.id)
         /\ SetJob(s, [job[s] EXCEPT !.pc = "mergeNode", !.itemE = i,
                                     !.todoE = @ \ {i}])
    /\ UNCHANGED <<vars, activeTypes, graph, syncLog>>

MergeNode(s) ==
    /\ At(s, "mergeNode")
    /\ node' = [node EXCEPT ![job[s].itemE.id] = job[s].itemE.content]
    /\ \/ Goto(s, "mergeChunk")
       \/ AnswerLost /\ RecordEntity(s, "FAILED")
    /\ UNCHANGED <<vars, activeTypes, chunkNode, definedIn, edge, syncLog>>

\* Mutants of MergeChunk: the chunk's node is merged under the entity's id; it
\* is not merged at all.
MergeChunkSwapped(s) ==
    /\ At(s, "mergeChunk")
    /\ chunkNode' = chunkNode \cup {job[s].itemE.id}
    /\ Goto(s, "linkChunk")
    /\ UNCHANGED <<vars, activeTypes, node, definedIn, edge, syncLog>>

MergeChunkSkipped(s) ==
    /\ At(s, "mergeChunk")
    /\ Goto(s, "linkChunk")
    /\ UNCHANGED <<vars, activeTypes, graph, syncLog>>

MergeChunk(s) ==
    /\ At(s, "mergeChunk")
    /\ chunkNode' = chunkNode \cup {ChunkOf[job[s].itemE.id]}
    /\ \/ Goto(s, "linkChunk")
       \/ AnswerLost /\ RecordEntity(s, "FAILED")
    /\ UNCHANGED <<vars, activeTypes, node, definedIn, edge, syncLog>>

\* MATCH both ends, then MERGE: nothing happens, silently, if one is missing.
Linked(e, chunk) ==
    IF node[e] # Null /\ chunk \in chunkNode
    THEN definedIn \cup {<<e, chunk>>} ELSE definedIn

LinkChunk(s) ==
    /\ At(s, "linkChunk")
    /\ definedIn' = Linked(job[s].itemE.id, ChunkOf[job[s].itemE.id])
    /\ \/ RecordEntity(s, "SUCCESS")
       \/ AnswerLost /\ RecordEntity(s, "FAILED")
    /\ UNCHANGED <<vars, activeTypes, node, chunkNode, edge, syncLog>>

\* Mutant of FinishEntities: sync_all commits once, at its very end.
FinishEntitiesOpen(s) ==
    /\ At(s, "entities")
    /\ job[s].todoE = {}
    /\ SetJob(s, IF job[s].scope = "all"
                 THEN [job[s] EXCEPT !.pc = "whitelist"] ELSE NoJob)
    /\ UNCHANGED <<vars, activeTypes, graph, syncLog>>

\* The commit after the entities; sync_all goes on with the relations.
FinishEntities(s) ==
    /\ At(s, "entities")
    /\ job[s].todoE = {}
    /\ syncLog' = syncLog \cup job[s].logs
    /\ SetJob(s, IF job[s].scope = "all"
                 THEN [job[s] EXCEPT !.pc = "whitelist", !.logs = {}]
                 ELSE NoJob)
    /\ UNCHANGED <<vars, activeTypes, graph>>

-----------------------------------------------------------------------------
(* _sync_relations. *)

\* The whitelist holds names only, whatever the source and target types.
ReadWhitelist(s) ==
    /\ At(s, "whitelist")
    /\ SetJob(s, [job[s] EXCEPT !.pc = "selectRelations",
                                !.whitelist = {t.name : t \in activeTypes}])
    /\ UNCHANGED <<vars, activeTypes, graph, syncLog>>

LoadedEdge(s, r) ==
    IF job[s].held.id = r THEN job[s].held.edge ELSE EdgeOf(relation[r])

SelectRelations(s) ==
    /\ At(s, "selectRelations")
    /\ SetJob(s, [job[s] EXCEPT !.pc = "relations", !.todoR =
                    {[id |-> r, edge |-> LoadedEdge(s, r)] :
                       r \in {x \in Relation : relation[x].status = "APPROVED"}}])
    /\ UNCHANGED <<vars, activeTypes, graph, syncLog>>

SkipRelation(s) ==
    /\ At(s, "relations")
    /\ ~job[s].force
    /\ \E i \in job[s].todoR :
         /\ HasSuccess(s, i.id)
         /\ SetJob(s, [job[s] EXCEPT !.todoR = @ \ {i},
                          !.logs = @ \cup {[id |-> i.id, status |-> "SKIPPED"]}])
    /\ UNCHANGED <<vars, activeTypes, graph, syncLog>>

\* A relation outside the whitelist or without endpoints fails at once.
Loadable(s, i) ==
    /\ i.edge.type \in job[s].whitelist
    /\ i.edge.src # Null
    /\ i.edge.tgt # Null

PickRelation(s) ==
    /\ At(s, "relations")
    /\ \E i \in job[s].todoR :
         /\ job[s].force \/ ~HasSuccess(s, i.id)
         /\ SetJob(s, IF Loadable(s, i)
                      THEN [job[s] EXCEPT !.pc = "readSource", !.itemR = i,
                                          !.todoR = @ \ {i}]
                      ELSE [job[s] EXCEPT !.todoR = @ \ {i},
                              !.logs = @ \cup {[id |-> i.id, status |-> "FAILED"]}])
    /\ UNCHANGED <<vars, activeTypes, graph, syncLog>>

ReadSourceRow(s) ==
    /\ At(s, "readSource")
    /\ SetJob(s, [job[s] EXCEPT !.pc = "readTarget",
                                !.srcOk = Approved(job[s].itemR.edge.src)])
    /\ UNCHANGED <<vars, activeTypes, graph, syncLog>>

\* Mutant of ReadTargetRow: the ends' own loads are not asked for.
ReadTargetRowUnsynced(s) ==
    /\ At(s, "readTarget")
    /\ LET e     == job[s].itemR.edge
           tgtOk == IF e.tgt = e.src THEN job[s].srcOk ELSE Approved(e.tgt)
       IN  IF job[s].srcOk /\ tgtOk
           THEN Goto(s, "relationChunk")
           ELSE RecordRelation(s, "FAILED")
    /\ UNCHANGED <<vars, activeTypes, graph, syncLog>>

\* A target that is the source is the same object and is not read again.
ReadTargetRow(s) ==
    /\ At(s, "readTarget")
    /\ LET e     == job[s].itemR.edge
           tgtOk == IF e.tgt = e.src THEN job[s].srcOk ELSE Approved(e.tgt)
       IN  IF /\ job[s].srcOk /\ tgtOk
              /\ HasSuccess(s, e.src) /\ HasSuccess(s, e.tgt)
           THEN Goto(s, "relationChunk")
           ELSE RecordRelation(s, "FAILED")
    /\ UNCHANGED <<vars, activeTypes, graph, syncLog>>

RelationChunk(s) ==
    /\ At(s, "relationChunk")
    /\ chunkNode' = chunkNode \cup {ChunkOf[job[s].itemR.id]}
    /\ \/ Goto(s, "linkSource")
       \/ AnswerLost /\ RecordRelation(s, "FAILED")
    /\ UNCHANGED <<vars, activeTypes, node, definedIn, edge, syncLog>>

LinkSource(s) ==
    /\ At(s, "linkSource")
    /\ definedIn' = Linked(job[s].itemR.edge.src, ChunkOf[job[s].itemR.id])
    /\ \/ Goto(s, "linkTarget")
       \/ AnswerLost /\ RecordRelation(s, "FAILED")
    /\ UNCHANGED <<vars, activeTypes, node, chunkNode, edge, syncLog>>

LinkTarget(s) ==
    /\ At(s, "linkTarget")
    /\ definedIn' = Linked(job[s].itemR.edge.tgt, ChunkOf[job[s].itemR.id])
    /\ \/ Goto(s, "mergeEdge")
       \/ AnswerLost /\ RecordRelation(s, "FAILED")
    /\ UNCHANGED <<vars, activeTypes, node, chunkNode, edge, syncLog>>

\* merge_relation returns None, which raises, unless both ends MATCH.
MergeEdge(s) ==
    /\ At(s, "mergeEdge")
    /\ LET i == job[s].itemR
       IN  IF node[i.edge.src] # Null /\ node[i.edge.tgt] # Null
           THEN /\ edge' = edge \cup {[id |-> i.id, type |-> i.edge.type,
                                       src |-> i.edge.src, tgt |-> i.edge.tgt]}
                /\ \/ RecordRelation(s, "SUCCESS")
                   \/ AnswerLost /\ RecordRelation(s, "FAILED")
           ELSE /\ edge' = edge
                /\ RecordRelation(s, "FAILED")
    /\ UNCHANGED <<vars, activeTypes, node, chunkNode, definedIn, syncLog>>

FinishRelations(s) ==
    /\ At(s, "relations")
    /\ job[s].todoR = {}
    /\ syncLog' = syncLog \cup job[s].logs
    /\ SetJob(s, NoJob)
    /\ UNCHANGED <<vars, activeTypes, graph>>

-----------------------------------------------------------------------------
(* Faults. *)

\* Mutant of CallFails: the except clause is forgotten, the row counts as loaded.
CallFailsQuietly(s) ==
    /\ "neo4j" \in Faults
    /\ \/ job[s].pc \in EntityCall /\ RecordEntity(s, "SUCCESS")
       \/ job[s].pc \in RelationCall /\ RecordRelation(s, "SUCCESS")
    /\ UNCHANGED <<vars, activeTypes, graph, syncLog>>

\* A Neo4j call raises without having taken effect: the per-row except clause
\* records FAILED and the loop goes on.
CallFails(s) ==
    /\ "neo4j" \in Faults
    /\ \/ job[s].pc \in EntityCall /\ RecordEntity(s, "FAILED")
       \/ job[s].pc \in RelationCall /\ RecordRelation(s, "FAILED")
    /\ UNCHANGED <<vars, activeTypes, graph, syncLog>>

\* The process dies, or a database error aborts the transaction so that the
\* except clause's own INSERT raises too: the uncommitted log rows are gone.
JobDies(s) ==
    /\ "crash" \in Faults
    /\ job[s] # NoJob
    /\ SetJob(s, NoJob)
    /\ UNCHANGED <<vars, activeTypes, graph, syncLog>>

-----------------------------------------------------------------------------
(* The ontology registry's create, update (is_active) and deactivate. *)

SetRelationType(t, active) ==
    /\ activeTypes' = IF active THEN activeTypes \cup {t} ELSE activeTypes \ {t}
    /\ UNCHANGED <<vars, graph, syncLog, job>>

-----------------------------------------------------------------------------

\* A reviewer's thread takes its next request when its auto sync has ended.
ReviewStep(s) ==
    /\ job[s] = NoJob
    /\ EntityRequest(s) \/ RelationRequest(s) \/ ReadSource(s) \/ ReadTarget(s)
       \/ Abort(s)
    /\ UNCHANGED syncVars

SyncEntitiesStep(s) ==
    \/ SelectEntities(s) \/ SkipEntity(s) \/ PickEntity(s)
    \/ MergeNode(s) \/ MergeChunk(s) \/ LinkChunk(s) \/ FinishEntities(s)

SyncRelationsStep(s) ==
    \/ ReadWhitelist(s) \/ SelectRelations(s) \/ SkipRelation(s) \/ PickRelation(s)
    \/ ReadSourceRow(s) \/ ReadTargetRow(s) \/ RelationChunk(s)
    \/ LinkSource(s) \/ LinkTarget(s) \/ MergeEdge(s) \/ FinishRelations(s)

JobStep(s) == SyncEntitiesStep(s) \/ SyncRelationsStep(s)

SyncNext ==
    \/ \E s \in Reviewer :
         ReviewStep(s) \/ AutoSyncEntity(s) \/ AutoSyncRelation(s)
    \/ \E s \in Syncer, scope \in {"all", "entities", "relations"}, f \in BOOLEAN :
         StartSync(s, scope, f)
    \/ \E s \in Thread : JobStep(s) \/ CallFails(s) \/ JobDies(s)
    \/ \E t \in Signature, a \in BOOLEAN : SetRelationType(t, a)

SyncSpec == SyncInit /\ [][SyncNext]_allVars

-----------------------------------------------------------------------------
(* Properties of every run. *)

EntityLoaded(e) == node[e] # Null /\ <<e, ChunkOf[e]>> \in definedIn

RelationLoaded(r) ==
    \E d \in edge : /\ d.id = r
                    /\ <<d.src, ChunkOf[r]>> \in definedIn
                    /\ <<d.tgt, ChunkOf[r]>> \in definedIn

Loaded(x) == IF x \in Entity THEN EntityLoaded(x) ELSE RelationLoaded(x)

\* A committed SUCCESS row tells the truth about Neo4j for good: the node is
\* there with its DEFINED_IN edge, the relation's edge is there and both its
\* ends are DEFINED_IN the relation's chunk - whatever other jobs, failed
\* calls and crashes did in between (_sync_one_entity, _sync_one_relation).
SuccessIsInGraph == \A x \in Item : Success(x) \in syncLog => Loaded(x)

\* An edge is loaded only between entities whose own load is committed in
\* graph_sync_log: sync_all commits the entity logs before the relations, and a
\* crash in between leaves no edge whose ends have no SUCCESS row.
EdgesAfterEndpoints ==
    \A d \in edge :
        Success(d.src) \in syncLog /\ Success(d.tgt) \in syncLog

\* Whatever is in the graph has an approval on record, and an edge has both its
\* ends in the graph: no path from LLM output to Neo4j around the review.
GraphOnRecord ==
    /\ \A e \in Entity : node[e] # Null => entityVouched[e] # {}
    /\ \A d \in edge : /\ relationVouched[d.id] # {}
                       /\ node[d.src] # Null /\ node[d.tgt] # Null

\* What a job in flight may rely on although reviewers, other jobs and faults go
\* on around it: what it has selected was approved once, what it has called
\* Neo4j for so far is still there, its uncommitted SUCCESS rows are true, and
\* none of them is an entity's once it works on relations.
JobInFlight(j) ==
    LET e     == j.itemE.id
        r     == j.itemR.id
        ends  == {j.itemR.edge.src, j.itemR.edge.tgt}
    IN  /\ \A i \in j.todoE : entityVouched[i.id] # {}
        /\ \A i \in j.todoR : relationVouched[i.id] # {}
        /\ \A l \in j.logs : l = Success(l.id) => Loaded(l.id)
        /\ j.pc \in EntityPc => \A l \in j.logs : l.id \in Entity
        /\ j.pc \in RelationPc => \A l \in j.logs : l.id \in Relation
        /\ j.pc \in EntityCall =>
              j.itemE \in EntityItem /\ entityVouched[e] # {}
        /\ j.pc \in {"mergeChunk", "linkChunk"} => node[e] # Null
        /\ j.pc = "linkChunk" => ChunkOf[e] \in chunkNode
        /\ j.pc \in {"readSource", "readTarget"} \cup RelationCall =>
              /\ j.itemR \in RelationItem /\ relationVouched[r] # {}
              /\ Null \notin ends
        /\ j.pc \in RelationCall => \A x \in ends : Success(x) \in syncLog
        /\ j.pc \in RelationCall \ {"relationChunk"} => ChunkOf[r] \in chunkNode
        /\ j.pc \in {"linkTarget", "mergeEdge"} =>
              <<j.itemR.edge.src, ChunkOf[r]>> \in definedIn
        /\ j.pc = "mergeEdge" => <<j.itemR.edge.tgt, ChunkOf[r]>> \in definedIn

JobsInFlight == \A s \in Thread : job[s] # NoJob => JobInFlight(job[s])

-----------------------------------------------------------------------------
(* Properties of runs with one reviewer, so that review requests do not      *)
(* overlap one another; any number of sync jobs overlaps them.               *)

\* The content a node shows, and the type and ends of an edge, are ones an
\* approval was given for.
GraphAsVouched ==
    /\ \A e \in Entity : node[e] # Null => node[e] \in entityVouched[e]
    /\ \A d \in edge :
         [type |-> d.type, src |-> d.src, tgt |-> d.tgt] \in relationVouched[d.id]

-----------------------------------------------------------------------------
(* Statements of the documents that the code does not keep. *)

\* The (source type, relation, target type) of every edge is registered.
EdgesInSchema ==
    \A d \in edge :
        [source |-> node[d.src].type, name |-> d.type,
         target |-> node[d.tgt].type] \in activeTypes

-----------------------------------------------------------------------------
(* Liveness, when nothing fails. *)

\* A thread that is serving a job keeps running, and somebody calls POST
\* /graph/sync (not forced) again and again.
Fairness ==
    /\ \A s \in Thread : WF_allVars(JobStep(s))
    /\ \A s \in Syncer : SF_allVars(StartSync(s, "all", FALSE))

\* A job ends, whatever the review requests do to the rows under it.
JobsEnd == \A s \in Thread : job[s] # NoJob ~> job[s] = NoJob

\* An entity that stays APPROVED and unmerged is loaded, and a relation that
\* stays APPROVED over two of them, with a type that stays in the whitelist:
\* a row that FAILED because its job ran too early is tried again.
Stays(e) == entity[e].status = "APPROVED" /\ entity[e].merged = Null

ApprovedIsLoaded ==
    /\ \A e \in Entity : <>[]Stays(e) => <>EntityLoaded(e)
    /\ \A r \in Relation :
         <>[](/\ relation[r].status = "APPROVED"
              /\ Stays(relation[r].src) /\ Stays(relation[r].tgt)
              /\ \E t \in activeTypes : t.name = relation[r].type)
           => <>RelationLoaded(r)

\* The document's promise, which the code does not keep: the stored content of
\* an entity that stays APPROVED reaches the graph.  It does not when the row
\* was loaded before under another content (SUCCESS is for ever) nor when it
\* was merged before it was approved.
ApprovedReachesGraph ==
    \A e \in Entity, c \in Content :
        <>[](entity[e].status = "APPROVED" /\ entity[e].content = c)
            => []<>(node[e] = c)

-----------------------------------------------------------------------------
(* The abstract specification this one implements. *)

VouchedLinks ==
    UNION {{<<r, d.src, d.tgt>> : d \in relationVouched[r]} : r \in Relation}

Governed == INSTANCE GovernedGraph WITH
    vouchedE <- {e \in Entity : entityVouched[e] # {}},
    vouchedR <- VouchedLinks,
    nodes    <- {e \in Entity : node[e] # Null},
    edges    <- {<<d.id, d.src, d.tgt>> : d \in edge}

\* Review, sync, overlap and faults together keep the promise of GovernedGraph.
KeepsGovernance == Governed!Spec

=============================================================================
