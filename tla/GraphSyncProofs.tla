-------------------------- MODULE GraphSyncProofs ---------------------------
(***************************************************************************)
(* Proofs about module GraphSync: any number of reviewers, of sync jobs,   *)
(* of auto syncs, of failing Neo4j calls and of crashes.                   *)
(***************************************************************************)
EXTENDS GraphSync, ReviewProofs

(* Next to the sync jobs, the review still is the review of module Review:   *)
(* what is proved there holds here.                                          *)

LEMMA JobStepsAreNotReview ==
    ASSUME NEW s \in Thread, JobStep(s) \/ CallFails(s) \/ JobDies(s)
    PROVE  UNCHANGED vars /\ UNCHANGED activeTypes
BY DEF JobStep, SyncEntitiesStep, SyncRelationsStep, SelectEntities, SkipEntity,
       PickEntity, MergeNode, MergeChunk, LinkChunk, FinishEntities,
       ReadWhitelist, SelectRelations, SkipRelation, PickRelation,
       ReadSourceRow, ReadTargetRow, RelationChunk, LinkSource, LinkTarget,
       MergeEdge, FinishRelations, CallFails, JobDies

LEMMA StepIsReviewStep ==
    ASSUME [SyncNext]_allVars
    PROVE  [Next]_vars
<1>1. CASE UNCHANGED allVars
  BY <1>1 DEF allVars
<1>2. ASSUME NEW s \in Reviewer, ReviewStep(s) \/ AutoSyncEntity(s) \/ AutoSyncRelation(s)
      PROVE  Next
  BY <1>2 DEF ReviewStep, AutoSyncEntity, AutoSyncRelation, Next
<1>3. ASSUME NEW s \in Syncer, NEW scope, NEW f, StartSync(s, scope, f)
      PROVE  UNCHANGED vars
  BY <1>3 DEF StartSync
<1>4. ASSUME NEW t, NEW a, SetRelationType(t, a)
      PROVE  UNCHANGED vars
  BY <1>4 DEF SetRelationType
<1> QED BY <1>1, <1>2, <1>3, <1>4, JobStepsAreNotReview DEF SyncNext

THEOREM SyncKeepsReview == SyncSpec => Spec
<1>1. SyncInit => Init
  BY DEF SyncInit
<1> QED BY <1>1, StepIsReviewStep, PTL DEF SyncSpec, Spec

-----------------------------------------------------------------------------
(* Type correctness. *)

LEMMA NoJobType == NoJob \notin Job /\ NoItem \notin EntityItem \cup RelationItem
<1>1. NoJob.pc = "none" /\ \A j \in Job : j.pc # "none"
  BY DEF NoJob, Job, EntityPc, RelationPc
<1>2. NoItem.id = Null
  BY DEF NoItem
<1>3. \A i \in EntityItem \cup RelationItem : i.id # Null
  BY ReviewAssumption, GraphSyncAssumption DEF EntityItem, RelationItem
<1> QED BY <1>1, <1>2, <1>3

LEMMA NewJobType ==
    ASSUME NEW scope \in {"all", "entities", "relations"}, NEW force \in BOOLEAN,
           NEW held \in EntityItem \cup RelationItem \cup {NoItem}
    PROVE  NewJob(scope, force, held) \in Job
BY DEF NewJob, Job, EntityPc, RelationPc

LEMMA SyncInitType == SyncInit => SyncTypeOK
BY InitType DEF SyncInit, SyncTypeOK

-----------------------------------------------------------------------------
(* The inductive invariant.  SuccessIsInGraph and EdgesAfterEndpoints are    *)
(* promises about rows written at the end of a job from what its calls did   *)
(* long before: JobsInFlight carries them from the call to the commit.       *)

SyncInv ==
    /\ ReviewInv
    /\ SyncTypeOK
    /\ SuccessIsInGraph
    /\ EdgesAfterEndpoints
    /\ GraphOnRecord
    /\ JobsInFlight

LEMMA SyncInitInv == SyncInit => SyncInv
<1> SUFFICES ASSUME SyncInit PROVE SyncInv
  OBVIOUS
<1>1. ReviewInv /\ SyncTypeOK
  BY InitInv, SyncInitType DEF SyncInit
<1>2. SuccessIsInGraph /\ EdgesAfterEndpoints /\ GraphOnRecord
  BY DEF SyncInit, SuccessIsInGraph, EdgesAfterEndpoints, GraphOnRecord
<1>3. JobsInFlight
  BY DEF SyncInit, JobsInFlight
<1> QED BY <1>1, <1>2, <1>3 DEF SyncInv

\* Nothing is ever taken back: from audit_log, graph_sync_log or Neo4j.
Grows ==
    /\ \A e \in Entity : entityVouched[e] # {} => entityVouched'[e] # {}
    /\ \A r \in Relation : relationVouched[r] # {} => relationVouched'[r] # {}
    /\ \A e \in Entity : node[e] # Null => node'[e] # Null
    /\ chunkNode \subseteq chunkNode'
    /\ definedIn \subseteq definedIn'
    /\ edge \subseteq edge'
    /\ syncLog \subseteq syncLog'

LEMMA ReviewGrows ==
    ASSUME TypeOK, [Next]_vars
    PROVE  /\ \A e \in Entity : entityVouched[e] # {} => entityVouched'[e] # {}
           /\ \A r \in Relation : relationVouched[r] # {} => relationVouched'[r] # {}
<1>1. ASSUME NEW e \in Entity, entityVouched[e] # {} PROVE entityVouched'[e] # {}
  BY <1>1, OnRecordStable, ReviewAssumption DEF OnRecord
<1>2. ASSUME NEW s \in Reviewer, CommitRelation(s), NEW r \in Relation,
             relationVouched[r] # {}
      PROVE  relationVouched'[r] # {}
  BY <1>2 DEF CommitRelation, TypeOK
<1>3. Next => UNCHANGED relationVouched \/ \E s \in Reviewer : CommitRelation(s)
  BY DEF Next, EntityRequest, RelationRequest, ApproveEntity, RejectEntity,
         ModifyEntity, MergeEntity, BeginEntity, ApproveRelation,
         RejectRelation, ModifyRelation, MergeRelation, BeginRelation,
         ReadSource, ReadTarget, CommitEntity, Abort, vouched
<1> QED BY <1>1, <1>2, <1>3 DEF vars

\* What a loaded row and a job rely on survives growth.
LEMMA LoadedStable ==
    ASSUME Grows, NEW x \in Item, Loaded(x)
    PROVE  Loaded(x)'
<1>1. CASE x \in Entity
  BY <1>1 DEF Grows, Loaded, EntityLoaded
<1>2. CASE x \notin Entity
  <2>1. PICK d \in edge : /\ d.id = x
                          /\ <<d.src, ChunkOf[x]>> \in definedIn
                          /\ <<d.tgt, ChunkOf[x]>> \in definedIn
    BY <1>2 DEF Loaded, RelationLoaded
  <2>2. RelationLoaded(x)'
    BY <2>1 DEF Grows, RelationLoaded
  <2> QED BY <1>2, <2>2 DEF Loaded
<1> QED BY <1>1, <1>2

LEMMA JobInFlightStable ==
    ASSUME Grows, NEW j \in Job, JobInFlight(j)
    PROVE  JobInFlight(j)'
<1>1. \A l \in j.logs : l = Success(l.id) => Loaded(l.id)'
  BY LoadedStable DEF JobInFlight, Job, LogRow
<1>2. /\ \A i \in j.todoE : entityVouched'[i.id] # {}
      /\ \A i \in j.todoR : relationVouched'[i.id] # {}
  BY DEF Grows, JobInFlight, Job, EntityItem, RelationItem
<1>3. j.pc \in EntityCall =>
        j.itemE \in EntityItem /\ entityVouched'[j.itemE.id] # {}
  BY DEF Grows, JobInFlight, EntityItem
<1>4. j.pc \in {"mergeChunk", "linkChunk"} => node'[j.itemE.id] # Null
  BY DEF Grows, JobInFlight, EntityItem, EntityCall
<1>5. j.pc \in {"readSource", "readTarget"} \cup RelationCall =>
        j.itemR \in RelationItem /\ relationVouched'[j.itemR.id] # {}
  BY DEF Grows, JobInFlight, RelationItem
<1> QED BY <1>1, <1>2, <1>3, <1>4, <1>5 DEF Grows, JobInFlight, Success

\* A step of one thread that leaves its own job in order leaves all in order.
LEMMA SetJobInv ==
    ASSUME SyncInv, Grows, NEW s \in Thread, NEW j, SetJob(s, j),
           j = NoJob \/ (j \in Job /\ JobInFlight(j)')
    PROVE  /\ job' \in [Thread -> Job \cup {NoJob}]
           /\ JobsInFlight'
<1>1. job' = [job EXCEPT ![s] = j] /\ job \in [Thread -> Job \cup {NoJob}]
  BY DEF SetJob, SyncInv, SyncTypeOK
<1>2. job' \in [Thread -> Job \cup {NoJob}]
  BY <1>1
<1>3. ASSUME NEW t \in Thread, job'[t] # NoJob
      PROVE  JobInFlight(job[t])'
  <2>1. CASE t = s
    BY <1>1, <1>3, <2>1
  <2>2. CASE t # s
    <3>1. job'[t] = job[t] /\ job[t] \in Job /\ JobInFlight(job[t])
      BY <1>1, <1>3, <2>2 DEF SyncInv, JobsInFlight
    <3>2. ASSUME NEW k, k = job[t] PROVE JobInFlight(k)'
      BY <3>1, <3>2, JobInFlightStable
    <3> QED BY <3>1, <3>2
  <2> QED BY <2>1, <2>2
<1> QED BY <1>2, <1>3 DEF JobsInFlight

LEMMA JobsUnchanged ==
    ASSUME SyncInv, Grows, UNCHANGED job
    PROVE  JobsInFlight'
<1>1. ASSUME NEW t \in Thread, job[t] # NoJob, NEW k, k = job[t]
      PROVE  JobInFlight(k)'
  BY <1>1, JobInFlightStable DEF SyncInv, SyncTypeOK, JobsInFlight
<1> QED BY <1>1 DEF JobsInFlight

\* A step that writes neither nodes nor edges nor committed log rows.
LEMMA GraphUnchanged ==
    ASSUME SyncInv, Grows, UNCHANGED <<node, edge, syncLog>>
    PROVE  SuccessIsInGraph' /\ EdgesAfterEndpoints' /\ GraphOnRecord'
<1>1. SuccessIsInGraph'
  BY LoadedStable DEF SyncInv, SuccessIsInGraph, Success
<1>2. EdgesAfterEndpoints'
  BY DEF SyncInv, EdgesAfterEndpoints, Success
<1>3. GraphOnRecord'
  BY DEF SyncInv, SyncTypeOK, GraphOnRecord, Grows, GraphEdge
<1> QED BY <1>1, <1>2, <1>3

\* The three steps that write the graph besides the edges, and those that
\* commit log rows; every other step writes neither.
LEMMA StepGrows ==
    ASSUME SyncInv, [SyncNext]_allVars
    PROVE  Grows
<1>1. /\ \A e \in Entity : entityVouched[e] # {} => entityVouched'[e] # {}
      /\ \A r \in Relation : relationVouched[r] # {} => relationVouched'[r] # {}
  BY StepIsReviewStep, ReviewGrows DEF SyncInv, SyncTypeOK
<1> DEFINE GraphGrows == /\ \A e \in Entity : node[e] # Null => node'[e] # Null
                         /\ chunkNode \subseteq chunkNode'
                         /\ definedIn \subseteq definedIn'
                         /\ edge \subseteq edge'
                         /\ syncLog \subseteq syncLog'
<1>2. CASE UNCHANGED allVars
  BY <1>1, <1>2 DEF Grows, allVars, syncVars, graph
<1>3. ASSUME NEW s \in Reviewer,
             ReviewStep(s) \/ AutoSyncEntity(s) \/ AutoSyncRelation(s)
      PROVE  GraphGrows
  BY <1>3 DEF ReviewStep, AutoSyncEntity, AutoSyncRelation, syncVars, graph
<1>4. ASSUME NEW s \in Syncer, NEW scope, NEW f, StartSync(s, scope, f)
      PROVE  GraphGrows
  BY <1>4 DEF StartSync, graph
<1>5. ASSUME NEW t, NEW a, SetRelationType(t, a)
      PROVE  GraphGrows
  BY <1>5 DEF SetRelationType, graph
<1>6. ASSUME NEW s \in Thread, MergeNode(s)
      PROVE  GraphGrows
  <2>1. job[s].itemE \in EntityItem
    BY <1>6 DEF MergeNode, At, SyncInv, JobsInFlight, JobInFlight, EntityCall
  <2>2. node' = [node EXCEPT ![job[s].itemE.id] = job[s].itemE.content]
    BY <1>6 DEF MergeNode
  <2>3. job[s].itemE.content # Null
    BY <2>1, GraphSyncAssumption DEF EntityItem
  <2>4. \A e \in Entity : node[e] # Null => node'[e] # Null
    BY <2>2, <2>3 DEF SyncInv, SyncTypeOK
  <2> QED BY <1>6, <2>4 DEF MergeNode
<1>7. ASSUME NEW s \in Thread,
             \/ SelectEntities(s) \/ SkipEntity(s) \/ PickEntity(s)
             \/ ReadWhitelist(s) \/ SelectRelations(s) \/ SkipRelation(s)
             \/ PickRelation(s) \/ ReadSourceRow(s) \/ ReadTargetRow(s)
             \/ CallFails(s) \/ JobDies(s)
      PROVE  GraphGrows
  BY <1>7 DEF SelectEntities, SkipEntity, PickEntity, ReadWhitelist,
              SelectRelations, SkipRelation, PickRelation, ReadSourceRow,
              ReadTargetRow, CallFails, JobDies, graph
<1>8. ASSUME NEW s \in Thread,
             \/ MergeChunk(s) \/ LinkChunk(s) \/ FinishEntities(s)
             \/ RelationChunk(s) \/ LinkSource(s) \/ LinkTarget(s)
             \/ MergeEdge(s) \/ FinishRelations(s)
      PROVE  GraphGrows
  BY <1>8 DEF MergeChunk, LinkChunk, FinishEntities, RelationChunk, LinkSource,
              LinkTarget, MergeEdge, FinishRelations, Linked, graph
<1>9. GraphGrows \/ UNCHANGED allVars
  BY <1>3, <1>4, <1>5, <1>6, <1>7, <1>8
     DEF SyncNext, JobStep, SyncEntitiesStep, SyncRelationsStep
<1> QED BY <1>1, <1>2, <1>9 DEF Grows

\* The job of the thread that takes a step, as it was found.
LEMMA Actor ==
    ASSUME SyncInv, Grows, NEW s \in Thread, job[s] # NoJob
    PROVE  \E k \in Job : k = job[s] /\ JobInFlight(k) /\ JobInFlight(k)'
<1>1. job[s] \in Job /\ JobInFlight(job[s])
  BY DEF SyncInv, SyncTypeOK, JobsInFlight
<1>2. PICK k : k = job[s]
  OBVIOUS
<1>3. JobInFlight(k)'
  BY <1>1, <1>2, JobInFlightStable
<1> QED BY <1>1, <1>2, <1>3

LEMMA FreshJobInFlight ==
    ASSUME NEW scope \in {"all", "entities", "relations"}, NEW force \in BOOLEAN,
           NEW held \in EntityItem \cup RelationItem \cup {NoItem}
    PROVE  JobInFlight(NewJob(scope, force, held))'
BY DEF NewJob, JobInFlight, EntityCall, RelationCall, EntityPc, RelationPc

LEMMA StartInv ==
    ASSUME SyncInv, Grows, NEW s \in Syncer, NEW f \in BOOLEAN,
           NEW scope \in {"all", "entities", "relations"}, StartSync(s, scope, f)
    PROVE  SyncTypeOK' /\ JobsInFlight'
<1>1. PICK j : j = NewJob(scope, f, NoItem)
  OBVIOUS
<1>2. j \in Job /\ JobInFlight(j)'
  BY <1>1, NewJobType, FreshJobInFlight
<1>3. SetJob(s, j) /\ s \in Thread
  BY <1>1 DEF StartSync, Thread
<1>4. job' \in [Thread -> Job \cup {NoJob}] /\ JobsInFlight'
  BY <1>2, <1>3, SetJobInv
<1> QED BY <1>4, NextType DEF StartSync, SyncInv, SyncTypeOK, graph, vars

LEMMA AutoSyncInv ==
    ASSUME SyncInv, Grows, TypeOK', NEW s \in Reviewer,
           AutoSyncEntity(s) \/ AutoSyncRelation(s)
    PROVE  SyncTypeOK' /\ JobsInFlight'
<1>1. /\ activeTypes' = activeTypes /\ node' = node /\ chunkNode' = chunkNode
      /\ definedIn' = definedIn /\ edge' = edge /\ syncLog' = syncLog
  BY DEF AutoSyncEntity, AutoSyncRelation, graph
<1>2. s \in Thread
  BY DEF Thread
<1>3. CASE UNCHANGED job
  BY <1>1, <1>3, JobsUnchanged DEF SyncInv, SyncTypeOK
<1>4. CASE AutoSyncEntity(s) /\ job' # job
  <2>1. entityTxn[s] \in EntityTxn
    BY <1>4 DEF AutoSyncEntity, CommitEntity, SyncInv, ReviewInv, TypeOK
  <2>2. PICK held : held = [id |-> entityTxn[s].id,
                            content |-> entityTxn[s].mem.content]
    OBVIOUS
  <2>3. held \in EntityItem
    BY <2>1, <2>2 DEF EntityTxn, EntityRow, EntityItem
  <2>4. PICK j : j = NewJob("entities", FALSE, held)
    OBVIOUS
  <2>5. j \in Job /\ JobInFlight(j)'
    BY <2>3, <2>4, NewJobType, FreshJobInFlight
  <2>6. SetJob(s, j)
    BY <1>4, <2>2, <2>4 DEF AutoSyncEntity
  <2>7. job' \in [Thread -> Job \cup {NoJob}] /\ JobsInFlight'
    BY <1>2, <2>5, <2>6, SetJobInv
  <2> QED BY <1>1, <2>7 DEF SyncInv, SyncTypeOK
<1>5. CASE AutoSyncRelation(s) /\ job' # job
  <2>1. relationTxn[s] \in RelationTxn
    BY <1>5 DEF AutoSyncRelation, CommitRelation, SyncInv, ReviewInv, TypeOK
  <2>2. PICK held : held = [id |-> relationTxn[s].id,
                            edge |-> EdgeOf(relationTxn[s].mem)]
    OBVIOUS
  <2>3. held \in RelationItem
    BY <2>1, <2>2, EdgeOfType DEF RelationTxn, RelationItem
  <2>4. PICK j : j = NewJob("all", FALSE, held)
    OBVIOUS
  <2>5. j \in Job /\ JobInFlight(j)'
    BY <2>3, <2>4, NewJobType, FreshJobInFlight
  <2>6. SetJob(s, j)
    BY <1>5, <2>2, <2>4 DEF AutoSyncRelation
  <2>7. job' \in [Thread -> Job \cup {NoJob}] /\ JobsInFlight'
    BY <1>2, <2>5, <2>6, SetJobInv
  <2> QED BY <1>1, <2>7 DEF SyncInv, SyncTypeOK
<1> QED BY <1>3, <1>4, <1>5

LEMMA ReviewStepInv ==
    ASSUME SyncInv, Grows, TypeOK', NEW s \in Reviewer, ReviewStep(s)
    PROVE  SyncTypeOK' /\ JobsInFlight'
BY JobsUnchanged DEF ReviewStep, syncVars, graph, SyncInv, SyncTypeOK

LEMMA SetRelationTypeInv ==
    ASSUME SyncInv, Grows, TypeOK', NEW t \in Signature, NEW a \in BOOLEAN,
           SetRelationType(t, a)
    PROVE  SyncTypeOK' /\ JobsInFlight'
<1>1. activeTypes' \subseteq Signature
  BY DEF SetRelationType, SyncInv, SyncTypeOK
<1> QED BY <1>1, JobsUnchanged DEF SetRelationType, graph, SyncInv, SyncTypeOK

LEMMA EndJobInv ==
    ASSUME SyncInv, Grows, NEW s \in Thread, SetJob(s, NoJob)
    PROVE  job' \in [Thread -> Job \cup {NoJob}] /\ JobsInFlight'
<1>1. PICK j : j = NoJob
  OBVIOUS
<1>2. SetJob(s, j) /\ (j = NoJob \/ (j \in Job /\ JobInFlight(j)'))
  BY <1>1
<1> QED BY <1>2, SetJobInv

\* A row recorded: SUCCESS only for what is loaded.
LEMMA RecordInv ==
    ASSUME SyncInv, Grows, NEW s \in Thread, job[s] # NoJob, NEW x, NEW pc,
           NEW status \in {"SUCCESS", "FAILED", "SKIPPED"},
           \/ pc = "entities" /\ job[s].pc \in EntityPc /\ x \in Entity
           \/ pc = "relations" /\ job[s].pc \in RelationPc /\ x \in Relation,
           status = "SUCCESS" => Loaded(x)',
           Record(s, x, status, pc)
    PROVE  job' \in [Thread -> Job \cup {NoJob}] /\ JobsInFlight'
<1>1. PICK k \in Job : k = job[s] /\ JobInFlight(k)'
  BY Actor
<1>2. PICK row : row = [id |-> x, status |-> status]
  OBVIOUS
<1>3. row \in LogRow /\ (row = Success(row.id) => Loaded(x)') /\ row.id = x
  BY <1>2 DEF LogRow, Item, Success
<1>4. PICK j : j = [k EXCEPT !.pc = pc, !.itemE = NoItem, !.itemR = NoItem,
                             !.srcOk = FALSE, !.logs = k.logs \cup {row}]
  OBVIOUS
<1>5. /\ j \in Job
      /\ j.pc = pc /\ j.logs = k.logs \cup {row}
      /\ j.todoE = k.todoE /\ j.todoR = k.todoR
  BY <1>3, <1>4 DEF Job, EntityPc, RelationPc
<1>6. JobInFlight(j)'
  BY <1>1, <1>3, <1>5
     DEF JobInFlight, EntityPc, RelationPc, EntityCall, RelationCall
<1>7. SetJob(s, j)
  BY <1>1, <1>2, <1>4 DEF Record, SetJob
<1> QED BY <1>5, <1>6, <1>7, SetJobInv

\* The same job at another place, when what that place relies on is there.
LEMMA GotoInv ==
    ASSUME SyncInv, Grows, NEW s \in Thread, job[s] # NoJob, NEW pc,
           NEW j, j = [job[s] EXCEPT !.pc = pc], JobInFlight(j)',
           pc \in EntityPc \cup RelationPc, Goto(s, pc)
    PROVE  job' \in [Thread -> Job \cup {NoJob}] /\ JobsInFlight'
<1>1. PICK k \in Job : k = job[s]
  BY Actor
<1>2. j \in Job
  BY <1>1 DEF Job
<1>3. SetJob(s, j)
  BY DEF Goto, SetJob
<1> QED BY <1>2, <1>3, SetJobInv

-----------------------------------------------------------------------------
(* The steps of _sync_entities. *)

\* Steps of a job that read staging or its own lists write nothing else.
LEMMA QuietStep ==
    ASSUME SyncInv, Grows, UNCHANGED <<vars, activeTypes, graph, syncLog>>,
           job' \in [Thread -> Job \cup {NoJob}] /\ JobsInFlight'
    PROVE  SyncTypeOK' /\ JobsInFlight'
BY NextType DEF SyncInv, SyncTypeOK, graph

LEMMA SelectEntitiesInv ==
    ASSUME SyncInv, Grows, NEW s \in Thread, SelectEntities(s)
    PROVE  SyncTypeOK' /\ JobsInFlight'
<1>1. PICK k \in Job : k = job[s] /\ JobInFlight(k)'
  BY Actor DEF SelectEntities, At
<1>2. PICK todo : todo = {[id |-> e, content |-> LoadedContent(s, e)] :
                   e \in {x \in Entity : /\ entity[x].status = "APPROVED"
                                         /\ entity[x].merged = Null}}
  OBVIOUS
<1>3. ASSUME NEW e \in Entity PROVE LoadedContent(s, e) \in Content
  <2>1. k.held \in EntityItem \cup RelationItem \cup {NoItem}
    BY DEF Job
  <2>2. k.held.id = e => k.held \in EntityItem
    BY <2>1, ReviewAssumption DEF RelationItem, NoItem
  <2>3. entity[e].content \in Content
    BY DEF SyncInv, ReviewInv, TypeOK, EntityRow
  <2> QED BY <1>1, <2>2, <2>3 DEF LoadedContent, EntityItem
<1>4. todo \subseteq EntityItem
  BY <1>2, <1>3 DEF EntityItem
<1>5. \A i \in todo : entityVouched'[i.id] # {}
  BY <1>2 DEF SyncInv, ReviewInv, ApprovalOnRecord, Grows
<1>6. PICK j : j = [k EXCEPT !.pc = "entities", !.todoE = todo]
  OBVIOUS
<1>7. /\ j \in Job /\ k.pc = "selectEntities" /\ j.pc = "entities"
      /\ j.todoE = todo /\ j.todoR = k.todoR /\ j.logs = k.logs
  BY <1>1, <1>4, <1>6 DEF Job, EntityPc, SelectEntities, At
<1>8. JobInFlight(j)'
  BY <1>1, <1>5, <1>7
     DEF JobInFlight, EntityPc, RelationPc, EntityCall, RelationCall
<1>9. SetJob(s, j)
  BY <1>1, <1>2, <1>6 DEF SelectEntities
<1>10. job' \in [Thread -> Job \cup {NoJob}] /\ JobsInFlight'
  BY <1>7, <1>8, <1>9, SetJobInv
<1> QED BY <1>10, QuietStep DEF SelectEntities

LEMMA SkipEntityInv ==
    ASSUME SyncInv, Grows, NEW s \in Thread, SkipEntity(s)
    PROVE  SyncTypeOK' /\ JobsInFlight'
<1>1. PICK k \in Job : k = job[s] /\ JobInFlight(k)'
  BY Actor DEF SkipEntity, At
<1>2. PICK i \in k.todoE : SetJob(s, [k EXCEPT !.todoE = @ \ {i},
                       !.logs = @ \cup {[id |-> i.id, status |-> "SKIPPED"]}])
  BY <1>1 DEF SkipEntity
<1>3. PICK row : row = [id |-> i.id, status |-> "SKIPPED"]
  OBVIOUS
<1>4. row \in LogRow /\ row.id \in Entity /\ row # Success(row.id)
  BY <1>3 DEF Job, EntityItem, LogRow, Item, Success
<1>5. PICK j : j = [k EXCEPT !.todoE = @ \ {i}, !.logs = @ \cup {row}]
  OBVIOUS
<1>6. /\ j \in Job /\ k.pc = "entities" /\ j.pc = "entities"
      /\ j.todoE \subseteq k.todoE /\ j.todoR = k.todoR
      /\ j.logs = k.logs \cup {row}
  BY <1>1, <1>4, <1>5 DEF Job, SkipEntity, At
<1>7. JobInFlight(j)'
  BY <1>1, <1>4, <1>6
     DEF JobInFlight, EntityPc, RelationPc, EntityCall, RelationCall
<1>8. SetJob(s, j)
  BY <1>2, <1>3, <1>5
<1>9. job' \in [Thread -> Job \cup {NoJob}] /\ JobsInFlight'
  BY <1>6, <1>7, <1>8, SetJobInv
<1> QED BY <1>9, QuietStep DEF SkipEntity

LEMMA PickEntityInv ==
    ASSUME SyncInv, Grows, NEW s \in Thread, PickEntity(s)
    PROVE  SyncTypeOK' /\ JobsInFlight'
<1>1. PICK k \in Job : k = job[s] /\ JobInFlight(k)'
  BY Actor DEF PickEntity, At
<1>2. PICK i \in k.todoE : SetJob(s, [k EXCEPT !.pc = "mergeNode", !.itemE = i,
                                              !.todoE = @ \ {i}])
  BY <1>1 DEF PickEntity
<1>3. PICK j : j = [k EXCEPT !.pc = "mergeNode", !.itemE = i, !.todoE = @ \ {i}]
  OBVIOUS
<1>4. /\ j \in Job /\ k.pc = "entities" /\ j.pc = "mergeNode" /\ j.itemE = i
      /\ j.todoE \subseteq k.todoE /\ j.todoR = k.todoR /\ j.logs = k.logs
      /\ i \in EntityItem
  BY <1>1, <1>3 DEF Job, EntityPc, PickEntity, At
<1>5. JobInFlight(j)'
  BY <1>1, <1>4
     DEF JobInFlight, EntityPc, RelationPc, EntityCall, RelationCall
<1>6. SetJob(s, j)
  BY <1>2, <1>3
<1>7. job' \in [Thread -> Job \cup {NoJob}] /\ JobsInFlight'
  BY <1>4, <1>5, <1>6, SetJobInv
<1> QED BY <1>7, QuietStep DEF PickEntity

\* The row a job calls Neo4j for.
LEMMA EntityCallItem ==
    ASSUME SyncInv, NEW s \in Thread, job[s] # NoJob, job[s].pc \in EntityCall
    PROVE  /\ job[s].itemE \in EntityItem /\ job[s].itemE.id \in Entity
           /\ entityVouched[job[s].itemE.id] # {}
           /\ job[s].pc \in EntityPc
BY DEF SyncInv, JobsInFlight, JobInFlight, EntityItem, EntityCall, EntityPc

\* A call that failed, or whose answer was lost.
LEMMA FailEntityInv ==
    ASSUME SyncInv, Grows, NEW s \in Thread, job[s] # NoJob,
           job[s].pc \in EntityCall, RecordEntity(s, "FAILED")
    PROVE  job' \in [Thread -> Job \cup {NoJob}] /\ JobsInFlight'
<1>1. PICK x : x = job[s].itemE.id
  OBVIOUS
<1>2. x \in Entity /\ job[s].pc \in EntityPc
  BY <1>1, EntityCallItem
<1>3. Record(s, x, "FAILED", "entities")
  BY <1>1 DEF RecordEntity
<1> QED BY <1>2, <1>3, RecordInv

\* From one call to the next: the next one's needs are there.
LEMMA NextEntityCallInv ==
    ASSUME SyncInv, Grows, NEW s \in Thread, job[s] # NoJob,
           job[s].pc \in EntityCall, NEW pc \in {"mergeChunk", "linkChunk"},
           Goto(s, pc), node'[job[s].itemE.id] # Null,
           pc = "linkChunk" => ChunkOf[job[s].itemE.id] \in chunkNode'
    PROVE  job' \in [Thread -> Job \cup {NoJob}] /\ JobsInFlight'
<1>1. PICK k \in Job : k = job[s] /\ JobInFlight(k)'
  BY Actor
<1>2. PICK j : j = [k EXCEPT !.pc = pc]
  OBVIOUS
<1>3. /\ j.pc = pc /\ j.itemE = k.itemE /\ j.itemR = k.itemR
      /\ j.todoE = k.todoE /\ j.todoR = k.todoR /\ j.logs = k.logs
  BY <1>2 DEF Job
<1>4. JobInFlight(j)'
  BY <1>1, <1>3
     DEF JobInFlight, EntityPc, RelationPc, EntityCall, RelationCall
<1> QED BY <1>1, <1>2, <1>4, GotoInv DEF EntityPc

LEMMA MergeNodeInv ==
    ASSUME SyncInv, Grows, ReviewInv', NEW s \in Thread, MergeNode(s)
    PROVE  SyncInv'
<1> DEFINE i == job[s].itemE
<1>1. job[s] # NoJob /\ job[s].pc = "mergeNode" /\ job[s].pc \in EntityCall
  BY DEF MergeNode, At, EntityCall
<1>2. i \in EntityItem /\ i.id \in Entity /\ entityVouched[i.id] # {}
  BY <1>1, EntityCallItem
<1>3. node' = [node EXCEPT ![i.id] = i.content] /\ i.content \in Content
  BY <1>2 DEF MergeNode, EntityItem
<1>4. node' \in [Entity -> Content \cup {Null}] /\ node'[i.id] # Null
  BY <1>2, <1>3, GraphSyncAssumption DEF SyncInv, SyncTypeOK
<1>5. job' \in [Thread -> Job \cup {NoJob}] /\ JobsInFlight'
  <2>1. CASE Goto(s, "mergeChunk")
    BY <1>1, <1>4, <2>1, NextEntityCallInv
  <2>2. CASE RecordEntity(s, "FAILED")
    BY <1>1, <2>2, FailEntityInv
  <2> QED BY <2>1, <2>2 DEF MergeNode
<1>6. SyncTypeOK'
  BY <1>4, <1>5 DEF MergeNode, SyncInv, SyncTypeOK, ReviewInv
<1>7. SuccessIsInGraph'
  BY LoadedStable DEF MergeNode, SyncInv, SuccessIsInGraph, Success
<1>8. EdgesAfterEndpoints'
  BY DEF MergeNode, SyncInv, EdgesAfterEndpoints, Success
<1>9. GraphOnRecord'
  <2>1. ASSUME NEW e \in Entity, node'[e] # Null PROVE entityVouched'[e] # {}
    BY <1>2, <1>3, <2>1 DEF SyncInv, SyncTypeOK, GraphOnRecord, Grows
  <2>2. ASSUME NEW d \in edge
        PROVE  /\ relationVouched'[d.id] # {}
               /\ node'[d.src] # Null /\ node'[d.tgt] # Null
    BY DEF SyncInv, SyncTypeOK, GraphEdge, GraphOnRecord, Grows
  <2> QED BY <2>1, <2>2 DEF MergeNode, GraphOnRecord
<1> QED BY <1>5, <1>6, <1>7, <1>8, <1>9 DEF SyncInv

LEMMA MergeChunkInv ==
    ASSUME SyncInv, Grows, NEW s \in Thread, MergeChunk(s)
    PROVE  SyncTypeOK' /\ JobsInFlight'
<1> DEFINE e == job[s].itemE.id
<1>1. job[s] # NoJob /\ job[s].pc = "mergeChunk" /\ job[s].pc \in EntityCall
  BY DEF MergeChunk, At, EntityCall
<1>2. e \in Entity /\ node'[e] # Null
  BY <1>1, EntityCallItem DEF SyncInv, JobsInFlight, JobInFlight, Grows
<1>3. chunkNode' \subseteq Chunk /\ ChunkOf[e] \in chunkNode'
  BY <1>2, ReviewAssumption DEF MergeChunk, SyncInv, SyncTypeOK
<1>4. job' \in [Thread -> Job \cup {NoJob}] /\ JobsInFlight'
  <2>1. CASE Goto(s, "linkChunk")
    BY <1>1, <1>2, <1>3, <2>1, NextEntityCallInv
  <2>2. CASE RecordEntity(s, "FAILED")
    BY <1>1, <2>2, FailEntityInv
  <2> QED BY <2>1, <2>2 DEF MergeChunk
<1> QED BY <1>3, <1>4, NextType DEF MergeChunk, SyncInv, SyncTypeOK

LEMMA LinkChunkInv ==
    ASSUME SyncInv, Grows, NEW s \in Thread, LinkChunk(s)
    PROVE  SyncTypeOK' /\ JobsInFlight'
<1> DEFINE e == job[s].itemE.id
<1>1. /\ job[s] # NoJob /\ job[s].pc = "linkChunk"
      /\ job[s].pc \in EntityCall /\ job[s].pc \in EntityPc
  BY DEF LinkChunk, At, EntityCall, EntityPc
<1>2. e \in Entity /\ node[e] # Null /\ ChunkOf[e] \in chunkNode
  BY <1>1, EntityCallItem DEF SyncInv, JobsInFlight, JobInFlight
<1>3. definedIn' = definedIn \cup {<<e, ChunkOf[e]>>}
  BY <1>2 DEF LinkChunk, Linked
<1>4. definedIn' \subseteq Entity \X Chunk
  BY <1>2, <1>3, ReviewAssumption DEF SyncInv, SyncTypeOK
<1>5. job' \in [Thread -> Job \cup {NoJob}] /\ JobsInFlight'
  <2>1. CASE RecordEntity(s, "SUCCESS")
    <3>1. PICK x : x = e
      OBVIOUS
    <3>2. Loaded(x)' /\ Record(s, x, "SUCCESS", "entities")
      BY <1>2, <1>3, <2>1, <3>1
         DEF LinkChunk, Loaded, EntityLoaded, RecordEntity
    <3> QED BY <1>1, <1>2, <3>1, <3>2, RecordInv
  <2>2. CASE RecordEntity(s, "FAILED")
    BY <1>1, <2>2, FailEntityInv
  <2> QED BY <2>1, <2>2 DEF LinkChunk
<1> QED BY <1>4, <1>5, NextType DEF LinkChunk, SyncInv, SyncTypeOK

\* A commit of the job's log rows.  Its SUCCESS rows are true (JobsInFlight).
LEMMA CommitLogs ==
    ASSUME SyncInv, Grows, NEW s \in Thread, job[s] # NoJob,
           syncLog' = syncLog \cup job[s].logs, UNCHANGED graph
    PROVE  /\ syncLog' \subseteq LogRow
           /\ SuccessIsInGraph' /\ EdgesAfterEndpoints' /\ GraphOnRecord'
<1>1. PICK k \in Job : k = job[s] /\ JobInFlight(k)'
  BY Actor
<1>2. syncLog' \subseteq LogRow
  BY <1>1 DEF Job, SyncInv, SyncTypeOK
<1>3. ASSUME NEW x \in Item, Success(x) \in syncLog' PROVE Loaded(x)'
  <2>1. CASE Success(x) \in syncLog
    BY <2>1, LoadedStable DEF SyncInv, SuccessIsInGraph
  <2>2. CASE Success(x) \in k.logs
    <3>1. Success(x).id = x
      BY DEF Success
    <3> QED BY <1>1, <2>2, <3>1 DEF JobInFlight
  <2> QED BY <1>1, <1>3, <2>1, <2>2
<1>4. SuccessIsInGraph'
  BY <1>3 DEF SuccessIsInGraph, Success
<1>5. EdgesAfterEndpoints'
  BY DEF SyncInv, EdgesAfterEndpoints, Grows, Success, graph
<1>6. GraphOnRecord'
  BY DEF SyncInv, SyncTypeOK, GraphOnRecord, GraphEdge, Grows, graph
<1> QED BY <1>2, <1>4, <1>5, <1>6

LEMMA FinishEntitiesInv ==
    ASSUME SyncInv, Grows, ReviewInv', NEW s \in Thread, FinishEntities(s)
    PROVE  SyncInv'
<1>1. PICK k \in Job : k = job[s] /\ JobInFlight(k)' /\ k.pc = "entities"
  BY Actor DEF FinishEntities, At
<1>2. /\ syncLog' \subseteq LogRow
      /\ SuccessIsInGraph' /\ EdgesAfterEndpoints' /\ GraphOnRecord'
  BY CommitLogs DEF FinishEntities, At
<1>3. job' \in [Thread -> Job \cup {NoJob}] /\ JobsInFlight'
  <2>1. CASE k.scope = "all"
    <3>1. PICK j : j = [k EXCEPT !.pc = "whitelist", !.logs = {}]
      OBVIOUS
    <3>2. /\ j \in Job /\ j.pc = "whitelist" /\ j.logs = {}
          /\ j.todoE = k.todoE /\ j.todoR = k.todoR
      BY <3>1 DEF Job, RelationPc
    <3>3. JobInFlight(j)'
      BY <1>1, <3>2
         DEF JobInFlight, EntityPc, RelationPc, EntityCall, RelationCall
    <3>4. SetJob(s, j)
      BY <1>1, <2>1, <3>1 DEF FinishEntities
    <3> QED BY <3>2, <3>3, <3>4, SetJobInv
  <2>2. CASE k.scope # "all"
    BY <1>1, <2>2, EndJobInv DEF FinishEntities
  <2> QED BY <2>1, <2>2
<1>4. SyncTypeOK'
  BY <1>2, <1>3 DEF FinishEntities, SyncInv, SyncTypeOK, ReviewInv, graph
<1> QED BY <1>2, <1>3, <1>4 DEF SyncInv

-----------------------------------------------------------------------------
(* The steps of _sync_relations. *)

LEMMA ReadWhitelistInv ==
    ASSUME SyncInv, Grows, NEW s \in Thread, ReadWhitelist(s)
    PROVE  SyncTypeOK' /\ JobsInFlight'
<1>1. PICK k \in Job : k = job[s] /\ JobInFlight(k)' /\ k.pc = "whitelist"
  BY Actor DEF ReadWhitelist, At
<1>2. PICK names : names = {t.name : t \in activeTypes}
  OBVIOUS
<1>3. names \subseteq RelType
  BY <1>2 DEF SyncInv, SyncTypeOK, Signature
<1>4. PICK j : j = [k EXCEPT !.pc = "selectRelations", !.whitelist = names]
  OBVIOUS
<1>5. /\ j \in Job /\ j.pc = "selectRelations" /\ j.logs = k.logs
      /\ j.todoE = k.todoE /\ j.todoR = k.todoR
  BY <1>3, <1>4 DEF Job, RelationPc
<1>6. JobInFlight(j)'
  BY <1>1, <1>5
     DEF JobInFlight, EntityPc, RelationPc, EntityCall, RelationCall
<1>7. SetJob(s, j)
  BY <1>1, <1>2, <1>4 DEF ReadWhitelist
<1>8. job' \in [Thread -> Job \cup {NoJob}] /\ JobsInFlight'
  BY <1>5, <1>6, <1>7, SetJobInv
<1> QED BY <1>8, QuietStep DEF ReadWhitelist

LEMMA SelectRelationsInv ==
    ASSUME SyncInv, Grows, NEW s \in Thread, SelectRelations(s)
    PROVE  SyncTypeOK' /\ JobsInFlight'
<1>1. PICK k \in Job : k = job[s] /\ JobInFlight(k)' /\ k.pc = "selectRelations"
  BY Actor DEF SelectRelations, At
<1>2. PICK todo : todo = {[id |-> r, edge |-> LoadedEdge(s, r)] :
                   r \in {x \in Relation : relation[x].status = "APPROVED"}}
  OBVIOUS
<1>3. ASSUME NEW r \in Relation PROVE LoadedEdge(s, r) \in Edge
  <2>1. k.held \in EntityItem \cup RelationItem \cup {NoItem}
    BY DEF Job
  <2>2. k.held.id = r => k.held \in RelationItem
    BY <2>1, ReviewAssumption, GraphSyncAssumption DEF EntityItem, NoItem
  <2>3. EdgeOf(relation[r]) \in Edge
    BY EdgeOfType DEF SyncInv, ReviewInv, TypeOK
  <2> QED BY <1>1, <2>2, <2>3 DEF LoadedEdge, RelationItem
<1>4. todo \subseteq RelationItem
  BY <1>2, <1>3 DEF RelationItem
<1>5. \A i \in todo : relationVouched'[i.id] # {}
  BY <1>2 DEF SyncInv, ReviewInv, ApprovalOnRecord, Grows
<1>6. PICK j : j = [k EXCEPT !.pc = "relations", !.todoR = todo]
  OBVIOUS
<1>7. /\ j \in Job /\ j.pc = "relations"
      /\ j.todoR = todo /\ j.todoE = k.todoE /\ j.logs = k.logs
  BY <1>4, <1>6 DEF Job, RelationPc
<1>8. JobInFlight(j)'
  BY <1>1, <1>5, <1>7
     DEF JobInFlight, EntityPc, RelationPc, EntityCall, RelationCall
<1>9. SetJob(s, j)
  BY <1>1, <1>2, <1>6 DEF SelectRelations
<1>10. job' \in [Thread -> Job \cup {NoJob}] /\ JobsInFlight'
  BY <1>7, <1>8, <1>9, SetJobInv
<1> QED BY <1>10, QuietStep DEF SelectRelations

LEMMA SkipRelationInv ==
    ASSUME SyncInv, Grows, NEW s \in Thread, SkipRelation(s)
    PROVE  SyncTypeOK' /\ JobsInFlight'
<1>1. PICK k \in Job : k = job[s] /\ JobInFlight(k)' /\ k.pc = "relations"
  BY Actor DEF SkipRelation, At
<1>2. PICK i \in k.todoR : SetJob(s, [k EXCEPT !.todoR = @ \ {i},
                       !.logs = @ \cup {[id |-> i.id, status |-> "SKIPPED"]}])
  BY <1>1 DEF SkipRelation
<1>3. PICK row : row = [id |-> i.id, status |-> "SKIPPED"]
  OBVIOUS
<1>4. row \in LogRow /\ row.id \in Relation /\ row # Success(row.id)
  BY <1>3 DEF Job, RelationItem, LogRow, Item, Success
<1>5. PICK j : j = [k EXCEPT !.todoR = @ \ {i}, !.logs = @ \cup {row}]
  OBVIOUS
<1>6. /\ j \in Job /\ j.pc = "relations"
      /\ j.todoR \subseteq k.todoR /\ j.todoE = k.todoE
      /\ j.logs = k.logs \cup {row}
  BY <1>1, <1>4, <1>5 DEF Job
<1>7. JobInFlight(j)'
  BY <1>1, <1>4, <1>6
     DEF JobInFlight, EntityPc, RelationPc, EntityCall, RelationCall
<1>8. SetJob(s, j)
  BY <1>2, <1>3, <1>5
<1>9. job' \in [Thread -> Job \cup {NoJob}] /\ JobsInFlight'
  BY <1>6, <1>7, <1>8, SetJobInv
<1> QED BY <1>9, QuietStep DEF SkipRelation

LEMMA PickRelationInv ==
    ASSUME SyncInv, Grows, NEW s \in Thread, PickRelation(s)
    PROVE  SyncTypeOK' /\ JobsInFlight'
<1>1. PICK k \in Job : k = job[s] /\ JobInFlight(k)' /\ k.pc = "relations"
  BY Actor DEF PickRelation, At
<1>2. PICK i \in k.todoR :
        SetJob(s, IF Loadable(s, i)
                  THEN [k EXCEPT !.pc = "readSource", !.itemR = i, !.todoR = @ \ {i}]
                  ELSE [k EXCEPT !.todoR = @ \ {i},
                          !.logs = @ \cup {[id |-> i.id, status |-> "FAILED"]}])
  BY <1>1 DEF PickRelation
<1>3. i \in RelationItem /\ i.id \in Relation
  BY DEF Job, RelationItem
<1>4. CASE Loadable(s, i)
  <2>1. PICK j : j = [k EXCEPT !.pc = "readSource", !.itemR = i, !.todoR = @ \ {i}]
    OBVIOUS
  <2>2. /\ j \in Job /\ j.pc = "readSource" /\ j.itemR = i /\ j.logs = k.logs
        /\ j.todoR \subseteq k.todoR /\ j.todoE = k.todoE
    BY <1>3, <2>1 DEF Job, RelationPc
  <2>3. i.edge.src # Null /\ i.edge.tgt # Null
    BY <1>4 DEF Loadable
  <2>4. JobInFlight(j)'
    BY <1>1, <1>3, <2>2, <2>3
       DEF JobInFlight, EntityPc, RelationPc, EntityCall, RelationCall
  <2>5. SetJob(s, j)
    BY <1>2, <1>4, <2>1
  <2>6. job' \in [Thread -> Job \cup {NoJob}] /\ JobsInFlight'
    BY <2>2, <2>4, <2>5, SetJobInv
  <2> QED BY <2>6, QuietStep DEF PickRelation
<1>5. CASE ~Loadable(s, i)
  <2>1. PICK row : row = [id |-> i.id, status |-> "FAILED"]
    OBVIOUS
  <2>2. row \in LogRow /\ row.id \in Relation /\ row # Success(row.id)
    BY <1>3, <2>1 DEF LogRow, Item, Success
  <2>3. PICK j : j = [k EXCEPT !.todoR = @ \ {i}, !.logs = @ \cup {row}]
    OBVIOUS
  <2>4. /\ j \in Job /\ j.pc = "relations" /\ j.logs = k.logs \cup {row}
        /\ j.todoR \subseteq k.todoR /\ j.todoE = k.todoE
    BY <1>1, <2>2, <2>3 DEF Job
  <2>5. JobInFlight(j)'
    BY <1>1, <2>2, <2>4
       DEF JobInFlight, EntityPc, RelationPc, EntityCall, RelationCall
  <2>6. SetJob(s, j)
    BY <1>2, <1>5, <2>1, <2>3
  <2>7. job' \in [Thread -> Job \cup {NoJob}] /\ JobsInFlight'
    BY <2>4, <2>5, <2>6, SetJobInv
  <2> QED BY <2>7, QuietStep DEF PickRelation
<1> QED BY <1>4, <1>5

\* The row a job reads staging or calls Neo4j for.
LEMMA RelationStepItem ==
    ASSUME SyncInv, NEW s \in Thread, job[s] # NoJob,
           job[s].pc \in {"readSource", "readTarget"} \cup RelationCall
    PROVE  LET i == job[s].itemR
           IN  /\ i \in RelationItem /\ i.id \in Relation
               /\ relationVouched[i.id] # {}
               /\ i.edge.type \in RelType
               /\ i.edge.src \in Entity /\ i.edge.tgt \in Entity
               /\ job[s].pc \in RelationPc
<1>1. JobInFlight(job[s])
  BY DEF SyncInv, JobsInFlight
<1>2. /\ job[s].itemR \in RelationItem
      /\ relationVouched[job[s].itemR.id] # {}
      /\ job[s].itemR.edge.src # Null /\ job[s].itemR.edge.tgt # Null
  BY <1>1 DEF JobInFlight
<1> QED BY <1>2 DEF RelationItem, Edge, RelationCall, RelationPc

LEMMA FailRelationInv ==
    ASSUME SyncInv, Grows, NEW s \in Thread, job[s] # NoJob,
           job[s].pc \in {"readSource", "readTarget"} \cup RelationCall,
           RecordRelation(s, "FAILED")
    PROVE  job' \in [Thread -> Job \cup {NoJob}] /\ JobsInFlight'
<1>1. PICK x : x = job[s].itemR.id
  OBVIOUS
<1>2. x \in Relation /\ job[s].pc \in RelationPc
  BY <1>1, RelationStepItem
<1>3. Record(s, x, "FAILED", "relations")
  BY <1>1 DEF RecordRelation
<1> QED BY <1>2, <1>3, RecordInv

LEMMA ReadSourceRowInv ==
    ASSUME SyncInv, Grows, NEW s \in Thread, ReadSourceRow(s)
    PROVE  SyncTypeOK' /\ JobsInFlight'
<1>1. PICK k \in Job : k = job[s] /\ JobInFlight(k)' /\ k.pc = "readSource"
  BY Actor DEF ReadSourceRow, At
<1>2. PICK ok : ok = Approved(k.itemR.edge.src)
  OBVIOUS
<1>3. ok \in BOOLEAN
  BY <1>2 DEF Approved
<1>4. PICK j : j = [k EXCEPT !.pc = "readTarget", !.srcOk = ok]
  OBVIOUS
<1>5. /\ j \in Job /\ j.pc = "readTarget" /\ j.itemR = k.itemR
      /\ j.logs = k.logs /\ j.todoE = k.todoE /\ j.todoR = k.todoR
  BY <1>3, <1>4 DEF Job, RelationPc
<1>6. JobInFlight(j)'
  BY <1>1, <1>5
     DEF JobInFlight, EntityPc, RelationPc, EntityCall, RelationCall
<1>7. SetJob(s, j)
  BY <1>1, <1>2, <1>4 DEF ReadSourceRow
<1>8. job' \in [Thread -> Job \cup {NoJob}] /\ JobsInFlight'
  BY <1>5, <1>6, <1>7, SetJobInv
<1> QED BY <1>8, QuietStep DEF ReadSourceRow

\* From one call to the next.
LEMMA NextRelationCallInv ==
    ASSUME SyncInv, Grows, NEW s \in Thread, job[s] # NoJob,
           job[s].pc \in {"readTarget"} \cup RelationCall,
           NEW pc \in RelationCall, Goto(s, pc),
           NEW i, i = job[s].itemR,
           Success(i.edge.src) \in syncLog', Success(i.edge.tgt) \in syncLog',
           pc # "relationChunk" => ChunkOf[i.id] \in chunkNode',
           pc \in {"linkTarget", "mergeEdge"} =>
              <<i.edge.src, ChunkOf[i.id]>> \in definedIn',
           pc = "mergeEdge" => <<i.edge.tgt, ChunkOf[i.id]>> \in definedIn'
    PROVE  job' \in [Thread -> Job \cup {NoJob}] /\ JobsInFlight'
<1>1. PICK k \in Job : k = job[s] /\ JobInFlight(k)'
  BY Actor
<1>2. PICK j : j = [k EXCEPT !.pc = pc]
  OBVIOUS
<1>3. /\ j.pc = pc /\ j.itemE = k.itemE /\ j.itemR = i
      /\ j.todoE = k.todoE /\ j.todoR = k.todoR /\ j.logs = k.logs
  BY <1>1, <1>2 DEF Job
<1>4. /\ pc \notin EntityPc /\ pc \notin EntityCall /\ pc \in RelationPc
      /\ pc \notin {"mergeChunk", "linkChunk"}
      /\ k.pc \in RelationPc
  BY <1>1 DEF EntityPc, EntityCall, RelationCall, RelationPc
<1>5. /\ \A x \in j.todoE : entityVouched'[x.id] # {}
      /\ \A x \in j.todoR : relationVouched'[x.id] # {}
      /\ \A l \in j.logs : l = Success(l.id) => Loaded(l.id)'
      /\ \A l \in j.logs : l.id \in Relation
  BY <1>1, <1>3, <1>4 DEF JobInFlight, Success
<1>6. /\ i \in RelationItem /\ relationVouched'[i.id] # {}
      /\ i.edge.src # Null /\ i.edge.tgt # Null
  BY <1>1 DEF JobInFlight
<1>7. JobInFlight(j)'
  BY <1>3, <1>4, <1>5, <1>6 DEF JobInFlight, Success
<1>8. pc \in EntityPc \cup RelationPc
  BY <1>4
<1> QED BY <1>1, <1>2, <1>7, <1>8, GotoInv

LEMMA ReadTargetRowInv ==
    ASSUME SyncInv, Grows, NEW s \in Thread, ReadTargetRow(s)
    PROVE  SyncTypeOK' /\ JobsInFlight'
<1>1. /\ job[s] # NoJob /\ job[s].pc = "readTarget"
      /\ job[s].pc \in {"readTarget"} \cup RelationCall
      /\ job[s].pc \in {"readSource", "readTarget"} \cup RelationCall
  BY DEF ReadTargetRow, At
<1>2. PICK i : i = job[s].itemR
  OBVIOUS
<1>3. i.edge.src \in Entity /\ i.edge.tgt \in Entity /\ job[s].pc \in RelationPc
  BY <1>1, <1>2, RelationStepItem
<1>4. job' \in [Thread -> Job \cup {NoJob}] /\ JobsInFlight'
  <2>1. CASE /\ Goto(s, "relationChunk")
             /\ HasSuccess(s, i.edge.src) /\ HasSuccess(s, i.edge.tgt)
    <3>1. \A l \in job[s].logs : l.id \in Relation
      BY <1>1, <1>3 DEF SyncInv, JobsInFlight, JobInFlight
    <3>2. Success(i.edge.src) \in syncLog /\ Success(i.edge.tgt) \in syncLog
      BY <1>3, <2>1, <3>1, ReviewAssumption DEF HasSuccess, Success
    <3>3. Success(i.edge.src) \in syncLog' /\ Success(i.edge.tgt) \in syncLog'
      BY <3>2 DEF Grows
    <3> QED BY <1>1, <1>2, <2>1, <3>3, NextRelationCallInv DEF RelationCall
  <2>2. CASE RecordRelation(s, "FAILED")
    BY <1>1, <2>2, FailRelationInv
  <2> QED BY <1>2, <2>1, <2>2 DEF ReadTargetRow
<1> QED BY <1>4, QuietStep DEF ReadTargetRow

\* What a job that calls Neo4j for a relation may rely on.
LEMMA RelationCallItem ==
    ASSUME SyncInv, NEW s \in Thread, job[s] # NoJob, job[s].pc \in RelationCall,
           NEW i, i = job[s].itemR
    PROVE  /\ i.id \in Relation /\ i.edge.src \in Entity /\ i.edge.tgt \in Entity
           /\ i.edge.type \in RelType /\ relationVouched[i.id] # {}
           /\ Success(i.edge.src) \in syncLog /\ Success(i.edge.tgt) \in syncLog
           /\ node[i.edge.src] # Null /\ node[i.edge.tgt] # Null
           /\ ChunkOf[i.id] \in Chunk
           /\ job[s].pc # "relationChunk" => ChunkOf[i.id] \in chunkNode
<1>1. /\ i.id \in Relation /\ i.edge.src \in Entity /\ i.edge.tgt \in Entity
      /\ i.edge.type \in RelType /\ relationVouched[i.id] # {}
  BY RelationStepItem
<1>2. JobInFlight(job[s])
  BY DEF SyncInv, JobsInFlight
<1>3. /\ Success(i.edge.src) \in syncLog /\ Success(i.edge.tgt) \in syncLog
      /\ job[s].pc # "relationChunk" => ChunkOf[i.id] \in chunkNode
  BY <1>2 DEF JobInFlight
<1>4. node[i.edge.src] # Null /\ node[i.edge.tgt] # Null
  BY <1>1, <1>3 DEF SyncInv, SuccessIsInGraph, Loaded, EntityLoaded, Item
<1> QED BY <1>1, <1>3, <1>4, ReviewAssumption

LEMMA RelationChunkInv ==
    ASSUME SyncInv, Grows, NEW s \in Thread, RelationChunk(s)
    PROVE  SyncTypeOK' /\ JobsInFlight'
<1>1. job[s] # NoJob /\ job[s].pc = "relationChunk" /\ job[s].pc \in RelationCall
  BY DEF RelationChunk, At, RelationCall
<1>2. PICK i : i = job[s].itemR
  OBVIOUS
<1>3. /\ Success(i.edge.src) \in syncLog' /\ Success(i.edge.tgt) \in syncLog'
      /\ ChunkOf[i.id] \in Chunk
  BY <1>1, <1>2, RelationCallItem DEF Grows
<1>4. chunkNode' \subseteq Chunk /\ ChunkOf[i.id] \in chunkNode'
  BY <1>2, <1>3 DEF RelationChunk, SyncInv, SyncTypeOK
<1>5. job' \in [Thread -> Job \cup {NoJob}] /\ JobsInFlight'
  <2>1. CASE Goto(s, "linkSource")
    BY <1>1, <1>2, <1>3, <1>4, <2>1, NextRelationCallInv DEF RelationCall
  <2>2. CASE RecordRelation(s, "FAILED")
    BY <1>1, <2>2, FailRelationInv
  <2> QED BY <2>1, <2>2 DEF RelationChunk
<1> QED BY <1>4, <1>5, NextType DEF RelationChunk, SyncInv, SyncTypeOK

LEMMA LinkSourceInv ==
    ASSUME SyncInv, Grows, NEW s \in Thread, LinkSource(s)
    PROVE  SyncTypeOK' /\ JobsInFlight'
<1>1. job[s] # NoJob /\ job[s].pc = "linkSource" /\ job[s].pc \in RelationCall
  BY DEF LinkSource, At, RelationCall
<1>2. PICK i : i = job[s].itemR
  OBVIOUS
<1>3. /\ Success(i.edge.src) \in syncLog /\ Success(i.edge.tgt) \in syncLog
      /\ i.edge.src \in Entity /\ node[i.edge.src] # Null
      /\ ChunkOf[i.id] \in Chunk /\ ChunkOf[i.id] \in chunkNode
  BY <1>1, <1>2, RelationCallItem
<1>4. definedIn' = definedIn \cup {<<i.edge.src, ChunkOf[i.id]>>}
  BY <1>2, <1>3 DEF LinkSource, Linked
<1>5. definedIn' \subseteq Entity \X Chunk
  BY <1>3, <1>4 DEF SyncInv, SyncTypeOK
<1>6. job' \in [Thread -> Job \cup {NoJob}] /\ JobsInFlight'
  <2>1. CASE Goto(s, "linkTarget")
    BY <1>1, <1>2, <1>3, <1>4, <2>1, NextRelationCallInv DEF RelationCall, Grows
  <2>2. CASE RecordRelation(s, "FAILED")
    BY <1>1, <2>2, FailRelationInv
  <2> QED BY <2>1, <2>2 DEF LinkSource
<1> QED BY <1>5, <1>6, NextType DEF LinkSource, SyncInv, SyncTypeOK

LEMMA LinkTargetInv ==
    ASSUME SyncInv, Grows, NEW s \in Thread, LinkTarget(s)
    PROVE  SyncTypeOK' /\ JobsInFlight'
<1>1. job[s] # NoJob /\ job[s].pc = "linkTarget" /\ job[s].pc \in RelationCall
  BY DEF LinkTarget, At, RelationCall
<1>2. PICK i : i = job[s].itemR
  OBVIOUS
<1>3. /\ Success(i.edge.src) \in syncLog /\ Success(i.edge.tgt) \in syncLog
      /\ i.edge.tgt \in Entity /\ node[i.edge.tgt] # Null
      /\ ChunkOf[i.id] \in Chunk /\ ChunkOf[i.id] \in chunkNode
  BY <1>1, <1>2, RelationCallItem
<1>4. definedIn' = definedIn \cup {<<i.edge.tgt, ChunkOf[i.id]>>}
  BY <1>2, <1>3 DEF LinkTarget, Linked
<1>5. definedIn' \subseteq Entity \X Chunk
  BY <1>3, <1>4 DEF SyncInv, SyncTypeOK
<1>6. <<i.edge.src, ChunkOf[i.id]>> \in definedIn
  BY <1>1, <1>2 DEF SyncInv, JobsInFlight, JobInFlight
<1>7. job' \in [Thread -> Job \cup {NoJob}] /\ JobsInFlight'
  <2>1. CASE Goto(s, "mergeEdge")
    BY <1>1, <1>2, <1>3, <1>4, <1>6, <2>1, NextRelationCallInv
       DEF RelationCall, Grows
  <2>2. CASE RecordRelation(s, "FAILED")
    BY <1>1, <2>2, FailRelationInv
  <2> QED BY <2>1, <2>2 DEF LinkTarget
<1> QED BY <1>5, <1>7, NextType DEF LinkTarget, SyncInv, SyncTypeOK

\* What merge_relation adds: an edge between nodes whose loads are committed.
LEMMA MergedEdge ==
    ASSUME SyncInv, NEW s \in Thread, MergeEdge(s)
    PROVE  LET i == job[s].itemR
               d == [id |-> i.id, type |-> i.edge.type,
                     src |-> i.edge.src, tgt |-> i.edge.tgt]
           IN  /\ edge' = edge \cup {d} /\ d \in GraphEdge
               /\ relationVouched[d.id] # {}
               /\ node[d.src] # Null /\ node[d.tgt] # Null
               /\ Success(d.src) \in syncLog /\ Success(d.tgt) \in syncLog
               /\ <<d.src, ChunkOf[d.id]>> \in definedIn
               /\ <<d.tgt, ChunkOf[d.id]>> \in definedIn
<1>1. job[s] # NoJob /\ job[s].pc = "mergeEdge" /\ job[s].pc \in RelationCall
  BY DEF MergeEdge, At, RelationCall
<1>2. PICK i : i = job[s].itemR
  OBVIOUS
<1>3. /\ i.id \in Relation /\ i.edge.src \in Entity /\ i.edge.tgt \in Entity
      /\ i.edge.type \in RelType /\ relationVouched[i.id] # {}
      /\ Success(i.edge.src) \in syncLog /\ Success(i.edge.tgt) \in syncLog
      /\ node[i.edge.src] # Null /\ node[i.edge.tgt] # Null
  BY <1>1, <1>2, RelationCallItem
<1>4. /\ <<i.edge.src, ChunkOf[i.id]>> \in definedIn
      /\ <<i.edge.tgt, ChunkOf[i.id]>> \in definedIn
  BY <1>1, <1>2 DEF SyncInv, JobsInFlight, JobInFlight
<1>5. edge' = edge \cup {[id |-> i.id, type |-> i.edge.type,
                          src |-> i.edge.src, tgt |-> i.edge.tgt]}
  BY <1>2, <1>3 DEF MergeEdge
<1> QED BY <1>2, <1>3, <1>4, <1>5 DEF GraphEdge

LEMMA MergeEdgeInv ==
    ASSUME SyncInv, Grows, ReviewInv', NEW s \in Thread, MergeEdge(s)
    PROVE  SyncInv'
<1>1. /\ job[s] # NoJob /\ job[s].pc = "mergeEdge" /\ job[s].pc \in RelationCall
      /\ job[s].pc \in {"readSource", "readTarget"} \cup RelationCall
      /\ job[s].pc \in RelationPc
  BY DEF MergeEdge, At, RelationCall, RelationPc
<1>2. PICK i : i = job[s].itemR
  OBVIOUS
<1>3. PICK d : d = [id |-> i.id, type |-> i.edge.type,
                    src |-> i.edge.src, tgt |-> i.edge.tgt]
  OBVIOUS
<1>4. /\ edge' = edge \cup {d} /\ d \in GraphEdge
      /\ relationVouched[d.id] # {}
      /\ node[d.src] # Null /\ node[d.tgt] # Null
      /\ Success(d.src) \in syncLog /\ Success(d.tgt) \in syncLog
      /\ <<d.src, ChunkOf[d.id]>> \in definedIn
      /\ <<d.tgt, ChunkOf[d.id]>> \in definedIn
  BY <1>2, <1>3, MergedEdge
<1>5. d.id = i.id /\ i.id \in Relation /\ i.id \notin Entity
  BY <1>3, <1>4, ReviewAssumption DEF GraphEdge
<1>6. RelationLoaded(i.id)'
  BY <1>4, <1>5 DEF RelationLoaded, Grows
<1>7. job' \in [Thread -> Job \cup {NoJob}] /\ JobsInFlight'
  <2>1. CASE RecordRelation(s, "SUCCESS")
    <3>1. PICK x : x = i.id
      OBVIOUS
    <3>2. Loaded(x)'
      BY <1>5, <1>6, <3>1 DEF Loaded
    <3>3. Record(s, x, "SUCCESS", "relations")
      BY <1>2, <2>1, <3>1 DEF RecordRelation
    <3> QED BY <1>1, <1>5, <3>1, <3>2, <3>3, RecordInv
  <2>2. CASE RecordRelation(s, "FAILED")
    BY <1>1, <2>2, FailRelationInv
  <2> QED BY <2>1, <2>2 DEF MergeEdge
<1>8. SyncTypeOK'
  BY <1>4, <1>7 DEF MergeEdge, SyncInv, SyncTypeOK, ReviewInv
<1>9. SuccessIsInGraph'
  BY LoadedStable DEF MergeEdge, SyncInv, SuccessIsInGraph, Success
<1>10. EdgesAfterEndpoints'
  BY <1>4 DEF MergeEdge, SyncInv, EdgesAfterEndpoints, Success
<1>11. GraphOnRecord'
  BY <1>4 DEF MergeEdge, SyncInv, SyncTypeOK, GraphOnRecord, GraphEdge, Grows
<1> QED BY <1>7, <1>8, <1>9, <1>10, <1>11 DEF SyncInv

LEMMA FinishRelationsInv ==
    ASSUME SyncInv, Grows, ReviewInv', NEW s \in Thread, FinishRelations(s)
    PROVE  SyncInv'
<1>1. /\ syncLog' \subseteq LogRow
      /\ SuccessIsInGraph' /\ EdgesAfterEndpoints' /\ GraphOnRecord'
  BY CommitLogs DEF FinishRelations, At
<1>2. job' \in [Thread -> Job \cup {NoJob}] /\ JobsInFlight'
  BY EndJobInv DEF FinishRelations
<1>3. SyncTypeOK'
  BY <1>1, <1>2 DEF FinishRelations, SyncInv, SyncTypeOK, ReviewInv, graph
<1> QED BY <1>1, <1>2, <1>3 DEF SyncInv

LEMMA FaultInv ==
    ASSUME SyncInv, Grows, NEW s \in Thread, CallFails(s) \/ JobDies(s)
    PROVE  SyncTypeOK' /\ JobsInFlight'
<1>1. CASE JobDies(s)
  BY <1>1, EndJobInv, QuietStep DEF JobDies
<1>2. CASE CallFails(s)
  <2>1. job[s] # NoJob
    BY <1>2 DEF CallFails, EntityCall, RelationCall, NoJob
  <2>2. job' \in [Thread -> Job \cup {NoJob}] /\ JobsInFlight'
    BY <1>2, <2>1, FailEntityInv, FailRelationInv DEF CallFails
  <2> QED BY <1>2, <2>2, QuietStep DEF CallFails
<1> QED BY <1>1, <1>2

-----------------------------------------------------------------------------

LEMMA JobStepInv ==
    ASSUME SyncInv, Grows, ReviewInv', NEW s \in Thread,
           JobStep(s) \/ CallFails(s) \/ JobDies(s)
    PROVE  SyncInv'
<1>1. CASE MergeNode(s)
  BY <1>1, MergeNodeInv
<1>2. CASE MergeEdge(s)
  BY <1>2, MergeEdgeInv
<1>3. CASE FinishEntities(s) \/ FinishRelations(s)
  BY <1>3, FinishEntitiesInv, FinishRelationsInv
<1>4. CASE \/ SelectEntities(s) \/ SkipEntity(s) \/ PickEntity(s)
           \/ ReadWhitelist(s) \/ SelectRelations(s) \/ SkipRelation(s)
           \/ PickRelation(s) \/ ReadSourceRow(s) \/ ReadTargetRow(s)
           \/ CallFails(s) \/ JobDies(s)
           \/ MergeChunk(s) \/ LinkChunk(s) \/ RelationChunk(s)
           \/ LinkSource(s) \/ LinkTarget(s)
  <2>1. SyncTypeOK' /\ JobsInFlight'
    BY <1>4, SelectEntitiesInv, SkipEntityInv, PickEntityInv, ReadWhitelistInv,
       SelectRelationsInv, SkipRelationInv, PickRelationInv, ReadSourceRowInv,
       ReadTargetRowInv, FaultInv, MergeChunkInv, LinkChunkInv,
       RelationChunkInv, LinkSourceInv, LinkTargetInv
  <2>2. UNCHANGED <<node, edge, syncLog>>
    BY <1>4 DEF SelectEntities, SkipEntity, PickEntity, ReadWhitelist,
                SelectRelations, SkipRelation, PickRelation, ReadSourceRow,
                ReadTargetRow, CallFails, JobDies, MergeChunk, LinkChunk,
                RelationChunk, LinkSource, LinkTarget, graph
  <2> QED BY <2>1, <2>2, GraphUnchanged DEF SyncInv
<1> QED BY <1>1, <1>2, <1>3, <1>4 DEF JobStep, SyncEntitiesStep, SyncRelationsStep

LEMMA SyncNextInv == SyncInv /\ [SyncNext]_allVars => SyncInv'
<1> SUFFICES ASSUME SyncInv, [SyncNext]_allVars PROVE SyncInv'
  OBVIOUS
<1>1. Grows /\ ReviewInv'
  BY StepGrows, StepIsReviewStep, NextInv DEF SyncInv
<1>2. TypeOK'
  BY <1>1 DEF ReviewInv
<1>3. CASE UNCHANGED allVars
  <2>1. SyncTypeOK'
    BY <1>2, <1>3 DEF SyncInv, SyncTypeOK, allVars, syncVars, graph
  <2>2. JobsInFlight'
    BY <1>1, <1>3, JobsUnchanged DEF allVars, syncVars
  <2>3. SuccessIsInGraph' /\ EdgesAfterEndpoints' /\ GraphOnRecord'
    BY <1>1, <1>3, GraphUnchanged DEF allVars, syncVars, graph
  <2> QED BY <1>1, <2>1, <2>2, <2>3 DEF SyncInv
<1>4. ASSUME NEW s \in Reviewer,
             ReviewStep(s) \/ AutoSyncEntity(s) \/ AutoSyncRelation(s)
      PROVE  SyncInv'
  <2>1. SyncTypeOK' /\ JobsInFlight'
    BY <1>1, <1>2, <1>4, ReviewStepInv, AutoSyncInv
  <2>2. UNCHANGED <<node, edge, syncLog>>
    BY <1>4 DEF ReviewStep, AutoSyncEntity, AutoSyncRelation, syncVars, graph
  <2> QED BY <1>1, <2>1, <2>2, GraphUnchanged DEF SyncInv
<1>5. ASSUME NEW s \in Syncer, NEW f \in BOOLEAN,
             NEW scope \in {"all", "entities", "relations"}, StartSync(s, scope, f)
      PROVE  SyncInv'
  <2>1. SyncTypeOK' /\ JobsInFlight'
    BY <1>1, <1>5, StartInv
  <2>2. UNCHANGED <<node, edge, syncLog>>
    BY <1>5 DEF StartSync, graph
  <2> QED BY <1>1, <2>1, <2>2, GraphUnchanged DEF SyncInv
<1>6. ASSUME NEW t \in Signature, NEW a \in BOOLEAN, SetRelationType(t, a)
      PROVE  SyncInv'
  <2>1. SyncTypeOK' /\ JobsInFlight'
    BY <1>1, <1>2, <1>6, SetRelationTypeInv
  <2>2. UNCHANGED <<node, edge, syncLog>>
    BY <1>6 DEF SetRelationType, graph
  <2> QED BY <1>1, <2>1, <2>2, GraphUnchanged DEF SyncInv
<1> QED BY <1>1, <1>3, <1>4, <1>5, <1>6, JobStepInv DEF SyncNext

THEOREM SyncInvariant == SyncSpec => []SyncInv
<1> QED BY SyncInitInv, SyncNextInv, PTL DEF SyncSpec

\* Every state is well typed.
THEOREM SyncTypeCorrect == SyncSpec => []SyncTypeOK
<1>1. SyncInv => SyncTypeOK
  BY DEF SyncInv
<1> QED BY <1>1, SyncInvariant, PTL

\* graph_sync_log tells the truth about Neo4j for good: a committed SUCCESS row
\* is loaded, whatever overlapped or failed.
THEOREM LogIsTrue == SyncSpec => []SuccessIsInGraph
<1>1. SyncInv => SuccessIsInGraph
  BY DEF SyncInv
<1> QED BY <1>1, SyncInvariant, PTL

\* No edge is loaded before the loads of its ends are committed.
THEOREM EdgesComeLast == SyncSpec => []EdgesAfterEndpoints
<1>1. SyncInv => EdgesAfterEndpoints
  BY DEF SyncInv
<1> QED BY <1>1, SyncInvariant, PTL

\* What a job holds stays good while reviewers, other jobs and faults go on.
THEOREM JobsStayGood == SyncSpec => []JobsInFlight
<1>1. SyncInv => JobsInFlight
  BY DEF SyncInv
<1> QED BY <1>1, SyncInvariant, PTL

\* Nothing reaches the graph without an approval on record.
THEOREM GraphIsOnRecord == SyncSpec => []GraphOnRecord
<1>1. SyncInv => GraphOnRecord
  BY DEF SyncInv
<1> QED BY <1>1, SyncInvariant, PTL

-----------------------------------------------------------------------------
(* The review and the sync jobs together implement GovernedGraph: each step  *)
(* of SyncSpec is a step of the abstract specification or a stutter.  With   *)
(* one reviewer the graph moreover says what an approval was given for:      *)
(* approvals read rows nobody else changes, and jobs write them.             *)

vouchedE == {e \in Entity : entityVouched[e] # {}}
nodes    == {e \in Entity : node[e] # Null}
edges    == {<<d.id, d.src, d.tgt>> : d \in edge}

\* The four abstract variables, as the refinement mapping gives them.
absVars == <<vouchedE, VouchedLinks, nodes, edges>>

LEMMA InitRefines == SyncInit => Governed!Init
BY DEF SyncInit, Init, Governed!Init, VouchedLinks

\* What vouches for a relation is an edge of its approval rows.
LEMMA LinkOfEdge ==
    ASSUME NEW r \in Relation, NEW d \in relationVouched[r]
    PROVE  <<r, d.src, d.tgt>> \in VouchedLinks
BY DEF VouchedLinks

LEMMA StutterRefines ==
    ASSUME UNCHANGED <<entityVouched, relationVouched, node, edge>>
    PROVE  UNCHANGED absVars
BY DEF absVars, vouchedE, VouchedLinks, nodes, edges

\* The commit of an approval vouches for one more entity.
LEMMA CommitEntityRefines ==
    ASSUME SyncInv, NEW s \in Reviewer, AutoSyncEntity(s)
    PROVE  Governed!Next \/ UNCHANGED absVars
<1> DEFINE txn == entityTxn[s]
<1>1. /\ CommitEntity(s) /\ txn \in EntityTxn
      /\ relationVouched' = relationVouched /\ node' = node /\ edge' = edge
  BY DEF AutoSyncEntity, CommitEntity, SyncInv, ReviewInv, TypeOK, graph
<1>2. PICK e \in Entity : e = txn.id
  BY <1>1 DEF EntityTxn
<1>3. CASE txn.op = "approve"
  <2>1. entityVouched' = [entityVouched EXCEPT ![e] =
                            entityVouched[e] \cup {txn.mem.content}]
    BY <1>1, <1>2, <1>3 DEF CommitEntity
  <2>2. vouchedE' = vouchedE \cup {e}
    BY <2>1 DEF vouchedE, SyncInv, ReviewInv, TypeOK
  <2>3. UNCHANGED <<VouchedLinks, nodes, edges>>
    BY <1>1 DEF VouchedLinks, nodes, edges
  <2>4. Governed!VouchEntity(e)
    BY <2>2, <2>3 DEF Governed!VouchEntity, vouchedE, nodes, edges
  <2> QED BY <2>4 DEF Governed!Next
<1>4. CASE txn.op # "approve"
  BY <1>1, <1>4, StutterRefines DEF CommitEntity
<1> QED BY <1>3, <1>4

\* The commit of a relation approval vouches for one more link, between
\* entities that are vouched for already.
LEMMA CommitRelationRefines ==
    ASSUME SyncInv, NEW s \in Reviewer, AutoSyncRelation(s)
    PROVE  Governed!Next \/ UNCHANGED absVars
<1> DEFINE txn == relationTxn[s]
           link == <<txn.id, txn.mem.src, txn.mem.tgt>>
<1>1. /\ CommitRelation(s) /\ txn \in RelationTxn /\ RelationInFlight(txn)
      /\ entityVouched' = entityVouched /\ node' = node /\ edge' = edge
  BY DEF AutoSyncRelation, CommitRelation, SyncInv, ReviewInv, TypeOK,
         RequestsInFlight, graph
<1>2. txn.id \in Relation
  BY <1>1 DEF RelationTxn
<1>3. CASE txn.op = "approve"
  <2>1. OnRecord(txn.mem.src) /\ OnRecord(txn.mem.tgt)
    BY <1>1, <1>3 DEF RelationInFlight, CommitRelation
  <2>2. txn.mem.src \in vouchedE /\ txn.mem.tgt \in vouchedE
    BY <1>1, <2>1 DEF OnRecord, vouchedE, RelationTxn, RelationRow
  <2>3. relationVouched' = [relationVouched EXCEPT ![txn.id] =
                              relationVouched[txn.id] \cup {EdgeOf(txn.mem)}]
    BY <1>1, <1>3 DEF CommitRelation
  <2>4. EdgeOf(txn.mem).src = txn.mem.src /\ EdgeOf(txn.mem).tgt = txn.mem.tgt
    BY DEF EdgeOf
  <2>5. VouchedLinks' = VouchedLinks \cup {link}
    BY <1>2, <2>3, <2>4 DEF VouchedLinks, SyncInv, ReviewInv, TypeOK
  <2>6. UNCHANGED <<vouchedE, nodes, edges>>
    BY <1>1 DEF vouchedE, nodes, edges
  <2>7. PICK l : l = link
    OBVIOUS
  <2>8. l \in Relation \X Entity \X Entity /\ l[2] = txn.mem.src /\ l[3] = txn.mem.tgt
    BY <1>2, <2>2, <2>7 DEF vouchedE
  <2>9. Governed!VouchRelation(l)
    BY <2>2, <2>5, <2>6, <2>7, <2>8
       DEF Governed!VouchRelation, vouchedE, nodes, edges
  <2> QED BY <2>8, <2>9 DEF Governed!Next, Governed!Links
<1>4. CASE txn.op # "approve"
  BY <1>1, <1>4, StutterRefines DEF CommitRelation
<1> QED BY <1>3, <1>4

LEMMA MergeNodeRefines ==
    ASSUME SyncInv, NEW s \in Thread, MergeNode(s)
    PROVE  Governed!Next
<1>1. job[s] # NoJob /\ job[s].pc \in EntityCall
  BY DEF MergeNode, At, EntityCall
<1>2. PICK i : i = job[s].itemE
  OBVIOUS
<1>3. /\ i.id \in Entity /\ entityVouched[i.id] # {}
      /\ i.content # Null
  BY <1>1, <1>2, EntityCallItem, GraphSyncAssumption DEF EntityItem
<1>4. node' = [node EXCEPT ![i.id] = i.content]
  BY <1>2 DEF MergeNode
<1>5. nodes' = nodes \cup {i.id}
  BY <1>3, <1>4 DEF nodes, SyncInv, SyncTypeOK
<1>6. UNCHANGED <<vouchedE, VouchedLinks, edges>>
  BY DEF MergeNode, vars, vouchedE, VouchedLinks, edges
<1>7. Governed!AddNode(i.id)
  BY <1>3, <1>5, <1>6 DEF Governed!AddNode, vouchedE, nodes, edges
<1> QED BY <1>3, <1>7 DEF Governed!Next

LEMMA MergeEdgeRefines ==
    ASSUME SyncInv, NEW s \in Thread, MergeEdge(s)
    PROVE  Governed!Next
<1>1. PICK i : i = job[s].itemR
  OBVIOUS
<1>2. PICK d : d = [id |-> i.id, type |-> i.edge.type,
                    src |-> i.edge.src, tgt |-> i.edge.tgt]
  OBVIOUS
<1>3. /\ edge' = edge \cup {d} /\ d \in GraphEdge
      /\ relationVouched[d.id] # {}
      /\ node[d.src] # Null /\ node[d.tgt] # Null
  BY <1>1, <1>2, MergedEdge
<1>4. PICK l : l = <<d.id, d.src, d.tgt>>
  OBVIOUS
<1>5. l \in Relation \X Entity \X Entity /\ l[1] = d.id /\ l[2] = d.src /\ l[3] = d.tgt
  BY <1>3, <1>4 DEF GraphEdge
<1>6. l[2] \in nodes /\ l[3] \in nodes
  BY <1>3, <1>5 DEF nodes, GraphEdge
<1>7. \E v \in VouchedLinks : v[1] = l[1]
  BY <1>3, <1>5, LinkOfEdge DEF GraphEdge
<1>8. edges' = edges \cup {l}
  BY <1>3, <1>4 DEF edges
<1>9. UNCHANGED <<vouchedE, VouchedLinks, nodes>>
  BY DEF MergeEdge, vars, vouchedE, VouchedLinks, nodes
<1>10. Governed!AddEdge(l)
  BY <1>6, <1>7, <1>8, <1>9 DEF Governed!AddEdge, vouchedE, nodes, edges
<1> QED BY <1>5, <1>10 DEF Governed!Next, Governed!Links

\* Every other step is invisible to the abstract specification.
LEMMA OtherStepsStutter ==
    ASSUME \/ \E s \in Reviewer : ReviewStep(s)
           \/ \E s \in Syncer, scope \in {"all", "entities", "relations"},
                 f \in BOOLEAN : StartSync(s, scope, f)
           \/ \E t \in Signature, a \in BOOLEAN : SetRelationType(t, a)
           \/ UNCHANGED allVars
    PROVE  UNCHANGED absVars
<1>1. ASSUME NEW s \in Reviewer, ReviewStep(s)
      PROVE  UNCHANGED <<entityVouched, relationVouched, node, edge>>
  BY <1>1 DEF ReviewStep, EntityRequest, RelationRequest, ApproveEntity,
         RejectEntity, ModifyEntity, MergeEntity, BeginEntity, ApproveRelation,
         RejectRelation, ModifyRelation, MergeRelation, BeginRelation,
         ReadSource, ReadTarget, Abort, vouched, syncVars, graph
<1>2. ASSUME NEW s, NEW scope, NEW f, StartSync(s, scope, f)
      PROVE  UNCHANGED <<entityVouched, relationVouched, node, edge>>
  BY <1>2 DEF StartSync, vars, graph
<1>3. ASSUME NEW t, NEW a, SetRelationType(t, a)
      PROVE  UNCHANGED <<entityVouched, relationVouched, node, edge>>
  BY <1>3 DEF SetRelationType, vars, graph
<1>4. CASE UNCHANGED allVars
  BY <1>4, StutterRefines DEF allVars, syncVars, vars, graph
<1> QED BY <1>1, <1>2, <1>3, <1>4, StutterRefines

LEMMA JobStepRefines ==
    ASSUME SyncInv, NEW s \in Thread, JobStep(s) \/ CallFails(s) \/ JobDies(s)
    PROVE  Governed!Next \/ UNCHANGED absVars
<1>1. CASE MergeNode(s)
  BY <1>1, MergeNodeRefines
<1>2. CASE MergeEdge(s)
  BY <1>2, MergeEdgeRefines
<1>3. CASE ~MergeNode(s) /\ ~MergeEdge(s)
  <2>1. UNCHANGED <<node, edge>>
    BY <1>3
       DEF JobStep, SyncEntitiesStep, SyncRelationsStep, SelectEntities,
           SkipEntity, PickEntity, MergeChunk, LinkChunk, FinishEntities,
           ReadWhitelist, SelectRelations, SkipRelation, PickRelation,
           ReadSourceRow, ReadTargetRow, RelationChunk, LinkSource, LinkTarget,
           FinishRelations, CallFails, JobDies, graph
  <2>2. UNCHANGED <<entityVouched, relationVouched>>
    BY JobStepsAreNotReview DEF vars
  <2> QED BY <2>1, <2>2, StutterRefines
<1> QED BY <1>1, <1>2, <1>3

LEMMA StepRefines ==
    ASSUME SyncInv, [SyncNext]_allVars
    PROVE  [Governed!Next]_absVars
<1>1. ASSUME NEW s \in Reviewer, AutoSyncEntity(s) \/ AutoSyncRelation(s)
      PROVE  Governed!Next \/ UNCHANGED absVars
  BY <1>1, CommitEntityRefines, CommitRelationRefines
<1> QED BY <1>1, OtherStepsStutter, JobStepRefines DEF SyncNext

\* The detailed specification implements the abstract one: no interleaving of
\* review requests, sync jobs, auto syncs and faults puts anything into the
\* graph that was not vouched for, an edge before its ends, or takes anything
\* back.
THEOREM KeepsGovernanceProved == SyncSpec => KeepsGovernance
<1>1. SyncInit => Governed!Init
  BY InitRefines
<1>2. SyncInv /\ [SyncNext]_allVars => [Governed!Next]_absVars
  BY StepRefines
<1>3. SyncInv /\ [SyncNext]_allVars =>
        [Governed!Next]_<<{e \in Entity : entityVouched[e] # {}}, VouchedLinks,
                          {e \in Entity : node[e] # Null},
                          {<<d.id, d.src, d.tgt>> : d \in edge}>>
  BY <1>2 DEF absVars, vouchedE, nodes, edges
<1> QED
  BY <1>1, <1>3, SyncInvariant, PTL DEF SyncSpec, KeepsGovernance, Governed!Spec

-----------------------------------------------------------------------------
(* With one reviewer (OneReviewer), any number of sync jobs and faults, the  *)
(* graph shows contents and edges that approvals were given for.  A job      *)
(* carries rows for a long time: all it holds was vouched for when selected, *)
(* and audit_log forgets nothing.                                            *)

VouchedItem(i) ==
    /\ i \in EntityItem => i.content \in entityVouched[i.id]
    /\ i \in RelationItem => i.edge \in relationVouched[i.id]

Held(j) == j.todoE \cup j.todoR \cup {j.itemE, j.itemR, j.held}

JobsVouched ==
    \A s \in Thread : job[s] # NoJob => \A i \in Held(job[s]) : VouchedItem(i)

VouchedInv == SyncInv /\ Serial /\ GraphAsVouched /\ JobsVouched

LEMMA VouchedInit == SyncInit => VouchedInv
<1> SUFFICES ASSUME SyncInit PROVE VouchedInv
  OBVIOUS
<1>1. SyncInv /\ Serial
  BY SyncInitInv, SerialInit DEF SyncInit
<1>2. GraphAsVouched /\ JobsVouched
  BY DEF SyncInit, GraphAsVouched, JobsVouched
<1> QED BY <1>1, <1>2 DEF VouchedInv

\* audit_log only grows.
LEMMA VouchedGrows ==
    ASSUME TypeOK, [Next]_vars
    PROVE  /\ \A e \in Entity : entityVouched[e] \subseteq entityVouched'[e]
           /\ \A r \in Relation : relationVouched[r] \subseteq relationVouched'[r]
<1>1. ASSUME NEW s \in Reviewer, CommitEntity(s), NEW e \in Entity
      PROVE  entityVouched[e] \subseteq entityVouched'[e]
  BY <1>1 DEF CommitEntity, TypeOK
<1>2. ASSUME NEW s \in Reviewer, CommitRelation(s), NEW r \in Relation
      PROVE  relationVouched[r] \subseteq relationVouched'[r]
  BY <1>2 DEF CommitRelation, TypeOK
<1>3. Next => \/ UNCHANGED vouched
              \/ \E s \in Reviewer : CommitEntity(s) /\ UNCHANGED relationVouched
              \/ \E s \in Reviewer : CommitRelation(s) /\ UNCHANGED entityVouched
  BY DEF Next, EntityRequest, RelationRequest, ApproveEntity, RejectEntity,
         ModifyEntity, MergeEntity, BeginEntity, ApproveRelation,
         RejectRelation, ModifyRelation, MergeRelation, BeginRelation,
         ReadSource, ReadTarget, CommitEntity, CommitRelation, Abort
<1> QED BY <1>1, <1>2, <1>3 DEF vars, vouched

LEMMA VouchedItemStable ==
    ASSUME TypeOK, [Next]_vars, NEW i, VouchedItem(i)
    PROVE  VouchedItem(i)'
BY VouchedGrows DEF VouchedItem, EntityItem, RelationItem

\* A step of thread s keeps the other threads' jobs; its own holds what it held
\* before, or rows that are vouched for.
LEMMA JobsVouchedStep ==
    ASSUME VouchedInv, [Next]_vars, NEW s \in Thread,
           job' = [job EXCEPT ![s] = job'[s]],
           job'[s] # NoJob =>
              \A i \in Held(job'[s]) :
                 \/ VouchedItem(i)'
                 \/ job[s] # NoJob /\ i \in Held(job[s]) \cup {NoItem}
    PROVE  JobsVouched'
<1> SUFFICES ASSUME NEW t \in Thread, job'[t] # NoJob, NEW i \in Held(job'[t])
             PROVE  VouchedItem(i)'
  BY DEF JobsVouched, Held
<1>1. TypeOK
  BY DEF VouchedInv, SyncInv, ReviewInv
<1>2. VouchedItem(NoItem)'
  BY NoJobType DEF VouchedItem
<1>3. CASE t = s
  BY <1>1, <1>2, <1>3, VouchedItemStable DEF VouchedInv, JobsVouched
<1>4. CASE t # s
  <2>1. job'[t] = job[t]
    BY <1>4 DEF VouchedInv, SyncInv, SyncTypeOK
  <2> QED BY <1>1, <2>1, VouchedItemStable DEF VouchedInv, JobsVouched
<1> QED BY <1>3, <1>4

LEMMA GraphAsVouchedStable ==
    ASSUME VouchedInv, [Next]_vars, UNCHANGED <<node, edge>>
    PROVE  GraphAsVouched'
<1>1. TypeOK
  BY DEF VouchedInv, SyncInv, ReviewInv
<1> QED BY <1>1, VouchedGrows
        DEF VouchedInv, SyncInv, SyncTypeOK, GraphAsVouched, GraphEdge

\* The steps that only move rows a job already holds, or drop them.
Moves(s) ==
    \/ SkipEntity(s) \/ PickEntity(s) \/ FinishEntities(s)
    \/ MergeNode(s) \/ MergeChunk(s) \/ LinkChunk(s)
    \/ ReadWhitelist(s) \/ SkipRelation(s) \/ PickRelation(s)
    \/ ReadSourceRow(s) \/ ReadTargetRow(s)
    \/ RelationChunk(s) \/ LinkSource(s) \/ LinkTarget(s) \/ MergeEdge(s)
    \/ FinishRelations(s) \/ CallFails(s) \/ JobDies(s)

LEMMA MovesKeepHeld ==
    ASSUME VouchedInv, NEW s \in Thread, Moves(s)
    PROVE  /\ job' = [job EXCEPT ![s] = job'[s]]
           /\ job'[s] # NoJob =>
                 /\ job[s] # NoJob
                 /\ Held(job'[s]) \subseteq Held(job[s]) \cup {NoItem}
<1>1. job \in [Thread -> Job \cup {NoJob}]
  BY DEF VouchedInv, SyncInv, SyncTypeOK
<1>2. job[s] # NoJob
  <2>1. CASE CallFails(s)
    BY <2>1 DEF CallFails, EntityCall, RelationCall, NoJob
  <2>2. CASE ~CallFails(s)
    BY <2>2
       DEF Moves, SkipEntity, PickEntity, FinishEntities, MergeNode, MergeChunk,
           LinkChunk, ReadWhitelist, SkipRelation, PickRelation, ReadSourceRow,
           ReadTargetRow, RelationChunk, LinkSource, LinkTarget, MergeEdge,
           FinishRelations, JobDies, At
  <2> QED BY <2>1, <2>2
<1>3. PICK k \in Job : k = job[s]
  BY <1>1, <1>2
<1> DEFINE Keeps(j) == j = NoJob \/ Held(j) \subseteq Held(k) \cup {NoItem}
<1>4. ASSUME NEW x, NEW status, NEW pc, Record(s, x, status, pc)
      PROVE  \E j : SetJob(s, j) /\ Keeps(j)
  <2>1. PICK row : row = [id |-> x, status |-> status]
    OBVIOUS
  <2>2. PICK j : j = [k EXCEPT !.pc = pc, !.itemE = NoItem, !.itemR = NoItem,
                               !.srcOk = FALSE, !.logs = k.logs \cup {row}]
    OBVIOUS
  <2>3. SetJob(s, j)
    BY <1>3, <1>4, <2>1, <2>2 DEF Record, SetJob
  <2>4. Keeps(j)
    BY <2>2 DEF Held, Job
  <2> QED BY <2>3, <2>4
<1>5. ASSUME NEW pc, Goto(s, pc)
      PROVE  \E j : SetJob(s, j) /\ Keeps(j)
  <2>1. PICK j : j = [k EXCEPT !.pc = pc]
    OBVIOUS
  <2>2. SetJob(s, j) /\ Keeps(j)
    BY <1>3, <1>5, <2>1 DEF Goto, SetJob, Held, Job
  <2> QED BY <2>2
<1>6. CASE SkipEntity(s) \/ SkipRelation(s)
  <2>1. \E j : SetJob(s, j) /\ Keeps(j)
    <3>1. CASE SkipEntity(s)
      <4>1. PICK i : SetJob(s, [k EXCEPT !.todoE = @ \ {i},
                       !.logs = @ \cup {[id |-> i.id, status |-> "SKIPPED"]}])
        BY <1>3, <3>1 DEF SkipEntity
      <4>2. PICK j : j = [k EXCEPT !.todoE = @ \ {i},
                       !.logs = @ \cup {[id |-> i.id, status |-> "SKIPPED"]}]
        OBVIOUS
      <4>3. SetJob(s, j) /\ Keeps(j)
        BY <4>1, <4>2 DEF Held, Job
      <4> QED BY <4>3
    <3>2. CASE SkipRelation(s)
      <4>1. PICK i : SetJob(s, [k EXCEPT !.todoR = @ \ {i},
                       !.logs = @ \cup {[id |-> i.id, status |-> "SKIPPED"]}])
        BY <1>3, <3>2 DEF SkipRelation
      <4>2. PICK j : j = [k EXCEPT !.todoR = @ \ {i},
                       !.logs = @ \cup {[id |-> i.id, status |-> "SKIPPED"]}]
        OBVIOUS
      <4>3. SetJob(s, j) /\ Keeps(j)
        BY <4>1, <4>2 DEF Held, Job
      <4> QED BY <4>3
    <3> QED BY <1>6, <3>1, <3>2
  <2> QED BY <2>1, <1>1, <1>2, <1>3 DEF SetJob
<1>7. CASE \/ PickEntity(s) \/ PickRelation(s) \/ FinishEntities(s)
           \/ FinishRelations(s) \/ ReadWhitelist(s) \/ ReadSourceRow(s)
           \/ JobDies(s)
  <2>1. \E j : SetJob(s, j) /\ Keeps(j)
    <3>1. CASE PickEntity(s)
      <4>1. PICK i \in k.todoE : SetJob(s, [k EXCEPT !.pc = "mergeNode",
                                   !.itemE = i, !.todoE = @ \ {i}])
        BY <1>3, <3>1 DEF PickEntity
      <4>2. PICK j : j = [k EXCEPT !.pc = "mergeNode", !.itemE = i,
                                   !.todoE = @ \ {i}]
        OBVIOUS
      <4>3. SetJob(s, j) /\ Keeps(j)
        BY <4>1, <4>2 DEF Held, Job
      <4> QED BY <4>3
    <3>2. CASE PickRelation(s)
      <4>1. PICK i \in k.todoR : SetJob(s,
                IF Loadable(s, i)
                THEN [k EXCEPT !.pc = "readSource", !.itemR = i,
                               !.todoR = @ \ {i}]
                ELSE [k EXCEPT !.todoR = @ \ {i},
                        !.logs = @ \cup {[id |-> i.id, status |-> "FAILED"]}])
        BY <1>3, <3>2 DEF PickRelation
      <4>2. PICK a, b : /\ a = [k EXCEPT !.pc = "readSource", !.itemR = i,
                                         !.todoR = @ \ {i}]
                        /\ b = [k EXCEPT !.todoR = @ \ {i}, !.logs =
                               @ \cup {[id |-> i.id, status |-> "FAILED"]}]
        OBVIOUS
      <4>3. Keeps(a) /\ Keeps(b)
        BY <4>2 DEF Held, Job
      <4>4. SetJob(s, a) \/ SetJob(s, b)
        BY <4>1, <4>2
      <4> QED BY <4>3, <4>4
    <3>3. CASE FinishEntities(s) \/ FinishRelations(s) \/ JobDies(s)
      <4>1. PICK a : a = [k EXCEPT !.pc = "whitelist", !.logs = {}]
        OBVIOUS
      <4>2. SetJob(s, a) \/ SetJob(s, NoJob)
        BY <1>3, <3>3, <4>1 DEF FinishEntities, FinishRelations, JobDies
      <4>3. Keeps(a) /\ Keeps(NoJob)
        BY <4>1 DEF Held, Job
      <4> QED BY <4>2, <4>3
    <3>4. CASE ReadWhitelist(s)
      <4>1. PICK a : a = [k EXCEPT !.pc = "selectRelations",
                                   !.whitelist = {t.name : t \in activeTypes}]
        OBVIOUS
      <4>2. SetJob(s, a) /\ Keeps(a)
        BY <1>3, <3>4, <4>1 DEF ReadWhitelist, Held, Job
      <4> QED BY <4>2
    <3>5. CASE ReadSourceRow(s)
      <4>1. PICK a : a = [k EXCEPT !.pc = "readTarget",
                                   !.srcOk = Approved(k.itemR.edge.src)]
        OBVIOUS
      <4>2. SetJob(s, a)
        BY <1>3, <3>5, <4>1 DEF ReadSourceRow
      <4>3. Keeps(a)
        BY <4>1 DEF Held, Job
      <4> QED BY <4>2, <4>3
    <3> QED BY <1>7, <3>1, <3>2, <3>3, <3>4, <3>5
  <2> QED BY <2>1, <1>1, <1>2, <1>3 DEF SetJob
<1>8. CASE \/ MergeNode(s) \/ MergeChunk(s) \/ LinkChunk(s) \/ ReadTargetRow(s)
           \/ RelationChunk(s) \/ LinkSource(s) \/ LinkTarget(s)
           \/ MergeEdge(s) \/ CallFails(s)
  <2>1. \/ \E x, status, pc : Record(s, x, status, pc)
        \/ \E pc : Goto(s, pc)
    BY <1>8 DEF MergeNode, MergeChunk, LinkChunk, ReadTargetRow, RelationChunk,
                LinkSource, LinkTarget, MergeEdge, CallFails, RecordEntity,
                RecordRelation
  <2>2. \E j : SetJob(s, j) /\ Keeps(j)
    BY <1>4, <1>5, <2>1
  <2> QED BY <2>2, <1>1, <1>2, <1>3 DEF SetJob
<1> QED BY <1>6, <1>7, <1>8 DEF Moves

LEMMA MovesVouched ==
    ASSUME VouchedInv, [Next]_vars, NEW s \in Thread, Moves(s)
    PROVE  JobsVouched'
<1>1. ASSUME job'[s] # NoJob, NEW i \in Held(job'[s])
      PROVE  job[s] # NoJob /\ i \in Held(job[s]) \cup {NoItem}
  BY <1>1, MovesKeepHeld
<1> QED BY <1>1, MovesKeepHeld, JobsVouchedStep

\* The rows a job selects are APPROVED, or the one its own request approved.
LEMMA SelectVouched ==
    ASSUME VouchedInv, [Next]_vars, NEW s \in Thread,
           SelectEntities(s) \/ SelectRelations(s)
    PROVE  JobsVouched'
<1>1. /\ job \in [Thread -> Job \cup {NoJob}] /\ job[s] # NoJob /\ job[s] \in Job
      /\ TypeOK /\ UNCHANGED vars
  BY DEF VouchedInv, SyncInv, ReviewInv, SyncTypeOK, SelectEntities,
         SelectRelations, At
<1>2. PICK k \in Job : k = job[s]
  BY <1>1
<1>3. VouchedItem(k.held) /\ k.held \in EntityItem \cup RelationItem \cup {NoItem}
  BY <1>1, <1>2 DEF VouchedInv, JobsVouched, Held, Job
<1>4. CASE SelectEntities(s)
  <2>1. PICK todo : todo = {[id |-> e, content |-> LoadedContent(s, e)] :
                     e \in {x \in Entity : /\ entity[x].status = "APPROVED"
                                           /\ entity[x].merged = Null}}
    OBVIOUS
  <2>2. ASSUME NEW e \in Entity, entity[e].status = "APPROVED"
        PROVE  LoadedContent(s, e) \in entityVouched[e]
    <3>1. k.held.id = e => k.held \in EntityItem
      BY <1>3, ReviewAssumption DEF RelationItem, NoItem
    <3>2. entity[e].content \in entityVouched[e]
      BY <2>2 DEF VouchedInv, Serial, ApprovedAsVouched
    <3> QED BY <1>2, <1>3, <3>1, <3>2 DEF LoadedContent, VouchedItem
  <2>3. \A i \in todo : i.content \in entityVouched[i.id] /\ i.id \in Entity
    BY <2>1, <2>2
  <2>4. \A i \in todo : VouchedItem(i)'
    BY <1>1, <2>3, ReviewAssumption DEF VouchedItem, RelationItem, vars
  <2>5. PICK j : j = [k EXCEPT !.pc = "entities", !.todoE = todo]
    OBVIOUS
  <2>6. SetJob(s, j)
    BY <1>2, <1>4, <2>1, <2>5 DEF SelectEntities
  <2>7. Held(j) \subseteq Held(k) \cup todo
    BY <2>5 DEF Held, Job
  <2>8. job' = [job EXCEPT ![s] = job'[s]] /\ job'[s] = j
    BY <1>1, <2>6 DEF SetJob
  <2> QED BY <1>1, <1>2, <2>4, <2>7, <2>8, JobsVouchedStep
<1>5. CASE SelectRelations(s)
  <2>1. PICK todo : todo = {[id |-> r, edge |-> LoadedEdge(s, r)] :
                     r \in {x \in Relation : relation[x].status = "APPROVED"}}
    OBVIOUS
  <2>2. ASSUME NEW r \in Relation, relation[r].status = "APPROVED"
        PROVE  LoadedEdge(s, r) \in relationVouched[r]
    <3>1. k.held.id = r => k.held \in RelationItem
      BY <1>3, ReviewAssumption, GraphSyncAssumption DEF EntityItem, NoItem
    <3>2. EdgeOf(relation[r]) \in relationVouched[r]
      BY <2>2 DEF VouchedInv, Serial, ApprovedAsVouched
    <3> QED BY <1>2, <1>3, <3>1, <3>2 DEF LoadedEdge, VouchedItem
  <2>3. \A i \in todo : i.edge \in relationVouched[i.id] /\ i.id \in Relation
    BY <2>1, <2>2
  <2>4. \A i \in todo : VouchedItem(i)'
    BY <1>1, <2>3, ReviewAssumption DEF VouchedItem, EntityItem, vars
  <2>5. PICK j : j = [k EXCEPT !.pc = "relations", !.todoR = todo]
    OBVIOUS
  <2>6. SetJob(s, j)
    BY <1>2, <1>5, <2>1, <2>5 DEF SelectRelations
  <2>7. Held(j) \subseteq Held(k) \cup todo
    BY <2>5 DEF Held, Job
  <2>8. job' = [job EXCEPT ![s] = job'[s]] /\ job'[s] = j
    BY <1>1, <2>6 DEF SetJob
  <2> QED BY <1>1, <1>2, <2>4, <2>7, <2>8, JobsVouchedStep
<1> QED BY <1>4, <1>5

\* A new job holds nothing, or the row its request has just had approved.
LEMMA FreshJobVouched ==
    ASSUME VouchedInv, [Next]_vars, NEW s \in Thread, NEW scope, NEW force,
           NEW held, VouchedItem(held)', SetJob(s, NewJob(scope, force, held))
    PROVE  JobsVouched'
<1>1. job' = [job EXCEPT ![s] = job'[s]] /\ job'[s] = NewJob(scope, force, held)
  BY DEF SetJob, VouchedInv, SyncInv, SyncTypeOK
<1>2. Held(NewJob(scope, force, held)) = {NoItem, held}
  BY DEF Held, NewJob
<1>3. VouchedItem(NoItem)'
  BY NoJobType DEF VouchedItem
<1> QED BY <1>1, <1>2, <1>3, JobsVouchedStep

LEMMA JobUnchangedVouched ==
    ASSUME VouchedInv, [Next]_vars, UNCHANGED job
    PROVE  JobsVouched'
<1>1. TypeOK
  BY DEF VouchedInv, SyncInv, ReviewInv
<1> QED BY <1>1, VouchedItemStable DEF VouchedInv, JobsVouched, Held

LEMMA AutoSyncVouched ==
    ASSUME VouchedInv, [Next]_vars, NEW s \in Reviewer,
           AutoSyncEntity(s) \/ AutoSyncRelation(s)
    PROVE  JobsVouched'
<1>1. s \in Thread /\ TypeOK
  BY DEF Thread, VouchedInv, SyncInv, ReviewInv
<1>2. CASE UNCHANGED job
  BY <1>2, JobUnchangedVouched
<1>3. CASE AutoSyncEntity(s) /\ job' # job
  <2>1. PICK held : held = [id |-> entityTxn[s].id,
                            content |-> entityTxn[s].mem.content]
    OBVIOUS
  <2>2. /\ CommitEntity(s) /\ entityTxn[s].op = "approve"
        /\ SetJob(s, NewJob("entities", FALSE, held))
    BY <1>3, <2>1 DEF AutoSyncEntity
  <2>3. held.content \in entityVouched'[held.id] /\ held.id \in Entity
    BY <1>1, <2>1, <2>2 DEF CommitEntity, TypeOK, EntityTxn
  <2>4. VouchedItem(held)'
    BY <2>3, ReviewAssumption DEF VouchedItem, RelationItem
  <2> QED BY <1>1, <2>2, <2>4, FreshJobVouched
<1>4. CASE AutoSyncRelation(s) /\ job' # job
  <2>1. PICK held : held = [id |-> relationTxn[s].id,
                            edge |-> EdgeOf(relationTxn[s].mem)]
    OBVIOUS
  <2>2. /\ CommitRelation(s) /\ relationTxn[s].op = "approve"
        /\ SetJob(s, NewJob("all", FALSE, held))
    BY <1>4, <2>1 DEF AutoSyncRelation
  <2>3. held.edge \in relationVouched'[held.id] /\ held.id \in Relation
    BY <1>1, <2>1, <2>2 DEF CommitRelation, TypeOK, RelationTxn
  <2>4. VouchedItem(held)'
    BY <2>3, ReviewAssumption DEF VouchedItem, EntityItem
  <2> QED BY <1>1, <2>2, <2>4, FreshJobVouched
<1> QED BY <1>2, <1>3, <1>4

LEMMA StepVouched ==
    ASSUME VouchedInv, [SyncNext]_allVars
    PROVE  JobsVouched'
<1>1. [Next]_vars
  BY StepIsReviewStep
<1>2. ASSUME NEW s \in Syncer, NEW scope, NEW f, StartSync(s, scope, f)
      PROVE  JobsVouched'
  <2>1. VouchedItem(NoItem)' /\ s \in Thread
    BY NoJobType DEF VouchedItem, Thread
  <2> QED BY <1>1, <1>2, <2>1, FreshJobVouched DEF StartSync
<1>3. ASSUME NEW s \in Reviewer, ReviewStep(s)
      PROVE  JobsVouched'
  BY <1>1, <1>3, JobUnchangedVouched DEF ReviewStep, syncVars
<1>4. ASSUME NEW t, NEW a, SetRelationType(t, a)
      PROVE  JobsVouched'
  BY <1>1, <1>4, JobUnchangedVouched DEF SetRelationType
<1>5. CASE UNCHANGED allVars
  BY <1>1, <1>5, JobUnchangedVouched DEF allVars, syncVars
<1>6. ASSUME NEW s \in Thread, JobStep(s) \/ CallFails(s) \/ JobDies(s)
      PROVE  JobsVouched'
  BY <1>1, <1>6, MovesVouched, SelectVouched
     DEF JobStep, SyncEntitiesStep, SyncRelationsStep, Moves
<1> QED BY <1>1, <1>2, <1>3, <1>4, <1>5, <1>6, AutoSyncVouched DEF SyncNext

LEMMA StepGraphAsVouched ==
    ASSUME VouchedInv, [SyncNext]_allVars
    PROVE  GraphAsVouched'
<1>1. [Next]_vars /\ TypeOK
  BY StepIsReviewStep DEF VouchedInv, SyncInv, ReviewInv
<1>2. ASSUME NEW s \in Thread, MergeNode(s)
      PROVE  GraphAsVouched'
  <2>1. job[s] # NoJob /\ job[s].itemE \in EntityItem
    BY <1>2 DEF MergeNode, At, VouchedInv, SyncInv, JobsInFlight, JobInFlight,
                EntityCall
  <2>2. job[s].itemE.content \in entityVouched[job[s].itemE.id]
    BY <2>1 DEF VouchedInv, JobsVouched, Held, VouchedItem
  <2>3. /\ node' = [node EXCEPT ![job[s].itemE.id] = job[s].itemE.content]
        /\ UNCHANGED <<edge, vouched>>
    BY <1>2 DEF MergeNode, vars, vouched
  <2> QED BY <2>1, <2>2, <2>3
          DEF GraphAsVouched, VouchedInv, SyncInv, SyncTypeOK, EntityItem, vouched
<1>3. ASSUME NEW s \in Thread, MergeEdge(s)
      PROVE  GraphAsVouched'
  <2>1. job[s] # NoJob /\ job[s].itemR \in RelationItem
    BY <1>3 DEF MergeEdge, At, VouchedInv, SyncInv, JobsInFlight, JobInFlight,
                RelationCall
  <2>2. PICK i \in RelationItem : i = job[s].itemR
    BY <2>1
  <2>3. i.edge \in relationVouched[i.id]
    BY <2>1, <2>2 DEF VouchedInv, JobsVouched, Held, VouchedItem
  <2>4. PICK d : d = [id |-> i.id, type |-> i.edge.type,
                      src |-> i.edge.src, tgt |-> i.edge.tgt]
    OBVIOUS
  <2>5. edge' = edge \/ edge' = edge \cup {d}
    BY <1>3, <2>2, <2>4 DEF MergeEdge
  <2>6. [type |-> d.type, src |-> d.src, tgt |-> d.tgt] = i.edge /\ d.id = i.id
    BY <2>4 DEF RelationItem, Edge
  <2>7. UNCHANGED <<node, entityVouched, relationVouched>>
    BY <1>3 DEF MergeEdge, vars
  <2> QED BY <2>3, <2>5, <2>6, <2>7 DEF GraphAsVouched, VouchedInv
<1>4. \/ UNCHANGED <<node, edge>>
      \/ \E s \in Thread : MergeNode(s) \/ MergeEdge(s)
  <2>1. ASSUME NEW s \in Thread, JobStep(s) \/ CallFails(s) \/ JobDies(s),
               ~MergeNode(s), ~MergeEdge(s)
        PROVE  UNCHANGED <<node, edge>>
    BY <2>1
       DEF JobStep, SyncEntitiesStep, SyncRelationsStep, SelectEntities,
           SkipEntity, PickEntity, MergeChunk, LinkChunk, FinishEntities,
           ReadWhitelist, SelectRelations, SkipRelation, PickRelation,
           ReadSourceRow, ReadTargetRow, RelationChunk, LinkSource, LinkTarget,
           FinishRelations, CallFails, JobDies, graph
  <2>2. ASSUME NEW s, ReviewStep(s) \/ AutoSyncEntity(s) \/ AutoSyncRelation(s)
        PROVE  UNCHANGED <<node, edge>>
    BY <2>2 DEF ReviewStep, AutoSyncEntity, AutoSyncRelation, syncVars, graph
  <2>3. ASSUME NEW s, NEW scope, NEW f, StartSync(s, scope, f)
        PROVE  UNCHANGED <<node, edge>>
    BY <2>3 DEF StartSync, graph
  <2>4. ASSUME NEW t, NEW a, SetRelationType(t, a)
        PROVE  UNCHANGED <<node, edge>>
    BY <2>4 DEF SetRelationType, graph
  <2>5. UNCHANGED allVars => UNCHANGED <<node, edge>>
    BY DEF allVars, syncVars, graph
  <2> QED BY <2>1, <2>2, <2>3, <2>4, <2>5 DEF SyncNext
<1> QED BY <1>1, <1>2, <1>3, <1>4, GraphAsVouchedStable

\* One reviewer, any number of sync jobs, lost answers and crashes: every
\* content and every edge in the graph is one an approval was given for.
THEOREM GraphIsAsVouched ==
    ASSUME OneReviewer
    PROVE  SyncSpec => []GraphAsVouched
<1>1. ASSUME VouchedInv, [SyncNext]_allVars
      PROVE  VouchedInv'
  <2>1. SyncInv' /\ Serial'
    BY <1>1, SyncNextInv, StepIsReviewStep, SerialNext DEF VouchedInv
  <2> QED BY <1>1, <2>1, StepVouched, StepGraphAsVouched DEF VouchedInv
<1>2. VouchedInv => GraphAsVouched
  BY DEF VouchedInv
<1> QED BY <1>1, <1>2, VouchedInit, PTL DEF SyncSpec

=============================================================================
