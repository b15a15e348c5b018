---------------------------- MODULE ReviewProofs ----------------------------
(***************************************************************************)
(* Proofs about module Review, for any sets of rows, requests and chunks:  *)
(* first of what it keeps however requests overlap, then of what it keeps  *)
(* only when they do not.                                                  *)
(***************************************************************************)
EXTENDS Review, TLAPS

\* Rows keep their type under a flush.
LEMMA FlushContentType ==
    ASSUME NEW c \in Content, NEW loaded \in Content, NEW mem \in Content
    PROVE  FlushedContent(c, loaded, mem) \in Content
BY DEF FlushedContent, Flushed, Content

\* From a row that is as it was loaded, a flush leaves the object in memory.
LEMMA FlushContentExact ==
    ASSUME NEW loaded \in Content, NEW mem \in Content
    PROVE  FlushedContent(loaded, loaded, mem) = mem
<1>1. mem = [name |-> mem.name, type |-> mem.type]
  BY DEF Content
<1>2. FlushedContent(loaded, loaded, mem) = [name |-> mem.name, type |-> mem.type]
  BY DEF FlushedContent, Flushed
<1> QED BY <1>1, <1>2

LEMMA FlushEntityType ==
    ASSUME NEW row \in EntityRow, NEW txn \in EntityTxn
    PROVE  FlushEntity(row, txn) \in EntityRow
<1>1. /\ row.content \in Content /\ txn.loaded.content \in Content
      /\ txn.mem.content \in Content
  BY DEF EntityRow, EntityTxn
<1>2. FlushedContent(row.content, txn.loaded.content, txn.mem.content) \in Content
  BY <1>1, FlushContentType
<1> QED BY <1>2 DEF FlushEntity, Flushed, EntityRow, EntityTxn

LEMMA FlushRelationType ==
    ASSUME NEW row \in RelationRow, NEW txn \in RelationTxn
    PROVE  FlushRelation(row, txn) \in RelationRow
<1>1. /\ row.srcKey \in Content /\ row.tgtKey \in Content
      /\ txn.loaded.srcKey \in Content /\ txn.loaded.tgtKey \in Content
      /\ txn.mem.srcKey \in Content /\ txn.mem.tgtKey \in Content
  BY DEF RelationRow, RelationTxn
<1>2. /\ FlushedContent(row.srcKey, txn.loaded.srcKey, txn.mem.srcKey) \in Content
      /\ FlushedContent(row.tgtKey, txn.loaded.tgtKey, txn.mem.tgtKey) \in Content
  BY <1>1, FlushContentType
<1> QED BY <1>2 DEF FlushRelation, Flushed, RelationRow, RelationTxn

LEMMA EdgeOfType ==
    ASSUME NEW row \in RelationRow
    PROVE  EdgeOf(row) \in Edge
BY DEF EdgeOf, Edge, RelationRow

LEMMA NoTxnType == NoTxn \notin EntityTxn /\ NoTxn \notin RelationTxn
<1>1. NoTxn.op = "none"
  BY DEF NoTxn
<1>2. \A t \in EntityTxn : t.op # "none"
  BY DEF EntityTxn, EntityOp
<1>3. \A t \in RelationTxn : t.op # "none"
  BY DEF RelationTxn, EntityOp
<1> QED BY <1>1, <1>2, <1>3

\* What a resolved endpoint can be.
LEMMA ResolveType ==
    ASSUME NEW r \in Relation, NEW fk \in Entity \cup {Null}, NEW key,
           NEW e \in ResolveEndpoint(r, fk, key)
    PROVE  e \in Entity \cup {Null}
BY DEF ResolveEndpoint, FindPendingEntity

-----------------------------------------------------------------------------
(* Type correctness. *)

LEMMA InitType == Init => TypeOK
<1> SUFFICES ASSUME Init PROVE TypeOK
  OBVIOUS
<1>1. entity \in [Entity -> EntityRow]
  BY DEF Init, ExtractedEntities, EntityRow, Status
<1>2. relation \in [Relation -> RelationRow]
  BY DEF Init, ExtractedRelations, RelationRow, Status
<1> QED BY <1>1, <1>2 DEF Init, TypeOK

LEMMA BeginEntityType ==
    ASSUME TypeOK, NEW s \in Reviewer, NEW e \in Entity,
           NEW op \in EntityOp, NEW mem \in EntityRow,
           BeginEntity(s, e, op, mem)
    PROVE  TypeOK'
<1>1. [op |-> op, id |-> e, loaded |-> entity[e], mem |-> mem] \in EntityTxn
  BY DEF TypeOK, EntityTxn
<1> QED BY <1>1 DEF TypeOK, BeginEntity, staging, vouched

LEMMA BeginRelationType ==
    ASSUME TypeOK, NEW s \in Reviewer, NEW r \in Relation, NEW op \in EntityOp,
           NEW pc \in {"source", "target", "commit"}, NEW mem \in RelationRow,
           BeginRelation(s, r, op, pc, mem)
    PROVE  TypeOK'
<1>1. [op |-> op, id |-> r, pc |-> pc, srcOk |-> FALSE,
       loaded |-> relation[r], mem |-> mem] \in RelationTxn
  BY DEF TypeOK, RelationTxn
<1> QED BY <1>1 DEF TypeOK, BeginRelation, staging, vouched

LEMMA EntityRequestType ==
    ASSUME TypeOK, NEW s \in Reviewer, EntityRequest(s)
    PROVE  TypeOK'
<1>1. PICK e \in Entity : \/ ApproveEntity(s, e)
                          \/ RejectEntity(s, e)
                          \/ \E c \in Content : ModifyEntity(s, e, c)
                          \/ \E target \in Entity : MergeEntity(s, e, target)
  BY DEF EntityRequest
<1>2. entity[e] \in EntityRow
  BY DEF TypeOK
<1>3. CASE ApproveEntity(s, e)
  <2>1. [entity[e] EXCEPT !.status = "APPROVED"] \in EntityRow
    BY <1>2 DEF EntityRow, Status
  <2> QED BY <2>1, <1>3, BeginEntityType DEF ApproveEntity, EntityOp
<1>4. CASE RejectEntity(s, e)
  <2>1. [entity[e] EXCEPT !.status = "REJECTED"] \in EntityRow
    BY <1>2 DEF EntityRow, Status
  <2> QED BY <2>1, <1>4, BeginEntityType DEF RejectEntity, EntityOp
<1>5. CASE \E c \in Content : ModifyEntity(s, e, c)
  <2>1. PICK c \in Content : ModifyEntity(s, e, c)
    BY <1>5
  <2>2. [entity[e] EXCEPT !.status = "MODIFIED", !.content = c] \in EntityRow
    BY <1>2 DEF EntityRow, Status
  <2> QED BY <2>1, <2>2, BeginEntityType DEF ModifyEntity, EntityOp
<1>6. CASE \E target \in Entity : MergeEntity(s, e, target)
  <2>1. PICK target \in Entity : MergeEntity(s, e, target)
    BY <1>6
  <2>2. [entity[e] EXCEPT !.status = "MERGED", !.merged = target] \in EntityRow
    BY <1>2 DEF EntityRow, Status
  <2> QED BY <2>1, <2>2, BeginEntityType DEF MergeEntity, EntityOp
<1> QED BY <1>1, <1>3, <1>4, <1>5, <1>6

LEMMA RelationRequestType ==
    ASSUME TypeOK, NEW s \in Reviewer, RelationRequest(s)
    PROVE  TypeOK'
<1>1. PICK r \in Relation :
         \/ ApproveRelation(s, r)
         \/ RejectRelation(s, r)
         \/ \E t \in RelType, k, l \in Content : ModifyRelation(s, r, t, k, l)
         \/ \E target \in Relation : MergeRelation(s, r, target)
  BY DEF RelationRequest
<1>2. relation[r] \in RelationRow
  BY DEF TypeOK
<1>3. CASE ApproveRelation(s, r)
  <2>1. [relation[r] EXCEPT !.status = "APPROVED"] \in RelationRow
    BY <1>2 DEF RelationRow, Status
  <2> QED BY <2>1, <1>3, BeginRelationType DEF ApproveRelation, EntityOp
<1>4. CASE RejectRelation(s, r)
  <2>1. [relation[r] EXCEPT !.status = "REJECTED"] \in RelationRow
    BY <1>2 DEF RelationRow, Status
  <2> QED BY <2>1, <1>4, BeginRelationType DEF RejectRelation, EntityOp
<1>5. CASE \E t \in RelType, k, l \in Content : ModifyRelation(s, r, t, k, l)
  <2>1. PICK t \in RelType, k, l \in Content : ModifyRelation(s, r, t, k, l)
    BY <1>5
  <2>2. [relation[r] EXCEPT !.status = "MODIFIED", !.type = t,
                            !.srcKey = k, !.tgtKey = l] \in RelationRow
    BY <1>2 DEF RelationRow, Status
  <2> QED BY <2>1, <2>2, BeginRelationType DEF ModifyRelation, EntityOp
<1>6. CASE \E target \in Relation : MergeRelation(s, r, target)
  <2>1. [relation[r] EXCEPT !.status = "MERGED"] \in RelationRow
    BY <1>2 DEF RelationRow, Status
  <2> QED BY <2>1, <1>6, BeginRelationType DEF MergeRelation, EntityOp
<1> QED BY <1>1, <1>3, <1>4, <1>5, <1>6

LEMMA CommitEntityType ==
    ASSUME TypeOK, NEW s \in Reviewer, CommitEntity(s)
    PROVE  TypeOK'
<1> DEFINE txn == entityTxn[s]
<1>1. txn \in EntityTxn
  BY DEF TypeOK, CommitEntity
<1>2. /\ txn.id \in Entity
      /\ txn.mem.content \in Content
  BY <1>1 DEF EntityTxn, EntityRow
<1>3. FlushEntity(entity[txn.id], txn) \in EntityRow
  BY <1>1, <1>2, FlushEntityType DEF TypeOK
<1>4. entity' \in [Entity -> EntityRow]
  BY <1>3 DEF TypeOK, CommitEntity
<1>5. entityVouched' \in [Entity -> SUBSET Content]
  BY <1>2 DEF TypeOK, CommitEntity
<1> QED BY <1>4, <1>5 DEF TypeOK, CommitEntity

LEMMA ReadSourceType ==
    ASSUME TypeOK, NEW s \in Reviewer, ReadSource(s)
    PROVE  TypeOK'
<1> DEFINE txn == relationTxn[s]
<1>1. txn \in RelationTxn
  BY DEF TypeOK, ReadSource
<1>2. PICK e \in ResolveEndpoint(txn.id, txn.loaded.src, txn.loaded.srcKey) :
         relationTxn' = [relationTxn EXCEPT ![s] =
            [txn EXCEPT !.pc = "target", !.srcOk = Approved(e), !.mem.src = e]]
  BY DEF ReadSource
<1>3. e \in Entity \cup {Null} /\ Approved(e) \in BOOLEAN
  BY <1>1, <1>2, ResolveType DEF RelationTxn, RelationRow, Approved
<1>4. [txn EXCEPT !.pc = "target", !.srcOk = Approved(e), !.mem.src = e]
         \in RelationTxn
  BY <1>1, <1>3 DEF RelationTxn, RelationRow
<1> QED BY <1>2, <1>4 DEF TypeOK, ReadSource, staging, vouched

LEMMA ReadTargetType ==
    ASSUME TypeOK, NEW s \in Reviewer, ReadTarget(s)
    PROVE  TypeOK'
<1> DEFINE txn == relationTxn[s]
<1>1. txn \in RelationTxn
  BY DEF TypeOK, ReadTarget
<1>2. PICK e \in ResolveEndpoint(txn.id, txn.loaded.tgt, txn.loaded.tgtKey) :
         \/ relationTxn' = [relationTxn EXCEPT ![s] =
                              [txn EXCEPT !.pc = "commit", !.mem.tgt = e]]
         \/ relationTxn' = [relationTxn EXCEPT ![s] = NoTxn]
  BY DEF ReadTarget
<1>3. e \in Entity \cup {Null}
  BY <1>1, <1>2, ResolveType DEF RelationTxn, RelationRow
<1>4. [txn EXCEPT !.pc = "commit", !.mem.tgt = e] \in RelationTxn
  BY <1>1, <1>3 DEF RelationTxn, RelationRow
<1> QED BY <1>2, <1>4 DEF TypeOK, ReadTarget, staging, vouched

LEMMA CommitRelationType ==
    ASSUME TypeOK, NEW s \in Reviewer, CommitRelation(s)
    PROVE  TypeOK'
<1> DEFINE txn == relationTxn[s]
<1>1. txn \in RelationTxn
  BY DEF TypeOK, CommitRelation
<1>2. txn.id \in Relation /\ EdgeOf(txn.mem) \in Edge
  BY <1>1, EdgeOfType DEF RelationTxn
<1>3. FlushRelation(relation[txn.id], txn) \in RelationRow
  BY <1>1, <1>2, FlushRelationType DEF TypeOK
<1>4. relation' \in [Relation -> RelationRow]
  BY <1>3 DEF TypeOK, CommitRelation
<1>5. relationVouched' \in [Relation -> SUBSET Edge]
  BY <1>2 DEF TypeOK, CommitRelation
<1> QED BY <1>4, <1>5 DEF TypeOK, CommitRelation

LEMMA NextType == TypeOK /\ [Next]_vars => TypeOK'
<1> SUFFICES ASSUME TypeOK, [Next]_vars PROVE TypeOK'
  OBVIOUS
<1>1. CASE UNCHANGED vars
  BY <1>1 DEF TypeOK, vars
<1>2. ASSUME NEW s \in Reviewer, Abort(s) PROVE TypeOK'
  BY <1>2 DEF TypeOK, Abort, staging, vouched
<1> QED
  BY <1>1, <1>2, EntityRequestType, RelationRequestType, CommitEntityType,
     ReadSourceType, ReadTargetType, CommitRelationType DEF Next

\* Every state of every execution is well typed, whatever the sets of rows and
\* of request threads are.
THEOREM TypeCorrect == Spec => []TypeOK
<1> QED BY InitType, NextType, PTL DEF Spec

-----------------------------------------------------------------------------
(* The inductive invariant.  ApprovalOnRecord and EndpointsOnRecord are not  *)
(* inductive alone: a commit writes what the request read several steps      *)
(* earlier, so RequestsInFlight has to say what those reads are still worth. *)

ReviewInv ==
    /\ TypeOK
    /\ ApprovalOnRecord
    /\ EndpointsOnRecord
    /\ VouchedEdgesOnRecord
    /\ RequestsInFlight

LEMMA InitInv == Init => ReviewInv
<1> SUFFICES ASSUME Init PROVE ReviewInv
  OBVIOUS
<1>1. TypeOK
  BY InitType
<1>2. /\ \A e \in Entity : entity[e].status \in {"PENDING", "REJECTED"}
      /\ \A r \in Relation : relation[r].status \in {"PENDING", "REJECTED"}
  BY DEF Init, ExtractedEntities, ExtractedRelations
<1>3. ApprovalOnRecord /\ EndpointsOnRecord
  BY <1>2 DEF ApprovalOnRecord, EndpointsOnRecord
<1>4. VouchedEdgesOnRecord /\ RequestsInFlight
  BY DEF Init, VouchedEdgesOnRecord, RequestsInFlight
<1> QED BY <1>1, <1>3, <1>4 DEF ReviewInv

\* audit_log is append only, so an approval on record stays on record.
LEMMA OnRecordStable ==
    ASSUME TypeOK, [Next]_vars, NEW e \in Entity \cup {Null}, OnRecord(e)
    PROVE  OnRecord(e)'
<1>1. CASE UNCHANGED entityVouched
  BY <1>1 DEF OnRecord
<1>2. ASSUME NEW s \in Reviewer, CommitEntity(s) PROVE OnRecord(e)'
  BY <1>2 DEF OnRecord, CommitEntity, TypeOK
<1>3. Next => UNCHANGED entityVouched \/ \E s \in Reviewer : CommitEntity(s)
  BY DEF Next, EntityRequest, RelationRequest, ApproveEntity, RejectEntity,
         ModifyEntity, MergeEntity, BeginEntity, ApproveRelation,
         RejectRelation, ModifyRelation, MergeRelation, BeginRelation,
         ReadSource, ReadTarget, CommitRelation, Abort, vouched
<1> QED BY <1>1, <1>2, <1>3 DEF vars

\* A step that leaves the tables alone leaves the three table invariants alone.
LEMMA TablesUnchanged ==
    ASSUME ReviewInv, UNCHANGED <<staging, vouched>>
    PROVE  ApprovalOnRecord' /\ EndpointsOnRecord' /\ VouchedEdgesOnRecord'
BY DEF ReviewInv, ApprovalOnRecord, EndpointsOnRecord, VouchedEdgesOnRecord,
       OnRecord, staging, vouched

LEMMA BeginEntityInv ==
    ASSUME ReviewInv, NEW s \in Reviewer, NEW e \in Entity, NEW op, NEW mem,
           BeginEntity(s, e, op, mem), TypeOK',
           mem.status = "APPROVED" => op = "approve"
    PROVE  ReviewInv'
<1>1. ApprovalOnRecord' /\ EndpointsOnRecord' /\ VouchedEdgesOnRecord'
  BY TablesUnchanged DEF BeginEntity
<1>2. RequestsInFlight'
  BY DEF ReviewInv, TypeOK, RequestsInFlight, EntityInFlight, RelationInFlight,
         StillResolved, OnRecord, BeginEntity, staging, vouched
<1> QED BY <1>1, <1>2 DEF ReviewInv

LEMMA BeginRelationInv ==
    ASSUME ReviewInv, NEW s \in Reviewer, NEW r \in Relation, NEW op, NEW pc,
           NEW mem, BeginRelation(s, r, op, pc, mem), TypeOK',
           mem.status = "APPROVED" => op = "approve",
           \/ op = "approve" /\ pc = "source"
           \/ /\ op # "approve" /\ pc = "commit"
              /\ mem.src = relation[r].src /\ mem.tgt = relation[r].tgt
    PROVE  ReviewInv'
<1>1. ApprovalOnRecord' /\ EndpointsOnRecord' /\ VouchedEdgesOnRecord'
  BY TablesUnchanged DEF BeginRelation
<1>2. ASSUME NEW t \in Reviewer, relationTxn'[t] # NoTxn
      PROVE  RelationInFlight(relationTxn[t])'
  <2>1. CASE t = s
    BY <1>2, <2>1 DEF ReviewInv, TypeOK, RelationInFlight, StillResolved,
                      BeginRelation, staging
  <2>2. CASE t # s
    BY <1>2, <2>2 DEF ReviewInv, TypeOK, RequestsInFlight, RelationInFlight,
                      StillResolved, OnRecord, BeginRelation, staging, vouched
  <2> QED BY <2>1, <2>2
<1>3. ASSUME NEW t \in Reviewer, entityTxn'[t] # NoTxn
      PROVE  EntityInFlight(entityTxn[t])'
  BY <1>3 DEF ReviewInv, RequestsInFlight, EntityInFlight, BeginRelation
<1> QED BY <1>1, <1>2, <1>3 DEF ReviewInv, RequestsInFlight

LEMMA EntityRequestInv ==
    ASSUME ReviewInv, NEW s \in Reviewer, EntityRequest(s)
    PROVE  ReviewInv'
<1>1. PICK e \in Entity : \/ ApproveEntity(s, e)
                          \/ RejectEntity(s, e)
                          \/ \E c \in Content : ModifyEntity(s, e, c)
                          \/ \E target \in Entity : MergeEntity(s, e, target)
  BY DEF EntityRequest
<1>2. TypeOK' /\ entity[e] \in EntityRow
  BY EntityRequestType DEF ReviewInv, TypeOK
<1>3. CASE ApproveEntity(s, e)
  BY <1>2, <1>3, BeginEntityInv DEF ApproveEntity
<1>4. CASE RejectEntity(s, e)
  <2>1. [entity[e] EXCEPT !.status = "REJECTED"].status # "APPROVED"
    BY <1>2 DEF EntityRow
  <2> QED BY <2>1, <1>2, <1>4, BeginEntityInv DEF RejectEntity
<1>5. CASE \E c \in Content : ModifyEntity(s, e, c)
  <2>1. PICK c \in Content : ModifyEntity(s, e, c)
    BY <1>5
  <2>2. [entity[e] EXCEPT !.status = "MODIFIED", !.content = c].status # "APPROVED"
    BY <1>2 DEF EntityRow
  <2> QED BY <2>1, <2>2, <1>2, BeginEntityInv DEF ModifyEntity
<1>6. CASE \E target \in Entity : MergeEntity(s, e, target)
  <2>1. PICK target \in Entity : MergeEntity(s, e, target)
    BY <1>6
  <2>2. [entity[e] EXCEPT !.status = "MERGED", !.merged = target].status # "APPROVED"
    BY <1>2 DEF EntityRow
  <2> QED BY <2>1, <2>2, <1>2, BeginEntityInv DEF MergeEntity
<1> QED BY <1>1, <1>3, <1>4, <1>5, <1>6

LEMMA RelationRequestInv ==
    ASSUME ReviewInv, NEW s \in Reviewer, RelationRequest(s)
    PROVE  ReviewInv'
<1>1. PICK r \in Relation :
         \/ ApproveRelation(s, r)
         \/ RejectRelation(s, r)
         \/ \E t \in RelType, k, l \in Content : ModifyRelation(s, r, t, k, l)
         \/ \E target \in Relation : MergeRelation(s, r, target)
  BY DEF RelationRequest
<1>2. TypeOK' /\ relation[r] \in RelationRow
  BY RelationRequestType DEF ReviewInv, TypeOK
<1>3. CASE ApproveRelation(s, r)
  BY <1>2, <1>3, BeginRelationInv DEF ApproveRelation
<1>4. CASE RejectRelation(s, r)
  <2> DEFINE mem == [relation[r] EXCEPT !.status = "REJECTED"]
  <2>1. /\ mem.status # "APPROVED"
        /\ mem.src = relation[r].src /\ mem.tgt = relation[r].tgt
    BY <1>2 DEF RelationRow
  <2>2. BeginRelation(s, r, "reject", "commit", mem)
    BY <1>4 DEF RejectRelation
  <2> HIDE DEF mem
  <2> QED BY <2>1, <2>2, <1>2, BeginRelationInv
<1>5. CASE \E t \in RelType, k, l \in Content : ModifyRelation(s, r, t, k, l)
  <2>1. PICK t \in RelType, k, l \in Content : ModifyRelation(s, r, t, k, l)
    BY <1>5
  <2> DEFINE mem == [relation[r] EXCEPT !.status = "MODIFIED", !.type = t,
                                        !.srcKey = k, !.tgtKey = l]
  <2>2. /\ mem.status # "APPROVED"
        /\ mem.src = relation[r].src /\ mem.tgt = relation[r].tgt
    BY <1>2 DEF RelationRow
  <2>3. BeginRelation(s, r, "modify", "commit", mem)
    BY <2>1 DEF ModifyRelation
  <2> HIDE DEF mem
  <2> QED BY <2>2, <2>3, <1>2, BeginRelationInv
<1>6. CASE \E target \in Relation : MergeRelation(s, r, target)
  <2> DEFINE mem == [relation[r] EXCEPT !.status = "MERGED"]
  <2>1. /\ mem.status # "APPROVED"
        /\ mem.src = relation[r].src /\ mem.tgt = relation[r].tgt
    BY <1>2 DEF RelationRow
  <2>2. BeginRelation(s, r, "merge", "commit", mem)
    BY <1>6 DEF MergeRelation
  <2> HIDE DEF mem
  <2> QED BY <2>1, <2>2, <1>2, BeginRelationInv
<1> QED BY <1>1, <1>3, <1>4, <1>5, <1>6

\* An endpoint that reads APPROVED is on record.
LEMMA ApprovedIsOnRecord ==
    ASSUME ReviewInv, NEW e \in Entity \cup {Null}, Approved(e)
    PROVE  OnRecord(e)
BY DEF ReviewInv, ApprovalOnRecord, Approved, OnRecord

LEMMA ReadSourceInv ==
    ASSUME ReviewInv, NEW s \in Reviewer, ReadSource(s)
    PROVE  ReviewInv'
<1> DEFINE txn == relationTxn[s]
<1>1. TypeOK' /\ txn \in RelationTxn
  BY ReadSourceType DEF ReviewInv, TypeOK, ReadSource
<1>2. PICK e \in ResolveEndpoint(txn.id, txn.loaded.src, txn.loaded.srcKey) :
         relationTxn' = [relationTxn EXCEPT ![s] =
            [txn EXCEPT !.pc = "target", !.srcOk = Approved(e), !.mem.src = e]]
  BY DEF ReadSource
<1>3. e \in Entity \cup {Null}
  BY <1>1, <1>2, ResolveType DEF RelationTxn, RelationRow
<1>4. ApprovalOnRecord' /\ EndpointsOnRecord' /\ VouchedEdgesOnRecord'
  BY TablesUnchanged DEF ReadSource
<1>5. RelationInFlight(txn) /\ txn.pc = "source"
  BY DEF ReviewInv, RequestsInFlight, ReadSource
<1>6. Approved(e) => OnRecord(e)
  BY <1>3, ApprovedIsOnRecord
<1>7. /\ relationTxn'[s].op = txn.op
      /\ relationTxn'[s].id = txn.id
      /\ relationTxn'[s].pc = "target"
      /\ relationTxn'[s].srcOk = Approved(e)
      /\ relationTxn'[s].loaded = txn.loaded
      /\ relationTxn'[s].mem.status = txn.mem.status
      /\ relationTxn'[s].mem.src = e
  BY <1>1, <1>2 DEF ReviewInv, TypeOK, RelationTxn, RelationRow
<1>8. RelationInFlight(relationTxn[s])'
  BY <1>5, <1>6, <1>7
     DEF RelationInFlight, StillResolved, OnRecord, ReadSource, staging, vouched
<1>9. ASSUME NEW t \in Reviewer, t # s, relationTxn'[t] # NoTxn
      PROVE  RelationInFlight(relationTxn[t])'
  BY <1>2, <1>9 DEF ReviewInv, TypeOK, RequestsInFlight, RelationInFlight,
                    StillResolved, OnRecord, ReadSource, staging, vouched
<1>10. ASSUME NEW t \in Reviewer, entityTxn'[t] # NoTxn
       PROVE  EntityInFlight(entityTxn[t])'
  BY <1>10 DEF ReviewInv, RequestsInFlight, EntityInFlight, ReadSource
<1> QED BY <1>1, <1>4, <1>8, <1>9, <1>10 DEF ReviewInv, RequestsInFlight

LEMMA ReadTargetInv ==
    ASSUME ReviewInv, NEW s \in Reviewer, ReadTarget(s)
    PROVE  ReviewInv'
<1> DEFINE txn == relationTxn[s]
<1>1. TypeOK' /\ txn \in RelationTxn
  BY ReadTargetType DEF ReviewInv, TypeOK, ReadTarget
<1>2. PICK e \in ResolveEndpoint(txn.id, txn.loaded.tgt, txn.loaded.tgtKey) :
         \/ /\ relationTxn' = [relationTxn EXCEPT ![s] =
                                [txn EXCEPT !.pc = "commit", !.mem.tgt = e]]
            /\ txn.srcOk
            /\ e = txn.mem.src \/ Approved(e)
         \/ relationTxn' = [relationTxn EXCEPT ![s] = NoTxn]
  BY DEF ReadTarget
<1>3. e \in Entity \cup {Null}
  BY <1>1, <1>2, ResolveType DEF RelationTxn, RelationRow
<1>4. ApprovalOnRecord' /\ EndpointsOnRecord' /\ VouchedEdgesOnRecord'
  BY TablesUnchanged DEF ReadTarget
<1>5. RelationInFlight(txn) /\ txn.pc = "target"
  BY DEF ReviewInv, RequestsInFlight, ReadTarget
<1>6. Approved(e) => OnRecord(e)
  BY <1>3, ApprovedIsOnRecord
<1>7. ASSUME relationTxn'[s] # NoTxn
      PROVE  RelationInFlight(relationTxn[s])'
  <2>1. /\ relationTxn' = [relationTxn EXCEPT ![s] =
                              [txn EXCEPT !.pc = "commit", !.mem.tgt = e]]
        /\ txn.srcOk
        /\ e = txn.mem.src \/ Approved(e)
    BY <1>2, <1>7 DEF ReviewInv, TypeOK
  <2>2. /\ relationTxn'[s].op = txn.op
        /\ relationTxn'[s].id = txn.id
        /\ relationTxn'[s].pc = "commit"
        /\ relationTxn'[s].loaded = txn.loaded
        /\ relationTxn'[s].mem.status = txn.mem.status
        /\ relationTxn'[s].mem.src = txn.mem.src
        /\ relationTxn'[s].mem.tgt = e
    BY <1>1, <2>1 DEF ReviewInv, TypeOK, RelationTxn, RelationRow
  <2>3. OnRecord(txn.mem.src) /\ OnRecord(e)
    BY <1>5, <1>6, <2>1 DEF RelationInFlight
  <2> QED
    BY <1>5, <2>2, <2>3
       DEF RelationInFlight, StillResolved, OnRecord, ReadTarget, staging, vouched
<1>8. ASSUME NEW t \in Reviewer, t # s, relationTxn'[t] # NoTxn
      PROVE  RelationInFlight(relationTxn[t])'
  BY <1>2, <1>8 DEF ReviewInv, TypeOK, RequestsInFlight, RelationInFlight,
                    StillResolved, OnRecord, ReadTarget, staging, vouched
<1>9. ASSUME NEW t \in Reviewer, entityTxn'[t] # NoTxn
      PROVE  EntityInFlight(entityTxn[t])'
  BY <1>9 DEF ReviewInv, RequestsInFlight, EntityInFlight, ReadTarget
<1> QED BY <1>1, <1>4, <1>7, <1>8, <1>9 DEF ReviewInv, RequestsInFlight

\* The commit of an entity request: an APPROVED that was not there before comes
\* with its audit row, and every approval on record stays.
LEMMA CommitEntityInv ==
    ASSUME ReviewInv, NEW s \in Reviewer, CommitEntity(s)
    PROVE  ReviewInv'
<1> DEFINE txn == entityTxn[s]
<1>1. TypeOK' /\ txn \in EntityTxn /\ EntityInFlight(txn)
  BY CommitEntityType DEF ReviewInv, TypeOK, RequestsInFlight, CommitEntity
<1>2. ASSUME NEW e \in Entity \cup {Null}, OnRecord(e) PROVE OnRecord(e)'
  <2>1. [Next]_vars
    BY DEF Next
  <2> QED BY <2>1, <1>2, OnRecordStable DEF ReviewInv
<1>3. ASSUME NEW e \in Entity, entity'[e].status = "APPROVED"
      PROVE  entityVouched'[e] # {}
  <2>1. CASE e = txn.id /\ txn.op = "approve"
    BY <2>1, <1>1 DEF ReviewInv, TypeOK, CommitEntity, EntityTxn
  <2>2. CASE e = txn.id /\ txn.op # "approve"
    <3>1. txn.mem.status # "APPROVED"
      BY <2>2, <1>1 DEF EntityInFlight
    <3>2. entity'[e] = FlushEntity(entity[e], txn) /\ entityVouched' = entityVouched
      BY <2>2, <1>1 DEF ReviewInv, TypeOK, CommitEntity, EntityTxn
    <3>3. entity[e].status = "APPROVED"
      BY <3>1, <3>2, <1>3 DEF FlushEntity, Flushed
    <3> QED BY <3>2, <3>3 DEF ReviewInv, ApprovalOnRecord
  <2>3. CASE e # txn.id
    BY <2>3, <1>3 DEF ReviewInv, TypeOK, ApprovalOnRecord, CommitEntity
  <2> QED BY <2>1, <2>2, <2>3
<1>4. ApprovalOnRecord'
  BY <1>3 DEF ReviewInv, ApprovalOnRecord, CommitEntity
<1>5. EndpointsOnRecord'
  BY <1>2 DEF ReviewInv, TypeOK, EndpointsOnRecord, RelationRow, CommitEntity
<1>6. VouchedEdgesOnRecord'
  BY <1>2 DEF ReviewInv, TypeOK, VouchedEdgesOnRecord, Edge, CommitEntity
<1>7. ASSUME NEW t \in Reviewer, relationTxn[t] # NoTxn
      PROVE  RelationInFlight(relationTxn[t])'
  <2>1. RelationInFlight(relationTxn[t]) /\ relationTxn[t] \in RelationTxn
    BY <1>7 DEF ReviewInv, TypeOK, RequestsInFlight
  <2>2. /\ relationTxn[t].id \in Relation
        /\ relationTxn[t].mem.src \in Entity \cup {Null}
        /\ relationTxn[t].mem.tgt \in Entity \cup {Null}
        /\ relation[relationTxn[t].id].src \in Entity \cup {Null}
        /\ relation[relationTxn[t].id].tgt \in Entity \cup {Null}
    BY <2>1 DEF ReviewInv, TypeOK, RelationTxn, RelationRow
  <2>3. relationTxn' = relationTxn /\ relation' = relation
    BY DEF CommitEntity
  <2> QED BY <2>1, <2>2, <2>3, <1>2 DEF RelationInFlight, StillResolved
<1>8. ASSUME NEW t \in Reviewer, entityTxn'[t] # NoTxn
      PROVE  EntityInFlight(entityTxn[t])'
  BY <1>8 DEF ReviewInv, TypeOK, RequestsInFlight, EntityInFlight, CommitEntity
<1>9. RequestsInFlight'
  BY <1>7, <1>8 DEF RequestsInFlight, CommitEntity
<1> QED BY <1>1, <1>4, <1>5, <1>6, <1>9 DEF ReviewInv

\* What a commit leaves in a foreign key: the request's value if it changed it,
\* the table's otherwise.
LEMMA FlushedKey ==
    ASSUME ReviewInv, NEW current, NEW loaded, NEW mem,
           StillResolved(loaded, current), OnRecord(mem)
    PROVE  OnRecord(Flushed(current, loaded, mem))
BY DEF Flushed, StillResolved, OnRecord

LEMMA CommitRelationInv ==
    ASSUME ReviewInv, NEW s \in Reviewer, CommitRelation(s)
    PROVE  ReviewInv'
<1> DEFINE txn == relationTxn[s]
           row == relation[txn.id]
<1>1. TypeOK' /\ txn \in RelationTxn /\ RelationInFlight(txn) /\ txn.pc = "commit"
  BY CommitRelationType DEF ReviewInv, TypeOK, RequestsInFlight, CommitRelation
<1>2. txn.id \in Relation /\ row \in RelationRow
  BY <1>1 DEF ReviewInv, TypeOK, RelationTxn
<1>3. /\ entity' = entity /\ entityVouched' = entityVouched
      /\ relation' = [relation EXCEPT ![txn.id] = FlushRelation(row, txn)]
  BY DEF CommitRelation
<1>4. relation'[txn.id] = FlushRelation(row, txn)
  BY <1>2, <1>3 DEF ReviewInv, TypeOK
<1>5. CASE txn.op = "approve"
  <2>1. /\ OnRecord(txn.mem.src) /\ OnRecord(txn.mem.tgt)
        /\ StillResolved(txn.loaded.src, row.src)
        /\ StillResolved(txn.loaded.tgt, row.tgt)
    BY <1>1, <1>5 DEF RelationInFlight
  <2>2. OnRecord(relation'[txn.id].src) /\ OnRecord(relation'[txn.id].tgt)
    BY <2>1, <1>4, FlushedKey DEF FlushRelation
  <2>3. relationVouched' = [relationVouched EXCEPT
                              ![txn.id] = @ \cup {EdgeOf(txn.mem)}]
    BY <1>5 DEF CommitRelation
  <2>4. ApprovalOnRecord'
    BY <1>2, <1>3, <2>3 DEF ReviewInv, TypeOK, ApprovalOnRecord
  <2>5. EndpointsOnRecord'
    BY <1>3, <2>2 DEF ReviewInv, TypeOK, EndpointsOnRecord, OnRecord
  <2>6. VouchedEdgesOnRecord'
    BY <1>2, <1>3, <2>1, <2>3
       DEF ReviewInv, TypeOK, VouchedEdgesOnRecord, OnRecord, EdgeOf
  <2>7. ASSUME NEW t \in Reviewer, relationTxn'[t] # NoTxn
        PROVE  RelationInFlight(relationTxn[t])'
    <3>1. t # s /\ relationTxn'[t] = relationTxn[t]
      BY <2>7 DEF ReviewInv, TypeOK, CommitRelation
    <3>2. RelationInFlight(relationTxn[t])
      BY <2>7, <3>1 DEF ReviewInv, RequestsInFlight
    <3>3. \/ relation'[relationTxn[t].id] = relation[relationTxn[t].id]
          \/ relationTxn[t].id = txn.id
      BY <1>3 DEF ReviewInv, TypeOK
    <3> QED BY <1>3, <2>2, <3>1, <3>2, <3>3
            DEF RelationInFlight, StillResolved, OnRecord
  <2>8. ASSUME NEW t \in Reviewer, entityTxn'[t] # NoTxn
        PROVE  EntityInFlight(entityTxn[t])'
    BY <2>8 DEF ReviewInv, RequestsInFlight, EntityInFlight, CommitRelation
  <2> QED BY <1>1, <2>4, <2>5, <2>6, <2>7, <2>8 DEF ReviewInv, RequestsInFlight
<1>6. CASE txn.op # "approve"
  <2>1. /\ txn.mem.status # "APPROVED"
        /\ txn.mem.src = txn.loaded.src /\ txn.mem.tgt = txn.loaded.tgt
    BY <1>1, <1>6 DEF RelationInFlight
  <2>2. /\ relation'[txn.id].src = row.src /\ relation'[txn.id].tgt = row.tgt
        /\ relation'[txn.id].status = "APPROVED" => row.status = "APPROVED"
    BY <2>1, <1>4 DEF FlushRelation, Flushed
  <2>3. relationVouched' = relationVouched
    BY <1>6 DEF CommitRelation
  <2>4. \A r \in Relation :
          /\ relation'[r].src = relation[r].src /\ relation'[r].tgt = relation[r].tgt
          /\ relation'[r].status = "APPROVED" => relation[r].status = "APPROVED"
    BY <1>2, <1>3, <2>2 DEF ReviewInv, TypeOK
  <2>5. ApprovalOnRecord'
    BY <1>3, <2>3, <2>4 DEF ReviewInv, ApprovalOnRecord
  <2>6. EndpointsOnRecord'
    BY <1>3, <2>4 DEF ReviewInv, EndpointsOnRecord, OnRecord
  <2>7. VouchedEdgesOnRecord'
    BY <1>3, <2>3 DEF ReviewInv, VouchedEdgesOnRecord, OnRecord
  <2>8. ASSUME NEW t \in Reviewer, relationTxn'[t] # NoTxn
        PROVE  RelationInFlight(relationTxn[t])'
    <3>1. relationTxn'[t] = relationTxn[t] /\ relationTxn[t] # NoTxn
      BY <2>8 DEF ReviewInv, TypeOK, CommitRelation
    <3>2. RelationInFlight(relationTxn[t]) /\ relationTxn[t].id \in Relation
      BY <3>1 DEF ReviewInv, TypeOK, RequestsInFlight, RelationTxn
    <3> QED BY <1>3, <2>4, <3>1, <3>2 DEF RelationInFlight, StillResolved, OnRecord
  <2>9. ASSUME NEW t \in Reviewer, entityTxn'[t] # NoTxn
        PROVE  EntityInFlight(entityTxn[t])'
    BY <2>9 DEF ReviewInv, RequestsInFlight, EntityInFlight, CommitRelation
  <2> QED BY <1>1, <2>5, <2>6, <2>7, <2>8, <2>9 DEF ReviewInv, RequestsInFlight
<1> QED BY <1>5, <1>6

LEMMA AbortInv ==
    ASSUME ReviewInv, NEW s \in Reviewer, Abort(s)
    PROVE  ReviewInv'
<1>1. TypeOK'
  BY NextType DEF ReviewInv, Next
<1>2. ApprovalOnRecord' /\ EndpointsOnRecord' /\ VouchedEdgesOnRecord'
  BY TablesUnchanged DEF Abort
<1>3. RequestsInFlight'
  BY DEF ReviewInv, TypeOK, RequestsInFlight, EntityInFlight, RelationInFlight,
         StillResolved, OnRecord, Abort, staging, vouched
<1> QED BY <1>1, <1>2, <1>3 DEF ReviewInv

LEMMA NextInv == ReviewInv /\ [Next]_vars => ReviewInv'
<1> SUFFICES ASSUME ReviewInv, [Next]_vars PROVE ReviewInv'
  OBVIOUS
<1>1. CASE UNCHANGED vars
  <2>1. TypeOK'
    BY <1>1, NextType DEF ReviewInv
  <2>2. ApprovalOnRecord' /\ EndpointsOnRecord' /\ VouchedEdgesOnRecord'
    BY <1>1, TablesUnchanged DEF vars, staging, vouched
  <2>3. RequestsInFlight'
    BY <1>1 DEF ReviewInv, RequestsInFlight, EntityInFlight, RelationInFlight,
                StillResolved, OnRecord, vars
  <2> QED BY <2>1, <2>2, <2>3 DEF ReviewInv
<1> QED
  BY <1>1, EntityRequestInv, RelationRequestInv, CommitEntityInv,
     ReadSourceInv, ReadTargetInv, CommitRelationInv, AbortInv DEF Next

THEOREM ReviewInvariant == Spec => []ReviewInv
<1> QED BY InitInv, NextInv, PTL DEF Spec

\* However many review requests overlap, on however many rows, an APPROVED row
\* has an approval in audit_log.
THEOREM ApprovalsAreOnRecord == Spec => []ApprovalOnRecord
<1>1. ReviewInv => ApprovalOnRecord
  BY DEF ReviewInv
<1> QED BY <1>1, ReviewInvariant, PTL

\* ... and an APPROVED relation has both foreign keys, each of an entity that
\* has been approved.
THEOREM ApprovedEndpoints == Spec => []EndpointsOnRecord
<1>1. ReviewInv => EndpointsOnRecord
  BY DEF ReviewInv
<1> QED BY <1>1, ReviewInvariant, PTL

\* So has every edge an approval row names, whatever became of the relation.
THEOREM VouchedEndpoints == Spec => []VouchedEdgesOnRecord
<1>1. ReviewInv => VouchedEdgesOnRecord
  BY DEF ReviewInv
<1> QED BY <1>1, ReviewInvariant, PTL

\* What a request has read and decided stays good until its commit, whatever
\* the other requests commit meanwhile.
THEOREM DecisionsStayGood == Spec => []RequestsInFlight
<1>1. ReviewInv => RequestsInFlight
  BY DEF ReviewInv
<1> QED BY <1>1, ReviewInvariant, PTL

-----------------------------------------------------------------------------
(* What Review keeps when review requests do not overlap: there is one       *)
(* request thread (OneReviewer), serving any number of requests on any       *)
(* number of rows.  With two threads none of these properties holds.         *)

OneReviewer == \A s, t \in Reviewer : s = t

\* With nobody else committing, what the request loaded and the statuses it
\* read are those of the tables until its own commit.
SerialInv ==
    \A s \in Reviewer :
        /\ entityTxn[s] # NoTxn =>
              /\ relationTxn[s] = NoTxn
              /\ entityTxn[s].loaded = entity[entityTxn[s].id]
        /\ relationTxn[s] # NoTxn =>
              LET txn == relationTxn[s]
              IN  /\ entityTxn[s] = NoTxn
                  /\ txn.loaded = relation[txn.id]
                  /\ txn.pc = "target" /\ txn.srcOk => Approved(txn.mem.src)
                  /\ txn.pc = "commit" /\ txn.op = "approve" =>
                        Approved(txn.mem.src) /\ Approved(txn.mem.tgt)

Serial == ReviewInv /\ SerialInv /\ ApprovedAsVouched

LEMMA SerialInit == Init => Serial
<1> SUFFICES ASSUME Init PROVE Serial
  OBVIOUS
<1>1. ReviewInv /\ SerialInv
  BY InitInv DEF Init, SerialInv
<1>2. /\ \A e \in Entity : entity[e].status \in {"PENDING", "REJECTED"}
      /\ \A r \in Relation : relation[r].status \in {"PENDING", "REJECTED"}
  BY DEF Init, ExtractedEntities, ExtractedRelations
<1> QED BY <1>1, <1>2 DEF Serial, ApprovedAsVouched

\* The commit publishes exactly the object in memory.
LEMMA CommitsTheEntity ==
    ASSUME Serial, NEW s \in Reviewer, CommitEntity(s)
    PROVE  LET txn == entityTxn[s]
           IN  /\ txn \in EntityTxn
               /\ entity' = [entity EXCEPT ![txn.id] = txn.mem]
<1> DEFINE txn == entityTxn[s]
<1>1. txn \in EntityTxn /\ txn.loaded = entity[txn.id]
  BY DEF Serial, ReviewInv, TypeOK, SerialInv, CommitEntity
<1>2. FlushEntity(entity[txn.id], txn) = [status |-> txn.mem.status,
         content |-> txn.mem.content, merged |-> txn.mem.merged]
  <2>1. txn.loaded.content \in Content /\ txn.mem.content \in Content
    BY <1>1 DEF EntityTxn, EntityRow
  <2>2. FlushedContent(txn.loaded.content, txn.loaded.content, txn.mem.content)
          = txn.mem.content
    BY <2>1, FlushContentExact
  <2> QED BY <1>1, <2>2 DEF FlushEntity, Flushed
<1>3. txn.mem \in EntityRow
  BY <1>1 DEF EntityTxn
<1>4. txn.mem = [status |-> txn.mem.status,
         content |-> txn.mem.content, merged |-> txn.mem.merged]
  BY <1>3 DEF EntityRow
<1> QED BY <1>1, <1>2, <1>4 DEF CommitEntity

LEMMA CommitsTheRelation ==
    ASSUME Serial, NEW s \in Reviewer, CommitRelation(s)
    PROVE  LET txn == relationTxn[s]
           IN  /\ txn \in RelationTxn
               /\ relation' = [relation EXCEPT ![txn.id] = txn.mem]
<1> DEFINE txn == relationTxn[s]
           image == [status |-> txn.mem.status, type |-> txn.mem.type,
                     srcKey |-> txn.mem.srcKey, tgtKey |-> txn.mem.tgtKey,
                     src |-> txn.mem.src, tgt |-> txn.mem.tgt]
<1>1. txn \in RelationTxn /\ txn.loaded = relation[txn.id]
  BY DEF Serial, ReviewInv, TypeOK, SerialInv, CommitRelation
<1>2. FlushRelation(relation[txn.id], txn) = image
  <2>1. /\ txn.loaded.srcKey \in Content /\ txn.mem.srcKey \in Content
        /\ txn.loaded.tgtKey \in Content /\ txn.mem.tgtKey \in Content
    BY <1>1 DEF RelationTxn, RelationRow
  <2>2. /\ FlushedContent(txn.loaded.srcKey, txn.loaded.srcKey, txn.mem.srcKey)
             = txn.mem.srcKey
        /\ FlushedContent(txn.loaded.tgtKey, txn.loaded.tgtKey, txn.mem.tgtKey)
             = txn.mem.tgtKey
    BY <2>1, FlushContentExact
  <2> QED BY <1>1, <2>2 DEF FlushRelation, Flushed
<1>3. txn.mem \in RelationRow
  BY <1>1 DEF RelationTxn
<1>4. txn.mem = image
  BY <1>3 DEF RelationRow
<1> QED BY <1>1, <1>2, <1>4 DEF CommitRelation

LEMMA SerialBeginEntity ==
    ASSUME Serial, OneReviewer, ReviewInv', NEW s \in Reviewer, NEW e \in Entity,
           NEW op, NEW mem, BeginEntity(s, e, op, mem)
    PROVE  Serial'
<1>1. SerialInv'
  BY DEF Serial, ReviewInv, TypeOK, SerialInv, OneReviewer, BeginEntity, Idle,
         staging
<1>2. ApprovedAsVouched'
  BY DEF Serial, ApprovedAsVouched, EdgeOf, BeginEntity, staging, vouched
<1> QED BY <1>1, <1>2 DEF Serial

LEMMA SerialBeginRelation ==
    ASSUME Serial, OneReviewer, ReviewInv', NEW s \in Reviewer,
           NEW r \in Relation, NEW op, NEW pc, NEW mem,
           BeginRelation(s, r, op, pc, mem),
           \/ op = "approve" /\ pc = "source"
           \/ op # "approve" /\ pc = "commit"
    PROVE  Serial'
<1>1. SerialInv'
  BY DEF Serial, ReviewInv, TypeOK, SerialInv, OneReviewer, BeginRelation, Idle,
         staging
<1>2. ApprovedAsVouched'
  BY DEF Serial, ApprovedAsVouched, EdgeOf, BeginRelation, staging, vouched
<1> QED BY <1>1, <1>2 DEF Serial

LEMMA SerialRequests ==
    ASSUME Serial, OneReviewer, ReviewInv', NEW s \in Reviewer,
           EntityRequest(s) \/ RelationRequest(s)
    PROVE  Serial'
<1>1. CASE EntityRequest(s)
  BY <1>1, SerialBeginEntity
     DEF EntityRequest, ApproveEntity, RejectEntity, ModifyEntity, MergeEntity
<1>2. CASE RelationRequest(s)
  BY <1>2, SerialBeginRelation
     DEF RelationRequest, ApproveRelation, RejectRelation, ModifyRelation,
         MergeRelation
<1> QED BY <1>1, <1>2

LEMMA SerialReadSource ==
    ASSUME Serial, OneReviewer, ReviewInv', NEW s \in Reviewer, ReadSource(s)
    PROVE  Serial'
<1> DEFINE txn == relationTxn[s]
<1>1. txn \in RelationTxn
  BY DEF Serial, ReviewInv, TypeOK, ReadSource
<1>2. PICK e \in ResolveEndpoint(txn.id, txn.loaded.src, txn.loaded.srcKey) :
         relationTxn' = [relationTxn EXCEPT ![s] =
            [txn EXCEPT !.pc = "target", !.srcOk = Approved(e), !.mem.src = e]]
  BY DEF ReadSource
<1>3. /\ relationTxn'[s].id = txn.id
      /\ relationTxn'[s].pc = "target"
      /\ relationTxn'[s].loaded = txn.loaded
      /\ relationTxn'[s].srcOk = Approved(e)
      /\ relationTxn'[s].mem.src = e
  BY <1>1, <1>2 DEF Serial, ReviewInv, TypeOK, RelationTxn, RelationRow
<1>4. entity' = entity /\ relation' = relation /\ entityTxn' = entityTxn
  BY DEF ReadSource, staging
<1>5. (Approved(relationTxn[s].mem.src))' \/ ~relationTxn'[s].srcOk
  BY <1>3, <1>4 DEF Approved
<1>6. SerialInv'
  BY <1>3, <1>4, <1>5 DEF Serial, SerialInv, OneReviewer, ReadSource
<1>7. ApprovedAsVouched'
  BY DEF Serial, ApprovedAsVouched, EdgeOf, ReadSource, staging, vouched
<1> QED BY <1>6, <1>7 DEF Serial

LEMMA SerialReadTarget ==
    ASSUME Serial, OneReviewer, ReviewInv', NEW s \in Reviewer, ReadTarget(s)
    PROVE  Serial'
<1> DEFINE txn == relationTxn[s]
<1>1. txn \in RelationTxn
  BY DEF Serial, ReviewInv, TypeOK, ReadTarget
<1>2. PICK e \in ResolveEndpoint(txn.id, txn.loaded.tgt, txn.loaded.tgtKey) :
         \/ /\ relationTxn' = [relationTxn EXCEPT ![s] =
                                [txn EXCEPT !.pc = "commit", !.mem.tgt = e]]
            /\ txn.srcOk
            /\ e = txn.mem.src \/ Approved(e)
         \/ relationTxn' = [relationTxn EXCEPT ![s] = NoTxn]
  BY DEF ReadTarget
<1>3. Approved(txn.mem.src) \/ ~txn.srcOk
  BY DEF Serial, SerialInv, ReadTarget
<1>4. ASSUME relationTxn'[s] # NoTxn
      PROVE  /\ relationTxn'[s].id = txn.id
             /\ relationTxn'[s].pc = "commit"
             /\ relationTxn'[s].loaded = txn.loaded
             /\ Approved(relationTxn'[s].mem.src)
             /\ Approved(relationTxn'[s].mem.tgt)
  <2>1. /\ relationTxn' = [relationTxn EXCEPT ![s] =
                              [txn EXCEPT !.pc = "commit", !.mem.tgt = e]]
        /\ txn.srcOk
        /\ e = txn.mem.src \/ Approved(e)
    BY <1>2, <1>4 DEF Serial, ReviewInv, TypeOK
  <2>2. /\ relationTxn'[s].mem.src = txn.mem.src
        /\ relationTxn'[s].mem.tgt = e
    BY <1>1, <2>1 DEF Serial, ReviewInv, TypeOK, RelationTxn, RelationRow
  <2>3. Approved(txn.mem.src) /\ Approved(e)
    BY <1>3, <2>1
  <2>4. /\ relationTxn'[s].id = txn.id
        /\ relationTxn'[s].pc = "commit"
        /\ relationTxn'[s].loaded = txn.loaded
    BY <1>1, <2>1 DEF Serial, ReviewInv, TypeOK, RelationTxn, RelationRow
  <2> QED BY <2>2, <2>3, <2>4
<1>5. SerialInv'
  BY <1>4 DEF Serial, SerialInv, OneReviewer, ReadTarget, Approved, staging
<1>6. ApprovedAsVouched'
  BY DEF Serial, ApprovedAsVouched, EdgeOf, ReadTarget, staging, vouched
<1> QED BY <1>5, <1>6 DEF Serial

LEMMA SerialCommitEntity ==
    ASSUME Serial, OneReviewer, ReviewInv', NEW s \in Reviewer, CommitEntity(s)
    PROVE  Serial'
<1> DEFINE txn == entityTxn[s]
<1>1. txn \in EntityTxn /\ entity' = [entity EXCEPT ![txn.id] = txn.mem]
  BY CommitsTheEntity
<1>2. EntityInFlight(txn) /\ relationTxn[s] = NoTxn
  BY DEF Serial, ReviewInv, RequestsInFlight, SerialInv, CommitEntity
<1>3. SerialInv'
  BY <1>2 DEF Serial, ReviewInv, TypeOK, SerialInv, OneReviewer, CommitEntity
<1>4. ASSUME NEW e \in Entity, entity'[e].status = "APPROVED"
      PROVE  entity'[e].content \in entityVouched'[e]
  <2>1. CASE e = txn.id
    BY <2>1, <1>1, <1>2, <1>4
       DEF Serial, ReviewInv, TypeOK, EntityTxn, EntityInFlight, CommitEntity
  <2>2. CASE e # txn.id
    BY <2>2, <1>1, <1>4
       DEF Serial, ReviewInv, TypeOK, ApprovedAsVouched, CommitEntity
  <2> QED BY <2>1, <2>2
<1>5. ApprovedAsVouched'
  BY <1>4 DEF Serial, ApprovedAsVouched, EdgeOf, CommitEntity
<1> QED BY <1>3, <1>5 DEF Serial

LEMMA SerialCommitRelation ==
    ASSUME Serial, OneReviewer, ReviewInv', NEW s \in Reviewer, CommitRelation(s)
    PROVE  Serial'
<1> DEFINE txn == relationTxn[s]
<1>1. txn \in RelationTxn /\ relation' = [relation EXCEPT ![txn.id] = txn.mem]
  BY CommitsTheRelation
<1>2. RelationInFlight(txn) /\ entityTxn[s] = NoTxn
  BY DEF Serial, ReviewInv, RequestsInFlight, SerialInv, CommitRelation
<1>3. SerialInv'
  BY <1>2 DEF Serial, ReviewInv, TypeOK, SerialInv, OneReviewer, CommitRelation
<1>4. ASSUME NEW r \in Relation, relation'[r].status = "APPROVED"
      PROVE  EdgeOf(relation'[r]) \in relationVouched'[r]
  <2>1. CASE r = txn.id
    <3>1. relation'[r] = txn.mem
      BY <2>1, <1>1 DEF Serial, ReviewInv, TypeOK, RelationTxn
    <3>2. txn.op = "approve"
      BY <3>1, <1>2, <1>4 DEF RelationInFlight
    <3> QED BY <2>1, <3>1, <3>2, <1>1
            DEF Serial, ReviewInv, TypeOK, RelationTxn, CommitRelation
  <2>2. CASE r # txn.id
    BY <2>2, <1>1, <1>4
       DEF Serial, ReviewInv, TypeOK, ApprovedAsVouched, CommitRelation
  <2> QED BY <2>1, <2>2
<1>5. ApprovedAsVouched'
  BY <1>4 DEF Serial, ApprovedAsVouched, CommitRelation
<1> QED BY <1>3, <1>5 DEF Serial

LEMMA SerialAbort ==
    ASSUME Serial, OneReviewer, ReviewInv', NEW s \in Reviewer, Abort(s)
    PROVE  Serial'
<1>1. SerialInv'
  BY DEF Serial, ReviewInv, TypeOK, SerialInv, OneReviewer, Abort
<1>2. ApprovedAsVouched'
  BY DEF Serial, ApprovedAsVouched, EdgeOf, Abort, staging, vouched
<1> QED BY <1>1, <1>2 DEF Serial

LEMMA SerialNext ==
    ASSUME OneReviewer, Serial, [Next]_vars
    PROVE  Serial'
<1>1. ReviewInv'
  BY NextInv DEF Serial
<1>2. CASE UNCHANGED vars
  BY <1>1, <1>2 DEF Serial, SerialInv, ApprovedAsVouched, Approved, EdgeOf, vars
<1> QED
  BY <1>1, <1>2, SerialRequests, SerialReadSource, SerialReadTarget,
     SerialCommitEntity, SerialCommitRelation, SerialAbort DEF Next

\* Only the commit of a relation request writes relation rows.
LEMMA WhoWritesRelations ==
    ASSUME Next
    PROVE  relation' = relation \/ \E s \in Reviewer : CommitRelation(s)
BY DEF Next, EntityRequest, RelationRequest, ApproveEntity, RejectEntity,
       ModifyEntity, MergeEntity, BeginEntity, ApproveRelation, RejectRelation,
       ModifyRelation, MergeRelation, BeginRelation, CommitEntity, ReadSource,
       ReadTarget, Abort, staging

\* The action of the property ApprovalGuard, for one relation.
LEMMA SerialGuardStep ==
    ASSUME OneReviewer, Serial, [Next]_vars, NEW r \in Relation,
           relation[r].status # "APPROVED", relation'[r].status = "APPROVED"
    PROVE  Approved(relation'[r].src) /\ Approved(relation'[r].tgt)
<1>1. PICK s \in Reviewer : CommitRelation(s)
  BY WhoWritesRelations DEF vars
<1> DEFINE txn == relationTxn[s]
<1>2. txn \in RelationTxn /\ relation' = [relation EXCEPT ![txn.id] = txn.mem]
  BY <1>1, CommitsTheRelation
<1>3. r = txn.id /\ relation'[r] = txn.mem
  BY <1>2 DEF Serial, ReviewInv, TypeOK, RelationTxn
<1>4. txn.op = "approve" /\ txn.pc = "commit"
  BY <1>1, <1>3 DEF Serial, ReviewInv, RequestsInFlight, RelationInFlight,
                    CommitRelation
<1>5. Approved(txn.mem.src) /\ Approved(txn.mem.tgt)
  BY <1>1, <1>4 DEF Serial, SerialInv, CommitRelation
<1> QED BY <1>3, <1>5

THEOREM SerialInvariant ==
    ASSUME OneReviewer
    PROVE  Spec => []Serial
<1>1. Serial /\ [Next]_vars => Serial'
  BY SerialNext
<1> QED BY <1>1, SerialInit, PTL DEF Spec

\* With one request at a time, every APPROVED row shows exactly what some
\* approval was given for.
THEOREM SerialApprovedAsVouched ==
    ASSUME OneReviewer
    PROVE  Spec => []ApprovedAsVouched
<1>1. Serial => ApprovedAsVouched
  BY DEF Serial
<1> QED BY <1>1, SerialInvariant, PTL

\* With one request at a time, a relation becomes APPROVED only while both its
\* endpoints are APPROVED.
THEOREM SerialApprovalGuard ==
    ASSUME OneReviewer
    PROVE  Spec => ApprovalGuard
<1> DEFINE Guarded == \A r \in Relation :
             relation[r].status # "APPROVED" /\ relation'[r].status = "APPROVED" =>
                Approved(relation'[r].src) /\ Approved(relation'[r].tgt)
<1>1. Serial /\ [Next]_vars => [Guarded]_vars
  BY SerialGuardStep
<1> QED BY <1>1, SerialInvariant, PTL DEF Spec, ApprovalGuard

\* With one request at a time, the after image in audit_log is the row itself.
THEOREM SerialAuditTellsStaging ==
    ASSUME OneReviewer
    PROVE  Spec => AuditTellsStaging
<1> DEFINE Told == \A s \in Reviewer :
       /\ CommitEntity(s) => entity'[entityTxn[s].id] = entityTxn[s].mem
       /\ CommitRelation(s) => relation'[relationTxn[s].id] = relationTxn[s].mem
<1>1. ASSUME Serial PROVE Told
  <2>1. ASSUME NEW s \in Reviewer, CommitEntity(s)
        PROVE  entity'[entityTxn[s].id] = entityTxn[s].mem
    BY <1>1, <2>1, CommitsTheEntity DEF Serial, ReviewInv, TypeOK, EntityTxn
  <2>2. ASSUME NEW s \in Reviewer, CommitRelation(s)
        PROVE  relation'[relationTxn[s].id] = relationTxn[s].mem
    BY <1>1, <2>2, CommitsTheRelation DEF Serial, ReviewInv, TypeOK, RelationTxn
  <2> QED BY <2>1, <2>2
<1> HIDE DEF Told
<1> QED BY <1>1, SerialInvariant, PTL DEF Spec, AuditTellsStaging, Told

=============================================================================
