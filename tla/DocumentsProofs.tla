--------------------------- MODULE DocumentsProofs ---------------------------
(***************************************************************************)
(* Proofs about module Documents: any number of uploads, contents and      *)
(* chunks, any failing call and any crash.                                 *)
(***************************************************************************)
EXTENDS Documents, FiniteSetTheorems, TLAPS

(* Type correctness.  It needs to know that a request has its content.      *)

Supplied == \A u \in Upload : ~At(u, "none") => upload[u].content \in Content

Typed == DocumentsTypeOK /\ Supplied

LEMMA InitTyped == Init => Typed
BY DocumentsAssumption
DEF Init, Typed, DocumentsTypeOK, Supplied, UploadState, Unmarked, VectorStatus, At

\* A step replaces the record of one request.
LEMMA Replace ==
    ASSUME upload \in [Upload -> UploadState], NEW u \in Upload,
           NEW r \in UploadState, SetUpload(u, r)
    PROVE  /\ upload' \in [Upload -> UploadState]
           /\ upload'[u] = r
           /\ \A d \in Upload \ {u} : upload'[d] = upload[d]
BY DEF SetUpload

LEMMA GotoType ==
    ASSUME upload \in [Upload -> UploadState], NEW u \in Upload,
           NEW pc \in {"none", "check", "insert", "commit", "collections",
                       "create", "index", "marked", "created", "duplicate",
                       "error"}
    PROVE  [upload[u] EXCEPT !.pc = pc] \in UploadState
BY DEF UploadState

LEMMA MarkType ==
    ASSUME upload \in [Upload -> UploadState], NEW u \in Upload, NEW p \in Part,
           NEW status \in VectorStatus
    PROVE  [upload[u] EXCEPT !.todo = @ \ {p}, !.mark[p] = status] \in UploadState
<1> DEFINE r == upload[u]
<1>1. r \in UploadState
  OBVIOUS
<1>2. [r.mark EXCEPT ![p] = status] \in [Part -> VectorStatus]
  BY <1>1 DEF UploadState
<1>3. r.todo \ {p} \in SUBSET Part
  BY <1>1 DEF UploadState
<1>4. [r EXCEPT !.todo = @ \ {p}, !.mark[p] = status]
        = [r EXCEPT !.todo = r.todo \ {p}, !.mark = [r.mark EXCEPT ![p] = status]]
  OBVIOUS
<1> HIDE DEF r
<1>5. [r EXCEPT !.todo = r.todo \ {p}, !.mark = [r.mark EXCEPT ![p] = status]]
        \in UploadState
  BY <1>1, <1>2, <1>3 DEF UploadState
<1> QED BY <1>4, <1>5 DEF r

LEMMA AggregateType ==
    ASSUME NEW total, NEW indexed, NEW failed
    PROVE  Aggregate(total, indexed, failed) \in VectorStatus
BY DEF Aggregate, VectorStatus

\* How the requests may move: the acting one to a record of the type that keeps
\* its content, the others not at all.
Moves(u) ==
    /\ upload' \in [Upload -> UploadState]
    /\ upload'[u].content \in Content
    /\ \A d \in Upload \ {u} : upload'[d] = upload[d]

\* The acting request goes to pc and changes nothing else that matters here.
Keeps(u, pc) ==
    /\ upload'[u].pc = pc
    /\ upload'[u].content = upload[u].content
    /\ upload'[u].todo = upload[u].todo
    /\ upload'[u].mark = upload[u].mark

LEMMA PostMoves ==
    ASSUME Typed, NEW u \in Upload, NEW c \in Content, Post(u, c)
    PROVE  /\ Moves(u)
           /\ upload'[u].pc = "check" /\ upload'[u].mark = upload[u].mark
           /\ UNCHANGED <<store, qdrant>>
<1> DEFINE r == [upload[u] EXCEPT !.pc = "check", !.content = c]
<1>1. r \in UploadState /\ r.content = c /\ r.pc = "check" /\ r.mark = upload[u].mark
  BY DEF Typed, DocumentsTypeOK, UploadState
<1>2. SetUpload(u, r)
  BY DEF Post
<1> HIDE DEF r
<1> QED BY <1>1, <1>2, Replace DEF Post, Moves, Typed, DocumentsTypeOK

LEMMA GotoMoves ==
    ASSUME Typed, NEW u \in Upload, ~At(u, "none"), NEW pc, Goto(u, pc),
           pc \in {"none", "check", "insert", "commit", "collections",
                   "create", "index", "marked", "created", "duplicate", "error"}
    PROVE  Moves(u) /\ Keeps(u, pc)
<1> DEFINE r == [upload[u] EXCEPT !.pc = pc]
<1>1. /\ r.pc = pc /\ r.content = upload[u].content /\ r.todo = upload[u].todo
      /\ r.mark = upload[u].mark
  BY DEF Typed, DocumentsTypeOK, UploadState
<1>2. r \in UploadState
  BY GotoType DEF Typed, DocumentsTypeOK
<1>3. SetUpload(u, r)
  BY DEF Goto
<1> HIDE DEF r
<1> QED
  BY <1>1, <1>2, <1>3, Replace
  DEF Keeps, Moves, Typed, DocumentsTypeOK, Supplied

LEMMA MarkMoves ==
    ASSUME Typed, NEW u \in Upload, ~At(u, "none"), NEW p \in Part,
           NEW status \in VectorStatus, Mark(u, p, status)
    PROVE  /\ Moves(u)
           /\ upload'[u].pc = upload[u].pc
           /\ upload'[u].content = upload[u].content
           /\ upload'[u].todo = upload[u].todo \ {p}
           /\ upload'[u].mark = [upload[u].mark EXCEPT ![p] = status]
<1> DEFINE r == [upload[u] EXCEPT !.todo = @ \ {p}, !.mark[p] = status]
<1>1. r \in UploadState
  BY MarkType DEF Typed, DocumentsTypeOK
<1>2. /\ r.content = upload[u].content /\ r.pc = upload[u].pc
      /\ r.todo = upload[u].todo \ {p}
      /\ r.mark = [upload[u].mark EXCEPT ![p] = status]
  BY DEF Typed, DocumentsTypeOK, UploadState
<1>3. SetUpload(u, r)
  BY DEF Mark
<1> HIDE DEF r
<1>4. Moves(u) /\ upload'[u] = r
  BY <1>1, <1>2, <1>3, Replace DEF Moves, Typed, DocumentsTypeOK, Supplied
<1> QED BY <1>2, <1>4

\* Insert makes the chunks of the content.
LEMMA InsertMoves ==
    ASSUME Typed, NEW u \in Upload, Insert(u)
    PROVE  /\ Moves(u)
           /\ upload'[u].content = upload[u].content
           /\ upload'[u].mark = upload[u].mark
           /\ \/ upload'[u].pc = "error"
              \/ /\ upload'[u].pc = "commit"
                 /\ upload'[u].todo = PartsOf[upload[u].content]
                 /\ \A d \in Upload : document[d] # upload[u].content
           /\ UNCHANGED <<store, qdrant>>
<1>1. ~At(u, "none")
  BY DEF Insert, At
<1>2. CASE Goto(u, "error")
  BY <1>1, <1>2, GotoMoves DEF Insert, Keeps
<1>3. CASE ~Goto(u, "error")
  <2> DEFINE r == [upload[u] EXCEPT !.pc = "commit",
                                    !.todo = PartsOf[upload[u].content]]
  <2>1. upload[u] \in UploadState /\ upload[u].content \in Content
    BY <1>1 DEF Typed, DocumentsTypeOK, Supplied
  <2>2. PartsOf[upload[u].content] \in SUBSET Part
    BY <2>1, DocumentsAssumption
  <2>3. /\ r \in UploadState
        /\ r.pc = "commit" /\ r.content = upload[u].content
        /\ r.mark = upload[u].mark
        /\ r.todo = PartsOf[upload[u].content]
    BY <2>1, <2>2 DEF UploadState
  <2>4. SetUpload(u, r) /\ \A d \in Upload : document[d] # upload[u].content
    BY <1>3 DEF Insert
  <2> HIDE DEF r
  <2>5. upload'[u] = r /\ Moves(u)
    BY <2>1, <2>3, <2>4, Replace DEF Moves, Typed, DocumentsTypeOK
  <2> QED BY <2>3, <2>4, <2>5 DEF Insert
<1> QED BY <1>2, <1>3

LEMMA CheckMoves ==
    ASSUME Typed, NEW u \in Upload, FindByContentHash(u)
    PROVE  /\ Moves(u)
           /\ upload'[u].content = upload[u].content
           /\ upload'[u].mark = upload[u].mark
           /\ \/ upload'[u].pc = "insert"
              \/ /\ upload'[u].pc = "duplicate"
                 /\ upload'[u].existing \in Upload
                 /\ document[upload'[u].existing] = upload[u].content
           /\ UNCHANGED <<store, qdrant>>
<1>1. ~At(u, "none")
  BY DEF FindByContentHash, At
<1>2. upload[u] \in UploadState /\ upload[u].content \in Content
  BY <1>1 DEF Typed, DocumentsTypeOK, Supplied
<1>3. CASE Goto(u, "insert")
  <2>1. Moves(u) /\ Keeps(u, "insert")
    BY <1>1, <1>3, GotoMoves
  <2> QED BY <2>1 DEF FindByContentHash, Keeps
<1>4. ASSUME NEW d \in Upload, document[d] = upload[u].content,
             SetUpload(u, [upload[u] EXCEPT !.pc = "duplicate", !.existing = d])
      PROVE  /\ Moves(u)
             /\ upload'[u].pc = "duplicate" /\ upload'[u].existing = d
             /\ upload'[u].content = upload[u].content
             /\ upload'[u].mark = upload[u].mark
  <2> DEFINE r == [upload[u] EXCEPT !.pc = "duplicate", !.existing = d]
  <2>1. r \in UploadState /\ r.pc = "duplicate" /\ r.existing = d
          /\ r.content = upload[u].content /\ r.mark = upload[u].mark
    BY <1>2 DEF UploadState
  <2>2. SetUpload(u, r)
    BY <1>4
  <2> HIDE DEF r
  <2>3. upload'[u] = r /\ Moves(u)
    BY <1>2, <2>1, <2>2, Replace DEF Moves, Typed, DocumentsTypeOK
  <2> QED BY <2>1, <2>3
<1>5. CASE ~Goto(u, "insert")
  <2>1. PICK d \in Upload :
          /\ document[d] = upload[u].content
          /\ SetUpload(u, [upload[u] EXCEPT !.pc = "duplicate", !.existing = d])
    BY <1>5, Zenon DEF FindByContentHash
  <2>2. /\ Moves(u)
        /\ upload'[u].pc = "duplicate" /\ upload'[u].existing = d
        /\ upload'[u].content = upload[u].content
        /\ upload'[u].mark = upload[u].mark
    BY <2>1, <1>4, Zenon
  <2> QED BY <2>1, <2>2, Zenon DEF FindByContentHash
<1> QED BY <1>3, <1>5

LEMMA CommitMarksMoves ==
    ASSUME Typed, NEW u \in Upload, CommitMarks(u)
    PROVE  Moves(u) /\ Keeps(u, "marked") /\ UNCHANGED <<document, qdrant>>
<1>1. ~At(u, "none") /\ Goto(u, "marked")
  BY DEF CommitMarks, At
<1> QED BY <1>1, GotoMoves DEF CommitMarks

LEMMA AnswerMoves ==
    ASSUME Typed, NEW u \in Upload, Answer(u)
    PROVE  /\ Moves(u)
           /\ upload'[u].pc = "created"
           /\ upload'[u].content = upload[u].content
           /\ upload'[u].mark = upload[u].mark
           /\ upload'[u].answer =
                Aggregate(Cardinality(PartsOf[upload[u].content]),
                          Marked(u, "INDEXED"), Marked(u, "FAILED"))
           /\ UNCHANGED <<store, qdrant>>
<1> DEFINE a == Aggregate(Cardinality(PartsOf[upload[u].content]),
                          Marked(u, "INDEXED"), Marked(u, "FAILED"))
           r == [upload[u] EXCEPT !.pc = "created", !.answer = a]
<1>1. ~At(u, "none")
  BY DEF Answer, At
<1>2. upload[u] \in UploadState /\ upload[u].content \in Content
  BY <1>1 DEF Typed, DocumentsTypeOK, Supplied
<1>3. a \in VectorStatus
  BY AggregateType
<1>4. SetUpload(u, r)
  BY DEF Answer
<1> HIDE DEF a
<1>5. r \in UploadState /\ r.pc = "created" /\ r.content = upload[u].content
        /\ r.mark = upload[u].mark /\ r.answer = a
  BY <1>2, <1>3 DEF UploadState
<1> HIDE DEF r
<1>6. upload'[u] = r /\ Moves(u)
  BY <1>2, <1>4, <1>5, Replace DEF Moves, Typed, DocumentsTypeOK
<1> QED BY <1>5, <1>6 DEF Answer, a

\* CommitDocument, and then the calls of Qdrant.
LEMMA CommitDocumentMoves ==
    ASSUME Typed, NEW u \in Upload, CommitDocument(u)
    PROVE  Moves(u) /\ Keeps(u, "collections")
<1>1. ~At(u, "none") /\ Goto(u, "collections")
  BY DEF CommitDocument, At
<1> QED BY <1>1, GotoMoves

LEMMA GetCollectionsMoves ==
    ASSUME Typed, NEW u \in Upload, GetCollections(u)
    PROVE  /\ Moves(u)
           /\ Keeps(u, "index") \/ Keeps(u, "create") \/ Keeps(u, "error")
           /\ UNCHANGED <<store, qdrant>>
<1>1. ~At(u, "none")
  BY DEF GetCollections, At
<1>2. \E pc \in {"index", "create", "error"} : Goto(u, pc)
  BY DEF GetCollections
<1> QED BY <1>1, <1>2, GotoMoves DEF GetCollections

LEMMA CreateCollectionMoves ==
    ASSUME Typed, NEW u \in Upload, CreateCollection(u)
    PROVE  /\ Moves(u)
           /\ Keeps(u, "index") \/ Keeps(u, "error")
           /\ collection' \in BOOLEAN
           /\ UNCHANGED <<store, points>>
<1>1. ~At(u, "none")
  BY DEF CreateCollection, At
<1>2. \E pc \in {"index", "error"} : Goto(u, pc)
  BY DEF CreateCollection
<1> QED BY <1>1, <1>2, GotoMoves DEF CreateCollection, Typed, DocumentsTypeOK

LEMMA DieMoves ==
    ASSUME Typed, NEW u \in Upload, Die(u)
    PROVE  Moves(u) /\ Keeps(u, "error") /\ UNCHANGED <<store, qdrant>>
BY GotoMoves DEF Die

\* A chunk is indexed and marked, or marked as failed.
LEMMA IndexMoves ==
    ASSUME Typed, NEW u \in Upload, IndexChunk(u) \/ UpsertFails(u)
    PROVE  \E p \in upload[u].todo, status \in {"INDEXED", "FAILED"} :
             /\ p \in Part
             /\ Moves(u)
             /\ upload'[u].pc = upload[u].pc
             /\ upload'[u].content = upload[u].content
             /\ upload'[u].todo = upload[u].todo \ {p}
             /\ upload'[u].mark = [upload[u].mark EXCEPT ![p] = status]
             /\ \/ points' = points \cup {<<u, p>>}
                \/ status = "FAILED" /\ points' = points
             /\ UNCHANGED <<store, collection>>
<1>1. ~At(u, "none")
  BY DEF IndexChunk, UpsertFails, At
<1>2. PICK p \in upload[u].todo, status \in {"INDEXED", "FAILED"} :
        /\ Mark(u, p, status)
        /\ \/ points' = points \cup {<<u, p>>}
           \/ status = "FAILED" /\ points' = points
  BY Zenon DEF IndexChunk, UpsertFails, qdrant
<1>3. p \in Part
  BY DEF Typed, DocumentsTypeOK, UploadState
<1>4. UNCHANGED <<store, collection>>
  BY DEF IndexChunk, UpsertFails, qdrant
<1>5. status \in VectorStatus
  BY DEF VectorStatus
<1>6. /\ Moves(u)
      /\ upload'[u].pc = upload[u].pc
      /\ upload'[u].content = upload[u].content
      /\ upload'[u].todo = upload[u].todo \ {p}
      /\ upload'[u].mark = [upload[u].mark EXCEPT ![p] = status]
  BY <1>1, <1>2, <1>3, <1>5, MarkMoves
<1> QED BY <1>2, <1>3, <1>4, <1>6

-----------------------------------------------------------------------------

LEMMA MovesTyped ==
    ASSUME Typed, NEW u \in Upload, Moves(u)
    PROVE  upload' \in [Upload -> UploadState] /\ Supplied'
BY DEF Typed, Supplied, Moves, At

LEMMA StepTyped == Typed /\ [Next]_vars => Typed'
<1> SUFFICES ASSUME Typed, [Next]_vars PROVE Typed'
  OBVIOUS
<1>1. CASE UNCHANGED vars
  BY <1>1 DEF Typed, DocumentsTypeOK, Supplied, At, vars
<1>2. CASE ReaderEnsures
  BY <1>2 DEF Typed, DocumentsTypeOK, Supplied, At, ReaderEnsures, store
<1>3. ASSUME NEW u \in Upload, Moves(u), UNCHANGED <<store, points>>,
             collection' \in BOOLEAN
      PROVE  Typed'
  BY <1>3, MovesTyped DEF Typed, DocumentsTypeOK, store
<1>4. ASSUME NEW u \in Upload, CommitDocument(u)
      PROVE  Typed'
  <2>1. upload[u].content \in Content
    BY <1>4 DEF CommitDocument, At, Typed, Supplied
  <2>2. document' \in [Upload -> Content \cup {Null}]
    BY <1>4, <2>1 DEF CommitDocument, Typed, DocumentsTypeOK
  <2>3. chunk' \in [ChunkId -> VectorStatus \cup {Null}]
    BY <1>4 DEF CommitDocument, Typed, DocumentsTypeOK, VectorStatus
  <2> QED
    BY <1>4, <2>2, <2>3, CommitDocumentMoves, MovesTyped
    DEF CommitDocument, Typed, DocumentsTypeOK, qdrant
<1>5. ASSUME NEW u \in Upload, IndexChunk(u) \/ UpsertFails(u)
      PROVE  Typed'
  <2>1. PICK p \in upload[u].todo :
          /\ p \in Part /\ Moves(u)
          /\ points' = points \cup {<<u, p>>} \/ points' = points
          /\ UNCHANGED <<store, collection>>
    BY <1>5, IndexMoves
  <2>2. points' \in SUBSET ChunkId
    BY <2>1 DEF Typed, DocumentsTypeOK, ChunkId
  <2> QED BY <2>1, <2>2, MovesTyped DEF Typed, DocumentsTypeOK, store
<1>6. ASSUME NEW u \in Upload, CommitMarks(u)
      PROVE  Typed'
  <2>1. \A x \in ChunkId : upload[u].mark[x[2]] \in VectorStatus
    BY DEF Typed, DocumentsTypeOK, UploadState, ChunkId
  <2>2. chunk' \in [ChunkId -> VectorStatus \cup {Null}]
    BY <1>6, <2>1 DEF CommitMarks, Typed, DocumentsTypeOK
  <2> QED
    BY <1>6, <2>2, CommitMarksMoves, MovesTyped DEF Typed, DocumentsTypeOK, qdrant
<1>7. ASSUME NEW u \in Upload, NEW c \in Content, Post(u, c)
      PROVE  Typed'
  BY <1>3, <1>7, PostMoves DEF Typed, DocumentsTypeOK, qdrant
<1>8. ASSUME NEW u \in Upload,
             \/ FindByContentHash(u) \/ Insert(u) \/ GetCollections(u)
             \/ Answer(u) \/ Die(u)
      PROVE  Typed'
  BY <1>3, <1>8, CheckMoves, InsertMoves, GetCollectionsMoves, AnswerMoves, DieMoves
  DEF Typed, DocumentsTypeOK, qdrant
<1>9. ASSUME NEW u \in Upload, CreateCollection(u)
      PROVE  Typed'
  BY <1>3, <1>9, CreateCollectionMoves
<1> QED
  BY <1>1, <1>2, <1>4, <1>5, <1>6, <1>7, <1>8, <1>9 DEF Next, UploadStep

THEOREM DocumentsTyped == Spec => []Typed
BY InitTyped, StepTyped, PTL DEF Spec

\* Type correctness: in every reachable state the rows and the requests are of
\* the types that module Documents declares.
THEOREM DocumentsTypeCorrect == Spec => []DocumentsTypeOK
BY DocumentsTyped, PTL DEF Typed

-----------------------------------------------------------------------------
(* One document per content.  The unique index keeps two requests with the   *)
(* same content from both having inserted, and the committed rows are those  *)
(* of requests that are past their commit.                                   *)

Committed(u) ==
    upload[u].pc \in {"collections", "create", "index", "marked", "created"}

StoredByPast ==
    \A u \in Upload : document[u] # Null =>
        /\ document[u] = upload[u].content
        /\ Committed(u) \/ At(u, "error")

PastHasStored == \A u \in Upload : Committed(u) => document[u] = upload[u].content

InsertedAlone ==
    \A u \in Upload : At(u, "commit") =>
        /\ upload[u].todo = PartsOf[upload[u].content]
        /\ \A d \in Upload : document[d] # upload[u].content
        /\ \A d \in Upload \ {u} :
             At(d, "commit") => upload[d].content # upload[u].content

UniqueInv == StoredByPast /\ PastHasStored /\ InsertedAlone /\ OneDocumentPerContent

LEMMA InitUnique == Init => UniqueInv
BY DEF Init, UniqueInv, StoredByPast, PastHasStored, InsertedAlone,
       OneDocumentPerContent, Committed, At

\* Every step of a request but Post, Insert and CommitDocument: it goes on, ends,
\* or stays short of its insert.
LEMMA OnwardUnique ==
    ASSUME Typed, UniqueInv, NEW u \in Upload, Moves(u), UNCHANGED document,
           upload'[u].content = upload[u].content,
           upload'[u].pc # "commit",
           Committed(u)' => Committed(u),
           Committed(u) => Committed(u)' \/ At(u, "error")',
           ~At(u, "error")
    PROVE  UniqueInv'
<1>1. \A d \in Upload : upload'[d].content = upload[d].content
  BY DEF Moves
<1>2. \A d \in Upload : At(d, "commit")' => At(d, "commit") /\ d # u
  BY DEF Moves, At
<1>3. StoredByPast' /\ PastHasStored'
  BY <1>1 DEF UniqueInv, StoredByPast, PastHasStored, Committed, At, Moves
<1>4. InsertedAlone'
  BY <1>1, <1>2 DEF UniqueInv, InsertedAlone, Moves, At
<1>5. OneDocumentPerContent'
  BY DEF UniqueInv, OneDocumentPerContent
<1> QED BY <1>3, <1>4, <1>5 DEF UniqueInv

LEMMA StepUnique == Typed /\ UniqueInv /\ [Next]_vars => UniqueInv'
<1> SUFFICES ASSUME Typed, UniqueInv, [Next]_vars PROVE UniqueInv'
  OBVIOUS
<1> USE DEF Committed, At
<1>1. CASE UNCHANGED <<document, upload>>
  BY <1>1 DEF UniqueInv, StoredByPast, PastHasStored, InsertedAlone,
              OneDocumentPerContent
<1>2. ASSUME NEW u \in Upload, NEW c \in Content, Post(u, c)
      PROVE  UniqueInv'
  <2>1. upload[u].pc = "none" /\ upload'[u].pc = "check" /\ Moves(u)
          /\ document' = document
    BY <1>2, PostMoves DEF Post, store
  <2>2. document[u] = Null
    BY <2>1 DEF UniqueInv, StoredByPast
  <2>3. \A d \in Upload : upload'[d].pc # "check" => upload'[d] = upload[d] /\ d # u
    BY <2>1 DEF Moves
  <2>4. StoredByPast' /\ PastHasStored'
    BY <2>1, <2>2, <2>3 DEF UniqueInv, StoredByPast, PastHasStored, Moves
  <2>5. InsertedAlone'
    BY <2>1, <2>3 DEF UniqueInv, InsertedAlone
  <2> QED BY <2>1, <2>4, <2>5 DEF UniqueInv, OneDocumentPerContent
<1>3. ASSUME NEW u \in Upload, FindByContentHash(u)
      PROVE  UniqueInv'
  BY <1>3, CheckMoves, OnwardUnique DEF FindByContentHash, store
<1>4. ASSUME NEW u \in Upload, Insert(u)
      PROVE  UniqueInv'
  <2>1. /\ upload[u].pc = "insert" /\ Moves(u) /\ document' = document
        /\ upload'[u].content = upload[u].content
    BY <1>4, InsertMoves DEF Insert, store
  <2>2. CASE upload'[u].pc = "error"
    BY <2>1, <2>2, OnwardUnique
  <2>3. CASE upload'[u].pc = "commit"
    <3>1. /\ upload'[u].todo = PartsOf[upload[u].content]
          /\ \A d \in Upload : document[d] # upload[u].content
      BY <1>4, <2>3, InsertMoves
    <3>2. \A d \in Upload \ {u} :
            upload[d].pc = "commit" => upload[d].content # upload[u].content
      BY <1>4 DEF Insert
    <3>3. \A d \in Upload \ {u} : upload'[d] = upload[d]
      BY <2>1 DEF Moves
    <3>4. StoredByPast' /\ PastHasStored'
      BY <2>1, <2>3, <3>3 DEF UniqueInv, StoredByPast, PastHasStored
    <3>5. InsertedAlone'
      BY <2>1, <3>1, <3>2, <3>3 DEF UniqueInv, InsertedAlone
    <3> QED BY <2>1, <3>4, <3>5 DEF UniqueInv, OneDocumentPerContent
  <2> QED BY <1>4, <2>2, <2>3, InsertMoves
<1>5. ASSUME NEW u \in Upload, CommitDocument(u)
      PROVE  UniqueInv'
  <2>1. /\ upload[u].pc = "commit" /\ upload'[u].pc = "collections"
        /\ upload'[u].content = upload[u].content
        /\ \A d \in Upload \ {u} : upload'[d] = upload[d]
    BY <1>5, CommitDocumentMoves DEF CommitDocument, Keeps, Moves
  <2>2. /\ document'[u] = upload[u].content
        /\ \A d \in Upload \ {u} : document'[d] = document[d]
    BY <1>5 DEF CommitDocument, Typed, DocumentsTypeOK
  <2>3. StoredByPast' /\ PastHasStored'
    BY <2>1, <2>2 DEF UniqueInv, StoredByPast, PastHasStored
  <2>4. InsertedAlone'
    BY <2>1, <2>2 DEF UniqueInv, InsertedAlone
  <2>5. OneDocumentPerContent'
    BY <2>1, <2>2 DEF UniqueInv, InsertedAlone, OneDocumentPerContent
  <2> QED BY <2>3, <2>4, <2>5 DEF UniqueInv
<1>6. ASSUME NEW u \in Upload, GetCollections(u) \/ CreateCollection(u)
      PROVE  UniqueInv'
  BY <1>6, GetCollectionsMoves, CreateCollectionMoves, OnwardUnique
  DEF GetCollections, CreateCollection, Keeps, store
<1>7. ASSUME NEW u \in Upload, IndexChunk(u) \/ UpsertFails(u)
      PROVE  UniqueInv'
  BY <1>7, IndexMoves, OnwardUnique DEF IndexChunk, UpsertFails, store
<1>8. ASSUME NEW u \in Upload, CommitMarks(u)
      PROVE  UniqueInv'
  BY <1>8, CommitMarksMoves, OnwardUnique DEF CommitMarks, Keeps
<1>9. ASSUME NEW u \in Upload, Answer(u)
      PROVE  UniqueInv'
  BY <1>9, AnswerMoves, OnwardUnique DEF Answer, store
<1>10. ASSUME NEW u \in Upload, Die(u)
       PROVE  UniqueInv'
  <2>1. /\ Moves(u) /\ Keeps(u, "error") /\ document' = document
        /\ upload[u].pc # "error"
    BY <1>10, DieMoves DEF Die, Ended, store
  <2> QED BY <2>1, OnwardUnique DEF Keeps
<1> QED
  BY <1>1, <1>2, <1>3, <1>4, <1>5, <1>6, <1>7, <1>8, <1>9, <1>10
  DEF Next, UploadStep, ReaderEnsures, store, vars

THEOREM Uniqueness == Spec => []UniqueInv
BY DocumentsTyped, InitUnique, StepUnique, PTL DEF Spec

\* No content is ever stored twice, however many requests bring it at the same
\* time and wherever they die (the unique index on content_hash).
THEOREM DocumentsAreUnique == Spec => []OneDocumentPerContent
BY Uniqueness, PTL DEF UniqueInv

-----------------------------------------------------------------------------
(* Points and chunk rows.  A request indexes chunks of its own committed     *)
(* document only, and marks a chunk INDEXED after its point is there.        *)

RowsStored ==
    \A u \in Upload : document[u] # Null =>
        \A p \in PartsOf[document[u]] : chunk[<<u, p>>] # Null

ToIndex ==
    \A u \in Upload : At(u, "collections") \/ At(u, "create") \/ At(u, "index") =>
        upload[u].todo \subseteq PartsOf[upload[u].content]

MarkedHasPoint ==
    \A u \in Upload, p \in Part : upload[u].mark[p] = "INDEXED" => <<u, p>> \in points

ChunkInv == RowsStored /\ ToIndex /\ MarkedHasPoint /\ PointsMatchChunks

LEMMA InitChunk == Init => ChunkInv
<1> SUFFICES ASSUME Init PROVE ChunkInv
  OBVIOUS
<1>1. RowsStored /\ ToIndex
  BY DEF Init, RowsStored, ToIndex, At
<1>2. MarkedHasPoint
  BY DEF Init, MarkedHasPoint, Unmarked
<1>3. Null # "INDEXED"
  BY DocumentsAssumption DEF VectorStatus
<1>4. PointsMatchChunks
  BY <1>3 DEF Init, PointsMatchChunks
<1> QED BY <1>1, <1>2, <1>4 DEF ChunkInv

\* Every step that touches neither rows nor points, marks nothing INDEXED and
\* does not enlarge what is to be indexed.
LEMMA QuietChunk ==
    ASSUME Typed, ChunkInv, NEW u \in Upload, Moves(u), UNCHANGED <<store, points>>,
           \A p \in Part : upload'[u].mark[p] = "INDEXED"
                             => upload[u].mark[p] = "INDEXED",
           At(u, "collections")' \/ At(u, "create")' \/ At(u, "index")' =>
             upload'[u].todo \subseteq PartsOf[upload'[u].content]
    PROVE  ChunkInv'
<1>1. RowsStored' /\ PointsMatchChunks'
  BY DEF ChunkInv, RowsStored, PointsMatchChunks, store
<1>2. ToIndex'
  BY DEF ChunkInv, ToIndex, Moves, At
<1>3. MarkedHasPoint'
  BY DEF ChunkInv, MarkedHasPoint, Moves
<1> QED BY <1>1, <1>2, <1>3 DEF ChunkInv

LEMMA StepChunk == Typed /\ UniqueInv /\ ChunkInv /\ [Next]_vars => ChunkInv'
<1> SUFFICES ASSUME Typed, UniqueInv, ChunkInv, [Next]_vars PROVE ChunkInv'
  OBVIOUS
<1> USE DEF At
<1>1. CASE UNCHANGED <<document, chunk, points, upload>>
  BY <1>1 DEF ChunkInv, RowsStored, ToIndex, MarkedHasPoint, PointsMatchChunks
<1>2. ASSUME NEW u \in Upload, NEW c \in Content, Post(u, c)
      PROVE  ChunkInv'
  BY <1>2, PostMoves, QuietChunk DEF qdrant
<1>3. ASSUME NEW u \in Upload, FindByContentHash(u) \/ Insert(u)
      PROVE  ChunkInv'
  BY <1>3, CheckMoves, InsertMoves, QuietChunk DEF qdrant
<1>4. ASSUME NEW u \in Upload, CommitDocument(u)
      PROVE  ChunkInv'
  <2>1. /\ upload[u].todo = PartsOf[upload[u].content]
        /\ upload[u].content \in Content
    BY <1>4 DEF UniqueInv, InsertedAlone, CommitDocument, Typed, Supplied
  <2>2. /\ Moves(u) /\ Keeps(u, "collections") /\ points' = points
        /\ \A d \in Upload \ {u} : document'[d] = document[d]
        /\ document'[u] = upload[u].content
    BY <1>4, CommitDocumentMoves
    DEF CommitDocument, qdrant, Typed, DocumentsTypeOK
  <2>3. \A x \in ChunkId :
          chunk'[x] = IF x \in {u} \X upload[u].todo THEN "PENDING" ELSE chunk[x]
    BY <1>4 DEF CommitDocument
  <2>4. PartsOf[upload[u].content] \subseteq Part /\ Null # "PENDING"
    BY <2>1, DocumentsAssumption DEF VectorStatus
  <2>5. RowsStored'
    <3> SUFFICES ASSUME NEW d \in Upload, document'[d] # Null,
                        NEW p \in PartsOf[document'[d]]
                 PROVE  chunk'[<<d, p>>] # Null
      BY DEF RowsStored
    <3>1. document'[d] \in Content
      BY <2>1, <2>2 DEF Typed, DocumentsTypeOK
    <3>2. p \in Part
      BY <3>1, DocumentsAssumption
    <3>3. <<d, p>> \in ChunkId
      BY <3>2 DEF ChunkId
    <3>4. CASE d = u
      BY <2>1, <2>2, <2>3, <2>4, <3>3, <3>4
    <3>5. CASE d # u
      BY <2>2, <2>3, <3>3, <3>5 DEF ChunkInv, RowsStored
    <3> QED BY <3>4, <3>5
  <2>6. ToIndex' /\ MarkedHasPoint'
    BY <2>1, <2>2 DEF ChunkInv, ToIndex, MarkedHasPoint, Moves, Keeps
  <2>7. PointsMatchChunks'
    BY <2>2, <2>3, <2>4 DEF ChunkInv, PointsMatchChunks, Typed, DocumentsTypeOK
  <2> QED BY <2>5, <2>6, <2>7 DEF ChunkInv
<1>5. ASSUME NEW u \in Upload, GetCollections(u) \/ CreateCollection(u)
      PROVE  ChunkInv'
  BY <1>5, GetCollectionsMoves, CreateCollectionMoves, QuietChunk
  DEF GetCollections, CreateCollection, Keeps, ChunkInv, ToIndex, qdrant
<1>6. ASSUME NEW u \in Upload, IndexChunk(u) \/ UpsertFails(u)
      PROVE  ChunkInv'
  <2>1. PICK p \in upload[u].todo, status \in {"INDEXED", "FAILED"} :
             /\ p \in Part
             /\ Moves(u)
             /\ upload'[u].pc = upload[u].pc
             /\ upload'[u].content = upload[u].content
             /\ upload'[u].todo = upload[u].todo \ {p}
             /\ upload'[u].mark = [upload[u].mark EXCEPT ![p] = status]
             /\ \/ points' = points \cup {<<u, p>>}
                \/ status = "FAILED" /\ points' = points
             /\ UNCHANGED <<store, collection>>
    BY <1>6, IndexMoves
  <2>2. upload[u].pc = "index" /\ p \in PartsOf[upload[u].content]
    BY <1>6 DEF IndexChunk, UpsertFails, ChunkInv, ToIndex
  <2>3. /\ document[u] = upload[u].content
        /\ document[u] # Null
    BY <2>2, DocumentsAssumption
    DEF UniqueInv, PastHasStored, Committed, Typed, Supplied
  <2>4. chunk[<<u, p>>] # Null
    BY <2>2, <2>3 DEF ChunkInv, RowsStored
  <2>5. RowsStored'
    BY <2>1 DEF ChunkInv, RowsStored, store
  <2>6. ToIndex'
    BY <2>1 DEF ChunkInv, ToIndex, Moves
  <2>7. MarkedHasPoint'
    <3>1. upload[u].mark \in [Part -> VectorStatus]
      BY DEF Typed, DocumentsTypeOK, UploadState
    <3>2. \A q \in Part :
            upload'[u].mark[q] = IF q = p THEN status ELSE upload[u].mark[q]
      BY <2>1, <3>1
    <3> QED BY <2>1, <3>2 DEF ChunkInv, MarkedHasPoint, Moves
  <2>8. PointsMatchChunks'
    BY <2>1, <2>4 DEF ChunkInv, PointsMatchChunks, store
  <2> QED BY <2>5, <2>6, <2>7, <2>8 DEF ChunkInv
<1>7. ASSUME NEW u \in Upload, CommitMarks(u)
      PROVE  ChunkInv'
  <2>1. /\ Moves(u) /\ upload'[u].mark = upload[u].mark
        /\ upload'[u].pc = "marked"
        /\ document' = document /\ points' = points
    BY <1>7, CommitMarksMoves DEF Keeps, qdrant
  <2>2. \A x \in ChunkId :
          chunk'[x] = IF x \in ChunksOf(u) THEN upload[u].mark[x[2]] ELSE chunk[x]
    BY <1>7 DEF CommitMarks
  <2>3. \A x \in ChunkId : upload[u].mark[x[2]] # Null
    BY DocumentsAssumption DEF Typed, DocumentsTypeOK, UploadState, ChunkId
  <2>4. \A x \in ChunksOf(u) : x[1] = u /\ x = <<x[1], x[2]>>
    BY DEF ChunksOf
  <2>5. RowsStored'
    <3> SUFFICES ASSUME NEW d \in Upload, document[d] # Null,
                        NEW p \in PartsOf[document[d]]
                 PROVE  chunk'[<<d, p>>] # Null
      BY <2>1 DEF RowsStored
    <3>1. <<d, p>> \in ChunkId
      BY DocumentsAssumption DEF Typed, DocumentsTypeOK, ChunkId
    <3> QED BY <2>2, <2>3, <3>1 DEF ChunkInv, RowsStored
  <2>6. ToIndex' /\ MarkedHasPoint'
    BY <2>1 DEF ChunkInv, ToIndex, MarkedHasPoint, Moves
  <2>7. PointsMatchChunks'
    <3>1. \A x \in ChunkId : x \in points => chunk'[x] # Null
      BY <2>2, <2>3 DEF ChunkInv, PointsMatchChunks
    <3>2. ASSUME NEW x \in ChunkId, chunk'[x] = "INDEXED" PROVE x \in points
      <4>1. CASE x \in ChunksOf(u)
        BY <2>2, <2>4, <3>2, <4>1 DEF ChunkInv, MarkedHasPoint, ChunkId
      <4>2. CASE x \notin ChunksOf(u)
        BY <2>2, <3>2, <4>2 DEF ChunkInv, PointsMatchChunks
      <4> QED BY <4>1, <4>2
    <3> QED BY <2>1, <3>1, <3>2 DEF PointsMatchChunks, Typed, DocumentsTypeOK
  <2> QED BY <2>5, <2>6, <2>7 DEF ChunkInv
<1>8. ASSUME NEW u \in Upload, Die(u)
      PROVE  ChunkInv'
  BY <1>8, DieMoves, QuietChunk DEF Keeps, qdrant
<1>9. ASSUME NEW u \in Upload, Answer(u)
      PROVE  ChunkInv'
  BY <1>9, AnswerMoves, QuietChunk DEF qdrant
<1> QED
  BY <1>1, <1>2, <1>3, <1>4, <1>5, <1>6, <1>7, <1>8, <1>9
  DEF Next, UploadStep, ReaderEnsures, store, vars

THEOREM ChunksInvariant == Spec => []ChunkInv
BY DocumentsTyped, Uniqueness, InitChunk, StepChunk, PTL DEF Spec

\* Whatever calls fail, lose their answer or are cut short by a crash, an INDEXED
\* chunk has its point and a point its committed chunk.
THEOREM PointsAreChunks == Spec => []PointsMatchChunks
BY ChunksInvariant, PTL DEF ChunkInv

-----------------------------------------------------------------------------
(* What the second commit publishes: a status for every chunk of the         *)
(* document, and the one the loop has counted.                               *)

Attended ==
    \A u \in Upload : At(u, "collections") \/ At(u, "create") \/ At(u, "index") =>
        \A p \in PartsOf[upload[u].content] \ upload[u].todo :
            upload[u].mark[p] \in {"INDEXED", "FAILED"}

Settled ==
    \A u \in Upload : At(u, "marked") =>
        \A p \in PartsOf[upload[u].content] :
            /\ chunk[<<u, p>>] = upload[u].mark[p]
            /\ upload[u].mark[p] \in {"INDEXED", "FAILED"}

MarkInv == Attended /\ Settled

LEMMA InitMark == Init => MarkInv
BY DEF Init, MarkInv, Attended, Settled, At

\* Every step that touches neither the request's row nor its marks.
LEMMA QuietMark ==
    ASSUME Typed, MarkInv, NEW u \in Upload, Moves(u), UNCHANGED chunk,
           upload'[u].pc # "marked",
           At(u, "collections")' \/ At(u, "create")' \/ At(u, "index")' =>
             /\ At(u, "collections") \/ At(u, "create") \/ At(u, "index")
             /\ Keeps(u, upload'[u].pc)
    PROVE  MarkInv'
<1>1. Attended'
  BY DEF MarkInv, Attended, Moves, Keeps, At
<1>2. Settled'
  BY DEF MarkInv, Settled, Moves, At
<1> QED BY <1>1, <1>2 DEF MarkInv

LEMMA StepMark == Typed /\ UniqueInv /\ MarkInv /\ [Next]_vars => MarkInv'
<1> SUFFICES ASSUME Typed, UniqueInv, MarkInv, [Next]_vars PROVE MarkInv'
  OBVIOUS
<1> USE DEF At
<1>1. CASE UNCHANGED <<chunk, upload>>
  BY <1>1 DEF MarkInv, Attended, Settled
<1>2. ASSUME NEW u \in Upload, NEW c \in Content, Post(u, c)
      PROVE  MarkInv'
  BY <1>2, PostMoves, QuietMark DEF store
<1>3. ASSUME NEW u \in Upload, FindByContentHash(u) \/ Insert(u)
      PROVE  MarkInv'
  <2>1. /\ Moves(u) /\ UNCHANGED chunk
        /\ upload'[u].pc \in {"insert", "duplicate", "error", "commit"}
    BY <1>3, CheckMoves, InsertMoves DEF store
  <2> QED BY <2>1, QuietMark
<1>4. ASSUME NEW u \in Upload, CommitDocument(u)
      PROVE  MarkInv'
  <2>1. /\ Moves(u) /\ Keeps(u, "collections") /\ upload[u].pc = "commit"
        /\ upload[u].todo = PartsOf[upload[u].content]
    BY <1>4, CommitDocumentMoves DEF CommitDocument, UniqueInv, InsertedAlone
  <2>2. Attended'
    BY <2>1 DEF MarkInv, Attended, Moves, Keeps
  <2>3. \A d \in Upload \ {u}, p \in Part : chunk'[<<d, p>>] = chunk[<<d, p>>]
    BY <1>4 DEF CommitDocument, ChunkId
  <2>4. \A d \in Upload : upload'[d].pc = "marked" =>
          /\ d # u /\ upload'[d] = upload[d]
          /\ PartsOf[upload[d].content] \subseteq Part
    BY <2>1, DocumentsAssumption DEF Moves, Keeps, Typed, Supplied
  <2>5. Settled'
    BY <2>3, <2>4 DEF MarkInv, Settled
  <2> QED BY <2>2, <2>5 DEF MarkInv
<1>5. ASSUME NEW u \in Upload, GetCollections(u) \/ CreateCollection(u)
      PROVE  MarkInv'
  BY <1>5, GetCollectionsMoves, CreateCollectionMoves, QuietMark
  DEF GetCollections, CreateCollection, Keeps, store
<1>6. ASSUME NEW u \in Upload, IndexChunk(u) \/ UpsertFails(u)
      PROVE  MarkInv'
  <2>1. PICK p \in upload[u].todo, status \in {"INDEXED", "FAILED"} :
             /\ p \in Part
             /\ Moves(u)
             /\ upload'[u].pc = upload[u].pc
             /\ upload'[u].content = upload[u].content
             /\ upload'[u].todo = upload[u].todo \ {p}
             /\ upload'[u].mark = [upload[u].mark EXCEPT ![p] = status]
             /\ UNCHANGED <<store, collection>>
    BY <1>6, IndexMoves
  <2>2. upload[u].pc = "index" /\ upload[u].mark \in [Part -> VectorStatus]
    BY <1>6 DEF IndexChunk, UpsertFails, Typed, DocumentsTypeOK, UploadState
  <2>3. \A q \in Part :
          upload'[u].mark[q] = IF q = p THEN status ELSE upload[u].mark[q]
    BY <2>1, <2>2
  <2>4. upload[u].content \in Content /\ PartsOf[upload[u].content] \subseteq Part
    BY <2>2, DocumentsAssumption DEF Typed, Supplied
  <2>5. Attended'
    BY <2>1, <2>2, <2>3, <2>4 DEF MarkInv, Attended, Moves
  <2>6. Settled'
    BY <2>1, <2>2 DEF MarkInv, Settled, Moves, store
  <2> QED BY <2>5, <2>6 DEF MarkInv
<1>7. ASSUME NEW u \in Upload, CommitMarks(u)
      PROVE  MarkInv'
  <2>1. /\ Moves(u) /\ Keeps(u, "marked") /\ upload[u].pc = "index"
        /\ upload[u].todo = {}
    BY <1>7, CommitMarksMoves DEF CommitMarks
  <2>2. Attended'
    BY <2>1 DEF MarkInv, Attended, Moves, Keeps
  <2>3. \A d \in Upload, p \in Part : <<d, p>> \in ChunkId
    BY DEF ChunkId
  <2>4. \A d \in Upload \ {u}, p \in Part : chunk'[<<d, p>>] = chunk[<<d, p>>]
    BY <1>7, <2>3 DEF CommitMarks, ChunksOf
  <2>5. \A d \in Upload : upload'[d].pc = "marked" =>
          upload'[d].content = upload[d].content /\ upload[d].content \in Content
    BY <2>1 DEF Moves, Keeps, Typed, Supplied
  <2>6. \A d \in Upload : upload'[d].pc = "marked" =>
          PartsOf[upload'[d].content] \subseteq Part
    BY <2>5, DocumentsAssumption
  <2>7. document[u] = upload[u].content /\ document[u] # Null
    BY <2>1, DocumentsAssumption
    DEF UniqueInv, PastHasStored, Committed, Typed, Supplied
  <2>8. ChunksOf(u) = {u} \X PartsOf[upload[u].content]
    BY <2>7 DEF ChunksOf
  <2>9. \A p \in PartsOf[upload[u].content] :
          /\ chunk'[<<u, p>>] = upload[u].mark[p]
          /\ upload[u].mark[p] \in {"INDEXED", "FAILED"}
    BY <1>7, <2>1, <2>3, <2>5, <2>6, <2>8
    DEF CommitMarks, MarkInv, Attended, Keeps
  <2>10. Settled'
    <3> SUFFICES ASSUME NEW d \in Upload, upload'[d].pc = "marked",
                        NEW p \in PartsOf[upload'[d].content]
                 PROVE  /\ chunk'[<<d, p>>] = upload'[d].mark[p]
                        /\ upload'[d].mark[p] \in {"INDEXED", "FAILED"}
      BY DEF Settled
    <3>1. CASE d = u
      BY <2>1, <2>9, <3>1 DEF Keeps
    <3>2. CASE d # u
      <4>1. upload'[d] = upload[d] /\ p \in Part
        BY <2>1, <2>6, <3>2 DEF Moves
      <4> QED BY <2>4, <3>2, <4>1 DEF MarkInv, Settled
    <3> QED BY <3>1, <3>2
  <2> QED BY <2>2, <2>10 DEF MarkInv
<1>8. ASSUME NEW u \in Upload, Answer(u) \/ Die(u)
      PROVE  MarkInv'
  <2>1. Moves(u) /\ UNCHANGED chunk /\ upload'[u].pc \in {"created", "error"}
    BY <1>8, AnswerMoves, DieMoves DEF Keeps, store
  <2> QED BY <2>1, QuietMark
<1> QED
  BY <1>1, <1>2, <1>3, <1>4, <1>5, <1>6, <1>7, <1>8
  DEF Next, UploadStep, ReaderEnsures, store, vars

THEOREM MarksInvariant == Spec => []MarkInv
BY DocumentsTyped, Uniqueness, InitMark, StepMark, PTL DEF Spec

-----------------------------------------------------------------------------
(* What has been answered.  Rows change only for the request that makes them *)
(* and not after its answer, so that GET goes on to say what POST said.      *)

AnswerInv ==
    /\ AnswersAreTrue
    /\ \A u \in Upload : At(u, "duplicate") => upload[u].existing \in Upload

\* The chunk ids of a document count like its chunks.
LEMMA CountPairs ==
    ASSUME NEW u, NEW S, IsFiniteSet(S)
    PROVE  Cardinality({u} \X S) = Cardinality(S)
<1>1. IsFiniteSet({u}) /\ Cardinality({u}) = 1
  BY FS_Singleton
<1>2. Cardinality({u} \X S) = Cardinality({u}) * Cardinality(S)
  BY <1>1, FS_Product
<1> QED BY <1>1, <1>2, FS_CardinalityType

LEMMA StatusStays ==
    ASSUME NEW d \in Upload, document'[d] = document[d],
           \A x \in ChunksOf(d) : chunk'[x] = chunk[x]
    PROVE  AggregateStatus(d)' = AggregateStatus(d)
<1>1. ChunksOf(d)' = ChunksOf(d)
  BY DEF ChunksOf
<1>2. {x \in ChunksOf(d)' : chunk'[x] = "FAILED"}
        = {x \in ChunksOf(d) : chunk[x] = "FAILED"}
  BY <1>1
<1>3. {x \in ChunksOf(d)' : chunk'[x] = "INDEXED"}
        = {x \in ChunksOf(d) : chunk[x] = "INDEXED"}
  BY <1>1
<1> QED BY <1>1, <1>2, <1>3, Zenon DEF AggregateStatus

LEMMA InitAnswer == Init => AnswerInv
BY DEF Init, AnswerInv, AnswersAreTrue, At

LEMMA ChunksAreIds ==
    ASSUME Typed, NEW d \in Upload, NEW x \in ChunksOf(d)
    PROVE  x \in ChunkId
<1>1. document[d] # Null /\ x \in {d} \X PartsOf[document[d]]
  BY DEF ChunksOf
<1>2. document[d] \in Content
  BY <1>1 DEF Typed, DocumentsTypeOK
<1>3. PartsOf[document[d]] \subseteq Part
  BY <1>2, DocumentsAssumption
<1> QED BY <1>1, <1>3 DEF ChunkId

\* A step in which the acting request answers nothing.
LEMMA NoAnswer ==
    ASSUME Typed, UniqueInv, AnswerInv, NEW u \in Upload, Moves(u),
           ~At(u, "created")', ~At(u, "duplicate")', ~At(u, "created"),
           \A d \in Upload : document[d] # Null => document'[d] = document[d],
           \A d \in Upload \ {u} :
             document'[d] = document[d]
             /\ \A x \in ChunksOf(d) : chunk'[x] = chunk[x]
    PROVE  AnswerInv'
<1>1. \A d \in Upload : At(d, "created")' \/ At(d, "duplicate")' =>
        d # u /\ upload'[d] = upload[d]
  BY DEF Moves, At
<1>2. ASSUME NEW d \in Upload, At(d, "created")'
      PROVE  /\ document'[d] = upload'[d].content
             /\ upload'[d].answer = AggregateStatus(d)'
  <2>1. d # u /\ upload'[d] = upload[d] /\ At(d, "created")
    BY <1>1, <1>2 DEF At
  <2>2. AggregateStatus(d)' = AggregateStatus(d)
    BY <2>1, StatusStays
  <2>3. document'[d] = document[d]
    BY <2>1
  <2> QED BY <2>1, <2>2, <2>3 DEF AnswerInv, AnswersAreTrue
<1>3. ASSUME NEW d \in Upload, At(d, "duplicate")'
      PROVE  /\ upload'[d].existing \in Upload
             /\ document'[upload'[d].existing] = upload'[d].content
  <2>1. upload'[d] = upload[d] /\ At(d, "duplicate")
    BY <1>1, <1>3 DEF At
  <2>2. /\ upload[d].existing \in Upload
        /\ document[upload[d].existing] = upload[d].content
    BY <2>1 DEF AnswerInv, AnswersAreTrue
  <2>3. upload[d].content \in Content
    BY <2>1 DEF Typed, Supplied, At
  <2>4. document[upload[d].existing] # Null
    BY <2>2, <2>3, DocumentsAssumption
  <2> QED BY <2>1, <2>2, <2>4
<1> QED BY <1>2, <1>3 DEF AnswerInv, AnswersAreTrue

LEMMA QuietAnswer ==
    ASSUME Typed, UniqueInv, AnswerInv, NEW u \in Upload, Moves(u), UNCHANGED store,
           ~At(u, "created")', ~At(u, "duplicate")', ~At(u, "created")
    PROVE  AnswerInv'
BY NoAnswer DEF store

LEMMA DuplicateAnswer ==
    ASSUME Typed, UniqueInv, AnswerInv, NEW u \in Upload, FindByContentHash(u),
           At(u, "duplicate")'
    PROVE  AnswerInv'
<1>1. /\ Moves(u) /\ upload'[u].content = upload[u].content
      /\ upload'[u].existing \in Upload
      /\ document[upload'[u].existing] = upload[u].content
      /\ document' = document /\ chunk' = chunk
  BY CheckMoves DEF store, At
<1>2. \A d \in Upload : AggregateStatus(d)' = AggregateStatus(d)
  BY <1>1, StatusStays
<1> QED BY <1>1, <1>2 DEF AnswerInv, AnswersAreTrue, Moves, At

\* A 201 carries what the rows say since its own commit.
LEMMA CreatedAnswer ==
    ASSUME Typed, UniqueInv, MarkInv, AnswerInv, NEW u \in Upload, Answer(u)
    PROVE  AnswerInv'
<1> DEFINE S == PartsOf[upload[u].content]
           c == Aggregate(Cardinality(S), Marked(u, "INDEXED"), Marked(u, "FAILED"))
<1>1. /\ Moves(u) /\ upload'[u].pc = "created"
      /\ upload'[u].content = upload[u].content
      /\ upload'[u].answer = c
      /\ document' = document /\ chunk' = chunk
  BY AnswerMoves DEF store
<1>2. upload[u].content \in Content /\ document[u] = upload[u].content
  BY DEF Answer, At, Typed, Supplied, UniqueInv, PastHasStored, Committed
<1>3. document[u] # Null /\ S \subseteq Part /\ IsFiniteSet(S)
  BY <1>2, DocumentsAssumption, FS_Subset
<1>4. ChunksOf(u) = {u} \X S /\ ChunksOf(u)' = {u} \X S
  BY <1>1, <1>2, <1>3 DEF ChunksOf
<1>5. \A p \in S : chunk'[<<u, p>>] = upload[u].mark[p]
  BY <1>1 DEF Answer, MarkInv, Settled, At
<1>6. AggregateStatus(u)' = c
  <2>1. Cardinality(ChunksOf(u)') = Cardinality(S)
    BY <1>3, <1>4, CountPairs
  <2>2. ASSUME NEW status
        PROVE  Cardinality({x \in ChunksOf(u)' : chunk'[x] = status})
                 = Marked(u, status)
    <3> DEFINE T == {p \in S : upload[u].mark[p] = status}
    <3>1. {x \in ChunksOf(u)' : chunk'[x] = status} = {u} \X T
      BY <1>4, <1>5
    <3>2. IsFiniteSet(T)
      BY <1>3, FS_Subset
    <3>3. Marked(u, status) = Cardinality(T)
      BY DEF Marked
    <3> HIDE DEF T
    <3>4. Cardinality({u} \X T) = Cardinality(T)
      BY <3>2, CountPairs
    <3> QED BY <3>1, <3>3, <3>4
  <2>3. /\ Cardinality({x \in ChunksOf(u)' : chunk'[x] = "FAILED"})
             = Marked(u, "FAILED")
        /\ Cardinality({x \in ChunksOf(u)' : chunk'[x] = "INDEXED"})
             = Marked(u, "INDEXED")
    BY <2>2
  <2> QED BY <2>1, <2>3, Zenon DEF AggregateStatus, Aggregate
<1>7. \A d \in Upload \ {u} :
        upload'[d] = upload[d] /\ AggregateStatus(d)' = AggregateStatus(d)
  BY <1>1, StatusStays DEF Moves
<1> QED
  BY <1>1, <1>2, <1>6, <1>7 DEF AnswerInv, AnswersAreTrue, At

LEMMA StepAnswer ==
    Typed /\ UniqueInv /\ MarkInv /\ AnswerInv /\ [Next]_vars => AnswerInv'
<1> SUFFICES ASSUME Typed, UniqueInv, MarkInv, AnswerInv, [Next]_vars
             PROVE  AnswerInv'
  OBVIOUS
<1>1. CASE UNCHANGED <<document, chunk, upload>>
  <2>1. \A d \in Upload : AggregateStatus(d)' = AggregateStatus(d)
    BY <1>1, StatusStays
  <2> QED BY <1>1, <2>1 DEF AnswerInv, AnswersAreTrue, At
<1>2. ASSUME NEW u \in Upload, NEW c \in Content, Post(u, c)
      PROVE  AnswerInv'
  BY <1>2, PostMoves, QuietAnswer DEF Post, At
<1>3. ASSUME NEW u \in Upload, FindByContentHash(u)
      PROVE  AnswerInv'
  BY <1>3, CheckMoves, DuplicateAnswer, QuietAnswer DEF FindByContentHash, At, store
<1>4. ASSUME NEW u \in Upload, Insert(u)
      PROVE  AnswerInv'
  BY <1>4, InsertMoves, QuietAnswer DEF Insert, At
<1>5. ASSUME NEW u \in Upload, CommitDocument(u)
      PROVE  AnswerInv'
  <2>1. /\ Moves(u) /\ upload'[u].pc = "collections" /\ upload[u].pc = "commit"
    BY <1>5, CommitDocumentMoves DEF CommitDocument, Keeps, At
  <2>2. /\ document[u] = Null
        /\ \A d \in Upload \ {u} : document'[d] = document[d]
    BY <1>5, <2>1
    DEF CommitDocument, Typed, DocumentsTypeOK, UniqueInv, StoredByPast,
        Committed, At
  <2>3. \A x \in ChunkId :
          chunk'[x] = IF x \in {u} \X upload[u].todo THEN "PENDING" ELSE chunk[x]
    BY <1>5 DEF CommitDocument
  <2>4. \A d \in Upload \ {u} : \A x \in ChunksOf(d) :
          x \in ChunkId /\ x \notin {u} \X upload[u].todo
    BY ChunksAreIds DEF ChunksOf
  <2> QED BY <2>1, <2>2, <2>3, <2>4, NoAnswer DEF At
<1>6. ASSUME NEW u \in Upload, GetCollections(u) \/ CreateCollection(u)
      PROVE  AnswerInv'
  BY <1>6, GetCollectionsMoves, CreateCollectionMoves, QuietAnswer
  DEF GetCollections, CreateCollection, Keeps, At
<1>7. ASSUME NEW u \in Upload, IndexChunk(u) \/ UpsertFails(u)
      PROVE  AnswerInv'
  BY <1>7, IndexMoves, QuietAnswer DEF IndexChunk, UpsertFails, At
<1>8. ASSUME NEW u \in Upload, Die(u)
      PROVE  AnswerInv'
  BY <1>8, DieMoves, QuietAnswer DEF Die, Ended, Keeps, At
<1>9. ASSUME NEW u \in Upload, CommitMarks(u)
      PROVE  AnswerInv'
  <2>1. /\ Moves(u) /\ document' = document
        /\ upload[u].pc = "index" /\ upload'[u].pc = "marked"
    BY <1>9, CommitMarksMoves DEF CommitMarks, Keeps, At
  <2>2. \A d \in Upload \ {u} : \A x \in ChunksOf(d) :
          x \in ChunkId /\ x \notin ChunksOf(u)
    BY ChunksAreIds DEF ChunksOf
  <2>3. \A d \in Upload \ {u} : \A x \in ChunksOf(d) : chunk'[x] = chunk[x]
    BY <1>9, <2>2 DEF CommitMarks
  <2> QED BY <2>1, <2>3, NoAnswer DEF At
<1> QED
  BY <1>1, <1>2, <1>3, <1>4, <1>5, <1>6, <1>7, <1>8, <1>9, CreatedAnswer
  DEF Next, UploadStep, ReaderEnsures, store, vars

THEOREM AnswersInvariant == Spec => []AnswerInv
BY DocumentsTyped, Uniqueness, MarksInvariant, InitAnswer, StepAnswer, PTL DEF Spec

\* What POST /documents answered stays true whatever other requests do later:
\* vector_status of a 201, and the document named by a 409.
THEOREM AnswersStayTrue == Spec => []AnswersAreTrue
BY AnswersInvariant, PTL DEF AnswerInv

-----------------------------------------------------------------------------
(* The uploads implement Catalogue: each step of Spec is a step of it or a   *)
(* stutter, as long as a request has no marked row before its second commit  *)
(* and no content before it is posted.                                       *)

Past(u) == upload[u].pc \in {"marked", "created", "error"}

Fresh ==
    \A u \in Upload :
        /\ At(u, "none") => upload[u].content = Null
        /\ ~Past(u) => \A p \in Part : chunk[<<u, p>>] \notin {"INDEXED", "FAILED"}

LEMMA InitFresh == Init => Fresh
<1>1. Null \notin {"INDEXED", "FAILED"}
  BY DocumentsAssumption DEF VectorStatus
<1> QED BY <1>1 DEF Init, Fresh, At, ChunkId

\* Every step but the commits.
LEMMA QuietFresh ==
    ASSUME Fresh, NEW u \in Upload, Moves(u), UNCHANGED chunk,
           upload'[u].pc # "none", Past(u) => Past(u)'
    PROVE  Fresh'
BY DEF Fresh, Moves, Past, At

LEMMA StepFresh == Typed /\ UniqueInv /\ Fresh /\ [Next]_vars => Fresh'
<1> SUFFICES ASSUME Typed, UniqueInv, Fresh, [Next]_vars PROVE Fresh'
  OBVIOUS
<1>1. CASE UNCHANGED <<chunk, upload>>
  BY <1>1 DEF Fresh, Past, At
<1>2. ASSUME NEW u \in Upload, NEW c \in Content, Post(u, c)
      PROVE  Fresh'
  BY <1>2, PostMoves, QuietFresh DEF store, Post, Past, At
<1>3. ASSUME NEW u \in Upload, FindByContentHash(u) \/ Insert(u)
      PROVE  Fresh'
  <2>1. /\ Moves(u) /\ UNCHANGED chunk /\ upload[u].pc \in {"check", "insert"}
        /\ upload'[u].pc \in {"insert", "duplicate", "error", "commit"}
    BY <1>3, CheckMoves, InsertMoves DEF store, FindByContentHash, Insert, At
  <2> QED BY <2>1, QuietFresh DEF Past
<1>4. ASSUME NEW u \in Upload, CommitDocument(u)
      PROVE  Fresh'
  <2>1. /\ Moves(u) /\ upload'[u].pc = "collections" /\ upload[u].pc = "commit"
    BY <1>4, CommitDocumentMoves DEF Keeps, CommitDocument, At
  <2>2. \A x \in ChunkId : chunk'[x] = "PENDING" \/ chunk'[x] = chunk[x]
    BY <1>4 DEF CommitDocument
  <2> QED BY <2>1, <2>2 DEF Fresh, Moves, Past, At, ChunkId
<1>5. ASSUME NEW u \in Upload, GetCollections(u) \/ CreateCollection(u)
      PROVE  Fresh'
  <2>1. /\ Moves(u) /\ UNCHANGED chunk /\ upload[u].pc \in {"collections", "create"}
        /\ upload'[u].pc \in {"index", "create", "error"}
    BY <1>5, GetCollectionsMoves, CreateCollectionMoves
    DEF Keeps, store, GetCollections, CreateCollection, At
  <2> QED BY <2>1, QuietFresh DEF Past
<1>6. ASSUME NEW u \in Upload, IndexChunk(u) \/ UpsertFails(u)
      PROVE  Fresh'
  <2>1. /\ Moves(u) /\ UNCHANGED chunk /\ upload'[u].pc = upload[u].pc
        /\ upload[u].pc = "index"
    BY <1>6, IndexMoves DEF store, IndexChunk, UpsertFails, At
  <2> QED BY <2>1, QuietFresh DEF Past
<1>7. ASSUME NEW u \in Upload, CommitMarks(u)
      PROVE  Fresh'
  <2>1. Moves(u) /\ upload'[u].pc = "marked"
    BY <1>7, CommitMarksMoves DEF Keeps
  <2>2. \A x \in ChunkId : x[1] # u => chunk'[x] = chunk[x]
    BY <1>7 DEF CommitMarks, ChunksOf
  <2>3. \A d \in Upload \ {u}, p \in Part : chunk'[<<d, p>>] = chunk[<<d, p>>]
    BY <2>2 DEF ChunkId
  <2> QED BY <2>1, <2>3 DEF Fresh, Moves, Past, At
<1>8. ASSUME NEW u \in Upload, Answer(u) \/ Die(u)
      PROVE  Fresh'
  <2>1. Moves(u) /\ UNCHANGED chunk /\ upload'[u].pc \in {"created", "error"}
    BY <1>8, AnswerMoves, DieMoves DEF Keeps, store
  <2> QED BY <2>1, QuietFresh DEF Past
<1> QED
  BY <1>1, <1>2, <1>3, <1>4, <1>5, <1>6, <1>7, <1>8
  DEF Next, UploadStep, ReaderEnsures, store, vars

\* The abstract variables, as the refinement mapping gives them.
askedBy == [u \in Upload |-> upload[u].content]
onRecord == {<<u, document[u]>> : u \in {d \in Upload : document[d] # Null}}
shownAs(status) == {x \in ChunkId : chunk[x] = status}
told == [u \in Upload |-> Told(u)]

catalogue ==
    <<askedBy, onRecord, points, <<shownAs("INDEXED"), shownAs("FAILED")>>, told>>

LEMMA InitPromised == Init => Promised!Init
<1>1. Null \notin {"INDEXED", "FAILED"}
  BY DocumentsAssumption DEF VectorStatus
<1> QED BY <1>1 DEF Init, Promised!Init, Told

\* What a step of u that keeps its content does to the mapped variables.
LEMMA Mapped ==
    ASSUME Typed, NEW u \in Upload, Moves(u),
           upload'[u].content = upload[u].content
    PROVE  /\ askedBy' = askedBy
           /\ told' = [told EXCEPT ![u] = Told(u)']
<1>1. \A d \in Upload : upload'[d].content = upload[d].content
  BY DEF Moves
<1>2. \A d \in Upload \ {u} : Told(d)' = Told(d)
  BY DEF Moves, Told
<1> QED BY <1>1, <1>2 DEF askedBy, told

LEMMA MappedStore ==
    ASSUME UNCHANGED store
    PROVE  /\ onRecord' = onRecord
           /\ \A status : shownAs(status)' = shownAs(status)
BY DEF store, onRecord, shownAs

\* A step before the answer, or one that gives it: a stutter, or Fail.
LEMMA StutterOrFail ==
    ASSUME Typed, NEW u \in Upload, Moves(u), UNCHANGED <<store, points>>,
           upload'[u].content = upload[u].content,
           ~At(u, "none"), ~Ended(u),
           ~Ended(u)' \/ At(u, "error")'
    PROVE  [Promised!Next]_catalogue
<1>1. /\ askedBy' = askedBy /\ told' = [told EXCEPT ![u] = Told(u)']
      /\ onRecord' = onRecord /\ points' = points
      /\ shownAs("INDEXED")' = shownAs("INDEXED")
      /\ shownAs("FAILED")' = shownAs("FAILED")
  BY Mapped, MappedStore
<1>2. Told(u) = "none" /\ told[u] = "none"
  BY DEF Told, told, Ended
<1>3. CASE ~Ended(u)'
  <2>1. Told(u)' = "none"
    BY <1>3 DEF Told, Ended
  <2>2. told' = told
    BY <1>1, <1>2, <2>1 DEF told
  <2> QED BY <1>1, <2>2 DEF catalogue
<1>4. CASE At(u, "error")'
  <2>1. Told(u)' = "error"
    BY <1>4 DEF Told, At
  <2>2. askedBy[u] # Null
    BY DocumentsAssumption DEF Typed, Supplied, askedBy
  <2>3. Promised!Fail(u)
    BY <1>1, <1>2, <2>1, <2>2
    DEF Promised!Fail, Promised!Waits, Promised!Answer, Promised!shown,
        askedBy, onRecord, shownAs, told
  <2> QED BY <2>3 DEF Promised!Next
<1> QED BY <1>3, <1>4

LEMMA StepPromised ==
    Typed /\ UniqueInv /\ ChunkInv /\ MarkInv /\ Fresh /\ [Next]_vars
      => [Promised!Next]_catalogue
<1> SUFFICES ASSUME Typed, UniqueInv, ChunkInv, MarkInv, Fresh, [Next]_vars
             PROVE  [Promised!Next]_catalogue
  OBVIOUS
<1>1. CASE UNCHANGED <<document, chunk, points, upload>>
  BY <1>1 DEF catalogue, askedBy, onRecord, shownAs, told, Told
<1>2. ASSUME NEW u \in Upload, NEW c \in Content, Post(u, c)
      PROVE  [Promised!Next]_catalogue
  <2>1. /\ At(u, "none") /\ upload'[u].pc = "check" /\ UNCHANGED <<store, points>>
        /\ Moves(u) /\ upload'[u].content = c
    <3>1. upload'[u] = [upload[u] EXCEPT !.pc = "check", !.content = c]
      BY <1>2 DEF Post, SetUpload, Typed, DocumentsTypeOK
    <3>2. upload[u] \in UploadState
      BY DEF Typed, DocumentsTypeOK
    <3> QED BY <1>2, <3>1, <3>2, PostMoves DEF Post, UploadState, qdrant
  <2>2. askedBy[u] = Null /\ askedBy' = [askedBy EXCEPT ![u] = c]
    BY <2>1 DEF Fresh, askedBy, Moves
  <2>3. Told(u)' = "none" /\ Told(u) = "none"
    BY <2>1 DEF Told, At
  <2>4. told' = told
    BY <2>1, <2>3 DEF told, Told, Moves
  <2>5. Promised!Ask(u, c)
    BY <2>1, <2>2, <2>4, MappedStore
    DEF Promised!Ask, Promised!shown, askedBy, onRecord, shownAs, told
  <2> QED BY <2>5 DEF Promised!Next
<1>3. ASSUME NEW u \in Upload, FindByContentHash(u)
      PROVE  [Promised!Next]_catalogue
  <2>1. /\ At(u, "check") /\ Moves(u) /\ UNCHANGED <<store, points>>
        /\ upload'[u].content = upload[u].content
        /\ \/ upload'[u].pc = "insert"
           \/ /\ upload'[u].pc = "duplicate"
              /\ upload'[u].existing \in Upload
              /\ document[upload'[u].existing] = upload[u].content
    BY <1>3, CheckMoves DEF FindByContentHash, qdrant
  <2>2. CASE upload'[u].pc = "insert"
    BY <2>1, <2>2, StutterOrFail DEF Ended, At
  <2>3. CASE upload'[u].pc = "duplicate"
    <3> DEFINE d == upload'[u].existing
               c == upload[u].content
    <3>1. c \in Content /\ c # Null
      BY <2>1, DocumentsAssumption DEF Typed, Supplied, At
    <3>2. document[d] = c /\ d \in Upload
      BY <2>1, <2>3
    <3>3. d # u
      BY <2>1, <3>1, <3>2 DEF UniqueInv, StoredByPast, Committed, At
    <3>4. askedBy[u] = c /\ <<d, c>> \in onRecord /\ d \in Upload \ {u}
      BY <3>1, <3>2, <3>3 DEF askedBy, onRecord
    <3>5. Told(u) = "none" /\ Told(u)' = "duplicate" /\ told[u] = "none"
      BY <2>1, <2>3 DEF Told, At, told
    <3> HIDE DEF d, c
    <3>6. Promised!Refuse(u)
      BY <2>1, <3>1, <3>4, <3>5, Mapped, MappedStore
      DEF Promised!Refuse, Promised!Waits, Promised!Answer, Promised!shown,
          askedBy, onRecord, shownAs, told
    <3> QED BY <3>6 DEF Promised!Next
  <2> QED BY <2>1, <2>2, <2>3
<1>4. ASSUME NEW u \in Upload, Insert(u)
      PROVE  [Promised!Next]_catalogue
  <2>1. /\ At(u, "insert") /\ Moves(u) /\ UNCHANGED <<store, points>>
        /\ upload'[u].content = upload[u].content
        /\ upload'[u].pc \in {"error", "commit"}
    BY <1>4, InsertMoves DEF Insert, qdrant
  <2> QED BY <2>1, StutterOrFail DEF Ended, At
<1>5. ASSUME NEW u \in Upload, CommitDocument(u)
      PROVE  [Promised!Next]_catalogue
  <2> DEFINE c == upload[u].content
  <2>1. /\ At(u, "commit") /\ Moves(u) /\ upload'[u].content = c
        /\ upload'[u].pc = "collections"
        /\ document' = [document EXCEPT ![u] = c] /\ points' = points
        /\ \A x \in ChunkId :
             chunk'[x] = IF x \in {u} \X upload[u].todo THEN "PENDING" ELSE chunk[x]
    BY <1>5, CommitDocumentMoves DEF CommitDocument, Keeps, qdrant
  <2>2. /\ c \in Content /\ c # Null /\ document \in [Upload -> Content \cup {Null}]
        /\ \A d \in Upload : document[d] # c
    BY <2>1, DocumentsAssumption
    DEF Typed, Supplied, DocumentsTypeOK, UniqueInv, InsertedAlone, At
  <2>3. document[u] = Null
    BY <2>1, <2>2 DEF UniqueInv, StoredByPast, Committed, At
  <2>4. onRecord' = onRecord \cup {<<u, c>>}
    <3>1. \A d \in Upload : document'[d] = IF d = u THEN c ELSE document[d]
      BY <2>1, <2>2
    <3> HIDE DEF c
    <3> QED BY <2>2, <2>3, <3>1 DEF onRecord
  <2>5. /\ shownAs("INDEXED")' = shownAs("INDEXED")
        /\ shownAs("FAILED")' = shownAs("FAILED")
    <3>1. \A x \in ChunkId : x \in {u} \X upload[u].todo =>
            chunk[x] \notin {"INDEXED", "FAILED"}
      BY <2>1 DEF Fresh, Past, At, ChunkId
    <3> QED BY <2>1, <3>1 DEF shownAs
  <2>6. Told(u) = "none" /\ Told(u)' = "none" /\ told[u] = "none"
    BY <2>1 DEF Told, At, told
  <2>7. askedBy' = askedBy /\ told' = told /\ askedBy[u] = c
    BY <2>1, <2>6, Mapped DEF told, askedBy
  <2>8. \A d \in Upload : <<d, c>> \notin onRecord
    BY <2>2 DEF onRecord
  <2> HIDE DEF c
  <2>9. Promised!TakeIn(u)
    BY <2>1, <2>2, <2>4, <2>5, <2>6, <2>7, <2>8
    DEF Promised!TakeIn, Promised!Waits, Promised!shown,
        askedBy, onRecord, shownAs, told
  <2> QED BY <2>9 DEF Promised!Next
<1>6. ASSUME NEW u \in Upload, GetCollections(u) \/ CreateCollection(u)
      PROVE  [Promised!Next]_catalogue
  <2>1. /\ At(u, "collections") \/ At(u, "create")
        /\ Moves(u) /\ UNCHANGED <<store, points>>
        /\ upload'[u].content = upload[u].content
        /\ upload'[u].pc \in {"index", "create", "error"}
    BY <1>6, GetCollectionsMoves, CreateCollectionMoves
    DEF Keeps, GetCollections, CreateCollection, qdrant
  <2> QED BY <2>1, StutterOrFail DEF Ended, At
<1>7. ASSUME NEW u \in Upload, IndexChunk(u) \/ UpsertFails(u)
      PROVE  [Promised!Next]_catalogue
  <2> DEFINE c == upload[u].content
  <2>1. PICK p \in upload[u].todo :
          /\ At(u, "index") /\ p \in Part /\ Moves(u) /\ UNCHANGED store
          /\ upload'[u].content = c
          /\ upload'[u].pc = upload[u].pc
          /\ points' = points \cup {<<u, p>>} \/ points' = points
    BY <1>7, IndexMoves DEF IndexChunk, UpsertFails
  <2>2. CASE points' = points
    BY <2>1, <2>2, StutterOrFail DEF Ended, At
  <2>3. CASE points' = points \cup {<<u, p>>}
    <3>1. c \in Content /\ c # Null /\ p \in PartsOf[c]
      BY <2>1, DocumentsAssumption DEF Typed, Supplied, ChunkInv, ToIndex, At
    <3>2. askedBy[u] = c /\ <<u, c>> \in onRecord
      BY <2>1, <3>1 DEF askedBy, onRecord, UniqueInv, PastHasStored, Committed, At
    <3>3. Told(u) = "none" /\ Told(u)' = "none" /\ told[u] = "none"
      BY <2>1 DEF Told, At, told
    <3>4. askedBy' = askedBy /\ told' = told
      BY <2>1, <3>3, Mapped DEF told
    <3> HIDE DEF c
    <3>5. Promised!Show(u, p)
      BY <2>1, <2>3, <3>1, <3>2, <3>3, <3>4, MappedStore
      DEF Promised!Show, Promised!TakenIn, Promised!Waits, Promised!shown,
          askedBy, onRecord, shownAs, told
    <3> QED BY <2>1, <3>5 DEF Promised!Next
  <2> QED BY <2>1, <2>2, <2>3
<1>8. ASSUME NEW u \in Upload, CommitMarks(u)
      PROVE  [Promised!Next]_catalogue
  <2> DEFINE c == upload[u].content
             ps == {p \in PartsOf[c] : upload[u].mark[p] = "INDEXED"}
  <2>1. /\ At(u, "index") /\ Moves(u) /\ upload'[u].content = c
        /\ upload'[u].pc = "marked" /\ document' = document /\ points' = points
        /\ upload[u].todo = {}
        /\ \A x \in ChunkId :
             chunk'[x] = IF x \in ChunksOf(u) THEN upload[u].mark[x[2]] ELSE chunk[x]
    BY <1>8, CommitMarksMoves DEF CommitMarks, Keeps, qdrant
  <2>2. c \in Content /\ c # Null /\ PartsOf[c] \subseteq Part
    BY <2>1, DocumentsAssumption DEF Typed, Supplied, At
  <2>3. document[u] = c /\ ChunksOf(u) = {u} \X PartsOf[c]
    BY <2>1, <2>2 DEF UniqueInv, PastHasStored, Committed, At, ChunksOf
  <2>4. onRecord' = onRecord /\ <<u, c>> \in onRecord
    BY <2>1, <2>2, <2>3 DEF onRecord
  <2>5. \A p \in Part : chunk[<<u, p>>] \notin {"INDEXED", "FAILED"}
    BY <2>1 DEF Fresh, Past, At
  <2>6. ASSUME NEW status \in {"INDEXED", "FAILED"}
        PROVE  shownAs(status)' = shownAs(status)
                 \cup ({u} \X {p \in PartsOf[c] : upload[u].mark[p] = status})
    <3>1. \A x \in ChunkId : chunk[x] = status => x \notin ChunksOf(u)
      BY <2>2, <2>3, <2>5 DEF ChunkId
    <3>2. {u} \X PartsOf[c] \subseteq ChunkId
      BY <2>2 DEF ChunkId
    <3>3. \A x \in ChunkId :
            x \in {u} \X {p \in PartsOf[c] : upload[u].mark[p] = status} <=>
              x \in ChunksOf(u) /\ upload[u].mark[x[2]] = status
      BY <2>3 DEF ChunkId
    <3> HIDE DEF c
    <3> QED BY <2>1, <3>1, <3>2, <3>3 DEF shownAs
  <2>7. {p \in PartsOf[c] : upload[u].mark[p] = "FAILED"} = PartsOf[c] \ ps
    BY <2>1 DEF MarkInv, Attended
  <2>8. /\ shownAs("INDEXED")' = shownAs("INDEXED") \cup ({u} \X ps)
        /\ shownAs("FAILED")' = shownAs("FAILED") \cup ({u} \X (PartsOf[c] \ ps))
    BY <2>6, <2>7
  <2>9. {u} \X ps \subseteq points
    BY <2>2 DEF ChunkInv, MarkedHasPoint
  <2>10. \A p \in Part : <<u, p>> \notin shownAs("INDEXED") \cup shownAs("FAILED")
    BY <2>5 DEF shownAs
  <2>11. Told(u) = "none" /\ Told(u)' = "none" /\ told[u] = "none"
    BY <2>1 DEF Told, At, told
  <2>12. askedBy' = askedBy /\ askedBy[u] = c /\ told' = told
    BY <2>1, <2>11, Mapped DEF askedBy, told
  <2>13. ps \in SUBSET Part /\ ps \subseteq PartsOf[c]
    BY <2>2
  <2> HIDE DEF c, ps
  <2>14. PICK q \in SUBSET Part : q = ps
    BY <2>13
  <2>15. Promised!Settle(u, q)
    BY <2>1, <2>2, <2>4, <2>8, <2>9, <2>10, <2>11, <2>12, <2>13, <2>14
    DEF Promised!Settle, Promised!TakenIn, Promised!Waits, Promised!shown,
        askedBy, onRecord, shownAs, told
  <2> QED BY <2>15 DEF Promised!Next
<1>9. ASSUME NEW u \in Upload, Answer(u)
      PROVE  [Promised!Next]_catalogue
  <2> DEFINE c == upload[u].content
  <2>1. /\ At(u, "marked") /\ Moves(u) /\ UNCHANGED <<store, points>>
        /\ upload'[u].content = c /\ upload'[u].pc = "created"
    BY <1>9, AnswerMoves DEF Answer, qdrant
  <2>2. c \in Content /\ c # Null /\ PartsOf[c] \subseteq Part
    BY <2>1, DocumentsAssumption DEF Typed, Supplied, At
  <2>3. askedBy[u] = c /\ <<u, c>> \in onRecord
    BY <2>1, <2>2 DEF askedBy, onRecord, UniqueInv, PastHasStored, Committed, At
  <2>4. {u} \X PartsOf[c] \subseteq shownAs("INDEXED") \cup shownAs("FAILED")
    <3>1. \A p \in PartsOf[c] :
            <<u, p>> \in ChunkId /\ chunk[<<u, p>>] \in {"INDEXED", "FAILED"}
      BY <2>1, <2>2 DEF MarkInv, Settled, ChunkId
    <3> HIDE DEF c
    <3> QED BY <3>1 DEF shownAs
  <2>5. Told(u) = "none" /\ Told(u)' = "created" /\ told[u] = "none"
    BY <2>1 DEF Told, At, told
  <2>6. askedBy' = askedBy /\ told' = [told EXCEPT ![u] = "created"]
    BY <2>1, <2>5, Mapped
  <2> HIDE DEF c
  <2>7. Promised!Create(u)
    BY <2>1, <2>2, <2>3, <2>4, <2>5, <2>6, MappedStore
    DEF Promised!Create, Promised!TakenIn, Promised!Waits, Promised!Answer,
        Promised!shown, askedBy, onRecord, shownAs, told
  <2> QED BY <2>7 DEF Promised!Next
<1>10. ASSUME NEW u \in Upload, Die(u)
       PROVE  [Promised!Next]_catalogue
  <2>1. /\ ~Ended(u) /\ ~At(u, "none") /\ Moves(u) /\ UNCHANGED <<store, points>>
        /\ upload'[u].content = upload[u].content
        /\ upload'[u].pc = "error"
    BY <1>10, DieMoves DEF Keeps, Die, qdrant
  <2> QED BY <2>1, StutterOrFail DEF Ended, At
<1>11. CASE UNCHANGED vars \/ ReaderEnsures
  BY <1>1, <1>11 DEF vars, store, ReaderEnsures
<1>12. ASSUME NEW u \in Upload, (\E c \in Content : Post(u, c)) \/ UploadStep(u) \/ Die(u)
       PROVE  [Promised!Next]_catalogue
  <2> HIDE DEF catalogue
  <2> QED BY <1>2, <1>3, <1>4, <1>5, <1>6, <1>7, <1>8, <1>9, <1>10, <1>12
      DEF UploadStep
<1> QED BY <1>11, <1>12 DEF Next

\* POST /documents is an atomic put-if-absent whose chunks' statuses appear at
\* once and before the 201, INDEXED only for chunks that searches may find,
\* whatever requests overlap, calls fail and processes die.
THEOREM UploadsKeepCatalogue == Spec => KeepsCatalogue
<1>1. Spec => []Fresh
  BY DocumentsTyped, Uniqueness, InitFresh, StepFresh, PTL DEF Spec
<1>2. Init => Promised!Init
  BY InitPromised
<1>3. Typed /\ UniqueInv /\ ChunkInv /\ MarkInv /\ Fresh /\ [Next]_vars
        => [Promised!Next]_<<[u \in Upload |-> upload[u].content],
                             {<<u, document[u]>> : u \in {d \in Upload : document[d] # Null}},
                             points,
                             <<{x \in ChunkId : chunk[x] = "INDEXED"},
                               {x \in ChunkId : chunk[x] = "FAILED"}>>,
                             [u \in Upload |-> Told(u)]>>
  BY StepPromised DEF catalogue, askedBy, onRecord, shownAs, told
<1> QED
  BY <1>1, <1>2, <1>3, DocumentsTyped, Uniqueness, ChunksInvariant, MarksInvariant,
     PTL
  DEF Spec, KeepsCatalogue, Promised!Spec, Promised!shown

=============================================================================
