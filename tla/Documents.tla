----------------------------- MODULE Documents -----------------------------
(***************************************************************************)
(* POST /documents: app/services/document_service.py creates the document  *)
(* and its chunks in PostgreSQL and commits, then                          *)
(* app/services/chunk_embedding_service.py embeds each chunk, upserts it   *)
(* into Qdrant and marks it, a second commit publishes the marks, and the  *)
(* document is read back for the 201.                                      *)
(*                                                                         *)
(* A row inserted and not yet committed is invisible to others, but the    *)
(* unique index on content_hash makes a second insert of it wait.  Qdrant  *)
(* has no transactions: every call takes effect at once, fails, or takes   *)
(* effect although its answer is lost.                                     *)
(***************************************************************************)
EXTENDS FiniteSets, Naturals

CONSTANTS
    Upload,     \* requests; a document has the id of the request that made it
    Content,    \* document contents, told apart by content_hash
    Part,       \* chunk indexes
    PartsOf,    \* the chunks ChunkingService.split makes of a content
    Faults,     \* what may go wrong: "qdrant" (a call fails), "crash"
    Null

VectorStatus == {"PENDING", "INDEXED", "FAILED"}

ASSUME DocumentsAssumption ==
    /\ PartsOf \in [Content -> SUBSET Part]
    /\ IsFiniteSet(Part)
    /\ Faults \subseteq {"qdrant", "crash"}
    /\ Null \notin Content \cup Upload \cup VectorStatus

VARIABLES
    document,   \* the content of each committed document row
    chunk,      \* vector_status of each committed document_chunk row
    collection, \* whether Qdrant has the collection
    points,     \* the ids of the points in it
    upload      \* the requests

vars == <<document, chunk, collection, points, upload>>
store == <<document, chunk>>
qdrant == <<collection, points>>

-----------------------------------------------------------------------------

ChunkId == Upload \X Part
\* todo and mark are the chunks yet to index and the uncommitted statuses;
\* answer is the vector_status of a 201, existing the document of a 409.
UploadState ==
    [pc : {"none", "check", "insert", "commit", "collections", "create",
           "index", "marked", "created", "duplicate", "error"},
     content : Content \cup {Null}, todo : SUBSET Part,
     mark : [Part -> VectorStatus],
     answer : VectorStatus \cup {Null}, existing : Upload \cup {Null}]

DocumentsTypeOK ==
    /\ document \in [Upload -> Content \cup {Null}]
    /\ chunk \in [ChunkId -> VectorStatus \cup {Null}]
    /\ collection \in BOOLEAN
    /\ points \in SUBSET ChunkId
    /\ upload \in [Upload -> UploadState]

Unmarked == [p \in Part |-> "PENDING"]

Init ==
    /\ document = [u \in Upload |-> Null]
    /\ chunk = [x \in ChunkId |-> Null]
    /\ collection \in BOOLEAN
    /\ points = {}
    /\ upload = [u \in Upload |-> [pc |-> "none", content |-> Null, todo |-> {},
                                   mark |-> Unmarked, answer |-> Null,
                                   existing |-> Null]]

At(u, pc) == upload[u].pc = pc
SetUpload(u, r) == upload' = [upload EXCEPT ![u] = r]
Goto(u, pc) == SetUpload(u, [upload[u] EXCEPT !.pc = pc])

ChunksOf(u) == IF document[u] = Null THEN {} ELSE {u} \X PartsOf[document[u]]

-----------------------------------------------------------------------------
(* The document and its chunks. *)

Post(u, c) ==
    /\ At(u, "none")
    /\ SetUpload(u, [upload[u] EXCEPT !.pc = "check", !.content = c])
    /\ UNCHANGED <<store, qdrant>>

\* find_by_content_hash, and 409 if there is one.
FindByContentHash(u) ==
    /\ At(u, "check")
    /\ \/ \E d \in Upload :
            /\ document[d] = upload[u].content
            /\ SetUpload(u, [upload[u] EXCEPT !.pc = "duplicate", !.existing = d])
       \/ /\ \A d \in Upload : document[d] # upload[u].content
          /\ Goto(u, "insert")
    /\ UNCHANGED <<store, qdrant>>

\* Mutants of Insert: the column has no unique index; a request that meets a
\* committed duplicate waits on.
InsertUnindexed(u) ==
    /\ At(u, "insert")
    /\ SetUpload(u, [upload[u] EXCEPT !.pc = "commit",
                                      !.todo = PartsOf[upload[u].content]])
    /\ UNCHANGED <<store, qdrant>>

InsertWaits(u) ==
    /\ At(u, "insert")
    /\ \A d \in Upload \ {u} :
         At(d, "commit") => upload[d].content # upload[u].content
    /\ \A d \in Upload : document[d] # upload[u].content
    /\ SetUpload(u, [upload[u] EXCEPT !.pc = "commit",
                                      !.todo = PartsOf[upload[u].content]])
    /\ UNCHANGED <<store, qdrant>>

\* The INSERTs of the document and of its chunks are flushed.  The first waits
\* for a request that has inserted the same hash; if that one commits, it raises
\* IntegrityError, which nothing handles: 500.
Insert(u) ==
    /\ At(u, "insert")
    /\ \A d \in Upload \ {u} :
         At(d, "commit") => upload[d].content # upload[u].content
    /\ IF \E d \in Upload : document[d] = upload[u].content
       THEN Goto(u, "error")
       ELSE SetUpload(u, [upload[u] EXCEPT !.pc = "commit",
                                           !.todo = PartsOf[upload[u].content]])
    /\ UNCHANGED <<store, qdrant>>

\* Mutant of CommitDocument: one commit, after the indexing.
CommitDocumentLater(u) ==
    /\ At(u, "commit")
    /\ Goto(u, "collections")
    /\ UNCHANGED <<store, qdrant>>

\* The commit before Qdrant is talked to.
CommitDocument(u) ==
    /\ At(u, "commit")
    /\ document' = [document EXCEPT ![u] = upload[u].content]
    /\ chunk' = [x \in ChunkId |->
                   IF x \in {u} \X upload[u].todo THEN "PENDING" ELSE chunk[x]]
    /\ Goto(u, "collections")
    /\ UNCHANGED qdrant

-----------------------------------------------------------------------------
(* QdrantRepository.ensure_collection, once per request (_ensured).  An       *)
(* exception of it is handled nowhere: 500, with the chunks left PENDING.    *)

GetCollections(u) ==
    /\ At(u, "collections")
    /\ \/ Goto(u, IF collection THEN "index" ELSE "create")
       \/ "qdrant" \in Faults /\ Goto(u, "error")
    /\ UNCHANGED <<store, qdrant>>

\* Qdrant refuses to create a collection that exists by now.
CreateCollection(u) ==
    /\ At(u, "create")
    /\ \/ /\ ~collection
          /\ collection' = TRUE
          /\ \/ Goto(u, "index")
             \/ "qdrant" \in Faults /\ Goto(u, "error")
       \/ /\ collection \/ "qdrant" \in Faults
          /\ Goto(u, "error")
          /\ UNCHANGED collection
    /\ UNCHANGED <<store, points>>

\* QdrantRepository.search, of POST /qa, ensures the collection as well.
ReaderEnsures ==
    /\ ~collection
    /\ collection' = TRUE
    /\ UNCHANGED <<store, points, upload>>

-----------------------------------------------------------------------------
(* ChunkEmbeddingService.index_document_chunks. *)

Mark(u, p, status) ==
    SetUpload(u, [upload[u] EXCEPT !.todo = @ \ {p}, !.mark[p] = status])

\* Mutant of IndexChunk: a commit per chunk, so that GET shows some chunks as
\* INDEXED while others are PENDING.
IndexChunkCommits(u) ==
    /\ At(u, "index")
    /\ \E p \in upload[u].todo :
         /\ points' = points \cup {<<u, p>>}
         /\ Mark(u, p, "INDEXED")
         /\ chunk' = [chunk EXCEPT ![<<u, p>>] = "INDEXED"]
    /\ UNCHANGED <<document, collection>>

\* upsert_point, then mark_status in this request's second transaction.
IndexChunk(u) ==
    /\ At(u, "index")
    /\ \E p \in upload[u].todo :
         /\ points' = points \cup {<<u, p>>}
         /\ \/ Mark(u, p, "INDEXED")
            \/ "qdrant" \in Faults /\ Mark(u, p, "FAILED")
    /\ UNCHANGED <<store, collection>>

\* Mutant of UpsertFails: a status the column's CHECK does not know.
UpsertFailsAsError(u) ==
    /\ At(u, "index") /\ "qdrant" \in Faults
    /\ \E p \in upload[u].todo : Mark(u, p, "ERROR")
    /\ UNCHANGED <<store, qdrant>>

\* The call raises without effect: the chunk is FAILED and the loop goes on.
UpsertFails(u) ==
    /\ At(u, "index") /\ "qdrant" \in Faults
    /\ \E p \in upload[u].todo : Mark(u, p, "FAILED")
    /\ UNCHANGED <<store, qdrant>>

\* Mutant of Aggregate: one indexed chunk is enough.
AggregateLenient(total, indexed, failed) ==
    IF total = 0 THEN "PENDING"
    ELSE IF indexed > 0 THEN "INDEXED"
    ELSE IF failed > 0 THEN "FAILED"
    ELSE "PENDING"

\* ChunkIndexingResult.aggregate_status, of the counts of the loop.
Aggregate(total, indexed, failed) ==
    IF total = 0 THEN "PENDING"
    ELSE IF failed > 0 THEN "FAILED"
    ELSE IF indexed = total THEN "INDEXED"
    ELSE "PENDING"

Marked(u, status) ==
    Cardinality({p \in PartsOf[upload[u].content] : upload[u].mark[p] = status})

\* The second commit.
CommitMarks(u) ==
    /\ At(u, "index") /\ upload[u].todo = {}
    /\ chunk' = [x \in ChunkId |->
                   IF x \in ChunksOf(u) THEN upload[u].mark[x[2]] ELSE chunk[x]]
    /\ Goto(u, "marked")
    /\ UNCHANGED <<document, qdrant>>

\* The document is refreshed, and 201.
Answer(u) ==
    /\ At(u, "marked")
    /\ SetUpload(u, [upload[u] EXCEPT !.pc = "created",
            !.answer = Aggregate(Cardinality(PartsOf[upload[u].content]),
                                 Marked(u, "INDEXED"), Marked(u, "FAILED"))])
    /\ UNCHANGED <<store, qdrant>>

Ended(u) == upload[u].pc \in {"created", "duplicate", "error"}

\* The process dies or PostgreSQL fails the request, also in the refresh before
\* the 201: what is not committed is rolled back, what Qdrant has stays.
Die(u) ==
    /\ "crash" \in Faults
    /\ ~Ended(u) /\ ~At(u, "none")
    /\ Goto(u, "error")
    /\ UNCHANGED <<store, qdrant>>

-----------------------------------------------------------------------------

UploadStep(u) ==
    \/ FindByContentHash(u)
    \/ Insert(u)
    \/ CommitDocument(u)
    \/ GetCollections(u)
    \/ CreateCollection(u)
    \/ IndexChunk(u)
    \/ UpsertFails(u)
    \/ CommitMarks(u)
    \/ Answer(u)

Next ==
    \/ \E u \in Upload : (\E c \in Content : Post(u, c)) \/ UploadStep(u) \/ Die(u)
    \/ ReaderEnsures

Spec == Init /\ [][Next]_vars

\* A request that is being served goes on; nobody has to send or read anything.
FairSpec == Spec /\ \A u \in Upload : WF_vars(UploadStep(u))

-----------------------------------------------------------------------------

\* Contents are stored once, however many requests bring them at the same time:
\* the SELECT alone would let two of them through (create_document, and the
\* unique index of the document table).
OneDocumentPerContent ==
    \A d, e \in Upload : document[d] # Null /\ document[d] = document[e] => d = e

\* Searches can find all that GET shows as indexed, and nothing of a document
\* that is not on record: an INDEXED chunk has its point, and a point is of a
\* committed chunk, since the rows are committed before Qdrant is called - after
\* failed calls, lost answers and crashes too.
PointsMatchChunks ==
    /\ \A x \in ChunkId : chunk[x] = "INDEXED" => x \in points
    /\ \A x \in points : chunk[x] # Null

\* DocumentService.aggregate_status, which GET /documents/{id} answers with.
AggregateStatus(d) ==
    LET total == Cardinality(ChunksOf(d))
        count(status) == Cardinality({x \in ChunksOf(d) : chunk[x] = status})
    IN  IF total = 0 THEN "PENDING"
        ELSE IF count("FAILED") > 0 THEN "FAILED"
        ELSE IF count("INDEXED") = total THEN "INDEXED"
        ELSE "PENDING"

\* What POST /documents has answered stays true: a 201's vector_status, computed
\* from the counts of the loop, is what GET says of the rows from then on, and a
\* 409 names a document of this very content.
AnswersAreTrue ==
    \A u \in Upload :
        /\ At(u, "created") => /\ document[u] = upload[u].content
                               /\ upload[u].answer = AggregateStatus(u)
        /\ At(u, "duplicate") => document[upload[u].existing] = upload[u].content

\* Every request is answered, also one that waits for another's insert of the
\* same content.
UploadsEnd == \A u \in Upload : At(u, "check") ~> Ended(u)

-----------------------------------------------------------------------------
(* The abstract specification this one implements. *)

Told(u) == IF upload[u].pc \in {"created", "duplicate", "error"}
           THEN upload[u].pc ELSE "none"

Promised == INSTANCE Catalogue WITH
    Request <- Upload,
    asked   <- [u \in Upload |-> upload[u].content],
    held    <- {<<u, document[u]>> : u \in {d \in Upload : document[d] # Null}},
    found   <- points,
    indexed <- {x \in ChunkId : chunk[x] = "INDEXED"},
    failed  <- {x \in ChunkId : chunk[x] = "FAILED"},
    reply   <- [u \in Upload |-> Told(u)]

\* The SELECT, the unique index, two commits, Qdrant's faults and crashes keep
\* the promise of Catalogue.  Searches read Qdrant whatever vector_status says
\* (vector_retriever.py), so they may find a chunk as soon as it is upserted,
\* and one that is PENDING or FAILED; what GET shows of the chunks changes in
\* one step, and 201 follows it, unless the request dies in between.
KeepsCatalogue == Promised!Spec

-----------------------------------------------------------------------------
(* A statement of the documents that the code does not keep. *)

\* docs/11-implementation-plan.md:152: once the uploads have been served, every
\* chunk is INDEXED.
UploadsAreIndexed ==
    (\A u \in Upload : At(u, "none") \/ Ended(u)) =>
        \A d \in Upload : \A x \in ChunksOf(d) : chunk[x] = "INDEXED"

=============================================================================
