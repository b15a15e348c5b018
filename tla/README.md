# A TLA+ verification of OntologyPJT

OntologyPJT turns documents into a knowledge graph under an expert's control: a
document is split into chunks and embedded, a language model proposes entities and
relations for each chunk, experts review the proposals in staging tables, what they
approve is loaded into Neo4j, and questions are answered from the graph and the
chunks.  The specifications here are translated from `src/app`; paths below are
relative to `src/app` unless they begin with `src/` or `docs/`.

Contents: [inventory](#1-inventory-of-the-system), [modules](#2-the-modules),
[runs](#3-what-the-runs-check), [fairness](#4-fairness), [proofs](#5-what-is-proved),
[disagreements found](#6-where-code-and-documents-disagree),
[abstractions](#7-abstractions), [not modelled](#8-not-modelled), [what is left](#9-what-is-left).

## 1. Inventory of the system

FastAPI serves each request in a worker thread, with a SQLAlchemy session of its own
(`core/deps.py: get_db`) that is closed, and so rolled back, when the request raises.
PostgreSQL runs READ COMMITTED; no statement takes a row lock and no table has a
version column.  Neo4j and Qdrant are called inside the request; neither takes part in
the PostgreSQL transaction.  There is no queue and no background thread: everything
concurrent in this system is two requests, and everything that fails is a statement, a
call, or the process.

| component | state | operations | interacts with | hard behaviour |
|---|---|---|---|---|
| Review workflow (`services/review_service.py`) | `extracted_entity`, `extracted_relation`, `audit_log` | approve, reject, modify, merge of an entity and of a relation | may start a sync after an approval | two requests on the same rows between SELECT and COMMIT; an UPDATE carries only the columns that changed |
| Graph synchronisation (`services/graph_sync_service.py`) | `graph_sync_log`, Neo4j | `sync_all`, `sync_approved_entities`, `sync_approved_relations`; automatic sync | reads staging and the ontology, writes Neo4j | up to four separate Neo4j calls per row, failed calls, lost answers, process death between Neo4j's commit and PostgreSQL's, overlapping jobs |
| Extraction (`services/entity_relation_extraction_service.py`) | `extracted_entity`, `extracted_relation`, `audit_log` | extract a document or a chunk | calls the LLM, validates against the ontology, fills staging | registry and committed rows change while a run goes on; a per-chunk dict resolves names to keys |
| Ontology registry (`services/ontology_schema_service.py`) | `ontology_entity_type`, `ontology_relation_type` | create, update, deactivate; two validations | read by extraction, sync and retrieval | checked at one moment, used at another |
| Document ingestion (`services/document_service.py`, `services/chunk_embedding_service.py`) | `document`, `document_chunk`, the Qdrant collection | `POST /documents` | writes PostgreSQL, calls Qdrant | check-then-insert race, an insert that waits for another's, two commits with Qdrant calls in between |
| Question answering (`services/qa_service.py` and retrievers, builders) | `ai_query_log` | `POST /qa` | reads Neo4j, PostgreSQL, Qdrant; calls the LLM | each source may fail; the log must tell what was shown; budgets and limits at their boundaries |
| Connections and start-up (`main.py`, `db/*.py`, `core/deps.py`, `api/routes/health.py`) | lazily made engine, session factory, clients; Neo4j's constraints | lifespan with `ensure_schema`, `get_db`, `health`, the lazy getters, stop | used by all | threads initialise at once; a start that Neo4j refuses or does not answer; MERGE without its constraint |
| Migrations and seeds (`src/alembic`, `seeds/*.py`) | the tables, `alembic_version`, the seeded rows | upgrade, downgrade, both seeds | make the tables and the registry the others start from | two operators at once, a command that dies |
| Lists and logs (`GET` of candidates, audit, sync and query logs) | none | a page of a filtered, ordered list | read what the others write | OFFSET pages over rows that come and go |
| Chunking and embedding (`services/chunking_service.py`, `services/embedding_service.py`) | none | `split`, `embed` | used by ingestion, retrieval | cuts at boundaries |
| LLM providers (`integrations/llm/*.py`) | none | `extract`, `answer`, `extract_intent_entities` | external; the fake one is a table of rules | any answer, any exception; fixed rules that must fit the seeded registry |
| Configuration, logging, schemas | - | static | - | - |

What makes each component correct:

- **Review**: an APPROVED row has an approval in `audit_log`; an APPROVED relation's
  endpoints have been approved; the audit row tells what was stored; what is approved
  is what the expert saw.
- **Sync**: `graph_sync_log` tells the truth about Neo4j; edges come after their
  endpoints; nothing unapproved is in the graph; jobs end and approved rows get there.
- **Extraction**: keys of a relation stay in its chunk; nothing unregistered waits for
  review; one placeholder per name; the audit row counts what the commit published.
- **Ingestion**: a content is stored once; points and chunk rows agree; an answer once
  given stays true; every request is answered.
- **Start-up**: a session is on a live engine whichever threads made it; refusals are
  transient; one node per id, and both constraints after a start that reaches Neo4j.
- **Migrations, seeds**: the tables are those of one revision; seeded rows come once and
  together.
- **Lists**: who pages to the end has seen what was there, as far as OFFSET can promise it.
- **Chunking**: nothing but the white space between sentences is lost, nothing is
  repeated; no chunk is longer than twice `max_chars`.
- **Question answering**: the model is asked exactly when there is something to answer
  from; whoever is answered finds one log row that tells how; evidence and hits fill
  `top_k`; what the prompt shows of graph and chunks overruns the budget only by what
  the code grants.

`PROJECT.json` lists under "hazards" each place where one of these could go wrong in a
way tests hardly reach, with the properties that watch it.

## 2. The modules

```
Review ──────────► GraphSync ──implements──► GovernedGraph
   ▲ Init backed by    ▲
Extraction ◄─ Ontology │        Documents ◄─ Chunking        QA
                       │            │
                       │            └──implements──► Catalogue

MCPlatform: Service, Database, Listing, Chunking, FakeProvider side by side
```

`GraphSync` EXTENDS `Review` (its jobs run next to, and in automatic mode inside, review
requests), `Extraction` EXTENDS `Ontology`.  `Extraction` and `Review` meet at the staging
tables: `Review.Init` is what `Extraction` leaves behind, and `Extraction` lets reviews
happen to committed rows (`ReviewEntity`, coarser than `Review`'s steps).

**Review** - `services/review_service.py`.  `entity` and `relation` are the staging
rows.  A request is three or more steps: it loads its row (`ApproveEntity`,
`RejectEntity`, `ModifyEntity`, `MergeEntity` and the four for relations: the variable
`entityTxn` / `relationTxn` then holds the row as loaded and the object as assigned), for
an approval of a relation reads the source's and the target's row (`ReadSource`,
`ReadTarget`: `_assert_relation_endpoints_approved`, including the lookup that fills a
NULL key), and commits (`CommitEntity`, `CommitRelation`).  `FlushEntity` and
`FlushRelation` write only the columns whose value differs from the loaded one, name and
type each by itself (`FlushedContent`), which is
what SQLAlchemy does and why overlapping requests produce rows that neither of them
meant, such as the name of one edit with the type of another.  `Abort` is any exception.  Of `audit_log` the model keeps the contents under
which approvals name each item (`entityVouched`, `relationVouched`).

**GraphSync** - `services/graph_sync_service.py`, `repositories/neo4j_repository.py`.
A job (`job[s]`) is a loop with a program counter; each SELECT and each Neo4j call is a
step: `SelectEntities`, `SkipEntity`, `PickEntity`, `MergeNode`, `MergeChunk`, `LinkChunk`,
`FinishEntities` (which commits the entities' logs), `ReadWhitelist`, `SelectRelations`,
`SkipRelation`, `PickRelation`, `ReadSourceRow`, `ReadTargetRow`, `RelationChunk`,
`LinkSource`, `LinkTarget`, `MergeEdge`, `FinishRelations`.  `CallFails` is the except
clause, after a call that did not or (`AnswerLost`) did take effect; `JobDies` loses all
uncommitted log rows.  `AutoSyncEntity` and `AutoSyncRelation` are the commit of an
approval that goes on with a job in the same session, whose identity map keeps the row
as approved (`held`).  `SetRelationType` changes the whitelist.

**GovernedGraph** - the abstract promise: items are vouched for, vouched items enter the
graph, edges only between nodes already in it, nothing is taken back.  `GraphSync`
implements it under the refinement mapping at its end (`KeepsGovernance`).

**Ontology** - the registry; a request is one action, since a lost update between two of
them leaves a state that one of them alone would leave.

**Extraction** - a run (`run[s]`) holds `id_by_norm` (`idByNorm`), its flushed rows and its
counters; `NextChunk`, `SaveEntity`, `SaveRelation` (validation), `ResolveEntityId` (dict,
then the database), `CreatePlaceholder`, `InsertRelation`, `EndChunk`, `Commit`, `Fail`.
The LLM's answer is any list of candidates.

**Documents** - an upload's steps: `Post`, `FindByContentHash`, `Insert` (which waits while
another's uncommitted insert holds the unique index, and is refused if that commits),
`CommitDocument`, `GetCollections`, `CreateCollection`, `IndexChunk`, `UpsertFails`,
`CommitMarks`, `Answer` (the refresh and the 201), `Die`, which may come at each of them,
also between the second commit and the 201; `ReaderEnsures` is a search that creates the collection.

**Catalogue** - the abstract promise of `POST /documents`: put if absent.  A content is
taken in at once and by one request, and refused only when another has brought it in.
Searches (`vector_retriever.py` filters by no status) may find a part from then on, one by
one, before the 201 and whatever its status; the statuses that `GET` shows appear in one
step, INDEXED only for parts that may be found by then; 201 comes after that, and after an
answer nothing becomes visible.  `Documents` implements it
under the mapping at its end (`KeepsCatalogue`): the catalogue holds the committed
documents, what may be found are the points, what is shown the rows, and an upload after
its first commit has been taken in and not yet answered.

**QA** - a question's steps: seeds by name or by the provider's hints, the whitelist, the
subgraph of each seed, the evidence rows, the search, the prompt, the model, the log row.
`TopUp`, `GraphLength`, `RenderEvidence` and `EvidenceBudget` are the algorithms of
`vector_retriever.py` and `context_builder.py` on chunk ids and lengths; `EvidenceLength`
is the length of the block as it stands in the prompt, with the line breaks that
`RenderEvidence` does not count.

**Service** - `main.py`, `db/postgres.py`, `db/qdrant.py`, `db/neo4j.py`,
`repositories/neo4j_repository.py` (`SCHEMA_STATEMENTS`, `ensure_schema`, the MERGE of a
node).  `Start` to `Serve` is the lifespan, one statement a step, with `StatementRefused`
(duplicates) and `StatementFails` (no answer); both end the try, are logged, and the process
serves all the same.  A request is in one of `GetDb`, `Ping`, `GetClient`, `GetDriver` and
goes through `get_engine` and `get_session_factory` test by test and assignment by
assignment (`CheckEngine`, `CreateEngine`, `BindFactory`, `AssignFactory`, `AssertFactory`).
`MergeNode` finds or creates under a constraint; without one, `CreateNode` is a step of its
own.  `Stop` is a shutdown or a crash; the graph outlives it.  Engines and clients are named
after the thread that made them.

**Database** - `src/alembic` and `seeds`.  The six revisions are given as tables in order of
creation with their foreign keys.  A command (`command[o]`) is one transaction: `Upgrade`,
`Downgrade`, `CreateTable`, `DropTable`, `Stamp`, `CommitMigration`; `RunSeed`, `SelectRows`,
`InsertRows`, `CommitSeed`; `Abort` is a refusal or a death.  PostgreSQL's waiting is a guard
(`ChangedByOthers`, `TouchedByOthers`, `InsertedByOthers`): DDL and inserts into a unique
index wait for the transaction that is in their way.

**Listing** - the list endpoints' `ORDER BY created_at LIMIT OFFSET`, one query a page;
`Results` is any order the query may return, with the rows of one transaction tied.

**Chunking** - `ChunkingService.split` as an operator on sequences over three characters;
`MCDocuments` computes the chunks of its contents with it.  `Squeezed` is a text without the
white space that no chunk need show (`Separates`: around the text and after a full stop).
**FakeProvider** - the rules of
the offline provider as tables, with what they must have in common with the seed.

Definitions whose comment calls them a mutant of another one are plausible bugs of that
definition.  No next-state relation uses them; each is put in the place of its original
to see that a property notices.

The proofs are in `ReviewProofs`, `GraphSyncProofs`, `DocumentsProofs`,
`ExtractionProofs`, `QAProofs`, `ChunkingProofs` and `PlatformProofs` (which has
`Service`, `Database` and `Listing`); `FoldTheorems` has the lemmas they share about the
folds, sums and sorts of the community modules.

## 3. What the runs check

| run | instance and bounds | what it shows |
|---|---|---|
| `overlapping_reviews` (MCReview, 2.3M states) | 2 entities, 2 relations (one may have a NULL key), 2 reviewers, 5 requests | any overlap of any operations, with requests dying: an APPROVED row has an approval on record (`ApprovalOnRecord`), and so do both ends of an APPROVED relation and of every edge an approval names (`EndpointsOnRecord`, `VouchedEdgesOnRecord`) |
| `overlapping_syncs` (MCTwoJobs, 0.5M) | 2 entities, 1 relation, 1 reviewer with 3 requests, 2 sync jobs; Neo4j faults, crashes; a job is forced only when there are log rows to override | `SuccessIsInGraph`, `EdgesAfterEndpoints`; every step is one of GovernedGraph (`KeepsGovernance`), so nothing enters the graph without an approval on record |
| `automatic_sync` (MCAutoSync, 1.3M) | automatic sync on, 1 reviewer with 4 requests, 1 requested job, crashes, 2 contents | the documented rules hold when requests do not overlap, also with a job inside the approving session: `ApprovedAsVouched`, `ApprovalGuard`, `AuditTellsStaging`, and what the graph shows, an approval was given for (`GraphAsVouched`) |
| `sync_progress` (MCSyncLiveness, 0.2M) | 3 requests, any number of sync jobs, whitelist changes, no faults | `JobsEnd`, `ApprovedIsLoaded` |
| `extraction` (MCExtraction, 1.1M) | 2 chunks, 2 runs, at most 1 entity and 2 relations per answer, 1 registry request or review in between | `KeysInChunk`, `SchemaChecked`, `OnePlaceholder`, `AuditTellsRun` |
| `uploads` (MCDocuments, 46K) | 3 uploads of a content of two chunks and one of none; Qdrant faults, crashes | `OneDocumentPerContent`, `PointsMatchChunks`, `AnswersAreTrue`, `UploadsEnd`; every step is one of Catalogue (`KeepsCatalogue`): searches find chunks of documents on record only, `GET` shows all statuses of a document at once, INDEXED only with a point, and nothing changes after the answer |
| `question_answering` (MCQA, 0.4M) | 1 question, 2 names, 2 triples, 4 chunks, top_k 3, all faults | `GroundedAnswers`, `LoggedOnce`, `EvidenceThenHits`, `BudgetKept`: graph and evidence blocks, line breaks and all, are over the budget only by what the code grants, which happens in this instance |
| `platform` (MCPlatform, 0.8M) | 2 request threads, 2 nodes (one of each label), starts and stops without bound; 2 operators, all revisions, both seeds; 4 rows of 3 transactions, pages of 2; every text of up to 8 characters with `MaxChars` 2 | `SessionsAreUsable`, `FailureIsTransient`, `EachCreatesOnce`, `NodesUnique`, `SchemaEnsured`; `WholeRevisions`, `SeededOnce`; `WalkSeesAll`; `SplitIsWhole`; `FakeFitsSeed` is an ASSUME that TLC evaluates |
| `unvouched_content`, `stale_node`, `edge_outside_schema`, `first_uploads` | as above, smaller | TLC finds each of the four statements of section 6 violated |

**Why the bounds are enough.**  Two threads and two endpoints are the least at which
requests overlap and a relation can be approved; every pair of operations, hence every
overlap of two read-decide-commit sequences, occurs within five requests.  Two sync jobs show every overlap of two loops;
an entity takes one approval, hence `MaxRequests = 3` suffices to approve both ends and
the relation, 4 to edit one in between.  One chunk identifier suffices for Review because
`ChunkOf` only selects rows; KeysInChunk is checked with two.  Extraction's
answers need one name under two types (the dict is keyed by the name alone), a registered
and an unregistered signature, and two relations that can share a placeholder.  Uploads
need two of the same content and a third after them; the contents have two chunks and
none.  QA's lengths make the first chunk fit or not fit what the graph block leaves, and
the second exceed any budget.  Two threads are the least that can race for the engine, two
operators for a table.  Four rows and pages of two make a walk of three pages, with a tie
across a page's end; eight characters hold a sentence of more than twice `MaxChars`, a
full stop with and without white space after it, and two sentences.  The parts of
`platform` share no variable and no property spans two of them, so one run checks them
side by side and only one moves in each behaviour; its symmetry permutes threads,
operators and the rows of one transaction, and it checks no liveness.  For the theorems of section 5 bounds do not matter.

`CHECK_DEADLOCK FALSE` stands where the system may stop: requests are bounded, served
once, or all done.  `SyncerSymmetry`
in `overlapping_syncs` permutes the sync threads only, which no property names, and that
run checks no liveness.

## 4. Fairness

`GraphSync!Fairness` assumes weak fairness of each thread's `JobStep`, because a thread
that serves a request keeps running (`JobStep` excludes faults, and the run has none), and
strong fairness of an unforced `POST /graph/sync` for all rows, because somebody calls it
again and again; without it nothing would ever be retried.  Nothing is assumed of
reviewers.  `Documents!FairSpec` assumes weak fairness of the steps of each upload that
has been posted; nobody need post, read or die.

## 5. What is proved

All theorems are for every value of the constants that meets the ASSUMEs: any number of
rows, threads, jobs, contents and chunks, and any faults.

| theorems | argument |
|---|---|
| `ReviewProofs`: `TypeCorrect`, `ReviewInvariant`, `ApprovalsAreOnRecord`, `ApprovedEndpoints`, `VouchedEndpoints`, `DecisionsStayGood` | `ApprovalOnRecord` is not inductive: a commit publishes what a request read several steps earlier.  `ReviewInv` adds `RequestsInFlight`: what a request has decided is still worth something whatever the others commit (`OnRecordStable`: approvals are never taken back) |
| `ReviewProofs`, second part: `SerialApprovedAsVouched`, `SerialApprovalGuard`, `SerialAuditTellsStaging` | a flush writes column by column and still publishes the object in memory if nobody wrote in between (`FlushContentExact`); under `OneReviewer` the loaded row is the stored row until the commit (`SerialInv`) |
| `GraphSyncProofs`: `SyncKeepsReview`, `SyncTypeCorrect`, `SyncInvariant`, `LogIsTrue`, `EdgesComeLast`, `GraphIsOnRecord`, `JobsStayGood` | sync steps stutter in Review, so Review's invariant carries over.  `JobsInFlight` carries what a call achieved to the commit of the log at the job's end; `Grows` (nothing is taken back) makes it stable under everybody else's steps |
| `GraphSyncProofs`, second part: `KeepsGovernanceProved` | initial states map to initial states; four steps map to steps of `GovernedGraph` (commit of an entity's or relation's approval, `MergeNode`, `MergeEdge`), all others stutter; the guards of the abstract steps come from `SyncInv` |
| `GraphSyncProofs`, third part: `GraphIsAsVouched` | under `OneReviewer`, `SerialInv` and `SyncInv` together: no row changes while it is being vouched for, and a job writes what it holds of an APPROVED row |
| `DocumentsProofs`: `DocumentsTypeCorrect`, `DocumentsAreUnique`, `PointsAreChunks`, `AnswersStayTrue` | `UniqueInv` adds what the index does between insert and commit (two uploads of a content are never both past `Insert` alive); `ChunkInv` that a request indexes its own committed chunks and marks after the upsert; `AnswerInv` that rows no longer change after the answer |
| `ExtractionProofs`: `ExtractionTypeCorrect`, `RelationsStayInChunk`, `PendingIsRegistered`, `PlaceholdersAreSole`, `AuditCountsRows` | one lemma per step says what it does to the run's record; four invariants use them.  `KeyInv` follows an id from the dict, through the resolved ends, into the flushed and the committed rows; `SchemaInv` adds the rows in flight and that registered names stay registered; `PlaceInv` that the dict has every name a flushed row of the chunk has, that entities come before relations, and that no chunk with rows is still to do; `TallyInv` that a run's counters are the cardinalities of its flushed rows, whose numbered ids tell them apart, that nothing of a run is committed before its commit, and that reviews change no id |
| `DocumentsProofs`, second part: `UploadsKeepCatalogue` | `Post`, `CommitDocument`, a hit of `FindByContentHash`, an upsert that takes effect (`IndexChunk`, `UpsertFails`), `CommitMarks`, `Answer` and what ends a request with an error map to the seven steps of `Catalogue`, the rest stutters.  The guard of the abstract `TakeIn` is the unique index (`UniqueInv`); those of `Show` and `Settle` come from `ChunkInv` and `MarkInv` (a chunk that is not to do any more is marked, and the second commit leaves the rows as marked), which also gives `Create` its guard; that a request whose marks are not committed has only PENDING rows, and one not yet posted brings no content, is `Fresh`, an invariant of its own |
| `QAProofs`: `AnswersAreLogged`, `AnswersAreGrounded`, `QATypes` | every step either goes on without answering or logs and ends (`GoesOrLogs`); `QAInv` says of a request at each step what it may be holding, that one that goes has no row, and that one that was logged has one that tells its record |
| `QAProofs`: `EvidenceIsRanked` | `TopUp` is followed hit by hit (`WithHitToppedUp`): what it has is the evidence and then distinct hits, and it stops short of `TopK` only if every hit is in it.  Since the search asks for `TopK` plus the evidence (`SearchLimit`), too few distinct hits means that there are no more points (`TopUpTopsUp`) |
| `QAProofs`: `PromptKeepsBudget` | `RenderEvidence` is followed chunk by chunk: what it has used is a prefix, its length is the sum of the prefix (`TotalIsSum`), and once it has left one out it leaves out the rest (`RenderFits`); the block is that sum and a line break between any two (`EvidenceIsTotal`), and one chunk more would be over even so |
| `ChunkingProofs`: `SplitKeepsText` | sentences are apart, in order (`SentencesFacts`), and hold exactly the positions that do not separate (`SentencesKeep`); the pieces of a sentence cover it without a gap (`PiecesFacts`, arithmetic of multiples of `MaxChars`), so the places of the chunks hold these positions once and in order (`PlacesFacts`); stripping a text moves the positions and changes nothing else about them (`KeptShifts`, `StripFacts`).  Squeezing goes position by position (`SqueezeSteps`): a stretch that separates adds nothing (`NothingKept`), a place adds itself (`AllKept`), so the first k chunks are the text squeezed up to the end of the k-th place (`ChunksSoFar`, over k) |
| `PlatformProofs`: `ServiceTypes`, `UsableSessions`, `TransientFailures`, `OneEach`, `UniqueNodes`, `EnsuredSchema` | for the sessions: whoever is between making an engine and binding the factory holds a live engine; for the failures: the engine is set only by a thread that goes on to the factory; for the nodes: two creations of one id begin only while the label is unguarded; for the schema: each statement done leaves its label's constraint, and a start goes through them in order |
| `PlatformProofs`: `DatabaseTypeCorrect`, `RevisionsAreWhole` | `Progress`: a migration has the tables of the revision it has got to and the first of the next, or not the last of that one; `StampHolds`: who has written `alembic_version` is alone and has it as it read it, so what it commits is a whole revision |
| `PlatformProofs`: `SeedsOnce` | `LocksHold`: what a seed has touched stays and nobody migrates it; `SeedHolds`: it has inserted exactly the rows still missing, and nobody else inserts those.  As a seed's tables belong to one revision, they are filled and emptied together |
| `PlatformProofs`: `WalksSeeAll` | a row with a `created_at` of its own is one place after the rows before it in every result (`Position`, by counting); others only put rows before it (`RowsMoveBack`), so what has not been shown lies behind the offset (`WalkHolds`), and a page that is not full has shown the last (`FullPage`) |
| `PlatformProofs`: `PartsAreWhole`, `PlatformTypes`, `SplitsAreWhole` | a step of the composition is a step of one part and a stutter of the others, so `MCSpec` implies each part's specification, and what is proved of a part holds of the composition; a text is only ever asked for, so `SplitKeepsText` applies to it |

**Folds and sorts.**  `TopUp`, `RenderEvidence` and the sums are folds of the
community modules; a fold, like their `FlattenSeq`, is a `CHOOSE` of a recursive function.  `FoldTheorems` shows
that such a function exists and what its steps are (`FoldExists`, `LeftFoldSteps`,
`SumIsSum`), by induction on finite sets and on indices; the induction itself is done on a
set (the indices for which the claim fails has a least element), because the induction
theorems of the library take an operator as a parameter.  `SortExists` does the same for
the places and ids that are put in order by a `CHOOSE` among `SetToSeqs`.

Assumptions are those of the modules (`ReviewAssumption`, `GraphSyncAssumption`,
`ExtractionAssumption`, `DocumentsAssumption`, `QAAssumption`,
`ChunkingAssumption`, `ServiceAssumption`, `DatabaseAssumption`, `ListingAssumption`): id sets are disjoint
from `Null`, functions have their domains, sets of chunk parts and of rows are finite, a
page holds a row, `MaxChars` is positive.  TLC evaluates them on every run.

Only model-checked:

- liveness (`JobsEnd`, `ApprovedIsLoaded`, `UploadsEnd`): the prover has no rule for fairness;
- `FakeFitsSeed`, a statement about fixed tables that TLC evaluates.

Every safety property that a passing run checks is also a theorem.

## 6. Where code and documents disagree

Each has a run whose property TLC refutes; `PROJECT.json` quotes the sentence.

- `unvouched_content`: an approval and an edit of one entity overlap, and content nobody
  approved is loaded (README principle 2).  The cause, no lock and no version column, has a
  second consequence that `Review` shows with two reviewers: a relation can become APPROVED
  although an endpoint was rejected after it was checked (`ApprovalGuard`, principle 4).
- `stale_node`: an entity edited and approved again keeps its first content in Neo4j,
  because its SUCCESS row makes every later unforced sync skip it.
- `edge_outside_schema`: after a relation with a registered signature was extracted, an edit
  gives one of its ends another type; both ends and the relation are approved, which looks
  at statuses only, the whitelist holds names only, and an edge whose end types no relation
  type has is loaded.
- `first_uploads`: two first uploads both create the Qdrant collection; the second is
  refused outside the per-chunk try and its chunks stay PENDING for good.

Seen while modelling, without a run: the docstring of `ChunkingService`
(`chunking_service.py:19`) says that chunks are kept within `max_chars`, while `split` (line
40), and its own docstring (line 29), let a sentence of up to twice that be one chunk, and
`SplitIsWhole` states the latter; `total_budget_chars` bounds the prompt's context only
up to a graph block that is never cut, 200 characters granted after it, a first chunk of any
length and the line breaks between chunks (`QA!BudgetKept` states that); searches find chunks
whose status is PENDING or FAILED, as `vector_retriever.py:77` filters by none
(`Catalogue!Show`); the results of `merge_document_chunk`, `link_defined_in` and
`ensure_schema` are never read (`neo4j_repository.py:58`, `121-128`, `137-138`), so an error
that only arrives with the result may be lost; the loser of two simultaneous uploads of one content
gets 500 and not 409 (`Documents!Insert`); an empty whitelist filters nothing
(`QA!Filtered`, docs/07-query-sequence.md:61); a question that ends in 500 leaves no log
row (`QA!BuildPrompt`, principle 7); a relation whose entity *types* are not registered, or
whose ends stay NULL, waits as PENDING although a comment says it will be rejected
(`Extraction!CreatePlaceholder`).

## 7. Abstractions

- Contents, names and types are model values; an entity's content is a record of
  its `normalized_name` and `entity_type`, which a flush writes as the two columns they are.  Confidence, reviewer names, timestamps, reasons and wording
  are left out, and so are Neo4j's accumulated labels.  Type names are taken to pass
  `assert_safe_label` and the request schemas' patterns.
- A SELECT without an order returns any of its rows (`Resolve`, `FindPendingEntity`); rows
  of one loop are handled in any order.  This allows more than one database would do.
- A Neo4j or Qdrant call takes effect at once and completely, or not, or its answer is lost.
  Every failure of a call raises: of the Neo4j calls whose result is not read (section 6)
  this is an assumption on the driver, which `SuccessIsInGraph` rests on.
- Foreign keys of committed rows exist.  Merge cycles and equal names are not prevented,
  in the model as in the code.
- QA's stores answer anything at each call, so what other requests do between two calls
  is included.  Lengths are small numbers.
- `GraphSync` takes the active signatures as a set; `Ontology` has the full registry.

- `Service` leaves out what a request does with its session and client; the modules of the
  components start there.  The engine's pool and the driver's sockets are not modelled, a
  process that has disposed its engine ends (nothing starts it again in place), and a
  malformed address, which raises when the driver is made, is not a case of `StatementFails`.
- `Database` leaves out columns and the indexes that no seed runs into.
- A text is made of three kinds of characters (white space, one that ends a sentence, any
  other); lines and the token count are left out.

## 8. Not modelled

- `embed`: arithmetic on hashes; no property of the system depends on which vector a text
  gets, only on whether the call is made, which `Documents` and `QA` model.
- OpenAI and Anthropic, and prompt rendering: external answers, which `Extraction` and `QA`
  take to be anything or an exception.
- `GET` of a single row, request schemas, configuration and logging.
- Two hazards listed in `PROJECT.json` have no property: an empty whitelist that filters
  nothing (`services/graph_retriever.py:57`; the model has it in `QA!Filtered`), and two
  extractions that make two entities of one name
  (`services/entity_relation_extraction_service.py:189`): nothing in the code
  promises otherwise, `OnePlaceholder` says what one request promises.

## 9. What is left

1. Composition of `Extraction` and `Review`: `KeysInChunk` implies the key condition of
   `Review.Init`, stated as a theorem instead of an argument.
2. An abstract specification of the review (who may approve what, with no transactions) and
   of a question (asked, answered, logged), refined like `GovernedGraph` and `Catalogue`.
3. Runs that refute the documents on the remaining candidates of section 6.
