--------------------------------- MODULE QA ---------------------------------
(***************************************************************************)
(* POST /qa: app/services/qa_service.py with its graph retriever, vector   *)
(* retriever, context builder and prompt builder.  A question is looked up *)
(* in Neo4j, PostgreSQL and Qdrant, each of which may fail; what is found  *)
(* goes into a prompt, and the answer into ai_query_log.                   *)
(*                                                                         *)
(* Requests share only the stores that they read.  What those answer is    *)
(* arbitrary: names, subgraphs and rankings are chosen anew at every call. *)
(***************************************************************************)
EXTENDS SequencesExt, FiniteSetsExt, Integers

CONSTANTS
    Question,   \* requests
    Mentioned,  \* the names that occur in the text of a question
    Name,       \* normalized names of graph nodes
    RelType,    \* names of relation types
    Triple,     \* (source, relation, target), as the graph may hold them
    TypeOf,     \* the relation type of a triple
    LineLength, \* the length of a triple's line in the graph block
    EmptyLength, \* the length of a block that says that there is none
    Chunk,      \* chunk ids, in the order of their strings
    Length,     \* the length of a chunk's block in the evidence block
    TopK,       \* top_k_chunks
    Budget,     \* total_budget_chars
    Floor,      \* what the evidence block may have at least
    Faults,     \* what may fail: "llm", "qdrant", "postgres", "crash"
    Null

ASSUME QAAssumption ==
    /\ Mentioned \in [Question -> SUBSET Name]
    /\ TypeOf \in [Triple -> RelType]
    /\ IsFiniteSet(Triple)
    /\ LineLength \in [Triple -> Nat] /\ EmptyLength \in Nat
    /\ Chunk \subseteq Nat /\ IsFiniteSet(Chunk)
    /\ Length \in [Chunk -> Nat]
    /\ TopK \in Nat /\ Budget \in Nat \ {0} /\ Floor \in Nat
    /\ Faults \subseteq {"llm", "qdrant", "postgres", "crash"}
    /\ Null \notin {"answer", "canned"}

VARIABLES
    points, \* the chunks that have a point in Qdrant
    qa,     \* the requests
    log     \* ai_query_log

vars == <<points, qa, log>>

-----------------------------------------------------------------------------

Answer == {"answer", "canned", Null}

\* A retrieved chunk and where it comes from.
Retrieved == [chunk : Chunk, source : {"graph_evidence", "vector_search"}]

Prompt == [triples : SUBSET Triple, used : Seq(Retrieved)]

LogRow == [question : Question, seeds : SUBSET Name, triples : SUBSET Triple,
           evidence : SUBSET Chunk, chunks : Seq(Retrieved), prompt : Prompt,
           answer : Answer, error : BOOLEAN]

\* broken: a statement of the session has failed, so that all later ones fail.
QAState == [pc : {"none", "names", "hints", "whitelist", "subgraph", "rows",
                  "search", "prompt", "llm", "log", "answered", "failed", "error"},
            names : SUBSET Name, seeds : SUBSET Name, todo : SUBSET Name,
            whitelist : SUBSET RelType, triples : SUBSET Triple,
            evidence : SUBSET Chunk, chunks : Seq(Retrieved), prompt : Prompt,
            answer : Answer, error : BOOLEAN, broken : BOOLEAN]

QATypeOK ==
    /\ points \in SUBSET Chunk
    /\ qa \in [Question -> QAState]
    /\ log \in Seq(LogRow)

Init ==
    /\ points \in SUBSET Chunk
    /\ qa = [q \in Question |->
               [pc |-> "none", names |-> {}, seeds |-> {}, todo |-> {},
                whitelist |-> {}, triples |-> {}, evidence |-> {}, chunks |-> <<>>,
                prompt |-> [triples |-> {}, used |-> <<>>],
                answer |-> Null, error |-> FALSE, broken |-> FALSE]]
    /\ log = <<>>

At(q, pc) == qa[q].pc = pc
SetQA(q, r) == qa' = [qa EXCEPT ![q] = r] /\ UNCHANGED <<points, log>>

Ask(q) == At(q, "none") /\ SetQA(q, [qa[q] EXCEPT !.pc = "names"])

-----------------------------------------------------------------------------
(* GraphRetriever.  A call of Neo4j or of the provider that fails counts as   *)
(* one that finds nothing.                                                   *)

\* Without seeds there is no graph context.
Seeded(q, seeds) ==
    SetQA(q, [qa[q] EXCEPT !.seeds = seeds, !.todo = seeds,
                           !.pc = IF seeds = {} THEN "rows" ELSE "whitelist"])

ListNormalizedNames(q) ==
    /\ At(q, "names")
    /\ \E names \in SUBSET Name :
         IF names \cap Mentioned[q] # {}
         THEN Seeded(q, names \cap Mentioned[q])
         ELSE SetQA(q, [qa[q] EXCEPT !.names = names, !.pc = "hints"])

\* The provider's hints count if the graph has them, or has no names at all.
ExtractIntentEntities(q) ==
    /\ At(q, "hints")
    /\ \E hints \in SUBSET Name :
         Seeded(q, IF qa[q].names = {} THEN hints ELSE hints \cap qa[q].names)

\* list_relation_types.  If it fails, retrieve() raises and answer() goes on
\* with an empty result.  A failed statement breaks the session; a connection
\* that cannot be had, which is first asked for here, does not.
ReadWhitelist(q) ==
    /\ At(q, "whitelist")
    /\ \/ \E active \in SUBSET RelType :
            SetQA(q, [qa[q] EXCEPT !.whitelist = active, !.pc = "subgraph"])
       \/ /\ "postgres" \in Faults
          /\ \E broken \in BOOLEAN :
               SetQA(q, [qa[q] EXCEPT !.seeds = {}, !.todo = {}, !.broken = broken,
                                      !.pc = "rows"])

\* No active type is no filter.
Filtered(whitelist) ==
    IF whitelist = {} THEN Triple ELSE {t \in Triple : TypeOf[t] \in whitelist}

\* The subgraph of each seed; triples are kept once, and nodes and edges bring
\* their chunk ids.
FetchSubgraph(q) ==
    /\ At(q, "subgraph")
    /\ \E seed \in qa[q].todo, ts \in SUBSET Filtered(qa[q].whitelist),
          cs \in SUBSET Chunk :
         SetQA(q, [qa[q] EXCEPT
             !.triples = @ \cup ts, !.evidence = @ \cup cs,
             !.todo = @ \ {seed},
             !.pc = IF qa[q].todo = {seed} THEN "rows" ELSE "subgraph"])

-----------------------------------------------------------------------------
(* VectorRetriever. *)

From(source, c) == [chunk |-> c, source |-> source]

\* The chunks in the order of their ids.
InOrder(cs) ==
    CHOOSE s \in SetToSeqs(cs) : \A i, j \in DOMAIN s : i < j => s[i] < s[j]

Evidence(cs) == [i \in 1 .. Cardinality(cs) |-> From("graph_evidence", InOrder(cs)[i])]

\* The rows of the evidence, in the order of their ids.  Rows are never deleted.
GetRows(q) ==
    /\ At(q, "rows")
    /\ \/ /\ qa[q].evidence # {}
          /\ qa[q].broken \/ "postgres" \in Faults
          /\ SetQA(q, [qa[q] EXCEPT !.broken = TRUE, !.pc = "prompt"])
       \/ /\ qa[q].evidence = {} \/ ~qa[q].broken
          /\ SetQA(q, [qa[q] EXCEPT
               !.chunks = Evidence(qa[q].evidence),
               !.pc = IF Cardinality(qa[q].evidence) < TopK THEN "search"
                      ELSE "prompt"])

\* The hits that are not evidence are appended until there are remaining of them.
TopUp(found, hits, remaining) ==
    LET hit(acc, c) ==
          IF Len(acc) - Len(found) = remaining \/ \E i \in DOMAIN acc : acc[i].chunk = c
          THEN acc ELSE Append(acc, From("vector_search", c))
    IN  FoldLeft(hit, found, hits)

\* Mutant of SearchLimit: as many hits as are missing.
SearchLimitRemaining(found) == TopK - Len(found)

SearchLimit(found) == TopK + Len(found)

\* QdrantRepository.search: the best points, at most as many as the limit.
Search(q) ==
    /\ At(q, "search")
    /\ LET found == qa[q].chunks
           limit == Min({SearchLimit(found), Cardinality(points)})
       IN  \/ \E ranking \in SetToSeqs(points) :
                SetQA(q, [qa[q] EXCEPT
                  !.chunks = TopUp(found, SubSeq(ranking, 1, limit), TopK - Len(found)),
                  !.pc = "prompt"])
           \/ "qdrant" \in Faults /\ SetQA(q, [qa[q] EXCEPT !.pc = "prompt"])

-----------------------------------------------------------------------------
(* ContextBuilder and PromptBuilder. *)

\* The lines of the triples, joined by newlines.
GraphLength(ts) ==
    IF ts = {} THEN EmptyLength
    ELSE SumFunctionOnSet(LineLength, ts) + Cardinality(ts) - 1

\* Mutant of RenderEvidence: every block is measured alone.
RenderEvidenceEach(chunks, budget) ==
    LET block(acc, c) ==
          IF acc.full \/ (Length[c.chunk] > budget /\ acc.used # <<>>)
          THEN [acc EXCEPT !.full = TRUE]
          ELSE [acc EXCEPT !.used = Append(@, c)]
    IN  FoldLeft(block, [used |-> <<>>, full |-> FALSE], chunks).used

\* The blocks are taken until one does not fit; the first one always is.  The
\* newlines that join them are not counted.
RenderEvidence(chunks, budget) ==
    LET block(acc, c) ==
          IF acc.full \/ (acc.consumed + Length[c.chunk] > budget /\ acc.used # <<>>)
          THEN [acc EXCEPT !.full = TRUE]
          ELSE [acc EXCEPT !.used = Append(@, c), !.consumed = @ + Length[c.chunk]]
    IN  FoldLeft(block, [used |-> <<>>, consumed |-> 0, full |-> FALSE], chunks).used

\* The evidence block as it stands in the prompt: blocks joined by newlines.
EvidenceLength(used) ==
    LET lengths == [i \in DOMAIN used |-> Length[used[i].chunk]]
    IN  IF used = <<>> THEN EmptyLength
        ELSE SumFunctionOnSet(lengths, DOMAIN used) + Len(used) - 1

EvidenceBudget(triples) == Max({Budget - GraphLength(triples), Floor})

\* Mutant of NoContext: chunks alone are no context.
NoTriples(r) == r.triples = {}

NoContext(r) == r.triples = {} /\ r.chunks = <<>>

\* The prompt needs the active template; if that cannot be read or rendered the
\* request ends with 500 and no log row.  Without context no model is asked.
BuildPrompt(q) ==
    /\ At(q, "prompt")
    /\ \/ /\ ~qa[q].broken
          /\ SetQA(q, [qa[q] EXCEPT
               !.prompt = [triples |-> qa[q].triples,
                           used |-> RenderEvidence(qa[q].chunks,
                                                   EvidenceBudget(qa[q].triples))],
               !.answer = IF NoContext(qa[q]) THEN "canned" ELSE Null,
               !.pc = IF NoContext(qa[q]) THEN "log" ELSE "llm"])
       \/ /\ qa[q].broken \/ "postgres" \in Faults
          /\ SetQA(q, [qa[q] EXCEPT !.pc = "error"])

-----------------------------------------------------------------------------

\* Mutants of CallProvider: the exception's text is logged as the answer; the
\* exception ends the request.
CallProviderText(q) ==
    /\ At(q, "llm")
    /\ \/ SetQA(q, [qa[q] EXCEPT !.answer = "answer", !.pc = "log"])
       \/ /\ "llm" \in Faults
          /\ SetQA(q, [qa[q] EXCEPT !.answer = "exception", !.error = TRUE,
                                    !.pc = "log"])

CallProviderRaises(q) ==
    /\ At(q, "llm")
    /\ \/ SetQA(q, [qa[q] EXCEPT !.answer = "answer", !.pc = "log"])
       \/ /\ "llm" \in Faults
          /\ SetQA(q, [qa[q] EXCEPT !.error = TRUE, !.pc = "failed"])

CallProvider(q) ==
    /\ At(q, "llm")
    /\ \/ SetQA(q, [qa[q] EXCEPT !.answer = "answer", !.pc = "log"])
       \/ /\ "llm" \in Faults
          /\ SetQA(q, [qa[q] EXCEPT !.error = TRUE, !.pc = "log"])

LogRowOf(q) ==
    [question |-> q, seeds |-> qa[q].seeds, triples |-> qa[q].triples,
     evidence |-> qa[q].evidence, chunks |-> qa[q].chunks,
     prompt |-> qa[q].prompt, answer |-> qa[q].answer, error |-> qa[q].error]

\* The row is committed before the request is answered, with 502 after an error.
PersistLog(q) ==
    /\ At(q, "log")
    /\ log' = Append(log, LogRowOf(q))
    /\ qa' = [qa EXCEPT ![q].pc = IF qa[q].error THEN "failed" ELSE "answered"]
    /\ UNCHANGED points

\* The process dies after the commit.
DieAfterCommit(q) ==
    /\ "crash" \in Faults
    /\ At(q, "log")
    /\ log' = Append(log, LogRowOf(q))
    /\ qa' = [qa EXCEPT ![q].pc = "error"]
    /\ UNCHANGED points

\* The row cannot be written, or the process dies before that.
Die(q) ==
    /\ \/ "postgres" \in Faults /\ At(q, "log")
       \/ "crash" \in Faults /\ qa[q].pc \notin {"none", "answered", "failed", "error"}
    /\ SetQA(q, [qa[q] EXCEPT !.pc = "error"])

QAStep(q) ==
    \/ Ask(q)
    \/ ListNormalizedNames(q)
    \/ ExtractIntentEntities(q)
    \/ ReadWhitelist(q)
    \/ FetchSubgraph(q)
    \/ GetRows(q)
    \/ Search(q)
    \/ BuildPrompt(q)
    \/ CallProvider(q)
    \/ PersistLog(q)
    \/ DieAfterCommit(q)
    \/ Die(q)

Next == \E q \in Question : QAStep(q)

Spec == Init /\ [][Next]_vars

-----------------------------------------------------------------------------

Prompted(q) == qa[q].pc \in {"llm", "log", "answered", "failed"}

\* The model is asked if and only if there is something to answer from, and then
\* its prompt shows it: chunks without triples will do, and a first chunk that
\* is longer than the budget is shown all the same (QAService.answer,
\* ContextBuilder._render_evidence).
GroundedAnswers ==
    \A q \in Question : Prompted(q) =>
        /\ qa[q].answer = "canned" <=> qa[q].triples = {} /\ qa[q].chunks = <<>>
        /\ qa[q].answer # "canned" =>
             qa[q].prompt.triples # {} \/ qa[q].prompt.used # <<>>

\* Who gets an answer or a 502 finds exactly one row in the log, and a row, also
\* of a request that died, tells what was retrieved, shown and answered
\* (QAService.answer, _persist_log).
LoggedOnce ==
    \A q \in Question :
        LET rows == {i \in DOMAIN log : log[i].question = q}
        IN  /\ \A i \in rows : rows = {i} /\ log[i] = LogRowOf(q)
            /\ qa[q].pc \in {"answered", "failed"} => rows # {}
            /\ qa[q].pc \notin {"answered", "failed", "error"} => rows = {}

\* Evidence comes first and complete, nothing comes twice, and hits that repeat
\* the evidence do not use up the search: unless there are no other hits, as
\* after a failed search, there are top_k chunks or all that can be found
\* (VectorRetriever.retrieve).
EvidenceThenHits ==
    \A q \in Question : qa[q].pc = "llm" =>
        LET chunks == qa[q].chunks
            n == Cardinality(qa[q].evidence)
        IN  /\ SubSeq(chunks, 1, n) = Evidence(qa[q].evidence)
            /\ \A i, j \in DOMAIN chunks : chunks[i].chunk = chunks[j].chunk => i = j
            /\ \/ Len(chunks) = n
               \/ Len(chunks) = Min({TopK, Cardinality(qa[q].evidence \cup points)})

\* What a prompt shows of graph and documents, as it stands in it, overruns the
\* total budget only by what the code grants: a graph block of any length and
\* Floor characters after it, the first chunk whatever its length, and the
\* newlines between the blocks of the chunks.  What is shown is a prefix of the
\* chunks, and one chunk more would have overrun that (ContextBuilder.build).
BudgetKept ==
    \A q \in Question : Prompted(q) =>
        LET chunks == qa[q].chunks
            n == Len(qa[q].prompt.used)
            graph == GraphLength(qa[q].triples)
            context(k) == graph + EvidenceLength(SubSeq(chunks, 1, k))
            granted(k) == Max({Budget, graph + Floor}) + k - 1
        IN  /\ qa[q].prompt.used = SubSeq(chunks, 1, n)
            /\ n > 1 => context(n) <= granted(n)
            /\ n < Len(chunks) => n > 0 /\ context(n + 1) > granted(n + 1)

=============================================================================
