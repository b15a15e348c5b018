------------------------------ MODULE Service -------------------------------
(***************************************************************************)
(* The application process around its requests: app/main.py's lifespan     *)
(* ensures Neo4j's schema and then serves; app/db creates the engine, the  *)
(* session factory and the Qdrant client when the first request needs      *)
(* them, in whatever thread that request runs in, without a lock.          *)
(*                                                                         *)
(* Neo4j outlives the process.  MERGE finds or creates a node in one step  *)
(* only under a uniqueness constraint; without it, finding nothing and     *)
(* creating are two steps, and two requests may both create.               *)
(***************************************************************************)
EXTENDS Naturals

CONSTANTS
    Thread,     \* the worker threads that run requests
    Node,       \* ids of graph nodes
    LabelOf,    \* "Entity" or "DocumentChunk"
    Null

Label == {"Entity", "DocumentChunk"}

ASSUME ServiceAssumption ==
    /\ LabelOf \in [Node -> Label]
    /\ Null \notin Thread \cup Node

VARIABLES
    phase,          \* of the process
    statement,      \* the next of SCHEMA_STATEMENTS
    skipped,        \* a statement of this start went unanswered
    engine,         \* _engine, named after the thread that made it
    sessionFactory, \* the engine _SessionLocal is bound to
    client,         \* _client, named after the thread that made it
    engines,        \* engines made in this process and not disposed
    clients,        \* Qdrant clients made in this process
    request,        \* what each thread is at
    constraints,    \* labels whose ids Neo4j keeps unique
    copies,         \* the nodes of one id, each named after its thread
    unguarded       \* history: labels ever served without their constraint

globals == <<engine, sessionFactory, client, engines, clients>>
start == <<phase, statement, skipped, unguarded>>
graph == <<constraints, copies>>
serviceVars == <<globals, start, graph, request>>

-----------------------------------------------------------------------------

\* bound is the engine a session or a factory in the making is bound to.
Request ==
    [pc : {"idle", "factory", "check", "create", "bind", "assign", "assert",
           "session", "failed", "client", "connect", "merge", "creating"},
     ping : BOOLEAN, bound : Thread \cup {Null}, node : Node \cup {Null}]

Idle == [pc |-> "idle", ping |-> FALSE, bound |-> Null, node |-> Null]

ServiceTypeOK ==
    /\ phase \in {"down", "ensuring", "serving"}
    /\ statement \in 1..5
    /\ skipped \in BOOLEAN
    /\ {engine, sessionFactory, client} \subseteq Thread \cup {Null}
    /\ engines \subseteq Thread
    /\ clients \subseteq Thread
    /\ request \in [Thread -> Request]
    /\ constraints \subseteq Label
    /\ copies \in [Node -> SUBSET Thread]
    /\ unguarded \subseteq Label

ServiceInit ==
    /\ phase = "down" /\ statement = 1 /\ skipped = FALSE
    /\ engine = Null /\ sessionFactory = Null /\ client = Null
    /\ engines = {} /\ clients = {}
    /\ request = [t \in Thread |-> Idle]
    /\ constraints = {}
    /\ copies = [n \in Node |-> {}]
    /\ unguarded = {}

At(t, pc) == phase = "serving" /\ request[t].pc = pc
SetRequest(t, r) == request' = [request EXCEPT ![t] = r]
Goto(t, pc) == SetRequest(t, [request[t] EXCEPT !.pc = pc])

-----------------------------------------------------------------------------
(* The start and the end of the process. *)

\* Mutant of Start: the application serves while the schema is being ensured.
StartServing ==
    /\ phase = "down"
    /\ phase' = "serving" /\ statement' = 1 /\ skipped' = FALSE
    /\ UNCHANGED <<globals, graph, request, unguarded>>

Start ==
    /\ phase = "down"
    /\ phase' = "ensuring" /\ statement' = 1 /\ skipped' = FALSE
    /\ UNCHANGED <<globals, graph, request, unguarded>>

\* What the k-th of SCHEMA_STATEMENTS constrains: the others are indexes.
Constrained(k) ==
    IF k = 1 THEN {"Entity"} ELSE IF k = 4 THEN {"DocumentChunk"} ELSE {}

\* A constraint is refused while it does not hold of the nodes there are.
Violated(labels) ==
    \E n \in Node : LabelOf[n] \in labels /\ \E t, u \in copies[n] : t # u

\* Mutant of Refused: the statements lack IF NOT EXISTS.
RefusedExisting(k) == Violated(Constrained(k)) \/ Constrained(k) \cap constraints # {}
Refused(k) == Violated(Constrained(k))

\* A statement's error reaches lifespan.  Of the last one this is an assumption
\* on the driver: its result is never read (neo4j_repository.py:56-58), and an
\* error that only arrives with it may be lost in closing the session.
EnsureStatement ==
    /\ phase = "ensuring" /\ statement < 5
    /\ ~Refused(statement)
    /\ constraints' = constraints \cup Constrained(statement)
    /\ statement' = statement + 1
    /\ UNCHANGED <<phase, skipped, unguarded, globals, copies, request>>

\* lifespan logs the exception and serves: the statements left are skipped for
\* the life of the process.
SkipRest(unanswered) ==
    /\ phase = "ensuring" /\ statement < 5
    /\ phase' = "serving"
    /\ skipped' = unanswered
    /\ unguarded' = unguarded \cup (Label \ constraints)
    /\ UNCHANGED <<statement, globals, graph, request>>

StatementRefused == Refused(statement) /\ SkipRest(FALSE)
StatementFails == SkipRest(TRUE)

Serve ==
    /\ phase = "ensuring" /\ statement = 5
    /\ phase' = "serving"
    /\ UNCHANGED <<statement, skipped, unguarded, globals, graph, request>>

\* A shutdown or a crash.  dispose_engine leaves _SessionLocal as it is, but the
\* globals end with the process, and Neo4j rolls back what was not committed.
Stop ==
    /\ phase # "down"
    /\ phase' = "down"
    /\ engine' = Null /\ sessionFactory' = Null /\ client' = Null
    /\ engines' = {} /\ clients' = {}
    /\ request' = [t \in Thread |-> Idle]
    /\ UNCHANGED <<statement, skipped, unguarded, graph>>

-----------------------------------------------------------------------------
(* get_session_factory and get_engine. *)

\* get_db of a request, and the ping of GET /health.
GetDb(t) ==
    /\ At(t, "idle")
    /\ Goto(t, "factory")
    /\ UNCHANGED <<globals, start, graph>>

Ping(t) ==
    /\ At(t, "idle")
    /\ SetRequest(t, [request[t] EXCEPT !.pc = "check", !.ping = TRUE])
    /\ UNCHANGED <<globals, start, graph>>

GetSessionFactory(t) ==
    /\ At(t, "factory")
    /\ Goto(t, IF sessionFactory = Null THEN "check" ELSE "assert")
    /\ UNCHANGED <<globals, start, graph>>

\* Where get_engine returns to.
Returned(t) == IF request[t].ping THEN Idle ELSE [request[t] EXCEPT !.pc = "assert"]

\* Mutant of CheckEngine: _engine is not looked at.
CheckEngineNever(t) ==
    /\ At(t, "check")
    /\ Goto(t, "create")
    /\ UNCHANGED <<globals, start, graph>>

CheckEngine(t) ==
    /\ At(t, "check")
    /\ IF engine = Null THEN Goto(t, "create") ELSE SetRequest(t, Returned(t))
    /\ UNCHANGED <<globals, start, graph>>

\* Mutant of CreateEngine: it disposes the engines it replaces.
CreateEngineAlone(t) ==
    /\ At(t, "create")
    /\ engine' = t
    /\ engines' = {t}
    /\ Goto(t, "bind")
    /\ UNCHANGED <<sessionFactory, client, clients, start, graph>>

CreateEngine(t) ==
    /\ At(t, "create")
    /\ engine' = t
    /\ engines' = engines \cup {t}
    /\ Goto(t, "bind")
    /\ UNCHANGED <<sessionFactory, client, clients, start, graph>>

\* sessionmaker(bind=_engine) reads the global, not the engine just made.
BindFactory(t) ==
    /\ At(t, "bind")
    /\ SetRequest(t, [request[t] EXCEPT !.pc = "assign", !.bound = engine])
    /\ UNCHANGED <<globals, start, graph>>

\* Mutants of AssignFactory: a ping leaves the factory to others; the factory
\* is marked as in use.
AssignFactoryUnlessPing(t) ==
    /\ At(t, "assign")
    /\ sessionFactory' = IF request[t].ping THEN sessionFactory ELSE request[t].bound
    /\ SetRequest(t, Returned(t))
    /\ UNCHANGED <<engine, client, engines, clients, start, graph>>

AssignFactoryFlag(t) ==
    /\ At(t, "assign")
    /\ sessionFactory' = TRUE
    /\ SetRequest(t, Returned(t))
    /\ UNCHANGED <<engine, client, engines, clients, start, graph>>

AssignFactory(t) ==
    /\ At(t, "assign")
    /\ sessionFactory' = request[t].bound
    /\ SetRequest(t, Returned(t))
    /\ UNCHANGED <<engine, client, engines, clients, start, graph>>

\* The assertion and the return of get_session_factory: AssertionError, so 500,
\* if another thread has made the engine and not yet the factory.
AssertFactory(t) ==
    /\ At(t, "assert")
    /\ SetRequest(t, IF sessionFactory = Null
                     THEN [request[t] EXCEPT !.pc = "failed"]
                     ELSE [request[t] EXCEPT !.pc = "session", !.bound = sessionFactory])
    /\ UNCHANGED <<globals, start, graph>>

\* get_db closes the session; a request that failed has none.
End(t) ==
    /\ At(t, "session") \/ At(t, "failed")
    /\ SetRequest(t, Idle)
    /\ UNCHANGED <<globals, start, graph>>

-----------------------------------------------------------------------------
(* get_qdrant_client, and MERGE. *)

GetClient(t) ==
    /\ At(t, "idle")
    /\ Goto(t, "client")
    /\ UNCHANGED <<globals, start, graph>>

CheckClient(t) ==
    /\ At(t, "client")
    /\ Goto(t, IF client = Null THEN "connect" ELSE "idle")
    /\ UNCHANGED <<globals, start, graph>>

CreateClient(t) ==
    /\ At(t, "connect")
    /\ client' = t
    /\ clients' = clients \cup {t}
    /\ Goto(t, "idle")
    /\ UNCHANGED <<engine, sessionFactory, engines, start, graph>>

\* merge_entity and merge_document_chunk, over the driver lifespan has made.
GetDriver(t, n) ==
    /\ At(t, "idle")
    /\ SetRequest(t, [request[t] EXCEPT !.pc = "merge", !.node = n])
    /\ UNCHANGED <<globals, start, graph>>

MergeNode(t) ==
    LET n == request[t].node
    IN  /\ At(t, "merge")
        /\ \/ /\ copies[n] # {}
              /\ SetRequest(t, Idle)
              /\ UNCHANGED copies
           \/ /\ copies[n] = {} /\ LabelOf[n] \in constraints
              /\ copies' = [copies EXCEPT ![n] = {t}]
              /\ SetRequest(t, Idle)
           \/ /\ copies[n] = {} /\ LabelOf[n] \notin constraints
              /\ Goto(t, "creating")
              /\ UNCHANGED copies
        /\ UNCHANGED <<globals, start, constraints>>

CreateNode(t) ==
    LET n == request[t].node
    IN  /\ At(t, "creating")
        /\ copies' = [copies EXCEPT ![n] = @ \cup {t}]
        /\ SetRequest(t, Idle)
        /\ UNCHANGED <<globals, start, constraints>>

-----------------------------------------------------------------------------

LifespanStep ==
    Start \/ EnsureStatement \/ StatementRefused \/ StatementFails \/ Serve \/ Stop

SessionStep(t) ==
    \/ GetDb(t) \/ Ping(t) \/ GetSessionFactory(t) \/ CheckEngine(t)
    \/ CreateEngine(t) \/ BindFactory(t) \/ AssignFactory(t) \/ AssertFactory(t)
    \/ End(t)

StoreStep(t) ==
    \/ GetClient(t) \/ CheckClient(t) \/ CreateClient(t)
    \/ \E n \in Node : GetDriver(t, n)
    \/ MergeNode(t) \/ CreateNode(t)

ServiceNext == LifespanStep \/ \E t \in Thread : SessionStep(t) \/ StoreStep(t)

ServiceSpec == ServiceInit /\ [][ServiceNext]_serviceVars

-----------------------------------------------------------------------------

\* A session is open on an engine that nobody has disposed, whichever threads
\* made engines at the same time (app/db/postgres.py).
SessionsAreUsable ==
    /\ \A t \in Thread : request[t].pc = "session" => request[t].bound \in engines
    /\ sessionFactory # Null => sessionFactory \in engines /\ engine # Null

\* The assertion in get_session_factory can only fail while another thread is
\* between making the engine and making the factory, or has just finished.  The
\* request that is refused can be sent again: it succeeds once that thread has
\* assigned the factory, and may be refused again before.
FailureIsTransient ==
    \A t \in Thread : request[t].pc = "failed" =>
        \/ sessionFactory # Null
        \/ \E u \in Thread : request[u].pc \in {"bind", "assign"}

\* No thread makes a second engine or a second client in the life of a process,
\* so races can leak connection pools, but never more than there are threads.
EachCreatesOnce ==
    \A t \in Thread : /\ request[t].pc = "create" => t \notin engines
                      /\ request[t].pc = "connect" => t \notin clients

\* One node per id, as GraphSync assumes, except for the labels that were once
\* served without their constraint (docs/USAGE.md:26 knows no exception).
NodesUnique ==
    \A n \in Node : (\E t, u \in copies[n] : t # u) => LabelOf[n] \in unguarded

\* A start that reaches Neo4j leaves both constraints in force, whatever an
\* earlier start that was cut short has left undone, unless there are duplicates.
SchemaEnsured ==
    phase = "serving" /\ ~skipped /\ ~Violated(Label) => constraints = Label

=============================================================================
