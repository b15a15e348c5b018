--------------------------- MODULE PlatformProofs ---------------------------
(***************************************************************************)
(* Proofs about the parts around the workflow: Service, for any threads    *)
(* and any nodes; Database, for any number of operators and any of the     *)
(* seeds; Listing, for any finite number of rows and any page size.  The   *)
(* specification that is checked, MCSpec, runs one of them at a time, and  *)
(* implies the specification of each.                                      *)
(***************************************************************************)
EXTENDS MCPlatform, ChunkingProofs, FiniteSetTheorems, TLAPS

-----------------------------------------------------------------------------
(* Service.                                                                  *)

(* The invariant of app/db: the globals name engines and clients that are    *)
(* open; an engine without a session factory has a thread that is about to   *)
(* make one.                                                                 *)

Making(t) == request[t].pc \in {"bind", "assign"}

GlobalsOpen ==
    /\ engine = Null => engines = {}
    /\ engine # Null => engine \in engines
    /\ client = Null => clients = {}
    /\ sessionFactory # Null => sessionFactory \in engines

FactoryComes == engine # Null => sessionFactory # Null \/ \E u \in Thread : Making(u)

RequestsBound ==
    \A t \in Thread :
        /\ request[t].pc \in {"bind", "assert", "failed"} => engine # Null
        /\ request[t].pc \in {"assign", "session"} => request[t].bound \in engines
        /\ request[t].pc = "create" => t \notin engines
        /\ request[t].pc = "connect" => t \notin clients

ConnectionInv == GlobalsOpen /\ FactoryComes /\ RequestsBound

(* The invariant of the graph store: while serving, a label without its      *)
(* constraint is on record as unguarded, and only its nodes are created in   *)
(* two steps.                                                                *)

SchemaProgress ==
    /\ phase = "ensuring" => /\ ~skipped
                             /\ statement > 1 => "Entity" \in constraints
                             /\ statement = 5 => constraints = Label
    /\ phase = "serving" => /\ Label \ constraints \subseteq unguarded
                            /\ skipped \/ Violated(Label) \/ constraints = Label

RequestsOnNodes ==
    \A t \in Thread :
        /\ request[t].pc \in {"merge", "creating"} => request[t].node \in Node
        /\ request[t].pc = "creating" =>
             phase = "serving" /\ LabelOf[request[t].node] \notin constraints

GraphInv == SchemaProgress /\ RequestsOnNodes /\ NodesUnique

ServiceInv == ServiceTypeOK /\ ConnectionInv /\ GraphInv

-----------------------------------------------------------------------------

LEMMA IdleIsRequest == Idle \in Request
BY DEF Idle, Request

\* The parts of ServiceTypeOK that steps assign together.
GlobalsTyped ==
    /\ {engine, sessionFactory, client} \subseteq Thread \cup {Null}
    /\ engines \subseteq Thread
    /\ clients \subseteq Thread

StartTyped ==
    /\ phase \in {"down", "ensuring", "serving"}
    /\ statement \in 1..5
    /\ skipped \in BOOLEAN
    /\ unguarded \subseteq Label

GraphTyped ==
    /\ constraints \subseteq Label
    /\ copies \in [Node -> SUBSET Thread]

RequestTyped == request \in [Thread -> Request]

LEMMA TypeParts ==
    ServiceTypeOK <=> GlobalsTyped /\ StartTyped /\ GraphTyped /\ RequestTyped
BY DEF ServiceTypeOK, GlobalsTyped, StartTyped, GraphTyped, RequestTyped

LEMMA TypePartsNext ==
    ServiceTypeOK' <=> GlobalsTyped' /\ StartTyped' /\ GraphTyped' /\ RequestTyped'
BY DEF ServiceTypeOK, GlobalsTyped, StartTyped, GraphTyped, RequestTyped

LEMMA IdleRequests == [t \in Thread |-> Idle] \in [Thread -> Request]
BY IdleIsRequest

LEMMA InitServiceInv == ASSUME ServiceInit PROVE ServiceInv
<1>1. ServiceTypeOK
  <2>1. GlobalsTyped BY DEF ServiceInit, GlobalsTyped
  <2>2. StartTyped
    <3>1. statement \in 1..5 BY DEF ServiceInit
    <3> QED BY <3>1 DEF ServiceInit, StartTyped
  <2>3. GraphTyped BY DEF ServiceInit, GraphTyped
  <2>4. RequestTyped BY IdleRequests DEF ServiceInit, RequestTyped
  <2> QED BY <2>1, <2>2, <2>3, <2>4, TypeParts
<1>2. ConnectionInv
  BY DEF ServiceInit, ConnectionInv, GlobalsOpen, FactoryComes, RequestsBound, Idle
<1>3. GraphInv
  BY DEF ServiceInit, GraphInv, SchemaProgress, RequestsOnNodes, NodesUnique, Idle
<1> QED BY <1>1, <1>2, <1>3 DEF ServiceInv

-----------------------------------------------------------------------------
(* The start and the end of the process. *)

LEMMA NextStatement ==
    ASSUME statement \in 1..5, statement < 5
    PROVE  statement + 1 \in 1..5 /\ statement \in {1, 2, 3, 4}
OBVIOUS

LEMMA LifespanTypes ==
    ASSUME ServiceInv, LifespanStep PROVE ServiceTypeOK'
<1>0. GlobalsTyped /\ StartTyped /\ GraphTyped /\ RequestTyped
  BY TypeParts DEF ServiceInv
<1>1. CASE Start
  <2>1. statement' \in 1..5 BY <1>1 DEF Start
  <2>2. StartTyped' BY <1>0, <1>1, <2>1 DEF Start, StartTyped
  <2>3. GlobalsTyped' /\ GraphTyped' /\ RequestTyped'
    BY <1>0, <1>1 DEF Start, GlobalsTyped, GraphTyped, RequestTyped, globals, graph
  <2> QED BY <2>2, <2>3, TypePartsNext
<1>2. CASE EnsureStatement
  <2>1. StartTyped'
    BY <1>0, <1>2, NextStatement DEF EnsureStatement, StartTyped
  <2>2. GraphTyped'
    BY <1>0, <1>2 DEF EnsureStatement, GraphTyped, Constrained, Label
  <2>3. GlobalsTyped' /\ RequestTyped'
    BY <1>0, <1>2 DEF EnsureStatement, GlobalsTyped, RequestTyped, globals
  <2> QED BY <2>1, <2>2, <2>3, TypePartsNext
<1>3. CASE StatementRefused \/ StatementFails
  BY <1>0, <1>3 DEF StatementRefused, StatementFails, SkipRest, ServiceTypeOK,
                    GlobalsTyped, StartTyped, GraphTyped, RequestTyped, globals, graph
<1>4. CASE Serve
  BY <1>0, <1>4 DEF Serve, ServiceTypeOK, GlobalsTyped, StartTyped, GraphTyped,
                    RequestTyped, globals, graph
<1>5. CASE Stop
  <2>1. RequestTyped' BY <1>5, IdleRequests DEF Stop, RequestTyped
  <2>2. GlobalsTyped' BY <1>5 DEF Stop, GlobalsTyped
  <2>3. StartTyped' /\ GraphTyped'
    BY <1>0, <1>5 DEF Stop, StartTyped, GraphTyped, graph
  <2> QED BY <2>1, <2>2, <2>3, TypePartsNext
<1> QED BY <1>1, <1>2, <1>3, <1>4, <1>5 DEF LifespanStep

\* A start leaves the connections alone, a stop resets them.
LEMMA LifespanConnections ==
    ASSUME ServiceInv, LifespanStep PROVE ConnectionInv'
<1>1. CASE Stop
  BY <1>1 DEF Stop, ConnectionInv, GlobalsOpen, FactoryComes, RequestsBound, Idle
<1>2. CASE ~Stop
  <2>1. UNCHANGED <<globals, request>>
    BY <1>2 DEF LifespanStep, Start, EnsureStatement, StatementRefused,
                StatementFails, SkipRest, Serve
  <2> QED
    BY <2>1 DEF ServiceInv, ConnectionInv, GlobalsOpen, FactoryComes, RequestsBound,
                Making, globals
<1> QED BY <1>1, <1>2

LEMMA LifespanGraph == ASSUME ServiceInv, LifespanStep PROVE GraphInv'
<1>1. CASE EnsureStatement
  <2>1. SchemaProgress'
    <3>1. CASE statement = 1
      BY <1>1, <3>1 DEF EnsureStatement, Constrained, SchemaProgress, ServiceInv, GraphInv
    <3>2. CASE statement \in {2, 3}
      BY <1>1, <3>2 DEF EnsureStatement, Constrained, SchemaProgress, ServiceInv, GraphInv
    <3>3. CASE statement = 4
      <4>1. "Entity" \in constraints /\ constraints \subseteq Label
        BY <1>1, <3>3 DEF EnsureStatement, SchemaProgress, ServiceInv, GraphInv,
                          ServiceTypeOK
      <4>2. constraints' = Label
        <5>1. Constrained(statement) = {"DocumentChunk"} BY <3>3 DEF Constrained
        <5> QED BY <1>1, <4>1, <5>1 DEF EnsureStatement, Label
      <4> QED
        BY <1>1, <4>2 DEF EnsureStatement, SchemaProgress, ServiceInv, GraphInv, Label
    <3> QED
      BY <1>1, <3>1, <3>2, <3>3, NextStatement
      DEF EnsureStatement, ServiceInv, ServiceTypeOK
  <2>2. RequestsOnNodes' /\ NodesUnique'
    BY <1>1 DEF EnsureStatement, RequestsOnNodes, NodesUnique, ServiceInv, GraphInv
  <2> QED BY <2>1, <2>2 DEF GraphInv
<1>2. CASE StatementRefused
  BY <1>2 DEF StatementRefused, SkipRest, Refused, Violated, Constrained, Label, graph,
              ServiceInv, GraphInv, SchemaProgress, RequestsOnNodes, NodesUnique
<1>3. CASE StatementFails
  BY <1>3 DEF StatementFails, SkipRest, graph,
              ServiceInv, GraphInv, SchemaProgress, RequestsOnNodes, NodesUnique
<1>4. CASE Start \/ Serve
  BY <1>4 DEF Start, Serve, graph, Violated, ServiceInv, ServiceTypeOK, GraphInv,
              SchemaProgress, RequestsOnNodes, NodesUnique
<1>5. CASE Stop
  BY <1>5 DEF Stop, Idle, graph, ServiceInv, GraphInv, SchemaProgress,
              RequestsOnNodes, NodesUnique
<1> QED BY <1>1, <1>2, <1>3, <1>4, <1>5 DEF LifespanStep

-----------------------------------------------------------------------------
(* A step of one request. *)

Pc == {"idle", "factory", "check", "create", "bind", "assign", "assert",
       "session", "failed", "client", "connect", "merge", "creating"}

\* What RequestsBound and RequestsOnNodes say of one request r of thread t.
Bound(t, r) ==
    /\ r.pc \in {"bind", "assert", "failed"} => engine # Null
    /\ r.pc \in {"assign", "session"} => r.bound \in engines
    /\ r.pc = "create" => t \notin engines
    /\ r.pc = "connect" => t \notin clients

OnNode(r) ==
    /\ r.pc \in {"merge", "creating"} => r.node \in Node
    /\ r.pc = "creating" => phase = "serving" /\ LabelOf[r.node] \notin constraints

LEMMA GotoIsRequest ==
    ASSUME RequestTyped, NEW t \in Thread, NEW pc \in Pc
    PROVE  [request[t] EXCEPT !.pc = pc] \in Request
BY DEF RequestTyped, Request, Pc

LEMMA ReturnedIsRequest ==
    ASSUME RequestTyped, NEW t \in Thread
    PROVE  /\ Returned(t) \in Request
           /\ Returned(t).pc \in {"idle", "assert"}
<1>1. [request[t] EXCEPT !.pc = "assert"] \in Request
  BY GotoIsRequest DEF Pc
<1>2. [request[t] EXCEPT !.pc = "assert"].pc = "assert"
  BY DEF RequestTyped, Request
<1> QED BY <1>1, <1>2, IdleIsRequest DEF Returned, Idle

LEMMA RequestStepTyped ==
    ASSUME RequestTyped, NEW t \in Thread, NEW r \in Request, SetRequest(t, r)
    PROVE  RequestTyped'
BY DEF RequestTyped, SetRequest

\* A step that leaves the globals: the request stays bound, and it is not the
\* one that was to make the factory.
LEMMA RequestStepConnections ==
    ASSUME ServiceTypeOK, ConnectionInv, UNCHANGED globals,
           NEW t \in Thread, NEW r \in Request, SetRequest(t, r), Bound(t, r),
           Making(t) => r.pc \in {"bind", "assign"}
    PROVE  ConnectionInv'
<1>1. \A u \in Thread : request'[u] = IF u = t THEN r ELSE request[u]
  BY DEF ServiceTypeOK, SetRequest
<1>2. GlobalsOpen'
  BY DEF ConnectionInv, GlobalsOpen, globals
<1>3. FactoryComes'
  BY <1>1 DEF ConnectionInv, FactoryComes, Making, globals
<1>4. RequestsBound'
  BY <1>1 DEF ConnectionInv, RequestsBound, Bound, globals
<1> QED BY <1>2, <1>3, <1>4 DEF ConnectionInv

LEMMA RequestStepGraph ==
    ASSUME ServiceTypeOK, GraphInv, UNCHANGED <<start, graph>>,
           NEW t \in Thread, NEW r \in Request, SetRequest(t, r), OnNode(r)
    PROVE  GraphInv'
<1>1. \A u \in Thread : request'[u] = IF u = t THEN r ELSE request[u]
  BY DEF ServiceTypeOK, SetRequest
<1>2. SchemaProgress' /\ NodesUnique'
  BY DEF GraphInv, SchemaProgress, NodesUnique, Violated, start, graph
<1>3. RequestsOnNodes'
  BY <1>1 DEF GraphInv, RequestsOnNodes, OnNode, start, graph
<1> QED BY <1>2, <1>3 DEF GraphInv

\* Both together: a step of one request that changes nothing else.
LEMMA RequestStep ==
    ASSUME ServiceInv, UNCHANGED <<globals, start, graph>>,
           NEW t \in Thread, NEW r \in Request, SetRequest(t, r),
           Bound(t, r), OnNode(r), Making(t) => r.pc \in {"bind", "assign"}
    PROVE  ServiceInv'
<1>1. RequestTyped'
  BY RequestStepTyped, TypeParts DEF ServiceInv
<1>2. GlobalsTyped' /\ StartTyped' /\ GraphTyped'
  BY TypeParts DEF ServiceInv, GlobalsTyped, StartTyped, GraphTyped,
                   globals, start, graph
<1>3. ConnectionInv'
  BY RequestStepConnections DEF ServiceInv
<1>4. GraphInv'
  BY RequestStepGraph DEF ServiceInv
<1> QED BY <1>1, <1>2, <1>3, <1>4, TypePartsNext DEF ServiceInv

LEMMA GotoStep ==
    ASSUME ServiceInv, UNCHANGED <<globals, start, graph>>,
           NEW t \in Thread, NEW pc \in Pc, Goto(t, pc), ~Making(t),
           pc \notin {"bind", "assign", "failed", "session", "merge", "creating"},
           pc = "assert" => engine # Null,
           pc = "create" => t \notin engines,
           pc = "connect" => t \notin clients
    PROVE  ServiceInv'
<1> DEFINE r == [request[t] EXCEPT !.pc = pc]
<1>1. RequestTyped BY TypeParts DEF ServiceInv
<1>2. r \in Request BY <1>1, GotoIsRequest
<1>3. r.pc = pc BY <1>1 DEF RequestTyped, Request
<1>4. SetRequest(t, r) BY DEF Goto
<1>5. Bound(t, r) BY <1>3 DEF Bound
<1>6. OnNode(r) BY <1>3 DEF OnNode
<1> HIDE DEF r
<1> QED BY <1>2, <1>4, <1>5, <1>6, RequestStep

LEMMA IdleStep ==
    ASSUME ServiceInv, UNCHANGED <<globals, start, graph>>,
           NEW t \in Thread, SetRequest(t, Idle), ~Making(t)
    PROVE  ServiceInv'
<1>1. Bound(t, Idle) /\ OnNode(Idle) BY DEF Bound, OnNode, Idle
<1> QED BY <1>1, IdleIsRequest, RequestStep

-----------------------------------------------------------------------------
(* get_session_factory and get_engine. *)

LEMMA SessionStepInv ==
    ASSUME ServiceInv, NEW t \in Thread, SessionStep(t) PROVE ServiceInv'
<1>0. RequestTyped /\ request[t] \in Request
  BY TypeParts DEF ServiceInv, RequestTyped
<1>1. CASE GetDb(t)
  BY <1>1, GotoStep DEF GetDb, At, Making, Pc
<1>2. CASE Ping(t)
  <2> DEFINE r == [request[t] EXCEPT !.pc = "check", !.ping = TRUE]
  <2>1. r \in Request /\ r.pc = "check" BY <1>0 DEF Request
  <2>2. ~Making(t) BY <1>2 DEF Ping, At, Making
  <2>3. Bound(t, r) /\ OnNode(r) BY <2>1 DEF Bound, OnNode
  <2>4. SetRequest(t, r) /\ UNCHANGED <<globals, start, graph>> BY <1>2 DEF Ping
  <2> HIDE DEF r
  <2> QED BY <2>1, <2>2, <2>3, <2>4, RequestStep
<1>3. CASE GetSessionFactory(t)
  <2>1. ~Making(t) BY <1>3 DEF GetSessionFactory, At, Making
  <2>2. sessionFactory # Null => engine # Null
    BY DEF ServiceInv, ConnectionInv, GlobalsOpen
  <2>3. CASE sessionFactory = Null
    BY <1>3, <2>1, <2>3, GotoStep DEF GetSessionFactory, Pc
  <2>4. CASE sessionFactory # Null
    BY <1>3, <2>1, <2>2, <2>4, GotoStep DEF GetSessionFactory, Pc
  <2> QED BY <2>3, <2>4
<1>4. CASE CheckEngine(t)
  <2>1. ~Making(t) BY <1>4 DEF CheckEngine, At, Making
  <2>2. CASE engine = Null
    <3>1. t \notin engines
      BY <2>2 DEF ServiceInv, ConnectionInv, GlobalsOpen
    <3> QED BY <1>4, <2>1, <2>2, <3>1, GotoStep DEF CheckEngine, Pc
  <2>3. CASE engine # Null
    <3>1. Bound(t, Returned(t)) /\ OnNode(Returned(t))
      BY <1>0, <2>3, ReturnedIsRequest DEF Bound, OnNode
    <3>2. SetRequest(t, Returned(t)) /\ UNCHANGED <<globals, start, graph>>
      BY <1>4, <2>3 DEF CheckEngine
    <3> QED BY <1>0, <2>1, <3>1, <3>2, ReturnedIsRequest, RequestStep
  <2> QED BY <2>2, <2>3
<1>5. CASE CreateEngine(t)
  <2>1. GlobalsTyped' /\ StartTyped' /\ GraphTyped'
    BY <1>5, TypeParts DEF CreateEngine, ServiceInv, GlobalsTyped, StartTyped,
                           GraphTyped, start, graph
  <2>2. RequestTyped'
    BY <1>0, <1>5, GotoIsRequest, RequestStepTyped DEF CreateEngine, Goto, Pc
  <2>3. \A u \in Thread :
           /\ u # t => request'[u] = request[u]
           /\ u = t => request'[u].pc = "bind"
    BY <1>0, <1>5 DEF CreateEngine, Goto, SetRequest, RequestTyped, Request
  <2>4. t # Null BY ServiceAssumption
  <2>5. GlobalsOpen'
    BY <1>5, <2>4 DEF CreateEngine, ServiceInv, ConnectionInv, GlobalsOpen
  <2>6. FactoryComes'
    BY <2>3 DEF FactoryComes, Making
  <2>7. RequestsBound'
    BY <1>5, <2>3, <2>4 DEF CreateEngine, ServiceInv, ConnectionInv, RequestsBound
  <2>8. GraphInv'
    <3> DEFINE r == [request[t] EXCEPT !.pc = "bind"]
    <3>0. r \in Request /\ r.pc = "bind" BY <1>0 DEF Request
    <3>1. OnNode(r) BY <3>0 DEF OnNode
    <3>2. SetRequest(t, r) /\ UNCHANGED <<start, graph>>
      BY <1>5 DEF CreateEngine, Goto
    <3> HIDE DEF r
    <3> QED BY <3>0, <3>1, <3>2, RequestStepGraph DEF ServiceInv
  <2> QED
    BY <2>1, <2>2, <2>5, <2>6, <2>7, <2>8, TypePartsNext DEF ServiceInv, ConnectionInv
<1>6. CASE BindFactory(t)
  <2> DEFINE r == [request[t] EXCEPT !.pc = "assign", !.bound = engine]
  <2>1. engine \in engines
    BY <1>6 DEF BindFactory, At, ServiceInv, ConnectionInv, GlobalsOpen, RequestsBound
  <2>2. engine \in Thread \cup {Null}
    BY TypeParts DEF ServiceInv, GlobalsTyped
  <2>3. r \in Request /\ r.pc = "assign" /\ r.bound = engine
    BY <1>0, <2>2 DEF Request
  <2>4. Bound(t, r) /\ OnNode(r) BY <2>1, <2>3 DEF Bound, OnNode
  <2>5. SetRequest(t, r) /\ UNCHANGED <<globals, start, graph>> BY <1>6 DEF BindFactory
  <2> HIDE DEF r
  <2> QED BY <2>3, <2>4, <2>5, RequestStep
<1>7. CASE AssignFactory(t)
  <2>1. request[t].bound \in engines /\ engine # Null
    BY <1>7 DEF AssignFactory, At, ServiceInv, ConnectionInv, GlobalsOpen, RequestsBound
  <2>2. engines \subseteq Thread /\ request[t].bound # Null
    BY <2>1, ServiceAssumption, TypeParts DEF ServiceInv, GlobalsTyped
  <2>3. GlobalsTyped' /\ StartTyped' /\ GraphTyped'
    BY <1>7, <2>1, TypeParts DEF AssignFactory, ServiceInv, GlobalsTyped, StartTyped,
                           GraphTyped, start, graph
  <2>4. RequestTyped'
    BY <1>0, <1>7, ReturnedIsRequest, RequestStepTyped DEF AssignFactory
  <2>5. \A u \in Thread :
           /\ u # t => request'[u] = request[u]
           /\ u = t => request'[u].pc \in {"idle", "assert"}
    BY <1>0, <1>7, ReturnedIsRequest DEF AssignFactory, SetRequest, RequestTyped
  <2>6. GlobalsOpen'
    BY <1>7, <2>1 DEF AssignFactory, ServiceInv, ConnectionInv, GlobalsOpen
  <2>7. FactoryComes'
    BY <1>7, <2>2 DEF AssignFactory, FactoryComes
  <2>8. RequestsBound'
    BY <1>7, <2>1, <2>5 DEF AssignFactory, ServiceInv, ConnectionInv, RequestsBound
  <2>9. GraphInv'
    <3>1. OnNode(Returned(t)) BY <1>0, ReturnedIsRequest DEF OnNode
    <3> QED
      BY <1>0, <1>7, <3>1, ReturnedIsRequest, RequestStepGraph
      DEF AssignFactory, ServiceInv
  <2> QED
    BY <2>3, <2>4, <2>6, <2>7, <2>8, <2>9, TypePartsNext DEF ServiceInv, ConnectionInv
<1>8. CASE AssertFactory(t)
  <2>1. ~Making(t) BY <1>8 DEF AssertFactory, At, Making
  <2>2. CASE sessionFactory = Null
    <3> DEFINE r == [request[t] EXCEPT !.pc = "failed"]
    <3>1. r \in Request /\ r.pc = "failed" BY <1>0 DEF Request
    <3>2. engine # Null
      BY <1>8 DEF AssertFactory, At, ServiceInv, ConnectionInv, RequestsBound
    <3>3. Bound(t, r) /\ OnNode(r) BY <3>1, <3>2 DEF Bound, OnNode
    <3>4. SetRequest(t, r) /\ UNCHANGED <<globals, start, graph>>
      BY <1>8, <2>2 DEF AssertFactory
    <3> HIDE DEF r
    <3> QED BY <2>1, <3>1, <3>3, <3>4, RequestStep
  <2>3. CASE sessionFactory # Null
    <3> DEFINE r == [request[t] EXCEPT !.pc = "session", !.bound = sessionFactory]
    <3>1. sessionFactory \in engines /\ sessionFactory \in Thread \cup {Null}
      BY <2>3, TypeParts DEF ServiceInv, ConnectionInv, GlobalsOpen, GlobalsTyped
    <3>2. r \in Request /\ r.pc = "session" /\ r.bound = sessionFactory
      BY <1>0, <3>1 DEF Request
    <3>3. Bound(t, r) /\ OnNode(r) BY <3>1, <3>2 DEF Bound, OnNode
    <3>4. SetRequest(t, r) /\ UNCHANGED <<globals, start, graph>>
      BY <1>8, <2>3 DEF AssertFactory
    <3> HIDE DEF r
    <3> QED BY <2>1, <3>2, <3>3, <3>4, RequestStep
  <2> QED BY <2>2, <2>3
<1>9. CASE End(t)
  BY <1>9, IdleStep DEF End, At, Making
<1> QED
  BY <1>1, <1>2, <1>3, <1>4, <1>5, <1>6, <1>7, <1>8, <1>9 DEF SessionStep

-----------------------------------------------------------------------------
(* get_qdrant_client, and MERGE. *)

LEMMA ClientStepInv ==
    ASSUME ServiceInv, NEW t \in Thread,
           GetClient(t) \/ CheckClient(t) \/ CreateClient(t)
    PROVE  ServiceInv'
<1>0. RequestTyped /\ request[t] \in Request
  BY TypeParts DEF ServiceInv, RequestTyped
<1>1. CASE GetClient(t)
  BY <1>1, GotoStep DEF GetClient, At, Making, Pc
<1>2. CASE CheckClient(t)
  <2>1. ~Making(t) BY <1>2 DEF CheckClient, At, Making
  <2>2. CASE client = Null
    <3>1. t \notin clients
      BY <2>2 DEF ServiceInv, ConnectionInv, GlobalsOpen
    <3> QED BY <1>2, <2>1, <2>2, <3>1, GotoStep DEF CheckClient, Pc
  <2>3. CASE client # Null
    BY <1>2, <2>1, <2>3, GotoStep DEF CheckClient, Pc
  <2> QED BY <2>2, <2>3
<1>3. CASE CreateClient(t)
  <2>1. GlobalsTyped' /\ StartTyped' /\ GraphTyped'
    BY <1>3, TypeParts DEF CreateClient, ServiceInv, GlobalsTyped, StartTyped,
                           GraphTyped, start, graph
  <2>2. RequestTyped'
    BY <1>0, <1>3, GotoIsRequest, RequestStepTyped DEF CreateClient, Goto, Pc
  <2>3. \A u \in Thread :
           /\ u # t => request'[u] = request[u]
           /\ u = t => request'[u].pc = "idle"
    BY <1>0, <1>3 DEF CreateClient, Goto, SetRequest, RequestTyped, Request
  <2>4. t # Null BY ServiceAssumption
  <2>5. GlobalsOpen'
    BY <1>3, <2>4 DEF CreateClient, ServiceInv, ConnectionInv, GlobalsOpen
  <2>6. FactoryComes'
    <3>1. request[t].pc = "connect" BY <1>3 DEF CreateClient, At
    <3> QED
      BY <1>3, <2>3, <3>1
      DEF CreateClient, ServiceInv, ConnectionInv, FactoryComes, Making
  <2>7. RequestsBound'
    BY <1>3, <2>3 DEF CreateClient, ServiceInv, ConnectionInv, RequestsBound
  <2>8. GraphInv'
    <3> DEFINE r == [request[t] EXCEPT !.pc = "idle"]
    <3>1. r \in Request /\ r.pc = "idle" BY <1>0 DEF Request
    <3>2. OnNode(r) BY <3>1 DEF OnNode
    <3>3. SetRequest(t, r) /\ UNCHANGED <<start, graph>>
      BY <1>3 DEF CreateClient, Goto
    <3> HIDE DEF r
    <3> QED BY <3>1, <3>2, <3>3, RequestStepGraph DEF ServiceInv
  <2> QED
    BY <2>1, <2>2, <2>5, <2>6, <2>7, <2>8, TypePartsNext DEF ServiceInv, ConnectionInv
<1> QED BY <1>1, <1>2, <1>3

\* A node that comes to have two copies has an unguarded label.
LEMMA CopiesStep ==
    ASSUME ServiceInv, UNCHANGED <<globals, start, constraints>>,
           NEW t \in Thread, SetRequest(t, Idle), NEW n \in Node,
           copies' = [copies EXCEPT ![n] = @ \cup {t}], ~Making(t),
           copies[n] = {} \/ LabelOf[n] \in unguarded
    PROVE  ServiceInv'
<1>1. \A m \in Node : copies'[m] = IF m = n THEN copies[n] \cup {t} ELSE copies[m]
  BY DEF ServiceInv, ServiceTypeOK
<1>2. \A u \in Thread : request'[u] = IF u = t THEN Idle ELSE request[u]
  BY DEF SetRequest, ServiceInv, ServiceTypeOK
<1>3. GlobalsTyped' /\ StartTyped'
  BY TypeParts DEF ServiceInv, GlobalsTyped, StartTyped, globals, start
<1>4. GraphTyped' /\ RequestTyped'
  <2>1. copies' \in [Node -> SUBSET Thread]
    BY DEF ServiceInv, ServiceTypeOK
  <2> QED
    BY <2>1, IdleIsRequest, RequestStepTyped, TypeParts DEF ServiceInv, GraphTyped
<1>5. ConnectionInv'
  <2>1. Bound(t, Idle) BY DEF Bound, Idle
  <2> QED BY <2>1, IdleIsRequest, RequestStepConnections DEF ServiceInv
<1>6. SchemaProgress'
  <2>1. Violated(Label) => Violated(Label)'
    BY <1>1 DEF Violated
  <2> QED BY <2>1 DEF ServiceInv, GraphInv, SchemaProgress, start
<1>7. RequestsOnNodes'
  BY <1>2 DEF ServiceInv, GraphInv, RequestsOnNodes, start, Idle
<1>8. NodesUnique'
  BY <1>1 DEF ServiceInv, GraphInv, NodesUnique, start
<1> QED
  BY <1>3, <1>4, <1>5, <1>6, <1>7, <1>8, TypePartsNext DEF ServiceInv, GraphInv

LEMMA GraphStepInv ==
    ASSUME ServiceInv, NEW t \in Thread,
           (\E n \in Node : GetDriver(t, n)) \/ MergeNode(t) \/ CreateNode(t)
    PROVE  ServiceInv'
<1>0. RequestTyped /\ request[t] \in Request
  BY TypeParts DEF ServiceInv, RequestTyped
<1>1. CASE \E n \in Node : GetDriver(t, n)
  <2>1. PICK n \in Node : GetDriver(t, n) BY <1>1
  <2> DEFINE r == [request[t] EXCEPT !.pc = "merge", !.node = n]
  <2>2. r \in Request /\ r.pc = "merge" /\ r.node = n BY <1>0 DEF Request
  <2>3. Bound(t, r) /\ OnNode(r) BY <2>2 DEF Bound, OnNode
  <2>4. ~Making(t) BY <2>1 DEF GetDriver, At, Making
  <2>5. SetRequest(t, r) /\ UNCHANGED <<globals, start, graph>> BY <2>1 DEF GetDriver
  <2> HIDE DEF r
  <2> QED BY <2>2, <2>3, <2>4, <2>5, RequestStep
<1>2. CASE MergeNode(t)
  <2> DEFINE n == request[t].node
  <2>1. n \in Node
    BY <1>2 DEF MergeNode, At, ServiceInv, GraphInv, RequestsOnNodes
  <2>2. ~Making(t) BY <1>2 DEF MergeNode, At, Making
  <2>3. CASE copies[n] # {}
    BY <1>2, <2>2, <2>3, IdleStep DEF MergeNode, graph
  <2>4. CASE copies[n] = {} /\ LabelOf[n] \in constraints
    <3>1. copies' = [copies EXCEPT ![n] = @ \cup {t}]
      BY <1>2, <2>4 DEF MergeNode
    <3>2. SetRequest(t, Idle) /\ UNCHANGED <<globals, start, constraints>>
      BY <1>2, <2>4 DEF MergeNode
    <3> QED BY <2>1, <2>2, <2>4, <3>1, <3>2, CopiesStep
  <2>5. CASE copies[n] = {} /\ LabelOf[n] \notin constraints
    <3> DEFINE r == [request[t] EXCEPT !.pc = "creating"]
    <3>1. r \in Request /\ r.pc = "creating" /\ r.node = n BY <1>0 DEF Request
    <3>2. phase = "serving" BY <1>2 DEF MergeNode, At
    <3>3. Bound(t, r) /\ OnNode(r) BY <2>1, <2>5, <3>1, <3>2 DEF Bound, OnNode
    <3>4. SetRequest(t, r) /\ UNCHANGED <<globals, start, graph>>
      BY <1>2, <2>5 DEF MergeNode, Goto, graph
    <3> HIDE DEF r, n
    <3> QED BY <2>2, <3>1, <3>3, <3>4, RequestStep
  <2> QED BY <2>3, <2>4, <2>5
<1>3. CASE CreateNode(t)
  <2> DEFINE n == request[t].node
  <2>1. n \in Node /\ phase = "serving" /\ LabelOf[n] \notin constraints
    BY <1>3 DEF CreateNode, At, ServiceInv, GraphInv, RequestsOnNodes
  <2>2. LabelOf[n] \in unguarded
    BY <2>1, ServiceAssumption DEF ServiceInv, GraphInv, SchemaProgress
  <2>3. ~Making(t) BY <1>3 DEF CreateNode, At, Making
  <2>4. /\ copies' = [copies EXCEPT ![n] = @ \cup {t}]
        /\ SetRequest(t, Idle)
        /\ UNCHANGED <<globals, start, constraints>>
    BY <1>3 DEF CreateNode
  <2> HIDE DEF n
  <2> QED BY <2>1, <2>2, <2>3, <2>4, CopiesStep
<1> QED BY <1>1, <1>2, <1>3

-----------------------------------------------------------------------------
(* What holds of every process and graph store. *)

LEMMA ServiceStepInv == ServiceInv /\ [ServiceNext]_serviceVars => ServiceInv'
<1> SUFFICES ASSUME ServiceInv, [ServiceNext]_serviceVars PROVE ServiceInv'
  OBVIOUS
<1>1. CASE LifespanStep
  BY <1>1, LifespanTypes, LifespanConnections, LifespanGraph DEF ServiceInv
<1>2. CASE \E t \in Thread : SessionStep(t) \/ StoreStep(t)
  BY <1>2, SessionStepInv, ClientStepInv, GraphStepInv DEF StoreStep
<1>3. CASE UNCHANGED serviceVars
  BY <1>3 DEF serviceVars, globals, start, graph, ServiceInv, ServiceTypeOK,
              ConnectionInv, GlobalsOpen, FactoryComes, Making, RequestsBound,
              GraphInv, SchemaProgress, Violated, RequestsOnNodes, NodesUnique
<1> QED BY <1>1, <1>2, <1>3 DEF ServiceNext

LEMMA ServiceInvHolds == ServiceSpec => []ServiceInv
BY InitServiceInv, ServiceStepInv, PTL DEF ServiceSpec

\* Every variable of the process and of the graph store has its type.
THEOREM ServiceTypes == ServiceSpec => []ServiceTypeOK
<1>1. ServiceInv => ServiceTypeOK BY DEF ServiceInv
<1> QED BY <1>1, ServiceInvHolds, PTL

\* However threads interleave in get_engine and get_session_factory, a session
\* is on an open engine (app/db/postgres.py).
THEOREM UsableSessions == ServiceSpec => []SessionsAreUsable
<1>1. ServiceInv => SessionsAreUsable
  BY DEF ServiceInv, ConnectionInv, GlobalsOpen, RequestsBound, SessionsAreUsable
<1> QED BY <1>1, ServiceInvHolds, PTL

\* The assertion of get_session_factory fails for no longer than another thread
\* takes to make the factory.
THEOREM TransientFailures == ServiceSpec => []FailureIsTransient
<1>1. ServiceInv => FailureIsTransient
  BY DEF ServiceInv, ConnectionInv, FactoryComes, RequestsBound, Making,
         FailureIsTransient
<1> QED BY <1>1, ServiceInvHolds, PTL

\* No thread makes a second engine or a second Qdrant client.
THEOREM OneEach == ServiceSpec => []EachCreatesOnce
<1>1. ServiceInv => EachCreatesOnce
  BY DEF ServiceInv, ConnectionInv, RequestsBound, EachCreatesOnce
<1> QED BY <1>1, ServiceInvHolds, PTL

\* Only a label that was once served without its constraint can have two nodes
\* of one id (MERGE in app/repositories/neo4j_repository.py).
THEOREM UniqueNodes == ServiceSpec => []NodesUnique
<1>1. ServiceInv => NodesUnique BY DEF ServiceInv, GraphInv
<1> QED BY <1>1, ServiceInvHolds, PTL

\* A start that Neo4j answers ends with both constraints, or with duplicates that
\* refuse one (ensure_schema).
THEOREM EnsuredSchema == ServiceSpec => []SchemaEnsured
<1>1. ServiceInv => SchemaEnsured
  BY DEF ServiceInv, GraphInv, SchemaProgress, SchemaEnsured
<1> QED BY <1>1, ServiceInvHolds, PTL

-----------------------------------------------------------------------------
(* The schema. *)

\* The tables of each revision, by name.
LEMMA NamesOfRevisions ==
    /\ Latest = 6
    /\ Names(1) = {"document", "document_chunk"}
    /\ Names(2) = {"ontology_entity_type", "ontology_relation_type"}
    /\ Names(3) = {"extracted_entity", "extracted_relation", "audit_log"}
    /\ Names(4) = {"graph_sync_log"}
    /\ Names(5) = {"prompt_template", "prompt_version"}
    /\ Names(6) = {"ai_query_log"}
<1>1. Latest = 6
  BY DEF Latest, Revision
<1>2. /\ Revision[1] = DocumentTables /\ Revision[2] = OntologyTables
      /\ Revision[3] = StagingTables /\ Revision[4] = SyncLogTables
      /\ Revision[5] = PromptTables /\ Revision[6] = QueryLogTables
  BY DEF Revision
<1>3. Names(1) = {"document", "document_chunk"}
  <2>1. DOMAIN DocumentTables = 1..2
    BY DEF DocumentTables
  <2> QED BY <1>2, <2>1 DEF Names, DocumentTables, Table
<1>4. Names(2) = {"ontology_entity_type", "ontology_relation_type"}
  <2>1. DOMAIN OntologyTables = 1..2
    BY DEF OntologyTables
  <2> QED BY <1>2, <2>1 DEF Names, OntologyTables, Table
<1>5. Names(3) = {"extracted_entity", "extracted_relation", "audit_log"}
  <2>1. DOMAIN StagingTables = 1..3
    BY DEF StagingTables
  <2> QED BY <1>2, <2>1 DEF Names, StagingTables, Table
<1>6. Names(4) = {"graph_sync_log"}
  <2>1. DOMAIN SyncLogTables = 1..1
    BY DEF SyncLogTables
  <2> QED BY <1>2, <2>1 DEF Names, SyncLogTables, Table
<1>7. Names(5) = {"prompt_template", "prompt_version"}
  <2>1. DOMAIN PromptTables = 1..2
    BY DEF PromptTables
  <2> QED BY <1>2, <2>1 DEF Names, PromptTables, Table
<1>8. Names(6) = {"ai_query_log"}
  <2>1. DOMAIN QueryLogTables = 1..1
    BY DEF QueryLogTables
  <2> QED BY <1>2, <2>1 DEF Names, QueryLogTables, Table
<1> QED BY <1>1, <1>3, <1>4, <1>5, <1>6, <1>7, <1>8

\* A revision's tables come with the revision and with no earlier one.
LEMMA TablesOfRevision ==
    ASSUME NEW k \in 1..Latest
    PROVE  /\ TablesAt(k) = TablesAt(k - 1) \cup Names(k)
           /\ TablesAt(k - 1) \cap Names(k) = {}
<1>1. TablesAt(k) = TablesAt(k - 1) \cup Names(k)
  <2>1. 1..k = 1..(k - 1) \cup {k}
    BY NamesOfRevisions
  <2> QED BY <2>1 DEF TablesAt
<1>2. ASSUME NEW j \in 1..(k - 1), NEW t \in Names(j) \cap Names(k)
      PROVE  FALSE
  BY <1>2, NamesOfRevisions
<1> QED BY <1>1, <1>2 DEF TablesAt

LEMMA TablesAreTables ==
    ASSUME NEW k \in 0..Latest
    PROVE  TablesAt(k) \subseteq AllTables
BY NamesOfRevisions DEF TablesAt, AllTables

LEMMA NoTablesAtFirst == TablesAt(0) = {}
BY DEF TablesAt

\* The tables of a revision as create_table and drop_table go through them.
LEMMA TablesInOrder ==
    ASSUME NEW k \in 1..Latest
    PROVE  /\ Len(Revision[k]) \in 1..3
           /\ Names(k) = {Revision[k][i].name : i \in 1..Len(Revision[k])}
           /\ Names(k) = {Reverse(Revision[k])[i].name : i \in 1..Len(Revision[k])}
<1>1. /\ Revision[k] \in {DocumentTables, OntologyTables, StagingTables,
                         SyncLogTables, PromptTables, QueryLogTables}
  BY NamesOfRevisions DEF Revision
<1>2. /\ Len(Revision[k]) \in 1..3
      /\ DOMAIN Revision[k] = 1..Len(Revision[k])
  BY <1>1
  DEF DocumentTables, OntologyTables, StagingTables, SyncLogTables, PromptTables,
      QueryLogTables
<1> DEFINE n == Len(Revision[k])
           R == Reverse(Revision[k])
<1>3. \A i \in 1..n : n - i + 1 \in 1..n /\ R[i] = Revision[k][n - i + 1]
  BY <1>2 DEF Reverse
<1>4. \A i \in 1..n : Revision[k][i] = R[n - i + 1] /\ n - i + 1 \in 1..n
  <2> SUFFICES ASSUME NEW i \in 1..n
               PROVE  Revision[k][i] = R[n - i + 1] /\ n - i + 1 \in 1..n
    OBVIOUS
  <2>1. n - i + 1 \in 1..n /\ n - (n - i + 1) + 1 = i
    BY <1>2
  <2> QED BY <1>3, <2>1
<1>5. Names(k) = {Revision[k][i].name : i \in 1..n}
  BY <1>2 DEF Names
<1>6. Names(k) = {R[i].name : i \in 1..n}
  <2>1. ASSUME NEW i \in 1..n PROVE R[i].name \in Names(k)
    <3>1. R[i] = Revision[k][n - i + 1] /\ n - i + 1 \in 1..n
      BY <1>3
    <3> HIDE DEF R, n
    <3> QED BY <3>1, <1>5
  <2>2. ASSUME NEW i \in 1..n PROVE Revision[k][i].name \in {R[j].name : j \in 1..n}
    <3>1. Revision[k][i] = R[n - i + 1] /\ n - i + 1 \in 1..n
      BY <1>4
    <3> HIDE DEF R, n
    <3> QED BY <3>1
  <2> HIDE DEF R, n
  <2> QED BY <2>1, <2>2, <1>5
<1> QED BY <1>2, <1>5, <1>6

\* A seed has two tables of one revision, and no other seed's.
LEMMA TablesOfSeeds ==
    ASSUME NEW s \in DOMAIN SeedOf
    PROVE  /\ DOMAIN SeedOf[s] = 1..2
           /\ SeedOf[s][1] # SeedOf[s][2]
           /\ SeedOf[s][1] \in SeedTable /\ SeedOf[s][2] \in SeedTable
           /\ \A k \in 0..Latest : SeedOf[s][1] \in TablesAt(k)
                                      <=> SeedOf[s][2] \in TablesAt(k)
           /\ \A r \in DOMAIN SeedOf \ {s} : \A i, j \in 1..2 :
                 SeedOf[r][i] # SeedOf[s][j]
           /\ s \notin {"none", "upgrade", "downgrade"}
<1>1. DOMAIN SeedOf = {"ontology", "prompt"}
  BY DEF SeedOf
<1>2. /\ SeedOf["ontology"] = <<"ontology_entity_type", "ontology_relation_type">>
      /\ SeedOf["prompt"] = <<"prompt_template", "prompt_version">>
  BY DEF SeedOf
<1>3. DOMAIN SeedOf[s] = 1..2
  BY <1>1, <1>2
<1>4. SeedOf[s][1] \in SeedTable /\ SeedOf[s][2] \in SeedTable
  BY <1>3 DEF SeedTable, Range
<1>5. ASSUME NEW k \in 0..Latest
      PROVE  SeedOf[s][1] \in TablesAt(k) <=> SeedOf[s][2] \in TablesAt(k)
  <2>1. ASSUME NEW i \in 1..k
        PROVE  SeedOf[s][1] \in Names(i) <=> SeedOf[s][2] \in Names(i)
    BY <1>1, <1>2, <2>1, NamesOfRevisions
  <2> QED BY <2>1 DEF TablesAt
<1>6. \A r \in DOMAIN SeedOf \ {s} : \A i, j \in 1..2 : SeedOf[r][i] # SeedOf[s][j]
  <2> SUFFICES ASSUME NEW r \in DOMAIN SeedOf \ {s}, NEW i \in 1..2, NEW j \in 1..2
               PROVE  SeedOf[r][i] # SeedOf[s][j]
    OBVIOUS
  <2>1. i \in {1, 2} /\ j \in {1, 2}
    OBVIOUS
  <2> QED BY <1>1, <1>2, <2>1
<1> QED BY <1>1, <1>2, <1>3, <1>4, <1>5, <1>6

-----------------------------------------------------------------------------
(* Types. *)

LEMMA NoneIsCommand == None \in Command
BY NamesOfRevisions DEF None, Command

LEMMA InitType == DatabaseInit => DatabaseTypeOK
<1>1. None \in Command
  BY NoneIsCommand
<1>2. \A t \in SeedTable : 0 \in Nat
  OBVIOUS
<1>3. 0 \in 0..Latest
  BY NamesOfRevisions
<1> QED BY <1>1, <1>2, <1>3 DEF DatabaseInit, DatabaseTypeOK

LEMMA SetCommandType ==
    ASSUME DatabaseTypeOK, NEW o \in Operator, NEW c \in Command, SetCommand(o, c)
    PROVE  /\ command' \in [Operator -> Command]
           /\ command'[o] = c
           /\ \A p \in Operator \ {o} : command'[p] = command[p]
BY DEF DatabaseTypeOK, SetCommand

-----------------------------------------------------------------------------
(* Migrations. *)

\* A migration is part of the way from one revision to the next: it has the
\* tables of the one it has got to, and the first of the next one, or not the
\* last of that one.
Progress(o) ==
    LET c == command[o]
    IN  /\ c.kind = "upgrade" =>
              /\ c.at <= c.target
              /\ c.at = c.target => c.done = 0
              /\ c.tables = TablesAt(c.at)
                               \cup {Revision[c.at + 1][i].name : i \in 1..c.done}
        /\ c.kind = "downgrade" =>
              /\ c.target <= c.at
              /\ c.at = c.target => c.done = 0
              /\ c.tables = TablesAt(c.at)
                               \ {Reverse(Revision[c.at])[i].name : i \in 1..c.done}

\* Who has written alembic_version has it to itself, as it was read.
StampHolds(o) ==
    Stamped(o) => /\ command[o].base = revision
                  /\ \A p \in Operator \ {o} : ~Stamped(p)

MigrationInv ==
    /\ DatabaseTypeOK
    /\ \A o \in Operator : Progress(o) /\ StampHolds(o)
    /\ WholeRevisions

LEMMA MigrationInit == DatabaseInit => MigrationInv
<1> SUFFICES ASSUME DatabaseInit PROVE MigrationInv
  OBVIOUS
<1>1. \A o \in Operator : command[o].kind = "none"
  BY DEF DatabaseInit, None
<1>2. WholeRevisions
  BY NoTablesAtFirst DEF WholeRevisions, DatabaseInit
<1> QED BY <1>1, <1>2, InitType
        DEF MigrationInv, Progress, StampHolds, Stamped, Migrates

\* A step of one command leaves the others as they are.
LEMMA OthersStay ==
    ASSUME NEW o \in Operator, \A p \in Operator \ {o} : command'[p] = command[p],
           NEW p \in Operator \ {o}
    PROVE  /\ Progress(p) => Progress(p)'
           /\ Stamped(p)' <=> Stamped(p)
           /\ Changed(p)' = Changed(p)
           /\ Touched(p)' = Touched(p)
<1>1. command'[p] = command[p]
  OBVIOUS
<1> QED BY <1>1 DEF Progress, Stamped, Migrates, Changed, Touched

\* A step within a command that leaves alembic_version alone.
LEMMA MigrationStep ==
    ASSUME MigrationInv, NEW o \in Operator, NEW c \in Command, SetCommand(o, c),
           Progress(o)', UNCHANGED <<tables, revision, rows>>,
           Stamped(o)' => \/ Stamped(o) /\ c.base = command[o].base
                          \/ /\ revision = c.base
                             /\ \A p \in Operator \ {o} : ~Stamped(p)
    PROVE  MigrationInv'
<1>1. /\ command' \in [Operator -> Command]
      /\ command'[o] = c
      /\ \A p \in Operator \ {o} : command'[p] = command[p]
  BY SetCommandType DEF MigrationInv
<1>2. DatabaseTypeOK'
  BY <1>1 DEF MigrationInv, DatabaseTypeOK
<1>3. \A p \in Operator \ {o} : Progress(p)' /\ (Stamped(p)' <=> Stamped(p))
  BY <1>1, OthersStay DEF MigrationInv
<1>4. ASSUME NEW p \in Operator PROVE StampHolds(p)'
  BY <1>1, <1>3 DEF MigrationInv, StampHolds
<1> QED BY <1>2, <1>3, <1>4 DEF MigrationInv, WholeRevisions

LEMMA AlembicSteps ==
    ASSUME MigrationInv, NEW o \in Operator, NEW target \in 0..Latest,
           NEW kind \in {"upgrade", "downgrade"}, Alembic(o, kind, target),
           IF kind = "upgrade" THEN revision <= target ELSE target <= revision
    PROVE  MigrationInv'
<1> DEFINE c == [None EXCEPT !.kind = kind, !.base = revision, !.at = revision,
                             !.target = target, !.tables = TablesAt(revision)]
<1>1. TablesAt(revision) \subseteq AllTables /\ revision \in 0..Latest
  BY TablesAreTables DEF MigrationInv, DatabaseTypeOK
<1>2. c \in Command
  BY <1>1, NoneIsCommand DEF Command
<1>3. SetCommand(o, c) /\ UNCHANGED <<tables, revision, rows>>
  BY DEF Alembic
<1>4. command'[o] = c
  BY <1>3 DEF SetCommand, MigrationInv, DatabaseTypeOK
<1>5. /\ c.kind = kind /\ c.base = revision /\ c.at = revision /\ c.done = 0
      /\ c.target = target /\ c.tables = TablesAt(revision)
  BY DEF None
<1> HIDE DEF c
<1>6. Progress(o)'
  <2>1. 1..c.done = {}
    BY <1>5
  <2> QED BY <1>4, <1>5, <2>1 DEF Progress
<1>7. ~Stamped(o)'
  BY <1>4, <1>5 DEF Stamped
<1> QED BY <1>2, <1>3, <1>6, <1>7, MigrationStep

LEMMA CreateTableSteps ==
    ASSUME MigrationInv, NEW o \in Operator, CreateTable(o)
    PROVE  MigrationInv'
<1> DEFINE b == command[o]
           k == b.at + 1
           n == Len(Revision[k])
           t == Revision[k][b.done + 1].name
           c == [b EXCEPT !.tables = @ \cup {t}, !.done = @ + 1]
<1>1. b \in Command /\ Latest = 6 /\ Progress(o)
  BY NamesOfRevisions DEF MigrationInv, DatabaseTypeOK
<1>2. /\ b.at \in 0..6 /\ b.target \in 0..6 /\ b.done \in 0..3
      /\ b.tables \subseteq AllTables
  BY <1>1 DEF Command
<1>3. b.kind = "upgrade" /\ b.at < b.target /\ b.done < n
  BY DEF CreateTable
<1>4. k \in 1..Latest
  BY <1>1, <1>2, <1>3
<1>5. n \in 1..3
  BY <1>4, TablesInOrder
<1>6. b.done + 1 \in 1..n /\ b.done + 1 \in 0..3
  <2> HIDE DEF n, b
  <2> QED BY <1>2, <1>3, <1>5
<1>7. t \in AllTables
  <2>1. t \in Names(k)
    BY <1>4, <1>6, TablesInOrder
  <2> QED BY <2>1, <1>4 DEF AllTables, TablesAt
<1>8. c \in Command
  BY <1>1, <1>6, <1>7 DEF Command
<1>9. SetCommand(o, c) /\ UNCHANGED <<tables, revision, rows>>
  BY DEF CreateTable
<1>10. command'[o] = c
  BY <1>9 DEF SetCommand, MigrationInv, DatabaseTypeOK
<1>11. /\ c.kind = b.kind /\ c.at = b.at /\ c.target = b.target /\ c.base = b.base
       /\ c.done = b.done + 1 /\ c.tables = b.tables \cup {t}
  BY <1>1 DEF Command
<1> HIDE DEF c
<1>12. Progress(o)'
  <2>1. 1..c.done = 1..b.done \cup {b.done + 1}
    BY <1>2, <1>11
  <2>2. c.tables = TablesAt(c.at) \cup {Revision[c.at + 1][i].name : i \in 1..c.done}
    BY <1>1, <1>3, <1>11, <2>1 DEF Progress
  <2>3. c.at <= c.target /\ c.at # c.target
    BY <1>2, <1>3, <1>11
  <2> QED BY <1>3, <1>10, <1>11, <2>2, <2>3 DEF Progress
<1>13. Stamped(o)' => Stamped(o)
  BY <1>10, <1>11 DEF Stamped, Migrates
<1> QED BY <1>8, <1>9, <1>11, <1>12, <1>13, MigrationStep

LEMMA DropTableSteps ==
    ASSUME MigrationInv, NEW o \in Operator, DropTable(o)
    PROVE  MigrationInv'
<1> DEFINE b == command[o]
           n == Len(Revision[b.at])
           t == Reverse(Revision[b.at])[b.done + 1].name
           c == [b EXCEPT !.tables = @ \ {t}, !.done = @ + 1]
<1>1. b \in Command /\ Latest = 6 /\ Progress(o)
  BY NamesOfRevisions DEF MigrationInv, DatabaseTypeOK
<1>2. /\ b.at \in 0..6 /\ b.target \in 0..6 /\ b.done \in 0..3
      /\ b.tables \subseteq AllTables
  BY <1>1 DEF Command
<1>3. b.kind = "downgrade" /\ b.at > b.target /\ b.done < n
  BY DEF DropTable
<1>4. b.at \in 1..Latest
  BY <1>1, <1>2, <1>3
<1>5. n \in 1..3
  BY <1>4, TablesInOrder
<1>6. b.done + 1 \in 0..3
  <2> HIDE DEF n, b
  <2> QED BY <1>2, <1>3, <1>5
<1>8. c \in Command
  BY <1>1, <1>6 DEF Command
<1>9. SetCommand(o, c) /\ UNCHANGED <<tables, revision, rows>>
  BY DEF DropTable
<1>10. command'[o] = c
  BY <1>9 DEF SetCommand, MigrationInv, DatabaseTypeOK
<1>11. /\ c.kind = b.kind /\ c.at = b.at /\ c.target = b.target /\ c.base = b.base
       /\ c.done = b.done + 1 /\ c.tables = b.tables \ {t}
  BY <1>1 DEF Command
<1> HIDE DEF c
<1>12. Progress(o)'
  <2>1. 1..c.done = 1..b.done \cup {b.done + 1}
    BY <1>2, <1>11
  <2>2. c.tables = TablesAt(c.at)
                      \ {Reverse(Revision[c.at])[i].name : i \in 1..c.done}
    BY <1>1, <1>3, <1>11, <2>1 DEF Progress
  <2>3. c.target <= c.at /\ c.at # c.target
    BY <1>2, <1>3, <1>11
  <2> QED BY <1>3, <1>10, <1>11, <2>2, <2>3 DEF Progress
<1>13. Stamped(o)' => Stamped(o)
  BY <1>10, <1>11 DEF Stamped, Migrates
<1> QED BY <1>8, <1>9, <1>11, <1>12, <1>13, MigrationStep

LEMMA StampSteps ==
    ASSUME MigrationInv, NEW o \in Operator, Stamp(o)
    PROVE  MigrationInv'
<1> DEFINE b == command[o]
           k == IF b.kind = "upgrade" THEN b.at + 1 ELSE b.at - 1
           c == [b EXCEPT !.at = k, !.done = 0]
<1>1. b \in Command /\ Latest = 6 /\ Progress(o) /\ StampHolds(o)
  BY NamesOfRevisions DEF MigrationInv, DatabaseTypeOK
<1>2. b.at \in 0..6 /\ b.target \in 0..6
  BY <1>1 DEF Command
<1>3. /\ b.kind \in {"upgrade", "downgrade"} /\ b.at # b.target
      /\ b.done = Len(Revision[IF b.kind = "upgrade" THEN k ELSE b.at])
      /\ \A p \in Operator \ {o} : ~Stamped(p)
      /\ revision = b.base
      /\ SetCommand(o, c) /\ UNCHANGED <<tables, revision, rows>>
  BY DEF Stamp, Migrates
<1>4. /\ b.kind = "upgrade" => b.at < b.target /\ b.at + 1 \in 1..Latest
      /\ b.kind = "downgrade" => b.target < b.at /\ b.at \in 1..Latest
  BY <1>1, <1>2, <1>3 DEF Progress
<1>5. k \in 0..Latest
  <2>1. CASE b.kind = "upgrade"
    <3>1. k = b.at + 1
      BY <2>1
    <3>2. b.at + 1 \in 1..6
      BY <1>1, <1>4, <2>1
    <3> HIDE DEF b, k
    <3> QED BY <1>1, <3>1, <3>2
  <2>2. CASE b.kind = "downgrade"
    <3>1. k = b.at - 1 /\ b.at \in 1..6
      BY <1>1, <1>4, <2>2
    <3> HIDE DEF b, k
    <3> QED BY <1>1, <3>1
  <2> QED BY <1>3, <2>1, <2>2
<1>6. c \in Command
  <2>1. b \in Command /\ 0 \in 0..3
    BY <1>1
  <2> HIDE DEF b, k
  <2>2. [b EXCEPT !.at = k] \in Command
    BY <2>1, <1>5 DEF Command
  <2>3. [[b EXCEPT !.at = k] EXCEPT !.done = 0] \in Command
    BY <2>1, <2>2 DEF Command
  <2>4. c = [[b EXCEPT !.at = k] EXCEPT !.done = 0]
    BY <2>1 DEF Command
  <2> QED BY <2>3, <2>4
<1>7. /\ c.kind = b.kind /\ c.at = k /\ c.target = b.target /\ c.base = b.base
      /\ c.done = 0 /\ c.tables = b.tables
  BY <1>1 DEF Command
<1>8. command'[o] = c
  BY <1>3 DEF SetCommand, MigrationInv, DatabaseTypeOK
<1>9. CASE b.kind = "upgrade"
  <2>1. b.tables = TablesAt(b.at) \cup Names(k)
    BY <1>1, <1>3, <1>4, <1>9, TablesInOrder DEF Progress
  <2>2. TablesAt(k) = TablesAt(k - 1) \cup Names(k) /\ k - 1 = b.at
    BY <1>2, <1>4, <1>9, TablesOfRevision
  <2>3. b.tables = TablesAt(k)
    BY <2>1, <2>2
  <2> HIDE DEF c
  <2>4. c.tables = TablesAt(c.at) \cup {Revision[c.at + 1][i].name : i \in 1..c.done}
    <3>1. 1..c.done = {}
      BY <1>7
    <3> QED BY <1>7, <2>3, <3>1
  <2>5. Progress(o)'
    BY <1>2, <1>4, <1>7, <1>8, <1>9, <2>4 DEF Progress
  <2> QED BY <1>3, <1>6, <1>7, <2>5, MigrationStep
<1>10. CASE b.kind = "downgrade"
  <2>1. b.tables = TablesAt(b.at) \ Names(b.at)
    BY <1>1, <1>3, <1>4, <1>10, TablesInOrder DEF Progress
  <2>2. /\ TablesAt(b.at) = TablesAt(b.at - 1) \cup Names(b.at)
        /\ TablesAt(b.at - 1) \cap Names(b.at) = {}
        /\ b.at - 1 = k
    BY <1>4, <1>10, TablesOfRevision
  <2>3. b.tables = TablesAt(k)
    BY <2>1, <2>2
  <2> HIDE DEF c
  <2>4. c.tables = TablesAt(c.at)
                      \ {Reverse(Revision[c.at])[i].name : i \in 1..c.done}
    <3>1. 1..c.done = {}
      BY <1>7
    <3> QED BY <1>7, <2>3, <3>1
  <2>5. Progress(o)'
    BY <1>2, <1>4, <1>7, <1>8, <1>10, <2>4 DEF Progress
  <2> QED BY <1>3, <1>6, <1>7, <2>5, MigrationStep
<1> QED BY <1>3, <1>9, <1>10

LEMMA CommitMigrationSteps ==
    ASSUME MigrationInv, NEW o \in Operator, CommitMigration(o)
    PROVE  MigrationInv'
<1> DEFINE b == command[o]
<1>1. /\ b \in Command /\ Latest = 6 /\ Progress(o) /\ StampHolds(o)
      /\ revision \in 0..Latest
  BY NamesOfRevisions DEF MigrationInv, DatabaseTypeOK
<1>2. b.at \in 0..Latest /\ b.base \in 0..Latest
  BY <1>1 DEF Command
<1>3. Migrates(o) /\ b.at = b.target /\ SetCommand(o, None)
  BY DEF CommitMigration
<1>4. b.tables = TablesAt(b.at)
  <2>1. b.kind \in {"upgrade", "downgrade"} /\ 1..b.done = {}
    BY <1>1, <1>3 DEF Migrates, Progress
  <2> QED BY <1>1, <2>1 DEF Progress
<1>5. tables' = TablesAt(revision') /\ revision' \in 0..Latest
  <2>1. CASE Stamped(o)
    <3>1. revision' = b.at /\ b.base = revision
      BY <1>1, <2>1 DEF CommitMigration, StampHolds
    <3>2. tables = TablesAt(b.base)
      BY <3>1 DEF MigrationInv, WholeRevisions
    <3>3. tables' = b.tables
      BY <1>3, <3>2 DEF CommitMigration, Changed
    <3> QED BY <1>2, <1>4, <3>1, <3>3
  <2>2. CASE ~Stamped(o)
    <3>1. revision' = revision /\ b.at = b.base
      BY <1>3, <2>2 DEF CommitMigration, Stamped
    <3>2. Changed(o) = {}
      BY <1>4, <3>1 DEF Changed
    <3>3. tables' = tables
      BY <3>2 DEF CommitMigration
    <3> QED BY <1>1, <3>1, <3>3 DEF MigrationInv, WholeRevisions
  <2> QED BY <2>1, <2>2
<1>6. /\ command' \in [Operator -> Command]
      /\ command'[o] = None
      /\ \A p \in Operator \ {o} : command'[p] = command[p]
  BY <1>3, NoneIsCommand, SetCommandType DEF MigrationInv
<1>7. DatabaseTypeOK'
  <2>1. rows' \in [SeedTable -> Nat]
    BY DEF CommitMigration, MigrationInv, DatabaseTypeOK
  <2>2. tables' \subseteq AllTables
    BY <1>5, TablesAreTables
  <2> QED BY <1>5, <1>6, <2>1, <2>2 DEF DatabaseTypeOK
<1>8. Progress(o)' /\ ~Stamped(o)'
  BY <1>6 DEF Progress, Stamped, Migrates, None
<1>9. \A p \in Operator \ {o} : Progress(p)' /\ (Stamped(p)' <=> Stamped(p))
  BY <1>6, OthersStay DEF MigrationInv
<1>10. ASSUME NEW p \in Operator PROVE StampHolds(p)'
  <2>1. CASE p = o
    BY <1>8, <2>1 DEF StampHolds
  <2>2. CASE p # o /\ Stamped(p)
    <3>1. ~Stamped(o) /\ command[p].base = revision
      BY <2>2 DEF MigrationInv, StampHolds
    <3>2. revision' = revision /\ command'[p] = command[p]
      BY <1>6, <2>2, <3>1 DEF CommitMigration
    <3>3. \A q \in Operator \ {p} : ~Stamped(q)'
      BY <1>8, <1>9, <2>2 DEF MigrationInv, StampHolds
    <3> QED BY <3>1, <3>2, <3>3 DEF StampHolds
  <2>3. CASE p # o /\ ~Stamped(p)
    BY <1>9, <2>3 DEF StampHolds
  <2> QED BY <2>1, <2>2, <2>3
<1> QED BY <1>5, <1>7, <1>8, <1>9, <1>10 DEF MigrationInv, WholeRevisions

\* A seed's step, and an end without a commit, leave the schema alone.
LEMMA OtherSteps ==
    ASSUME MigrationInv, NEW o \in Operator, NEW c \in Command, SetCommand(o, c),
           c.kind \notin {"upgrade", "downgrade"},
           UNCHANGED <<tables, revision>>, rows' \in [SeedTable -> Nat]
    PROVE  MigrationInv'
<1>1. /\ command' \in [Operator -> Command]
      /\ command'[o] = c
      /\ \A p \in Operator \ {o} : command'[p] = command[p]
  BY SetCommandType DEF MigrationInv
<1>2. DatabaseTypeOK'
  BY <1>1 DEF MigrationInv, DatabaseTypeOK
<1>3. Progress(o)' /\ ~Stamped(o)'
  BY <1>1 DEF Progress, Stamped, Migrates
<1>4. \A p \in Operator \ {o} : Progress(p)' /\ (Stamped(p)' <=> Stamped(p))
  BY <1>1, OthersStay DEF MigrationInv
<1>5. ASSUME NEW p \in Operator PROVE StampHolds(p)'
  BY <1>1, <1>3, <1>4 DEF MigrationInv, StampHolds
<1> QED BY <1>2, <1>3, <1>4, <1>5 DEF MigrationInv, WholeRevisions

LEMMA SeedRunSteps ==
    ASSUME MigrationInv, NEW o \in Operator,
           \/ \E s \in Seeds : RunSeed(o, s)
           \/ SelectRows(o) \/ InsertRows(o) \/ CommitSeed(o) \/ Abort(o)
    PROVE  MigrationInv'
<1>1. /\ command[o] \in Command /\ None.kind = "none"
      /\ rows \in [SeedTable -> Nat]
  BY DEF MigrationInv, DatabaseTypeOK, None
<1>2. ASSUME NEW s \in Seeds, RunSeed(o, s) PROVE MigrationInv'
  <2> DEFINE c == [None EXCEPT !.kind = s]
  <2>1. s \in DOMAIN SeedOf
    BY DatabaseAssumption
  <2>2. c \in Command /\ c.kind = s
    BY <2>1, NoneIsCommand DEF Command
  <2>3. SetCommand(o, c) /\ UNCHANGED <<tables, revision, rows>>
    BY <1>2 DEF RunSeed
  <2>4. s \notin {"upgrade", "downgrade"}
    BY <2>1, TablesOfSeeds
  <2> HIDE DEF c
  <2> QED BY <1>1, <2>2, <2>3, <2>4, OtherSteps
<1>3. ASSUME SelectRows(o) PROVE MigrationInv'
  <2> DEFINE f == rows[CurrentTable(o)] > 0
             c == [command[o] EXCEPT !.selected = TRUE, !.found = f]
  <2>1. command[o].kind \in DOMAIN SeedOf
    BY <1>3 DEF SelectRows, SeedsAt
  <2>2. c \in Command /\ c.kind = command[o].kind
    <3>1. f \in BOOLEAN
      OBVIOUS
    <3> HIDE DEF f
    <3> QED BY <1>1, <3>1 DEF Command
  <2>3. SetCommand(o, c) /\ UNCHANGED <<tables, revision, rows>>
    BY <1>3 DEF SelectRows
  <2>4. command[o].kind \notin {"upgrade", "downgrade"}
    BY <2>1, TablesOfSeeds
  <2> HIDE DEF c
  <2> QED BY <1>1, <2>2, <2>3, <2>4, OtherSteps
<1>4. ASSUME InsertRows(o) PROVE MigrationInv'
  <2> DEFINE ins == IF command[o].found THEN command[o].inserted
                    ELSE command[o].inserted \cup {CurrentTable(o)}
             c == [command[o] EXCEPT
                     !.selected = FALSE, !.done = @ + 1,
                     !.inserted = IF command[o].found THEN @
                                  ELSE @ \cup {CurrentTable(o)}]
  <2>1. command[o].kind \in DOMAIN SeedOf /\ command[o].done \in {0, 1}
    BY <1>1, <1>4 DEF InsertRows, SeedsAt, Command
  <2>2. CurrentTable(o) \in SeedTable
    <3>1. CurrentTable(o) \in {SeedOf[command[o].kind][1], SeedOf[command[o].kind][2]}
      BY <2>1 DEF CurrentTable
    <3> QED BY <2>1, <3>1, TablesOfSeeds
  <2>3. c \in Command /\ c.kind = command[o].kind
    <3>1. command[o].done + 1 \in 0..3
      BY <2>1
    <3> QED BY <1>1, <2>2, <3>1 DEF Command
  <2>4. SetCommand(o, c) /\ UNCHANGED <<tables, revision, rows>>
    BY <1>4 DEF InsertRows
  <2>5. command[o].kind \notin {"upgrade", "downgrade"}
    BY <2>1, TablesOfSeeds
  <2> HIDE DEF c
  <2> QED BY <1>1, <2>3, <2>4, <2>5, OtherSteps
<1>5. ASSUME CommitSeed(o) PROVE MigrationInv'
  <2>1. rows' \in [SeedTable -> Nat]
    BY <1>1, <1>5 DEF CommitSeed
  <2> QED BY <1>1, <1>5, <2>1, NoneIsCommand, OtherSteps DEF CommitSeed
<1>6. ASSUME Abort(o) PROVE MigrationInv'
  BY <1>1, <1>6, NoneIsCommand, OtherSteps DEF Abort
<1> QED BY <1>2, <1>3, <1>4, <1>5, <1>6

LEMMA MigrationNext == MigrationInv /\ [DatabaseNext]_databaseVars => MigrationInv'
<1> SUFFICES ASSUME MigrationInv, [DatabaseNext]_databaseVars PROVE MigrationInv'
  OBVIOUS
<1>1. CASE UNCHANGED databaseVars
  BY <1>1
  DEF databaseVars, MigrationInv, DatabaseTypeOK, WholeRevisions, Progress,
      StampHolds, Stamped, Migrates
<1>2. CASE DatabaseNext
  <2>1. PICK o \in Operator :
           \/ Upgrade(o) \/ Downgrade(o) \/ CreateTable(o) \/ DropTable(o)
           \/ Stamp(o) \/ CommitMigration(o)
           \/ \E s \in Seeds : RunSeed(o, s)
           \/ SelectRows(o) \/ InsertRows(o) \/ CommitSeed(o)
           \/ Abort(o)
    BY <1>2 DEF DatabaseNext
  <2>2. Latest = 6 /\ revision \in 0..6
    BY NamesOfRevisions DEF MigrationInv, DatabaseTypeOK
  <2>3. CASE Upgrade(o)
    <3>1. Latest \in 0..Latest /\ revision <= Latest
      BY <2>2
    <3> QED BY <2>3, <3>1, AlembicSteps DEF Upgrade
  <2>4. CASE Downgrade(o)
    <3>1. PICK k \in 0..revision-1 : Alembic(o, "downgrade", k)
      BY <2>4 DEF Downgrade
    <3>2. k \in 0..Latest /\ k <= revision
      BY <2>2
    <3> QED BY <3>1, <3>2, AlembicSteps
  <2> QED BY <2>1, <2>3, <2>4, CreateTableSteps, DropTableSteps, StampSteps,
             CommitMigrationSteps, SeedRunSteps
<1> QED BY <1>1, <1>2

\* Whatever operators run side by side and wherever a command ends, states are
\* well typed.
THEOREM DatabaseTypeCorrect == DatabaseSpec => []DatabaseTypeOK
<1>1. MigrationInv => DatabaseTypeOK
  BY DEF MigrationInv
<1> QED BY <1>1, MigrationInit, MigrationNext, PTL DEF DatabaseSpec

\* The tables are at all times those of the revision alembic_version names:
\* commands that overlap, and those that die, leave no half of a revision.
THEOREM RevisionsAreWhole == DatabaseSpec => []WholeRevisions
<1>1. MigrationInv => WholeRevisions
  BY DEF MigrationInv
<1> QED BY <1>1, MigrationInit, MigrationNext, PTL DEF DatabaseSpec

-----------------------------------------------------------------------------
(* Seeds. *)

\* What a seed has read or written is there and nobody migrates it.
LocksHold(o) ==
    /\ Touched(o) \subseteq tables
    /\ \A p \in Operator : Touched(o) \cap Changed(p) = {}

\* A seed has inserted exactly the rows that are still missing, and they are
\* nobody else's; rows it has found stay.
SeedHolds(o) ==
    LET c == command[o]
    IN  /\ IF c.kind \in DOMAIN SeedOf
           THEN /\ c.done \in 0..2
                /\ c.selected => c.done < 2
                /\ c.inserted \subseteq {SeedOf[c.kind][i] : i \in 1..c.done}
                /\ \A i \in 1..c.done :
                      SeedOf[c.kind][i] \in c.inserted <=> rows[SeedOf[c.kind][i]] = 0
                /\ c.selected /\ c.found => rows[SeedOf[c.kind][c.done + 1]] # 0
           ELSE c.inserted = {}
        /\ \A p \in Operator \ {o} : c.inserted \cap command[p].inserted = {}

SeedInv ==
    /\ MigrationInv
    /\ \A o \in Operator : LocksHold(o) /\ SeedHolds(o)
    /\ SeededOnce

LEMMA SeedInit == DatabaseInit => SeedInv
<1> SUFFICES ASSUME DatabaseInit PROVE SeedInv
  OBVIOUS
<1>1. \A o \in Operator : command[o] = None
  BY DEF DatabaseInit
<1>2. "none" \notin DOMAIN SeedOf
  BY DEF SeedOf
<1>3. \A o \in Operator : Touched(o) = {} /\ command[o].inserted = {}
                          /\ command[o].kind \notin DOMAIN SeedOf
  BY <1>1, <1>2 DEF Touched, None
<1>4. SeededOnce
  BY TablesOfSeeds DEF SeededOnce, DatabaseInit
<1> QED BY <1>3, <1>4, MigrationInit DEF SeedInv, LocksHold, SeedHolds

\* A step of one operator keeps the others' seeds good if it neither drops what
\* they have touched, nor takes rows away, nor inserts those they insert.
LEMMA SeedStep ==
    ASSUME SeedInv, MigrationInv', NEW o \in Operator,
           \A p \in Operator \ {o} : command'[p] = command[p],
           LocksHold(o)', SeedHolds(o)', SeededOnce',
           \A p \in Operator \ {o} :
              /\ Touched(p) \subseteq tables'
              /\ Touched(p) \cap Changed(o)' = {}
              /\ \A t \in Touched(p) :
                    /\ rows[t] # 0 => rows'[t] # 0
                    /\ t \in command[p].inserted /\ rows[t] = 0 => rows'[t] = 0
    PROVE  SeedInv'
<1>1. ASSUME NEW p \in Operator \ {o} PROVE LocksHold(p)'
  <2>1. Touched(p)' = Touched(p)
    BY OthersStay
  <2>2. \A q \in Operator \ {o} : Changed(q)' = Changed(q)
    BY OthersStay
  <2>3. \A q \in Operator : Touched(p) \cap Changed(q) = {}
    BY DEF SeedInv, LocksHold
  <2>4. \A q \in Operator : Touched(p) \cap Changed(q)' = {}
    BY <2>2, <2>3
  <2> QED BY <2>1, <2>4 DEF LocksHold
<1>2. ASSUME NEW p \in Operator \ {o} PROVE SeedHolds(p)'
  <2> DEFINE c == command[p]
  <2>1. command'[p] = c /\ SeedHolds(p)
    BY DEF SeedInv
  <2>2. \A q \in Operator \ {p} : c.inserted \cap (command'[q]).inserted = {}
    <3>1. \A q \in Operator \ {p, o} : c.inserted \cap (command'[q]).inserted = {}
      BY <2>1 DEF SeedHolds
    <3>2. (command'[o]).inserted \cap (command'[p]).inserted = {}
      BY DEF SeedHolds
    <3> QED BY <2>1, <3>1, <3>2
  <2>3. CASE c.kind \in DOMAIN SeedOf
    <3>1. c.done \in 0..2 /\ (c.selected => c.done < 2)
      BY <2>1, <2>3 DEF SeedHolds
    <3>2. ASSUME NEW i \in 1..c.done
          PROVE  SeedOf[c.kind][i] \in c.inserted <=> rows'[SeedOf[c.kind][i]] = 0
      <4>1. i \in 1..c.done + (IF c.selected THEN 1 ELSE 0)
        BY <3>1
      <4>2. SeedOf[c.kind][i] \in Touched(p)
        BY <2>3, <4>1 DEF Touched
      <4>3. SeedOf[c.kind][i] \in c.inserted <=> rows[SeedOf[c.kind][i]] = 0
        BY <2>1, <2>3 DEF SeedHolds
      <4> QED BY <4>2, <4>3
    <3>3. ASSUME c.selected
          PROVE  rows[SeedOf[c.kind][c.done + 1]] # 0
                    => rows'[SeedOf[c.kind][c.done + 1]] # 0
      <4>1. c.done + 1 \in 1..c.done + (IF c.selected THEN 1 ELSE 0)
        BY <3>1, <3>3
      <4>2. SeedOf[c.kind][c.done + 1] \in Touched(p)
        BY <2>3, <4>1 DEF Touched
      <4> QED BY <4>2
    <3> QED BY <2>1, <2>2, <2>3, <3>2, <3>3 DEF SeedHolds
  <2>4. CASE c.kind \notin DOMAIN SeedOf
    BY <2>1, <2>2, <2>4 DEF SeedHolds
  <2> QED BY <2>3, <2>4
<1> QED BY <1>1, <1>2 DEF SeedInv

LEMMA SeedTouchesSeedTables ==
    ASSUME NEW o \in Operator, SeedHolds(o)
    PROVE  Touched(o) \subseteq SeedTable
<1> DEFINE c == command[o]
<1>1. CASE c.kind \in DOMAIN SeedOf
  <2>1. c.done \in 0..2 /\ (c.selected => c.done < 2)
    BY <1>1 DEF SeedHolds
  <2>2. \A i \in 1..c.done + (IF c.selected THEN 1 ELSE 0) : i \in {1, 2}
    BY <2>1
  <2> QED BY <1>1, <2>2, TablesOfSeeds DEF Touched
<1>2. CASE c.kind \notin DOMAIN SeedOf
  BY <1>2 DEF Touched
<1> QED BY <1>1, <1>2

\* A step within a migration.
LEMMA SchemaStep ==
    ASSUME SeedInv, MigrationInv', NEW o \in Operator, NEW c, SetCommand(o, c),
           c.kind \in {"upgrade", "downgrade"}, c.inserted = {},
           UNCHANGED <<tables, revision, rows>>,
           \A p \in Operator \ {o} : Touched(p) \cap Changed(o)' = {}
    PROVE  SeedInv'
<1>1. command'[o] = c /\ \A p \in Operator \ {o} : command'[p] = command[p]
  BY DEF SetCommand, SeedInv, MigrationInv, DatabaseTypeOK
<1>2. c.kind \notin DOMAIN SeedOf
  BY TablesOfSeeds
<1>3. LocksHold(o)' /\ SeedHolds(o)'
  BY <1>1, <1>2 DEF LocksHold, SeedHolds, Touched
<1>4. SeededOnce'
  BY DEF SeedInv, SeededOnce
<1> QED BY <1>1, <1>3, <1>4, SeedStep DEF SeedInv, LocksHold

\* Only a seed has rows it has not committed.
LEMMA NothingInserted ==
    ASSUME SeedInv, NEW o \in Operator,
           command[o].kind \in {"none", "upgrade", "downgrade"}
    PROVE  command[o].inserted = {}
BY TablesOfSeeds DEF SeedInv, SeedHolds

LEMMA SchemaSteps ==
    ASSUME SeedInv, MigrationInv', NEW o \in Operator,
           \/ Upgrade(o) \/ Downgrade(o)
           \/ CreateTable(o) \/ DropTable(o) \/ Stamp(o)
    PROVE  SeedInv'
<1>1. /\ command \in [Operator -> Command]
      /\ command[o] \in Command
  BY DEF SeedInv, MigrationInv, DatabaseTypeOK
<1>2. ASSUME NEW kind \in {"upgrade", "downgrade"}, NEW target,
             Alembic(o, kind, target)
      PROVE  SeedInv'
  <2> DEFINE c == [None EXCEPT !.kind = kind, !.base = revision, !.at = revision,
                               !.target = target, !.tables = TablesAt(revision)]
  <2>1. SetCommand(o, c) /\ UNCHANGED <<tables, revision, rows>>
    BY <1>2 DEF Alembic
  <2>2. c.kind = kind /\ c.inserted = {} /\ c.tables = TablesAt(c.base)
    BY DEF None
  <2> HIDE DEF c
  <2>3. command'[o] = c
    BY <1>1, <2>1 DEF SetCommand
  <2>4. Changed(o)' = {}
    BY <2>2, <2>3 DEF Changed
  <2> QED BY <2>1, <2>2, <2>4, SchemaStep
<1>3. ASSUME CreateTable(o) PROVE SeedInv'
  <2> DEFINE b == command[o]
             t == Revision[b.at + 1][b.done + 1].name
             c == [b EXCEPT !.tables = @ \cup {t}, !.done = @ + 1]
  <2>1. /\ SetCommand(o, c) /\ UNCHANGED <<tables, revision, rows>>
        /\ b.kind = "upgrade" /\ t \notin tables
    BY <1>3 DEF CreateTable
  <2>2. /\ c.kind = b.kind /\ c.inserted = b.inserted /\ c.base = b.base
        /\ c.tables = b.tables \cup {t}
    BY <1>1 DEF Command
  <2> HIDE DEF c
  <2>3. command'[o] = c
    BY <1>1, <2>1 DEF SetCommand
  <2>4. Changed(o)' \subseteq Changed(o) \cup {t}
    BY <2>1, <2>2, <2>3 DEF Changed, Migrates
  <2>5. ASSUME NEW p \in Operator \ {o} PROVE Touched(p) \cap Changed(o)' = {}
    BY <2>1, <2>4 DEF SeedInv, LocksHold
  <2> QED BY <2>1, <2>2, <2>5, NothingInserted, SchemaStep
<1>4. ASSUME DropTable(o) PROVE SeedInv'
  <2> DEFINE b == command[o]
             t == Reverse(Revision[b.at])[b.done + 1].name
             c == [b EXCEPT !.tables = @ \ {t}, !.done = @ + 1]
  <2>1. /\ SetCommand(o, c) /\ UNCHANGED <<tables, revision, rows>>
        /\ b.kind = "downgrade" /\ t \notin TouchedByOthers(o)
    BY <1>4 DEF DropTable
  <2>2. /\ c.kind = b.kind /\ c.inserted = b.inserted /\ c.base = b.base
        /\ c.tables = b.tables \ {t}
    BY <1>1 DEF Command
  <2> HIDE DEF c
  <2>3. command'[o] = c
    BY <1>1, <2>1 DEF SetCommand
  <2>4. Changed(o)' \subseteq Changed(o) \cup {t}
    BY <2>1, <2>2, <2>3 DEF Changed, Migrates
  <2>5. ASSUME NEW p \in Operator \ {o} PROVE Touched(p) \cap Changed(o)' = {}
    <3>1. t \notin Touched(p)
      BY <2>1 DEF TouchedByOthers
    <3> QED BY <2>4, <3>1 DEF SeedInv, LocksHold
  <2> QED BY <2>1, <2>2, <2>5, NothingInserted, SchemaStep
<1>5. ASSUME Stamp(o) PROVE SeedInv'
  <2> DEFINE b == command[o]
             k == IF b.kind = "upgrade" THEN b.at + 1 ELSE b.at - 1
             c == [b EXCEPT !.at = k, !.done = 0]
  <2>1. /\ SetCommand(o, c) /\ UNCHANGED <<tables, revision, rows>>
        /\ b.kind \in {"upgrade", "downgrade"}
    BY <1>5 DEF Stamp, Migrates
  <2>2. /\ c.kind = b.kind /\ c.inserted = b.inserted /\ c.base = b.base
        /\ c.tables = b.tables
    BY <1>1 DEF Command
  <2> HIDE DEF c
  <2>3. command'[o] = c
    BY <1>1, <2>1 DEF SetCommand
  <2>4. Changed(o)' = Changed(o)
    BY <2>1, <2>2, <2>3 DEF Changed, Migrates
  <2>5. ASSUME NEW p \in Operator \ {o} PROVE Touched(p) \cap Changed(o)' = {}
    BY <2>4 DEF SeedInv, LocksHold
  <2> QED BY <2>1, <2>2, <2>5, NothingInserted, SchemaStep
<1> QED BY <1>2, <1>3, <1>4, <1>5 DEF Upgrade, Downgrade

LEMMA CommitMigrationKeepsSeeds ==
    ASSUME SeedInv, MigrationInv', NEW o \in Operator, CommitMigration(o)
    PROVE  SeedInv'
<1>1. command \in [Operator -> Command] /\ rows \in [SeedTable -> Nat]
  BY DEF SeedInv, MigrationInv, DatabaseTypeOK
<1>2. command'[o] = None /\ \A p \in Operator \ {o} : command'[p] = command[p]
  BY <1>1 DEF CommitMigration, SetCommand
<1>3. None.kind \notin DOMAIN SeedOf /\ None.kind = "none" /\ None.inserted = {}
  BY TablesOfSeeds DEF None
<1>4. LocksHold(o)' /\ SeedHolds(o)' /\ Changed(o)' = {}
  BY <1>2, <1>3 DEF LocksHold, SeedHolds, Touched, Changed, Migrates
<1>5. \A t \in SeedTable : rows'[t] = IF t \in tables' THEN rows[t] ELSE 0
  BY DEF CommitMigration
<1>6. ASSUME NEW p \in Operator \ {o}
      PROVE  /\ Touched(p) \subseteq tables'
             /\ \A t \in Touched(p) : rows'[t] = 0 <=> rows[t] = 0
  <2>1. Touched(p) \subseteq tables /\ Touched(p) \cap Changed(o) = {}
    BY DEF SeedInv, LocksHold
  <2>2. Touched(p) \subseteq tables'
    BY <2>1 DEF CommitMigration
  <2>3. Touched(p) \subseteq SeedTable
    BY SeedTouchesSeedTables DEF SeedInv
  <2> QED BY <1>5, <2>2, <2>3
<1>7. SeededOnce'
  <2> SUFFICES ASSUME NEW s \in DOMAIN SeedOf
               PROVE  /\ rows'[SeedOf[s][1]] = rows'[SeedOf[s][2]]
                      /\ rows'[SeedOf[s][1]] <= 1
    BY DEF SeededOnce
  <2>1. revision' \in 0..Latest /\ tables' = TablesAt(revision')
    BY DEF MigrationInv, DatabaseTypeOK, WholeRevisions
  <2>2. SeedOf[s][1] \in tables' <=> SeedOf[s][2] \in tables'
    BY <2>1, TablesOfSeeds
  <2>3. rows[SeedOf[s][1]] = rows[SeedOf[s][2]] /\ rows[SeedOf[s][1]] <= 1
    BY DEF SeedInv, SeededOnce
  <2> QED BY <1>5, <2>2, <2>3, TablesOfSeeds
<1> QED BY <1>2, <1>4, <1>6, <1>7, SeedStep

\* A command begins, or ends without a commit, with nothing in hand.
LEMMA FreshStep ==
    ASSUME SeedInv, MigrationInv', NEW o \in Operator, NEW c, SetCommand(o, c),
           c.kind \notin {"upgrade", "downgrade"},
           c.done = 0, c.selected = FALSE, c.inserted = {},
           UNCHANGED <<tables, revision, rows>>
    PROVE  SeedInv'
<1>1. command'[o] = c /\ \A p \in Operator \ {o} : command'[p] = command[p]
  BY DEF SetCommand, SeedInv, MigrationInv, DatabaseTypeOK
<1>2. Touched(o)' = {} /\ Changed(o)' = {}
  <2>1. 1..0 + 0 = {}
    OBVIOUS
  <2> QED BY <1>1, <2>1 DEF Touched, Changed, Migrates
<1>3. LocksHold(o)'
  BY <1>2 DEF LocksHold
<1>4. SeedHolds(o)'
  <2>1. 1..0 = {}
    OBVIOUS
  <2> QED BY <1>1, <2>1 DEF SeedHolds
<1>5. SeededOnce'
  BY DEF SeedInv, SeededOnce
<1> QED BY <1>1, <1>2, <1>3, <1>4, <1>5, SeedStep DEF SeedInv, LocksHold

\* Of a seed's step: the rest of the schema and of the other seeds stays.
LEMMA SeedProgress ==
    ASSUME SeedInv, MigrationInv', NEW o \in Operator, NEW c, SetCommand(o, c),
           c.kind \in DOMAIN SeedOf, Reachable(o), command[o].kind = c.kind,
           command[o].done < 2,
           Touched(o)' = Touched(o) \cup {CurrentTable(o)},
           SeedHolds(o)', UNCHANGED <<tables, revision, rows>>
    PROVE  SeedInv'
<1>1. command'[o] = c /\ \A p \in Operator \ {o} : command'[p] = command[p]
  BY DEF SetCommand, SeedInv, MigrationInv, DatabaseTypeOK
<1>2. c.kind \notin {"upgrade", "downgrade"}
  BY TablesOfSeeds
<1>3. Changed(o)' = {} /\ Changed(o) = {}
  BY <1>1, <1>2 DEF Changed, Migrates
<1>4. \A p \in Operator \ {o} : Changed(p)' = Changed(p)
  BY <1>1, OthersStay
<1>5. LocksHold(o)'
  <2>1. CurrentTable(o) \in tables /\ CurrentTable(o) \notin ChangedByOthers(o)
    BY DEF Reachable
  <2>2. Touched(o) \subseteq tables /\ \A p \in Operator : Touched(o) \cap Changed(p) = {}
    BY DEF SeedInv, LocksHold
  <2>3. \A p \in Operator \ {o} : CurrentTable(o) \notin Changed(p)
    BY <2>1 DEF ChangedByOthers
  <2> QED BY <1>3, <1>4, <2>1, <2>2, <2>3 DEF LocksHold
<1>6. SeededOnce'
  BY DEF SeedInv, SeededOnce
<1> QED BY <1>1, <1>3, <1>5, <1>6, SeedStep DEF SeedInv, LocksHold

LEMMA SelectRowsKeepsSeeds ==
    ASSUME SeedInv, MigrationInv', NEW o \in Operator, SelectRows(o)
    PROVE  SeedInv'
<1> DEFINE b == command[o]
           T == SeedOf[b.kind]
           f == rows[CurrentTable(o)] > 0
           c == [b EXCEPT !.selected = TRUE, !.found = f]
<1>1. /\ command \in [Operator -> Command] /\ rows \in [SeedTable -> Nat]
      /\ SeedHolds(o)
  BY DEF SeedInv, MigrationInv, DatabaseTypeOK
<1>2. /\ b.kind \in DOMAIN SeedOf /\ b.done < 2 /\ b.selected = FALSE
      /\ Reachable(o) /\ SetCommand(o, c) /\ UNCHANGED <<tables, revision, rows>>
  BY DEF SelectRows, SeedsAt
<1>3. /\ c.kind = b.kind /\ c.done = b.done /\ c.inserted = b.inserted
      /\ c.selected = TRUE /\ c.found = f
  BY <1>1 DEF Command
<1>4. b.done \in {0, 1} /\ CurrentTable(o) = T[b.done + 1]
  BY <1>1, <1>2 DEF SeedHolds, CurrentTable
<1> HIDE DEF c
<1>5. command'[o] = c /\ \A p \in Operator \ {o} : command'[p] = command[p]
  BY <1>1, <1>2 DEF SetCommand
<1>6. Touched(o)' = Touched(o) \cup {CurrentTable(o)}
  <2>1. /\ 1..b.done + 1 = 1..b.done + 0 \cup {b.done + 1}
    BY <1>4
  <2>2. Touched(o) = {T[i] : i \in 1..b.done + 0}
    BY <1>2 DEF Touched
  <2>3. Touched(o)' = {T[i] : i \in 1..b.done + 1}
    BY <1>2, <1>3, <1>5 DEF Touched
  <2> QED BY <1>4, <2>1, <2>2, <2>3
<1>7. f => rows[T[b.done + 1]] # 0
  BY <1>4
<1>8. SeedHolds(o)'
  <2>1. c.done \in 0..2 /\ c.done < 2
    BY <1>3, <1>4
  <2> HIDE DEF f
  <2> QED BY <1>1, <1>2, <1>3, <1>5, <1>7, <2>1 DEF SeedHolds
<1> QED BY <1>2, <1>3, <1>6, <1>8, SeedProgress

LEMMA InsertRowsKeepsSeeds ==
    ASSUME SeedInv, MigrationInv', NEW o \in Operator, InsertRows(o)
    PROVE  SeedInv'
<1> DEFINE b == command[o]
           T == SeedOf[b.kind]
           t == CurrentTable(o)
           c == [b EXCEPT !.selected = FALSE, !.done = @ + 1,
                          !.inserted = IF b.found THEN @ ELSE @ \cup {t}]
<1>1. /\ command \in [Operator -> Command] /\ rows \in [SeedTable -> Nat]
      /\ SeedHolds(o)
  BY DEF SeedInv, MigrationInv, DatabaseTypeOK
<1>2. /\ b.kind \in DOMAIN SeedOf /\ b.done < 2 /\ b.selected = TRUE
      /\ Reachable(o) /\ SetCommand(o, c) /\ UNCHANGED <<tables, revision, rows>>
      /\ b.found \/ (t \notin InsertedByOthers(o) /\ rows[t] = 0)
  <2>1. SetCommand(o, c)
    BY DEF InsertRows
  <2>2. Reachable(o) /\ UNCHANGED <<tables, revision, rows>>
    BY DEF InsertRows
  <2>3. b.found \/ (t \notin InsertedByOthers(o) /\ rows[t] = 0)
    BY DEF InsertRows, Insertable
  <2>4. SeedsAt(o, TRUE)
    BY DEF InsertRows
  <2> HIDE DEF c, t
  <2> QED BY <2>1, <2>2, <2>3, <2>4 DEF SeedsAt
<1>3. /\ c.kind = b.kind /\ c.done = b.done + 1 /\ c.selected = FALSE
      /\ c.inserted = IF b.found THEN b.inserted ELSE b.inserted \cup {t}
  BY <1>1 DEF Command
<1>4. b.done \in {0, 1} /\ t = T[b.done + 1]
  BY <1>1, <1>2 DEF SeedHolds, CurrentTable
<1> HIDE DEF c
<1>5. command'[o] = c /\ \A p \in Operator \ {o} : command'[p] = command[p]
  BY <1>1, <1>2 DEF SetCommand
<1>6. Touched(o)' = Touched(o) \cup {CurrentTable(o)}
  <2>1. Touched(o) = {T[i] : i \in 1..b.done + 1}
    BY <1>2 DEF Touched
  <2>2. Touched(o)' = {T[i] : i \in 1..b.done + 1}
    <3>1. 1..c.done + 0 = 1..b.done + 1
      BY <1>3, <1>4
    <3>2. Touched(o)' = {T[i] : i \in 1..c.done + 0}
      BY <1>2, <1>3, <1>5 DEF Touched
    <3> QED BY <3>1, <3>2
  <2>3. b.done + 1 \in 1..b.done + 1
    BY <1>4
  <2> QED BY <1>4, <2>1, <2>2, <2>3
<1>7. SeedHolds(o)'
  <2>1. c.done \in 0..2 /\ 1..c.done = 1..b.done \cup {b.done + 1}
    BY <1>3, <1>4
  <2>2. c.inserted \subseteq {T[i] : i \in 1..c.done}
    BY <1>1, <1>2, <1>3, <1>4, <2>1 DEF SeedHolds
  <2>3. t \notin b.inserted
    <3>1. \A i \in 1..b.done : T[i] # T[b.done + 1]
      BY <1>2, <1>4, TablesOfSeeds
    <3> QED BY <1>1, <1>2, <1>4, <3>1 DEF SeedHolds
  <2>4. t \in c.inserted <=> rows[t] = 0
    <3>1. CASE b.found
      BY <1>1, <1>2, <1>3, <1>4, <2>3, <3>1 DEF SeedHolds
    <3>2. CASE ~b.found
      BY <1>2, <1>3, <3>2
    <3> QED BY <3>1, <3>2
  <2>5. ASSUME NEW i \in 1..b.done PROVE T[i] \in c.inserted <=> rows[T[i]] = 0
    <3>1. T[i] # t
      BY <1>2, <1>4, TablesOfSeeds
    <3> QED BY <1>1, <1>2, <1>3, <3>1 DEF SeedHolds
  <2>6. \A i \in 1..c.done : T[i] \in c.inserted <=> rows[T[i]] = 0
    BY <1>4, <2>1, <2>4, <2>5
  <2>7. ASSUME NEW p \in Operator \ {o} PROVE c.inserted \cap command[p].inserted = {}
    <3>1. b.inserted \cap command[p].inserted = {}
      BY <1>1 DEF SeedHolds
    <3>2. ~b.found => t \notin command[p].inserted
      BY <1>2 DEF InsertedByOthers
    <3> QED BY <1>3, <3>1, <3>2
  <2> QED BY <1>2, <1>3, <1>5, <2>1, <2>2, <2>6, <2>7 DEF SeedHolds
<1> QED BY <1>2, <1>3, <1>6, <1>7, SeedProgress

\* Both tables of a seed are filled by its commit, or neither.
LEMMA CommitSeedKeepsSeeds ==
    ASSUME SeedInv, MigrationInv', NEW o \in Operator, CommitSeed(o)
    PROVE  SeedInv'
<1> DEFINE b == command[o]
           T == SeedOf[b.kind]
<1>1. /\ command \in [Operator -> Command] /\ rows \in [SeedTable -> Nat]
      /\ SeedHolds(o)
  BY DEF SeedInv, MigrationInv, DatabaseTypeOK
<1>2. /\ b.kind \in DOMAIN SeedOf /\ b.done = 2
      /\ SetCommand(o, None) /\ UNCHANGED <<tables, revision>>
      /\ \A t \in SeedTable : rows'[t] = IF t \in b.inserted THEN rows[t] + 1 ELSE rows[t]
  BY DEF CommitSeed
<1>3. command'[o] = None /\ \A p \in Operator \ {o} : command'[p] = command[p]
  BY <1>1, <1>2 DEF SetCommand
<1>4. None.kind \notin DOMAIN SeedOf /\ None.kind = "none" /\ None.inserted = {}
  BY TablesOfSeeds DEF None
<1>5. LocksHold(o)' /\ SeedHolds(o)' /\ Changed(o)' = {}
  BY <1>3, <1>4 DEF LocksHold, SeedHolds, Touched, Changed, Migrates
<1>6. \A i \in {1, 2} : T[i] \in b.inserted <=> rows[T[i]] = 0
  BY <1>1, <1>2 DEF SeedHolds
<1>7. b.inserted \subseteq {T[1], T[2]}
  <2>1. 1..2 = {1, 2}
    OBVIOUS
  <2> QED BY <1>1, <1>2, <2>1 DEF SeedHolds
<1>8. ASSUME NEW p \in Operator \ {o}, NEW t \in Touched(p)
      PROVE  /\ rows[t] # 0 => rows'[t] # 0
             /\ t \in command[p].inserted /\ rows[t] = 0 => rows'[t] = 0
  <2>1. t \in SeedTable /\ rows[t] \in Nat
    BY <1>1, SeedTouchesSeedTables DEF SeedInv
  <2>2. t \in command[p].inserted => t \notin b.inserted
    BY <1>1 DEF SeedHolds
  <2> QED BY <1>2, <2>1, <2>2
<1>9. SeededOnce'
  <2> SUFFICES ASSUME NEW s \in DOMAIN SeedOf
               PROVE  /\ rows'[SeedOf[s][1]] = rows'[SeedOf[s][2]]
                      /\ rows'[SeedOf[s][1]] <= 1
    BY DEF SeededOnce
  <2>1. /\ rows[SeedOf[s][1]] = rows[SeedOf[s][2]] /\ rows[SeedOf[s][1]] <= 1
        /\ SeedOf[s][1] \in SeedTable /\ SeedOf[s][2] \in SeedTable
    BY TablesOfSeeds DEF SeedInv, SeededOnce
  <2>2. CASE s = b.kind
    BY <1>1, <1>2, <1>6, <2>1, <2>2
  <2>3. CASE s # b.kind
    <3>1. SeedOf[s][1] \notin b.inserted /\ SeedOf[s][2] \notin b.inserted
      BY <1>2, <1>7, <2>3, TablesOfSeeds
    <3> QED BY <1>2, <2>1, <3>1
  <2> QED BY <2>2, <2>3
<1> QED BY <1>2, <1>3, <1>5, <1>8, <1>9, SeedStep DEF SeedInv, LocksHold

LEMMA SeedNext == SeedInv /\ [DatabaseNext]_databaseVars => SeedInv'
<1> SUFFICES ASSUME SeedInv, [DatabaseNext]_databaseVars PROVE SeedInv'
  OBVIOUS
<1>1. MigrationInv'
  BY MigrationNext DEF SeedInv
<1>2. CASE UNCHANGED databaseVars
  BY <1>1, <1>2
  DEF databaseVars, SeedInv, LocksHold, SeedHolds, SeededOnce, Touched, Changed,
      Migrates
<1>3. CASE DatabaseNext
  <2>1. PICK o \in Operator :
           \/ Upgrade(o) \/ Downgrade(o) \/ CreateTable(o) \/ DropTable(o)
           \/ Stamp(o) \/ CommitMigration(o)
           \/ \E s \in Seeds : RunSeed(o, s)
           \/ SelectRows(o) \/ InsertRows(o) \/ CommitSeed(o)
           \/ Abort(o)
    BY <1>3 DEF DatabaseNext
  <2>2. ASSUME NEW s \in Seeds, RunSeed(o, s) PROVE SeedInv'
    <3> DEFINE c == [None EXCEPT !.kind = s]
    <3>1. SetCommand(o, c) /\ UNCHANGED <<tables, revision, rows>>
      BY <2>2 DEF RunSeed
    <3>2. c.kind = s /\ c.done = 0 /\ c.selected = FALSE /\ c.inserted = {}
      BY DEF None
    <3>3. s \notin {"upgrade", "downgrade"}
      BY TablesOfSeeds, DatabaseAssumption
    <3> HIDE DEF c
    <3> QED BY <1>1, <3>1, <3>2, <3>3, FreshStep
  <2>3. ASSUME Abort(o) PROVE SeedInv'
    <3>1. /\ None.kind = "none" /\ None.done = 0
          /\ None.selected = FALSE /\ None.inserted = {}
      BY DEF None
    <3> QED BY <1>1, <2>3, <3>1, FreshStep DEF Abort
  <2> QED BY <1>1, <2>1, <2>2, <2>3, SchemaSteps, CommitMigrationKeepsSeeds,
             SelectRowsKeepsSeeds, InsertRowsKeepsSeeds, CommitSeedKeepsSeeds
<1> QED BY <1>2, <1>3

\* However seeds and migrations overlap and wherever one ends, the rows of a seed
\* are there together or not at all, and once.
THEOREM SeedsOnce == DatabaseSpec => []SeededOnce
<1>1. SeedInv => SeededOnce
  BY DEF SeedInv
<1> QED BY <1>1, SeedInit, SeedNext, PTL DEF DatabaseSpec

-----------------------------------------------------------------------------
(* Lists. *)

\* created_at orders the transactions, and the rows of one are committed at once.
TimesHold ==
    /\ \A x \in Txn : createdAt[x] <= clock
    /\ \A x, y \in Txn : createdAt[x] = createdAt[y] /\ createdAt[x] > 0 => x = y
    /\ \A r \in Row : row[r] # "absent" => createdAt[TxnOf[r]] > 0
    /\ \A r, q \in Row : TxnOf[r] = TxnOf[q] /\ row[r] = "absent" => row[q] = "absent"

Sole(r) == \A q \in Row : TxnOf[q] = TxnOf[r] => q = r

\* The rows every page has before r.
Ahead(r) == {q \in Matching : Before(q, r)}

\* What is still to be seen is still to come: rows move back, never forward.
WalkHolds ==
    ~walk.left =>
        /\ walk.expected \subseteq Matching
        /\ \A r \in walk.expected :
              Sole(r) /\ r \notin walk.shown =>
                 walk.pc = "paging" /\ walk.offset <= Cardinality(Ahead(r))

ListingInv == ListingTypeOK /\ TimesHold /\ WalkHolds

LEMMA ListingInitInv == ListingInit => ListingInv
<1> SUFFICES ASSUME ListingInit PROVE ListingInv
  OBVIOUS
<1>1. ListingTypeOK
  BY DEF ListingInit, ListingTypeOK, Walk
<1>2. TimesHold
  BY ListingAssumption DEF ListingInit, TimesHold
<1>3. WalkHolds
  BY DEF ListingInit, WalkHolds
<1> QED BY <1>1, <1>2, <1>3 DEF ListingInv

LEMMA AheadIsFinite ==
    ASSUME NEW r
    PROVE  IsFiniteSet(Ahead(r)) /\ IsFiniteSet(Matching) /\ Cardinality(Ahead(r)) \in Nat
<1>1. Matching \subseteq Row /\ Ahead(r) \subseteq Row
  BY DEF Matching, Ahead
<1> QED BY <1>1, ListingAssumption, FS_Subset, FS_CardinalityType

\* A row that shares its created_at with no other has one place in every result.
LEMMA Position ==
    ASSUME ListingTypeOK, TimesHold, NEW s \in Results, NEW r \in Matching, Sole(r)
    PROVE  LET k == Cardinality(Ahead(r)) + 1
           IN  k \in 1..Cardinality(Matching) /\ s[k] = r
<1> DEFINE n == Cardinality(Matching)
<1>1. n \in Nat /\ IsFiniteSet(Matching)
  BY AheadIsFinite, FS_CardinalityType
<1>2. s \in [1..n -> Matching] /\ DOMAIN s = 1..n
  BY DEF Results
<1>3. \A i, j \in 1..n : i < j => s[i] # s[j] /\ ~Before(s[j], s[i])
  BY <1>2 DEF Results
<1> HIDE DEF n
<1>4. s \in Surjection(1..n, Matching)
  <2>1. \A i, j \in 1..n : s[i] = s[j] => i = j
    BY <1>1, <1>3
  <2>2. s \in Injection(1..n, Matching)
    BY <1>2, <2>1 DEF Injection, IsInjective
  <2>3. Cardinality(1..n) = n
    BY <1>1, FS_Interval
  <2> QED BY <1>1, <2>2, <2>3, FS_Injection DEF n
<1>5. PICK i \in 1..n : s[i] = r
  BY <1>4 DEF Surjection
<1>6. ASSUME NEW q \in Matching, q # r PROVE Before(q, r) <=> ~Before(r, q)
  <2>1. q \in Row /\ r \in Row /\ row[q] # "absent" /\ row[r] # "absent"
    BY DEF Matching
  <2>2. TxnOf[q] # TxnOf[r] /\ TxnOf[q] \in Txn /\ TxnOf[r] \in Txn
    BY <1>6, <2>1, ListingAssumption DEF Sole
  <2>3. /\ createdAt[TxnOf[q]] \in Nat /\ createdAt[TxnOf[r]] \in Nat
        /\ createdAt[TxnOf[q]] # createdAt[TxnOf[r]]
    BY <2>1, <2>2 DEF ListingTypeOK, TimesHold
  <2> QED BY <2>3 DEF Before
<1>7. ~Before(r, r)
  <2>1. createdAt[TxnOf[r]] \in Nat
    BY ListingAssumption DEF ListingTypeOK, Matching
  <2> QED BY <2>1 DEF Before
<1>8. \A j \in 1..n : Before(s[j], r) <=> j < i
  <2> SUFFICES ASSUME NEW j \in 1..n PROVE Before(s[j], r) <=> j < i
    OBVIOUS
  <2>1. CASE j < i
    BY <1>2, <1>3, <1>5, <1>6, <2>1
  <2>2. CASE j = i
    BY <1>1, <1>5, <1>7, <2>2
  <2>3. CASE j > i
    BY <1>1, <1>3, <1>5, <2>3
  <2> QED BY <1>1, <2>1, <2>2, <2>3
<1>9. Cardinality(Ahead(r)) = i - 1
  <2> DEFINE g == [j \in 1..(i - 1) |-> s[j]]
  <2>1. 1..(i - 1) \subseteq 1..n
    BY <1>1
  <2>2. g \in [1..(i - 1) -> Ahead(r)]
    <3>1. ASSUME NEW j \in 1..(i - 1) PROVE s[j] \in Ahead(r)
      BY <1>2, <1>8, <2>1, <1>1 DEF Ahead
    <3> QED BY <3>1
  <2>3. g \in Injection(1..(i - 1), Ahead(r))
    <3>1. ASSUME NEW a \in 1..(i - 1), NEW b \in 1..(i - 1), s[a] = s[b]
          PROVE  a = b
      BY <1>1, <1>3, <2>1, <3>1
    <3> QED BY <2>2, <3>1 DEF Injection, IsInjective
  <2>4. g \in Surjection(1..(i - 1), Ahead(r))
    <3>1. ASSUME NEW q \in Ahead(r) PROVE \E j \in 1..(i - 1) : g[j] = q
      <4>1. PICK j \in 1..n : s[j] = q
        BY <1>4 DEF Surjection, Ahead
      <4>2. j < i
        BY <1>8, <4>1 DEF Ahead
      <4>3. j \in 1..(i - 1)
        BY <1>1, <4>2
      <4> QED BY <4>1, <4>3
    <3> QED BY <2>2, <3>1 DEF Surjection
  <2>5. ExistsBijection(1..(i - 1), Ahead(r))
    BY <2>3, <2>4 DEF ExistsBijection, Bijection
  <2>6. IsFiniteSet(1..(i - 1)) /\ Cardinality(1..(i - 1)) = i - 1
    BY <1>1, FS_Interval
  <2> QED BY <2>5, <2>6, FS_Bijection
<1> QED BY <1>1, <1>5, <1>9 DEF n

\* A page is full as long as there are rows to fill it.
LEMMA FullPage ==
    ASSUME NEW s \in Results, NEW offset \in Nat,
           offset + Limit <= Cardinality(Matching)
    PROVE  Cardinality({s[i] : i \in {j \in DOMAIN s : /\ j > offset
                                                       /\ j <= offset + Limit}}) = Limit
<1> DEFINE n == Cardinality(Matching)
           I == (offset + 1)..(offset + Limit)
           page == {s[i] : i \in {j \in DOMAIN s : j > offset /\ j <= offset + Limit}}
           g == [j \in I |-> s[j]]
<1>1. n \in Nat /\ Limit \in Nat \ {0}
  BY AheadIsFinite, FS_CardinalityType, ListingAssumption
<1>2. DOMAIN s = 1..n /\ \A i, j \in 1..n : i < j => s[i] # s[j]
  BY DEF Results
<1>3. {j \in DOMAIN s : j > offset /\ j <= offset + Limit} = I
  <2> HIDE DEF n
  <2>1. offset + Limit <= n
    BY DEF n
  <2> QED BY <1>1, <1>2, <2>1
<1>4. page = {s[i] : i \in I}
  BY <1>3
<1>5. I \subseteq 1..n
  BY <1>1
<1> HIDE DEF n
<1>6. \A a, b \in I : s[a] = s[b] => a = b
  BY <1>1, <1>2, <1>5
<1>7. g \in Bijection(I, page)
  <2> HIDE DEF I, page
  <2>1. g \in [I -> page]
    BY <1>4
  <2> QED BY <1>4, <1>6, <2>1 DEF Bijection, Injection, Surjection, IsInjective
<1>8. IsFiniteSet(I) /\ Cardinality(I) = Limit
  BY <1>1, FS_Interval
<1> QED BY <1>7, <1>8, FS_Bijection DEF ExistsBijection

\* Other requests only put rows before a row.
LEMMA RowsMoveBack ==
    ASSUME ListingInv, ListingTypeOK', TimesHold', Matching \subseteq Matching',
           UNCHANGED walk, list' = list,
           \A r \in Matching : createdAt'[TxnOf[r]] = createdAt[TxnOf[r]]
    PROVE  ListingInv'
<1>1. ASSUME NEW r \in Matching
      PROVE  Cardinality(Ahead(r)) <= Cardinality(Ahead(r)')
  <2>1. Ahead(r) \subseteq Ahead(r)'
    BY DEF Ahead, Before
  <2>2. IsFiniteSet(Ahead(r)')
    <3>1. Ahead(r)' \subseteq Row
      BY DEF Ahead, Matching
    <3> QED BY <3>1, ListingAssumption, FS_Subset
  <2> QED BY <2>1, <2>2, FS_Subset
<1>2. ASSUME NEW r \in Matching, walk.offset <= Cardinality(Ahead(r))
      PROVE  walk.offset <= Cardinality(Ahead(r)')
  <2>1. /\ walk.offset \in Nat /\ Cardinality(Ahead(r)) \in Nat
        /\ Cardinality(Ahead(r)') \in Nat
    <3>1. IsFiniteSet(Ahead(r)')
      <4>1. Ahead(r)' \subseteq Row
        BY DEF Ahead, Matching
      <4> QED BY <4>1, ListingAssumption, FS_Subset
    <3>2. walk.offset \in Nat
      BY DEF ListingInv, ListingTypeOK, Walk
    <3> QED BY <3>1, <3>2, AheadIsFinite, FS_CardinalityType
  <2> QED BY <1>1, <1>2, <2>1
<1>3. WalkHolds'
  <2> SUFFICES ASSUME ~walk.left
               PROVE  /\ walk.expected \subseteq Matching'
                      /\ \A r \in walk.expected :
                            Sole(r) /\ r \notin walk.shown =>
                               walk.pc = "paging" /\ walk.offset <= Cardinality(Ahead(r)')
    BY DEF WalkHolds, Sole
  <2> QED BY <1>2 DEF ListingInv, WalkHolds
<1> QED BY <1>3 DEF ListingInv

LEMMA BeginTxnInv ==
    ASSUME ListingInv, NEW x \in Txn, BeginTxn(x)
    PROVE  ListingInv'
<1>1. /\ createdAt \in [Txn -> Nat] /\ clock \in Nat
      /\ createdAt[x] = 0 /\ clock' = clock + 1
      /\ createdAt' = [createdAt EXCEPT ![x] = clock + 1]
      /\ UNCHANGED <<list, row, walk>>
  BY DEF ListingInv, ListingTypeOK, BeginTxn
<1>2. ListingTypeOK'
  BY <1>1 DEF ListingInv, ListingTypeOK
<1>3. \A r \in Row : row[r] # "absent" => TxnOf[r] \in Txn /\ TxnOf[r] # x
  BY <1>1, ListingAssumption DEF ListingInv, TimesHold
<1>4. TimesHold'
  <2>1. \A y \in Txn : createdAt'[y] <= clock'
    BY <1>1 DEF ListingInv, TimesHold
  <2>2. \A y, z \in Txn : createdAt'[y] = createdAt'[z] /\ createdAt'[y] > 0 => y = z
    <3>1. \A y \in Txn : createdAt[y] < clock + 1
      BY <1>1 DEF ListingInv, TimesHold
    <3> QED BY <1>1, <3>1 DEF ListingInv, TimesHold
  <2>3. \A r \in Row : row'[r] # "absent" => createdAt'[TxnOf[r]] > 0
    BY <1>1, <1>3 DEF ListingInv, TimesHold
  <2>4. \A r, q \in Row : TxnOf[r] = TxnOf[q] /\ row'[r] = "absent"
                             => row'[q] = "absent"
    BY <1>1 DEF ListingInv, TimesHold
  <2> QED BY <2>1, <2>2, <2>3, <2>4 DEF TimesHold
<1>5. /\ Matching' = Matching
      /\ \A r \in Matching : createdAt'[TxnOf[r]] = createdAt[TxnOf[r]]
  BY <1>1, <1>3 DEF Matching
<1> QED BY <1>1, <1>2, <1>4, <1>5, RowsMoveBack

LEMMA CommitTxnInv ==
    ASSUME ListingInv, NEW x \in Txn, CommitTxn(x)
    PROVE  ListingInv'
<1>1. PICK rejected \in SUBSET {r \in Row : TxnOf[r] = x} :
         row' = [r \in Row |-> IF TxnOf[r] # x THEN row[r]
                               ELSE IF r \in rejected THEN "other" ELSE "matching"]
  BY DEF CommitTxn
<1>2. createdAt[x] > 0 /\ UNCHANGED <<list, createdAt, clock, walk>>
  BY DEF CommitTxn
<1>3. \A r \in Row : TxnOf[r] = x => row[r] = "absent"
  BY DEF CommitTxn, ListingInv, TimesHold
<1>4. /\ \A r \in Row : TxnOf[r] # x => row'[r] = row[r]
      /\ \A r \in Row : TxnOf[r] = x => row'[r] \in {"other", "matching"}
  BY <1>1
<1>5. ListingTypeOK'
  <2>1. row' \in [Row -> {"absent", "matching", "other"}]
    BY <1>1 DEF ListingInv, ListingTypeOK
  <2> QED BY <1>2, <2>1 DEF ListingInv, ListingTypeOK
<1>6. TimesHold'
  BY <1>2, <1>4 DEF ListingInv, TimesHold
<1>7. Matching \subseteq Matching'
  BY <1>3, <1>4 DEF Matching
<1> QED BY <1>2, <1>5, <1>6, <1>7, RowsMoveBack

LEMMA ReviewKeepsWalk ==
    ASSUME ListingInv, NEW r \in Row, Review(r)
    PROVE  ListingInv'
<1>1. row \in [Row -> {"absent", "matching", "other"}] /\ walk \in Walk
  BY DEF ListingInv, ListingTypeOK
<1>2. UNCHANGED <<list, createdAt, clock>>
  BY DEF Review
<1>3. CASE row[r] = "matching" /\ row' = [row EXCEPT ![r] = "other"]
           /\ walk' = [walk EXCEPT !.left = TRUE]
  <2>1. walk' \in Walk /\ walk'.left = TRUE
    BY <1>1, <1>3 DEF Walk
  <2>2. ListingTypeOK'
    BY <1>1, <1>2, <1>3, <2>1 DEF ListingInv, ListingTypeOK
  <2>3. TimesHold'
    BY <1>1, <1>2, <1>3 DEF ListingInv, TimesHold
  <2>4. WalkHolds'
    BY <2>1 DEF WalkHolds
  <2> QED BY <2>2, <2>3, <2>4 DEF ListingInv
<1>4. CASE row[r] = "other" /\ row' = [row EXCEPT ![r] = "matching"] /\ UNCHANGED walk
  <2>1. ListingTypeOK'
    BY <1>1, <1>2, <1>4 DEF ListingInv, ListingTypeOK
  <2>2. TimesHold'
    BY <1>1, <1>2, <1>4 DEF ListingInv, TimesHold
  <2>3. Matching \subseteq Matching'
    BY <1>1, <1>4 DEF Matching
  <2> QED BY <1>2, <1>4, <2>1, <2>2, <2>3, RowsMoveBack
<1> QED BY <1>3, <1>4 DEF Review

LEMMA StartWalkInv ==
    ASSUME ListingInv, StartWalk
    PROVE  ListingInv'
<1> DEFINE w == [pc |-> "paging", offset |-> 0, shown |-> {}, expected |-> Matching,
                 left |-> FALSE]
<1>1. walk' = w /\ UNCHANGED <<list, createdAt, clock, row>>
  BY DEF StartWalk
<1>2. w \in Walk
  BY DEF Walk, Matching
<1>3. ListingTypeOK' /\ TimesHold'
  BY <1>1, <1>2 DEF ListingInv, ListingTypeOK, TimesHold
<1>4. Matching' = Matching /\ \A r : Ahead(r)' = Ahead(r)
  BY <1>1 DEF Matching, Ahead, Before
<1>5. WalkHolds'
  <2>1. \A r : 0 <= Cardinality(Ahead(r))
    BY AheadIsFinite
  <2> QED BY <1>1, <1>4, <2>1 DEF WalkHolds
<1> QED BY <1>3, <1>5 DEF ListingInv

\* A page shows the row at each place it covers, and is the last only if there is
\* none after it.
LEMMA NextPageInv ==
    ASSUME ListingInv, NextPage
    PROVE  ListingInv'
<1> DEFINE n == Cardinality(Matching)
           Page(s) == {s[i] : i \in {j \in DOMAIN s : /\ j > walk.offset
                                                      /\ j <= walk.offset + Limit}}
           After(s) == [walk EXCEPT
                          !.shown = @ \cup Page(s), !.offset = @ + Limit,
                          !.pc = IF Cardinality(Page(s)) < Limit THEN "done"
                                                                 ELSE "paging"]
<1>1. PICK s \in Results : walk' = After(s)
  BY DEF NextPage
<1>2. walk.pc = "paging" /\ UNCHANGED <<list, createdAt, clock, row>>
  BY DEF NextPage
<1>3. /\ walk \in Walk /\ walk.offset \in Nat
      /\ Limit \in Nat \ {0} /\ n \in Nat
  BY ListingAssumption, AheadIsFinite, FS_CardinalityType
  DEF ListingInv, ListingTypeOK, Walk
<1>4. DOMAIN s = 1..n /\ s \in [1..n -> Matching]
  BY DEF Results
<1> DEFINE page == Page(s)
<1>5. page \subseteq Row
  BY <1>4 DEF Matching
<1>6. /\ walk'.shown = walk.shown \cup page /\ walk'.offset = walk.offset + Limit
      /\ walk'.pc = IF Cardinality(page) < Limit THEN "done" ELSE "paging"
      /\ walk'.expected = walk.expected /\ walk'.left = walk.left
      /\ walk' \in Walk
  <2> HIDE DEF Page
  <2>1. walk.offset + Limit \in Nat
    BY <1>3
  <2> QED BY <1>1, <1>3, <1>5, <2>1 DEF Walk
<1>7. ListingTypeOK' /\ TimesHold'
  BY <1>2, <1>6 DEF ListingInv, ListingTypeOK, TimesHold
<1>8. Matching' = Matching /\ \A r : Ahead(r)' = Ahead(r)
  BY <1>2 DEF Matching, Ahead, Before
<1>9. ASSUME ~walk.left, NEW r \in walk.expected, Sole(r), r \notin walk'.shown
      PROVE  walk'.pc = "paging" /\ walk'.offset <= Cardinality(Ahead(r))
  <2> DEFINE k == Cardinality(Ahead(r)) + 1
  <2>1. r \in Matching /\ r \notin page
    BY <1>6, <1>9 DEF ListingInv, WalkHolds
  <2>2. walk.offset <= Cardinality(Ahead(r)) /\ Cardinality(Ahead(r)) \in Nat
    BY <1>6, <1>9, AheadIsFinite DEF ListingInv, WalkHolds
  <2>3. k \in 1..n /\ s[k] = r
    BY <1>9, <2>1, Position DEF ListingInv
  <2>4. ~(k > walk.offset /\ k <= walk.offset + Limit)
    BY <1>4, <2>1, <2>3
  <2>5. walk.offset + Limit <= Cardinality(Ahead(r)) /\ walk.offset + Limit <= n
    <3> HIDE DEF n
    <3> QED BY <1>3, <2>2, <2>3, <2>4
  <2>6. Cardinality(page) = Limit
    BY <1>3, <2>5, FullPage
  <2> HIDE DEF page
  <2>7. ~(Cardinality(page) < Limit)
    BY <1>3, <2>6
  <2> QED BY <1>6, <2>5, <2>7
<1>10. WalkHolds'
  <2>1. ~walk.left => walk.expected \subseteq Matching
    BY DEF ListingInv, WalkHolds
  <2> QED BY <1>6, <1>8, <1>9, <2>1 DEF WalkHolds, Sole
<1> QED BY <1>7, <1>10 DEF ListingInv

LEMMA ListingNextInv == ListingInv /\ [ListingNext]_listingVars => ListingInv'
<1> SUFFICES ASSUME ListingInv, [ListingNext]_listingVars PROVE ListingInv'
  OBVIOUS
<1>1. CASE UNCHANGED listingVars
  BY <1>1
  DEF listingVars, ListingInv, ListingTypeOK, TimesHold, WalkHolds, Sole, Ahead,
      Matching, Before
<1>2. CASE ListingNext
  BY <1>2, BeginTxnInv, CommitTxnInv, ReviewKeepsWalk, StartWalkInv, NextPageInv
  DEF ListingNext
<1> QED BY <1>1, <1>2

\* Whatever is inserted while a client pages, and however long transactions take:
\* as long as no row leaves the filter, the pages skip no row that matched from
\* the start and has a created_at of its own.
THEOREM WalksSeeAll == ListingSpec => []WalkSeesAll
<1>1. ListingInv => WalkSeesAll
  BY DEF ListingInv, WalkHolds, WalkSeesAll, Sole
<1> QED BY <1>1, ListingInitInv, ListingNextInv, PTL DEF ListingSpec

-----------------------------------------------------------------------------
(* The parts side by side. *)

\* Whichever part moves, each part only takes steps of its own, so what is proved
\* of its specification holds where the parts are checked together.
THEOREM PartsAreWhole == MCSpec => ServiceSpec /\ DatabaseSpec /\ ListingSpec
<1>1. MCInit => ServiceInit /\ DatabaseInit /\ ListingInit
  BY DEF MCInit
<1>2. [MCNext]_vars => /\ [ServiceNext]_serviceVars
                       /\ [DatabaseNext]_databaseVars
                       /\ [ListingNext]_listingVars
  BY DEF MCNext, vars
<1> QED BY <1>1, <1>2, PTL DEF MCSpec, ServiceSpec, DatabaseSpec, ListingSpec

\* No thread, command, seed or page leaves the types of its variables.
THEOREM PlatformTypes == MCSpec => []PlatformTypeOK
<1>1. ListingSpec => []ListingTypeOK
  <2>1. ListingInv => ListingTypeOK
    BY DEF ListingInv
  <2> QED BY <2>1, ListingInitInv, ListingNextInv, PTL DEF ListingSpec
<1>2. ServiceTypeOK /\ DatabaseTypeOK /\ ListingTypeOK => PlatformTypeOK
  BY DEF PlatformTypeOK
<1> QED BY <1>1, <1>2, PartsAreWhole, ServiceTypes, DatabaseTypeCorrect, PTL

\* Whatever a client has typed, no ink of it is lost or repeated by the split.
THEOREM SplitsAreWhole == MCSpec => []SplitIsWhole
<1> DEFINE Ch == {"a", ".", " "}
           TextHolds == text \in Seq(Ch)
<1>1. MCInit => TextHolds
  BY DEF MCInit
<1>2. TextHolds /\ [MCNext]_vars => TextHolds'
  <2> SUFFICES ASSUME TextHolds, [MCNext]_vars
               PROVE  TextHolds'
    OBVIOUS
  <2>1. text' = text \/ \E c \in Ch : text' = Append(text, c)
    BY DEF MCNext, vars
  <2> HIDE DEF Ch
  <2> QED BY <2>1, AppendProperties
<1>3. TextHolds => SplitIsWhole
  <2> HIDE DEF Ch
  <2> QED BY SplitKeepsText DEF SplitIsWhole
<1> HIDE DEF TextHolds
<1> QED BY <1>1, <1>2, <1>3, PTL DEF MCSpec

=============================================================================
