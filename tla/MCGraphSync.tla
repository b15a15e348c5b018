---------------------------- MODULE MCGraphSync -----------------------------
(***************************************************************************)
(* A small instance of GraphSync: two entities, a relation between them,   *)
(* bounded numbers of review requests and of sync jobs asked for.          *)
(***************************************************************************)
EXTENDS GraphSync, Naturals, TLC

CONSTANTS e1, e2, r1, k1, MaxRequests, MaxSyncs,
          OntologyChanges, Scopes

MCChunkOf == [x \in Entity \cup Relation |-> k1]

policy  == [name |-> "N", type |-> "Policy"]
Applies == [source |-> "Policy", name |-> "APPLIES_TO", target |-> "Policy"]

VARIABLES requests, syncs   \* review requests begun, sync jobs asked for

mcVars == <<allVars, requests, syncs>>

MCInit ==
    /\ SyncInit
    /\ \A e \in Entity : entity[e].status = "PENDING" /\ entity[e].content = policy
    /\ relation[r1].srcKey = policy /\ relation[r1].tgtKey = policy
    /\ relation[r1].src = e1 /\ relation[r1].tgt = e2
    /\ relation[r1].status = "PENDING"
    /\ activeTypes = {Applies}
    /\ requests = 0
    /\ syncs = 0

Begun(s)  == Idle(s) /\ (~Idle(s))'
Asked(s)  == job[s] = NoJob /\ job'[s] # NoJob

\* A job is forced only when there are log rows to override: a bound.
MCNext ==
    /\ SyncNext
    /\ OntologyChanges \/ activeTypes' = activeTypes
    /\ activeTypes' \subseteq {Applies}
    /\ requests' = requests + Cardinality({s \in Reviewer : Begun(s)})
    /\ requests' <= MaxRequests
    /\ syncs' = syncs + Cardinality({s \in Syncer : Asked(s)})
    /\ syncs' <= MaxSyncs
    /\ \A s \in Syncer : Asked(s) => job'[s].scope \in Scopes
    /\ \A s \in Syncer : Asked(s) /\ job'[s].force => syncLog # {}

\* The threads that serve /graph/sync are interchangeable.
SyncerSymmetry == Permutations(Syncer)

MCSpec == MCInit /\ [][MCNext]_mcVars

=============================================================================
