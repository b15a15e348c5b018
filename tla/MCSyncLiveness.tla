--------------------------- MODULE MCSyncLiveness ---------------------------
(***************************************************************************)
(* GraphSync under fairness: review requests are bounded, sync jobs are    *)
(* not, so that what happens after the last review is a real infinite      *)
(* suffix.                                                                 *)
(***************************************************************************)
EXTENDS GraphSync, Naturals

CONSTANTS e1, e2, r1, k1, MaxRequests

MCChunkOf == [x \in Entity \cup Relation |-> k1]

policy  == [name |-> "N", type |-> "Policy"]
Applies == [source |-> "Policy", name |-> "APPLIES_TO", target |-> "Policy"]

VARIABLE requests   \* review requests begun

MCInit ==
    /\ SyncInit
    /\ \A e \in Entity : entity[e].status = "PENDING" /\ entity[e].content = policy
    /\ \A r \in Relation : /\ relation[r].srcKey = policy /\ relation[r].tgtKey = policy
                           /\ relation[r].src = e1 /\ relation[r].tgt = e2
                           /\ relation[r].status = "PENDING"
    /\ activeTypes = {Applies}
    /\ requests = 0

MCNext ==
    /\ SyncNext
    /\ activeTypes' \subseteq {Applies}
    /\ requests' = requests +
          Cardinality({s \in Reviewer : Idle(s) /\ (~Idle(s))'})
    /\ requests' <= MaxRequests

MCSpec == MCInit /\ [][MCNext]_<<allVars, requests>> /\ Fairness

=============================================================================
