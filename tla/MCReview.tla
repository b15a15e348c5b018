------------------------------ MODULE MCReview ------------------------------
(***************************************************************************)
(* A small instance of Review: two entities of one chunk and relations     *)
(* between them, one whose source may still be NULL.  Requests are bounded.*)
(***************************************************************************)
EXTENDS Review, Naturals

CONSTANTS e1, e2, r1, r2, k1, MaxRequests

MCChunkOf == [x \in Entity \cup Relation |-> k1]

policy == [name |-> "P", type |-> "Policy"]

VARIABLE requests   \* requests begun so far

MCInit ==
    /\ Init
    /\ entity[e1].content = policy /\ entity[e1].status = "PENDING"
    /\ relation[r1].srcKey = policy
    /\ relation[r1].tgtKey = entity[e2].content
    /\ relation[r1].tgt = e2
    /\ \A r \in Relation \ {r1} : /\ relation[r] = [relation[r1] EXCEPT !.src = e1]
                                  /\ relation[r].status = "PENDING"
    /\ requests = 0

MCNext ==
    /\ Next
    /\ requests' = requests +
          Cardinality({s \in Reviewer : Idle(s) /\ (~Idle(s))'})
    /\ requests' <= MaxRequests

MCSpec == MCInit /\ [][MCNext]_<<vars, requests>>

=============================================================================
