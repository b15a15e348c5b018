---------------------------- MODULE MCExtraction ----------------------------
(***************************************************************************)
(* A small instance of Extraction: a request that may extract a document   *)
(* of two chunks, another that extracts one of its chunks at any time, and *)
(* registry requests and reviews in between.                               *)
(***************************************************************************)
EXTENDS Extraction

CONSTANTS doc, c1, c2, policy, order, MaxEvents

MCChunksOf == [d \in Document |-> {c1, c2}]

\* Registry requests and reviews so far: a bound on what happens meanwhile.
VARIABLE events

P(t) == [name |-> "P", type |-> t]
O(t) == [name |-> "O", type |-> t]

\* What the answers are made of: one name with two types, a registered
\* signature and one that is not.
MCKeys == {P(policy), O(order)}
MCCandidates ==
    {[srcKey |-> P(policy), type |-> "APPLIES_TO", tgtKey |-> O(order)],
     [srcKey |-> O(policy), type |-> "APPLIES_TO", tgtKey |-> P(policy)]}

MCInit ==
    /\ Init
    /\ entityType = [t \in EntityType |-> IF t = policy THEN "active" ELSE "absent"]
    /\ \A sig \in Signature :
         relationType[sig] = IF sig.source = policy /\ sig.target = order
                             THEN "active" ELSE "absent"
    /\ events = 0

\* Bounds: a request of number 2 or above extracts c1 alone and is told no
\* entity; answers are made of MCKeys and MCCandidates, and only number 1 gets
\* two relations, for c1; a review approves an entity or rejects it, and at
\* will renames it.
MCBound ==
    \A s \in Run : Running(s) =>
        /\ s > 1 => /\ run[s].todo \cup {run[s].chunk} \subseteq {c1, Null}
                    /\ run[s].told = 0
        /\ s > 1 \/ run[s].chunk = c2 => run[s].asked <= 1
        /\ run[s].item \in MCCandidates \cup {Null}
        /\ \A e \in run[s].entities : e.placeholder \/ e.key \in MCKeys

MCReviewed ==
    \A e \in entity' \ entity : run' = run =>
        /\ e.status \in {"APPROVED", "REJECTED"}
        /\ \E d \in entity \ entity' : e.key \in {d.key, P(policy)}

MCNext ==
    /\ Next
    /\ vars' # vars
    /\ MCBound' /\ MCReviewed
    /\ events' = IF run' = run THEN events + 1 ELSE events
    /\ events' <= MaxEvents

MCSpec == MCInit /\ [][MCNext]_<<vars, events>>

=============================================================================
