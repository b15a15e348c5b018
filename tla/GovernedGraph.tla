--------------------------- MODULE GovernedGraph ----------------------------
(***************************************************************************)
(* What the pipeline promises about the approved graph, with no staging    *)
(* tables, no sessions, no jobs and no faults: an item enters the graph    *)
(* only after an approval of it is on record, an edge only between nodes   *)
(* already there, a relation is approved only over approved endpoints, and *)
(* nothing that has been vouched for or loaded is taken back.              *)
(***************************************************************************)
CONSTANTS Entity, Relation

VARIABLES
    vouchedE,  \* entities with an approval on record
    vouchedR,  \* <<relation, source, target>> with an approval on record
    nodes,     \* entities in the graph
    edges      \* <<relation, source, target>> in the graph

Links == Relation \X Entity \X Entity

Init ==
    /\ vouchedE = {}
    /\ vouchedR = {}
    /\ nodes = {}
    /\ edges = {}

VouchEntity(e) ==
    /\ vouchedE' = vouchedE \cup {e}
    /\ UNCHANGED <<vouchedR, nodes, edges>>

VouchRelation(l) ==
    /\ {l[2], l[3]} \subseteq vouchedE
    /\ vouchedR' = vouchedR \cup {l}
    /\ UNCHANGED <<vouchedE, nodes, edges>>

AddNode(e) ==
    /\ e \in vouchedE
    /\ nodes' = nodes \cup {e}
    /\ UNCHANGED <<vouchedE, vouchedR, edges>>

\* The approval on record is of the relation; another approval may have named
\* other endpoints.
AddEdge(l) ==
    /\ \E v \in vouchedR : v[1] = l[1]
    /\ {l[2], l[3]} \subseteq nodes
    /\ edges' = edges \cup {l}
    /\ UNCHANGED <<vouchedE, vouchedR, nodes>>

Next ==
    \/ \E e \in Entity : VouchEntity(e) \/ AddNode(e)
    \/ \E l \in Links : VouchRelation(l) \/ AddEdge(l)

Spec == Init /\ [][Next]_<<vouchedE, vouchedR, nodes, edges>>

=============================================================================
