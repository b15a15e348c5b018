------------------------------ MODULE Listing -------------------------------
(***************************************************************************)
(* GET /candidates/entities, /candidates/relations, /audit-logs,           *)
(* /graph/sync-logs and /qa/logs: SELECT ... WHERE ... ORDER BY created_at *)
(* LIMIT ... OFFSET ..., one query per page, while other requests insert   *)
(* rows and reviewers change what the filter looks at.                     *)
(*                                                                         *)
(* created_at is the server's now(), the start of the transaction: the     *)
(* rows of one transaction tie, in whatever order each query returns them, *)
(* and a long transaction publishes rows older than those already listed.  *)
(***************************************************************************)
EXTENDS Naturals, FiniteSets, Sequences

CONSTANTS
    Row,
    Txn,        \* the transactions that insert them
    TxnOf,
    Limit       \* rows per page

ASSUME ListingAssumption ==
    /\ IsFiniteSet(Row)
    /\ TxnOf \in [Row -> Txn]
    /\ Limit \in Nat \ {0}

VARIABLES
    list,       \* which list: "candidates" (oldest first) or "logs" (newest first)
    createdAt,  \* of each transaction, 0 before it begins
    clock,
    row,        \* whether a row is committed, and whether it matches the filter
    walk        \* a client that asks for page after page

listingVars == <<list, createdAt, clock, row, walk>>

\* expected are the rows that matched when the walk began; left, whether a row
\* has ceased to match since.
Walk == [pc : {"none", "paging", "done"}, offset : Nat, shown : SUBSET Row,
         expected : SUBSET Row, left : BOOLEAN]

ListingTypeOK ==
    /\ list \in {"candidates", "logs"}
    /\ createdAt \in [Txn -> Nat]
    /\ clock \in Nat
    /\ row \in [Row -> {"absent", "matching", "other"}]
    /\ walk \in Walk

ListingInit ==
    /\ list \in {"candidates", "logs"}
    /\ createdAt = [x \in Txn |-> 0]
    /\ clock = 0
    /\ row = [r \in Row |-> "absent"]
    /\ walk = [pc |-> "none", offset |-> 0, shown |-> {}, expected |-> {}, left |-> FALSE]

Matching == {r \in Row : row[r] = "matching"}

-----------------------------------------------------------------------------

BeginTxn(x) ==
    /\ createdAt[x] = 0
    /\ clock' = clock + 1
    /\ createdAt' = [createdAt EXCEPT ![x] = clock']
    /\ UNCHANGED <<list, row, walk>>

\* A candidate that violates the ontology is inserted as REJECTED.
CommitTxn(x) ==
    /\ createdAt[x] > 0
    /\ \E r \in Row : TxnOf[r] = x /\ row[r] = "absent"
    /\ \E rejected \in SUBSET {r \in Row : TxnOf[r] = x} :
         /\ list = "logs" => rejected = {}
         /\ row' = [r \in Row |-> IF TxnOf[r] # x THEN row[r]
                                 ELSE IF r \in rejected THEN "other" ELSE "matching"]
    /\ UNCHANGED <<list, createdAt, clock, walk>>

\* A review moves a candidate out of the status filter, or into it; the rows of
\* the logs never change.
Review(r) ==
    /\ list = "candidates"
    /\ \/ /\ row[r] = "matching"
          /\ row' = [row EXCEPT ![r] = "other"]
          /\ walk' = [walk EXCEPT !.left = TRUE]
       \/ /\ row[r] = "other"
          /\ row' = [row EXCEPT ![r] = "matching"]
          /\ UNCHANGED walk
    /\ UNCHANGED <<list, createdAt, clock>>

StartWalk ==
    /\ walk.pc = "none"
    /\ walk' = [pc |-> "paging", offset |-> 0, shown |-> {}, expected |-> Matching,
                left |-> FALSE]
    /\ UNCHANGED <<list, createdAt, clock, row>>

Before(r, q) == IF list = "logs"
                THEN createdAt[TxnOf[r]] > createdAt[TxnOf[q]]
                ELSE createdAt[TxnOf[r]] < createdAt[TxnOf[q]]

\* Mutant of Results: no ORDER BY.
ResultsUnordered ==
    {s \in [1..Cardinality(Matching) -> Matching] :
        \A i, j \in DOMAIN s : i < j => s[i] # s[j]}

\* What the query may return without LIMIT and OFFSET.
Results ==
    {s \in [1..Cardinality(Matching) -> Matching] :
        \A i, j \in DOMAIN s : i < j => s[i] # s[j] /\ ~Before(s[j], s[i])}

\* The client asks on until a page is not full.
NextPage ==
    /\ walk.pc = "paging"
    /\ \E s \in Results :
         LET page == {s[i] : i \in {j \in DOMAIN s : /\ j > walk.offset
                                                     /\ j <= walk.offset + Limit}}
         IN  walk' = [walk EXCEPT
                        !.shown = @ \cup page, !.offset = @ + Limit,
                        !.pc = IF Cardinality(page) < Limit THEN "done" ELSE "paging"]
    /\ UNCHANGED <<list, createdAt, clock, row>>

ListingNext ==
    \/ \E x \in Txn : BeginTxn(x) \/ CommitTxn(x)
    \/ \E r \in Row : Review(r)
    \/ StartWalk \/ NextPage

ListingSpec == ListingInit /\ [][ListingNext]_listingVars

-----------------------------------------------------------------------------

\* Whoever pages to the end has seen every row that matched when he began and
\* shares its created_at with no other, unless some row has left the filter
\* meanwhile: reviewing what one pages through makes the pages skip rows, and so
\* may the ties of one extraction.
WalkSeesAll ==
    walk.pc = "done" /\ ~walk.left =>
        \A r \in walk.expected :
            (\A q \in Row : TxnOf[q] = TxnOf[r] => q = r) => r \in walk.shown

=============================================================================
