----------------------------- MODULE MCPlatform -----------------------------
(***************************************************************************)
(* The parts around the review and graph workflow, checked side by side:   *)
(* Service, Database, Listing, and Chunking on every short text.  They     *)
(* share no variable and no property spans two of them, so one of them     *)
(* moves in each behaviour.                                                *)
(***************************************************************************)
EXTENDS Service, Database, Listing, Chunking, FakeProvider, TLC

CONSTANTS n1, n2, x1, x2, x3, q1, q2, MaxLength

MCLabelOf == [n \in Node |-> IF n = n1 THEN "Entity" ELSE "DocumentChunk"]
MCTxnOf   == [r \in Row |-> CASE r = q1 -> x1
                              [] r = q2 -> x2
                              [] OTHER  -> x3]

VARIABLES
    part,   \* the part that moves
    text    \* what a client has typed

vars == <<serviceVars, databaseVars, listingVars, part, text>>

MCInit ==
    /\ ServiceInit /\ DatabaseInit /\ ListingInit
    /\ text = <<>>
    /\ part \in {"service", "database", "listing", "text"}
    /\ part # "listing" => list = "logs"

MCNext ==
    /\ UNCHANGED part
    /\ \/ /\ part = "service" /\ ServiceNext
          /\ UNCHANGED <<databaseVars, listingVars, text>>
       \/ /\ part = "database" /\ DatabaseNext
          /\ UNCHANGED <<serviceVars, listingVars, text>>
       \/ /\ part = "listing" /\ ListingNext
          /\ UNCHANGED <<serviceVars, databaseVars, text>>
       \/ /\ part = "text" /\ Len(text) < MaxLength
          /\ \E c \in {"a", ".", " "} : text' = Append(text, c)
          /\ UNCHANGED <<serviceVars, databaseVars, listingVars>>

MCSpec == MCInit /\ [][MCNext]_vars

\* Threads, operators and the rows of one transaction are interchangeable.
Symmetry ==
    Permutations(Thread) \cup Permutations(Operator) \cup Permutations(Row \ {q1, q2})

-----------------------------------------------------------------------------

PlatformTypeOK == ServiceTypeOK /\ DatabaseTypeOK /\ ListingTypeOK

\* Split into chunks (app/services/chunking_service.py), a text keeps everything
\* in its order but the white space between its sentences.
SplitIsWhole == SplitsWhole(text)

=============================================================================
