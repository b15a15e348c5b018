----------------------------- MODULE Catalogue ------------------------------
(***************************************************************************)
(* What POST /documents promises, with no tables, no transactions, no      *)
(* Qdrant and no faults: a content is taken in at once and by one request  *)
(* only, and a request is refused only for a content another one has       *)
(* brought in.  Searches may find a part as soon as its document is taken  *)
(* in, one by one and before the 201.  The statuses of all parts appear in *)
(* one step, INDEXED only for a part that may be found by then, and 201    *)
(* comes after that.  An answer is final: nothing becomes visible after    *)
(* it, and nothing that was taken in or became visible is taken back.      *)
(***************************************************************************)
CONSTANTS Request, Content, Part, PartsOf, Null

VARIABLES
    asked,    \* the content each request has brought
    held,     \* <<request, content>> of the documents on record
    found,    \* <<request, part>> of what a search may find, whatever its status
    indexed,  \* <<request, part>> of what GET shows as INDEXED
    failed,   \* and of what it shows as FAILED; the other parts are PENDING
    reply     \* what each request has been answered

shown == <<indexed, failed>>

Init ==
    /\ asked = [r \in Request |-> Null]
    /\ held = {}
    /\ found = {}
    /\ indexed = {} /\ failed = {}
    /\ reply = [r \in Request |-> "none"]

Waits(r) == asked[r] # Null /\ reply[r] = "none"
TakenIn(r) == Waits(r) /\ <<r, asked[r]>> \in held

Answer(r, a) == reply' = [reply EXCEPT ![r] = a]

Ask(r, c) ==
    /\ asked[r] = Null
    /\ asked' = [asked EXCEPT ![r] = c]
    /\ UNCHANGED <<held, found, shown, reply>>

TakeIn(r) ==
    /\ Waits(r)
    /\ \A d \in Request : <<d, asked[r]>> \notin held
    /\ held' = held \cup {<<r, asked[r]>>}
    /\ UNCHANGED <<asked, found, shown, reply>>

Refuse(r) ==
    /\ Waits(r)
    /\ \E d \in Request \ {r} : <<d, asked[r]>> \in held
    /\ Answer(r, "duplicate")
    /\ UNCHANGED <<asked, held, found, shown>>

Show(r, p) ==
    /\ TakenIn(r)
    /\ p \in PartsOf[asked[r]]
    /\ found' = found \cup {<<r, p>>}
    /\ UNCHANGED <<asked, held, shown, reply>>

\* The parts ps could be indexed, the others could not - although an upsert
\* whose answer was lost may have made one of them known to searches.
Settle(r, ps) ==
    /\ TakenIn(r)
    /\ ps \subseteq PartsOf[asked[r]]
    /\ {r} \X ps \subseteq found
    /\ \A p \in Part : <<r, p>> \notin indexed \cup failed
    /\ indexed' = indexed \cup ({r} \X ps)
    /\ failed' = failed \cup ({r} \X (PartsOf[asked[r]] \ ps))
    /\ UNCHANGED <<asked, held, found, reply>>

Create(r) ==
    /\ TakenIn(r)
    /\ {r} \X PartsOf[asked[r]] \subseteq indexed \cup failed
    /\ Answer(r, "created")
    /\ UNCHANGED <<asked, held, found, shown>>

Fail(r) ==
    /\ Waits(r)
    /\ Answer(r, "error")
    /\ UNCHANGED <<asked, held, found, shown>>

Next ==
    \E r \in Request :
        \/ \E c \in Content : Ask(r, c)
        \/ TakeIn(r)
        \/ Refuse(r)
        \/ \E p \in Part : Show(r, p)
        \/ \E ps \in SUBSET Part : Settle(r, ps)
        \/ Create(r)
        \/ Fail(r)

Spec == Init /\ [][Next]_<<asked, held, found, shown, reply>>

=============================================================================
