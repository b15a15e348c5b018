-------------------------------- MODULE MCQA --------------------------------
(* One question, which mentions one of two names; two triples of two types;  *)
(* four chunks of different lengths, the second longer than any budget.      *)
EXTENDS QA

CONSTANTS q1, n1, n2, requires, refunds, t1, t2

MCMentioned == [q \in {q1} |-> {n1}]
MCChunk == 1 .. 4
MCTypeOf == [t \in {t1, t2} |-> IF t = t1 THEN requires ELSE refunds]
MCLineLength == [t \in {t1, t2} |-> IF t = t1 THEN 2 ELSE 3]
MCLength == [c \in 1 .. 4 |-> CASE c = 1 -> 2 [] c = 2 -> 9 [] c = 3 -> 3 [] c = 4 -> 1]

=============================================================================
