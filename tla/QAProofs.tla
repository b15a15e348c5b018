------------------------------ MODULE QAProofs ------------------------------
(***************************************************************************)
(* Proofs about module QA: any number of questions at once, whatever the   *)
(* stores and the provider answer and whichever of them fail.              *)
(*                                                                         *)
(* The chunks of a request and what its prompt shows of them are folds, so *)
(* the first lemmas say what those leave: evidence in order, hits without  *)
(* repetition, the longest prefix that fits the budget.  Then every step   *)
(* of a request keeps what is asserted of its record, or ends it with its  *)
(* row in the log.                                                         *)
(***************************************************************************)
EXTENDS QA, FoldTheorems, SequenceTheorems, TLAPS

(* The evidence. *)

\* Every set of chunks has an order of its ids.
LEMMA InOrderExists ==
    ASSUME NEW cs \in SUBSET Chunk
    PROVE  /\ InOrder(cs) \in SetToSeqs(cs)
           /\ \A i, j \in DOMAIN InOrder(cs) : i < j => InOrder(cs)[i] < InOrder(cs)[j]
<1> DEFINE key == [c \in cs |-> c]
<1>1. IsFiniteSet(cs) /\ \A c \in cs : c \in Nat
  BY QAAssumption, FS_Subset
<1>2. Keys(key, cs)
  BY <1>1 DEF Keys
<1>3. \A c \in cs : key[c] = c
  OBVIOUS
<1> HIDE DEF key
<1>4. PICK s \in SetToSeqs(cs) : \A i, j \in DOMAIN s : i < j => key[s[i]] < key[s[j]]
  BY <1>1, <1>2, SortExists
<1>5. \A i \in DOMAIN s : s[i] \in cs
  BY DEF SetToSeqs
<1>6. \A i, j \in DOMAIN s : i < j => s[i] < s[j]
  BY <1>3, <1>4, <1>5
<1> QED BY <1>6 DEF InOrder

Distinct(chunks) == \A i, j \in DOMAIN chunks : chunks[i].chunk = chunks[j].chunk => i = j

ChunksOf(chunks) == {chunks[i].chunk : i \in DOMAIN chunks}

\* The evidence is listed completely and without repetition.
LEMMA EvidenceLists ==
    ASSUME NEW cs \in SUBSET Chunk
    PROVE  /\ Evidence(cs) \in Seq(Retrieved) /\ Len(Evidence(cs)) = Cardinality(cs)
           /\ Distinct(Evidence(cs)) /\ ChunksOf(Evidence(cs)) = cs
<1> DEFINE n == Cardinality(cs)
           o == InOrder(cs)
           e == Evidence(cs)
<1>1. IsFiniteSet(cs) /\ n \in Nat /\ IsFiniteSet(1 .. n) /\ Cardinality(1 .. n) = n
  <2>1. IsFiniteSet(cs)
    BY QAAssumption, FS_Subset
  <2>2. n \in Nat
    BY <2>1, FS_CardinalityType
  <2> HIDE DEF n
  <2> QED BY <2>1, <2>2, FS_Interval
<1>2. o \in [1 .. n -> cs] /\ \A i, j \in 1 .. n : i # j => o[i] # o[j]
  BY InOrderExists DEF SetToSeqs
<1>3. e = [i \in 1 .. n |-> From("graph_evidence", o[i])]
  BY DEF Evidence
<1>4. o \in Surjection(1 .. n, cs)
  <2> HIDE DEF o
  <2>1. o \in Injection(1 .. n, cs)
    BY <1>2 DEF Injection, IsInjective
  <2> QED BY <1>1, <2>1, FS_Injection DEF n
<1> HIDE DEF e, o, n
<1>5. \A i \in 1 .. n : e[i] \in Retrieved /\ e[i].chunk = o[i] /\ o[i] \in cs
  BY <1>2, <1>3 DEF From, Retrieved
<1>6. e \in [1 .. n -> Retrieved] /\ DOMAIN e = 1 .. n
  BY <1>3, <1>5
<1>7. e \in Seq(Retrieved) /\ Len(e) = n
  BY <1>1, <1>6
<1>8. Distinct(e)
  BY <1>2, <1>5, <1>6 DEF Distinct
<1>9. ChunksOf(e) = cs
  BY <1>4, <1>5, <1>6 DEF ChunksOf, Surjection
<1> QED BY <1>7, <1>8, <1>9 DEF e, n

\* So many different chunks are as many chunks.
LEMMA DistinctCount ==
    ASSUME NEW chunks \in Seq(Retrieved), Distinct(chunks)
    PROVE  Cardinality(ChunksOf(chunks)) = Len(chunks) /\ IsFiniteSet(ChunksOf(chunks))
<1> DEFINE S == 1 .. Len(chunks)
           f == [i \in S |-> chunks[i].chunk]
           C == ChunksOf(chunks)
<1>1. S = DOMAIN chunks /\ Len(chunks) \in Nat
  OBVIOUS
<1>2. IsFiniteSet(S) /\ Cardinality(S) = Len(chunks)
  BY <1>1, FS_Interval
<1>3. f \in [S -> C] /\ \A c \in C : \E i \in S : f[i] = c
  BY <1>1 DEF ChunksOf
<1>4. \A i, j \in S : f[i] = f[j] => i = j
  BY <1>1 DEF Distinct
<1> HIDE DEF f, S, C
<1>5. f \in Surjection(S, C)
  BY <1>3 DEF Surjection
<1>6. f \in Injection(S, C)
  BY <1>3, <1>4 DEF Injection, IsInjective
<1>7. IsFiniteSet(C) /\ Cardinality(C) = Cardinality(S)
  BY <1>2, <1>5, <1>6, FS_Surjection
<1> QED BY <1>2, <1>7 DEF C

-----------------------------------------------------------------------------
(* The hits of the search. *)

\* What TopUp makes of one hit.
WithHit(found, remaining, acc, c) ==
    IF Len(acc) - Len(found) = remaining \/ \E i \in DOMAIN acc : acc[i].chunk = c
    THEN acc ELSE Append(acc, From("vector_search", c))

IsTopUp(f, found, hits, remaining) ==
    f = [s \in SUBSET DOMAIN hits |->
           IF s = {} THEN found
           ELSE WithHit(found, remaining, f[s \ {Max(s)}], hits[Max(s)])]

LEMMA TopUpChooses ==
    ASSUME NEW found, NEW hits, NEW remaining
    PROVE  TopUp(found, hits, remaining)
             = (CHOOSE f : IsTopUp(f, found, hits, remaining))[DOMAIN hits]
BY DEF TopUp, FoldLeft, MapThenFoldSet, IsTopUp, WithHit

\* acc[k] is what TopUp has after k hits.
HitByHit(acc, found, hits, remaining) ==
    /\ acc \in [0 .. Len(hits) -> Seq(Retrieved)]
    /\ acc[0] = found /\ acc[Len(hits)] = TopUp(found, hits, remaining)
    /\ \A k \in 1 .. Len(hits) :
         acc[k] = WithHit(found, remaining, acc[k - 1], hits[k])

LEMMA TopUpSteps ==
    ASSUME NEW found \in Seq(Retrieved), NEW hits \in Seq(Chunk), NEW remaining
    PROVE  \E acc : HitByHit(acc, found, hits, remaining)
<1> DEFINE n == Len(hits)
           V == Seq(Retrieved)
           step == [k \in 1 .. n |-> [v \in V |-> WithHit(found, remaining, v, hits[k])]]
           pick == [s \in SUBSET (1 .. n) |-> Max(s)]
<1>1. n \in Nat /\ DOMAIN hits = 1 .. n /\ \A k \in 1 .. n : hits[k] \in Chunk
  OBVIOUS
<1>2. \A k \in 1 .. n, v \in V : step[k][v] = WithHit(found, remaining, v, hits[k])
  OBVIOUS
<1>3. ASSUME NEW v \in V, NEW c \in Chunk
      PROVE  WithHit(found, remaining, v, c) \in V
  <2> DEFINE e == From("vector_search", c)
  <2>1. e \in Retrieved
    BY DEF From, Retrieved
  <2> HIDE DEF e
  <2>2. Append(v, e) \in V
    BY <2>1
  <2> QED BY <2>2 DEF WithHit, e
<1>4. \A s \in SUBSET (1 .. n) : pick[s] = Max(s)
  OBVIOUS
<1> HIDE DEF n, V, step, pick
<1>5. StaysIn(V, step, 1 .. n)
  BY <1>1, <1>2, <1>3 DEF StaysIn
<1>6. found \in V
  BY DEF V
<1>7. PICK g : IsFold(g, 1 .. n, V, found, pick, step)
  BY <1>1, <1>5, <1>6, LeftFoldExists DEF pick
<1>8. IsTopUp(g, found, hits, remaining)
  <2>1. g = [s \in SUBSET (1 .. n) |-> g[s]] /\ g[{}] = found
    BY <1>7 DEF IsFold
  <2>2. ASSUME NEW s \in SUBSET (1 .. n), s # {}
        PROVE  g[s] = WithHit(found, remaining, g[s \ {Max(s)}], hits[Max(s)])
    <3>1. g[s] = step[Max(s)][g[s \ {Max(s)}]] /\ g[s \ {Max(s)}] \in V
      BY <1>4, <1>7, <2>2 DEF IsFold
    <3>2. Max(s) \in 1 .. n
      BY <1>1, <2>2, MaxOfIndices
    <3> QED BY <1>2, <3>1, <3>2
  <2> QED BY <1>1, <2>1, <2>2 DEF IsTopUp
<1> DEFINE f == CHOOSE h : IsTopUp(h, found, hits, remaining)
<1>9. IsTopUp(f, found, hits, remaining) /\ TopUp(found, hits, remaining) = f[1 .. n]
  BY <1>1, <1>8, TopUpChooses
<1> HIDE DEF f
<1>10. f[{}] = found
  BY <1>9 DEF IsTopUp
<1>11. ASSUME NEW s \in SUBSET (1 .. n), s # {}, f[s \ {Max(s)}] \in V
       PROVE  f[s] = step[Max(s)][f[s \ {Max(s)}]]
  <2>1. f[s] = WithHit(found, remaining, f[s \ {Max(s)}], hits[Max(s)])
    BY <1>1, <1>9, <1>11 DEF IsTopUp
  <2>2. Max(s) \in 1 .. n
    BY <1>1, <1>11, MaxOfIndices
  <2> QED BY <1>2, <1>11, <2>1, <2>2
<1>12. FoldsLeft(f, n, V, found, step)
  BY <1>10, <1>11 DEF FoldsLeft
<1>13. PICK acc : Accumulates(acc, n, V, found, step) /\ acc[n] = f[1 .. n]
  BY <1>1, <1>5, <1>6, <1>12, LeftFoldSteps
<1>14. acc \in [0 .. n -> V] /\ acc[0] = found /\ acc[n] = TopUp(found, hits, remaining)
  BY <1>9, <1>13 DEF Accumulates
<1>15. \A k \in 1 .. n : acc[k] = WithHit(found, remaining, acc[k - 1], hits[k])
  <2> TAKE k \in 1 .. n
  <2>1. acc[k - 1] \in V
    BY <1>1, <1>14
  <2> QED BY <1>2, <1>13, <2>1 DEF Accumulates
<1> QED BY <1>14, <1>15 DEF n, V, HitByHit

HitSet(hits, k) == {hits[i] : i \in 1 .. k}

\* The hits that are new come after what was found, as many as may come or all.
ToppedUp(found, hits, remaining, acc, k) ==
    /\ Distinct(acc)
    /\ Len(found) <= Len(acc) /\ Len(acc) <= Len(found) + remaining
    /\ \A i \in 1 .. Len(found) : acc[i] = found[i]
    /\ ChunksOf(acc) \subseteq ChunksOf(found) \cup HitSet(hits, k)
    /\ \/ Len(acc) = Len(found) + remaining
       \/ ChunksOf(acc) = ChunksOf(found) \cup HitSet(hits, k)

LEMMA WithHitToppedUp ==
    ASSUME NEW found \in Seq(Retrieved), NEW hits \in Seq(Chunk), NEW remaining \in Nat,
           NEW k \in 1 .. Len(hits), NEW acc \in Seq(Retrieved),
           ToppedUp(found, hits, remaining, acc, k - 1)
    PROVE  ToppedUp(found, hits, remaining, WithHit(found, remaining, acc, hits[k]), k)
<1> DEFINE c == hits[k]
           n == Len(found)
           m == Len(acc)
           e == From("vector_search", c)
           b == Append(acc, e)
<1>1. /\ n \in Nat /\ m \in Nat /\ k \in Nat /\ c \in Chunk
      /\ DOMAIN acc = 1 .. m
  OBVIOUS
<1>2. HitSet(hits, k) = HitSet(hits, k - 1) \cup {c}
  BY <1>1 DEF HitSet
<1>3. /\ Distinct(acc) /\ n <= m /\ m <= n + remaining
      /\ \A i \in 1 .. n : acc[i] = found[i]
      /\ ChunksOf(acc) \subseteq ChunksOf(found) \cup HitSet(hits, k - 1)
      /\ \/ m = n + remaining
         \/ ChunksOf(acc) = ChunksOf(found) \cup HitSet(hits, k - 1)
  BY DEF ToppedUp
<1>4. CASE m = n + remaining
  <2>1. m - n = remaining
    BY <1>1, <1>4
  <2>2. WithHit(found, remaining, acc, c) = acc
    BY <2>1 DEF WithHit
  <2> HIDE DEF c, n, m
  <2>3. ChunksOf(acc) \subseteq ChunksOf(found) \cup HitSet(hits, k)
    BY <1>2, <1>3
  <2> QED BY <1>3, <1>4, <2>2, <2>3 DEF ToppedUp, c, n, m
<1>5. CASE c \in ChunksOf(acc)
  <2>1. \E i \in DOMAIN acc : acc[i].chunk = c
    BY <1>5 DEF ChunksOf
  <2>2. WithHit(found, remaining, acc, c) = acc
    BY <2>1 DEF WithHit
  <2> HIDE DEF c, n, m
  <2>3. /\ ChunksOf(acc) \subseteq ChunksOf(found) \cup HitSet(hits, k)
        /\ \/ m = n + remaining
           \/ ChunksOf(acc) = ChunksOf(found) \cup HitSet(hits, k)
    BY <1>2, <1>3, <1>5
  <2> QED BY <1>3, <2>2, <2>3 DEF ToppedUp, c, n, m
<1>6. CASE m # n + remaining /\ c \notin ChunksOf(acc)
  <2>1. ~ \E i \in DOMAIN acc : acc[i].chunk = c
    BY <1>6 DEF ChunksOf
  <2>2. m - n # remaining
    <3> HIDE DEF c, n, m, b
    <3> QED BY <1>1, <1>6
  <2>3. WithHit(found, remaining, acc, c) = b
    BY <2>1, <2>2 DEF WithHit
  <2>4. e \in Retrieved /\ e.chunk = c
    BY <1>1 DEF From, Retrieved
  <2> HIDE DEF c, e
  <2>5. /\ DOMAIN b = 1 .. (m + 1) /\ Len(b) = m + 1 /\ b[m + 1] = e
        /\ \A i \in 1 .. m : b[i] = acc[i]
    BY <2>4
  <2> HIDE DEF b, n, m
  <2>6. Distinct(b)
    BY <1>1, <1>3, <2>1, <2>4, <2>5 DEF Distinct
  <2>7. ChunksOf(b) = ChunksOf(acc) \cup {c}
    <3>1. 1 .. (m + 1) = (1 .. m) \cup {m + 1}
      BY <1>1
    <3> QED BY <1>1, <2>4, <2>5, <3>1 DEF ChunksOf
  <2>8. ChunksOf(acc) = ChunksOf(found) \cup HitSet(hits, k - 1)
    BY <1>3, <1>6
  <2>9. ChunksOf(b) = ChunksOf(found) \cup HitSet(hits, k)
    BY <1>2, <2>7, <2>8
  <2>10. n <= m + 1 /\ m + 1 <= n + remaining
    BY <1>1, <1>3, <1>6
  <2>11. \A i \in 1 .. n : b[i] = found[i]
    BY <1>1, <1>3, <2>5
  <2>12. ToppedUp(found, hits, remaining, b, k)
    BY <2>5, <2>6, <2>9, <2>10, <2>11 DEF ToppedUp, n
  <2> QED BY <2>3, <2>12 DEF c
<1> QED BY <1>4, <1>5, <1>6

LEMMA TopUpTopsUp ==
    ASSUME NEW found \in Seq(Retrieved), Distinct(found), NEW hits \in Seq(Chunk),
           NEW remaining \in Nat
    PROVE  /\ TopUp(found, hits, remaining) \in Seq(Retrieved)
           /\ ToppedUp(found, hits, remaining, TopUp(found, hits, remaining), Len(hits))
<1>0. PICK acc : HitByHit(acc, found, hits, remaining)
  BY TopUpSteps
<1> DEFINE N == Len(hits)
           Good(a, k) == ToppedUp(found, hits, remaining, a, k)
<1>1. /\ acc[0] = found /\ acc[N] = TopUp(found, hits, remaining)
      /\ acc \in [0 .. N -> Seq(Retrieved)]
      /\ \A k \in 1 .. N : acc[k] = WithHit(found, remaining, acc[k - 1], hits[k])
  BY <1>0 DEF HitByHit
<1>2. N \in Nat
  OBVIOUS
<1>3. Good(found, 0)
  <2>1. HitSet(hits, 0) = {}
    BY DEF HitSet
  <2> QED BY <2>1 DEF ToppedUp
<1> HIDE DEF N
<1>4. ASSUME NEW k \in 1 .. N, Good(acc[k - 1], k - 1)
      PROVE  Good(acc[k], k)
  <2>1. k - 1 \in 0 .. N
    BY <1>2
  <2>2. acc[k - 1] \in Seq(Retrieved) /\ k \in 1 .. Len(hits)
    BY <1>1, <2>1 DEF N
  <2> QED BY <1>1, <1>4, <2>2, WithHitToppedUp
<1> DEFINE Done == {k \in Nat : k <= N => Good(acc[k], k)}
<1>5. Nat \subseteq Done
  <2> HIDE DEF Good
  <2>1. 0 \in Done
    BY <1>1, <1>3
  <2>2. ASSUME NEW k \in Nat, k \in Done PROVE k + 1 \in Done
    <3> SUFFICES ASSUME k + 1 <= N PROVE Good(acc[k + 1], k + 1)
      OBVIOUS
    <3>1. k + 1 \in 1 .. N /\ (k + 1) - 1 = k /\ Good(acc[k], k)
      BY <1>2, <2>2
    <3> QED BY <1>4, <3>1
  <2> HIDE DEF Done
  <2> QED BY <2>1, <2>2, SetInduction
<1>6. Good(acc[N], N) /\ acc[N] \in Seq(Retrieved)
  <2> HIDE DEF Good
  <2>1. N \in Done /\ N \in 0 .. N /\ N <= N
    <3> HIDE DEF Done
    <3> QED BY <1>2, <1>5
  <2> QED BY <1>1, <2>1
<1> QED BY <1>1, <1>6 DEF N

-----------------------------------------------------------------------------
(* What the retriever returns. *)

\* EvidenceThenHits of one request.
Ranked(pts, evidence, chunks) ==
    LET n == Cardinality(evidence)
    IN  /\ SubSeq(chunks, 1, n) = Evidence(evidence)
        /\ Distinct(chunks)
        /\ \/ Len(chunks) = n
           \/ Len(chunks) = Min({TopK, Cardinality(evidence \cup pts)})

LEMMA MinOfTwo ==
    ASSUME NEW a \in Int, NEW b \in Int
    PROVE  Min({a, b}) = IF a <= b THEN a ELSE b
<1> DEFINE m == IF a <= b THEN a ELSE b
<1>1. m \in {a, b} /\ \A y \in {a, b} : m =< y
  OBVIOUS
<1>2. \A x \in {a, b} : (\A y \in {a, b} : x =< y) => x = m
  OBVIOUS
<1> HIDE DEF m
<1>3. Min({a, b}) = m
  BY <1>1, <1>2 DEF Min
<1> QED BY <1>3 DEF m

LEMMA EvidenceRanked ==
    ASSUME NEW pts, NEW cs \in SUBSET Chunk
    PROVE  Ranked(pts, cs, Evidence(cs))
<1>1. SubSeq(Evidence(cs), 1, Len(Evidence(cs))) = Evidence(cs)
  BY EvidenceLists
<1> QED BY <1>1, EvidenceLists DEF Ranked

LEMMA SearchRanked ==
    ASSUME points \in SUBSET Chunk, NEW cs \in SUBSET Chunk, Cardinality(cs) < TopK,
           NEW ranking \in SetToSeqs(points)
    PROVE  LET found == Evidence(cs)
               limit == Min({SearchLimit(found), Cardinality(points)})
               chunks == TopUp(found, SubSeq(ranking, 1, limit), TopK - Len(found))
           IN  chunks \in Seq(Retrieved) /\ Ranked(points, cs, chunks)
<1> DEFINE found == Evidence(cs)
           P == Cardinality(points)
           n == Cardinality(cs)
           limit == Min({SearchLimit(found), P})
           hits == SubSeq(ranking, 1, limit)
           rem == TopK - Len(found)
           chunks == TopUp(found, hits, rem)
           all == cs \cup points
<1>1. /\ found \in Seq(Retrieved) /\ Len(found) = n /\ Distinct(found)
      /\ ChunksOf(found) = cs
  BY EvidenceLists
<1>2. /\ IsFiniteSet(cs) /\ IsFiniteSet(points) /\ IsFiniteSet(all)
      /\ all \in SUBSET Chunk
  BY QAAssumption, FS_Subset
<1>3. n \in Nat /\ P \in Nat /\ Cardinality(all) \in Nat /\ TopK \in Nat
  BY <1>2, QAAssumption, FS_CardinalityType
<1>4. limit = IF TopK + n <= P THEN TopK + n ELSE P
  <2>1. SearchLimit(found) = TopK + n
    BY <1>1 DEF SearchLimit
  <2> HIDE DEF found, n, P
  <2> QED BY <1>3, <2>1, MinOfTwo
<1>5. limit \in Nat /\ limit <= P /\ (limit = P \/ limit = TopK + n)
  <2> HIDE DEF limit, n, P
  <2> QED BY <1>3, <1>4
<1>6. /\ ranking \in [1 .. P -> points]
      /\ \A i, j \in 1 .. P : i # j => ranking[i] # ranking[j]
  BY DEF SetToSeqs
<1>7. ranking \in Seq(Chunk) /\ Len(ranking) = P
  <2> HIDE DEF P
  <2> QED BY <1>3, <1>6
<1>8. /\ hits \in Seq(Chunk) /\ Len(hits) = limit
      /\ \A i \in 1 .. limit : hits[i] = ranking[i]
  <2> HIDE DEF limit, P
  <2> QED BY <1>3, <1>5, <1>7
<1>9. rem \in Nat /\ n + rem = TopK
  <2> HIDE DEF found
  <2> QED BY <1>1, <1>3
<1> DEFINE H == HitSet(hits, limit)
<1>10. H \in SUBSET points /\ Cardinality(H) = limit
  <2> DEFINE S == 1 .. limit
             f == [i \in S |-> ranking[i]]
  <2>1. H = {f[i] : i \in S}
    BY <1>8 DEF HitSet
  <2> HIDE DEF limit, P, H
  <2>0. S \subseteq 1 .. P
    BY <1>3, <1>5
  <2>2. IsFiniteSet(S) /\ Cardinality(S) = limit
    BY <1>5, FS_Interval
  <2>3. \A i \in S : f[i] = ranking[i] /\ f[i] \in points
    BY <1>6, <2>0
  <2>4. f \in [S -> H] /\ \A h \in H : \E i \in S : f[i] = h
    BY <2>1
  <2>5. \A i, j \in S : f[i] = f[j] => i = j
    BY <1>6, <2>0, <2>3
  <2>6. H \in SUBSET points
    BY <2>3, <2>4
  <2> HIDE DEF f, S
  <2>7. f \in Surjection(S, H) /\ f \in Injection(S, H)
    BY <2>4, <2>5 DEF Surjection, Injection, IsInjective
  <2>8. Cardinality(H) = Cardinality(S)
    BY <2>2, <2>7, FS_Surjection
  <2> QED BY <2>2, <2>6, <2>8
<1> HIDE DEF found, hits, rem, limit
<1>11. chunks \in Seq(Retrieved) /\ ToppedUp(found, hits, rem, chunks, Len(hits))
  BY <1>1, <1>8, <1>9, TopUpTopsUp
<1> HIDE DEF chunks, H, all, P, n
<1>12. /\ Distinct(chunks) /\ n <= Len(chunks) /\ Len(chunks) <= TopK
       /\ \A i \in 1 .. n : chunks[i] = found[i]
       /\ ChunksOf(chunks) \subseteq cs \cup H
       /\ Len(chunks) = TopK \/ ChunksOf(chunks) = cs \cup H
  BY <1>1, <1>8, <1>9, <1>11 DEF ToppedUp, H
<1>13. /\ Cardinality(ChunksOf(chunks)) = Len(chunks)
       /\ Len(chunks) \in Nat
  BY <1>11, <1>12, DistinctCount
<1>14. cs \cup H \in SUBSET all /\ H \in SUBSET all
  BY <1>10 DEF all
<1>15. Cardinality(ChunksOf(chunks)) <= Cardinality(all)
  <2>1. ChunksOf(chunks) \in SUBSET all
    BY <1>12, <1>14
  <2> QED BY <1>2, <2>1, FS_Subset
<1>16. Len(chunks) = Min({TopK, Cardinality(all)})
  <2>1. CASE Len(chunks) = TopK
    BY <1>3, <1>13, <1>15, <2>1, MinOfTwo
  <2>2. CASE Len(chunks) # TopK
    <3>1. ChunksOf(chunks) = cs \cup H /\ Len(chunks) < TopK
      BY <1>3, <1>12, <1>13, <2>2
    <3>2. IsFiniteSet(cs \cup H) /\ Cardinality(H) <= Cardinality(cs \cup H)
      <4>1. IsFiniteSet(cs \cup H)
        BY <1>2, <1>14, FS_Subset
      <4> QED BY <4>1, FS_Subset
    <3>3. limit < TopK
      BY <1>3, <1>5, <1>10, <1>13, <3>1, <3>2
    <3>4. limit = P
      BY <1>3, <1>5, <3>3
    <3>5. H = points
      BY <1>2, <1>10, <3>4, FS_Subset DEF P
    <3>6. Len(chunks) = Cardinality(all)
      BY <1>13, <3>1, <3>5 DEF all
    <3> QED BY <1>3, <3>1, <3>6, MinOfTwo
  <2> QED BY <2>1, <2>2
<1>17. SubSeq(chunks, 1, n) = found
  <2>1. SubSeq(chunks, 1, n) = SubSeq(found, 1, n)
    BY <1>1, <1>3, <1>11, <1>12
  <2> QED BY <1>1, <1>3, <2>1
<1>18. Ranked(points, cs, chunks)
  BY <1>12, <1>16, <1>17 DEF Ranked, n, found, all
<1> QED BY <1>11, <1>18 DEF chunks, hits, rem, limit, found, P

-----------------------------------------------------------------------------
(* The evidence block. *)

Rendering == [used : Seq(Retrieved), consumed : Nat, full : BOOLEAN]

\* What RenderEvidence makes of one chunk.
WithBlock(budget, acc, c) ==
    IF acc.full \/ (acc.consumed + Length[c.chunk] > budget /\ acc.used # <<>>)
    THEN [acc EXCEPT !.full = TRUE]
    ELSE [acc EXCEPT !.used = Append(@, c), !.consumed = @ + Length[c.chunk]]

Nothing == [used |-> <<>>, consumed |-> 0, full |-> FALSE]

IsRendering(f, chunks, budget) ==
    f = [s \in SUBSET DOMAIN chunks |->
           IF s = {} THEN Nothing
           ELSE WithBlock(budget, f[s \ {Max(s)}], chunks[Max(s)])]

LEMMA RenderChooses ==
    ASSUME NEW chunks, NEW budget
    PROVE  RenderEvidence(chunks, budget)
             = (CHOOSE f : IsRendering(f, chunks, budget))[DOMAIN chunks].used
BY DEF RenderEvidence, FoldLeft, MapThenFoldSet, IsRendering, WithBlock, Nothing

LEMMA WithBlockType ==
    ASSUME NEW budget, NEW acc \in Rendering, NEW c \in Retrieved
    PROVE  WithBlock(budget, acc, c) \in Rendering
<1>1. Length[c.chunk] \in Nat
  BY QAAssumption DEF Retrieved
<1>2. Append(acc.used, c) \in Seq(Retrieved) /\ acc.consumed + Length[c.chunk] \in Nat
  BY <1>1 DEF Rendering
<1> DEFINE u == Append(acc.used, c)
           m == acc.consumed + Length[c.chunk]
<1>3. [acc EXCEPT !.full = TRUE] \in Rendering
  BY DEF Rendering
<1>4. [acc EXCEPT !.used = Append(@, c), !.consumed = @ + Length[c.chunk]]
        = [acc EXCEPT !.used = u, !.consumed = m]
  BY DEF Rendering
<1> HIDE DEF u, m
<1>5. [acc EXCEPT !.used = u, !.consumed = m] \in Rendering
  BY <1>2 DEF Rendering, u, m
<1> QED BY <1>3, <1>4, <1>5 DEF WithBlock

LEMMA RenderSteps ==
    ASSUME NEW chunks \in Seq(Retrieved), NEW budget
    PROVE  \E acc \in [0 .. Len(chunks) -> Rendering] :
             /\ acc[0] = Nothing
             /\ acc[Len(chunks)].used = RenderEvidence(chunks, budget)
             /\ \A k \in 1 .. Len(chunks) :
                  acc[k] = WithBlock(budget, acc[k - 1], chunks[k])
<1> DEFINE n == Len(chunks)
           V == Rendering
           step == [k \in 1 .. n |-> [v \in V |-> WithBlock(budget, v, chunks[k])]]
           pick == [s \in SUBSET (1 .. n) |-> Max(s)]
<1>1. n \in Nat /\ DOMAIN chunks = 1 .. n /\ \A k \in 1 .. n : chunks[k] \in Retrieved
  OBVIOUS
<1>2. \A k \in 1 .. n, v \in V : step[k][v] = WithBlock(budget, v, chunks[k])
  OBVIOUS
<1>3. \A v \in V, c \in Retrieved : WithBlock(budget, v, c) \in V
  BY WithBlockType
<1>4. \A s \in SUBSET (1 .. n) : pick[s] = Max(s)
  OBVIOUS
<1>5. Nothing \in V
  BY DEF Nothing, Rendering
<1> HIDE DEF n, V, step, pick
<1>6. StaysIn(V, step, 1 .. n)
  BY <1>1, <1>2, <1>3 DEF StaysIn
<1>7. PICK g : IsFold(g, 1 .. n, V, Nothing, pick, step)
  BY <1>1, <1>5, <1>6, LeftFoldExists DEF pick
<1>8. IsRendering(g, chunks, budget)
  <2>1. g = [s \in SUBSET (1 .. n) |-> g[s]] /\ g[{}] = Nothing
    BY <1>7 DEF IsFold
  <2>2. ASSUME NEW s \in SUBSET (1 .. n), s # {}
        PROVE  g[s] = WithBlock(budget, g[s \ {Max(s)}], chunks[Max(s)])
    <3>1. g[s] = step[Max(s)][g[s \ {Max(s)}]] /\ g[s \ {Max(s)}] \in V
      BY <1>4, <1>7, <2>2 DEF IsFold
    <3>2. Max(s) \in 1 .. n
      BY <1>1, <2>2, MaxOfIndices
    <3> QED BY <1>2, <3>1, <3>2
  <2> QED BY <1>1, <2>1, <2>2 DEF IsRendering
<1> DEFINE f == CHOOSE h : IsRendering(h, chunks, budget)
<1>9. IsRendering(f, chunks, budget) /\ RenderEvidence(chunks, budget) = f[1 .. n].used
  BY <1>1, <1>8, RenderChooses
<1> HIDE DEF f
<1>10. f[{}] = Nothing
  BY <1>9 DEF IsRendering
<1>11. ASSUME NEW s \in SUBSET (1 .. n), s # {}, f[s \ {Max(s)}] \in V
       PROVE  f[s] = step[Max(s)][f[s \ {Max(s)}]]
  <2>1. f[s] = WithBlock(budget, f[s \ {Max(s)}], chunks[Max(s)])
    BY <1>1, <1>9, <1>11 DEF IsRendering
  <2>2. Max(s) \in 1 .. n
    BY <1>1, <1>11, MaxOfIndices
  <2> QED BY <1>2, <1>11, <2>1, <2>2
<1>12. FoldsLeft(f, n, V, Nothing, step)
  BY <1>10, <1>11 DEF FoldsLeft
<1>13. PICK acc : Accumulates(acc, n, V, Nothing, step) /\ acc[n] = f[1 .. n]
  BY <1>1, <1>5, <1>6, <1>12, LeftFoldSteps
<1>14. /\ acc \in [0 .. n -> V] /\ acc[0] = Nothing
       /\ acc[n].used = RenderEvidence(chunks, budget)
  BY <1>9, <1>13 DEF Accumulates
<1>15. \A k \in 1 .. n : acc[k] = WithBlock(budget, acc[k - 1], chunks[k])
  <2> TAKE k \in 1 .. n
  <2>1. acc[k - 1] \in V
    BY <1>1, <1>14
  <2> QED BY <1>2, <1>13, <2>1 DEF Accumulates
<1> QED BY <1>14, <1>15 DEF n, V

\* The length of the first blocks.

Lengths(chunks) == [i \in DOMAIN chunks |-> Length[chunks[i].chunk]]
Total(chunks, k) == SumFunctionOnSet(Lengths(chunks), 1 .. k)

LEMMA TotalIsSum ==
    ASSUME NEW chunks \in Seq(Retrieved), NEW k \in 0 .. Len(chunks)
    PROVE  /\ Total(chunks, k) \in Nat
           /\ k = 0 => Total(chunks, k) = 0
           /\ k # 0 => Total(chunks, k) = Total(chunks, k - 1) + Length[chunks[k].chunk]
<1> DEFINE w == Lengths(chunks)
           T == 1 .. (k - 1)
<1>1. \A i \in 1 .. Len(chunks) : w[i] = Length[chunks[i].chunk] /\ w[i] \in Nat
  <2>1. \A i \in 1 .. Len(chunks) : i \in DOMAIN chunks /\ chunks[i] \in Retrieved
    OBVIOUS
  <2>2. \A c \in Retrieved : c.chunk \in Chunk
    BY DEF Retrieved
  <2> QED BY <2>1, <2>2, QAAssumption DEF Lengths
<1>2. k \in Nat /\ k <= Len(chunks) /\ Len(chunks) \in Nat
  OBVIOUS
<1>3. /\ IsFiniteSet(1 .. k) /\ IsFiniteSet(T) /\ T \subseteq 1 .. k
      /\ Weights(w, 1 .. k) /\ Weights(w, T)
  <2> HIDE DEF w
  <2>1. IsFiniteSet(1 .. k)
    BY <1>2, FS_Interval
  <2>2. T \subseteq 1 .. k
    BY <1>2
  <2>3. \A i \in 1 .. k : i \in 1 .. Len(chunks)
    BY <1>2
  <2> HIDE DEF T
  <2> QED BY <1>1, <2>1, <2>2, <2>3, FS_Subset DEF Weights
<1> HIDE DEF w
<1>4. PICK f : IsSum(f, 1 .. k, w) /\ SumFunctionOnSet(w, 1 .. k) = f[1 .. k]
  BY <1>3, SumIsSum
<1>5. Total(chunks, k) = f[1 .. k] /\ f \in [SUBSET (1 .. k) -> Nat]
  BY <1>4 DEF Total, w, IsSum
<1>6. CASE k = 0
  <2>1. 1 .. k = {}
    BY <1>6
  <2>2. f[{}] = 0
    BY <1>4 DEF IsSum
  <2> QED BY <1>5, <1>6, <2>1, <2>2
<1>7. CASE k # 0
  <2>1. k \in 1 .. k /\ (1 .. k) \ {k} = T
    BY <1>2, <1>7
  <2> HIDE DEF T
  <2> DEFINE S == 1 .. k
  <2>2. PICK g : IsSum(g, T, w) /\ SumFunctionOnSet(w, T) = g[T]
    BY <1>3, SumIsSum
  <2>3. /\ T \in SUBSET S /\ k \in S /\ S \in SUBSET S /\ S \ {k} = T
        /\ IsFiniteSet(S) /\ Weights(w, S) /\ IsSum(f, S, w)
    BY <1>3, <1>4, <2>1
  <2> HIDE DEF S
  <2>4. f[T] = g[T]
    BY <2>2, <2>3, SumsAgree
  <2>5. f[S] = w[k] + f[T]
    BY <2>3, SumTakesApart
  <2>6. Total(chunks, k - 1) = f[T]
    BY <2>2, <2>4 DEF Total, T, w
  <2>7. w[k] = Length[chunks[k].chunk] /\ w[k] \in Nat
    BY <1>1, <1>2, <1>7
  <2>8. f[T] \in Nat
    BY <1>3, <1>5
  <2> QED BY <1>5, <1>7, <2>5, <2>6, <2>7, <2>8 DEF S
<1> QED BY <1>6, <1>7

\* The blocks that were rendered are a prefix of the chunks that fits, or the
\* first of them, and the next one would not have fitted.
Prefix(chunks, budget, used, k) ==
    /\ used = SubSeq(chunks, 1, k)
    /\ k > 1 => Total(chunks, k) <= budget

Fits(chunks, budget, used) ==
    \E k \in 0 .. Len(chunks) :
        /\ Prefix(chunks, budget, used, k)
        /\ chunks # <<>> => k > 0
        /\ k < Len(chunks) => Total(chunks, k + 1) > budget

LEMMA RenderFits ==
    ASSUME NEW chunks \in Seq(Retrieved), NEW budget \in Int
    PROVE  /\ RenderEvidence(chunks, budget) \in Seq(Retrieved)
           /\ Fits(chunks, budget, RenderEvidence(chunks, budget))
<1> DEFINE N == Len(chunks)
           Full(u, k) ==
             \E j \in 1 .. (k - 1) :
               Prefix(chunks, budget, u, j) /\ Total(chunks, j + 1) > budget
           Good(a, k) ==
             IF a.full THEN Full(a.used, k)
             ELSE /\ Prefix(chunks, budget, a.used, k)
                  /\ a.consumed = Total(chunks, k)
<1>1. PICK acc \in [0 .. N -> Rendering] :
        /\ acc[0] = Nothing
        /\ acc[N].used = RenderEvidence(chunks, budget)
        /\ \A k \in 1 .. N : acc[k] = WithBlock(budget, acc[k - 1], chunks[k])
  BY RenderSteps
<1>2. N \in Nat /\ \A k \in 1 .. N : chunks[k] \in Retrieved
  OBVIOUS
<1>3. Good(Nothing, 0)
  <2>1. Total(chunks, 0) = 0
    BY <1>2, TotalIsSum
  <2>2. SubSeq(chunks, 1, 0) = <<>>
    OBVIOUS
  <2> QED BY <2>1, <2>2 DEF Nothing, Prefix
<1>4. ASSUME NEW k \in 1 .. N, NEW a \in Rendering, Good(a, k - 1)
      PROVE  Good(WithBlock(budget, a, chunks[k]), k)
  <2> DEFINE c == chunks[k]
             l == Length[c.chunk]
             b == WithBlock(budget, a, c)
  <2> SUFFICES Good(b, k)
    OBVIOUS
  <2>1. c \in Retrieved /\ l \in Nat
    BY <1>2, QAAssumption DEF Retrieved
  <2>2. a.used \in Seq(Retrieved) /\ a.consumed \in Nat
    BY DEF Rendering
  <2>3. k \in Nat /\ k > 0
    BY <1>2
  <2>4. CASE a.full
    <3>1. b.used = a.used /\ b.full
      BY <2>4 DEF WithBlock, Rendering
    <3>2. PICK j \in 1 .. ((k - 1) - 1) :
            Prefix(chunks, budget, a.used, j) /\ Total(chunks, j + 1) > budget
      BY <2>4
    <3>3. j \in 1 .. (k - 1)
      BY <2>3
    <3>4. Full(a.used, k)
      BY <3>2, <3>3
    <3> HIDE DEF b, Full
    <3> QED BY <3>1, <3>4
  <2>5. CASE ~a.full
    <3>1. Prefix(chunks, budget, a.used, k - 1) /\ a.consumed = Total(chunks, k - 1)
      BY <2>5
    <3>2. Total(chunks, k) = a.consumed + l
      BY <2>3, <3>1, TotalIsSum
    <3>3. a.used # <<>> <=> k > 1
      <4>1. a.used = SubSeq(chunks, 1, k - 1)
        BY <3>1 DEF Prefix
      <4>2. Len(SubSeq(chunks, 1, k - 1)) = k - 1
        BY <2>3
      <4> QED BY <2>2, <2>3, <4>1, <4>2
    <3>4. CASE a.consumed + l > budget /\ a.used # <<>>
      <4>1. b.used = a.used /\ b.full
        BY <3>4 DEF WithBlock, Rendering
      <4>2. k - 1 \in 1 .. (k - 1) /\ (k - 1) + 1 = k
        BY <2>3, <3>3, <3>4
      <4>3. Full(a.used, k)
        BY <3>1, <3>2, <3>4, <4>2
      <4> HIDE DEF b, Full
      <4> QED BY <4>1, <4>3
    <3>5. CASE ~(a.consumed + l > budget /\ a.used # <<>>)
      <4>1. b.used = Append(a.used, c) /\ b.consumed = a.consumed + l /\ ~b.full
        BY <2>5, <3>5 DEF WithBlock, Rendering
      <4>2. Append(SubSeq(chunks, 1, k - 1), c) = SubSeq(chunks, 1, k)
        OBVIOUS
      <4>3. b.used = SubSeq(chunks, 1, k)
        BY <3>1, <4>1, <4>2 DEF Prefix
      <4> HIDE DEF b, c, l, Full
      <4>4. k > 1 => Total(chunks, k) <= budget
        BY <2>1, <2>2, <3>2, <3>3, <3>5
      <4> QED BY <3>2, <4>1, <4>3, <4>4 DEF Prefix
    <3> QED BY <3>4, <3>5
  <2> QED BY <2>4, <2>5
<1> DEFINE Done == {k \in Nat : k <= N => Good(acc[k], k)}
<1>5. Nat \subseteq Done
  <2> HIDE DEF Good, N
  <2>1. 0 \in Done
    BY <1>1, <1>3
  <2>2. ASSUME NEW k \in Nat, k \in Done PROVE k + 1 \in Done
    <3> SUFFICES ASSUME k + 1 <= N PROVE Good(acc[k + 1], k + 1)
      OBVIOUS
    <3>1. k + 1 \in 1 .. N /\ (k + 1) - 1 = k /\ Good(acc[k], k) /\ k \in 0 .. N
      BY <1>2, <2>2
    <3> QED BY <1>1, <1>4, <3>1
  <2> HIDE DEF Done
  <2> QED BY <2>1, <2>2, SetInduction
<1>6. Good(acc[N], N) /\ acc[N] \in Rendering
  BY <1>1, <1>2, <1>5
<1> DEFINE u == acc[N].used
<1>7. chunks # <<>> <=> N > 0
  OBVIOUS
<1>8. CASE acc[N].full
  <2>1. PICK j \in 1 .. (N - 1) : Prefix(chunks, budget, u, j) /\ Total(chunks, j + 1) > budget
    BY <1>6, <1>8
  <2>2. j \in 0 .. N /\ j > 0
    BY <1>2
  <2> HIDE DEF u, N
  <2>3. Fits(chunks, budget, u)
    BY <2>1, <2>2 DEF Fits, N
  <2> QED BY <1>1, <1>6, <2>3 DEF Rendering, u
<1>9. CASE ~acc[N].full
  <2>1. Prefix(chunks, budget, u, N) /\ N \in 0 .. N /\ ~(N < N)
    BY <1>2, <1>6, <1>9
  <2>2. Fits(chunks, budget, u)
    BY <1>7, <2>1 DEF Fits
  <2> QED BY <1>1, <1>6, <2>2 DEF Rendering
<1> QED BY <1>8, <1>9

LEMMA GraphLengthType ==
    ASSUME NEW ts \in SUBSET Triple
    PROVE  GraphLength(ts) \in Int
<1>1. IsFiniteSet(ts) /\ Weights(LineLength, ts)
  BY QAAssumption, FS_Subset DEF Weights
<1>2. Cardinality(ts) \in Nat
  BY <1>1, FS_CardinalityType
<1>3. SumFunctionOnSet(LineLength, ts) \in Nat
  <2>1. PICK f : IsSum(f, ts, LineLength) /\ SumFunctionOnSet(LineLength, ts) = f[ts]
    BY <1>1, SumIsSum
  <2> QED BY <2>1 DEF IsSum
<1> QED BY <1>2, <1>3, QAAssumption DEF GraphLength

LEMMA MaxOfTwo ==
    ASSUME NEW a \in Int, NEW b \in Int
    PROVE  Max({a, b}) = IF a >= b THEN a ELSE b
<1> DEFINE m == IF a >= b THEN a ELSE b
<1>1. m \in {a, b} /\ \A y \in {a, b} : m >= y
  OBVIOUS
<1>2. \A x \in {a, b} : (\A y \in {a, b} : x >= y) => x = m
  OBVIOUS
<1> HIDE DEF m
<1>3. Max({a, b}) = m
  BY <1>1, <1>2 DEF Max
<1> QED BY <1>3 DEF m

LEMMA BudgetType ==
    ASSUME NEW ts \in SUBSET Triple
    PROVE  EvidenceBudget(ts) \in Int
<1> DEFINE g == GraphLength(ts)
<1>1. g \in Int /\ Budget \in Int /\ Floor \in Int
  BY GraphLengthType, QAAssumption
<1>2. EvidenceBudget(ts) = Max({Budget - g, Floor})
  BY DEF EvidenceBudget
<1> HIDE DEF g
<1> QED BY <1>1, <1>2, MaxOfTwo

-----------------------------------------------------------------------------
(* What holds of a request. *)

Ended == {"answered", "failed", "error"}

Stage == {"none", "names", "hints", "whitelist", "subgraph", "rows", "search",
          "prompt", "llm", "log", "answered", "failed", "error"}

\* What the prompt of a request shows.
Shown(r) == [triples |-> r.triples,
             used |-> RenderEvidence(r.chunks, EvidenceBudget(r.triples))]

\* A search starts from the evidence alone; a prompt is built, and a model asked,
\* with ranked chunks; from then on the record keeps what was shown, and the
\* model is asked, and its answer kept, only if there is a context.
Holds(pts, r) ==
    /\ r.pc = "search" => /\ r.chunks = Evidence(r.evidence)
                          /\ Cardinality(r.evidence) < TopK
    /\ r.pc = "prompt" /\ ~r.broken => Ranked(pts, r.evidence, r.chunks)
    /\ r.pc = "llm" => /\ Ranked(pts, r.evidence, r.chunks)
                       /\ r.answer = Null /\ ~NoContext(r)
    /\ r.pc \in {"llm", "log", "answered", "failed"} => r.prompt = Shown(r)
    /\ r.pc \in {"log", "answered", "failed"} => (r.answer = "canned" <=> NoContext(r))

\* A request that has not ended goes on, and is not answered.
Goes(q) ==
    /\ qa[q].pc \notin Ended
    /\ \E r \in QAState :
         /\ r.pc \notin {"answered", "failed"} /\ Holds(points, r)
         /\ qa' = [qa EXCEPT ![q] = r]
    /\ UNCHANGED <<points, log>>

\* A request ends with its row in the log.
Logs(q) ==
    /\ qa[q].pc = "log"
    /\ \E pc \in Ended : qa' = [qa EXCEPT ![q].pc = pc]
    /\ log' = Append(log, LogRowOf(q))
    /\ UNCHANGED points

-----------------------------------------------------------------------------
(* Every step of a request is one or the other. *)

LEMMA SetGoes ==
    ASSUME NEW q \in Question, qa[q].pc \notin Ended,
           NEW r \in QAState, r.pc \notin {"answered", "failed"},
           Holds(points, r), SetQA(q, r)
    PROVE  Goes(q)
BY DEF Goes, SetQA

\* Before the search, and after a failure, nothing is asserted.
LEMMA EarlyHolds ==
    ASSUME NEW r, r.pc \in {"names", "hints", "whitelist", "subgraph", "rows", "error"}
    PROVE  Holds(points, r)
BY DEF Holds

LEMMA EarlyGoes ==
    ASSUME NEW q \in Question, qa[q].pc \notin Ended, NEW r \in QAState,
           r.pc \in {"names", "hints", "whitelist", "subgraph", "rows", "error"},
           SetQA(q, r)
    PROVE  Goes(q)
BY EarlyHolds, SetGoes

LEMMA PcSet ==
    ASSUME NEW o \in QAState, NEW p \in Stage
    PROVE  /\ [o EXCEPT !.pc = p] \in QAState
           /\ [o EXCEPT !.pc = p].pc = p
BY DEF QAState, Stage

LEMMA AskGoes ==
    ASSUME QATypeOK, NEW q \in Question, Ask(q)
    PROVE  Goes(q)
<1> DEFINE o == qa[q]
           r == [o EXCEPT !.pc = "names"]
<1>1. o.pc = "none" /\ SetQA(q, r) /\ o \in QAState
  BY DEF Ask, At, QATypeOK
<1> HIDE DEF o
<1>2. r \in QAState /\ r.pc = "names"
  BY <1>1, PcSet DEF Stage
<1> HIDE DEF r
<1> QED BY <1>1, <1>2, EarlyGoes DEF o, Ended

\* Seeded sets the seeds and goes on to the whitelist or the rows.
LEMMA SeededGoes ==
    ASSUME QATypeOK, NEW q \in Question, qa[q].pc \in {"names", "hints"},
           NEW seeds \in SUBSET Name, Seeded(q, seeds)
    PROVE  Goes(q)
<1> DEFINE o == qa[q]
           p == IF seeds = {} THEN "rows" ELSE "whitelist"
           r == [o EXCEPT !.seeds = seeds, !.todo = seeds, !.pc = p]
<1>1. SetQA(q, r) /\ o \in QAState
  BY DEF Seeded, QATypeOK
<1>2. p \in {"rows", "whitelist"}
  OBVIOUS
<1> HIDE DEF o, p
<1>3. r \in QAState /\ r.pc = p
  BY <1>1, <1>2 DEF QAState
<1> HIDE DEF r
<1> QED BY <1>1, <1>2, <1>3, EarlyGoes DEF o, Ended

LEMMA NamesGoes ==
    ASSUME QATypeOK, NEW q \in Question, ListNormalizedNames(q)
    PROVE  Goes(q)
<1>1. qa[q].pc = "names"
  BY DEF ListNormalizedNames, At
<1>2. PICK names \in SUBSET Name :
        \/ Seeded(q, names \cap Mentioned[q])
        \/ SetQA(q, [qa[q] EXCEPT !.names = names, !.pc = "hints"])
  BY DEF ListNormalizedNames
<1>3. CASE Seeded(q, names \cap Mentioned[q])
  <2>1. names \cap Mentioned[q] \in SUBSET Name
    OBVIOUS
  <2> QED BY <1>1, <1>3, <2>1, SeededGoes
<1>4. CASE SetQA(q, [qa[q] EXCEPT !.names = names, !.pc = "hints"])
  <2> DEFINE o == qa[q]
             r == [o EXCEPT !.names = names, !.pc = "hints"]
  <2>1. SetQA(q, r) /\ o \in QAState
    BY <1>4 DEF QATypeOK
  <2> HIDE DEF o
  <2>2. r \in QAState /\ r.pc = "hints"
    BY <2>1 DEF QAState
  <2> HIDE DEF r
  <2> QED BY <1>1, <2>1, <2>2, EarlyGoes DEF o, Ended
<1> QED BY <1>2, <1>3, <1>4

LEMMA HintsGoes ==
    ASSUME QATypeOK, NEW q \in Question, ExtractIntentEntities(q)
    PROVE  Goes(q)
<1>1. qa[q].pc = "hints" /\ \E seeds \in SUBSET Name : Seeded(q, seeds)
  BY DEF ExtractIntentEntities, At
<1> QED BY <1>1, SeededGoes

LEMMA WhitelistGoes ==
    ASSUME QATypeOK, NEW q \in Question, ReadWhitelist(q)
    PROVE  Goes(q)
<1> DEFINE o == qa[q]
<1>1. o.pc = "whitelist" /\ o \in QAState
  BY DEF ReadWhitelist, At, QATypeOK
<1>2. ASSUME NEW active \in SUBSET RelType,
             SetQA(q, [qa[q] EXCEPT !.whitelist = active, !.pc = "subgraph"])
      PROVE  Goes(q)
  <2> DEFINE r == [o EXCEPT !.whitelist = active, !.pc = "subgraph"]
  <2>1. SetQA(q, r)
    BY <1>2
  <2> HIDE DEF o
  <2>2. r \in QAState /\ r.pc = "subgraph"
    BY <1>1 DEF QAState
  <2> HIDE DEF r
  <2> QED BY <1>1, <2>1, <2>2, EarlyGoes DEF o, Ended
<1>3. ASSUME NEW b \in BOOLEAN,
             SetQA(q, [qa[q] EXCEPT !.seeds = {}, !.todo = {}, !.broken = b,
                                    !.pc = "rows"])
      PROVE  Goes(q)
  <2> DEFINE r == [o EXCEPT !.seeds = {}, !.todo = {}, !.broken = b, !.pc = "rows"]
  <2>1. SetQA(q, r)
    BY <1>3
  <2> HIDE DEF o
  <2>2. r \in QAState /\ r.pc = "rows"
    BY <1>1 DEF QAState
  <2> HIDE DEF r
  <2> QED BY <1>1, <2>1, <2>2, EarlyGoes DEF o, Ended
<1> QED BY <1>2, <1>3 DEF ReadWhitelist

LEMMA FilteredTriples ==
    ASSUME NEW whitelist
    PROVE  Filtered(whitelist) \subseteq Triple
BY DEF Filtered

LEMMA SubgraphGoes ==
    ASSUME QATypeOK, NEW q \in Question, FetchSubgraph(q)
    PROVE  Goes(q)
<1> DEFINE o == qa[q]
<1>1. o.pc = "subgraph" /\ o \in QAState
  BY DEF FetchSubgraph, At, QATypeOK
<1>2. PICK seed \in qa[q].todo, ts \in SUBSET Filtered(qa[q].whitelist),
           cs \in SUBSET Chunk :
        SetQA(q, [qa[q] EXCEPT
            !.triples = @ \cup ts, !.evidence = @ \cup cs,
            !.todo = @ \ {seed},
            !.pc = IF qa[q].todo = {seed} THEN "rows" ELSE "subgraph"])
  BY DEF FetchSubgraph
<1> DEFINE p == IF qa[q].todo = {seed} THEN "rows" ELSE "subgraph"
           r == [o EXCEPT !.triples = @ \cup ts, !.evidence = @ \cup cs,
                          !.todo = @ \ {seed}, !.pc = p]
<1>3. SetQA(q, r)
  BY <1>2
<1>4. p \in {"rows", "subgraph"} /\ ts \in SUBSET Triple
  BY FilteredTriples
<1> HIDE DEF o, p
<1>5. r \in QAState /\ r.pc = p
  BY <1>1, <1>4 DEF QAState
<1> HIDE DEF r
<1> QED BY <1>1, <1>3, <1>4, <1>5, EarlyGoes DEF o, Ended

LEMMA RowsGoes ==
    ASSUME QATypeOK, NEW q \in Question, GetRows(q)
    PROVE  Goes(q)
<1> DEFINE o == qa[q]
<1>1. o.pc = "rows" /\ o \in QAState
  BY DEF GetRows, At, QATypeOK
<1>2. ASSUME SetQA(q, [qa[q] EXCEPT !.broken = TRUE, !.pc = "prompt"])
      PROVE  Goes(q)
  <2> DEFINE r == [o EXCEPT !.broken = TRUE, !.pc = "prompt"]
  <2>1. SetQA(q, r)
    BY <1>2
  <2> HIDE DEF o
  <2>2. r \in QAState /\ r.pc = "prompt" /\ r.broken
    BY <1>1 DEF QAState
  <2> HIDE DEF r
  <2>3. Holds(points, r)
    BY <2>2 DEF Holds
  <2> QED BY <1>1, <2>1, <2>2, <2>3, SetGoes DEF o, Ended
<1>3. ASSUME SetQA(q, [qa[q] EXCEPT
               !.chunks = Evidence(qa[q].evidence),
               !.pc = IF Cardinality(qa[q].evidence) < TopK THEN "search"
                      ELSE "prompt"])
      PROVE  Goes(q)
  <2> DEFINE e == Evidence(o.evidence)
             p == IF Cardinality(o.evidence) < TopK THEN "search" ELSE "prompt"
             r == [o EXCEPT !.chunks = e, !.pc = p]
  <2>1. SetQA(q, r)
    BY <1>3
  <2>2. p \in {"search", "prompt"} /\ (p = "search" => Cardinality(o.evidence) < TopK)
    OBVIOUS
  <2>3. o.evidence \in SUBSET Chunk
    BY <1>1 DEF QAState
  <2>4. e \in Seq(Retrieved) /\ Ranked(points, o.evidence, e)
    BY <2>3, EvidenceLists, EvidenceRanked
  <2> HIDE DEF o, p, e
  <2>5. /\ r \in QAState /\ r.pc = p /\ r.chunks = e /\ r.evidence = o.evidence
    BY <1>1, <2>2, <2>4 DEF QAState
  <2> HIDE DEF r
  <2>6. Holds(points, r)
    BY <2>2, <2>4, <2>5 DEF Holds, e
  <2> QED BY <1>1, <2>1, <2>2, <2>5, <2>6, SetGoes DEF o, Ended
<1> QED BY <1>2, <1>3, Zenon DEF GetRows

LEMMA SearchGoes ==
    ASSUME QATypeOK, NEW q \in Question, Holds(points, qa[q]), Search(q)
    PROVE  Goes(q)
<1> DEFINE o == qa[q]
<1>1. /\ o.pc = "search" /\ o \in QAState /\ points \in SUBSET Chunk
      /\ o.evidence \in SUBSET Chunk
  BY DEF Search, At, QATypeOK, QAState
<1>2. o.chunks = Evidence(o.evidence) /\ Cardinality(o.evidence) < TopK
  BY <1>1 DEF Holds
<1>3. ASSUME NEW chunks \in Seq(Retrieved), Ranked(points, o.evidence, chunks),
             SetQA(q, [qa[q] EXCEPT !.chunks = chunks, !.pc = "prompt"])
      PROVE  Goes(q)
  <2> DEFINE r == [o EXCEPT !.chunks = chunks, !.pc = "prompt"]
  <2>1. SetQA(q, r)
    BY <1>3
  <2> HIDE DEF o
  <2>2. /\ r \in QAState /\ r.pc = "prompt" /\ r.chunks = chunks
        /\ r.evidence = o.evidence
    BY <1>1 DEF QAState
  <2> HIDE DEF r
  <2>3. Holds(points, r)
    BY <1>3, <2>2 DEF Holds
  <2> QED BY <1>1, <2>1, <2>2, <2>3, SetGoes DEF o, Ended
<1>4. ASSUME SetQA(q, [qa[q] EXCEPT !.pc = "prompt"])
      PROVE  Goes(q)
  <2> DEFINE r == [o EXCEPT !.pc = "prompt"]
  <2>1. SetQA(q, r)
    BY <1>4
  <2> HIDE DEF o
  <2>2. /\ r \in QAState /\ r.pc = "prompt" /\ r.chunks = o.chunks
        /\ r.evidence = o.evidence
    BY <1>1 DEF QAState
  <2> HIDE DEF r
  <2>3. Ranked(points, o.evidence, o.chunks)
    BY <1>1, <1>2, EvidenceRanked
  <2>4. Holds(points, r)
    BY <2>2, <2>3 DEF Holds
  <2> QED BY <1>1, <2>1, <2>2, <2>4, SetGoes DEF o, Ended
<1> DEFINE limit == Min({SearchLimit(o.chunks), Cardinality(points)})
           Up(ranking) == TopUp(o.chunks, SubSeq(ranking, 1, limit), TopK - Len(o.chunks))
<1>5. ASSUME NEW ranking \in SetToSeqs(points)
      PROVE  Up(ranking) \in Seq(Retrieved) /\ Ranked(points, o.evidence, Up(ranking))
  BY <1>1, <1>2, SearchRanked
<1>6. \/ \E ranking \in SetToSeqs(points) :
           SetQA(q, [qa[q] EXCEPT !.chunks = Up(ranking), !.pc = "prompt"])
      \/ SetQA(q, [qa[q] EXCEPT !.pc = "prompt"])
  BY Zenon DEF Search
<1> HIDE DEF Up
<1> QED BY <1>3, <1>4, <1>5, <1>6

LEMMA ShownType ==
    ASSUME NEW r \in QAState
    PROVE  Shown(r) \in Prompt
<1> DEFINE u == RenderEvidence(r.chunks, EvidenceBudget(r.triples))
<1>1. r.chunks \in Seq(Retrieved) /\ r.triples \in SUBSET Triple
  BY DEF QAState
<1>2. u \in Seq(Retrieved)
  BY <1>1, BudgetType, RenderFits
<1> HIDE DEF u
<1>3. [triples |-> r.triples, used |-> u] \in Prompt
  BY <1>1, <1>2 DEF Prompt
<1> QED BY <1>3 DEF Shown, u

LEMMA PromptGoes ==
    ASSUME QATypeOK, NEW q \in Question, Holds(points, qa[q]), BuildPrompt(q)
    PROVE  Goes(q)
<1> DEFINE o == qa[q]
<1>1. o.pc = "prompt" /\ o \in QAState
  BY DEF BuildPrompt, At, QATypeOK
<1>2. ASSUME ~o.broken,
             SetQA(q, [qa[q] EXCEPT
               !.prompt = Shown(qa[q]),
               !.answer = IF NoContext(qa[q]) THEN "canned" ELSE Null,
               !.pc = IF NoContext(qa[q]) THEN "log" ELSE "llm"])
      PROVE  Goes(q)
  <2> DEFINE a == IF NoContext(o) THEN "canned" ELSE Null
             p == IF NoContext(o) THEN "log" ELSE "llm"
             s == Shown(o)
             r == [o EXCEPT !.prompt = s, !.answer = a, !.pc = p]
  <2>1. SetQA(q, r)
    BY <1>2
  <2>2. \/ NoContext(o) /\ p = "log" /\ a = "canned"
        \/ ~NoContext(o) /\ p = "llm" /\ a = Null
    OBVIOUS
  <2>3. Ranked(points, o.evidence, o.chunks)
    BY <1>1, <1>2 DEF Holds
  <2>4. s \in Prompt
    BY <1>1, ShownType
  <2>5. p \in Stage /\ a \in Answer
    BY <2>2 DEF Stage, Answer
  <2> HIDE DEF o, a, p, s
  <2>6. r \in QAState
    BY <1>1, <2>4, <2>5 DEF QAState, Stage
  <2>7. /\ r.pc = p /\ r.answer = a /\ r.prompt = s
        /\ r.triples = o.triples /\ r.chunks = o.chunks /\ r.evidence = o.evidence
    BY <1>1 DEF QAState
  <2> HIDE DEF r
  <2>8. Shown(r) = s /\ (NoContext(r) <=> NoContext(o))
    BY <2>7 DEF Shown, s, NoContext
  <2>9. Holds(points, r)
    BY <2>2, <2>3, <2>7, <2>8 DEF Holds
  <2> QED BY <1>1, <2>1, <2>2, <2>6, <2>7, <2>9, SetGoes DEF o, Ended
<1>3. ASSUME SetQA(q, [qa[q] EXCEPT !.pc = "error"])
      PROVE  Goes(q)
  <2> DEFINE r == [o EXCEPT !.pc = "error"]
  <2>1. SetQA(q, r)
    BY <1>3
  <2> HIDE DEF o
  <2>2. r \in QAState /\ r.pc = "error"
    BY <1>1, PcSet DEF Stage
  <2> HIDE DEF r
  <2> QED BY <1>1, <2>1, <2>2, EarlyGoes DEF o, Ended
<1> QED BY <1>2, <1>3, Zenon DEF BuildPrompt, Shown

LEMMA ProviderGoes ==
    ASSUME QATypeOK, NEW q \in Question, Holds(points, qa[q]), CallProvider(q)
    PROVE  Goes(q)
<1> DEFINE o == qa[q]
<1>1. o.pc = "llm" /\ o \in QAState
  BY DEF CallProvider, At, QATypeOK
<1>2. ASSUME NEW r \in QAState, r.pc = "log", r.answer \in {"answer", o.answer},
             r.triples = o.triples, r.chunks = o.chunks, r.prompt = o.prompt,
             SetQA(q, r)
      PROVE  Goes(q)
  <2>1. o.prompt = Shown(o) /\ o.answer = Null /\ ~NoContext(o)
    BY <1>1 DEF Holds
  <2>2. Shown(r) = Shown(o) /\ (NoContext(r) <=> NoContext(o))
    BY <1>2 DEF Shown, NoContext
  <2>3. Holds(points, r)
    BY <1>2, <2>1, <2>2, QAAssumption DEF Holds
  <2> QED BY <1>1, <1>2, <2>3, SetGoes DEF Ended
<1>3. ASSUME SetQA(q, [qa[q] EXCEPT !.answer = "answer", !.pc = "log"])
      PROVE  Goes(q)
  <2> DEFINE r == [o EXCEPT !.answer = "answer", !.pc = "log"]
  <2>1. SetQA(q, r)
    BY <1>3
  <2> HIDE DEF o
  <2>2. /\ r \in QAState /\ r.pc = "log" /\ r.answer = "answer"
        /\ r.triples = o.triples /\ r.chunks = o.chunks /\ r.prompt = o.prompt
    BY <1>1 DEF QAState, Answer
  <2> HIDE DEF r
  <2> QED BY <1>2, <2>1, <2>2
<1>4. ASSUME SetQA(q, [qa[q] EXCEPT !.error = TRUE, !.pc = "log"])
      PROVE  Goes(q)
  <2> DEFINE r == [o EXCEPT !.error = TRUE, !.pc = "log"]
  <2>1. SetQA(q, r)
    BY <1>4
  <2> HIDE DEF o
  <2>2. /\ r \in QAState /\ r.pc = "log" /\ r.answer = o.answer
        /\ r.triples = o.triples /\ r.chunks = o.chunks /\ r.prompt = o.prompt
    BY <1>1 DEF QAState
  <2> HIDE DEF r
  <2> QED BY <1>2, <2>1, <2>2
<1> QED BY <1>3, <1>4 DEF CallProvider

LEMMA DieGoes ==
    ASSUME QATypeOK, NEW q \in Question, Die(q)
    PROVE  Goes(q)
<1> DEFINE o == qa[q]
           r == [o EXCEPT !.pc = "error"]
<1>1. o.pc \notin Ended /\ SetQA(q, r) /\ o \in QAState
  BY DEF Die, At, QATypeOK, Ended
<1> HIDE DEF o
<1>2. r \in QAState /\ r.pc = "error"
  BY <1>1, PcSet DEF Stage
<1> HIDE DEF r
<1> QED BY <1>1, <1>2, EarlyGoes DEF o

LEMMA Logging ==
    ASSUME NEW q \in Question, PersistLog(q) \/ DieAfterCommit(q)
    PROVE  Logs(q)
BY DEF PersistLog, DieAfterCommit, Logs, At, Ended

LEMMA GoesOrLogs ==
    ASSUME QATypeOK, NEW q \in Question, Holds(points, qa[q]), QAStep(q)
    PROVE  Goes(q) \/ Logs(q)
BY AskGoes, NamesGoes, HintsGoes, WhitelistGoes, SubgraphGoes, RowsGoes, SearchGoes,
   PromptGoes, ProviderGoes, DieGoes, Logging DEF QAStep

-----------------------------------------------------------------------------
(* The log: one row of each request that was logged, no row of one that goes. *)

Rows(q) == {i \in DOMAIN log : log[i].question = q}

Recorded(q) ==
    /\ \A i \in Rows(q) : Rows(q) = {i} /\ log[i] = LogRowOf(q)
    /\ qa[q].pc \in {"answered", "failed"} => Rows(q) # {}
    /\ qa[q].pc \notin Ended => Rows(q) = {}

QAInv ==
    /\ QATypeOK
    /\ \A q \in Question : Holds(points, qa[q]) /\ Recorded(q)

LEMMA InitQA == Init => QAInv
<1> SUFFICES ASSUME Init PROVE QAInv
  OBVIOUS
<1>1. log = <<>> /\ log \in Seq(LogRow) /\ points \in SUBSET Chunk
  BY DEF Init
<1> DEFINE r == [pc |-> "none", names |-> {}, seeds |-> {}, todo |-> {},
                 whitelist |-> {}, triples |-> {}, evidence |-> {}, chunks |-> <<>>,
                 prompt |-> [triples |-> {}, used |-> <<>>],
                 answer |-> Null, error |-> FALSE, broken |-> FALSE]
<1>2. qa = [q \in Question |-> r]
  BY DEF Init
<1>3. r \in QAState /\ r.pc = "none"
  <2> DEFINE p == [triples |-> {}, used |-> <<>>]
             none == <<>>
  <2>1. p \in Prompt /\ none \in Seq(Retrieved) /\ Null \in Answer
    BY DEF Prompt, Answer
  <2> HIDE DEF p, none
  <2>2. [pc |-> "none", names |-> {}, seeds |-> {}, todo |-> {},
         whitelist |-> {}, triples |-> {}, evidence |-> {}, chunks |-> none,
         prompt |-> p, answer |-> Null, error |-> FALSE, broken |-> FALSE] \in QAState
    BY <2>1 DEF QAState
  <2> QED BY <2>2 DEF p, none
<1> HIDE DEF r
<1>4. \A q \in Question : qa[q] = r
  BY <1>2
<1>5. \A q \in Question : Rows(q) = {}
  BY <1>1 DEF Rows
<1>6. Holds(points, r)
  BY <1>3 DEF Holds
<1>7. QATypeOK
  BY <1>1, <1>2, <1>3 DEF QATypeOK
<1> QED BY <1>3, <1>4, <1>5, <1>6, <1>7 DEF QAInv, Recorded, Ended

LEMMA GoesQA ==
    ASSUME QAInv, NEW q \in Question, Goes(q)
    PROVE  QAInv'
<1>1. PICK r \in QAState :
               /\ r.pc \notin {"answered", "failed"} /\ Holds(points, r)
               /\ qa' = [qa EXCEPT ![q] = r]
  BY DEF Goes
<1>2. log' = log /\ points' = points /\ qa[q].pc \notin Ended
  BY DEF Goes
<1>3. /\ qa' \in [Question -> QAState] /\ qa'[q] = r
      /\ \A z \in Question : z # q => qa'[z] = qa[z]
  BY <1>1 DEF QAInv, QATypeOK
<1>4. \A z \in Question : Holds(points', qa'[z])
  BY <1>1, <1>2, <1>3 DEF QAInv
<1>5. QATypeOK'
  BY <1>2, <1>3 DEF QAInv, QATypeOK
<1>6. ASSUME NEW z \in Question
      PROVE  Recorded(z)'
  <2>1. Rows(z)' = Rows(z)
    BY <1>2 DEF Rows
  <2>2. CASE z = q
    <3>1. Rows(q) = {}
      BY <1>2 DEF QAInv, Recorded
    <3> QED BY <1>1, <1>3, <2>1, <2>2, <3>1 DEF Recorded
  <2>3. CASE z # q
    <3>1. qa'[z] = qa[z] /\ LogRowOf(z)' = LogRowOf(z)
      BY <1>3, <2>3 DEF LogRowOf
    <3> QED BY <1>2, <2>1, <3>1 DEF QAInv, Recorded
  <2> QED BY <2>2, <2>3
<1> QED BY <1>4, <1>5, <1>6 DEF QAInv

LEMMA LogsQA ==
    ASSUME QAInv, NEW q \in Question, Logs(q)
    PROVE  QAInv'
<1>1. PICK pc \in Ended : qa' = [qa EXCEPT ![q].pc = pc]
  BY DEF Logs
<1> DEFINE row == LogRowOf(q)
           n == Len(log) + 1
           o == qa[q]
           r == [o EXCEPT !.pc = pc]
<1>2. o \in QAState /\ log \in Seq(LogRow) /\ qa \in [Question -> QAState]
  BY DEF QAInv, QATypeOK
<1>3. row \in LogRow /\ row.question = q
  BY <1>2 DEF LogRowOf, LogRow, QAState
<1>4. log' = Append(log, row) /\ o.pc = "log" /\ points' = points
  BY DEF Logs
<1>5. qa' = [qa EXCEPT ![q] = r]
  BY <1>1, <1>2
<1> HIDE DEF row
<1>6. /\ log' \in Seq(LogRow) /\ Len(log') = n
      /\ \A i \in 1 .. Len(log) : log'[i] = log[i]
      /\ log'[n] = row
  BY <1>2, <1>3, <1>4, AppendProperties
<1>7. /\ Len(log) \in Nat /\ DOMAIN log = 1 .. Len(log)
      /\ DOMAIN log' = 1 .. n
  BY <1>2, <1>6
<1>8. DOMAIN log' = DOMAIN log \cup {n} /\ n \notin DOMAIN log
  BY <1>7
<1> HIDE DEF n
<1>9. /\ \A i \in DOMAIN log : log'[i] = log[i]
      /\ log'[n] = row
  BY <1>6, <1>7
<1>10. /\ r.pc = pc /\ r.seeds = o.seeds /\ r.triples = o.triples
       /\ r.evidence = o.evidence /\ r.chunks = o.chunks /\ r.prompt = o.prompt
       /\ r.answer = o.answer /\ r.error = o.error
  <2> HIDE DEF o
  <2> QED BY <1>2 DEF QAState
<1>11. r \in QAState
  <2> HIDE DEF o
  <2>1. pc \in Stage
    BY DEF Ended, Stage
  <2> QED BY <1>2, <2>1, PcSet
<1> HIDE DEF r
<1>12. /\ qa' \in [Question -> QAState] /\ qa'[q] = r
       /\ \A z \in Question : z # q => qa'[z] = qa[z]
  BY <1>2, <1>5, <1>11
<1>13. LogRowOf(q)' = row
  BY <1>10, <1>12 DEF LogRowOf, row
<1>14. Holds(points, r)
  <2>1. Holds(points, o)
    BY DEF QAInv
  <2>2. o.prompt = Shown(o) /\ (o.answer = "canned" <=> NoContext(o))
    BY <1>4, <2>1 DEF Holds
  <2>3. Shown(r) = Shown(o) /\ (NoContext(r) <=> NoContext(o))
    BY <1>10 DEF Shown, NoContext
  <2>4. r.pc \in Ended
    BY <1>10
  <2> HIDE DEF o
  <2> QED BY <1>10, <2>2, <2>3, <2>4 DEF Holds, Ended
<1>15. \A z \in Question : Holds(points', qa'[z])
  BY <1>4, <1>12, <1>14 DEF QAInv
<1>16. QATypeOK'
  BY <1>4, <1>6, <1>12 DEF QAInv, QATypeOK
<1>17. Recorded(q)'
  <2>1. Rows(q) = {}
    BY <1>4 DEF QAInv, Recorded, Ended
  <2>2. Rows(q)' = {n}
    BY <1>3, <1>8, <1>9, <2>1 DEF Rows
  <2> QED BY <1>9, <1>10, <1>12, <1>13, <2>2 DEF Recorded
<1>18. ASSUME NEW z \in Question, z # q
       PROVE  Recorded(z)'
  <2>1. Rows(z)' = Rows(z)
    BY <1>3, <1>8, <1>9, <1>18 DEF Rows
  <2>2. qa'[z] = qa[z] /\ LogRowOf(z)' = LogRowOf(z)
    BY <1>12, <1>18 DEF LogRowOf
  <2>3. \A i \in Rows(z) : log'[i] = log[i]
    BY <1>9 DEF Rows
  <2> QED BY <2>1, <2>2, <2>3 DEF QAInv, Recorded
<1> QED BY <1>15, <1>16, <1>17, <1>18 DEF QAInv

LEMMA StepQA == QAInv /\ [Next]_vars => QAInv'
<1> SUFFICES ASSUME QAInv, [Next]_vars PROVE QAInv'
  OBVIOUS
<1>1. CASE UNCHANGED vars
  BY <1>1 DEF QAInv, QATypeOK, Recorded, Rows, LogRowOf, vars
<1>2. ASSUME NEW q \in Question, QAStep(q)
      PROVE  QAInv'
  <2>1. QATypeOK /\ Holds(points, qa[q])
    BY DEF QAInv
  <2> QED BY <1>2, <2>1, GoesOrLogs, GoesQA, LogsQA
<1> QED BY <1>1, <1>2 DEF Next

\* Every request's record and every row of the log is of its type, and what is
\* asserted of them holds, however many questions are answered at once
\* (QAService.answer).
THEOREM QAInvariant == Spec => []QAInv
BY InitQA, StepQA, PTL DEF Spec

-----------------------------------------------------------------------------
(* What the runs check. *)

\* Every request, and every row of ai_query_log, is well formed.
THEOREM QATypes == Spec => []QATypeOK
<1>1. QAInv => QATypeOK
  BY DEF QAInv
<1> QED BY <1>1, QAInvariant, PTL

\* However many questions are answered at once and whatever fails, no answer and
\* no 502 goes without its row, no question has two, and a row tells what its
\* request held.
THEOREM AnswersAreLogged == Spec => []LoggedOnce
<1>1. QAInv => LoggedOnce
  BY DEF QAInv, Recorded, Rows, Ended, LoggedOnce
<1> QED BY <1>1, QAInvariant, PTL

\* The provider is asked, and its answer given, exactly when graph or documents
\* gave a context, and then the prompt shows a triple or a chunk, however long
\* the first chunk is and however little of the budget the graph leaves.
THEOREM AnswersAreGrounded == Spec => []GroundedAnswers
<1>1. ASSUME QAInv, NEW q \in Question, Prompted(q)
      PROVE  /\ qa[q].answer = "canned" <=> qa[q].triples = {} /\ qa[q].chunks = <<>>
             /\ qa[q].answer # "canned" =>
                  qa[q].prompt.triples # {} \/ qa[q].prompt.used # <<>>
  <2> DEFINE o == qa[q]
             b == EvidenceBudget(o.triples)
             u == RenderEvidence(o.chunks, b)
  <2>1. /\ Holds(points, o) /\ o \in QAState
        /\ o.pc \in {"llm", "log", "answered", "failed"}
    BY <1>1 DEF QAInv, QATypeOK, Prompted
  <2>2. o.chunks \in Seq(Retrieved) /\ o.triples \in SUBSET Triple
    BY <2>1 DEF QAState
  <2>3. o.answer = "canned" <=> NoContext(o)
    BY <2>1, QAAssumption DEF Holds
  <2>4. o.prompt.triples = o.triples /\ o.prompt.used = u
    BY <2>1 DEF Holds, Shown
  <2>5. b \in Int
    BY <2>2, BudgetType
  <2>6. Fits(o.chunks, b, u)
    BY <2>2, <2>5, RenderFits
  <2> HIDE DEF o, b, u
  <2>7. o.chunks # <<>> => u # <<>>
    <3> SUFFICES ASSUME o.chunks # <<>> PROVE u # <<>>
      OBVIOUS
    <3>1. PICK k \in 1 .. Len(o.chunks) : u = SubSeq(o.chunks, 1, k)
      BY <2>2, <2>6 DEF Fits, Prefix
    <3>2. Len(SubSeq(o.chunks, 1, k)) = k /\ k > 0
      BY <2>2
    <3> QED BY <3>1, <3>2
  <2>8. o.answer = "canned" <=> o.triples = {} /\ o.chunks = <<>>
    BY <2>3 DEF NoContext
  <2>9. o.answer # "canned" => o.prompt.triples # {} \/ o.prompt.used # <<>>
    BY <2>4, <2>7, <2>8
  <2> QED BY <2>8, <2>9 DEF o
<1>2. QAInv => GroundedAnswers
  BY <1>1 DEF GroundedAnswers
<1> QED BY <1>2, QAInvariant, PTL

\* Whatever the ranking of Qdrant and however many chunks there are, the evidence
\* comes first and complete, nothing comes twice, and top_k chunks are found or
\* all there are.
THEOREM EvidenceIsRanked == Spec => []EvidenceThenHits
<1>1. ASSUME QAInv, NEW q \in Question, qa[q].pc = "llm"
      PROVE  Ranked(points, qa[q].evidence, qa[q].chunks)
  BY <1>1 DEF QAInv, Holds
<1>2. QAInv => EvidenceThenHits
  BY <1>1 DEF EvidenceThenHits, Ranked, Distinct
<1> QED BY <1>2, QAInvariant, PTL

\* The length of a block that shows the first k chunks.
LEMMA EvidenceIsTotal ==
    ASSUME NEW chunks \in Seq(Retrieved), NEW k \in 1 .. Len(chunks)
    PROVE  EvidenceLength(SubSeq(chunks, 1, k)) = Total(chunks, k) + k - 1
<1> DEFINE s == SubSeq(chunks, 1, k)
<1>1. k \in Nat /\ k > 0 /\ k <= Len(chunks) /\ Len(chunks) \in Nat
  OBVIOUS
<1>2. /\ s \in Seq(Retrieved) /\ Len(s) = k /\ DOMAIN s = 1 .. k
      /\ \A i \in 1 .. k : s[i] = chunks[i]
  BY <1>1
<1> HIDE DEF s
<1>3. s # <<>>
  BY <1>1, <1>2
<1> DEFINE Same == {j \in Nat : j <= k => Total(s, j) = Total(chunks, j)}
<1>4. Nat \subseteq Same
  <2>1. 0 \in Same
    <3>1. 0 \in 0 .. Len(s) /\ 0 \in 0 .. Len(chunks)
      BY <1>1, <1>2
    <3> QED BY <1>2, <3>1, TotalIsSum
  <2>2. ASSUME NEW j \in Nat, j \in Same PROVE j + 1 \in Same
    <3> SUFFICES ASSUME j + 1 <= k PROVE Total(s, j + 1) = Total(chunks, j + 1)
      OBVIOUS
    <3>1. /\ j + 1 \in 0 .. Len(s) /\ j + 1 \in 0 .. Len(chunks)
          /\ j + 1 # 0 /\ (j + 1) - 1 = j /\ j + 1 \in 1 .. k
      BY <1>1, <1>2
    <3>2. Total(s, j + 1) = Total(s, j) + Length[s[j + 1].chunk]
      BY <1>2, <3>1, TotalIsSum
    <3>3. Total(chunks, j + 1) = Total(chunks, j) + Length[chunks[j + 1].chunk]
      BY <3>1, TotalIsSum
    <3>4. Total(s, j) = Total(chunks, j)
      BY <1>1, <2>2
    <3> QED BY <1>2, <3>1, <3>2, <3>3, <3>4
  <2> HIDE DEF Same
  <2> QED BY <2>1, <2>2, SetInduction
<1>5. Total(s, k) = Total(chunks, k)
  BY <1>1, <1>4
<1>6. EvidenceLength(s) = Total(s, k) + k - 1
  BY <1>2, <1>3 DEF EvidenceLength, Total, Lengths
<1> QED BY <1>5, <1>6 DEF s

\* Whatever the lengths of the lines and the blocks, a prompt's context overruns
\* the budget only by what the code grants: a longest prefix of the chunks.
THEOREM PromptKeepsBudget == Spec => []BudgetKept
<1>1. ASSUME QAInv, NEW q \in Question, Prompted(q)
      PROVE  LET chunks == qa[q].chunks
                 n == Len(qa[q].prompt.used)
                 graph == GraphLength(qa[q].triples)
                 context(k) == graph + EvidenceLength(SubSeq(chunks, 1, k))
                 granted(k) == Max({Budget, graph + Floor}) + k - 1
             IN  /\ qa[q].prompt.used = SubSeq(chunks, 1, n)
                 /\ n > 1 => context(n) <= granted(n)
                 /\ n < Len(chunks) => n > 0 /\ context(n + 1) > granted(n + 1)
  <2> DEFINE o == qa[q]
             b == EvidenceBudget(o.triples)
             u == o.prompt.used
             c == o.chunks
             g == GraphLength(o.triples)
             m == Max({Budget, g + Floor})
  <2>1. /\ Holds(points, o) /\ o \in QAState
        /\ o.pc \in {"llm", "log", "answered", "failed"}
    BY <1>1 DEF QAInv, QATypeOK, Prompted
  <2>2. c \in Seq(Retrieved) /\ o.triples \in SUBSET Triple
    BY <2>1 DEF QAState
  <2>3. u = RenderEvidence(c, b)
    BY <2>1 DEF Holds, Shown
  <2>4. /\ b \in Int /\ g \in Int /\ Budget \in Int /\ Floor \in Int
        /\ b = Max({Budget - g, Floor})
    <3>1. b \in Int /\ g \in Int
      BY <2>2, BudgetType, GraphLengthType
    <3>2. Budget \in Int /\ Floor \in Int
      BY QAAssumption
    <3>3. b = Max({Budget - g, Floor})
      BY DEF EvidenceBudget
    <3> QED BY <3>1, <3>2, <3>3
  <2>5. Fits(c, b, u)
    BY <2>2, <2>3, <2>4, RenderFits
  <2> HIDE DEF b, u, c, o, g
  <2>6. m \in Int /\ m = b + g
    BY <2>4, MaxOfTwo
  <2> HIDE DEF m
  <2>7. PICK k \in 0 .. Len(c) :
          /\ u = SubSeq(c, 1, k)
          /\ k > 1 => Total(c, k) <= b
          /\ c # <<>> => k > 0
          /\ k < Len(c) => Total(c, k + 1) > b
    BY <2>5 DEF Fits, Prefix
  <2>8. Len(u) = k /\ k \in Nat /\ Len(c) \in Nat /\ k <= Len(c)
    BY <2>2, <2>7
  <2>9. \A j \in 1 .. Len(c) :
          /\ EvidenceLength(SubSeq(c, 1, j)) = Total(c, j) + j - 1
          /\ Total(c, j) \in Nat
    <3>1. \A j \in 1 .. Len(c) : j \in 0 .. Len(c)
      BY <2>8
    <3> QED BY <2>2, <3>1, EvidenceIsTotal, TotalIsSum
  <2>10. k > 1 => g + EvidenceLength(SubSeq(c, 1, k)) <= m + k - 1
    <3> SUFFICES ASSUME k > 1
                 PROVE  g + EvidenceLength(SubSeq(c, 1, k)) <= m + k - 1
      OBVIOUS
    <3>1. k \in 1 .. Len(c) /\ Total(c, k) <= b
      BY <2>7, <2>8
    <3> QED BY <2>4, <2>6, <2>8, <2>9, <3>1
  <2>11. k < Len(c) => /\ k > 0
                       /\ g + EvidenceLength(SubSeq(c, 1, k + 1)) > m + (k + 1) - 1
    <3> SUFFICES ASSUME k < Len(c)
                 PROVE  /\ k > 0
                        /\ g + EvidenceLength(SubSeq(c, 1, k + 1)) > m + (k + 1) - 1
      OBVIOUS
    <3>1. k + 1 \in 1 .. Len(c) /\ Total(c, k + 1) > b
      BY <2>7, <2>8
    <3>2. c # <<>>
      BY <2>8
    <3>3. EvidenceLength(SubSeq(c, 1, k + 1)) = Total(c, k + 1) + (k + 1) - 1
          /\ Total(c, k + 1) \in Nat
      BY <2>9, <3>1
    <3> QED BY <2>4, <2>6, <2>7, <2>8, <3>1, <3>2, <3>3
  <2>12. /\ u = SubSeq(c, 1, Len(u))
         /\ Len(u) > 1 => g + EvidenceLength(SubSeq(c, 1, Len(u))) <= m + Len(u) - 1
         /\ Len(u) < Len(c) =>
              /\ Len(u) > 0
              /\ g + EvidenceLength(SubSeq(c, 1, Len(u) + 1))
                   > m + (Len(u) + 1) - 1
    BY <2>7, <2>8, <2>10, <2>11
  <2> QED BY <2>12 DEF o, u, c, g, m
<1>2. QAInv => BudgetKept
  BY <1>1 DEF BudgetKept
<1> QED BY <1>2, QAInvariant, PTL

=============================================================================
