--------------------------- MODULE ChunkingProofs ---------------------------
(***************************************************************************)
(* ChunkingService.split keeps every text whole: the proof for texts of    *)
(* any length, over any characters, and for any MaxChars.                  *)
(*                                                                         *)
(* Sentences do not overlap, and what is in none of them is exactly the    *)
(* white space that separates; pieces cover their sentence; so in the      *)
(* order of their places, the chunks so far are the text so far without    *)
(* that white space.                                                       *)
(***************************************************************************)
EXTENDS Chunking, FoldTheorems, SequenceTheorems, TLAPS

(* White space. *)

IsSpace(c) == c = " "

LEMMA BlankIsSpace ==
    ASSUME NEW s
    PROVE  Blank(s) <=> \A i \in DOMAIN s : IsSpace(s[i])
BY DEF Blank, IsSpace

\* To the provers, \o is a definition by cases; as an operator of its own it is
\* one they can rewrite with.
Cat(a, b) == a \o b

LEMMA CatType ==
    ASSUME NEW Ch, NEW a \in Seq(Ch), NEW b \in Seq(Ch)
    PROVE  /\ Cat(a, b) \in Seq(Ch)
           /\ Len(Cat(a, b)) = Len(a) + Len(b)
BY ConcatProperties DEF Cat

LEMMA CatNothing ==
    ASSUME NEW Ch, NEW a \in Seq(Ch)
    PROVE  Cat(a, <<>>) = a /\ Cat(<<>>, a) = a
BY ConcatEmptySeq DEF Cat

LEMMA CatAppend ==
    ASSUME NEW Ch, NEW a \in Seq(Ch), NEW b \in Seq(Ch), NEW c \in Ch
    PROVE  Cat(a, Append(b, c)) = Append(Cat(a, b), c)
<1> DEFINE one == <<c>>
<1>1. one \in Seq(Ch)
  OBVIOUS
<1>2. a \o b \in Seq(Ch)
  BY ConcatProperties
<1>3. Append(a \o b, c) = (a \o b) \o one
  BY <1>2, AppendIsConcat
<1>4. Append(b, c) = b \o one
  BY AppendIsConcat
<1> HIDE DEF one
<1>5. (a \o b) \o one = a \o (b \o one)
  BY <1>1, ConcatAssociative
<1>6. Append(a \o b, c) = a \o (b \o one)
  BY <1>3, <1>5
<1>7. a \o (b \o one) = a \o Append(b, c)
  BY <1>4
<1> QED BY <1>6, <1>7 DEF Cat

\* SubSeqProperties for a part of a sequence.
LEMMA SubSeqInside ==
    ASSUME NEW Ch, NEW s \in Seq(Ch), NEW a \in 1 .. Len(s) + 1, NEW b \in 0 .. Len(s)
    PROVE  /\ SubSeq(s, a, b) \in Seq(Ch)
           /\ Len(SubSeq(s, a, b)) = IF a <= b THEN b - a + 1 ELSE 0
           /\ \A i \in 1 .. b - a + 1 : SubSeq(s, a, b)[i] = s[a + i - 1]
<1>1. Len(s) \in Nat /\ a \in Int /\ b \in Int
  BY LenProperties
<1>2. \A i \in a .. b : s[i] \in Ch
  <2> TAKE i \in a .. b
  <2>1. i \in 1 .. Len(s)
    BY <1>1
  <2> QED BY <2>1, ElementOfSeq
<1> QED BY <1>1, <1>2, SubSeqProperties

LEMMA BlankPart ==
    ASSUME NEW Ch, NEW s \in Seq(Ch), NEW a \in 1 .. Len(s) + 1, NEW b \in 0 .. Len(s)
    PROVE  Blank(SubSeq(s, a, b)) <=> \A k \in a .. b : IsSpace(s[k])
<1> DEFINE y == SubSeq(s, a, b)
<1>1. a \in Nat /\ b \in Nat /\ a >= 1
  BY LenProperties
<1>2. /\ Len(y) = IF a <= b THEN b - a + 1 ELSE 0
      /\ \A i \in 1 .. b - a + 1 : y[i] = s[a + i - 1]
      /\ DOMAIN y = 1 .. Len(y)
  BY SubSeqInside, LenProperties
<1> HIDE DEF y
<1>3. \A i \in DOMAIN y : i \in 1 .. b - a + 1 /\ a + i - 1 \in a .. b
  BY <1>1, <1>2
<1>4. \A k \in a .. b : /\ k - a + 1 \in DOMAIN y /\ k - a + 1 \in 1 .. b - a + 1
                        /\ a + (k - a + 1) - 1 = k
  BY <1>1, <1>2
<1>5. ASSUME Blank(y), NEW k \in a .. b
      PROVE  IsSpace(s[k])
  <2> DEFINE i == k - a + 1
  <2>1. i \in DOMAIN y /\ i \in 1 .. b - a + 1 /\ a + i - 1 = k
    BY <1>4
  <2> HIDE DEF i
  <2>2. y[i] = s[k]
    BY <1>2, <2>1
  <2> QED BY <1>5, <2>1, <2>2, BlankIsSpace
<1>6. ASSUME \A k \in a .. b : IsSpace(s[k])
      PROVE  Blank(y)
  <2>1. \A i \in DOMAIN y : IsSpace(y[i])
    BY <1>2, <1>3, <1>6
  <2> QED BY <2>1, BlankIsSpace
<1> QED BY <1>5, <1>6 DEF y

\* The characters of a text that do not separate.
Kept(s) == {k \in 1 .. Len(s) : ~Separates(s, k)}

LEMMA SeparatesIs ==
    ASSUME NEW Ch, NEW s \in Seq(Ch), NEW k \in 1 .. Len(s)
    PROVE  Separates(s, k) <=>
             /\ IsSpace(s[k])
             /\ \/ \A i \in 1 .. k : IsSpace(s[i])
                \/ \A i \in k .. Len(s) : IsSpace(s[i])
                \/ \E j \in 1 .. k - 1 :
                      s[j] = "." /\ \A i \in j + 1 .. k : IsSpace(s[i])
<1> DEFINE n == Len(s)
           After(j) == Blank(SubSeq(s, j + 1, k))
<1>1. n \in Nat /\ k \in 1 .. n
  BY LenProperties
<1>2. /\ k \in 1 .. Len(s) + 1 /\ k \in 0 .. Len(s) /\ n \in 0 .. Len(s)
      /\ 1 \in 1 .. Len(s) + 1 /\ \A j \in 1 .. k - 1 : j + 1 \in 1 .. Len(s) + 1
  BY <1>1
<1>3. Blank(SubSeq(s, 1, k)) <=> \A i \in 1 .. k : IsSpace(s[i])
  BY <1>2, BlankPart
<1>4. Blank(SubSeq(s, k, n)) <=> \A i \in k .. n : IsSpace(s[i])
  BY <1>2, BlankPart
<1>5. \A j \in 1 .. k - 1 : After(j) <=> \A i \in j + 1 .. k : IsSpace(s[i])
  BY <1>2, BlankPart
<1>6. Separates(s, k) <=>
        /\ IsSpace(s[k])
        /\ \/ Blank(SubSeq(s, 1, k))
           \/ Blank(SubSeq(s, k, n))
           \/ \E j \in 1 .. k - 1 : s[j] = "." /\ After(j)
  BY DEF Separates, IsSpace
<1> HIDE DEF After, n
<1>7. (\E j \in 1 .. k - 1 : s[j] = "." /\ After(j)) <=>
      (\E j \in 1 .. k - 1 : s[j] = "." /\ \A i \in j + 1 .. k : IsSpace(s[i]))
  BY <1>5
<1> QED BY <1>3, <1>4, <1>6, <1>7 DEF n

(* Multiples. *)

LEMMA Divided ==
    ASSUME NEW m \in Nat \ {0}, NEW a \in Nat
    PROVE  a = m * (a \div m) + (a % m) /\ a % m \in 0 .. m - 1 /\ a \div m \in Nat
OBVIOUS

LEMMA MultiplesApart ==
    ASSUME NEW m \in Nat \ {0}, NEW a \in Nat, NEW b \in Nat,
           a % m = 0, b % m = 0, a < b
    PROVE  a + m <= b
<1> DEFINE qa == a \div m
           qb == b \div m
<1>1. a = m * qa /\ b = m * qb /\ qa \in Nat /\ qb \in Nat
  BY Divided
<1> HIDE DEF qa, qb
<1>2. qa < qb
  BY <1>1
<1>3. qa + 1 <= qb
  BY <1>1, <1>2
<1>4. m * (qa + 1) <= m * qb
  BY <1>1, <1>3
<1>5. m * (qa + 1) = m * qa + m
  BY <1>1
<1> QED BY <1>1, <1>4, <1>5

LEMMA MultipleBelow ==
    ASSUME NEW m \in Nat \ {0}, NEW a \in Nat
    PROVE  (a - (a % m)) % m = 0 /\ a % m \in 0 .. m - 1 /\ a - (a % m) \in Nat
<1> DEFINE q == a \div m
<1>1. a = m * q + (a % m) /\ a % m \in 0 .. m - 1 /\ q \in Nat
  BY Divided
<1>2. a - (a % m) = m * q /\ m * q \in Nat
  BY <1>1
<1>3. \A k \in Nat : (m * k) % m = 0
  OBVIOUS
<1> HIDE DEF q
<1> QED BY <1>1, <1>2, <1>3

(* Places: pairs of a first and a last index. *)

\* Within the first n indices.
Lies(P, n) == \A p \in P : /\ p \in (1 .. n) \X (1 .. n)
                           /\ p[1] <= p[2]

Apart(P) == \A p, q \in P : p = q \/ p[2] < q[1] \/ q[2] < p[1]

\* Every index of K is in one of them.
CoversAll(P, K) == \A k \in K : \E p \in P : p[1] <= k /\ k <= p[2]

\* Every index in one of them is in K.
Within(P, K) == \A p \in P : \A k \in p[1] .. p[2] : k \in K

LEMMA MinOfTwo ==
    ASSUME NEW a \in Nat \ {0}, NEW b \in Nat \ {0}
    PROVE  Min({a, b}) = IF a <= b THEN a ELSE b
<1> DEFINE S == {a, b}
           n == a + b
<1>1. S \in SUBSET (1 .. n) /\ S # {} /\ n \in Nat
  OBVIOUS
<1>2. a \in S /\ b \in S /\ \A x \in S : x = a \/ x = b
  OBVIOUS
<1> HIDE DEF S, n
<1>3. Min(S) \in S /\ \A y \in S : Min(S) <= y
  BY <1>1, MinOfIndices
<1>4. Min(S) = IF a <= b THEN a ELSE b
  <2> DEFINE m == Min(S)
  <2>1. (m = a \/ m = b) /\ m <= a /\ m <= b
    BY <1>2, <1>3
  <2> HIDE DEF m
  <2>2. m = IF a <= b THEN a ELSE b
    BY <2>1
  <2> QED BY <2>2 DEF m
<1> QED BY <1>4 DEF S

\* A sentence is cut into pieces that do not overlap and leave nothing out.
LEMMA PiecesFacts ==
    ASSUME NEW f \in Nat \ {0}, NEW l \in Nat, f <= l
    PROVE  /\ \A q \in Pieces(f, l) :
                /\ q \in (f .. l) \X (f .. l) /\ q[1] <= q[2]
                /\ q[2] - q[1] < 2 * MaxChars
                /\ q = <<f, l>> \/ q[2] - q[1] < MaxChars
           /\ Apart(Pieces(f, l))
           /\ CoversAll(Pieces(f, l), f .. l)
<1> DEFINE M == MaxChars
           whole == <<f, l>>
           At == {j \in f .. l : (j - f) % M = 0}
           piece(i) == <<i, Min({i + M - 1, l})>>
<1>0. M \in Nat \ {0}
  BY ChunkingAssumption
<1>1. CASE l - f + 1 <= 2 * M
  <2>1. Pieces(f, l) = {whole}
    BY <1>1 DEF Pieces
  <2>2. whole[1] = f /\ whole[2] = l /\ whole \in (f .. l) \X (f .. l)
    OBVIOUS
  <2> HIDE DEF whole
  <2>3. l - f < 2 * M
    BY <1>0, <1>1
  <2> QED BY <2>1, <2>2, <2>3 DEF Apart, CoversAll, whole
<1>2. CASE ~(l - f + 1 <= 2 * M)
  <2>1. Pieces(f, l) = {piece(i) : i \in At}
    BY <1>2 DEF Pieces
  <2>2. ASSUME NEW i \in At
        PROVE  /\ piece(i)[1] = i /\ i \in f .. l /\ (i - f) % M = 0
               /\ piece(i)[2] = IF i + M - 1 <= l THEN i + M - 1 ELSE l
    <3>1. i + M - 1 \in Nat \ {0} /\ l \in Nat \ {0}
      BY <1>0
    <3> QED BY <3>1, MinOfTwo
  <2>3. \A i \in At : piece(i) = <<piece(i)[1], piece(i)[2]>>
    OBVIOUS
  <2> HIDE DEF piece, At
  <2>4. ASSUME NEW q \in Pieces(f, l)
        PROVE  /\ q \in (f .. l) \X (f .. l) /\ q[1] <= q[2]
               /\ q[2] - q[1] < 2 * MaxChars
               /\ q[2] - q[1] < MaxChars
    <3>1. PICK i \in At : q = piece(i)
      BY <2>1
    <3>2. /\ q[1] = i /\ i \in f .. l /\ q = <<q[1], q[2]>>
          /\ q[2] = IF i + M - 1 <= l THEN i + M - 1 ELSE l
      BY <2>2, <2>3, <3>1
    <3>3. /\ q[1] \in f .. l /\ q[2] \in f .. l /\ q[1] <= q[2] /\ q[2] - q[1] < M
      BY <1>0, <3>2
    <3>4. q[2] - q[1] < 2 * M
      BY <1>0, <3>3
    <3> QED BY <3>2, <3>3, <3>4
  <2>5. ASSUME NEW p \in Pieces(f, l), NEW q \in Pieces(f, l)
        PROVE  p = q \/ p[2] < q[1] \/ q[2] < p[1]
    <3>1. PICK i \in At : p = piece(i)
      BY <2>1
    <3>2. PICK j \in At : q = piece(j)
      BY <2>1
    <3>3. /\ p[1] = i /\ i \in f .. l /\ (i - f) % M = 0
          /\ p[2] = IF i + M - 1 <= l THEN i + M - 1 ELSE l
      BY <2>2, <3>1
    <3>4. /\ q[1] = j /\ j \in f .. l /\ (j - f) % M = 0
          /\ q[2] = IF j + M - 1 <= l THEN j + M - 1 ELSE l
      BY <2>2, <3>2
    <3>5. CASE i = j
      BY <3>1, <3>2, <3>5
    <3>6. CASE i < j
      <4>1. i - f \in Nat /\ j - f \in Nat /\ i - f < j - f
        BY <3>3, <3>4, <3>6
      <4>2. (i - f) + M <= j - f
        BY <1>0, <3>3, <3>4, <4>1, MultiplesApart
      <4> QED BY <1>0, <3>3, <3>4, <4>2
    <3>7. CASE j < i
      <4>1. i - f \in Nat /\ j - f \in Nat /\ j - f < i - f
        BY <3>3, <3>4, <3>7
      <4>2. (j - f) + M <= i - f
        BY <1>0, <3>3, <3>4, <4>1, MultiplesApart
      <4> QED BY <1>0, <3>3, <3>4, <4>2
    <3> QED BY <3>3, <3>4, <3>5, <3>6, <3>7
  <2>6. ASSUME NEW k \in f .. l
        PROVE  \E p \in Pieces(f, l) : p[1] <= k /\ k <= p[2]
    <3> DEFINE e == k - f
               d == e % M
               i == k - d
    <3>0. e \in Nat
      OBVIOUS
    <3>1. (e - d) % M = 0 /\ d \in 0 .. M - 1 /\ e - d \in Nat
      <4> HIDE DEF e
      <4> QED BY <1>0, <3>0, MultipleBelow
    <3> HIDE DEF d
    <3>2. i \in f .. l /\ i - f = e - d /\ i <= k /\ k <= i + M - 1
      BY <1>0, <3>1
    <3> HIDE DEF i
    <3>3. i \in At
      BY <3>1, <3>2 DEF At
    <3>4. piece(i) \in Pieces(f, l)
      BY <2>1, <3>3
    <3>5. piece(i)[1] <= k /\ k <= piece(i)[2]
      BY <1>0, <2>2, <3>2, <3>3
    <3> QED BY <3>4, <3>5
  <2> QED BY <2>4, <2>5, <2>6 DEF Apart, CoversAll
<1> QED BY <1>1, <1>2

(* Sentences. *)

LEMMA EndsFacts ==
    ASSUME NEW s, NEW n \in Nat, DOMAIN s = 1 .. n, Len(s) = n
    PROVE  /\ SentenceEnds(s) \in SUBSET (1 .. n)
           /\ n > 0 => n \in SentenceEnds(s)
           /\ \A i \in SentenceEnds(s) : i # n => s[i] = "." /\ IsSpace(s[i + 1])
           /\ \A i \in 1 .. n : s[i] = "." /\ IsSpace(s[i + 1]) => i \in SentenceEnds(s)
<1>1. SentenceEnds(s) = {i \in 1 .. n : i = n \/ (s[i] = "." /\ IsSpace(s[i + 1]))}
  BY DEF SentenceEnds, IsSpace
<1> QED BY <1>1

\* Where the sentence that starts at j ends.
EndOf(s, j) == Min({i \in SentenceEnds(s) : i >= j})

LEMMA EndOfFacts ==
    ASSUME NEW Ch, NEW s \in Seq(Ch), NEW j \in 1 .. Len(s)
    PROVE  /\ EndOf(s, j) \in SentenceEnds(s)
           /\ EndOf(s, j) \in j .. Len(s)
           /\ \A i \in SentenceEnds(s) : i >= j => EndOf(s, j) <= i
<1> DEFINE n == Len(s)
           S == {i \in SentenceEnds(s) : i >= j}
<1>1. n \in Nat /\ DOMAIN s = 1 .. n
  BY LenProperties
<1>2. SentenceEnds(s) \in SUBSET (1 .. n) /\ (n > 0 => n \in SentenceEnds(s))
  BY <1>1, EndsFacts
<1>3. S \in SUBSET (1 .. n) /\ n \in S
  BY <1>1, <1>2
<1>4. Min(S) \in S /\ \A i \in S : Min(S) <= i
  <2> HIDE DEF S, n
  <2> QED BY <1>1, <1>3, MinOfIndices
<1> QED BY <1>2, <1>4 DEF EndOf

\* The white space before j reaches back to the end i.
SpaceSince(s, j, i) ==
    /\ i \in SentenceEnds(s) /\ i < j - 1
    /\ \A k \in i + 1 .. j - 1 : IsSpace(s[k])

LEMMA StartsFacts ==
    ASSUME NEW Ch, NEW s \in Seq(Ch)
    PROVE  /\ SentenceStarts(s) \in SUBSET (1 .. Len(s))
           /\ Len(s) > 0 => 1 \in SentenceStarts(s)
           /\ \A j \in SentenceStarts(s) : j # 1 => /\ ~IsSpace(s[j])
                                                    /\ \E i \in 1 .. Len(s) : SpaceSince(s, j, i)
           /\ \A j \in 1 .. Len(s), i \in 1 .. Len(s) :
                ~IsSpace(s[j]) /\ SpaceSince(s, j, i) => j \in SentenceStarts(s)
<1> DEFINE n == Len(s)
           Cut(i, j) == Blank(SubSeq(s, i + 1, j - 1))
<1>1. n \in Nat /\ DOMAIN s = 1 .. n
  BY LenProperties
<1>2. SentenceEnds(s) \in SUBSET (1 .. n)
  BY <1>1, EndsFacts
<1>3. \A j \in 1 .. n, i \in SentenceEnds(s) :
        Cut(i, j) <=> \A k \in i + 1 .. j - 1 : IsSpace(s[k])
  <2> TAKE j \in 1 .. n, i \in SentenceEnds(s)
  <2>1. i + 1 \in 1 .. Len(s) + 1 /\ j - 1 \in 0 .. Len(s)
    BY <1>1, <1>2
  <2> QED BY <2>1, BlankPart
<1>4. SentenceStarts(s) = {j \in 1 .. n :
        \/ j = 1
        \/ /\ ~IsSpace(s[j])
           /\ \E i \in SentenceEnds(s) : i < j - 1 /\ Cut(i, j)}
  BY <1>1 DEF SentenceStarts, IsSpace
<1> HIDE DEF Cut, n
<1>5. \A j \in SentenceStarts(s) : j # 1 => /\ ~IsSpace(s[j])
                                            /\ \E i \in 1 .. n : SpaceSince(s, j, i)
  <2> TAKE j \in SentenceStarts(s)
  <2> HAVE j # 1
  <2>1. j \in 1 .. n /\ ~IsSpace(s[j])
    BY <1>4
  <2>2. PICK i \in SentenceEnds(s) : i < j - 1 /\ Cut(i, j)
    BY <1>4
  <2>3. SpaceSince(s, j, i) /\ i \in 1 .. n
    BY <1>2, <1>3, <2>1, <2>2 DEF SpaceSince
  <2> QED BY <2>1, <2>3
<1>6. ASSUME NEW j \in 1 .. n, NEW i \in 1 .. n, ~IsSpace(s[j]), SpaceSince(s, j, i)
      PROVE  j \in SentenceStarts(s)
  <2>1. i \in SentenceEnds(s) /\ i < j - 1 /\ Cut(i, j)
    BY <1>3, <1>6 DEF SpaceSince
  <2> QED BY <1>4, <1>6, <2>1
<1>7. n > 0 => 1 \in SentenceStarts(s)
  BY <1>1, <1>4
<1> QED BY <1>4, <1>5, <1>6, <1>7 DEF n

\* Sentences do not overlap, and what is outside them is white space.
LEMMA SentencesFacts ==
    ASSUME NEW Ch, NEW s \in Seq(Ch)
    PROVE  /\ Lies(Sentences(s), Len(s))
           /\ Apart(Sentences(s))
           /\ CoversAll(Sentences(s), {k \in 1 .. Len(s) : ~IsSpace(s[k])})
           /\ \A p \in Sentences(s) :
                /\ p[1] = 1 \/ ~IsSpace(s[p[1]])
                /\ p[2] \in SentenceEnds(s)
                /\ \A i \in SentenceEnds(s) : p[1] <= i => p[2] <= i
<1> DEFINE n == Len(s)
           B == SentenceStarts(s)
           E == SentenceEnds(s)
           e(j) == EndOf(s, j)
<1>1. n \in Nat /\ DOMAIN s = 1 .. n
  BY LenProperties
<1>2. /\ E \in SUBSET (1 .. n)
      /\ \A i \in E : i # n => IsSpace(s[i + 1])
  BY <1>1, EndsFacts
<1>3. /\ B \in SUBSET (1 .. n) /\ (n > 0 => 1 \in B)
      /\ \A j \in B : j # 1 => ~IsSpace(s[j]) /\ \E i \in 1 .. n : SpaceSince(s, j, i)
      /\ \A j \in 1 .. n, i \in 1 .. n : ~IsSpace(s[j]) /\ SpaceSince(s, j, i) => j \in B
  BY StartsFacts
<1>4. \A j \in 1 .. n : /\ e(j) \in E /\ e(j) \in j .. n
                        /\ \A i \in E : i >= j => e(j) <= i
  BY EndOfFacts
<1>5. Sentences(s) = {<<j, e(j)>> : j \in B}
  BY DEF Sentences, EndOf
<1>6. \A j, i : SpaceSince(s, j, i) => /\ i \in E /\ i < j - 1
                                  /\ \A k \in i + 1 .. j - 1 : IsSpace(s[k])
  BY DEF SpaceSince
<1> HIDE DEF n, B, E, e
<1>7. ASSUME NEW p \in Sentences(s)
      PROVE  /\ p \in (1 .. n) \X (1 .. n) /\ p[1] <= p[2]
             /\ p[1] \in B /\ p[2] = e(p[1])
  <2>1. PICK j \in B : p = <<j, e(j)>>
    BY <1>5
  <2>2. j \in 1 .. n /\ e(j) \in j .. n
    BY <1>3, <1>4
  <2> QED BY <1>1, <2>1, <2>2
<1>8. ASSUME NEW j \in B, NEW k \in B, j < k
      PROVE  e(j) < k
  <2>1. j \in 1 .. n /\ k \in 1 .. n /\ k # 1
    BY <1>1, <1>3, <1>8
  <2>2. PICK i \in 1 .. n : SpaceSince(s, k, i)
    BY <1>3, <2>1
  <2>3. i \in E /\ i < k - 1 /\ \A h \in i + 1 .. k - 1 : IsSpace(s[h])
    BY <1>6, <2>2
  <2>4. CASE j <= i
    BY <1>1, <1>4, <2>1, <2>3, <2>4
  <2>5. CASE i < j
    <3>1. j \in i + 1 .. k - 1 /\ j # 1
      BY <1>1, <1>8, <2>1, <2>2, <2>5
    <3> QED BY <1>3, <2>3, <3>1
  <2> QED BY <1>1, <2>1, <2>2, <2>4, <2>5
<1>9. ASSUME NEW p \in Sentences(s), NEW q \in Sentences(s)
      PROVE  p = q \/ p[2] < q[1] \/ q[2] < p[1]
  <2>1. /\ p[1] \in B /\ p[2] = e(p[1]) /\ q[1] \in B /\ q[2] = e(q[1])
        /\ p \in (1 .. n) \X (1 .. n) /\ q \in (1 .. n) \X (1 .. n)
    BY <1>7
  <2>2. CASE p[1] = q[1]
    BY <2>1, <2>2
  <2>3. CASE p[1] < q[1]
    BY <1>8, <2>1, <2>3
  <2>4. CASE q[1] < p[1]
    BY <1>8, <2>1, <2>4
  <2> QED BY <1>1, <2>1, <2>2, <2>3, <2>4
<1>10. ASSUME NEW k \in 1 .. n, ~IsSpace(s[k])
       PROVE  \E p \in Sentences(s) : p[1] <= k /\ k <= p[2]
  <2> DEFINE Before == {j \in B : j <= k}
             b == Max(Before)
  <2>0. n > 0 /\ 1 <= k
    BY <1>1
  <2>1. Before \in SUBSET (1 .. n) /\ 1 \in Before
    BY <1>3, <2>0
  <2>2. b \in Before /\ \A j \in Before : b >= j
    <3> HIDE DEF Before
    <3> QED BY <1>1, <2>1, MaxOfIndices
  <2> HIDE DEF b
  <2>3. b \in B /\ b <= k /\ b \in 1 .. n /\ \A j \in B : j <= k => b >= j
    BY <1>3, <2>2
  <2>4. k <= e(b)
    <3> SUFFICES ASSUME e(b) < k
                 PROVE  FALSE
      BY <1>1, <1>4, <2>3
    <3> DEFINE Passed == {i \in E : i < k}
               i == Max(Passed)
    <3>1. Passed \in SUBSET (1 .. n) /\ e(b) \in Passed
      BY <1>2, <1>4, <2>3
    <3>2. i \in Passed /\ \A h \in Passed : i >= h
      <4> HIDE DEF Passed
      <4> QED BY <1>1, <3>1, MaxOfIndices
    <3> HIDE DEF i
    <3>3. i \in E /\ i \in 1 .. n /\ i < k /\ i >= e(b)
      BY <1>2, <3>1, <3>2
    <3> HIDE DEF Passed
    <3> DEFINE Inked == {h \in i + 1 .. k : ~IsSpace(s[h])}
               f == Min(Inked)
    <3>4. Inked \in SUBSET (1 .. n) /\ k \in Inked
      BY <1>1, <1>10, <3>3
    <3>5. f \in Inked /\ \A h \in Inked : f <= h
      <4> HIDE DEF Inked
      <4> QED BY <1>1, <3>4, MinOfIndices
    <3> HIDE DEF f
    <3>6. /\ f \in i + 1 .. k /\ ~IsSpace(s[f]) /\ f \in 1 .. n
          /\ \A h \in i + 1 .. f - 1 : IsSpace(s[h])
      <4>1. f \in i + 1 .. k /\ ~IsSpace(s[f]) /\ f \in 1 .. n
        BY <3>4, <3>5
      <4>2. ASSUME NEW h \in i + 1 .. f - 1
            PROVE  IsSpace(s[h])
        <5>1. h \in i + 1 .. k /\ ~(f <= h)
          BY <1>1, <3>3, <4>1
        <5> QED BY <3>5, <5>1
      <4> QED BY <4>1, <4>2
    <3>7. IsSpace(s[i + 1])
      BY <1>1, <1>2, <3>3
    <3>8. i < f - 1
      <4>1. f # i + 1
        BY <3>6, <3>7
      <4> QED BY <3>3, <3>6, <4>1
    <3>9. SpaceSince(s, f, i)
      BY <3>3, <3>6, <3>8 DEF SpaceSince, E
    <3>10. f \in B
      BY <1>3, <3>3, <3>6, <3>9
    <3> QED BY <1>1, <1>4, <2>3, <3>3, <3>6, <3>10
  <2> DEFINE p == <<b, e(b)>>
  <2>5. p \in Sentences(s) /\ p[1] = b /\ p[2] = e(b)
    BY <1>5, <2>3
  <2> HIDE DEF p
  <2> QED BY <2>3, <2>4, <2>5
<1>11. Lies(Sentences(s), n)
  BY <1>7 DEF Lies
<1>12. Apart(Sentences(s))
  BY <1>9 DEF Apart
<1>13. CoversAll(Sentences(s), {k \in 1 .. n : ~IsSpace(s[k])})
  BY <1>10 DEF CoversAll
<1>14. \A p \in Sentences(s) : p[1] = 1 \/ ~IsSpace(s[p[1]])
  BY <1>3, <1>7
<1>15. \A p \in Sentences(s) : p[2] \in E /\ \A i \in E : p[1] <= i => p[2] <= i
  BY <1>3, <1>4, <1>7
<1> QED BY <1>11, <1>12, <1>13, <1>14, <1>15 DEF n, E

\* A stripped text neither begins nor ends with white space.
Stripped(s) == Len(s) > 0 => ~IsSpace(s[1]) /\ ~IsSpace(s[Len(s)])

\* What is in no sentence is the white space that separates, and no other.
LEMMA SentencesKeep ==
    ASSUME NEW Ch, NEW s \in Seq(Ch), Stripped(s)
    PROVE  Within(Sentences(s), Kept(s)) /\ CoversAll(Sentences(s), Kept(s))
<1> DEFINE n == Len(s)
           E == SentenceEnds(s)
           S == Sentences(s)
<1>1. n \in Nat /\ DOMAIN s = 1 .. n
  BY LenProperties
<1>2. /\ E \in SUBSET (1 .. n)
      /\ \A i \in E : i # n => s[i] = "." /\ IsSpace(s[i + 1])
      /\ \A i \in 1 .. n : s[i] = "." /\ IsSpace(s[i + 1]) => i \in E
  BY <1>1, EndsFacts
<1>3. /\ \A p \in S : p[1] \in 1 .. n /\ p[2] \in 1 .. n /\ p[1] <= p[2]
      /\ \A k \in 1 .. n : ~IsSpace(s[k]) => \E p \in S : p[1] <= k /\ k <= p[2]
      /\ \A p \in S : /\ p[1] = 1 \/ ~IsSpace(s[p[1]])
                      /\ p[2] \in E
                      /\ \A i \in E : p[1] <= i => p[2] <= i
  BY SentencesFacts DEF Lies, CoversAll
<1>4. n > 0 => ~IsSpace(s[1]) /\ ~IsSpace(s[n])
  BY DEF Stripped
<1>5. \A k \in 1 .. n :
        Separates(s, k) <=>
          /\ IsSpace(s[k])
          /\ \/ \A i \in 1 .. k : IsSpace(s[i])
             \/ \A i \in k .. n : IsSpace(s[i])
             \/ \E j \in 1 .. k - 1 :
                   s[j] = "." /\ \A i \in j + 1 .. k : IsSpace(s[i])
  BY SeparatesIs
<1>6. ~IsSpace(".")
  BY DEF IsSpace
<1> HIDE DEF n, E, S
<1>7. ASSUME NEW p \in S, NEW k \in p[1] .. p[2], Separates(s, k)
      PROVE  FALSE
  <2>1. /\ p[1] \in 1 .. n /\ p[2] \in 1 .. n /\ k \in 1 .. n
        /\ ~IsSpace(s[p[1]]) /\ p[1] <= k /\ k <= p[2]
    BY <1>1, <1>3, <1>4
  <2>2. CASE \A i \in 1 .. k : IsSpace(s[i])
    BY <1>1, <1>4, <2>1, <2>2
  <2>3. CASE \A i \in k .. n : IsSpace(s[i])
    BY <1>1, <1>4, <2>1, <2>3
  <2>4. CASE \E j \in 1 .. k - 1 :
               s[j] = "." /\ \A i \in j + 1 .. k : IsSpace(s[i])
    <3>1. PICK j \in 1 .. k - 1 :
                 s[j] = "." /\ \A i \in j + 1 .. k : IsSpace(s[i])
      BY <2>4
    <3>2. j \in 1 .. n /\ j + 1 \in j + 1 .. k
      BY <1>1, <2>1
    <3>3. j \in E
      BY <1>2, <3>1, <3>2
    <3>4. CASE p[1] <= j
      <4>1. p[2] <= j
        BY <1>3, <3>3, <3>4
      <4> QED BY <1>1, <2>1, <3>2, <4>1
    <3>5. CASE j < p[1]
      <4>1. p[1] \in j + 1 .. k
        BY <1>1, <2>1, <3>2, <3>5
      <4> QED BY <2>1, <3>1, <4>1
    <3> QED BY <1>1, <2>1, <3>2, <3>4, <3>5
  <2> QED BY <1>5, <1>7, <2>1, <2>2, <2>3, <2>4
<1>8. ASSUME NEW k \in 1 .. n, ~Separates(s, k)
      PROVE  \E p \in S : p[1] <= k /\ k <= p[2]
  <2>1. CASE ~IsSpace(s[k])
    BY <1>3, <2>1
  <2>2. CASE IsSpace(s[k])
    <3> DEFINE Inked == {h \in 1 .. k : ~IsSpace(s[h])}
               f == Max(Inked)
    <3>1. Inked \in SUBSET (1 .. n) /\ Inked # {}
      BY <1>1, <1>5, <1>8, <2>2
    <3>2. f \in Inked /\ \A h \in Inked : f >= h
      <4> HIDE DEF Inked
      <4> QED BY <1>1, <3>1, MaxOfIndices
    <3> HIDE DEF f
    <3>3. /\ f \in 1 .. k /\ f \in 1 .. n /\ ~IsSpace(s[f])
          /\ \A h \in f + 1 .. k : IsSpace(s[h])
      BY <1>1, <3>1, <3>2
    <3> HIDE DEF Inked
    <3>4. PICK p \in S : p[1] <= f /\ f <= p[2]
      BY <1>3, <3>3
    <3>5. k <= p[2]
      <4> SUFFICES ASSUME p[2] < k
                   PROVE  FALSE
        BY <1>1, <1>3
      <4>1. /\ p[2] \in E /\ p[2] \in 1 .. n /\ p[2] # n /\ s[p[2]] = "."
            /\ ~IsSpace(s[p[2]])
        BY <1>1, <1>2, <1>3, <1>6
      <4>2. p[2] = f
        <5>1. p[2] \notin f + 1 .. k
          BY <3>3, <4>1
        <5> QED BY <1>1, <3>3, <3>4, <4>1, <5>1
      <4>3. f \in 1 .. k - 1
        BY <3>3, <4>1, <4>2
      <4> QED BY <1>5, <1>8, <2>2, <3>3, <4>1, <4>2, <4>3
    <3> QED BY <1>1, <1>3, <3>3, <3>4, <3>5
  <2> QED BY <2>1, <2>2
<1>9. \A k : k \in Kept(s) <=> k \in 1 .. n /\ ~Separates(s, k)
  BY DEF Kept, n
<1>10. Within(S, Kept(s))
  <2>1. \A p \in S : \A k \in p[1] .. p[2] : k \in 1 .. n
    BY <1>1, <1>3
  <2> QED BY <1>7, <1>9, <2>1 DEF Within
<1>11. CoversAll(S, Kept(s))
  BY <1>8, <1>9 DEF CoversAll
<1> QED BY <1>10, <1>11 DEF S

(* The places of the chunks. *)

\* Only a sentence that is cut can have a piece that begins with white space.
RightLengths(P, s) ==
    \A p \in P : /\ p[2] - p[1] < 2 * MaxChars
                 /\ IsSpace(s[p[1]]) => p[2] - p[1] < MaxChars

LEMMA PlacesFacts ==
    ASSUME NEW Ch, NEW s \in Seq(Ch), Stripped(s)
    PROVE  /\ Lies(Places(s), Len(s))
           /\ Apart(Places(s))
           /\ Within(Places(s), Kept(s)) /\ CoversAll(Places(s), Kept(s))
           /\ RightLengths(Places(s), s)
<1> DEFINE n == Len(s)
           S == Sentences(s)
           P == Places(s)
           K == Kept(s)
<1>1. n \in Nat
  BY LenProperties
<1>2. /\ Lies(S, n) /\ Apart(S) /\ Within(S, K) /\ CoversAll(S, K)
      /\ \A p \in S : p[1] = 1 \/ ~IsSpace(s[p[1]])
  BY SentencesFacts, SentencesKeep
<1>3. P = UNION {Pieces(p[1], p[2]) : p \in S}
  BY DEF Places
<1>4. \A k \in K : k \in 1 .. n
  BY DEF Kept
<1>5. n > 0 => ~IsSpace(s[1])
  BY DEF Stripped
<1> HIDE DEF n, S, P, K
<1>6. ASSUME NEW p \in S
      PROVE  /\ p[1] \in 1 .. n /\ p[2] \in 1 .. n /\ p[1] <= p[2]
             /\ p[1] \in Nat \ {0} /\ p[2] \in Nat
             /\ ~IsSpace(s[p[1]])
  <2>1. p[1] \in 1 .. n /\ p[2] \in 1 .. n /\ p[1] <= p[2]
    BY <1>2 DEF Lies
  <2>2. n > 0
    BY <1>1, <2>1
  <2> QED BY <1>1, <1>2, <1>5, <2>1, <2>2
<1>7. \A p \in S :
        /\ \A q \in Pieces(p[1], p[2]) :
             /\ q \in (p[1] .. p[2]) \X (p[1] .. p[2]) /\ q[1] <= q[2]
             /\ q[2] - q[1] < 2 * MaxChars
             /\ q = <<p[1], p[2]>> \/ q[2] - q[1] < MaxChars
        /\ Apart(Pieces(p[1], p[2]))
        /\ CoversAll(Pieces(p[1], p[2]), p[1] .. p[2])
  BY <1>6, PiecesFacts
<1>8. ASSUME NEW q \in P
      PROVE  \E p \in S : /\ q \in Pieces(p[1], p[2])
                          /\ q \in (1 .. n) \X (1 .. n)
                          /\ p[1] <= q[1] /\ q[1] <= q[2] /\ q[2] <= p[2]
                          /\ q[2] - q[1] < 2 * MaxChars
                          /\ IsSpace(s[q[1]]) => q[2] - q[1] < MaxChars
  <2>1. PICK p \in S : q \in Pieces(p[1], p[2])
    BY <1>3
  <2>2. /\ q \in (p[1] .. p[2]) \X (p[1] .. p[2]) /\ q[1] <= q[2]
        /\ q[2] - q[1] < 2 * MaxChars
        /\ q = <<p[1], p[2]>> \/ q[2] - q[1] < MaxChars
    BY <1>7, <2>1
  <2>3. /\ p[1] \in 1 .. n /\ p[2] \in 1 .. n /\ p[1] <= p[2] /\ ~IsSpace(s[p[1]])
    BY <1>6
  <2>4. /\ q[1] \in p[1] .. p[2] /\ q[2] \in p[1] .. p[2]
        /\ q = <<q[1], q[2]>>
    BY <2>2
  <2>5. q[1] \in 1 .. n /\ q[2] \in 1 .. n /\ p[1] <= q[1] /\ q[2] <= p[2]
    BY <1>1, <2>3, <2>4
  <2>6. q \in (1 .. n) \X (1 .. n)
    BY <2>4, <2>5
  <2>7. IsSpace(s[q[1]]) => q[2] - q[1] < MaxChars
    BY <2>2, <2>3
  <2> QED BY <2>1, <2>2, <2>5, <2>6, <2>7
<1>9. ASSUME NEW a \in P, NEW b \in P
      PROVE  a = b \/ a[2] < b[1] \/ b[2] < a[1]
  <2>1. PICK p \in S : a \in Pieces(p[1], p[2]) /\ p[1] <= a[1] /\ a[2] <= p[2]
    BY <1>8
  <2>2. PICK q \in S : b \in Pieces(q[1], q[2]) /\ q[1] <= b[1] /\ b[2] <= q[2]
    BY <1>8
  <2>3. a \in (1 .. n) \X (1 .. n) /\ b \in (1 .. n) \X (1 .. n)
    BY <1>8
  <2>4. p = q \/ p[2] < q[1] \/ q[2] < p[1]
    BY <1>2 DEF Apart
  <2>5. CASE p = q
    BY <1>7, <2>1, <2>2, <2>5 DEF Apart
  <2>6. CASE p[2] < q[1]
    BY <1>1, <1>6, <2>1, <2>2, <2>3, <2>6
  <2>7. CASE q[2] < p[1]
    BY <1>1, <1>6, <2>1, <2>2, <2>3, <2>7
  <2> QED BY <2>4, <2>5, <2>6, <2>7
<1>10. ASSUME NEW k \in K
       PROVE  \E q \in P : q[1] <= k /\ k <= q[2]
  <2>1. PICK p \in S : p[1] <= k /\ k <= p[2]
    BY <1>2 DEF CoversAll
  <2>2. k \in p[1] .. p[2]
    BY <1>1, <1>4, <1>6, <2>1
  <2>3. PICK q \in Pieces(p[1], p[2]) : q[1] <= k /\ k <= q[2]
    BY <1>7, <2>2 DEF CoversAll
  <2>4. q \in P
    BY <1>3, <2>3
  <2> QED BY <2>3, <2>4
<1>11. Lies(P, n)
  BY <1>8 DEF Lies
<1>12. Apart(P)
  BY <1>9 DEF Apart
<1>13. CoversAll(P, K)
  BY <1>10 DEF CoversAll
<1>14. RightLengths(P, s)
  BY <1>8 DEF RightLengths
<1>15. Within(P, K)
  <2> SUFFICES ASSUME NEW q \in P, NEW k \in q[1] .. q[2]
               PROVE  k \in K
    BY DEF Within
  <2>1. PICK p \in S : p[1] <= q[1] /\ q[2] <= p[2] /\ q \in (1 .. n) \X (1 .. n)
    BY <1>8
  <2>2. k \in p[1] .. p[2]
    BY <1>1, <1>6, <2>1
  <2> QED BY <1>2, <2>2 DEF Within
<1> QED BY <1>11, <1>12, <1>13, <1>14, <1>15 DEF n, P, K

\* The places in order: pl[i] is before pl[j], and K is what they hold.
InPlace(pl, m, K, n) ==
    /\ m \in Nat
    /\ \A i \in 1 .. m : /\ pl[i][1] \in 1 .. n /\ pl[i][2] \in 1 .. n
                         /\ pl[i][1] <= pl[i][2]
    /\ \A i, j \in 1 .. m : i < j => pl[i][2] < pl[j][1]
    /\ \A k \in 1 .. n : k \in K <=> \E i \in 1 .. m : pl[i][1] <= k /\ k <= pl[i][2]

LEMMA SplitInPlace ==
    ASSUME NEW Ch, NEW s \in Seq(Ch), Stripped(s)
    PROVE  /\ InPlace(SplitPlaces(s), Len(SplitPlaces(s)), Kept(s), Len(s))
           /\ DOMAIN SplitPlaces(s) = 1 .. Len(SplitPlaces(s))
           /\ \A i \in 1 .. Len(SplitPlaces(s)) : SplitPlaces(s)[i] \in Places(s)
<1> DEFINE n == Len(s)
           P == Places(s)
           key == [p \in P |-> p[1]]
           K == Kept(s)
           pl == SplitPlaces(s)
           m == Len(pl)
<1>1. n \in Nat
  BY LenProperties
<1>2. Lies(P, n) /\ Apart(P) /\ Within(P, K) /\ CoversAll(P, K)
  BY PlacesFacts
<1> HIDE DEF n, P
<1>3. \A p \in P : /\ p \in (1 .. n) \X (1 .. n) /\ p[1] <= p[2]
                   /\ p[1] \in 1 .. n /\ p[2] \in 1 .. n
  BY <1>2 DEF Lies
<1>4. \A p, q \in P : p = q \/ p[2] < q[1] \/ q[2] < p[1]
  BY <1>2 DEF Apart
<1>5. IsFiniteSet(P)
  <2>1. IsFiniteSet(1 .. n)
    BY <1>1, FS_Interval
  <2>2. IsFiniteSet((1 .. n) \X (1 .. n))
    BY <2>1, FS_Product
  <2>3. P \subseteq (1 .. n) \X (1 .. n)
    BY <1>3
  <2> QED BY <2>2, <2>3, FS_Subset
<1>6. \A p \in P : key[p] = p[1]
  OBVIOUS
<1> HIDE DEF key, K
<1>7. Keys(key, P)
  BY <1>1, <1>3, <1>4, <1>6 DEF Keys
<1>8. PICK s0 \in SetToSeqs(P) : \A i, j \in DOMAIN s0 : i < j => key[s0[i]] < key[s0[j]]
  BY <1>5, <1>7, SortExists
<1>9. \A i \in DOMAIN s0 : s0[i] \in P
  BY DEF SetToSeqs
<1>10. \A i, j \in DOMAIN s0 : i < j => s0[i][1] < s0[j][1]
  BY <1>6, <1>8, <1>9
<1>11. /\ pl \in SetToSeqs(P)
       /\ \A i, j \in DOMAIN pl : i < j => pl[i][1] < pl[j][1]
  BY <1>10 DEF SplitPlaces, P
<1> HIDE DEF pl
<1>12. pl \in Seq(P) /\ \A p \in P : \E i \in 1 .. m : pl[i] = p
  BY <1>5, <1>11, ListsAll
<1>13. m \in Nat /\ DOMAIN pl = 1 .. m /\ \A i \in 1 .. m : pl[i] \in P
  BY <1>12, LenProperties
<1> HIDE DEF m
<1>14. ASSUME NEW i \in 1 .. m, NEW j \in 1 .. m, i < j
       PROVE  pl[i][2] < pl[j][1]
  <2>1. pl[i][1] < pl[j][1] /\ pl[i] \in P /\ pl[j] \in P
    BY <1>11, <1>13, <1>14
  <2>2. /\ pl[j][2] \in 1 .. n /\ pl[j][1] <= pl[j][2]
        /\ pl[i][1] \in 1 .. n /\ pl[j][1] \in 1 .. n
    BY <1>3, <2>1
  <2>3. pl[i] = pl[j] \/ pl[i][2] < pl[j][1] \/ pl[j][2] < pl[i][1]
    BY <1>4, <2>1
  <2> QED BY <1>1, <2>1, <2>2, <2>3
<1>15. ASSUME NEW k \in 1 .. n, k \in K
       PROVE  \E i \in 1 .. m : pl[i][1] <= k /\ k <= pl[i][2]
  <2>1. PICK p \in P : p[1] <= k /\ k <= p[2]
    BY <1>2, <1>15 DEF CoversAll
  <2>2. PICK i \in 1 .. m : pl[i] = p
    BY <1>12
  <2> QED BY <2>1, <2>2
<1>16. ASSUME NEW i \in 1 .. m
       PROVE  /\ pl[i][1] \in 1 .. n /\ pl[i][2] \in 1 .. n
              /\ pl[i][1] <= pl[i][2]
              /\ \A k \in 1 .. n : pl[i][1] <= k /\ k <= pl[i][2] => k \in K
  <2>1. pl[i] \in P
    BY <1>13
  <2>2. \A k \in pl[i][1] .. pl[i][2] : k \in K
    BY <1>2, <2>1 DEF Within
  <2> QED BY <1>1, <1>3, <2>1, <2>2
<1>17. InPlace(pl, m, K, n)
  BY <1>13, <1>14, <1>15, <1>16 DEF InPlace
<1> QED BY <1>13, <1>17 DEF pl, m, n, K, P

(* Stripping. *)

\* What separates in a text separates in the stripped text, or is stripped.
LEMMA KeptShifts ==
    ASSUME NEW Ch, NEW text \in Seq(Ch), NEW s \in Seq(Ch),
           NEW a \in 1 .. Len(text), NEW b \in a .. Len(text),
           ~IsSpace(text[a]), ~IsSpace(text[b]),
           \A i \in 1 .. Len(text) : i < a \/ b < i => IsSpace(text[i]),
           Len(s) = b - a + 1, \A i \in 1 .. b - a + 1 : s[i] = text[a + i - 1]
    PROVE  \A k \in 1 .. Len(text) : k \in Kept(text) <=> k - a + 1 \in Kept(s)
<1> DEFINE N == Len(text)
           n == Len(s)
<1>1. N \in Nat /\ n = b - a + 1 /\ a \in Nat /\ b \in Nat /\ 1 <= a /\ a <= b /\ b <= N
  BY LenProperties
<1>2. \A k \in 1 .. N :
        Separates(text, k) <=>
          /\ IsSpace(text[k])
          /\ \/ \A i \in 1 .. k : IsSpace(text[i])
             \/ \A i \in k .. N : IsSpace(text[i])
             \/ \E j \in 1 .. k - 1 :
                   text[j] = "." /\ \A i \in j + 1 .. k : IsSpace(text[i])
  BY SeparatesIs
<1>3. \A k \in 1 .. n :
        Separates(s, k) <=>
          /\ IsSpace(s[k])
          /\ \/ \A i \in 1 .. k : IsSpace(s[i])
             \/ \A i \in k .. n : IsSpace(s[i])
             \/ \E j \in 1 .. k - 1 :
                   s[j] = "." /\ \A i \in j + 1 .. k : IsSpace(s[i])
  BY SeparatesIs
<1>4. \A i \in 1 .. N : i < a \/ b < i => IsSpace(text[i])
  OBVIOUS
<1>5. \A i \in 1 .. n : s[i] = text[a + i - 1]
  BY <1>1
<1>6. /\ \A k : k \in Kept(text) <=> k \in 1 .. N /\ ~Separates(text, k)
      /\ \A k : k \in Kept(s) <=> k \in 1 .. n /\ ~Separates(s, k)
  BY DEF Kept
<1> HIDE DEF N, n
<1>7. ASSUME NEW k \in 1 .. N, k < a \/ b < k
      PROVE  Separates(text, k)
  <2>1. CASE k < a
    <3>1. \A i \in 1 .. k : i \in 1 .. N /\ i < a
      BY <1>1, <2>1
    <3>2. \A i \in 1 .. k : IsSpace(text[i])
      BY <1>4, <3>1
    <3> QED BY <1>1, <1>2, <3>2
  <2>2. CASE b < k
    <3>1. \A i \in k .. N : i \in 1 .. N /\ b < i
      BY <1>1, <2>2
    <3>2. \A i \in k .. N : IsSpace(text[i])
      BY <1>4, <3>1
    <3> QED BY <1>1, <1>2, <3>2
  <2> QED BY <1>7, <2>1, <2>2
<1>8. ASSUME NEW k \in a .. b
      PROVE  Separates(text, k) <=> Separates(s, k - a + 1)
  <2> DEFINE h == k - a + 1
  <2>1. /\ k \in 1 .. N /\ h \in 1 .. n /\ k = a + h - 1
        /\ a \in 1 .. k /\ b \in k .. N /\ 1 \in 1 .. h /\ n \in h .. n
    BY <1>1
  <2> HIDE DEF h
  <2>2. s[h] = text[k] /\ s[1] = text[a] /\ s[n] = text[b]
    <3>1. 1 \in 1 .. n /\ n \in 1 .. n /\ a + 1 - 1 = a /\ a + n - 1 = b
      BY <1>1
    <3> QED BY <1>5, <2>1, <3>1
  <2>3. Separates(text, k) <=>
          /\ IsSpace(text[k])
          /\ \E j \in 1 .. k - 1 :
                text[j] = "." /\ \A i \in j + 1 .. k : IsSpace(text[i])
    BY <1>2, <2>1
  <2>4. Separates(s, h) <=>
          /\ IsSpace(s[h])
          /\ \E j \in 1 .. h - 1 :
                s[j] = "." /\ \A i \in j + 1 .. h : IsSpace(s[i])
    BY <1>3, <2>1, <2>2
  <2>5. ASSUME NEW j \in 1 .. k - 1, text[j] = ".", \A i \in j + 1 .. k : IsSpace(text[i])
        PROVE  \E g \in 1 .. h - 1 : s[g] = "." /\ \A i \in g + 1 .. h : IsSpace(s[i])
    <3>1. a <= j
      <4>1. a \notin j + 1 .. k
        BY <2>5
      <4> QED BY <1>1, <2>1, <4>1
    <3> DEFINE g == j - a + 1
    <3>2. g \in 1 .. h - 1 /\ j = a + g - 1 /\ g \in 1 .. n
      BY <1>1, <2>1, <3>1
    <3> HIDE DEF g
    <3>3. s[g] = "."
      BY <1>5, <2>5, <3>2
    <3>4. ASSUME NEW i \in g + 1 .. h
          PROVE  IsSpace(s[i])
      <4>1. i \in 1 .. n /\ a + i - 1 \in j + 1 .. k
        BY <1>1, <2>1, <3>2
      <4> QED BY <1>5, <2>5, <4>1
    <3> QED BY <3>2, <3>3, <3>4
  <2>6. ASSUME NEW g \in 1 .. h - 1, s[g] = ".", \A i \in g + 1 .. h : IsSpace(s[i])
        PROVE  \E j \in 1 .. k - 1 : text[j] = "." /\ \A i \in j + 1 .. k : IsSpace(text[i])
    <3> DEFINE j == a + g - 1
    <3>2. j \in 1 .. k - 1 /\ g \in 1 .. n
      BY <1>1, <2>1
    <3>3. text[j] = "."
      BY <1>5, <2>6, <3>2
    <3>4. ASSUME NEW i \in j + 1 .. k
          PROVE  IsSpace(text[i])
      <4> DEFINE e == i - a + 1
      <4>1. e \in 1 .. n /\ e \in g + 1 .. h /\ i = a + e - 1
        BY <1>1, <2>1
      <4> HIDE DEF e
      <4> QED BY <1>5, <2>6, <4>1
    <3> QED BY <3>2, <3>3, <3>4
  <2> QED BY <2>2, <2>3, <2>4, <2>5, <2>6 DEF h
<1>9. ASSUME NEW k \in 1 .. N
      PROVE  k \in Kept(text) <=> k - a + 1 \in Kept(s)
  <2>1. CASE k < a \/ b < k
    <3>1. k - a + 1 \notin 1 .. n
      BY <1>1, <2>1
    <3> QED BY <1>6, <1>7, <2>1, <3>1
  <2>2. CASE ~(k < a \/ b < k)
    <3>1. k \in a .. b /\ k - a + 1 \in 1 .. n
      BY <1>1, <2>2
    <3> QED BY <1>6, <1>8, <3>1
  <2> QED BY <2>1, <2>2
<1> QED BY <1>9 DEF N

\* s is the part of the text after the first d characters, to where the rest
\* separates.
PartOf(s, text, d) ==
    /\ d \in Nat /\ d + Len(s) <= Len(text)
    /\ \A i, j \in 1 .. Len(s) : SubSeq(s, i, j) = SubSeq(text, d + i, d + j)
    /\ \A k \in 1 .. Len(text) : k \in Kept(text) <=> k - d \in Kept(s)

LEMMA StripFacts ==
    ASSUME NEW Ch, NEW text \in Seq(Ch)
    PROVE  /\ Strip(text) \in Seq(Ch)
           /\ \E d : PartOf(Strip(text), text, d)
           /\ Stripped(Strip(text))
           /\ Len(Strip(text)) = 0 <=> Blank(text)
<1> DEFINE n == Len(text)
           ink == {i \in 1 .. n : ~IsSpace(text[i])}
           a == Min(ink)
           b == Max(ink)
           s == SubSeq(text, a, b)
<1>1. n \in Nat /\ DOMAIN text = 1 .. n
  BY LenProperties
<1>2. Strip(text) = IF ink = {} THEN <<>> ELSE s
  BY <1>1 DEF Strip, IsSpace
<1>3. Blank(text) <=> ink = {}
  BY <1>1, BlankIsSpace
<1>4. CASE ink = {}
  <2> DEFINE none == <<>>
  <2>1. none \in Seq(Ch) /\ Len(none) = 0 /\ Strip(text) = none
    BY <1>2, <1>4
  <2>2. \A k \in 1 .. n : k \notin Kept(text)
    <3> SUFFICES ASSUME NEW k \in 1 .. n
                 PROVE  Separates(text, k)
      BY DEF Kept
    <3>1. \A i \in 1 .. n : IsSpace(text[i])
      BY <1>4
    <3> HIDE DEF ink
    <3>2. \A i \in 1 .. k : IsSpace(text[i])
      BY <1>1, <3>1
    <3> QED BY <3>1, <3>2, SeparatesIs
  <2> HIDE DEF none
  <2>3. PartOf(none, text, 0)
    <3>1. \A k : k \notin Kept(none)
      BY <2>1 DEF Kept
    <3> QED BY <1>1, <2>1, <2>2, <3>1 DEF PartOf
  <2> QED BY <1>3, <1>4, <2>1, <2>3 DEF Stripped
<1>5. CASE ink # {}
  <2>1. ink \in SUBSET (1 .. n)
    OBVIOUS
  <2>2. /\ a \in ink /\ \A i \in ink : a <= i
        /\ b \in ink /\ \A i \in ink : b >= i
    <3> HIDE DEF ink, n
    <3> QED BY <1>1, <1>5, <2>1, MinOfIndices, MaxOfIndices
  <2> HIDE DEF a, b
  <2>3. /\ a \in 1 .. n /\ b \in 1 .. n /\ a <= b
        /\ ~IsSpace(text[a]) /\ ~IsSpace(text[b])
        /\ \A i \in 1 .. n : i < a \/ b < i => IsSpace(text[i])
    BY <1>1, <2>2
  <2>4. /\ a \in 1 .. Len(text) + 1 /\ b \in 0 .. Len(text) /\ n = Len(text)
        /\ b \in a .. Len(text) /\ a - 1 \in Nat
    BY <1>1, <2>3
  <2> HIDE DEF n, ink
  <2>5. /\ s \in Seq(Ch) /\ Len(s) = b - a + 1 /\ 1 \in 1 .. b - a + 1
        /\ b - a + 1 \in 1 .. b - a + 1
        /\ \A i \in 1 .. b - a + 1 : s[i] = text[a + i - 1]
    BY <1>1, <2>3, <2>4, SubSeqInside
  <2>6. s[1] = text[a] /\ s[Len(s)] = text[b] /\ Len(s) > 0
    <3>1. a + 1 - 1 = a /\ a + (b - a + 1) - 1 = b /\ b - a + 1 > 0
      BY <1>1, <2>3
    <3> HIDE DEF s
    <3> QED BY <2>5, <3>1
  <2>7. PartOf(s, text, a - 1)
    <3>1. \A i, j \in 1 .. Len(s) : SubSeq(s, i, j) = SubSeq(text, (a - 1) + i, (a - 1) + j)
      <4> TAKE i, j \in 1 .. Len(s)
      <4>1. /\ i \in 1 .. b - a + 1 /\ j \in 1 .. b - a + 1
            /\ a \in 1 .. Len(text) /\ b \in 1 .. Len(text)
        BY <2>3, <2>4, <2>5
      <4>2. SubSeq(s, i, j) = SubSeq(text, a + i - 1, a + j - 1)
        BY <4>1, SubSeqOfSubSeq
      <4>3. a + i - 1 = (a - 1) + i /\ a + j - 1 = (a - 1) + j
        BY <2>4, <4>1
      <4> QED BY <4>2, <4>3
    <3> HIDE DEF s
    <3>2. \A k \in 1 .. Len(text) : k \in Kept(text) <=> k - a + 1 \in Kept(s)
      BY <2>3, <2>4, <2>5, KeptShifts
    <3>3. \A k \in 1 .. Len(text) : k - a + 1 = k - (a - 1)
      BY <2>4
    <3>4. (a - 1) + Len(s) <= Len(text)
      BY <1>1, <2>3, <2>4, <2>5
    <3> QED BY <2>4, <3>1, <3>2, <3>3, <3>4 DEF PartOf
  <2>8. Strip(text) = s
    BY <1>2, <1>5
  <2>9. Stripped(s)
    BY <2>3, <2>6 DEF Stripped
  <2> HIDE DEF s
  <2> QED BY <1>3, <1>5, <2>5, <2>6, <2>7, <2>8, <2>9
<1> QED BY <1>4, <1>5

(* The chunks, one after another. *)

IsFlat(f, t) ==
    f = [i \in 1 .. Len(t) |-> IF i = 1 THEN t[i] ELSE f[i - 1] \o t[i]]

LEMMA FlatChooses ==
    ASSUME NEW t, Len(t) # 0
    PROVE  FlattenSeq(t) = (CHOOSE f : IsFlat(f, t))[Len(t)]
BY DEF FlattenSeq, IsFlat

\* f[i] is the first i chunks in one.
FlatByChunk(f, t, m, V) ==
    /\ f \in [1 .. m -> V] /\ f[m] = FlattenSeq(t)
    /\ f[1] = t[1]
    /\ \A i \in 1 .. m : i # 1 => f[i] = Cat(f[i - 1], t[i])

LEMMA FlatSteps ==
    ASSUME NEW Ch, NEW m \in Nat \ {0}, NEW t \in [1 .. m -> Seq(Ch)], Len(t) = m
    PROVE  \E f : FlatByChunk(f, t, m, Seq(Ch))
<1> DEFINE V == Seq(Ch)
           none == <<>>
           step == [k \in 1 .. m |-> [v \in V |-> IF k = 1 THEN t[k] ELSE Cat(v, t[k])]]
           pick == [p \in SUBSET (1 .. m) |-> Max(p)]
<1>1. \A v, w \in V : Cat(v, w) \in V
  BY CatType
<1>2. none \in V
  OBVIOUS
<1>3. \A k \in 1 .. m : t[k] \in V
  OBVIOUS
<1> HIDE DEF V, none
<1>4. \A k \in 1 .. m, v \in V : /\ step[k][v] = IF k = 1 THEN t[k] ELSE Cat(v, t[k])
                                 /\ step[k][v] \in V
  BY <1>1, <1>3
<1> HIDE DEF step
<1>5. StaysIn(V, step, 1 .. m)
  BY <1>4 DEF StaysIn
<1>6. PICK g : IsFold(g, 1 .. m, V, none, pick, step)
  BY <1>2, <1>5, LeftFoldExists
<1>7. FoldsLeft(g, m, V, none, step)
  <2>1. \A p \in SUBSET (1 .. m) : pick[p] = Max(p)
    OBVIOUS
  <2> HIDE DEF pick
  <2> QED BY <1>6, <2>1 DEF IsFold, FoldsLeft
<1>8. PICK acc : Accumulates(acc, m, V, none, step) /\ acc[m] = g[1 .. m]
  BY <1>2, <1>5, <1>7, LeftFoldSteps
<1>9. /\ acc \in [0 .. m -> V]
      /\ \A k \in 1 .. m : acc[k] = step[k][acc[k - 1]]
  BY <1>8 DEF Accumulates
<1>10. \A k \in 1 .. m : /\ acc[k] \in V
                         /\ acc[k] = IF k = 1 THEN t[k] ELSE Cat(acc[k - 1], t[k])
  <2> TAKE k \in 1 .. m
  <2>1. k - 1 \in 0 .. m /\ k \in 0 .. m
    OBVIOUS
  <2> QED BY <1>4, <1>9, <2>1
<1> DEFINE h == [i \in 1 .. m |-> acc[i]]
<1>11. IsFlat(h, t)
  <2>1. \A i \in 1 .. m : i # 1 => i - 1 \in 1 .. m
    OBVIOUS
  <2>2. \A i \in 1 .. m : acc[i] = IF i = 1 THEN t[i] ELSE h[i - 1] \o t[i]
    BY <1>10, <2>1 DEF Cat
  <2>3. h = [i \in 1 .. m |-> IF i = 1 THEN t[i] ELSE h[i - 1] \o t[i]]
    BY <2>2
  <2> HIDE DEF h
  <2> QED BY <2>3 DEF IsFlat
<1> DEFINE f == CHOOSE x : IsFlat(x, t)
<1>12. IsFlat(f, t) /\ FlattenSeq(t) = f[m]
  BY <1>11, FlatChooses
<1> HIDE DEF f, h
<1>13. f = [i \in 1 .. m |-> IF i = 1 THEN t[i] ELSE Cat(f[i - 1], t[i])]
  BY <1>12 DEF IsFlat, Cat
<1>14. \A i \in 1 .. m : f[i] = IF i = 1 THEN t[i] ELSE Cat(f[i - 1], t[i])
  BY <1>13
<1> DEFINE Done == {k \in Nat : k + 1 <= m => f[k + 1] \in V}
<1>15. 0 \in Done
  BY <1>3, <1>14
<1>16. ASSUME NEW k \in Nat, k \in Done
       PROVE  k + 1 \in Done
  <2> SUFFICES ASSUME (k + 1) + 1 <= m
               PROVE  f[(k + 1) + 1] \in V
    OBVIOUS
  <2> DEFINE i == (k + 1) + 1
  <2>1. i \in 1 .. m /\ i # 1 /\ i - 1 = k + 1 /\ k + 1 <= m
    OBVIOUS
  <2>2. f[i - 1] \in V
    BY <1>16, <2>1
  <2> HIDE DEF i
  <2>3. f[i] \in V
    BY <1>1, <1>3, <1>14, <2>1, <2>2
  <2> QED BY <2>3 DEF i
<1>17. Nat \subseteq Done
  <2> HIDE DEF Done
  <2> QED BY <1>15, <1>16, SetInduction
<1>18. \A i \in 1 .. m : f[i] \in V
  <2> TAKE i \in 1 .. m
  <2> DEFINE j == i - 1
  <2>1. j \in Nat /\ j + 1 = i /\ i <= m
    OBVIOUS
  <2> HIDE DEF j
  <2>2. j \in Done
    <3> HIDE DEF Done
    <3> QED BY <1>17, <2>1
  <2> QED BY <2>1, <2>2
<1>19. f \in [1 .. m -> V]
  BY <1>13, <1>18
<1>20. FlatByChunk(f, t, m, V)
  BY <1>12, <1>14, <1>19 DEF FlatByChunk
<1> QED BY <1>20 DEF V

(* The chunks are the text without the white space that separates. *)

\* Nothing of K is between two places, before the first or after the last.
LEMMA GapsAreEmpty ==
    ASSUME NEW K, NEW pl, NEW m, NEW n \in Nat, InPlace(pl, m, K, n)
    PROVE  /\ \A i \in 1 .. m : i # 1 =>
                /\ pl[i - 1][2] \in Nat /\ pl[i - 1][2] < pl[i][1]
                /\ \A k \in pl[i - 1][2] + 1 .. pl[i][1] - 1 : k \notin K
           /\ m # 0 => /\ \A k \in 1 .. pl[1][1] - 1 : k \notin K
                       /\ \A k \in pl[m][2] + 1 .. n : k \notin K
           /\ m = 0 => \A k \in 1 .. n : k \notin K
<1>1. /\ m \in Nat
      /\ \A i \in 1 .. m : pl[i][1] \in 1 .. n /\ pl[i][2] \in 1 .. n
                           /\ pl[i][1] <= pl[i][2]
      /\ \A i, j \in 1 .. m : i < j => pl[i][2] < pl[j][1]
      /\ \A k \in 1 .. n : k \in K =>
           \E i \in 1 .. m : pl[i][1] <= k /\ k <= pl[i][2]
  BY DEF InPlace
<1>2. ASSUME NEW i \in 1 .. m, i # 1
      PROVE  /\ pl[i - 1][2] \in Nat /\ pl[i - 1][2] < pl[i][1]
             /\ \A k \in pl[i - 1][2] + 1 .. pl[i][1] - 1 : k \notin K
  <2> DEFINE h == i - 1
  <2>1. h \in 1 .. m /\ h < i /\ \A j \in 1 .. m : j < h \/ j = h \/ j = i \/ i < j
    BY <1>1, <1>2
  <2>2. /\ pl[h][2] \in 1 .. n /\ pl[i][1] \in 1 .. n /\ pl[i][2] \in 1 .. n
        /\ pl[h][2] < pl[i][1]
    BY <1>1, <2>1
  <2> HIDE DEF h
  <2>3. ASSUME NEW k \in pl[h][2] + 1 .. pl[i][1] - 1, k \in K
        PROVE  FALSE
    <3>1. k \in 1 .. n
      BY <2>2
    <3>2. PICK j \in 1 .. m : pl[j][1] <= k /\ k <= pl[j][2]
      BY <1>1, <2>3, <3>1
    <3>3. pl[j][1] \in 1 .. n /\ pl[j][2] \in 1 .. n /\ pl[h][1] \in 1 .. n
      BY <1>1, <2>1
    <3>4. CASE j < h
      <4>1. pl[j][2] < pl[h][1] /\ pl[h][1] <= pl[h][2]
        BY <1>1, <2>1, <3>4
      <4> QED BY <2>2, <3>1, <3>2, <3>3, <4>1
    <3>5. CASE i < j
      <4>1. pl[i][2] < pl[j][1] /\ pl[i][1] <= pl[i][2]
        BY <1>1, <3>5
      <4> QED BY <2>2, <3>1, <3>2, <3>3, <4>1
    <3>6. CASE j = h \/ j = i
      BY <2>2, <3>1, <3>2, <3>3, <3>6
    <3> QED BY <2>1, <3>4, <3>5, <3>6
  <2>4. /\ pl[h][2] \in Nat /\ pl[h][2] < pl[i][1]
        /\ \A k \in pl[h][2] + 1 .. pl[i][1] - 1 : k \notin K
    BY <2>2, <2>3
  <2> QED BY <2>4 DEF h
<1>3. ASSUME m # 0, NEW k \in 1 .. pl[1][1] - 1, k \in K
      PROVE  FALSE
  <2>1. 1 \in 1 .. m /\ pl[1][1] \in 1 .. n
    BY <1>1, <1>3
  <2>2. k \in 1 .. n
    BY <2>1
  <2>3. PICK j \in 1 .. m : pl[j][1] <= k /\ k <= pl[j][2]
    BY <1>1, <1>3, <2>2
  <2>4. /\ pl[j][1] \in 1 .. n
        /\ j = 1 \/ (pl[1][2] < pl[j][1] /\ pl[1][1] <= pl[1][2] /\ pl[1][2] \in 1 .. n)
    BY <1>1, <2>1
  <2> QED BY <2>1, <2>2, <2>3, <2>4
<1>4. ASSUME m # 0, NEW k \in pl[m][2] + 1 .. n, k \in K
      PROVE  FALSE
  <2>1. m \in 1 .. m /\ pl[m][1] \in 1 .. n /\ pl[m][2] \in 1 .. n
        /\ pl[m][1] <= pl[m][2]
    BY <1>1, <1>4
  <2>2. k \in 1 .. n
    BY <2>1
  <2>3. PICK j \in 1 .. m : pl[j][1] <= k /\ k <= pl[j][2]
    BY <1>1, <1>4, <2>2
  <2>4. pl[j][2] \in 1 .. n /\ (j = m \/ pl[j][2] < pl[m][1])
    BY <1>1, <2>1
  <2> QED BY <2>1, <2>2, <2>3, <2>4
<1>5. ASSUME m = 0, NEW k \in 1 .. n, k \in K
      PROVE  FALSE
  BY <1>1, <1>5
<1> QED BY <1>2, <1>3, <1>4, <1>5

\* sq[k] is the first k characters without what separates.
SqueezeByLetter(sq, text, V) ==
    /\ sq \in [0 .. Len(text) -> V]
    /\ sq[0] = <<>> /\ sq[Len(text)] = Squeezed(text)
    /\ \A k \in 1 .. Len(text) :
         sq[k] = IF k \in Kept(text) THEN Append(sq[k - 1], text[k]) ELSE sq[k - 1]

LEMMA SqueezeSteps ==
    ASSUME NEW Ch, NEW text \in Seq(Ch)
    PROVE  \E sq : SqueezeByLetter(sq, text, Seq(Ch))
<1> DEFINE n == Len(text)
           none == <<>>
           one(i) == <<text[i]>>
           V == Seq(Ch)
           K == Kept(text)
           letters == [i \in 1 .. n |-> IF i \in K THEN one(i) ELSE none]
<1>1. n \in Nat /\ DOMAIN text = 1 .. n /\ n = Len(text)
  BY LenProperties
<1>2. none \in V /\ \A i \in 1 .. n : text[i] \in Ch /\ one(i) \in V
  OBVIOUS
<1>3. Squeezed(text) = FlattenSeq(letters)
  <2>1. \A i \in 1 .. n : i \in K <=> ~Separates(text, i)
    BY DEF Kept
  <2>2. letters = [i \in DOMAIN text |-> IF Separates(text, i) THEN <<>> ELSE <<text[i]>>]
    <3> HIDE DEF n, K
    <3> QED BY <1>1, <2>1
  <2> QED BY <2>2 DEF Squeezed
<1>4. none = <<>>
  OBVIOUS
<1>5. \A v \in V, i \in 1 .. n : v \o one(i) = Append(v, text[i])
  <2> TAKE v \in V, i \in 1 .. n
  <2>1. text[i] \in Ch
    BY <1>2
  <2> QED BY <2>1, AppendIsConcat
<1>6. \A v \in V : Cat(v, none) = v /\ Cat(none, v) = v
  BY CatNothing
<1>7. letters \in [1 .. n -> V]
  <2> HIDE DEF one, none, V, n, K
  <2> QED BY <1>2
<1>8. \A i \in 1 .. n : letters[i] = IF i \in K THEN one(i) ELSE none
  OBVIOUS
<1>9. Len(letters) = n
  <2> HIDE DEF one, none, V, n, K
  <2> QED BY <1>1
<1> HIDE DEF letters, K, one
<1>10. CASE n = 0
  <2>1. FlattenSeq(letters) = none
    <3> HIDE DEF V, n, none
    <3>1. FlattenSeq(letters) = letters
      BY <1>9, <1>10 DEF FlattenSeq
    <3>2. letters = none
      <4>1. letters \in Seq(V)
        BY <1>1, <1>7, IsASeq
      <4> QED BY <1>4, <1>9, <1>10, <4>1, EmptySeq
    <3> QED BY <3>1, <3>2
  <2> DEFINE sq == [k \in 0 .. 0 |-> none]
  <2> HIDE DEF V, n, none
  <2>2. SqueezeByLetter(sq, text, V)
    BY <1>1, <1>2, <1>3, <1>4, <1>10, <2>1 DEF SqueezeByLetter
  <2> QED BY <2>2 DEF V
<1>11. CASE n # 0
  <2> HIDE DEF n, none
  <2>1. n \in Nat \ {0} /\ n \in 1 .. n /\ 1 \in 1 .. n
    BY <1>1, <1>11
  <2>2. PICK f : FlatByChunk(f, letters, n, V)
    BY <1>7, <1>9, <2>1, FlatSteps
  <2> HIDE DEF V
  <2>3. /\ f \in [1 .. n -> V] /\ f[n] = FlattenSeq(letters) /\ f[1] = letters[1]
        /\ \A i \in 1 .. n : i # 1 => f[i] = Cat(f[i - 1], letters[i])
    BY <2>2 DEF FlatByChunk
  <2> DEFINE sq == [k \in 0 .. n |-> IF k = 0 THEN none ELSE f[k]]
  <2>4. sq[0] = none /\ \A k \in 1 .. n : sq[k] = f[k]
    BY <1>1
  <2>5. sq \in [0 .. n -> V]
    BY <1>1, <1>2, <2>3
  <2> HIDE DEF sq
  <2>6. ASSUME NEW k \in 1 .. n
        PROVE  sq[k] = IF k \in K THEN Append(sq[k - 1], text[k]) ELSE sq[k - 1]
    <3>1. sq[k - 1] \in V /\ sq[k] \in V /\ one(k) \in V /\ letters[k] \in V
      BY <1>1, <1>2, <1>7, <2>5
    <3>2. sq[k] = Cat(sq[k - 1], letters[k])
      <4>1. CASE k = 1
        <5>1. sq[k - 1] = none /\ sq[k] = letters[k]
          BY <2>3, <2>4, <4>1
        <5> QED BY <1>6, <3>1, <5>1
      <4>2. CASE k # 1
        <5>1. k - 1 \in 1 .. n
          BY <1>1, <4>2
        <5> QED BY <2>3, <2>4, <4>2, <5>1
      <4> QED BY <4>1, <4>2
    <3>3. CASE k \in K
      <4>1. sq[k] = sq[k - 1] \o one(k)
        BY <1>8, <3>2, <3>3 DEF Cat
      <4>2. sq[k - 1] \o one(k) = Append(sq[k - 1], text[k])
        BY <1>5, <3>1
      <4> QED BY <3>3, <4>1, <4>2
    <3>4. CASE k \notin K
      <4>1. sq[k] = Cat(sq[k - 1], none)
        BY <1>8, <3>2, <3>4
      <4> QED BY <1>6, <3>1, <3>4, <4>1
    <3> QED BY <3>3, <3>4
  <2>7. SqueezeByLetter(sq, text, V)
    BY <1>1, <1>3, <1>4, <2>1, <2>3, <2>4, <2>5, <2>6 DEF SqueezeByLetter, K
  <2> QED BY <2>7 DEF V
<1> QED BY <1>10, <1>11

\* Where nothing is kept, nothing is added.
LEMMA NothingKept ==
    ASSUME NEW Ch, NEW text \in Seq(Ch), NEW sq, SqueezeByLetter(sq, text, Seq(Ch)),
           NEW x \in 0 .. Len(text), NEW y \in x .. Len(text),
           \A k \in x + 1 .. y : k \notin Kept(text)
    PROVE  sq[y] = sq[x]
<1> DEFINE n == Len(text)
           Done == {d \in Nat : x + d <= y => sq[x + d] = sq[x]}
<1>1. n \in Nat /\ x \in Nat /\ y \in Nat /\ y <= n /\ x <= y
  BY LenProperties
<1>2. \A k \in 1 .. n : k \notin Kept(text) => sq[k] = sq[k - 1]
  BY DEF SqueezeByLetter
<1> HIDE DEF n
<1>3. 0 \in Done
  BY <1>1
<1>4. ASSUME NEW d \in Nat, d \in Done
      PROVE  d + 1 \in Done
  <2> SUFFICES ASSUME x + (d + 1) <= y
               PROVE  sq[x + (d + 1)] = sq[x]
    OBVIOUS
  <2> DEFINE k == x + (d + 1)
  <2>1. k \in 1 .. n /\ k \in x + 1 .. y /\ k - 1 = x + d /\ x + d <= y
    BY <1>1
  <2>2. sq[k - 1] = sq[x]
    BY <1>4, <2>1
  <2> HIDE DEF k
  <2>3. sq[k] = sq[k - 1]
    BY <1>2, <2>1
  <2> QED BY <2>2, <2>3 DEF k
<1>5. Nat \subseteq Done
  <2> HIDE DEF Done
  <2> QED BY <1>3, <1>4, SetInduction
<1>6. y - x \in Done /\ x + (y - x) = y
  <2> HIDE DEF Done
  <2> QED BY <1>1, <1>5
<1> QED BY <1>1, <1>6

\* Where everything is kept, that part of the text is added.
LEMMA AllKept ==
    ASSUME NEW Ch, NEW text \in Seq(Ch), NEW sq, SqueezeByLetter(sq, text, Seq(Ch)),
           NEW x \in 0 .. Len(text), NEW y \in x .. Len(text),
           \A k \in x + 1 .. y : k \in Kept(text)
    PROVE  sq[y] = Cat(sq[x], SubSeq(text, x + 1, y))
<1> DEFINE n == Len(text)
           V == Seq(Ch)
           part(d) == SubSeq(text, x + 1, x + d)
           Done == {d \in Nat : x + d <= y => sq[x + d] = Cat(sq[x], part(d))}
<1>1. /\ n \in Nat /\ x \in Nat /\ y \in Nat /\ y <= n /\ x <= y
      /\ x \in 0 .. n
  BY LenProperties
<1>2. /\ sq \in [0 .. n -> V]
      /\ \A k \in 1 .. n : k \in Kept(text) => sq[k] = Append(sq[k - 1], text[k])
  BY DEF SqueezeByLetter
<1>3. \A v, w \in V, c \in Ch : Cat(v, Append(w, c)) = Append(Cat(v, w), c)
  BY CatAppend
<1>4. \A d \in Nat : x + d <= n => part(d) \in V
  <2> TAKE d \in Nat
  <2> HAVE x + d <= n
  <2>1. x + 1 \in 1 .. Len(text) + 1 /\ x + d \in 0 .. Len(text)
    BY <1>1
  <2> QED BY <2>1, SubSeqInside
<1>5. \A d \in Nat : x + (d + 1) <= n =>
        /\ part(d + 1) = Append(part(d), text[x + (d + 1)])
        /\ text[x + (d + 1)] \in Ch
  <2> TAKE d \in Nat
  <2> HAVE x + (d + 1) <= n
  <2> DEFINE e == x + (d + 1)
             one == <<text[e]>>
  <2>1. /\ x + 1 \in 1 .. Len(text) /\ e \in x + 1 .. Len(text) /\ e - 1 = x + d
        /\ e \in 1 .. n
    BY <1>1
  <2>2. text[e] \in Ch
    BY <2>1, ElementOfSeq
  <2>3. SubSeq(text, x + 1, e) = SubSeq(text, x + 1, e - 1) \o one
    BY <2>1, SubSeqRecursiveSecond
  <2>4. SubSeq(text, x + 1, e - 1) = part(d)
    BY <2>1
  <2>5. part(d) \in V
    BY <1>1, <1>4
  <2>6. part(d) \o one = Append(part(d), text[e])
    <3> HIDE DEF part, e
    <3> QED BY <2>2, <2>5, AppendIsConcat
  <2> HIDE DEF one
  <2> QED BY <2>2, <2>3, <2>4, <2>6
<1>6. 0 \in Done
  <2>1. part(0) = <<>>
    <3>1. x + 1 > x + 0
      BY <1>1
    <3> QED BY <1>1, <3>1, SubSeqEmpty
  <2>2. sq[x] \in Seq(Ch)
    BY <1>1, <1>2
  <2>3. Cat(sq[x], <<>>) = sq[x]
    BY <2>2, CatNothing
  <2>4. x + 0 = x
    BY <1>1
  <2> HIDE DEF part
  <2> QED BY <2>1, <2>3, <2>4
<1> HIDE DEF n, part, V
<1>7. ASSUME NEW d \in Nat, d \in Done
      PROVE  d + 1 \in Done
  <2> SUFFICES ASSUME x + (d + 1) <= y
               PROVE  sq[x + (d + 1)] = Cat(sq[x], part(d + 1))
    OBVIOUS
  <2> DEFINE k == x + (d + 1)
  <2>1. /\ k \in 1 .. n /\ k \in x + 1 .. y /\ k - 1 = x + d /\ x + d <= y
        /\ k <= n /\ x + d <= n
    BY <1>1
  <2>2. sq[k - 1] = Cat(sq[x], part(d))
    BY <1>7, <2>1
  <2>3. part(d + 1) = Append(part(d), text[k]) /\ text[k] \in Ch
    BY <1>5, <2>1
  <2> HIDE DEF k
  <2>4. sq[k] = Append(sq[k - 1], text[k])
    BY <1>2, <2>1
  <2>5. sq[x] \in V /\ part(d) \in V
    BY <1>1, <1>2, <1>4, <2>1
  <2>6. Cat(sq[x], Append(part(d), text[k])) = Append(Cat(sq[x], part(d)), text[k])
    BY <1>3, <2>3, <2>5
  <2> QED BY <2>2, <2>3, <2>4, <2>6 DEF k
<1>8. Nat \subseteq Done
  <2> HIDE DEF Done
  <2> QED BY <1>6, <1>7, SetInduction
<1>9. y - x \in Done /\ x + (y - x) = y /\ y - x \in Nat
  <2> HIDE DEF Done
  <2> QED BY <1>1, <1>8
<1>10. sq[y] = Cat(sq[x], part(y - x))
  BY <1>1, <1>9
<1>11. part(y - x) = SubSeq(text, x + 1, y)
  BY <1>9 DEF part
<1> QED BY <1>10, <1>11

\* t is the chunks at these places.
TextsAt(t, text, q, m, V) ==
    /\ t \in [1 .. m -> V] /\ Len(t) = m
    /\ \A i \in 1 .. m : t[i] = SubSeq(text, q[i][1], q[i][2])

\* The first i chunks are the text up to the end of the i-th, squeezed.
LEMMA ChunksSoFar ==
    ASSUME NEW Ch, NEW text \in Seq(Ch), NEW m \in Nat \ {0}, NEW q,
           InPlace(q, m, Kept(text), Len(text)), NEW t, TextsAt(t, text, q, m, Seq(Ch)),
           NEW f, FlatByChunk(f, t, m, Seq(Ch)),
           NEW sq, SqueezeByLetter(sq, text, Seq(Ch))
    PROVE  \A i \in 1 .. m : f[i] = sq[q[i][2]]
<1> DEFINE n == Len(text)
           K == Kept(text)
           Done == {k \in Nat : k + 1 <= m => f[k + 1] = sq[q[k + 1][2]]}
<1>1. n \in Nat /\ n = Len(text) /\ 1 \in 1 .. m
  BY LenProperties
<1>2. /\ \A i \in 1 .. m : /\ q[i][1] \in 1 .. n /\ q[i][2] \in 1 .. n
                           /\ q[i][1] <= q[i][2]
      /\ \A k \in 1 .. n : k \in K <=> \E i \in 1 .. m : q[i][1] <= k /\ k <= q[i][2]
  BY DEF InPlace
<1>3. /\ \A i \in 1 .. m : i # 1 =>
           /\ q[i - 1][2] \in Nat /\ q[i - 1][2] < q[i][1]
           /\ \A k \in q[i - 1][2] + 1 .. q[i][1] - 1 : k \notin K
      /\ \A k \in 1 .. q[1][1] - 1 : k \notin K
  BY <1>1, GapsAreEmpty
<1>4. /\ f[1] = t[1] /\ f \in [1 .. m -> Seq(Ch)]
      /\ \A i \in 1 .. m : i # 1 => f[i] = Cat(f[i - 1], t[i])
  BY DEF FlatByChunk
<1>5. /\ t \in [1 .. m -> Seq(Ch)]
      /\ \A i \in 1 .. m : t[i] = SubSeq(text, q[i][1], q[i][2])
  BY DEF TextsAt
<1>6. sq[0] = <<>> /\ sq \in [0 .. n -> Seq(Ch)]
  BY DEF SqueezeByLetter
<1> HIDE DEF n
<1>7. ASSUME NEW i \in 1 .. m
      PROVE  sq[q[i][2]] = Cat(sq[q[i][1] - 1], t[i])
  <2> DEFINE a == q[i][1]
             b == q[i][2]
             x == a - 1
  <2>1. a \in 1 .. n /\ b \in 1 .. n /\ a <= b
    BY <1>2
  <2>2. \A k \in a .. b : k \in K
    <3> TAKE k \in a .. b
    <3>1. k \in 1 .. n /\ a <= k /\ k <= b
      BY <1>1, <2>1
    <3> QED BY <1>2, <3>1
  <2>3. t[i] = SubSeq(text, a, b)
    BY <1>5
  <2> HIDE DEF a, b
  <2>4. x \in 0 .. Len(text) /\ b \in x .. Len(text) /\ x + 1 = a
    BY <1>1, <2>1
  <2> HIDE DEF x
  <2>5. sq[b] = Cat(sq[x], SubSeq(text, x + 1, b))
    BY <2>2, <2>4, AllKept
  <2>6. sq[b] = Cat(sq[x], t[i])
    BY <2>3, <2>4, <2>5
  <2> QED BY <2>6 DEF a, b, x
<1>8. f[1] = sq[q[1][2]]
  <2> DEFINE x == q[1][1] - 1
  <2>1. x \in 0 .. Len(text) /\ 0 \in 0 .. Len(text) /\ \A k \in 0 + 1 .. x : k \notin K
    BY <1>1, <1>2, <1>3
  <2>2. sq[q[1][2]] = Cat(sq[x], t[1])
    BY <1>1, <1>7
  <2> HIDE DEF x
  <2>3. sq[x] = sq[0]
    BY <2>1, NothingKept
  <2>4. t[1] \in Seq(Ch)
    BY <1>1, <1>5
  <2>5. Cat(<<>>, t[1]) = t[1]
    BY <2>4, CatNothing
  <2> QED BY <1>4, <1>6, <2>2, <2>3, <2>5
<1>9. ASSUME NEW i \in 1 .. m, i # 1, f[i - 1] = sq[q[i - 1][2]]
      PROVE  f[i] = sq[q[i][2]]
  <2> DEFINE x == q[i - 1][2]
             y == q[i][1] - 1
  <2>1. /\ x \in 0 .. Len(text) /\ y \in x .. Len(text)
        /\ \A k \in x + 1 .. y : k \notin K
    <3>1. /\ x \in Nat /\ x < q[i][1] /\ q[i][1] \in 1 .. n
          /\ \A k \in x + 1 .. q[i][1] - 1 : k \notin K
      BY <1>2, <1>3, <1>9
    <3> HIDE DEF x
    <3> QED BY <1>1, <3>1
  <2>2. sq[q[i][2]] = Cat(sq[y], t[i])
    BY <1>7
  <2> HIDE DEF y, x
  <2>3. sq[y] = sq[x]
    BY <2>1, NothingKept
  <2>4. f[i] = Cat(f[i - 1], t[i])
    BY <1>4, <1>9
  <2> QED BY <1>9, <2>2, <2>3, <2>4 DEF x
<1>10. 0 \in Done
  BY <1>8
<1>11. ASSUME NEW k \in Nat, k \in Done
       PROVE  k + 1 \in Done
  <2> SUFFICES ASSUME (k + 1) + 1 <= m
               PROVE  f[(k + 1) + 1] = sq[q[(k + 1) + 1][2]]
    OBVIOUS
  <2> DEFINE i == (k + 1) + 1
  <2>1. i \in 1 .. m /\ i # 1 /\ i - 1 = k + 1 /\ k + 1 <= m
    OBVIOUS
  <2>2. f[i - 1] = sq[q[i - 1][2]]
    BY <1>11, <2>1
  <2> HIDE DEF i
  <2>3. f[i] = sq[q[i][2]]
    BY <1>9, <2>1, <2>2
  <2> QED BY <2>3 DEF i
<1>12. Nat \subseteq Done
  <2> HIDE DEF Done
  <2> QED BY <1>10, <1>11, SetInduction
<1>13. ASSUME NEW i \in 1 .. m
       PROVE  f[i] = sq[q[i][2]]
  <2> DEFINE j == i - 1
  <2>1. j \in Nat /\ j + 1 = i /\ i <= m
    OBVIOUS
  <2> HIDE DEF j
  <2>2. j \in Done
    <3> HIDE DEF Done
    <3> QED BY <1>12, <2>1
  <2> QED BY <2>1, <2>2
<1> QED BY <1>13

\* The chunks at places that hold what is kept are the squeezed text.
LEMMA ChunksSqueezed ==
    ASSUME NEW Ch, NEW text \in Seq(Ch), NEW m \in Nat, NEW q,
           InPlace(q, m, Kept(text), Len(text)), NEW t, TextsAt(t, text, q, m, Seq(Ch))
    PROVE  FlattenSeq(t) = Squeezed(text)
<1> DEFINE n == Len(text)
<1>1. n \in Nat /\ n = Len(text)
  BY LenProperties
<1>2. PICK sq : SqueezeByLetter(sq, text, Seq(Ch))
  BY SqueezeSteps
<1>3. sq[0] = <<>> /\ sq[n] = Squeezed(text)
  BY <1>2 DEF SqueezeByLetter
<1>4. t \in [1 .. m -> Seq(Ch)] /\ Len(t) = m
  BY DEF TextsAt
<1> HIDE DEF n
<1>5. InPlace(q, m, Kept(text), n)
  BY <1>1
<1>6. CASE m = 0
  <2>1. FlattenSeq(t) = t /\ t = <<>>
    <3>1. t \in Seq(Seq(Ch))
      BY <1>4, IsASeq
    <3> QED BY <1>4, <1>6, <3>1, EmptySeq DEF FlattenSeq
  <2>2. \A k \in 0 + 1 .. n : k \notin Kept(text)
    BY <1>1, <1>5, <1>6, GapsAreEmpty
  <2>3. 0 \in 0 .. Len(text) /\ n \in 0 .. Len(text)
    BY <1>1
  <2>4. sq[n] = sq[0]
    BY <1>2, <2>2, <2>3, NothingKept
  <2> QED BY <1>3, <2>1, <2>4
<1>7. CASE m # 0
  <2>1. m \in Nat \ {0} /\ m \in 1 .. m
    BY <1>7
  <2>2. PICK f : FlatByChunk(f, t, m, Seq(Ch))
    BY <1>4, <2>1, FlatSteps
  <2>3. f[m] = sq[q[m][2]]
    BY <1>2, <2>1, <2>2, ChunksSoFar
  <2>4. f[m] = FlattenSeq(t)
    BY <2>2 DEF FlatByChunk
  <2> DEFINE x == q[m][2]
  <2>5. /\ x \in 0 .. Len(text) /\ n \in x .. Len(text)
        /\ \A k \in x + 1 .. n : k \notin Kept(text)
    <3>1. x \in 1 .. n
      BY <1>5, <2>1 DEF InPlace
    <3>2. \A k \in x + 1 .. n : k \notin Kept(text)
      BY <1>1, <1>5, <1>7, GapsAreEmpty
    <3> QED BY <1>1, <3>1, <3>2
  <2> HIDE DEF x
  <2>6. sq[n] = sq[x]
    BY <1>2, <2>5, NothingKept
  <2> QED BY <1>3, <2>3, <2>4, <2>6 DEF x
<1> QED BY <1>6, <1>7

(* SplitsWhole. *)

\* ChunkingService.split, for every text: see SplitsWhole.
THEOREM SplitKeepsText ==
    ASSUME NEW Ch, NEW text \in Seq(Ch)
    PROVE  SplitsWhole(text)
<1> DEFINE s == Strip(text)
           n == Len(s)
           N == Len(text)
           pl == SplitPlaces(s)
           m == Len(pl)
           t == [i \in 1 .. m |-> SubSeq(s, pl[i][1], pl[i][2])]
<1>1. /\ s \in Seq(Ch) /\ Stripped(s)
      /\ Len(s) = 0 <=> Blank(text)
  BY StripFacts
<1>2. PICK d : PartOf(s, text, d)
  BY StripFacts
<1>3. Split(text) = [i \in DOMAIN pl |-> SubSeq(s, pl[i][1], pl[i][2])]
  BY DEF Split
<1> HIDE DEF s
<1>4. /\ n \in Nat /\ n = Len(s) /\ N \in Nat
      /\ InPlace(pl, m, Kept(s), n) /\ DOMAIN pl = 1 .. m
      /\ \A i \in 1 .. m : pl[i] \in Places(s)
  BY <1>1, LenProperties, SplitInPlace
<1>5. RightLengths(Places(s), s)
  BY <1>1, PlacesFacts
<1> HIDE DEF pl
<1>6. /\ m \in Nat
      /\ \A i \in 1 .. m : /\ pl[i][1] \in 1 .. n /\ pl[i][2] \in 1 .. n
                           /\ pl[i][1] <= pl[i][2]
      /\ \A i, j \in 1 .. m : i < j => pl[i][2] < pl[j][1]
      /\ \A k \in 1 .. n : k \in Kept(s) <=>
           \E i \in 1 .. m : pl[i][1] <= k /\ k <= pl[i][2]
  BY <1>4 DEF InPlace
<1>7. \A i \in 1 .. m : /\ pl[i][2] - pl[i][1] < 2 * MaxChars
                        /\ IsSpace(s[pl[i][1]]) => pl[i][2] - pl[i][1] < MaxChars
  BY <1>4, <1>5 DEF RightLengths
<1> HIDE DEF m
<1>8. /\ d \in Nat /\ d + n <= N
      /\ \A i, j \in 1 .. n : SubSeq(s, i, j) = SubSeq(text, d + i, d + j)
      /\ \A k \in 1 .. N : k \in Kept(text) <=> k - d \in Kept(s)
  BY <1>2 DEF PartOf
<1>9. \A k : k \in Kept(s) => k \in 1 .. n
  BY DEF Kept
<1> HIDE DEF n, N
<1>10. Split(text) = t
  BY <1>3, <1>4
<1>11. ASSUME NEW i \in 1 .. m
       PROVE  /\ t[i] = SubSeq(s, pl[i][1], pl[i][2]) /\ t[i] \in Seq(Ch)
              /\ Len(t[i]) = pl[i][2] - pl[i][1] + 1
              /\ Blank(t[i]) => IsSpace(s[pl[i][1]])
  <2> DEFINE a == pl[i][1]
             b == pl[i][2]
             y == SubSeq(s, a, b)
  <2>1. a \in 1 .. n /\ b \in 1 .. n /\ a <= b
    BY <1>6
  <2>2. t[i] = y
    OBVIOUS
  <2> HIDE DEF a, b
  <2>3. a \in 1 .. Len(s) + 1 /\ b \in 0 .. Len(s) /\ a \in a .. b
    BY <1>4, <2>1
  <2>4. y \in Seq(Ch) /\ Len(y) = b - a + 1
    BY <1>1, <2>1, <2>3, SubSeqInside
  <2>5. Blank(y) => IsSpace(s[a])
    BY <1>1, <2>3, BlankPart
  <2> QED BY <2>2, <2>4, <2>5 DEF a, b
<1>12. t \in [1 .. m -> Seq(Ch)]
  BY <1>11
<1> HIDE DEF t
<1>13. Len(t) = m
  <2> DEFINE V == Seq(Ch)
  <2>1. t \in [1 .. m -> V]
    BY <1>12
  <2> HIDE DEF V
  <2> QED BY <1>6, <2>1
<1> DEFINE q == [i \in 1 .. m |-> <<d + pl[i][1], d + pl[i][2]>>]
<1>14. \A i \in 1 .. m : q[i][1] = d + pl[i][1] /\ q[i][2] = d + pl[i][2]
  OBVIOUS
<1> HIDE DEF q
<1>15. InPlace(q, m, Kept(text), N)
  <2>0. d \in Nat /\ n \in Nat /\ N \in Nat /\ d + n <= N
    BY <1>4, <1>8
  <2>1. ASSUME NEW i \in 1 .. m
        PROVE  q[i][1] \in 1 .. N /\ q[i][2] \in 1 .. N /\ q[i][1] <= q[i][2]
    <3>1. pl[i][1] \in 1 .. n /\ pl[i][2] \in 1 .. n /\ pl[i][1] <= pl[i][2]
      BY <1>6
    <3>2. q[i][1] = d + pl[i][1] /\ q[i][2] = d + pl[i][2]
      BY <1>14
    <3> QED BY <2>0, <3>1, <3>2
  <2>2. ASSUME NEW i \in 1 .. m, NEW j \in 1 .. m, i < j
        PROVE  q[i][2] < q[j][1]
    <3>1. pl[i][2] \in 1 .. n /\ pl[j][1] \in 1 .. n /\ pl[i][2] < pl[j][1]
      BY <1>6, <2>2
    <3>2. q[i][2] = d + pl[i][2] /\ q[j][1] = d + pl[j][1]
      BY <1>14
    <3> QED BY <2>0, <3>1, <3>2
  <2>3. ASSUME NEW k \in 1 .. N
        PROVE  k \in Kept(text) <=> \E i \in 1 .. m : q[i][1] <= k /\ k <= q[i][2]
    <3> DEFINE h == k - d
    <3>1. h \in Int /\ k = d + h /\ (k \in Kept(text) <=> h \in Kept(s))
      BY <1>4, <1>8
    <3> HIDE DEF h
    <3>2. \A i \in 1 .. m : /\ q[i][1] <= k <=> pl[i][1] <= h
                            /\ k <= q[i][2] <=> h <= pl[i][2]
      BY <1>4, <1>6, <1>8, <1>14, <3>1
    <3>3. (\E i \in 1 .. m : pl[i][1] <= h /\ h <= pl[i][2]) => h \in 1 .. n
      BY <1>4, <1>6, <3>1
    <3> QED BY <1>6, <1>9, <3>1, <3>2, <3>3
  <2> QED BY <1>6, <2>1, <2>2, <2>3 DEF InPlace
<1>16. TextsAt(t, text, q, m, Seq(Ch))
  <2>1. \A i \in 1 .. m : t[i] = SubSeq(text, q[i][1], q[i][2])
    BY <1>6, <1>8, <1>11, <1>14
  <2> QED BY <1>12, <1>13, <2>1 DEF TextsAt
<1>17. FlattenSeq(t) = Squeezed(text)
  BY <1>6, <1>15, <1>16, ChunksSqueezed DEF N
<1>18. ASSUME NEW i \in 1 .. m
       PROVE  /\ Len(t[i]) \in 1 .. 2 * MaxChars
              /\ Blank(t[i]) => Len(t[i]) <= MaxChars
  <2> DEFINE a == pl[i][1]
             b == pl[i][2]
  <2>1. /\ a \in 1 .. n /\ b \in 1 .. n /\ a <= b /\ b - a < 2 * MaxChars
        /\ Len(t[i]) = b - a + 1
        /\ Blank(t[i]) => b - a < MaxChars
    BY <1>6, <1>7, <1>11
  <2> HIDE DEF a, b
  <2> QED BY <1>4, <2>1, ChunkingAssumption
<1>19. t = <<>> <=> Blank(text)
  <2>1. t = <<>> <=> m = 0
    BY <1>13
  <2>2. n = 0 => m = 0
    BY <1>6
  <2>3. n # 0 => m # 0
    <3> SUFFICES ASSUME n # 0, m = 0
                 PROVE  FALSE
      OBVIOUS
    <3>1. 1 \in 1 .. n /\ 1 \in 1 .. Len(s) /\ Len(s) > 0
      BY <1>4
    <3>2. ~IsSpace(s[1])
      BY <1>1, <3>1 DEF Stripped
    <3>3. 1 \in Kept(s)
      BY <1>1, <3>1, <3>2, SeparatesIs DEF Kept
    <3> QED BY <1>6, <3>1, <3>3
  <2> QED BY <1>1, <1>4, <2>1, <2>2, <2>3
<1>20. DOMAIN t = 1 .. m
  BY <1>12
<1> QED BY <1>10, <1>17, <1>18, <1>19, <1>20 DEF SplitsWhole

=============================================================================
