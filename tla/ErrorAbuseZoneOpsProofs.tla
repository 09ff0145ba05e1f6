----------------------- MODULE ErrorAbuseZoneOpsProofs -----------------------
(***************************************************************************)
(* What the operations of ErrorAbuseZoneOps do to a zone, whatever the     *)
(* component that calls them: the lemmas the proofs about the zone, the    *)
(* requests and the snapshots share.                                       *)
(***************************************************************************)
EXTENDS ErrorAbuseSnapshot, SequenceTheorems, WellFoundedInduction, TLAPS

-----------------------------------------------------------------------------
(***************************************************************************)
(* Naturals, runs of indices and spliced sequences.                        *)
(***************************************************************************)

\* A nonempty set of naturals has a least element.
LEMMA LeastNatural ==
    ASSUME NEW S \in SUBSET Nat, S # {}
    PROVE  \E m \in S : \A n \in S : m <= n
<1> DEFINE R == OpToRel(<, Nat)
<1>1. R = {ss \in Nat \X Nat : ss[1] < ss[2]}
  BY Zenon DEF OpToRel
<1>2. \A a, b \in Nat : a < b => <<a, b>> \in R
  BY <1>1
<1>3. IsWellFoundedOn(R, Nat)
  BY NatLessThanWellFounded
<1> HIDE DEF R
<1>4. PICK m \in S : \A n \in S : <<n, m>> \notin R
  BY <1>3, WFMin
<1>5. \A n \in S : ~ (n < m)
  <2> SUFFICES ASSUME NEW n \in S, n < m PROVE FALSE
    BY Zenon
  <2> QED
    BY <1>2, <1>4, Zenon
<1>6. \A n \in S : m <= n
  BY <1>5
<1> QED
  BY <1>6, Zenon

\* Induction up to n, on membership in a set.
LEMMA UpTo ==
    ASSUME NEW n \in Nat, NEW S, 0 \in S,
           \A m \in 1 .. n : m - 1 \in S => m \in S
    PROVE  \A m \in 0 .. n : m \in S
<1> DEFINE Bad == {m \in 0 .. n : m \notin S}
<1>1. SUFFICES ASSUME Bad # {} PROVE FALSE
  BY Zenon
<1>2. Bad \in SUBSET Nat
  OBVIOUS
<1>3. PICK m \in Bad : \A k \in Bad : m <= k
  BY <1>1, <1>2, LeastNatural, Zenon
<1>4. m \in 1 .. n /\ m - 1 \in 0 .. n
  BY <1>3
<1>5. m - 1 \notin Bad
  BY <1>3, <1>4
<1> QED
  BY <1>3, <1>4, <1>5

\* A walk over positions n, n - 1, ... that goes on while the position is in
\* G ends after some number m of steps, at most limit.
LEMMA TailRun ==
    ASSUME NEW n \in Nat, NEW limit \in Nat, NEW G
    PROVE  \E m \in 0 .. n :
               /\ m <= limit
               /\ \A i \in n - m + 1 .. n : i \in G
               /\ m = limit \/ m = n \/ n - m \notin G
<1> DEFINE S == {m \in 0 .. n : m = limit \/ m = n \/ n - m \notin G}
<1>1. S \in SUBSET Nat /\ n \in S
  OBVIOUS
<1>2. PICK m \in 0 .. n : m \in S /\ \A x \in S : m <= x
  BY <1>1, LeastNatural
<1>3. m <= limit
  <2>1. CASE limit <= n
    <3>1. limit \in S
      BY <2>1
    <3> QED
      BY <3>1, <1>2
  <2>2. CASE limit > n
    BY <2>2
  <2> QED
    BY <2>1, <2>2
<1>4. ASSUME NEW i \in n - m + 1 .. n PROVE i \in G
  <2>1. n - i \in 0 .. n /\ n - i < m /\ n - (n - i) = i
    OBVIOUS
  <2>2. n - i \notin S
    <3> SUFFICES ASSUME n - i \in S PROVE FALSE
      OBVIOUS
    <3>1. m <= n - i
      BY <1>2, Zenon
    <3> QED
      BY <2>1, <3>1
  <2> QED
    BY <2>1, <2>2
<1>5. m = limit \/ m = n \/ n - m \notin G
  BY <1>2
<1> QED
  BY <1>3, <1>4, <1>5, Zenon

\* The same walk over positions 1, 2, ..., without a limit.
LEMMA HeadRun ==
    ASSUME NEW n \in Nat, NEW G
    PROVE  \E m \in 0 .. n :
               /\ \A i \in 1 .. m : i \in G
               /\ m < n => m + 1 \notin G
<1> DEFINE S == {m \in 0 .. n : m < n => m + 1 \notin G}
<1>1. S \in SUBSET Nat /\ n \in S
  OBVIOUS
<1>2. PICK m \in 0 .. n : m \in S /\ \A x \in S : m <= x
  BY <1>1, LeastNatural
<1>3. ASSUME NEW i \in 1 .. m PROVE i \in G
  <2>1. i - 1 \in 0 .. n /\ i - 1 < m /\ (i - 1) + 1 = i
    OBVIOUS
  <2>2. i - 1 \notin S
    BY <2>1, <1>2
  <2> QED
    BY <2>1, <2>2
<1> QED
  BY <1>2, <1>3

\* The elements of a sequence, by position.
Elems(q) == {q[i] : i \in 1 .. Len(q)}

Distinct(q) == \A i, j \in 1 .. Len(q) : q[i] = q[j] => i = j

\* A prefix keeps its positions.
LEMMA PrefixFacts ==
    ASSUME NEW S, NEW q \in Seq(S), NEW j \in 0 .. Len(q)
    PROVE  /\ SubSeq(q, 1, j) \in Seq(S)
           /\ Len(SubSeq(q, 1, j)) = j
           /\ \A x \in 1 .. j : SubSeq(q, 1, j)[x] = q[x]
<1>1. \A x \in 1 .. j : q[x] \in S
  BY ElementOfSeq
<1> QED
  BY <1>1, SubSeqProperties

\* A suffix shifts its positions.
LEMMA SuffixFacts ==
    ASSUME NEW S, NEW q \in Seq(S), NEW i \in 0 .. Len(q)
    PROVE  /\ SubSeq(q, i + 1, Len(q)) \in Seq(S)
           /\ Len(SubSeq(q, i + 1, Len(q))) = Len(q) - i
           /\ \A x \in 1 .. Len(q) - i :
                  SubSeq(q, i + 1, Len(q))[x] = q[x + i]
<1>1. \A x \in i + 1 .. Len(q) : q[x] \in S
  BY ElementOfSeq
<1>2. i + 1 \in Int /\ Len(q) \in Int
  BY LenProperties
<1>3. /\ SubSeq(q, i + 1, Len(q)) \in Seq(S)
      /\ Len(SubSeq(q, i + 1, Len(q)))
             = IF i + 1 <= Len(q) THEN Len(q) - (i + 1) + 1 ELSE 0
      /\ \A x \in 1 .. Len(q) - (i + 1) + 1 :
             SubSeq(q, i + 1, Len(q))[x] = q[(i + 1) + x - 1]
  BY <1>1, <1>2, SubSeqProperties
<1> QED
  BY <1>2, <1>3

\* The sequence s lists the positions of q outside gone, each once, in the
\* order f.
Reindexes(s, q, gone, f) ==
    /\ f \in [1 .. Len(s) -> (1 .. Len(q)) \ gone]
    /\ \A x \in 1 .. Len(s) : s[x] = q[f[x]]
    /\ \A x, y \in 1 .. Len(s) : f[x] = f[y] => x = y
    /\ \A y \in (1 .. Len(q)) \ gone : \E x \in 1 .. Len(s) : f[x] = y
    /\ gone \subseteq 1 .. Len(q)

\* Such a list has no duplicates if q has none, and lacks only those members.
LEMMA ReindexFacts ==
    ASSUME NEW q, NEW s, NEW gone, NEW f,
           Distinct(q), Reindexes(s, q, gone, f)
    PROVE  /\ Distinct(s)
           /\ Elems(s) = Elems(q) \ {q[x] : x \in gone}
<1> DEFINE n == Len(q)
           m == Len(s)
<1>0. /\ f \in [1 .. m -> (1 .. n) \ gone]
      /\ \A x \in 1 .. m : s[x] = q[f[x]]
      /\ \A x, y \in 1 .. m : f[x] = f[y] => x = y
      /\ \A y \in (1 .. n) \ gone : \E x \in 1 .. m : f[x] = y
      /\ gone \subseteq 1 .. n
  BY Zenon DEF Reindexes
<1>1. \A x, y \in 1 .. n : q[x] = q[y] => x = y
  BY Zenon DEF Distinct
<1>2. Distinct(s)
  <2> SUFFICES ASSUME NEW x \in 1 .. m, NEW y \in 1 .. m, s[x] = s[y]
               PROVE  x = y
    BY Zenon DEF Distinct
  <2>1. f[x] \in 1 .. n /\ f[y] \in 1 .. n /\ q[f[x]] = q[f[y]]
    BY <1>0, Zenon
  <2> QED
    BY <1>0, <1>1, <2>1, Zenon
<1>3. ASSUME NEW e \in Elems(s)
      PROVE  e \in Elems(q) \ {q[x] : x \in gone}
  <2>1. PICK x \in 1 .. m : e = s[x]
    BY Zenon DEF Elems
  <2>2. f[x] \in 1 .. n /\ f[x] \notin gone /\ e = q[f[x]]
    BY <1>0, <2>1, Zenon
  <2>3. e \in Elems(q)
    BY <2>2, Zenon DEF Elems
  <2>4. \A y \in gone : e # q[y]
    BY <1>0, <1>1, <2>2, Zenon
  <2> QED
    BY <2>3, <2>4, Zenon
<1>4. ASSUME NEW e \in Elems(q) \ {q[x] : x \in gone}
      PROVE  e \in Elems(s)
  <2>1. PICK y \in 1 .. n : e = q[y]
    BY Zenon DEF Elems
  <2>2. y \notin gone
    BY <2>1, Zenon
  <2>3. PICK x \in 1 .. m : f[x] = y
    BY <1>0, <2>2, Zenon
  <2>4. e = s[x]
    BY <1>0, <2>1, <2>3, Zenon
  <2> QED
    BY <2>4, Zenon DEF Elems
<1> QED
  BY <1>2, <1>3, <1>4, Zenon

\* What is left of q without the members j + 1 .. i, whichever of the two
\* pieces comes first.
PiecesOf(s, q, i, j) ==
    \/ s = SubSeq(q, i + 1, Len(q)) \o SubSeq(q, 1, j)
    \/ s = SubSeq(q, 1, j) \o SubSeq(q, i + 1, Len(q))

\* The members of q at the positions a .. b.
Segment(q, a, b) == {q[x] : x \in a .. b}

\* Taking members out of a list without duplicates.
LEMMA PiecesFacts ==
    ASSUME NEW S, NEW q \in Seq(S), Distinct(q),
           NEW i \in 0 .. Len(q), NEW j \in 0 .. i,
           NEW s, PiecesOf(s, q, i, j)
    PROVE  /\ s \in Seq(S)
           /\ Len(s) = Len(q) - i + j
           /\ Distinct(s)
           /\ Elems(s) = Elems(q) \ Segment(q, j + 1, i)
<1>1. PICK n \in Nat : n = Len(q)
  BY LenProperties
<1>2. PICK a \in Seq(S) : /\ a = SubSeq(q, i + 1, Len(q)) /\ Len(a) = n - i
                           /\ \A x \in 1 .. n - i : a[x] = q[x + i]
  <2> DEFINE c == SubSeq(q, i + 1, Len(q))
  <2>1. /\ c \in Seq(S) /\ Len(c) = Len(q) - i
        /\ \A x \in 1 .. Len(q) - i : c[x] = q[x + i]
    BY SuffixFacts
  <2> HIDE DEF c
  <2>2. c \in Seq(S) /\ Len(c) = n - i /\ \A x \in 1 .. n - i : c[x] = q[x + i]
    BY <1>1, <2>1
  <2> QED
    BY <2>2, Zenon DEF c
<1>3. PICK b \in Seq(S) : /\ b = SubSeq(q, 1, j) /\ Len(b) = j
                           /\ \A x \in 1 .. j : b[x] = q[x]
  <2>1. j \in 0 .. Len(q)
    BY <1>1
  <2> QED
    BY <2>1, PrefixFacts
<1>4. i \in 0 .. n /\ j \in 0 .. n /\ j <= i /\ n - i + j \in Nat
  BY <1>1
<1> DEFINE gone == j + 1 .. i
           m == n - i + j
<1>5. CASE s = a \o b
  <2>1. /\ s \in Seq(S) /\ Len(s) = m
        /\ \A x \in 1 .. m : s[x] = IF x <= n - i THEN a[x] ELSE b[x - (n - i)]
    <3>1. /\ a \o b \in Seq(S) /\ Len(a \o b) = Len(a) + Len(b)
          /\ \A x \in 1 .. Len(a) + Len(b) :
                 (a \o b)[x] = IF x <= Len(a) THEN a[x] ELSE b[x - Len(a)]
      BY ConcatProperties, Zenon
    <3>2. Len(a) = n - i /\ Len(b) = j /\ Len(a) + Len(b) = m
      BY <1>2, <1>3, <1>4
    <3> HIDE DEF m
    <3> QED
      BY <1>5, <3>1, <3>2, Zenon
  <2> DEFINE f == [x \in 1 .. m |-> IF x <= n - i THEN x + i ELSE x - (n - i)]
  <2>2. f \in [1 .. m -> (1 .. n) \ gone]
    BY <1>4
  <2>3. \A x \in 1 .. m : s[x] = q[f[x]]
    <3> SUFFICES ASSUME NEW x \in 1 .. m PROVE s[x] = q[f[x]]
      OBVIOUS
    <3>1. CASE x <= n - i
      <4>1. x \in 1 .. n - i /\ s[x] = a[x]
        BY <1>4, <2>1, <3>1
      <4> QED
        BY <4>1, <1>2, <1>3, <3>1
    <3>2. CASE ~ (x <= n - i)
      <4>1. x - (n - i) \in 1 .. j /\ s[x] = b[x - (n - i)]
        BY <1>4, <2>1, <3>2
      <4>2. b[x - (n - i)] = q[f[x]]
        BY <4>1, <1>2, <1>3, <1>4, <3>2
      <4> QED
        BY <4>1, <4>2
    <3> QED
      BY <3>1, <3>2
  <2>4. \A x, y \in 1 .. m : f[x] = f[y] => x = y
    BY <1>4
  <2>5. \A y \in (1 .. n) \ gone : \E x \in 1 .. m : f[x] = y
    <3> SUFFICES ASSUME NEW y \in (1 .. n) \ gone
                 PROVE  \E x \in 1 .. m : f[x] = y
      OBVIOUS
    <3>1. CASE y <= j
      <4>1. y + (n - i) \in 1 .. m /\ f[y + (n - i)] = y
        BY <1>4, <3>1
      <4> QED
        BY <4>1
    <3>2. CASE y > i
      <4>1. y - i \in 1 .. m /\ f[y - i] = y
        BY <1>4, <3>2
      <4> QED
        BY <4>1
    <3> QED
      BY <1>4, <3>1, <3>2
  <2>6. gone \in SUBSET (1 .. n) /\ m \in Nat /\ Len(q) = n /\ Len(s) = m
    BY <1>1, <1>4, <2>1
  <2> HIDE DEF f, gone, m
  <2>7. Reindexes(s, q, gone, f)
    BY <2>2, <2>3, <2>4, <2>5, <2>6, Zenon DEF Reindexes
  <2>8. Distinct(s) /\ Elems(s) = Elems(q) \ {q[x] : x \in gone}
    BY <2>7, ReindexFacts, Zenon
  <2> QED
    BY <1>1, <2>1, <2>8, Zenon DEF gone, m, Segment
<1>6. CASE s = b \o a
  <2>1. /\ s \in Seq(S) /\ Len(s) = m
        /\ \A x \in 1 .. m : s[x] = IF x <= j THEN b[x] ELSE a[x - j]
    <3>1. /\ b \o a \in Seq(S) /\ Len(b \o a) = Len(b) + Len(a)
          /\ \A x \in 1 .. Len(b) + Len(a) :
                 (b \o a)[x] = IF x <= Len(b) THEN b[x] ELSE a[x - Len(b)]
      BY ConcatProperties, Zenon
    <3>2. Len(b) = j /\ Len(a) = n - i
      BY <1>2, <1>3, Zenon
    <3>3. Len(b) + Len(a) = m
      BY <1>4, <3>2
    <3> HIDE DEF m
    <3> QED
      BY <1>6, <3>1, <3>2, <3>3, Zenon
  <2> DEFINE f == [x \in 1 .. m |-> IF x <= j THEN x ELSE x - j + i]
  <2>2. f \in [1 .. m -> (1 .. n) \ gone]
    BY <1>4
  <2>3. \A x \in 1 .. m : s[x] = q[f[x]]
    <3> SUFFICES ASSUME NEW x \in 1 .. m PROVE s[x] = q[f[x]]
      OBVIOUS
    <3>1. CASE x <= j
      <4>1. x \in 1 .. j /\ s[x] = b[x]
        BY <1>4, <2>1, <3>1
      <4> QED
        BY <4>1, <1>2, <1>3, <3>1
    <3>2. CASE ~ (x <= j)
      <4>1. x - j \in 1 .. n - i /\ s[x] = a[x - j]
        BY <1>4, <2>1, <3>2
      <4>2. a[x - j] = q[f[x]]
        BY <4>1, <1>2, <1>3, <1>4, <3>2
      <4> QED
        BY <4>1, <4>2
    <3> QED
      BY <3>1, <3>2
  <2>4. \A x, y \in 1 .. m : f[x] = f[y] => x = y
    BY <1>4
  <2>5. \A y \in (1 .. n) \ gone : \E x \in 1 .. m : f[x] = y
    <3> SUFFICES ASSUME NEW y \in (1 .. n) \ gone
                 PROVE  \E x \in 1 .. m : f[x] = y
      OBVIOUS
    <3>1. CASE y <= j
      <4>1. y \in 1 .. m /\ f[y] = y
        BY <1>4, <3>1
      <4> QED
        BY <4>1
    <3>2. CASE y > i
      <4>1. y - i + j \in 1 .. m /\ f[y - i + j] = y
        BY <1>4, <3>2
      <4> QED
        BY <4>1
    <3> QED
      BY <1>4, <3>1, <3>2
  <2>6. gone \in SUBSET (1 .. n) /\ m \in Nat /\ Len(q) = n /\ Len(s) = m
    BY <1>1, <1>4, <2>1
  <2> HIDE DEF f, gone, m
  <2>7. Reindexes(s, q, gone, f)
    BY <2>2, <2>3, <2>4, <2>5, <2>6, Zenon DEF Reindexes
  <2>8. Distinct(s) /\ Elems(s) = Elems(q) \ {q[x] : x \in gone}
    BY <2>7, ReindexFacts, Zenon
  <2> QED
    BY <1>1, <2>1, <2>8, Zenon DEF gone, m, Segment
<1> QED
  BY <1>2, <1>3, <1>5, <1>6, Zenon DEF PiecesOf

\* Cutting the tail off a list without duplicates.
LEMMA CutFacts ==
    ASSUME NEW S, NEW q \in Seq(S), Distinct(q), NEW j \in 0 .. Len(q)
    PROVE  /\ SubSeq(q, 1, j) \in Seq(S)
           /\ Len(SubSeq(q, 1, j)) = j
           /\ Distinct(SubSeq(q, 1, j))
           /\ Elems(SubSeq(q, 1, j))
                  = Elems(q) \ {q[x] : x \in j + 1 .. Len(q)}
<1> DEFINE s == SubSeq(q, 1, j)
           f == [x \in 1 .. j |-> x]
           gone == j + 1 .. Len(q)
<1>1. Len(q) \in Nat
  BY LenProperties
<1>2. s \in Seq(S) /\ Len(s) = j /\ \A x \in 1 .. j : s[x] = q[x]
  BY PrefixFacts
<1> HIDE DEF s
<1>3. Reindexes(s, q, gone, f)
  BY <1>1, <1>2 DEF Reindexes
<1>4. Distinct(s) /\ Elems(s) = Elems(q) \ {q[x] : x \in gone}
  BY <1>3, ReindexFacts
<1> QED
  BY <1>2, <1>4 DEF s

\* A new head in front of a list that does not contain it.
LEMMA ConsFacts ==
    ASSUME NEW S, NEW q \in Seq(S), NEW k \in S, Distinct(q), k \notin Elems(q)
    PROVE  /\ <<k>> \o q \in Seq(S)
           /\ Len(<<k>> \o q) = Len(q) + 1
           /\ Distinct(<<k>> \o q)
           /\ Elems(<<k>> \o q) = Elems(q) \cup {k}
<1> DEFINE s == <<k>> \o q
<1>1. /\ <<k>> \in Seq(S) /\ Len(<<k>>) = 1 /\ <<k>>[1] = k
      /\ Len(q) \in Nat
  BY LenProperties
<1>2. /\ s \in Seq(S) /\ Len(s) = Len(q) + 1
      /\ \A x \in 1 .. Len(q) + 1 : s[x] = IF x <= 1 THEN <<k>>[x] ELSE q[x - 1]
  BY <1>1, ConcatProperties
<1>3. \A x \in 1 .. Len(q) + 1 : s[x] = IF x = 1 THEN k ELSE q[x - 1]
  BY <1>1, <1>2
<1> HIDE DEF s
<1>4. Distinct(s)
  <2> SUFFICES ASSUME NEW x \in 1 .. Len(q) + 1, NEW y \in 1 .. Len(q) + 1,
                      s[x] = s[y]
               PROVE  x = y
    BY <1>2 DEF Distinct
  <2>1. \A z \in 1 .. Len(q) : q[z] # k
    BY DEF Elems
  <2>2. CASE x = 1 \/ y = 1
    BY <1>1, <1>3, <2>1, <2>2
  <2>3. CASE x # 1 /\ y # 1
    <3>1. x - 1 \in 1 .. Len(q) /\ y - 1 \in 1 .. Len(q)
      BY <1>1, <2>3
    <3>2. q[x - 1] = q[y - 1]
      BY <1>3, <2>3
    <3>3. x - 1 = y - 1
      BY <3>1, <3>2 DEF Distinct
    <3> QED
      BY <1>1, <3>3
  <2> QED
    BY <2>2, <2>3
<1>5. \A y \in 1 .. Len(q) : y + 1 \in 1 .. Len(s) /\ s[y + 1] = q[y]
  BY <1>1, <1>2, <1>3
<1>6. 1 \in 1 .. Len(s) /\ s[1] = k
  BY <1>1, <1>2, <1>3
<1>7. \A x \in 1 .. Len(s) : s[x] = k \/ \E y \in 1 .. Len(q) : s[x] = q[y]
  BY <1>1, <1>2, <1>3
<1>8. Elems(s) = Elems(q) \cup {k}
  BY <1>5, <1>6, <1>7 DEF Elems
<1> QED
  BY <1>2, <1>4, <1>8 DEF s

-----------------------------------------------------------------------------
(***************************************************************************)
(* The operators that choose how far a walk goes are well defined.         *)
(***************************************************************************)

\* ExpireRun is what expire()'s loop computes.
LEMMA ExpireRunFacts ==
    ASSUME NEW z, IsZone(z), NEW t \in Int, NEW limit \in Nat
    PROVE  LET m == ExpireRun(z, t, limit)
               n == Len(z.queue)
           IN  /\ m \in 0 .. n
               /\ m <= limit
               /\ \A i \in n - m + 1 .. n : Expirable(z.node[z.queue[i]], t)
<1> DEFINE n == Len(z.queue)
           G == {i \in 1 .. n : Expirable(z.node[z.queue[i]], t)}
<1>1. n \in Nat
  BY LenProperties DEF IsZone
<1>2. PICK m \in 0 .. n :
          /\ m <= limit
          /\ \A i \in n - m + 1 .. n : i \in G
          /\ m = limit \/ m = n \/ n - m \notin G
  BY <1>1, TailRun
<1>3. /\ m <= limit
      /\ \A i \in n - m + 1 .. n : Expirable(z.node[z.queue[i]], t)
      /\ m = limit \/ m = n \/ ~ Expirable(z.node[z.queue[n - m]], t)
  BY <1>1, <1>2
<1> HIDE DEF G
<1> QED
  BY <1>3, Zenon DEF ExpireRun

\* BannedRun is the number of bans evict_one_unblocked() passes over.
LEMMA BannedRunFacts ==
    ASSUME NEW z, IsZone(z), NEW t \in Int
    PROVE  LET m == BannedRun(z, t)
               n == Len(z.queue)
           IN  /\ m \in 0 .. n
               /\ m <= EvictScanLimit
               /\ \A i \in n - m + 1 .. n : Banned(z.node[z.queue[i]], t)
               /\ \/ m = EvictScanLimit
                  \/ m = n
                  \/ ~ Banned(z.node[z.queue[n - m]], t)
<1> DEFINE n == Len(z.queue)
           G == {i \in 1 .. n : Banned(z.node[z.queue[i]], t)}
<1>1. n \in Nat /\ EvictScanLimit \in Nat
  BY LenProperties, ZoneLimits DEF IsZone
<1>2. PICK m \in 0 .. n :
          /\ m <= EvictScanLimit
          /\ \A i \in n - m + 1 .. n : i \in G
          /\ m = EvictScanLimit \/ m = n \/ n - m \notin G
  BY <1>1, TailRun
<1>3. /\ m <= EvictScanLimit
      /\ \A i \in n - m + 1 .. n : Banned(z.node[z.queue[i]], t)
      /\ m = EvictScanLimit \/ m = n \/ ~ Banned(z.node[z.queue[n - m]], t)
  BY <1>1, <1>2
<1> HIDE DEF G
<1> QED
  BY <1>3, Zenon DEF BannedRun

\* StaleRun is the number of entries prune_events() drops.
LEMMA StaleRunFacts ==
    ASSUME NEW e \in Seq(Int), NEW t \in Int
    PROVE  LET m == StaleRun(e, t)
           IN  /\ m \in 0 .. Len(e)
               /\ \A i \in 1 .. m : e[i] <= t - Interval
               /\ m < Len(e) => e[m + 1] > t - Interval
<1> DEFINE n == Len(e)
           G == {i \in 1 .. n : e[i] <= t - Interval}
<1>1. n \in Nat /\ Interval \in Nat /\ \A i \in 1 .. n : e[i] \in Int
  BY LenProperties, ElementOfSeq, ZoneParameters
<1>2. PICK m \in 0 .. n :
          /\ \A i \in 1 .. m : i \in G
          /\ m < n => m + 1 \notin G
  BY <1>1, HeadRun
<1>3. /\ \A i \in 1 .. m : e[i] <= t - Interval
      /\ m < n => e[m + 1] > t - Interval
  BY <1>1, <1>2
<1> HIDE DEF G
<1> QED
  BY <1>3, Zenon DEF StaleRun

-----------------------------------------------------------------------------
(***************************************************************************)
(* What the operations on the list and the tree do to a well-linked zone.  *)
(***************************************************************************)

\* y has only nodes of z, unchanged.
Keeps(z, y) ==
    /\ DOMAIN y.node \subseteq DOMAIN z.node
    /\ \A k \in DOMAIN y.node : y.node[k] = z.node[k]

GoodZone(z) == IsZone(z) /\ WellLinked(z)

LEMMA WellLinkedDef ==
    ASSUME NEW z
    PROVE  WellLinked(z) <=> /\ Distinct(z.queue)
                             /\ Elems(z.queue) = DOMAIN z.node
                             /\ Len(z.queue) <= Capacity
BY Zenon DEF WellLinked, Distinct, Elems

\* Deleting nodes leaves the others as they are.
LEMMA WithoutNodesFacts ==
    ASSUME NEW node, NEW keys
    PROVE  LET rest == WithoutNodes(node, keys)
           IN  /\ DOMAIN rest = DOMAIN node \ keys
               /\ \A k \in DOMAIN rest : rest[k] = node[k]
BY Zenon DEF WithoutNodes, Restrict

\* Cutting the tail off the list.
LEMMA PrefixOfQueue ==
    ASSUME NEW q \in Seq(Key), Distinct(q), NEW m \in 0 .. Len(q)
    PROVE  LET s == SubSeq(q, 1, Len(q) - m)
           IN  /\ s \in Seq(Key) /\ Distinct(s)
               /\ Len(s) <= Len(q)
               /\ Elems(s) = Elems(q) \ TailKeys(q, m)
<1>1. PICK n \in Nat : n = Len(q)
  BY LenProperties
<1>2. n - m \in 0 .. Len(q) /\ n - m <= Len(q)
  BY <1>1
<1>3. LET s == SubSeq(q, 1, n - m)
      IN  /\ s \in Seq(Key) /\ Distinct(s) /\ Len(s) = n - m
          /\ Elems(s) = Elems(q) \ {q[x] : x \in n - m + 1 .. Len(q)}
  BY <1>2, CutFacts
<1> QED
  BY <1>1, <1>2, <1>3, Zenon DEF TailKeys

\* Moving the members behind position i to the head.
LEMMA RotateQueue ==
    ASSUME NEW q \in Seq(Key), Distinct(q), NEW i \in 0 .. Len(q)
    PROVE  LET s == Splice(q, i, i)
           IN  /\ s \in Seq(Key) /\ Distinct(s)
               /\ Len(s) = Len(q)
               /\ Elems(s) = Elems(q)
<1> DEFINE s == Splice(q, i, i)
<1>1. Len(q) \in Nat /\ i \in 0 .. i /\ Len(q) - i + i = Len(q)
  BY LenProperties
<1>2. PiecesOf(s, q, i, i)
  BY Zenon DEF Splice, PiecesOf
<1> HIDE DEF s
<1>3. /\ s \in Seq(Key) /\ Distinct(s) /\ Len(s) = Len(q) - i + i
      /\ Elems(s) = Elems(q) \ Segment(q, i + 1, i)
  BY <1>1, <1>2, PiecesFacts
<1>4. i + 1 .. i = {}
  BY <1>1
<1>5. Segment(q, i + 1, i) = {}
  BY <1>4, Zenon DEF Segment
<1> QED
  BY <1>1, <1>3, <1>5 DEF s

\* The same, with the member at position i deleted.
LEMMA RotateAndDelete ==
    ASSUME NEW q \in Seq(Key), Distinct(q), NEW i \in 1 .. Len(q)
    PROVE  LET s == Splice(q, i, i - 1)
           IN  /\ s \in Seq(Key) /\ Distinct(s)
               /\ Len(s) = Len(q) - 1
               /\ Elems(s) = Elems(q) \ {q[i]}
<1> DEFINE s == Splice(q, i, i - 1)
<1>0. Len(q) \in Nat /\ i \in 0 .. Len(q)
  BY LenProperties
<1>1. PICK j \in 0 .. i : /\ j = i - 1
                          /\ Len(q) - i + j = Len(q) - 1 /\ j + 1 = i
  BY <1>0
<1>2. PiecesOf(s, q, i, j)
  BY <1>1, Zenon DEF Splice, PiecesOf
<1> HIDE DEF s
<1>3. /\ s \in Seq(Key) /\ Distinct(s) /\ Len(s) = Len(q) - i + j
      /\ Elems(s) = Elems(q) \ Segment(q, j + 1, i)
  BY <1>0, <1>2, PiecesFacts
<1>4. j + 1 .. i = {i}
  BY <1>1
<1>5. Segment(q, j + 1, i) = {q[i]}
  BY <1>4, Zenon DEF Segment
<1> QED
  BY <1>1, <1>3, <1>5 DEF s

\* touch() moves a member to the head.
LEMMA TouchQueue ==
    ASSUME NEW q \in Seq(Key), Distinct(q), NEW k \in Elems(q)
    PROVE  LET s == Touch(q, k)
           IN  /\ s \in Seq(Key) /\ Distinct(s)
               /\ Len(s) = Len(q)
               /\ Elems(s) = Elems(q)
<1> DEFINE p == Position(q, k)
           r == RemoveAt(q, p)
<1>1. Len(q) \in Nat /\ DOMAIN q = 1 .. Len(q)
  BY LenProperties
<1>2. p \in 1 .. Len(q) /\ q[p] = k
  <2>1. \E i \in DOMAIN q : q[i] = k
    BY <1>1, Zenon DEF Elems
  <2> QED
    BY <1>1, <2>1, Zenon DEF Position
<1>3. PiecesOf(r, q, p, p - 1)
  BY Zenon DEF RemoveAt, PiecesOf
<1> HIDE DEF p, r
<1>4. p \in 0 .. Len(q)
  BY <1>1, <1>2
<1>4a. PICK j \in 0 .. p : /\ j = p - 1 /\ j + 1 = p
                           /\ Len(q) - p + j = Len(q) - 1
  BY <1>1, <1>2
<1>5. /\ r \in Seq(Key) /\ Distinct(r) /\ Len(r) = Len(q) - p + j
      /\ Elems(r) = Elems(q) \ Segment(q, j + 1, p)
  <2>1. PiecesOf(r, q, p, j)
    BY <1>3, <1>4a, Zenon
  <2> QED
    BY <1>4, <2>1, PiecesFacts
<1>6. j + 1 .. p = {p}
  BY <1>2, <1>4a
<1>7. Segment(q, j + 1, p) = {k}
  BY <1>2, <1>6, Zenon DEF Segment
<1>8. k \in Key
  BY ElementOfSeq, <1>2
<1>9. k \notin Elems(r)
  BY <1>5, <1>7, Zenon
<1>10. LET s == <<k>> \o r
       IN  /\ s \in Seq(Key) /\ Len(s) = Len(r) + 1
           /\ Distinct(s) /\ Elems(s) = Elems(r) \cup {k}
  BY <1>5, <1>8, <1>9, ConsFacts
<1>11. Touch(q, k) = <<k>> \o r
  BY Zenon DEF Touch, p, r
<1>12. Len(r) + 1 = Len(q)
  BY <1>1, <1>4a, <1>5
<1>13. Elems(r) \cup {k} = Elems(q)
  BY <1>5, <1>7, Zenon
<1> QED
  BY <1>10, <1>11, <1>12, <1>13, Zenon

\* expire() deletes only nodes that are expirable.
LEMMA ExpireFacts ==
    ASSUME NEW z, GoodZone(z), NEW t \in Int, NEW limit \in Nat
    PROVE  LET e == Expire(z, t, limit)
           IN  /\ GoodZone(e)
               /\ Keeps(z, e)
               /\ \A k \in DOMAIN z.node \ DOMAIN e.node :
                      Expirable(z.node[k], t)
<1> DEFINE e == Expire(z, t, limit)
           m == ExpireRun(z, t, limit)
<1>1. PICK q \in Seq(Key) : q = z.queue
  BY DEF GoodZone, IsZone
<1>2. /\ Distinct(q) /\ Elems(q) = DOMAIN z.node
      /\ Len(q) \in Nat /\ Len(q) <= Capacity
  BY <1>1, WellLinkedDef, LenProperties DEF GoodZone
<1>3. /\ m \in 0 .. Len(q)
      /\ \A i \in Len(q) - m + 1 .. Len(q) : Expirable(z.node[q[i]], t)
  BY <1>1, ExpireRunFacts DEF GoodZone
<1>4. /\ e.queue = SubSeq(q, 1, Len(q) - m)
      /\ e.node = WithoutNodes(z.node, TailKeys(q, m))
  BY <1>1 DEF Expire
<1> HIDE DEF e, m
<1>5. /\ DOMAIN e.node = DOMAIN z.node \ TailKeys(q, m)
      /\ \A k \in DOMAIN e.node : e.node[k] = z.node[k]
  <2>1. LET rest == WithoutNodes(z.node, TailKeys(q, m))
        IN  /\ DOMAIN rest = DOMAIN z.node \ TailKeys(q, m)
            /\ \A k \in DOMAIN rest : rest[k] = z.node[k]
    BY WithoutNodesFacts, Zenon
  <2> QED
    BY <1>4, <2>1
<1>6. /\ e.queue \in Seq(Key) /\ Distinct(e.queue) /\ Len(e.queue) <= Len(q)
      /\ Elems(e.queue) = Elems(q) \ TailKeys(q, m)
  BY <1>2, <1>3, <1>4, PrefixOfQueue
<1>7. Len(e.queue) <= Capacity
  <2>1. Len(e.queue) \in Nat
    BY <1>6, LenProperties
  <2> QED
    BY <1>2, <1>6, <2>1, ZoneLimits
<1>8. WellLinked(e)
  BY <1>2, <1>5, <1>6, <1>7, WellLinkedDef, Zenon
<1>9. Keeps(z, e)
  BY <1>5, Zenon DEF Keeps
<1>10. IsZone(e)
  BY <1>5, <1>6, Zenon DEF IsZone, GoodZone
<1>11. \A k \in DOMAIN z.node \ DOMAIN e.node : Expirable(z.node[k], t)
  BY <1>3, <1>5, Zenon DEF TailKeys
<1> QED
  BY <1>8, <1>9, <1>10, <1>11, Zenon DEF GoodZone, e

\* evict_one_unblocked() deletes at most one node, never a banned one, and
\* when a nonempty list stays as long as it was, there is a ban in it.
LEMMA EvictFacts ==
    ASSUME NEW z, GoodZone(z), NEW t \in Int
    PROVE  LET e == EvictOneUnblocked(z, t)
           IN  /\ GoodZone(e)
               /\ Keeps(z, e)
               /\ \A k \in DOMAIN z.node \ DOMAIN e.node :
                      ~ Banned(z.node[k], t)
               /\ \A j, k \in DOMAIN z.node \ DOMAIN e.node : j = k
               /\ Len(e.queue) >= Len(z.queue) /\ Len(z.queue) > 0 =>
                      \E k \in DOMAIN e.node : Banned(z.node[k], t)
<1> DEFINE e == EvictOneUnblocked(z, t)
           m == BannedRun(z, t)
<1>1. PICK q \in Seq(Key) : q = z.queue
  BY DEF GoodZone, IsZone
<1>2. PICK n \in Nat : n = Len(q)
  BY LenProperties
<1>3. /\ Distinct(q) /\ Elems(q) = DOMAIN z.node /\ n <= Capacity
  BY <1>1, <1>2, WellLinkedDef DEF GoodZone
<1>4. /\ m \in 0 .. n
      /\ \A i \in n - m + 1 .. n : Banned(z.node[q[i]], t)
      /\ m = EvictScanLimit \/ m = n \/ ~ Banned(z.node[q[n - m]], t)
  BY <1>1, <1>2, BannedRunFacts DEF GoodZone
<1>5. CASE m = n \/ m = EvictScanLimit
  <2>1. e.queue = Splice(q, n - m, n - m) /\ e.node = z.node
    BY <1>1, <1>2, <1>5 DEF EvictOneUnblocked
  <2> HIDE DEF e, m
  <2>2. n - m \in 0 .. Len(q)
    BY <1>2, <1>4
  <2>3. /\ e.queue \in Seq(Key) /\ Distinct(e.queue) /\ Len(e.queue) = n
        /\ Elems(e.queue) = DOMAIN e.node
    BY <1>2, <1>3, <2>1, <2>2, RotateQueue
  <2>4. GoodZone(e) /\ Keeps(z, e)
    BY <1>3, <2>1, <2>3, WellLinkedDef, Zenon DEF GoodZone, IsZone, Keeps
  <2>5. ASSUME n > 0 PROVE \E k \in DOMAIN e.node : Banned(z.node[k], t)
    <3>1. m > 0
      BY <1>4, <1>5, <2>5, ZoneLimits
    <3>2. n \in n - m + 1 .. n /\ n \in 1 .. n
      BY <1>4, <2>5, <3>1
    <3>3. q[n] \in DOMAIN z.node
      BY <1>2, <1>3, <3>2, Zenon DEF Elems
    <3> QED
      BY <1>4, <2>1, <3>2, <3>3, Zenon
  <2>6. DOMAIN z.node \ DOMAIN e.node = {}
    BY <2>1, Zenon
  <2> QED
    <3>2. Len(z.queue) > 0 => \E k \in DOMAIN e.node : Banned(z.node[k], t)
      BY <1>1, <1>2, <2>5, Zenon
    <3> QED
      BY <2>4, <2>6, <3>2, Zenon DEF e
<1>6. CASE ~ (m = n \/ m = EvictScanLimit)
  <2>1. /\ e.queue = Splice(q, n - m, n - m - 1)
        /\ e.node = WithoutNodes(z.node, {q[n - m]})
    BY <1>1, <1>2, <1>6 DEF EvictOneUnblocked
  <2> HIDE DEF e, m
  <2>2. n - m \in 1 .. Len(q)
    BY <1>2, <1>4, <1>6
  <2>3. /\ e.queue \in Seq(Key) /\ Distinct(e.queue) /\ Len(e.queue) = n - 1
        /\ Elems(e.queue) = Elems(q) \ {q[n - m]}
    BY <1>2, <1>3, <2>1, <2>2, RotateAndDelete
  <2>4. /\ DOMAIN e.node = DOMAIN z.node \ {q[n - m]}
        /\ \A k \in DOMAIN e.node : e.node[k] = z.node[k]
    <3>1. LET rest == WithoutNodes(z.node, {q[n - m]})
          IN  /\ DOMAIN rest = DOMAIN z.node \ {q[n - m]}
              /\ \A k \in DOMAIN rest : rest[k] = z.node[k]
      BY WithoutNodesFacts, Zenon
    <3> QED
      BY <2>1, <3>1
  <2>5. Len(e.queue) <= Capacity /\ ~ (Len(e.queue) >= n)
    BY <1>3, <2>3, ZoneLimits
  <2>6. Elems(e.queue) = DOMAIN e.node
    BY <1>3, <2>3, <2>4, Zenon
  <2>7. WellLinked(e)
    BY <2>3, <2>5, <2>6, WellLinkedDef, Zenon
  <2>8. IsZone(e) /\ Keeps(z, e)
    BY <2>3, <2>4, Zenon DEF IsZone, Keeps, GoodZone
  <2>9. \A k \in DOMAIN z.node \ DOMAIN e.node :
            k = q[n - m] /\ ~ Banned(z.node[k], t)
    BY <1>4, <1>6, <2>4, Zenon
  <2> QED
    <3>1. \A j, k \in DOMAIN z.node \ DOMAIN e.node : j = k
      BY <2>9, Zenon
    <3>2. ~ (Len(e.queue) >= Len(z.queue))
      BY <1>1, <1>2, <2>5, Zenon
    <3> QED
      BY <2>7, <2>8, <2>9, <3>1, <3>2, Zenon DEF e, GoodZone
<1> QED
  BY <1>5, <1>6

\* find_touch_locked() deletes only expirable nodes, and the node it finds
\* differs from before in last_seen only.
LEMMA FindTouchFacts ==
    ASSUME NEW z, GoodZone(z), NEW k \in Key, NEW t \in Time
    PROVE  LET f == FindTouch(z, k, t)
           IN  /\ GoodZone(f)
               /\ DOMAIN f.node \subseteq DOMAIN z.node
               /\ \A j \in DOMAIN f.node \ {k} : f.node[j] = z.node[j]
               /\ k \in DOMAIN f.node =>
                      f.node[k] = [z.node[k] EXCEPT !.last_seen = t]
               /\ \A j \in DOMAIN z.node \ DOMAIN f.node :
                      Expirable(z.node[j], t)
<1> DEFINE f == FindTouch(z, k, t)
           e == Expire(z, t, ExpireLimitFind)
<1>1. t \in Int /\ ExpireLimitFind \in Nat
  BY ZoneLimits, TimeRange DEF Time
<1>2. /\ GoodZone(e) /\ Keeps(z, e)
      /\ \A j \in DOMAIN z.node \ DOMAIN e.node : Expirable(z.node[j], t)
  BY <1>1, ExpireFacts
<1>3. CASE k \notin DOMAIN e.node
  <2>1. f = e
    BY <1>3, Zenon DEF FindTouch
  <2> QED
    BY <1>2, <1>3, <2>1, Zenon DEF Keeps
<1>4. CASE k \in DOMAIN e.node
  <2>1. /\ f.queue = Touch(e.queue, k)
        /\ f.node = [e.node EXCEPT ![k].last_seen = t]
    BY <1>4 DEF FindTouch
  <2> HIDE DEF f, e
  <2>2. /\ DOMAIN f.node = DOMAIN e.node
        /\ \A j \in DOMAIN f.node \ {k} : f.node[j] = e.node[j]
        /\ f.node[k] = [e.node[k] EXCEPT !.last_seen = t]
    BY <1>4, <2>1
  <2>3. /\ e.queue \in Seq(Key) /\ Distinct(e.queue)
        /\ Elems(e.queue) = DOMAIN e.node /\ Len(e.queue) <= Capacity
    BY <1>2, WellLinkedDef, Zenon DEF GoodZone, IsZone
  <2>4. k \in Elems(e.queue)
    BY <1>4, <2>3, Zenon
  <2>5. LET s == Touch(e.queue, k)
        IN  /\ s \in Seq(Key) /\ Distinct(s)
            /\ Len(s) = Len(e.queue) /\ Elems(s) = Elems(e.queue)
    BY <2>3, <2>4, TouchQueue
  <2>6. WellLinked(f)
    BY <2>1, <2>2, <2>3, <2>5, WellLinkedDef, Zenon
  <2>7. f.node[k] \in Node
    <3>1. e.node[k] \in Node
      BY <1>2, <1>4, Zenon DEF GoodZone, IsZone
    <3> QED
      BY <2>2, <3>1 DEF Node
  <2>8. IsZone(f)
    <3>1. f.queue \in Seq(Key)
      BY <2>1, <2>5, Zenon
    <3>2. DOMAIN f.node \subseteq Key
      BY <1>2, <2>2, Zenon DEF GoodZone, IsZone
    <3>3. \A j \in DOMAIN f.node : f.node[j] \in Node
      BY <1>2, <2>2, <2>7, Zenon DEF GoodZone, IsZone
    <3> QED
      BY <3>1, <3>2, <3>3, Zenon DEF IsZone
  <2>9. f.node[k] = [z.node[k] EXCEPT !.last_seen = t]
    BY <1>2, <1>4, <2>2 DEF Keeps
  <2>10. \A j \in DOMAIN f.node \ {k} : f.node[j] = z.node[j]
    BY <1>2, <2>2, Zenon DEF Keeps
  <2>11. DOMAIN f.node \subseteq DOMAIN z.node
    BY <1>2, <2>2, Zenon DEF Keeps
  <2>12. \A j \in DOMAIN z.node \ DOMAIN f.node : Expirable(z.node[j], t)
    BY <1>2, <2>2, Zenon
  <2> QED
    BY <2>6, <2>8, <2>9, <2>10, <2>11, <2>12, Zenon DEF GoodZone, f
<1> QED
  BY <1>3, <1>4

\* The allocation ladder gives up unbanned nodes only, and at most one that
\* is not expirable; when it fails there is a ban in the zone.
LEMMA MakeRoomFacts ==
    ASSUME NEW z, GoodZone(z), NEW t \in Int
    PROVE  LET r == MakeRoom(z, t)
           IN  /\ GoodZone(r)
               /\ Keeps(z, r)
               /\ \A j \in DOMAIN z.node \ DOMAIN r.node :
                      ~ Banned(z.node[j], t)
               /\ \A i, j \in DOMAIN z.node \ DOMAIN r.node :
                      \/ Expirable(z.node[i], t)
                      \/ Expirable(z.node[j], t)
                      \/ i = j
               /\ Full(r) => \E j \in DOMAIN r.node : Banned(z.node[j], t)
<1> DEFINE e == IF Full(z) THEN Expire(z, t, ExpireLimitAlloc) ELSE z
           r == MakeRoom(z, t)
<1>1. /\ GoodZone(e) /\ Keeps(z, e)
      /\ \A j \in DOMAIN z.node \ DOMAIN e.node :
             Expirable(z.node[j], t) /\ ~ Banned(z.node[j], t)
  <2>1. CASE Full(z)
    <3>1. ExpireLimitAlloc \in Nat
      BY ZoneLimits
    <3>2. LET x == Expire(z, t, ExpireLimitAlloc)
          IN  /\ GoodZone(x) /\ Keeps(z, x)
              /\ \A j \in DOMAIN z.node \ DOMAIN x.node : Expirable(z.node[j], t)
      BY <3>1, ExpireFacts
    <3> QED
      BY <2>1, <3>2, Zenon DEF Expirable
  <2>2. CASE ~ Full(z)
    BY <2>2, Zenon DEF Keeps
  <2> QED
    BY <2>1, <2>2, Zenon
<1>2. r = IF Full(e) THEN EvictOneUnblocked(e, t) ELSE e
  BY Zenon DEF MakeRoom
<1> HIDE DEF e, r
<1>3. CASE ~ Full(e)
  <2>1. r = e
    BY <1>2, <1>3, Zenon
  <2> QED
    BY <1>1, <1>3, <2>1, Zenon DEF r
<1>4. CASE Full(e)
  <2>1. r = EvictOneUnblocked(e, t)
    BY <1>2, <1>4, Zenon
  <2>2. /\ GoodZone(r) /\ Keeps(e, r)
        /\ \A k \in DOMAIN e.node \ DOMAIN r.node : ~ Banned(e.node[k], t)
        /\ \A j, k \in DOMAIN e.node \ DOMAIN r.node : j = k
        /\ Len(r.queue) >= Len(e.queue) /\ Len(e.queue) > 0 =>
               \E k \in DOMAIN r.node : Banned(e.node[k], t)
    BY <1>1, <2>1, EvictFacts
  <2>3. Keeps(z, r)
    BY <1>1, <2>2, Zenon DEF Keeps
  <2>4. \A j \in DOMAIN z.node \ DOMAIN r.node : ~ Banned(z.node[j], t)
    BY <1>1, <2>2, Zenon DEF Keeps
  <2>5. ASSUME NEW i \in DOMAIN z.node \ DOMAIN r.node,
               NEW j \in DOMAIN z.node \ DOMAIN r.node
        PROVE  Expirable(z.node[i], t) \/ Expirable(z.node[j], t) \/ i = j
    BY <1>1, <2>2, Zenon
  <2>6. ASSUME Full(r) PROVE \E j \in DOMAIN r.node : Banned(z.node[j], t)
    <3>1. /\ Len(r.queue) \in Nat /\ Len(e.queue) \in Nat
          /\ Len(e.queue) <= Capacity /\ Len(r.queue) >= Capacity
      BY <1>1, <2>2, <2>6, LenProperties DEF GoodZone, IsZone, WellLinked, Full
    <3>2. Len(r.queue) >= Len(e.queue) /\ Len(e.queue) > 0
      BY <1>4, <3>1, ZoneLimits DEF Full
    <3>3. PICK k \in DOMAIN r.node : Banned(e.node[k], t)
      BY <2>2, <3>2, Zenon
    <3>4. e.node[k] = z.node[k]
      BY <1>1, <2>2, Zenon DEF Keeps
    <3> QED
      BY <3>3, <3>4, Zenon
  <2> QED
    BY <2>2, <2>3, <2>4, <2>5, <2>6, Zenon DEF r
<1> QED
  BY <1>3, <1>4

\* The node create_node() makes.
NewNode(t) == [ZeroNode EXCEPT !.last_seen = t]

\* create_node() makes the node of k, or, while another identity is banned,
\* none, and gives up unbanned nodes only, at most one not expirable.
LEMMA CreateNodeFacts ==
    ASSUME NEW z, GoodZone(z), NEW k \in Key, k \notin DOMAIN z.node,
           NEW t \in Time
    PROVE  LET y == CreateNode(z, k, t)
           IN  /\ GoodZone(y)
               /\ \A j \in DOMAIN y.node \ {k} :
                      j \in DOMAIN z.node /\ y.node[j] = z.node[j]
               /\ \A j \in DOMAIN z.node \ DOMAIN y.node :
                      ~ Banned(z.node[j], t)
               /\ \A i, j \in DOMAIN z.node \ DOMAIN y.node :
                      \/ Expirable(z.node[i], t)
                      \/ Expirable(z.node[j], t)
                      \/ i = j
               /\ \/ k \in DOMAIN y.node /\ y.node[k] = NewNode(t)
                  \/ /\ k \notin DOMAIN y.node
                     /\ \E j \in DOMAIN y.node : Banned(z.node[j], t)
<1> DEFINE y == CreateNode(z, k, t)
           r == MakeRoom(z, t)
<1>1. t \in Int
  BY TimeRange DEF Time
<1>2. /\ GoodZone(r) /\ Keeps(z, r)
      /\ \A j \in DOMAIN z.node \ DOMAIN r.node : ~ Banned(z.node[j], t)
      /\ \A i, j \in DOMAIN z.node \ DOMAIN r.node :
             \/ Expirable(z.node[i], t) \/ Expirable(z.node[j], t) \/ i = j
      /\ Full(r) => \E j \in DOMAIN r.node : Banned(z.node[j], t)
  BY <1>1, MakeRoomFacts
<1>3. y = IF Full(r)
          THEN r
          ELSE [queue |-> <<k>> \o r.queue,
                node  |-> [j \in DOMAIN r.node \cup {k} |->
                              IF j = k THEN NewNode(t) ELSE r.node[j]]]
  BY Zenon DEF CreateNode, NewNode
<1> HIDE DEF r, y
<1>4. /\ k \notin DOMAIN r.node
      /\ \A j \in DOMAIN r.node :
             j # k /\ j \in DOMAIN z.node /\ r.node[j] = z.node[j]
  BY <1>2, Zenon DEF Keeps
<1>5. CASE Full(r)
  <2>1. y = r
    BY <1>3, <1>5, Zenon
  <2> QED
    BY <1>2, <1>4, <1>5, <2>1, Zenon DEF y
<1>6. CASE ~ Full(r)
  <2>1. /\ y.queue = <<k>> \o r.queue
        /\ y.node = [j \in DOMAIN r.node \cup {k} |->
                        IF j = k THEN NewNode(t) ELSE r.node[j]]
    BY <1>3, <1>6
  <2>2. /\ DOMAIN y.node = DOMAIN r.node \cup {k}
        /\ y.node[k] = NewNode(t)
        /\ \A j \in DOMAIN r.node : y.node[j] = r.node[j]
    BY <1>4, <2>1, Zenon
  <2>3. /\ r.queue \in Seq(Key) /\ Distinct(r.queue)
        /\ Elems(r.queue) = DOMAIN r.node
    BY <1>2, WellLinkedDef, Zenon DEF GoodZone, IsZone
  <2>4. k \notin Elems(r.queue)
    BY <1>4, <2>3, Zenon
  <2>5. LET s == <<k>> \o r.queue
        IN  /\ s \in Seq(Key) /\ Len(s) = Len(r.queue) + 1 /\ Distinct(s)
            /\ Elems(s) = Elems(r.queue) \cup {k}
    BY <2>3, <2>4, ConsFacts
  <2>6. Len(r.queue) + 1 <= Capacity
    <3>1. Len(r.queue) \in Nat
      BY <2>3, LenProperties
    <3> QED
      BY <1>6, <3>1, ZoneLimits DEF Full
  <2>7. /\ Distinct(y.queue) /\ Elems(y.queue) = DOMAIN y.node
        /\ Len(y.queue) <= Capacity /\ y.queue \in Seq(Key)
    BY <2>1, <2>2, <2>3, <2>5, <2>6, Zenon
  <2>8. NewNode(t) \in Node
    <3>1. 0 \in Time /\ <<>> \in Seq(Time)
      BY TimeRange DEF Time
    <3> QED
      BY <3>1 DEF NewNode, ZeroNode, Node
  <2>9. IsZone(y)
    <3>1. DOMAIN y.node \subseteq Key
      BY <1>2, <2>2, Zenon DEF GoodZone, IsZone
    <3>2. \A j \in DOMAIN y.node : y.node[j] \in Node
      BY <1>2, <2>2, <2>8, Zenon DEF GoodZone, IsZone
    <3> QED
      BY <2>7, <3>1, <3>2, Zenon DEF IsZone
  <2>10. GoodZone(y)
    BY <2>7, <2>9, WellLinkedDef, Zenon DEF GoodZone
  <2>11. DOMAIN z.node \ DOMAIN y.node \subseteq DOMAIN z.node \ DOMAIN r.node
    BY <2>2, Zenon
  <2>12. \A j \in DOMAIN y.node \ {k} :
             j \in DOMAIN z.node /\ y.node[j] = z.node[j]
    BY <1>4, <2>2, Zenon
  <2> QED
    BY <1>2, <2>2, <2>10, <2>11, <2>12, Zenon DEF y
<1> QED
  BY <1>5, <1>6, Zenon

\* record() ends up with the node of k as it was but for last_seen, or with a
\* new node, or, while another identity is banned, without a node.
LEMMA TrackingFacts ==
    ASSUME NEW z, GoodZone(z), NEW k \in Key, NEW t \in Time
    PROVE  LET y == Tracking(z, k, t)
           IN  /\ GoodZone(y)
               /\ \A j \in DOMAIN y.node \ {k} :
                      j \in DOMAIN z.node /\ y.node[j] = z.node[j]
               /\ \A j \in DOMAIN z.node \ DOMAIN y.node :
                      ~ Banned(z.node[j], t)
               /\ \A i, j \in DOMAIN z.node \ DOMAIN y.node :
                      \/ Expirable(z.node[i], t)
                      \/ Expirable(z.node[j], t)
                      \/ i = j
               /\ \/ /\ k \in DOMAIN y.node /\ k \in DOMAIN z.node
                     /\ y.node[k] = [z.node[k] EXCEPT !.last_seen = t]
                  \/ /\ k \in DOMAIN z.node => Expirable(z.node[k], t)
                     /\ \/ k \in DOMAIN y.node /\ y.node[k] = NewNode(t)
                        \/ /\ k \notin DOMAIN y.node
                           /\ \E j \in DOMAIN y.node : Banned(z.node[j], t)
<1> DEFINE y == Tracking(z, k, t)
           f == FindTouch(z, k, t)
<1>1. /\ GoodZone(f)
      /\ DOMAIN f.node \subseteq DOMAIN z.node
      /\ \A j \in DOMAIN f.node \ {k} : f.node[j] = z.node[j]
      /\ k \in DOMAIN f.node => f.node[k] = [z.node[k] EXCEPT !.last_seen = t]
      /\ \A j \in DOMAIN z.node \ DOMAIN f.node : Expirable(z.node[j], t)
  BY FindTouchFacts
<1>2. \A n : Expirable(n, t) => ~ Banned(n, t)
  BY Zenon DEF Expirable
<1>3. y = IF k \in DOMAIN f.node THEN f ELSE CreateNode(f, k, t)
  BY Zenon DEF Tracking
<1> HIDE DEF y, f
<1>4. CASE k \in DOMAIN f.node
  <2>1. y = f
    BY <1>3, <1>4, Zenon
  <2> QED
    BY <1>1, <1>2, <1>4, <2>1, Zenon DEF y
<1>5. CASE k \notin DOMAIN f.node
  <2>1. y = CreateNode(f, k, t)
    BY <1>3, <1>5, Zenon
  <2>2. /\ GoodZone(y)
        /\ \A j \in DOMAIN y.node \ {k} :
               j \in DOMAIN f.node /\ y.node[j] = f.node[j]
        /\ \A j \in DOMAIN f.node \ DOMAIN y.node : ~ Banned(f.node[j], t)
        /\ \A i, j \in DOMAIN f.node \ DOMAIN y.node :
               Expirable(f.node[i], t) \/ Expirable(f.node[j], t) \/ i = j
        /\ \/ k \in DOMAIN y.node /\ y.node[k] = NewNode(t)
           \/ /\ k \notin DOMAIN y.node
              /\ \E j \in DOMAIN y.node : Banned(f.node[j], t)
    BY <1>1, <1>5, <2>1, CreateNodeFacts
  <2>3. \A j \in DOMAIN f.node : j # k /\ f.node[j] = z.node[j]
    BY <1>1, <1>5, Zenon
  <2>4. \A j \in DOMAIN y.node \ {k} :
            j \in DOMAIN z.node /\ y.node[j] = z.node[j]
    BY <1>1, <2>2, <2>3, Zenon
  <2>5. k \in DOMAIN z.node => Expirable(z.node[k], t)
    BY <1>1, <1>5, Zenon
  <2>6. \A j \in DOMAIN z.node \ DOMAIN y.node : ~ Banned(z.node[j], t)
    BY <1>1, <1>2, <2>2, <2>3, Zenon
  <2>7. \A i, j \in DOMAIN z.node \ DOMAIN y.node :
            Expirable(z.node[i], t) \/ Expirable(z.node[j], t) \/ i = j
    BY <1>1, <2>2, <2>3, Zenon
  <2>8. ASSUME k \notin DOMAIN y.node
        PROVE  \E j \in DOMAIN y.node : Banned(z.node[j], t)
    BY <2>2, <2>3, <2>8, Zenon
  <2> QED
    BY <2>2, <2>4, <2>5, <2>6, <2>7, <2>8, Zenon DEF y
<1> QED
  BY <1>4, <1>5, Zenon

-----------------------------------------------------------------------------
(***************************************************************************)
(* One node.                                                               *)
(***************************************************************************)

\* The events e of a node last seen at time seen, when the clock shows c and
\* the cached times of the workers may be lag apart.
EventsInv(e, seen, c, lag) ==
    /\ \A i, j \in 1 .. Len(e) : i < j => e[j] >= e[i] - lag
    /\ \A i \in 1 .. Len(e) : e[i] <= c /\ e[i] <= seen + lag

NodeInv(n, c, lag) ==
    /\ n \in Node
    /\ Len(n.events) < Threshold
    /\ n.blocked_until # 0 => n.events = <<>>
    /\ n.last_seen <= c
    /\ EventsInv(n.events, n.last_seen, c, lag)

\* A time a process may have cached when the clock shows c, if no cached time
\* lags further behind than lag.
CachedAt(t, c, lag) ==
    /\ lag \in Nat /\ t \in Time /\ c \in Time
    /\ t <= c /\ c - t <= lag /\ c < TimeMax

LEMMA TimeFacts ==
    /\ \A x \in Time : x \in Int /\ x >= 0 /\ x <= TimeMax
    /\ TimeMax \in Nat /\ 0 \in Time
BY TimeRange DEF Time

\* Pruning drops a prefix.
LEMMA PruneFacts ==
    ASSUME NEW e \in Seq(Time), NEW t \in Int
    PROVE  LET p == PruneEvents(e, t)
               d == StaleRun(e, t)
           IN  /\ d \in 0 .. Len(e)
               /\ p = SubSeq(e, d + 1, Len(e))
               /\ p \in Seq(Time)
               /\ Len(p) = Len(e) - d
               /\ \A x \in 1 .. Len(e) - d : p[x] = e[x + d]
<1>1. e \in Seq(Int)
  BY SeqMonotonic, TimeFacts
<1>2. StaleRun(e, t) \in 0 .. Len(e)
  BY <1>1, StaleRunFacts
<1>3. PICK d \in 0 .. Len(e) : d = StaleRun(e, t)
  BY <1>2
<1>4. PruneEvents(e, t) = SubSeq(e, d + 1, Len(e))
  BY <1>3, Zenon DEF PruneEvents
<1>5. /\ SubSeq(e, d + 1, Len(e)) \in Seq(Time)
      /\ Len(SubSeq(e, d + 1, Len(e))) = Len(e) - d
      /\ \A x \in 1 .. Len(e) - d : SubSeq(e, d + 1, Len(e))[x] = e[x + d]
  BY SuffixFacts
<1> QED
  BY <1>3, <1>4, <1>5, Zenon

\* What is left of the events keeps their order and their bounds.
LEMMA LiveEventsFacts ==
    ASSUME NEW n, NEW c, NEW lag, NodeInv(n, c, lag), NEW t \in Int
    PROVE  LET e == LiveEvents(n, t)
           IN  /\ e \in Seq(Time) /\ Len(e) \in Nat
               /\ Len(e) < Threshold
               /\ EventsInv(e, n.last_seen, c, lag)
<1>1. /\ n.events \in Seq(Time) /\ Len(n.events) \in Nat
      /\ Len(n.events) < Threshold /\ Threshold \in Nat \ {0}
      /\ EventsInv(n.events, n.last_seen, c, lag)
  BY LenProperties, ZoneParameters DEF NodeInv, Node
<1>2. CASE n.blocked_until # 0
  <2>1. LiveEvents(n, t) = <<>>
    BY <1>2, Zenon DEF LiveEvents
  <2> QED
    BY <1>1, <2>1 DEF EventsInv
<1>3. CASE n.blocked_until = 0
  <2>1. LiveEvents(n, t) = PruneEvents(n.events, t)
    BY <1>3, Zenon DEF LiveEvents
  <2>2. PICK e \in Seq(Time) : e = n.events
    BY <1>1
  <2>3. PICK p \in Seq(Time), d \in 0 .. Len(e) :
            /\ p = PruneEvents(e, t)
            /\ Len(p) = Len(e) - d
            /\ \A x \in 1 .. Len(e) - d : p[x] = e[x + d]
    BY PruneFacts, Zenon
  <2>4. /\ Len(e) \in Nat /\ Len(p) \in Nat
        /\ Len(p) <= Len(e) /\ Len(p) < Threshold
    BY <1>1, <2>2, <2>3
  <2>5. \A x \in 1 .. Len(p) : x + d \in 1 .. Len(e) /\ p[x] = e[x + d]
    BY <2>3, <2>4
  <2>6. EventsInv(p, n.last_seen, c, lag)
    <3>1. ASSUME NEW i \in 1 .. Len(p), NEW j \in 1 .. Len(p), i < j
          PROVE  p[j] >= p[i] - lag
      <4>1. i + d < j + d
        BY <3>1
      <4> QED
        BY <1>1, <2>2, <2>5, <4>1 DEF EventsInv
    <3>2. ASSUME NEW i \in 1 .. Len(p)
          PROVE  p[i] <= c /\ p[i] <= n.last_seen + lag
      BY <1>1, <2>2, <2>5 DEF EventsInv
    <3> QED
      BY <3>1, <3>2 DEF EventsInv
  <2> QED
    BY <2>1, <2>2, <2>3, <2>4, <2>6
<1> QED
  BY <1>2, <1>3

\* Touching a node at a cached time.
LEMMA TouchNode ==
    ASSUME NEW n, NEW c, NEW lag, NEW t, CachedAt(t, c, lag), NodeInv(n, c,
           lag)
    PROVE  NodeInv([n EXCEPT !.last_seen = t], c, lag)
<1>1. PICK e \in Seq(Time) : e = n.events
  BY DEF NodeInv, Node
<1>2. \A i \in 1 .. Len(e) : e[i] \in Int
  BY ElementOfSeq, TimeFacts
<1>3. \A i \in 1 .. Len(e) : e[i] <= c /\ e[i] <= t + lag
  BY <1>1, <1>2, TimeFacts DEF NodeInv, EventsInv, CachedAt
<1>4. EventsInv(e, t, c, lag)
  BY <1>1, <1>3, Zenon DEF EventsInv, NodeInv
<1> QED
  BY <1>1, <1>4 DEF NodeInv, Node, CachedAt

\* A new node.
LEMMA NewNodeInv ==
    ASSUME NEW c, NEW lag, NEW t, CachedAt(t, c, lag)
    PROVE  NodeInv(NewNode(t), c, lag)
<1>1. /\ NewNode(t) = [blocked_until |-> 0, last_seen |-> t, events |-> <<>>]
      /\ <<>> \in Seq(Time) /\ Len(<<>>) = 0
  BY DEF NewNode, ZeroNode
<1> QED
  BY <1>1, TimeFacts, ZoneParameters DEF NodeInv, Node, EventsInv, CachedAt

LEMMA SaturateType ==
    ASSUME NEW a \in Time, NEW b \in Nat
    PROVE  TimeAddSaturate(a, b) \in Time
BY TimeRange DEF Time, TimeAddSaturate

\* Counting an error at a cached time keeps the node in order.
LEMMA CountErrorInv ==
    ASSUME NEW n, NEW c, NEW lag, NEW t, CachedAt(t, c, lag), NodeInv(n, c,
           lag), n.last_seen = t
    PROVE  NodeInv(CountError(n, t), c, lag)
<1> DEFINE e == LiveEvents(n, t)
           a == Append(e, t)
<1>1. t \in Time /\ c \in Time /\ t \in Int /\ c \in Int
      /\ t <= c /\ c - t <= lag /\ lag \in Nat
  BY TimeFacts DEF CachedAt
<1>2. /\ e \in Seq(Time) /\ Len(e) \in Nat /\ Len(e) < Threshold
      /\ EventsInv(e, t, c, lag)
  BY <1>1, LiveEventsFacts
<1>3. CountError(n, t) =
          IF Len(a) >= Threshold
          THEN [n EXCEPT !.events = <<>>,
                         !.blocked_until = TimeAddSaturate(t, Block)]
          ELSE [n EXCEPT !.events = a, !.blocked_until = 0]
  BY Zenon DEF CountError
<1> HIDE DEF e
<1>4. /\ a \in Seq(Time) /\ Len(a) = Len(e) + 1
      /\ \A i \in 1 .. Len(e) : a[i] = e[i]
      /\ a[Len(e) + 1] = t
  BY <1>1, <1>2, AppendProperties
<1> HIDE DEF a
<1>5. CASE Len(a) >= Threshold
  <2>1. TimeAddSaturate(t, Block) \in Time
    BY <1>1, SaturateType, ZoneParameters
  <2>2. CountError(n, t) = [n EXCEPT !.events = <<>>,
                               !.blocked_until = TimeAddSaturate(t, Block)]
    BY <1>3, <1>5, Zenon
  <2>3. <<>> \in Seq(Time) /\ Len(<<>>) = 0
    OBVIOUS
  <2>4. EventsInv(<<>>, t, c, lag)
    BY <2>3 DEF EventsInv
  <2>5. n \in Node
    BY DEF NodeInv
  <2>6. CountError(n, t) \in Node
    BY <2>1, <2>2, <2>3, <2>5 DEF Node
  <2>7. /\ CountError(n, t).events = <<>>
        /\ CountError(n, t).last_seen = t
    BY <2>2, <2>5 DEF Node
  <2>8. Len(<<>>) < Threshold
    BY <2>3, ZoneParameters
  <2> QED
    BY <1>1, <2>4, <2>6, <2>7, <2>8, Zenon DEF NodeInv
<1>6. CASE ~ (Len(a) >= Threshold)
  <2>1. CountError(n, t) = [n EXCEPT !.events = a, !.blocked_until = 0]
    BY <1>3, <1>6, Zenon
  <2>2. \A i \in 1 .. Len(e) : e[i] \in Int /\ e[i] <= c
    BY <1>2, ElementOfSeq, TimeFacts DEF EventsInv
  <2>3. ASSUME NEW i \in 1 .. Len(a), NEW j \in 1 .. Len(a), i < j
        PROVE  a[j] >= a[i] - lag
    <3>1. i \in 1 .. Len(e) /\ a[i] = e[i]
      BY <1>2, <1>4, <2>3
    <3>2. CASE j \in 1 .. Len(e)
      BY <1>2, <1>4, <2>3, <3>1, <3>2 DEF EventsInv
    <3>3. CASE j = Len(e) + 1
      BY <1>1, <1>4, <2>2, <3>1, <3>3
    <3> QED
      BY <1>2, <1>4, <3>2, <3>3
  <2>4. ASSUME NEW i \in 1 .. Len(a)
        PROVE  a[i] <= c /\ a[i] <= t + lag
    <3>1. CASE i \in 1 .. Len(e)
      BY <1>2, <1>4, <3>1 DEF EventsInv
    <3>2. CASE i = Len(e) + 1
      BY <1>1, <1>4, <3>2
    <3> QED
      BY <1>2, <1>4, <3>1, <3>2
  <2>5. EventsInv(a, t, c, lag)
    BY <2>3, <2>4, Zenon DEF EventsInv
  <2>6. Len(a) < Threshold
    BY <1>2, <1>4, <1>6, ZoneParameters
  <2> QED
    BY <1>1, <1>4, <2>1, <2>5, <2>6, TimeFacts DEF NodeInv, Node
<1> QED
  BY <1>5, <1>6

\* So does settling a node that is not banned.
LEMMA SettleNodeInv ==
    ASSUME NEW n, NEW c, NEW lag, NEW t, CachedAt(t, c, lag), NodeInv(n, c,
           lag)
    PROVE  NodeInv(SettleNode(n, t), c, lag)
<1>1. t \in Int
  BY TimeFacts DEF CachedAt
<1>2. PICK e \in Seq(Time) : /\ e = LiveEvents(n, t) /\ Len(e) < Threshold
                             /\ EventsInv(e, n.last_seen, c, lag)
  BY <1>1, LiveEventsFacts, Zenon
<1>3. SettleNode(n, t) = [n EXCEPT !.events = e, !.blocked_until = 0]
  BY <1>2, Zenon DEF SettleNode
<1> QED
  BY <1>2, <1>3, TimeFacts DEF NodeInv, Node

\* A later clock keeps a node in order.
LEMMA NodeInvLater ==
    ASSUME NEW n, NEW lag \in Nat, NEW c \in Int, NodeInv(n, c, lag)
    PROVE  NodeInv(n, c + 1, lag)
<1>1. PICK e \in Seq(Time) : e = n.events
  BY DEF NodeInv, Node
<1>2. \A i \in 1 .. Len(e) : e[i] \in Int
  BY ElementOfSeq, TimeFacts
<1>3. n.last_seen \in Int /\ n.last_seen <= c + 1
  BY TimeFacts DEF NodeInv, Node
<1>4. \A i \in 1 .. Len(e) : e[i] <= c + 1 /\ e[i] <= n.last_seen + lag
  BY <1>1, <1>2 DEF NodeInv, EventsInv
<1>5. EventsInv(e, n.last_seen, c + 1, lag)
  BY <1>1, <1>4, Zenon DEF EventsInv, NodeInv
<1> QED
  BY <1>1, <1>3, <1>5, Zenon DEF NodeInv

\* The node record() counts the error in, and the reply.
LEMMA CountErrorShape ==
    ASSUME NEW x, NEW c, NEW lag, NEW t, CachedAt(t, c, lag), NodeInv(x, c,
           lag),
           NEW e, e = LiveEvents(x, t)
    PROVE  LET n == CountError(x, t)
           IN  IF Len(e) + 1 >= Threshold
               THEN n.events = <<>> /\ n.blocked_until = TimeAddSaturate(t, Block)
               ELSE n.events = Append(e, t) /\ n.blocked_until = 0
<1>1. e \in Seq(Time) /\ t \in Time /\ x \in Node
  BY LiveEventsFacts, TimeFacts DEF CachedAt, NodeInv
<1>2. Len(Append(e, t)) = Len(e) + 1
  BY <1>1, AppendProperties
<1>3. CountError(x, t) =
          IF Len(Append(e, t)) >= Threshold
          THEN [x EXCEPT !.events = <<>>,
                         !.blocked_until = TimeAddSaturate(t, Block)]
          ELSE [x EXCEPT !.events = Append(e, t), !.blocked_until = 0]
  BY Zenon DEF CountError
<1> QED
  BY <1>1, <1>2, <1>3 DEF Node

\* A ban ends after it started.
LEMMA BanIsLater ==
    ASSUME NEW c, NEW lag, NEW t, CachedAt(t, c, lag)
    PROVE  TimeAddSaturate(t, Block) > t /\ TimeAddSaturate(t, Block) # 0
BY ZoneParameters, TimeRange DEF TimeAddSaturate, CachedAt, Time

-----------------------------------------------------------------------------
(***************************************************************************)
(* record() and is_blocked().                                              *)
(***************************************************************************)

ZoneInv(z, c, lag) ==
    /\ GoodZone(z)
    /\ \A k \in DOMAIN z.node : NodeInv(z.node[k], c, lag)

\* Replacing one node by a good one.
LEMMA SetNodeFacts ==
    ASSUME NEW z, NEW c, NEW lag, ZoneInv(z, c, lag), NEW k \in DOMAIN z.node,
           NEW n, NodeInv(n, c, lag)
    PROVE  LET y == SetNode(z, k, n)
           IN  /\ ZoneInv(y, c, lag)
               /\ DOMAIN y.node = DOMAIN z.node
               /\ y.node[k] = n
               /\ \A j \in DOMAIN z.node \ {k} : y.node[j] = z.node[j]
<1> DEFINE y == SetNode(z, k, n)
<1>1. y.queue = z.queue /\ y.node = [z.node EXCEPT ![k] = n]
  BY DEF SetNode
<1> HIDE DEF y
<1>2. /\ DOMAIN y.node = DOMAIN z.node
      /\ y.node[k] = n
      /\ \A j \in DOMAIN z.node \ {k} : y.node[j] = z.node[j]
  BY <1>1
<1>3. \A j \in DOMAIN y.node : NodeInv(y.node[j], c, lag)
  BY <1>2, Zenon DEF ZoneInv
<1>4. IsZone(y)
  BY <1>1, <1>2, <1>3, Zenon DEF ZoneInv, GoodZone, IsZone, NodeInv
<1>5. WellLinked(y)
  BY <1>1, <1>2, WellLinkedDef, Zenon DEF ZoneInv, GoodZone
<1> QED
  BY <1>2, <1>3, <1>4, <1>5, Zenon DEF y, ZoneInv, GoodZone

\* The zone in which record() has found or made the node of k.
LEMMA TrackingInv ==
    ASSUME NEW z, NEW c, NEW lag, NEW t, NEW k \in Key, ZoneInv(z, c, lag),
           CachedAt(t, c, lag)
    PROVE  LET y == Tracking(z, k, t)
           IN  /\ ZoneInv(y, c, lag)
               /\ k \in DOMAIN y.node => y.node[k].last_seen = t
<1> DEFINE y == Tracking(z, k, t)
<1>1. t \in Time /\ GoodZone(z)
  BY DEF CachedAt, ZoneInv
<1>2. /\ GoodZone(y)
      /\ \A j \in DOMAIN y.node \ {k} :
             j \in DOMAIN z.node /\ y.node[j] = z.node[j]
      /\ k \in DOMAIN y.node =>
             \/ /\ k \in DOMAIN z.node
                /\ y.node[k] = [z.node[k] EXCEPT !.last_seen = t]
             \/ y.node[k] = NewNode(t)
  BY <1>1, TrackingFacts, Zenon
<1> HIDE DEF y
<1>3. ASSUME NEW n, NodeInv(n, c, lag) PROVE [n EXCEPT !.last_seen = t].last_seen = t
  BY <1>3 DEF NodeInv, Node
<1>4. NewNode(t).last_seen = t
  BY DEF NewNode, ZeroNode
<1>5. ASSUME k \in DOMAIN y.node
      PROVE  NodeInv(y.node[k], c, lag) /\ y.node[k].last_seen = t
  <2>1. CASE k \in DOMAIN z.node /\ y.node[k] = [z.node[k] EXCEPT !.last_seen = t]
    <3>1. NodeInv(z.node[k], c, lag)
      BY <2>1, Zenon DEF ZoneInv
    <3>2. NodeInv([z.node[k] EXCEPT !.last_seen = t], c, lag)
      BY <3>1, TouchNode, Zenon
    <3> QED
      BY <1>3, <2>1, <3>1, <3>2, Zenon
  <2>2. CASE y.node[k] = NewNode(t)
    BY <1>4, <2>2, NewNodeInv, Zenon
  <2> QED
    BY <1>2, <1>5, <2>1, <2>2, Zenon
<1>6. \A j \in DOMAIN y.node : NodeInv(y.node[j], c, lag)
  BY <1>2, <1>5, Zenon DEF ZoneInv
<1> QED
  BY <1>2, <1>5, <1>6, Zenon DEF y, ZoneInv

\* r is the zone y after a call has settled the node of k: a banned node is
\* left alone, any other becomes n.
Updates(r, y, k, t, n, c, lag) ==
    /\ ZoneInv(r, c, lag)
    /\ DOMAIN r.node = DOMAIN y.node
    /\ \A j \in DOMAIN y.node \ {k} : r.node[j] = y.node[j]
    /\ k \in DOMAIN y.node /\ Banned(y.node[k], t) => r.node[k] = y.node[k]
    /\ k \in DOMAIN y.node /\ ~ Banned(y.node[k], t) => r.node[k] = n

\* record() changes nothing but the node of k after that.
LEMMA RecordFacts ==
    ASSUME NEW z, NEW c, NEW lag, NEW t, NEW k \in Key, ZoneInv(z, c, lag),
           CachedAt(t, c, lag)
    PROVE  Updates(Record(z, k, t), Tracking(z, k, t), k, t,
                   CountError(Tracking(z, k, t).node[k], t), c, lag)
<1> DEFINE y == Tracking(z, k, t)
           r == Record(z, k, t)
<1>1. ZoneInv(y, c, lag) /\ (k \in DOMAIN y.node => y.node[k].last_seen = t)
  BY TrackingInv
<1>2. r = IF k \notin DOMAIN y.node \/ Banned(y.node[k], t)
          THEN y ELSE SetNode(y, k, CountError(y.node[k], t))
  BY Zenon DEF Record
<1> HIDE DEF y, r
<1>3. CASE k \notin DOMAIN y.node \/ Banned(y.node[k], t)
  <2>1. r = y
    BY <1>2, <1>3, Zenon
  <2> QED
    BY <1>1, <1>3, <2>1, Zenon DEF y, r, Updates
<1>4. CASE ~ (k \notin DOMAIN y.node \/ Banned(y.node[k], t))
  <2>1. r = SetNode(y, k, CountError(y.node[k], t))
    BY <1>2, <1>4, Zenon
  <2>2. NodeInv(CountError(y.node[k], t), c, lag)
    BY <1>1, <1>4, CountErrorInv, Zenon DEF ZoneInv
  <2>3. /\ ZoneInv(r, c, lag)
        /\ DOMAIN r.node = DOMAIN y.node
        /\ r.node[k] = CountError(y.node[k], t)
        /\ \A j \in DOMAIN y.node \ {k} : r.node[j] = y.node[j]
    BY <1>1, <1>4, <2>1, <2>2, SetNodeFacts
  <2> QED
    BY <1>4, <2>3, Zenon DEF y, r, Updates
<1> QED
  BY <1>3, <1>4, Zenon

\* is_blocked() changes nothing but the node of k after the lookup.
LEMMA IsBlockedFacts ==
    ASSUME NEW z, NEW c, NEW lag, NEW t, NEW k \in Key, ZoneInv(z, c, lag),
           CachedAt(t, c, lag)
    PROVE  Updates(IsBlocked(z, k, t), FindTouch(z, k, t), k, t,
                   SettleNode(FindTouch(z, k, t).node[k], t), c, lag)
<1> DEFINE f == FindTouch(z, k, t)
           r == IsBlocked(z, k, t)
<1>1. t \in Time /\ GoodZone(z)
  BY DEF CachedAt, ZoneInv
<1>2. /\ GoodZone(f)
      /\ DOMAIN f.node \subseteq DOMAIN z.node
      /\ \A j \in DOMAIN f.node \ {k} : f.node[j] = z.node[j]
      /\ k \in DOMAIN f.node => f.node[k] = [z.node[k] EXCEPT !.last_seen = t]
  BY <1>1, FindTouchFacts
<1>3. r = IF k \notin DOMAIN f.node \/ Banned(f.node[k], t)
          THEN f ELSE SetNode(f, k, SettleNode(f.node[k], t))
  BY Zenon DEF IsBlocked
<1> HIDE DEF f, r
<1>4. ASSUME NEW j \in DOMAIN f.node PROVE NodeInv(f.node[j], c, lag)
  <2>1. NodeInv(z.node[j], c, lag)
    BY <1>2, Zenon DEF ZoneInv
  <2>2. NodeInv([z.node[j] EXCEPT !.last_seen = t], c, lag)
    BY <2>1, TouchNode, Zenon
  <2> QED
    BY <1>2, <2>1, <2>2, Zenon
<1>5. ZoneInv(f, c, lag)
  BY <1>2, <1>4, Zenon DEF ZoneInv
<1>6. CASE k \notin DOMAIN f.node \/ Banned(f.node[k], t)
  <2>1. r = f
    BY <1>3, <1>6, Zenon
  <2> QED
    BY <1>5, <1>6, <2>1, Zenon DEF f, r, Updates
<1>7. CASE ~ (k \notin DOMAIN f.node \/ Banned(f.node[k], t))
  <2>1. r = SetNode(f, k, SettleNode(f.node[k], t))
    BY <1>3, <1>7, Zenon
  <2>2. NodeInv(SettleNode(f.node[k], t), c, lag)
    BY <1>4, <1>7, SettleNodeInv, Zenon
  <2>3. /\ ZoneInv(r, c, lag)
        /\ DOMAIN r.node = DOMAIN f.node
        /\ r.node[k] = SettleNode(f.node[k], t)
        /\ \A j \in DOMAIN f.node \ {k} : r.node[j] = f.node[j]
    BY <1>5, <1>7, <2>1, <2>2, SetNodeFacts
  <2> QED
    BY <1>7, <2>3, Zenon DEF f, r, Updates
<1> QED
  BY <1>6, <1>7, Zenon

-----------------------------------------------------------------------------
(***************************************************************************)
(* Nodes as the callers of the zone see them.                              *)
(***************************************************************************)

\* Nodes as the policy sees them.
Events(z, k) == NodeOf(z, k).events
Until(z, k) == NodeOf(z, k).blocked_until

\* Every identity, with or without a node, has events and a deadline.
LEMMA NodeOfFacts ==
    ASSUME NEW z, NEW c, NEW lag, ZoneInv(z, c, lag), NEW j
    PROVE  /\ Events(z, j) \in Seq(Time) /\ Until(z, j) \in Time
           /\ j \in DOMAIN z.node => NodeOf(z, j) = z.node[j]
           /\ j \notin DOMAIN z.node => Events(z, j) = <<>> /\ Until(z, j) = 0
<1>1. CASE j \in DOMAIN z.node
  <2>1. NodeOf(z, j) = z.node[j] /\ z.node[j] \in Node
    BY <1>1, Zenon DEF NodeOf, ZoneInv, NodeInv
  <2> QED
    BY <1>1, <2>1 DEF Events, Until, Node
<1>2. CASE j \notin DOMAIN z.node
  <2>1. NodeOf(z, j) = ZeroNode
    BY <1>2, Zenon DEF NodeOf
  <2>2. ZeroNode.events = <<>> /\ ZeroNode.blocked_until = 0
    BY DEF ZeroNode
  <2> QED
    BY <1>2, <2>1, <2>2, TimeFacts DEF Events, Until
<1> QED
  BY <1>1, <1>2

-----------------------------------------------------------------------------
(***************************************************************************)
(* Windows and bans across a call.                                         *)
(***************************************************************************)

\* The identity j has no more events in y than in z, and no ban but the one it
\* had there.
NoMore(z, y, j) ==
    /\ Len(Events(y, j)) <= Len(Events(z, j))
    /\ Until(y, j) \in {0, Until(z, j)}

\* Lists of events have lengths.
LEMMA EventsLength ==
    ASSUME NEW z, NEW c, NEW lag, ZoneInv(z, c, lag), NEW j
    PROVE  Len(Events(z, j)) \in Nat
BY NodeOfFacts, LenProperties

\* What is left of the events of a node is not longer than they were.
LEMMA LiveEventsLength ==
    ASSUME NEW n, NEW c, NEW lag, NodeInv(n, c, lag), NEW t \in Int
    PROVE  /\ LiveEvents(n, t) \in Seq(Time)
           /\ Len(LiveEvents(n, t)) <= Len(n.events)
<1>1. PICK e \in Seq(Time) : e = n.events
  BY DEF NodeInv, Node
<1>2. Len(e) \in Nat
  BY <1>1, LenProperties
<1>3. /\ PruneEvents(e, t) \in Seq(Time) /\ StaleRun(e, t) \in 0 .. Len(e)
      /\ Len(PruneEvents(e, t)) = Len(e) - StaleRun(e, t)
  BY <1>1, PruneFacts
<1>4. CASE n.blocked_until # 0
  <2>1. LiveEvents(n, t) = <<>> /\ <<>> \in Seq(Time) /\ Len(<<>>) = 0
    BY <1>4 DEF LiveEvents
  <2> QED
    BY <1>1, <1>2, <2>1
<1>5. CASE n.blocked_until = 0
  <2>1. LiveEvents(n, t) = PruneEvents(e, t)
    BY <1>1, <1>5 DEF LiveEvents
  <2> QED
    BY <1>1, <1>2, <1>3, <2>1
<1> QED
  BY <1>4, <1>5

\* A node that is no longer there had no running ban, and nothing is left.
LEMMA GoneFacts ==
    ASSUME NEW z, NEW c, NEW lag, ZoneInv(z, c, lag),
           NEW y, ZoneInv(y, c, lag), NEW j, j \notin DOMAIN y.node
    PROVE  NoMore(z, y, j)
<1>1. Events(y, j) = <<>> /\ Until(y, j) = 0
  BY NodeOfFacts
<1>2. Len(Events(y, j)) = 0 /\ Len(Events(z, j)) \in Nat
  BY <1>1, EventsLength
<1> QED
  BY <1>1, <1>2 DEF NoMore

\* A node that is the same has the same events and the same ban.
LEMMA SameNodeFacts ==
    ASSUME NEW z, NEW c, NEW lag, ZoneInv(z, c, lag),
           NEW y, ZoneInv(y, c, lag), NEW j \in DOMAIN z.node,
           j \in DOMAIN y.node, y.node[j].events = z.node[j].events,
           y.node[j].blocked_until = z.node[j].blocked_until
    PROVE  NoMore(z, y, j) /\ Until(y, j) = Until(z, j)
<1>1. Events(y, j) = Events(z, j) /\ Until(y, j) = Until(z, j)
  BY Zenon DEF Events, Until, NodeOf
<1>2. Len(Events(z, j)) \in Nat
  BY EventsLength
<1> QED
  BY <1>1, <1>2 DEF NoMore

\* is_blocked() adds no event, starts no ban and ends none that runs.
LEMMA IsBlockedKeeps ==
    ASSUME NEW z, NEW c, NEW lag, NEW t, NEW k \in Key, ZoneInv(z, c, lag),
           CachedAt(t, c, lag), NEW j
    PROVE  LET y == IsBlocked(z, k, t)
           IN  /\ NoMore(z, y, j)
               /\ Until(z, j) > t => Until(y, j) = Until(z, j)
<1> DEFINE y == IsBlocked(z, k, t)
           f == FindTouch(z, k, t)
<1>1. t \in Time /\ t \in Int /\ GoodZone(z) /\ t >= 0
  BY TimeFacts DEF CachedAt, ZoneInv
<1>2. /\ DOMAIN f.node \subseteq DOMAIN z.node
      /\ \A i \in DOMAIN f.node \ {k} : f.node[i] = z.node[i]
      /\ k \in DOMAIN f.node => f.node[k] = [z.node[k] EXCEPT !.last_seen = t]
      /\ \A i \in DOMAIN z.node \ DOMAIN f.node : Expirable(z.node[i], t)
  BY <1>1, FindTouchFacts
<1>3. Updates(y, f, k, t, SettleNode(f.node[k], t), c, lag)
  BY IsBlockedFacts
<1> HIDE DEF y, f
<1>4. ZoneInv(y, c, lag) /\ DOMAIN y.node = DOMAIN f.node
  BY <1>3, Zenon DEF Updates
<1>5. CASE j \notin DOMAIN y.node
  <2>1. NoMore(z, y, j)
    BY <1>4, <1>5, GoneFacts
  <2>2. CASE j \in DOMAIN z.node
    <3>1. ~ (z.node[j].blocked_until > t)
      BY <1>2, <1>4, <1>5, <2>2, Zenon DEF Expirable, Banned
    <3>2. Until(z, j) = z.node[j].blocked_until
      BY <2>2, Zenon DEF Until, NodeOf
    <3> QED
      BY <2>1, <3>1, <3>2, Zenon DEF y
  <2>3. CASE j \notin DOMAIN z.node
    <3>1. Until(z, j) = 0
      BY <2>3, NodeOfFacts
    <3> QED
      BY <1>1, <2>1, <3>1 DEF y
  <2> QED
    BY <2>2, <2>3
<1>6. CASE j \in DOMAIN y.node /\ j # k
  <2>1. j \in DOMAIN z.node /\ y.node[j] = z.node[j]
    BY <1>2, <1>3, <1>4, <1>6, Zenon DEF Updates
  <2>2. NoMore(z, y, j) /\ Until(y, j) = Until(z, j)
    <3>1. /\ y.node[j].events = z.node[j].events
          /\ y.node[j].blocked_until = z.node[j].blocked_until
      BY <2>1, Zenon
    <3> QED
      BY <1>4, <1>6, <2>1, <3>1, SameNodeFacts
  <2> QED
    BY <1>6, <2>2, Zenon DEF y
<1>7. CASE j \in DOMAIN y.node /\ j = k
  <2>1. PICK n : n = z.node[k]
    OBVIOUS
  <2>2. k \in DOMAIN z.node /\ NodeInv(n, c, lag) /\ n \in Node
    BY <1>2, <1>4, <1>7, <2>1 DEF ZoneInv, NodeInv
  <2>3. PICK m : m = [n EXCEPT !.last_seen = t]
    OBVIOUS
  <2>4. f.node[k] = m /\ k \in DOMAIN f.node
    BY <1>2, <1>4, <1>7, <2>1, <2>3
  <2>5. m.events = n.events /\ m.blocked_until = n.blocked_until /\ m \in Node
    BY <1>1, <2>2, <2>3 DEF Node
  <2>6. CASE Banned(m, t)
    <3>1. y.node[k] = m
      BY <1>3, <2>4, <2>6, Zenon DEF Updates
    <3> QED
      BY <1>4, <1>7, <2>1, <2>2, <2>5, <3>1, SameNodeFacts DEF y
  <2>7. CASE ~ Banned(m, t)
    <3>1. y.node[k] = SettleNode(m, t)
      BY <1>3, <2>4, <2>7, Zenon DEF Updates
    <3>2. /\ y.node[k].events = LiveEvents(m, t)
          /\ y.node[k].blocked_until = 0
      BY <2>5, <3>1 DEF SettleNode, Node
    <3>3. LiveEvents(m, t) = LiveEvents(n, t)
      BY <2>5 DEF LiveEvents
    <3>4. Len(LiveEvents(n, t)) <= Len(n.events)
      BY <1>1, <2>2, LiveEventsLength
    <3>5. Events(y, k) = LiveEvents(n, t) /\ Until(y, k) = 0
      BY <1>7, <3>2, <3>3 DEF Events, Until, NodeOf
    <3>6. Events(z, k) = n.events /\ Until(z, k) = n.blocked_until
      BY <2>1, <2>2 DEF Events, Until, NodeOf
    <3>7. ~ (Until(z, k) > t)
      BY <2>5, <2>7, <3>6 DEF Banned
    <3> QED
      BY <1>7, <3>4, <3>5, <3>6, <3>7 DEF NoMore, y
  <2> QED
    BY <2>6, <2>7
<1> QED
  BY <1>5, <1>6, <1>7, Zenon

\* record() adds at most one event, to k, starts a ban only when that fills
\* the window, and ends no ban that runs.
LEMMA RecordKeeps ==
    ASSUME NEW z, NEW c, NEW lag, NEW t, NEW k \in Key, ZoneInv(z, c, lag),
           CachedAt(t, c, lag), NEW j
    PROVE  LET y == Record(z, k, t)
           IN  /\ j # k => NoMore(z, y, j)
               /\ Until(z, j) > t => Until(y, j) = Until(z, j)
               /\ j = k => /\ Len(Events(y, k)) <= Len(Events(z, k)) + 1
                           /\ Until(y, k) # 0 =>
                                 \/ Until(z, k) # 0
                                 \/ Len(Events(z, k)) + 1 >= Threshold
               /\ k \notin DOMAIN y.node => NoMore(z, y, k)
<1> DEFINE y == Record(z, k, t)
           f == Tracking(z, k, t)
<1>1. t \in Time /\ t \in Int /\ GoodZone(z) /\ t >= 0
  BY TimeFacts DEF CachedAt, ZoneInv
<1>2. /\ \A i \in DOMAIN f.node \ {k} :
             i \in DOMAIN z.node /\ f.node[i] = z.node[i]
      /\ \A i \in DOMAIN z.node \ DOMAIN f.node : ~ Banned(z.node[i], t)
      /\ \/ /\ k \in DOMAIN f.node /\ k \in DOMAIN z.node
            /\ f.node[k] = [z.node[k] EXCEPT !.last_seen = t]
         \/ /\ k \in DOMAIN z.node => Expirable(z.node[k], t)
            /\ \/ k \in DOMAIN f.node /\ f.node[k] = NewNode(t)
               \/ k \notin DOMAIN f.node
  BY <1>1, TrackingFacts, Zenon
<1>3. Updates(y, f, k, t, CountError(f.node[k], t), c, lag)
  BY RecordFacts
<1>3a. ZoneInv(f, c, lag) /\ (k \in DOMAIN f.node => f.node[k].last_seen = t)
  BY TrackingInv
<1> HIDE DEF y, f
<1>4. ZoneInv(y, c, lag) /\ DOMAIN y.node = DOMAIN f.node
  BY <1>3, Zenon DEF Updates
<1>4a. Len(Events(z, k)) \in Nat /\ Len(Events(y, k)) \in Nat
  BY <1>4, EventsLength
<1>5. CASE j \notin DOMAIN y.node
  <2>1. NoMore(z, y, j)
    BY <1>4, <1>5, GoneFacts
  <2>2. Until(z, j) > t => Until(y, j) = Until(z, j)
    <3>1. CASE j \in DOMAIN z.node
      <4>1. ~ (z.node[j].blocked_until > t)
        BY <1>2, <1>4, <1>5, <3>1, Zenon DEF Banned
      <4>2. Until(z, j) = z.node[j].blocked_until
        BY <3>1, Zenon DEF Until, NodeOf
      <4> QED
        BY <4>1, <4>2
    <3>2. CASE j \notin DOMAIN z.node
      <4>1. Until(z, j) = 0
        BY <3>2, NodeOfFacts
      <4> QED
        BY <1>1, <4>1
    <3> QED
      BY <3>1, <3>2
  <2>3. k \notin DOMAIN y.node => NoMore(z, y, k)
    BY <1>4, GoneFacts
  <2>4. j = k => Len(Events(y, k)) <= Len(Events(z, k)) + 1
    BY <1>4a, <2>1 DEF NoMore
  <2> QED
    BY <2>1, <2>2, <2>3, <2>4 DEF NoMore, y
<1>6. CASE j \in DOMAIN y.node /\ j # k
  <2>1. j \in DOMAIN z.node /\ y.node[j] = z.node[j]
    BY <1>2, <1>3, <1>4, <1>6, Zenon DEF Updates
  <2>2. NoMore(z, y, j) /\ Until(y, j) = Until(z, j)
    <3>1. /\ y.node[j].events = z.node[j].events
          /\ y.node[j].blocked_until = z.node[j].blocked_until
      BY <2>1, Zenon
    <3> QED
      BY <1>4, <1>6, <2>1, <3>1, SameNodeFacts
  <2>3. k \notin DOMAIN y.node => NoMore(z, y, k)
    BY <1>4, GoneFacts
  <2> QED
    BY <1>6, <2>2, <2>3, Zenon DEF y
<1>7. CASE j \in DOMAIN y.node /\ j = k
  <2>1. PICK m : m = f.node[k]
    OBVIOUS
  <2>2. k \in DOMAIN f.node /\ NodeInv(m, c, lag) /\ m.last_seen = t
    BY <1>3a, <1>4, <1>7, <2>1, Zenon DEF ZoneInv
  <2>3. \/ /\ k \in DOMAIN z.node
           /\ m.events = z.node[k].events
           /\ m.blocked_until = z.node[k].blocked_until
        \/ /\ m.events = <<>> /\ m.blocked_until = 0
           /\ k \in DOMAIN z.node => ~ Banned(z.node[k], t)
    <3>1. CASE k \in DOMAIN z.node /\ m = [z.node[k] EXCEPT !.last_seen = t]
      <4>1. PICK n \in Node : n = z.node[k]
        BY <3>1 DEF ZoneInv, NodeInv
      <4> QED
        BY <3>1, <4>1 DEF Node
    <3>2. CASE (k \in DOMAIN z.node => Expirable(z.node[k], t)) /\ m = NewNode(t)
      <4>1. m.events = <<>> /\ m.blocked_until = 0
        BY <3>2 DEF NewNode, ZeroNode
      <4> QED
        BY <3>2, <4>1, Zenon DEF Expirable
    <3> QED
      BY <1>2, <2>1, <2>2, <3>1, <3>2, Zenon
  <2>4. /\ Len(m.events) <= Len(Events(z, k))
        /\ m.blocked_until # 0 => Until(z, k) # 0
        /\ Until(z, k) > t => m.blocked_until = Until(z, k)
    <3>1. k \in DOMAIN z.node =>
             /\ Events(z, k) = z.node[k].events
             /\ Until(z, k) = z.node[k].blocked_until
      BY Zenon DEF Events, Until, NodeOf
    <3>2. k \notin DOMAIN z.node => Until(z, k) = 0
      BY NodeOfFacts
    <3>3. Len(<<>>) = 0
      OBVIOUS
    <3>4. CASE /\ k \in DOMAIN z.node
               /\ m.events = z.node[k].events
               /\ m.blocked_until = z.node[k].blocked_until
      BY <1>4a, <3>1, <3>4
    <3>5. CASE /\ m.events = <<>> /\ m.blocked_until = 0
               /\ k \in DOMAIN z.node => ~ Banned(z.node[k], t)
      BY <1>1, <1>4a, <3>1, <3>2, <3>3, <3>5 DEF Banned
    <3> QED
      BY <2>3, <3>4, <3>5
  <2>5. CASE Banned(m, t)
    <3>1. y.node[k] = m
      BY <1>3, <2>1, <2>2, <2>5, Zenon DEF Updates
    <3>2. Events(y, k) = m.events /\ Until(y, k) = m.blocked_until
      BY <1>7, <3>1 DEF Events, Until, NodeOf
    <3> QED
      BY <1>4a, <1>7, <2>4, <3>2 DEF y
  <2>6. CASE ~ Banned(m, t)
    <3>1. y.node[k] = CountError(m, t)
      BY <1>3, <2>1, <2>2, <2>6, Zenon DEF Updates
    <3>2. PICK e \in Seq(Time) : e = LiveEvents(m, t) /\ Len(e) <= Len(m.events)
      BY <1>1, <2>2, LiveEventsLength
    <3>3. Len(e) \in Nat /\ Len(Append(e, t)) = Len(e) + 1 /\ Len(m.events) \in Nat
      <4>1. m.events \in Seq(Time)
        BY <2>2 DEF NodeInv, Node
      <4> QED
        BY <1>1, <3>2, <4>1, LenProperties, AppendProperties
    <3>4. LET n == CountError(m, t)
          IN  IF Len(e) + 1 >= Threshold
              THEN n.events = <<>> /\ n.blocked_until = TimeAddSaturate(t, Block)
              ELSE n.events = Append(e, t) /\ n.blocked_until = 0
      BY <2>2, <3>2, CountErrorShape
    <3>5. Events(y, k) = y.node[k].events /\ Until(y, k) = y.node[k].blocked_until
      BY <1>7 DEF Events, Until, NodeOf
    <3>6. Len(Events(y, k)) <= Len(e) + 1
      <4>1. CASE Len(e) + 1 >= Threshold
        <5>1. Events(y, k) = <<>> /\ Len(<<>>) = 0
          BY <3>1, <3>4, <3>5, <4>1
        <5> QED
          BY <3>3, <5>1
      <4>2. CASE ~ (Len(e) + 1 >= Threshold)
        BY <3>1, <3>3, <3>4, <3>5, <4>2
      <4> QED
        BY <4>1, <4>2
    <3>7. Until(y, k) # 0 => Len(e) + 1 >= Threshold
      BY <3>1, <3>4, <3>5
    <3>8. ~ (Until(z, k) > t)
      BY <2>4, <2>6 DEF Banned
    <3>9. Len(Events(y, k)) <= Len(Events(z, k)) + 1
      BY <1>4a, <2>4, <3>2, <3>3, <3>6
    <3>10. Len(e) + 1 >= Threshold => Len(Events(z, k)) + 1 >= Threshold
      BY <1>4a, <2>4, <3>2, <3>3, ZoneParameters
    <3> QED
      BY <1>7, <3>7, <3>8, <3>9, <3>10 DEF y
  <2> QED
    BY <2>5, <2>6
<1> QED
  BY <1>5, <1>6, <1>7, Zenon

-----------------------------------------------------------------------------
(***************************************************************************)
(* Loading.  Both loops are recursive functions on an interval: each one   *)
(* exists by induction on its upper end, and what it keeps follows by      *)
(* induction on its index.                                                 *)
(***************************************************************************)

\* The rounds of load's loop over the records: k[i] is what it has after i of
\* them.
IsLoadRun(k, recs, t) ==
    /\ k[0] = [zone |-> EmptyZone, full |-> FALSE]
    /\ \A i \in 1 .. Len(recs) : k[i] = LoadRecord(k[i - 1], recs[i], t)

\* The same for the events of a record.
IsWindowRun(k, e, t) ==
    /\ k[0] = <<>>
    /\ \A i \in 1 .. Len(e) :
           k[i] = IF e[i] > t - Interval /\ e[i] <= t
                  THEN Append(k[i - 1], e[i]) ELSE k[i - 1]

\* Both exist.
LEMMA LoadRun ==
    ASSUME NEW recs, Len(recs) \in Nat, NEW t
    PROVE  \E k : IsLoadRun(k, recs, t) /\ LoadAll(recs, t) = k[Len(recs)].zone
<1> DEFINE n == Len(recs)
           Step(g, i) == IF i = 0 THEN [zone |-> EmptyZone, full |-> FALSE]
                         ELSE LoadRecord(g[i - 1], recs[i], t)
           IsRun(g, m) == g = [i \in 0 .. m |-> Step(g, i)]
<1>1. n \in Nat
  OBVIOUS
<1>2. \A m \in 0 .. n : \E g : IsRun(g, m)
  <2> DEFINE S == {m \in 0 .. n : \E g : IsRun(g, m)}
  <2>1. 0 \in S
    <3>1. PICK g : g = [i \in 0 .. 0 |-> [zone |-> EmptyZone, full |-> FALSE]]
      OBVIOUS
    <3>2. \A i \in 0 .. 0 : Step(g, i) = [zone |-> EmptyZone, full |-> FALSE]
      OBVIOUS
    <3> HIDE DEF Step
    <3>3. IsRun(g, 0)
      BY <3>1, <3>2
    <3> QED
      BY <1>1, <3>3
  <2>2. ASSUME NEW m \in 1 .. n, m - 1 \in S
        PROVE  m \in S
    <3>1. PICK g : IsRun(g, m - 1)
      BY <2>2, Zenon
    <3>2. PICK h : h = [i \in 0 .. m |-> IF i = m THEN Step(g, i) ELSE g[i]]
      OBVIOUS
    <3>3. \A i \in 0 .. m : i # m => i \in 0 .. m - 1
      BY <1>1
    <3>4. \A i \in 0 .. m : i # 0 => i - 1 \in 0 .. m - 1 /\ i - 1 # m
      BY <1>1
    <3>5. \A i \in 0 .. m - 1 : i \in 0 .. m /\ i # m /\ g[i] = Step(g, i)
      <4> HIDE DEF Step
      <4>1. \A i \in 0 .. m - 1 : g[i] = Step(g, i)
        BY <3>1
      <4> QED
        BY <1>1, <4>1
    <3>6. \A i \in 0 .. m - 1 : h[i] = g[i]
      BY <3>2, <3>5
    <3> HIDE DEF n
    <3>7. ASSUME NEW i \in 0 .. m PROVE h[i] = Step(h, i)
      <4>1. i # 0 => h[i - 1] = g[i - 1]
        BY <3>4, <3>6
      <4>2. Step(h, i) = Step(g, i)
        BY <4>1
      <4>3. h[i] = Step(g, i)
        BY <3>2, <3>3, <3>5
      <4> QED
        BY <4>2, <4>3, Zenon
    <3>8. IsRun(h, m)
      <4> HIDE DEF Step
      <4>1. h = [i \in 0 .. m |-> h[i]]
        BY <3>2
      <4> QED
        BY <3>7, <4>1
    <3> HIDE DEF IsRun, n
    <3> QED
      BY <1>1, <3>8
  <2> HIDE DEF S
  <2>3. \A m \in 0 .. n : m \in S
    BY <1>1, <2>1, <2>2, UpTo
  <2> QED
    BY <2>3 DEF S
<1>3. PICK k : IsRun(k, n) /\ LoadAll(recs, t) = k[n].zone
  <2>1. LoadAll(recs, t) = (CHOOSE g : IsRun(g, n))[n].zone
    BY DEF LoadAll
  <2> HIDE DEF IsRun, n
  <2>2. \E g : IsRun(g, n)
    BY <1>1, <1>2
  <2> QED
    BY <2>1, <2>2
<1>4. \A i \in 0 .. n : k[i] = Step(k, i)
  <2> HIDE DEF Step, n
  <2> QED
    BY <1>1, <1>3
<1>5. /\ k[0] = [zone |-> EmptyZone, full |-> FALSE]
      /\ \A i \in 1 .. n : k[i] = LoadRecord(k[i - 1], recs[i], t)
  <2>1. \A i \in 1 .. n : i \in 0 .. n /\ i # 0
    BY <1>1
  <2>2. 0 \in 0 .. n
    BY <1>1
  <2> HIDE DEF n, IsRun
  <2> QED
    BY <1>4, <2>1, <2>2, Zenon
<1> HIDE DEF IsRun
<1> QED
  BY <1>3, <1>5 DEF IsLoadRun

LEMMA WindowRun ==
    ASSUME NEW e, Len(e) \in Nat, NEW t
    PROVE  \E k : IsWindowRun(k, e, t) /\ InWindow(e, t) = k[Len(e)]
<1> DEFINE n == Len(e)
           Step(g, i) == IF i = 0 THEN <<>>
                         ELSE IF e[i] > t - Interval /\ e[i] <= t
                         THEN Append(g[i - 1], e[i])
                         ELSE g[i - 1]
           IsRun(g, m) == g = [i \in 0 .. m |-> Step(g, i)]
<1>1. n \in Nat
  OBVIOUS
<1>2. \A m \in 0 .. n : \E g : IsRun(g, m)
  <2> DEFINE S == {m \in 0 .. n : \E g : IsRun(g, m)}
  <2>1. 0 \in S
    <3>1. PICK g : g = [i \in 0 .. 0 |-> <<>>]
      OBVIOUS
    <3>2. \A i \in 0 .. 0 : Step(g, i) = <<>>
      OBVIOUS
    <3> HIDE DEF Step
    <3>3. IsRun(g, 0)
      BY <3>1, <3>2
    <3> QED
      BY <1>1, <3>3
  <2>2. ASSUME NEW m \in 1 .. n, m - 1 \in S
        PROVE  m \in S
    <3>1. PICK g : IsRun(g, m - 1)
      BY <2>2, Zenon
    <3>2. PICK h : h = [i \in 0 .. m |-> IF i = m THEN Step(g, i) ELSE g[i]]
      OBVIOUS
    <3>3. \A i \in 0 .. m : i # m => i \in 0 .. m - 1
      BY <1>1
    <3>4. \A i \in 0 .. m : i # 0 => i - 1 \in 0 .. m - 1 /\ i - 1 # m
      BY <1>1
    <3>5. \A i \in 0 .. m - 1 : i \in 0 .. m /\ i # m /\ g[i] = Step(g, i)
      <4> HIDE DEF Step
      <4>1. \A i \in 0 .. m - 1 : g[i] = Step(g, i)
        BY <3>1
      <4> QED
        BY <1>1, <4>1
    <3>6. \A i \in 0 .. m - 1 : h[i] = g[i]
      BY <3>2, <3>5
    <3> HIDE DEF n
    <3>7. ASSUME NEW i \in 0 .. m PROVE h[i] = Step(h, i)
      <4>1. i # 0 => h[i - 1] = g[i - 1]
        BY <3>4, <3>6
      <4>2. Step(h, i) = Step(g, i)
        BY <4>1
      <4>3. h[i] = Step(g, i)
        BY <3>2, <3>3, <3>5
      <4> QED
        BY <4>2, <4>3, Zenon
    <3>8. IsRun(h, m)
      <4> HIDE DEF Step
      <4>1. h = [i \in 0 .. m |-> h[i]]
        BY <3>2
      <4> QED
        BY <3>7, <4>1
    <3> HIDE DEF IsRun, n
    <3> QED
      BY <1>1, <3>8
  <2> HIDE DEF S
  <2>3. \A m \in 0 .. n : m \in S
    BY <1>1, <2>1, <2>2, UpTo
  <2> QED
    BY <2>3 DEF S
<1>3. PICK k : IsRun(k, n) /\ InWindow(e, t) = k[n]
  <2>1. InWindow(e, t) = (CHOOSE g : IsRun(g, n))[n]
    BY DEF InWindow
  <2> HIDE DEF IsRun, n
  <2>2. \E g : IsRun(g, n)
    BY <1>1, <1>2
  <2> QED
    BY <2>1, <2>2
<1>4. \A i \in 0 .. n : k[i] = Step(k, i)
  <2> HIDE DEF Step, n
  <2> QED
    BY <1>1, <1>3
<1>5. /\ k[0] = <<>>
      /\ \A i \in 1 .. n :
            k[i] = IF e[i] > t - Interval /\ e[i] <= t
                   THEN Append(k[i - 1], e[i]) ELSE k[i - 1]
  <2>1. \A i \in 1 .. n : i \in 0 .. n /\ i # 0
    BY <1>1
  <2>2. 0 \in 0 .. n
    BY <1>1
  <2> HIDE DEF n, IsRun
  <2> QED
    BY <1>4, <2>1, <2>2, Zenon
<1> HIDE DEF IsRun
<1> QED
  BY <1>3, <1>5 DEF IsWindowRun

\* load's loop over the events of a record keeps some of them, in their order.
LEMMA InWindowFacts ==
    ASSUME NEW e \in Seq(Time), NEW t \in Int,
           NEW seen, NEW c, NEW lag, EventsInv(e, seen, c, lag)
    PROVE  LET w == InWindow(e, t)
           IN  /\ w \in Seq(Time) /\ Len(w) <= Len(e)
               /\ EventsInv(w, seen, c, lag)
<1> DEFINE n == Len(e)
<1>1. n \in Nat
  BY LenProperties
<1>3. PICK k : IsWindowRun(k, e, t) /\ InWindow(e, t) = k[n]
  BY <1>1, WindowRun
<1>5. /\ k[0] = <<>>
      /\ \A i \in 1 .. n :
            k[i] = k[i - 1] \/ k[i] = Append(k[i - 1], e[i])
  BY <1>3 DEF IsWindowRun
<1>6. \A i \in 1 .. n : e[i] \in Time
  BY ElementOfSeq
<1> DEFINE Good(i) ==
        /\ k[i] \in Seq(Time) /\ Len(k[i]) <= i
        /\ \A x \in 1 .. Len(k[i]) : \E y \in 1 .. i : k[i][x] = e[y]
        /\ \A x, y \in 1 .. Len(k[i]) : x < y => k[i][y] >= k[i][x] - lag
<1>7. Good(0)
  BY <1>5
<1>8. ASSUME NEW i \in 1 .. n, Good(i - 1)
      PROVE  Good(i)
  <2>1. PICK w \in Seq(Time) : w = k[i - 1]
    BY <1>8
  <2>2. /\ Len(w) \in Nat /\ Len(w) <= i - 1
        /\ \A x \in 1 .. Len(w) : \E y \in 1 .. i - 1 : w[x] = e[y]
        /\ \A x, y \in 1 .. Len(w) : x < y => w[y] >= w[x] - lag
    BY <1>8, <2>1, LenProperties
  <2>3. \A y \in 1 .. i - 1 : y \in 1 .. i /\ y < i /\ y \in 1 .. n
    BY <1>1
  <2>4. CASE k[i] = w
    <3>1. Len(k[i]) <= i
      BY <2>2, <2>4
    <3> QED
      BY <2>2, <2>3, <2>4, <3>1, Zenon
  <2>5. CASE k[i] = Append(w, e[i])
    <3>1. PICK v : v = Append(w, e[i])
      OBVIOUS
    <3>2. /\ v \in Seq(Time) /\ Len(v) = Len(w) + 1
          /\ \A x \in 1 .. Len(w) : v[x] = w[x]
          /\ v[Len(w) + 1] = e[i]
      BY <1>6, <3>1, AppendProperties
    <3>3. Len(v) <= i
      BY <2>2, <3>2
    <3>4. \A x \in 1 .. Len(v) : x \in 1 .. Len(w) \/ x = Len(w) + 1
      BY <2>2, <3>2
    <3>5. \A x \in 1 .. Len(v) : \E y \in 1 .. i : v[x] = e[y]
      BY <2>2, <2>3, <3>2, <3>4
    <3>6. ASSUME NEW x \in 1 .. Len(v), NEW y \in 1 .. Len(v), x < y
          PROVE  v[y] >= v[x] - lag
      <4>1. x \in 1 .. Len(w)
        BY <2>2, <3>2, <3>6
      <4>2. CASE y \in 1 .. Len(w)
        BY <2>2, <3>2, <3>6, <4>1, <4>2
      <4>3. CASE y = Len(w) + 1
        <5>1. PICK u \in 1 .. i - 1 : w[x] = e[u]
          BY <2>2, <4>1
        <5>2. e[i] >= e[u] - lag
          BY <2>3 DEF EventsInv
        <5> QED
          BY <3>2, <4>1, <4>3, <5>1, <5>2
      <4> QED
        BY <3>4, <4>2, <4>3
    <3> QED
      BY <2>5, <3>1, <3>2, <3>3, <3>5, <3>6
  <2>6. k[i] = w \/ k[i] = Append(w, e[i])
    BY <1>5, <2>1
  <2> QED
    BY <2>4, <2>5, <2>6
<1>9. Good(n)
  <2> DEFINE S == {i \in 0 .. n : Good(i)}
  <2> HIDE DEF Good
  <2>1. 0 \in S
    BY <1>1, <1>7
  <2>2. \A i \in 1 .. n : i - 1 \in S => i \in S
    BY <1>1, <1>8
  <2> HIDE DEF S
  <2>3. \A i \in 0 .. n : i \in S
    BY <1>1, <2>1, <2>2, UpTo
  <2> QED
    BY <1>1, <2>3 DEF S
<1>10. PICK w : w = InWindow(e, t) /\ w = k[n]
  BY <1>3
<1>11. /\ w \in Seq(Time) /\ Len(w) <= n
       /\ \A x \in 1 .. Len(w) : \E y \in 1 .. n : w[x] = e[y]
       /\ \A x, y \in 1 .. Len(w) : x < y => w[y] >= w[x] - lag
  BY <1>9, <1>10
<1>12. EventsInv(w, seen, c, lag)
  BY <1>11 DEF EventsInv
<1> QED
  BY <1>10, <1>11, <1>12

\* A record of a snapshot that was taken at time c, whose ban is not later
\* than the one granted to its identity.
RecordInv(rec, c, bans) ==
    /\ rec.key \in Key
    /\ NodeInv(rec.node, c, 0)
    /\ rec.node.blocked_until <= bans[rec.key]

\* No ban in z is later than the one granted to its identity.
BansGranted(z, bans) == \A k \in Key : Until(z, k) <= bans[k]

\* A restored node is a good one, and its ban is not later.
LEMMA RestoredFacts ==
    ASSUME NEW n, NEW c, NodeInv(n, c, 0), NEW t \in Time, c <= t, c \in Int
    PROVE  /\ NodeInv(Restored(n, t), t, 0)
           /\ Restored(n, t).blocked_until <= n.blocked_until
<1>1. PICK e \in Seq(Time) : e = n.events
  BY DEF NodeInv, Node
<1>2. /\ n.blocked_until \in Time /\ n.last_seen \in Time /\ Len(e) < Threshold
      /\ n.blocked_until # 0 => e = <<>>
      /\ n.last_seen <= c /\ EventsInv(e, n.last_seen, c, 0)
  BY <1>1 DEF NodeInv, Node
<1>3. t \in Int /\ t >= 0 /\ Len(e) \in Nat
  BY TimeFacts, LenProperties
<1>4. PICK w \in Seq(Time) : /\ w = InWindow(e, t) /\ Len(w) <= Len(e)
                             /\ EventsInv(w, n.last_seen, c, 0)
  BY <1>2, <1>3, InWindowFacts
<1>5. Len(w) \in Nat /\ (e = <<>> => w = <<>>)
  BY <1>4, LenProperties, EmptySeq
<1>6. PICK limit \in Time : limit = TimeAddSaturate(t, Block)
  BY SaturateType, ZoneParameters
<1>7. PICK r : r = Restored(n, t)
  OBVIOUS
<1>8. /\ r.blocked_until = IF n.blocked_until <= t THEN 0
                           ELSE IF n.blocked_until < limit
                           THEN n.blocked_until ELSE limit
      /\ r.last_seen = IF n.last_seen > 0 /\ n.last_seen <= t
                       THEN n.last_seen ELSE t
      /\ r.events = w
      /\ r = [blocked_until |-> r.blocked_until, last_seen |-> r.last_seen,
              events |-> w]
  BY <1>1, <1>4, <1>6, <1>7 DEF Restored
<1>9. /\ r.blocked_until \in Time /\ r.blocked_until <= n.blocked_until
      /\ r.blocked_until # 0 => n.blocked_until # 0
      /\ r.last_seen \in Time /\ r.last_seen <= t /\ r.last_seen >= n.last_seen
  BY <1>2, <1>3, <1>6, <1>8, TimeFacts
<1>10. r \in Node
  BY <1>8, <1>9 DEF Node
<1>11. Len(w) < Threshold
  BY <1>2, <1>3, <1>4, <1>5, ZoneParameters
<1>12. EventsInv(w, r.last_seen, t, 0)
  <2>1. \A i \in 1 .. Len(w) : w[i] \in Int
    BY ElementOfSeq, TimeFacts
  <2>2. n.last_seen \in Int /\ r.last_seen \in Int
    BY <1>2, <1>9, TimeFacts
  <2> QED
    BY <1>3, <1>4, <1>9, <2>1, <2>2 DEF EventsInv
<1> QED
  BY <1>2, <1>5, <1>7, <1>8, <1>9, <1>10, <1>11, <1>12 DEF NodeInv

\* One round of load's loop.
LEMMA LoadRecordFacts ==
    ASSUME NEW t, CachedAt(t, t, 0), NEW c \in Int, c <= t,
           NEW bans \in [Key -> Time],
           NEW acc, ZoneInv(acc.zone, t, 0), BansGranted(acc.zone, bans),
           NEW rec, RecordInv(rec, c, bans)
    PROVE  LET r == LoadRecord(acc, rec, t)
           IN  ZoneInv(r.zone, t, 0) /\ BansGranted(r.zone, bans)
<1>1. PICK k \in Key : k = rec.key
  BY DEF RecordInv
<1>2. PICK x : x = acc.zone
  OBVIOUS
<1>3. PICK y : y = IF k \in DOMAIN x.node THEN x ELSE CreateNode(x, k, t)
  OBVIOUS
<1>4. PICK n : n = Restored(rec.node, t)
  OBVIOUS
<1>5. NodeInv(n, t, 0) /\ n.blocked_until <= bans[k]
  <2>1. t \in Time /\ bans[k] \in Time
    BY DEF CachedAt
  <2>2. /\ NodeInv(n, t, 0) /\ n.blocked_until <= rec.node.blocked_until
        /\ rec.node.blocked_until <= bans[k]
    BY <1>1, <1>4, <2>1, RestoredFacts DEF RecordInv
  <2>3. n.blocked_until \in Time /\ rec.node.blocked_until \in Time
    BY <2>2 DEF RecordInv, NodeInv, Node
  <2> QED
    BY <2>1, <2>2, <2>3, TimeFacts
<1>6. ZoneInv(y, t, 0) /\ BansGranted(y, bans)
  <2>1. CASE k \in DOMAIN x.node
    BY <1>2, <1>3, <2>1
  <2>2. CASE k \notin DOMAIN x.node
    <3>1. y = CreateNode(x, k, t) /\ t \in Time
      BY <1>3, <2>2 DEF CachedAt
    <3>2. GoodZone(x)
      BY <1>2 DEF ZoneInv
    <3>3. /\ GoodZone(y)
          /\ \A j \in DOMAIN y.node \ {k} :
                 j \in DOMAIN x.node /\ y.node[j] = x.node[j]
          /\ k \in DOMAIN y.node => y.node[k] = NewNode(t)
      BY <2>2, <3>1, <3>2, CreateNodeFacts, Zenon
    <3>4. NodeInv(NewNode(t), t, 0)
      BY NewNodeInv
    <3>5. ZoneInv(y, t, 0)
      BY <1>2, <3>3, <3>4, Zenon DEF ZoneInv
    <3>6. ASSUME NEW j \in Key PROVE Until(y, j) <= bans[j]
      <4>1. bans[j] \in Time /\ Until(x, j) <= bans[j]
        BY <1>2 DEF BansGranted
      <4>2. CASE j \notin DOMAIN y.node \/ j = k
        <5>1. Until(y, j) = 0
          <6>1. NewNode(t).blocked_until = 0
            BY DEF NewNode, ZeroNode
          <6>2. ZeroNode.blocked_until = 0
            BY DEF ZeroNode
          <6> QED
            BY <3>3, <4>2, <6>1, <6>2 DEF Until, NodeOf
        <5> QED
          BY <4>1, <5>1, TimeFacts
      <4>3. CASE j \in DOMAIN y.node /\ j # k
        <5>1. Until(y, j) = Until(x, j)
          BY <3>3, <4>3 DEF Until, NodeOf
        <5> QED
          BY <4>1, <5>1
      <4> QED
        BY <4>2, <4>3
    <3> QED
      BY <3>5, <3>6 DEF BansGranted
  <2> QED
    BY <2>1, <2>2
<1>7. PICK r : r = LoadRecord(acc, rec, t)
  OBVIOUS
<1>8. r = IF acc.full \/ Spent(rec.node, t) THEN acc
          ELSE IF k \notin DOMAIN y.node
          THEN [zone |-> y, full |-> TRUE]
          ELSE [zone |-> SetNode(y, k, n), full |-> FALSE]
  BY <1>1, <1>2, <1>3, <1>4, <1>7, Zenon DEF LoadRecord
<1>9. r.zone \in {x, y} \/ (k \in DOMAIN y.node /\ r.zone = SetNode(y, k, n))
  BY <1>2, <1>8
<1>10. ASSUME k \in DOMAIN y.node, r.zone = SetNode(y, k, n)
       PROVE  ZoneInv(r.zone, t, 0) /\ BansGranted(r.zone, bans)
  <2>1. PICK z : z = SetNode(y, k, n)
    OBVIOUS
  <2>2. /\ ZoneInv(z, t, 0)
        /\ DOMAIN z.node = DOMAIN y.node
        /\ z.node[k] = n
        /\ \A j \in DOMAIN y.node \ {k} : z.node[j] = y.node[j]
    BY <1>5, <1>6, <1>10, <2>1, SetNodeFacts
  <2>3. ASSUME NEW j \in Key PROVE Until(z, j) <= bans[j]
    <3>1. CASE j = k
      BY <1>5, <1>10, <2>2, <3>1 DEF Until, NodeOf
    <3>2. CASE j # k
      <4>1. Until(z, j) = Until(y, j)
        BY <2>2, <3>2 DEF Until, NodeOf
      <4> QED
        BY <1>6, <4>1 DEF BansGranted
    <3> QED
      BY <3>1, <3>2
  <2> QED
    BY <1>10, <2>1, <2>2, <2>3 DEF BansGranted
<1> QED
  BY <1>2, <1>6, <1>7, <1>9, <1>10

\* An empty zone.
LEMMA EmptyZoneFacts ==
    ASSUME NEW c, NEW bans \in [Key -> Time]
    PROVE  ZoneInv(EmptyZone, c, 0) /\ BansGranted(EmptyZone, bans)
<1>1. PICK y : y = EmptyZone
  OBVIOUS
<1>2. y.queue = <<>> /\ y.node = <<>> /\ DOMAIN y.node = {}
  BY <1>1 DEF EmptyZone
<1>3. IsZone(y) /\ WellLinked(y)
  BY <1>2, ZoneLimits DEF IsZone, WellLinked
<1>4. \A k \in Key : Until(y, k) = 0 /\ bans[k] \in Time
  BY <1>2 DEF Until, NodeOf, ZeroNode
<1>5. BansGranted(y, bans)
  BY <1>4, TimeFacts DEF BansGranted
<1> QED
  BY <1>1, <1>2, <1>3, <1>5 DEF ZoneInv, GoodZone

\* load.
LEMMA LoadAllFacts ==
    ASSUME NEW t, CachedAt(t, t, 0), NEW c \in Int, c <= t,
           NEW bans \in [Key -> Time],
           NEW recs, Len(recs) \in Nat,
           \A i \in 1 .. Len(recs) : RecordInv(recs[i], c, bans)
    PROVE  LET z == LoadAll(recs, t)
           IN  ZoneInv(z, t, 0) /\ BansGranted(z, bans)
<1> DEFINE n == Len(recs)
<1>1. n \in Nat
  OBVIOUS
<1>3. PICK k : IsLoadRun(k, recs, t) /\ LoadAll(recs, t) = k[n].zone
  BY LoadRun
<1>5. /\ k[0] = [zone |-> EmptyZone, full |-> FALSE]
      /\ \A i \in 1 .. n : k[i] = LoadRecord(k[i - 1], recs[i], t)
  BY <1>3 DEF IsLoadRun
<1> DEFINE Good(i) ==
        ZoneInv(k[i].zone, t, 0) /\ BansGranted(k[i].zone, bans)
<1>7. Good(0)
  <2>1. k[0].zone = EmptyZone
    BY <1>5
  <2> QED
    BY <2>1, EmptyZoneFacts
<1>8. ASSUME NEW i \in 1 .. n, Good(i - 1)
      PROVE  Good(i)
  BY <1>5, <1>8, LoadRecordFacts
<1>9. Good(n)
  <2> DEFINE S == {i \in 0 .. n : Good(i)}
  <2> HIDE DEF Good
  <2>1. 0 \in S
    BY <1>1, <1>7
  <2>2. \A i \in 1 .. n : i - 1 \in S => i \in S
    BY <1>1, <1>8
  <2> HIDE DEF S
  <2>3. \A i \in 0 .. n : i \in S
    BY <1>1, <2>1, <2>2, UpTo
  <2> QED
    BY <1>1, <2>3 DEF S
<1> QED
  BY <1>3, <1>9

-----------------------------------------------------------------------------
(***************************************************************************)
(* A load of what a save has written.                                      *)
(***************************************************************************)

\* Two sequences of one length that agree everywhere are one.
LEMMA SameSeq ==
    ASSUME NEW S, NEW a \in Seq(S), NEW b \in Seq(S), Len(a) = Len(b),
           \A i \in 1 .. Len(a) : a[i] = b[i]
    PROVE  a = b
BY SeqEqual

\* Of events in order, none of them in the future, load keeps what
\* prune_events() keeps.
LEMMA WindowIsLive ==
    ASSUME NEW e \in Seq(Time), NEW t \in Int,
           \A i, j \in 1 .. Len(e) : i < j => e[j] >= e[i],
           \A i \in 1 .. Len(e) : e[i] <= t
    PROVE  InWindow(e, t) = PruneEvents(e, t)
<1> DEFINE n == Len(e)
           d == StaleRun(e, t)
<1>1. n \in Nat /\ \A i \in 1 .. n : e[i] \in Time /\ e[i] \in Int
  BY LenProperties, ElementOfSeq, TimeFacts
<1>2. e \in Seq(Int)
  BY SeqMonotonic, TimeFacts
<1>3. /\ d \in 0 .. n
      /\ \A i \in 1 .. d : e[i] <= t - Interval
      /\ d < n => e[d + 1] > t - Interval
  BY <1>2, StaleRunFacts
<1>4. PICK k : IsWindowRun(k, e, t) /\ InWindow(e, t) = k[n]
  BY <1>1, WindowRun
<1> DEFINE Good(i) == /\ k[i] \in Seq(Time)
                      /\ Len(k[i]) = IF i <= d THEN 0 ELSE i - d
                      /\ \A x \in 1 .. i - d : k[i][x] = e[x + d]
<1>5. Good(0)
  <2>1. k[0] = <<>>
    BY <1>4 DEF IsWindowRun
  <2>2. \A x \in 1 .. 0 - d : FALSE
    BY <1>3
  <2> QED
    BY <1>3, <2>1, <2>2, EmptySeq
<1>6. ASSUME NEW i \in 1 .. n, Good(i - 1)
      PROVE  Good(i)
  <2>1. PICK w \in Seq(Time) : w = k[i - 1]
    BY <1>6
  <2>2. k[i] = IF e[i] > t - Interval /\ e[i] <= t THEN Append(w, e[i]) ELSE w
    BY <1>4, <2>1 DEF IsWindowRun
  <2>3. CASE i <= d
    <3>1. ~ (e[i] > t - Interval)
      BY <1>1, <1>3, <2>3, ZoneParameters
    <3>2. k[i] = w /\ Len(w) = 0
      BY <1>1, <1>3, <1>6, <2>1, <2>2, <2>3, <3>1
    <3>3. \A x \in 1 .. i - d : FALSE
      BY <1>3, <2>3
    <3> QED
      BY <2>1, <2>3, <3>2, <3>3
  <2>4. CASE i > d
    <3>1. e[i] > t - Interval /\ e[i] <= t
      <4>1. d + 1 \in 1 .. n /\ d < n /\ (d + 1 = i \/ d + 1 < i)
        BY <1>1, <1>3, <2>4
      <4>2. e[i] >= e[d + 1]
        BY <1>1, <4>1
      <4> QED
        BY <1>1, <1>3, <4>1, <4>2, ZoneParameters
    <3>2. k[i] = Append(w, e[i]) /\ e[i] \in Time
      BY <1>1, <2>2, <3>1
    <3>3. Len(w) = i - 1 - d /\ \A x \in 1 .. i - 1 - d : w[x] = e[x + d]
      BY <1>3, <1>6, <2>1, <2>4
    <3>4. PICK v : v = Append(w, e[i])
      OBVIOUS
    <3>5. /\ v \in Seq(Time) /\ Len(v) = Len(w) + 1
          /\ \A x \in 1 .. Len(w) : v[x] = w[x]
          /\ v[Len(w) + 1] = e[i]
      BY <3>2, <3>4, AppendProperties
    <3>6. Len(v) = i - d
      BY <1>3, <3>3, <3>5
    <3>7. ASSUME NEW x \in 1 .. i - d PROVE v[x] = e[x + d]
      <4>1. CASE x \in 1 .. i - 1 - d
        BY <3>3, <3>5, <4>1
      <4>2. CASE x = i - d
        <5>1. x = Len(w) + 1 /\ x + d = i
          BY <1>3, <3>3, <4>2
        <5> QED
          BY <3>5, <5>1
      <4> QED
        BY <1>3, <4>1, <4>2
    <3> QED
      BY <1>3, <2>4, <3>2, <3>4, <3>5, <3>6, <3>7
  <2> QED
    BY <1>3, <2>3, <2>4
<1>7. Good(n)
  <2> DEFINE S == {i \in 0 .. n : Good(i)}
  <2> HIDE DEF Good
  <2>1. 0 \in S
    BY <1>1, <1>5
  <2>2. \A i \in 1 .. n : i - 1 \in S => i \in S
    BY <1>1, <1>6
  <2> HIDE DEF S
  <2>3. \A i \in 0 .. n : i \in S
    BY <1>1, <2>1, <2>2, UpTo
  <2> QED
    BY <1>1, <2>3 DEF S
<1>8. PICK w : w = InWindow(e, t) /\ w = k[n]
  BY <1>4
<1>9. PICK p : p = PruneEvents(e, t)
  OBVIOUS
<1>10. /\ p \in Seq(Time) /\ Len(p) = n - d
       /\ \A x \in 1 .. n - d : p[x] = e[x + d]
  BY <1>9, PruneFacts
<1>11. /\ w \in Seq(Time) /\ Len(w) = n - d
       /\ \A x \in 1 .. n - d : w[x] = e[x + d]
  <2>1. /\ w \in Seq(Time) /\ Len(w) = IF n <= d THEN 0 ELSE n - d
        /\ \A x \in 1 .. n - d : w[x] = e[x + d]
    BY <1>7, <1>8
  <2> QED
    BY <1>1, <1>3, <2>1
<1>12. w = p
  BY <1>10, <1>11, SameSeq
<1> QED
  BY <1>8, <1>9, <1>12

\* A walk that stops at the first event in the window has one end.
LEMMA StaleRunIs ==
    ASSUME NEW e \in Seq(Int), NEW t \in Int, NEW m \in 0 .. Len(e),
           \A i \in 1 .. m : e[i] <= t - Interval,
           m < Len(e) => e[m + 1] > t - Interval
    PROVE  StaleRun(e, t) = m
<1>1. PICK d : d = StaleRun(e, t)
  OBVIOUS
<1>2. /\ d \in 0 .. Len(e)
      /\ \A i \in 1 .. d : e[i] <= t - Interval
      /\ d < Len(e) => e[d + 1] > t - Interval
  BY <1>1, StaleRunFacts
<1>3. Len(e) \in Nat /\ \A i \in 1 .. Len(e) : e[i] \in Int
  BY LenProperties, ElementOfSeq
<1>4. ~ (d < m)
  <2> SUFFICES ASSUME d < m PROVE FALSE
    OBVIOUS
  <2>1. d + 1 \in 1 .. m /\ d < Len(e)
    BY <1>2, <1>3
  <2> QED
    BY <1>2, <1>3, <2>1, ZoneParameters
<1>5. ~ (m < d)
  <2> SUFFICES ASSUME m < d PROVE FALSE
    OBVIOUS
  <2>1. m + 1 \in 1 .. d /\ m < Len(e)
    BY <1>2, <1>3
  <2> QED
    BY <1>2, <1>3, <2>1, ZoneParameters
<1> QED
  BY <1>1, <1>2, <1>3, <1>4, <1>5

\* Pruning at one time and again at a later one is pruning at the later one.
LEMMA PruneTwice ==
    ASSUME NEW e \in Seq(Time), NEW s \in Int, NEW t \in Int, s <= t
    PROVE  PruneEvents(PruneEvents(e, s), t) = PruneEvents(e, t)
<1> DEFINE n == Len(e)
<1>1. PICK p : p = PruneEvents(e, s)
  OBVIOUS
<1>2. PICK d : d = StaleRun(e, s)
  OBVIOUS
<1>3. PICK c : c = StaleRun(p, t)
  OBVIOUS
<1>4. n \in Nat /\ \A i \in 1 .. n : e[i] \in Int
  BY LenProperties, ElementOfSeq, TimeFacts
<1>5. e \in Seq(Int)
  BY SeqMonotonic, TimeFacts
<1>6. /\ d \in 0 .. n /\ p \in Seq(Time) /\ Len(p) = n - d
      /\ \A x \in 1 .. n - d : p[x] = e[x + d]
      /\ \A i \in 1 .. d : e[i] <= s - Interval
  BY <1>1, <1>2, <1>5, PruneFacts, StaleRunFacts
<1>7. p \in Seq(Int)
  BY <1>6, SeqMonotonic, TimeFacts
<1>8. /\ c \in 0 .. n - d
      /\ \A i \in 1 .. c : p[i] <= t - Interval
      /\ c < n - d => p[c + 1] > t - Interval
  BY <1>3, <1>6, <1>7, StaleRunFacts
<1>9. d + c \in 0 .. n
  BY <1>4, <1>6, <1>8
<1>10. ASSUME NEW i \in 1 .. d + c PROVE e[i] <= t - Interval
  <2>1. CASE i \in 1 .. d
    BY <1>4, <1>6, <1>9, <2>1, ZoneParameters
  <2>2. CASE i \notin 1 .. d
    <3>1. i - d \in 1 .. c /\ i - d \in 1 .. n - d /\ (i - d) + d = i
      BY <1>6, <1>8, <2>2
    <3> QED
      BY <1>6, <1>8, <3>1
  <2> QED
    BY <2>1, <2>2
<1>11. d + c < n => e[d + c + 1] > t - Interval
  <2> SUFFICES ASSUME d + c < n PROVE e[d + c + 1] > t - Interval
    OBVIOUS
  <2>1. c < n - d /\ c + 1 \in 1 .. n - d /\ (c + 1) + d = d + c + 1
    BY <1>4, <1>6, <1>8
  <2> QED
    BY <1>6, <1>8, <2>1
<1>12. StaleRun(e, t) = d + c
  BY <1>5, <1>9, <1>10, <1>11, StaleRunIs
<1>13. PICK a : a = PruneEvents(p, t)
  OBVIOUS
<1>14. PICK b : b = PruneEvents(e, t)
  OBVIOUS
<1>15. /\ a \in Seq(Time) /\ Len(a) = n - d - c
       /\ \A x \in 1 .. n - d - c : a[x] = p[x + c]
  BY <1>3, <1>6, <1>13, PruneFacts
<1>16. /\ b \in Seq(Time) /\ Len(b) = n - (d + c)
       /\ \A x \in 1 .. n - (d + c) : b[x] = e[x + (d + c)]
  BY <1>12, <1>14, PruneFacts
<1>17. n - d - c = n - (d + c)
  BY <1>4, <1>6, <1>8
<1>18. \A x \in 1 .. n - d - c : a[x] = b[x]
  <2> SUFFICES ASSUME NEW x \in 1 .. n - d - c PROVE a[x] = b[x]
    OBVIOUS
  <2>1. x + c \in 1 .. n - d /\ (x + c) + d = x + (d + c)
    BY <1>4, <1>6, <1>8
  <2> QED
    BY <1>6, <1>15, <1>16, <1>17, <2>1
<1>19. a = b
  BY <1>15, <1>16, <1>17, <1>18, SameSeq
<1> QED
  BY <1>1, <1>13, <1>14, <1>19

\* What is left of a ban at time t, and of the errors of an identity that has
\* none: two nodes that agree here are the same to all later requests.
SameLeft(m, n, t) ==
    IF Banned(n, t)
    THEN m.blocked_until = n.blocked_until
    ELSE ~ Banned(m, t) /\ LiveEvents(m, t) = LiveEvents(n, t)

\* A node that load restores at time s is the one that was saved, as far as
\* any time from s on is concerned.
LEMMA RestoredIsSame ==
    ASSUME NEW n, NEW c \in Int, NodeInv(n, c, 0), NEW s \in Time, c <= s,
           n.blocked_until <= TimeAddSaturate(s, Block),
           NEW t \in Time, s <= t
    PROVE  SameLeft(Restored(n, s), n, t)
<1>1. PICK e \in Seq(Time) : e = n.events
  BY DEF NodeInv, Node
<1>2. /\ n.blocked_until \in Int /\ s \in Int /\ t \in Int
      /\ TimeAddSaturate(s, Block) \in Int /\ s >= 0
      /\ n.blocked_until >= 0
  BY SaturateType, ZoneParameters, TimeFacts DEF NodeInv, Node
<1>3. Len(e) \in Nat /\ \A i \in 1 .. Len(e) : e[i] \in Int
  BY LenProperties, ElementOfSeq, TimeFacts
<1>4. /\ \A i, j \in 1 .. Len(e) : i < j => e[j] >= e[i]
      /\ \A i \in 1 .. Len(e) : e[i] <= s
  BY <1>1, <1>2, <1>3 DEF NodeInv, EventsInv
<1>5. InWindow(e, s) = PruneEvents(e, s)
  BY <1>2, <1>4, WindowIsLive
<1>6. PICK r : r = Restored(n, s)
  OBVIOUS
<1>7. PICK limit : limit = TimeAddSaturate(s, Block)
  OBVIOUS
<1>8. /\ r.blocked_until = IF n.blocked_until <= s THEN 0
                           ELSE IF n.blocked_until < limit
                           THEN n.blocked_until ELSE limit
      /\ r.events = PruneEvents(e, s)
  BY <1>1, <1>5, <1>6, <1>7 DEF Restored
<1>9. r.blocked_until = IF n.blocked_until <= s THEN 0 ELSE n.blocked_until
  BY <1>2, <1>7, <1>8
<1>10. CASE Banned(n, t)
  <2>1. n.blocked_until > s
    BY <1>2, <1>10 DEF Banned
  <2>2. r.blocked_until = n.blocked_until
    BY <1>2, <1>9, <2>1
  <2> QED
    BY <1>6, <1>10, <2>2 DEF SameLeft
<1>11. CASE ~ Banned(n, t)
  <2>1. ~ Banned(r, t)
    BY <1>2, <1>9, <1>11 DEF Banned
  <2>2. LiveEvents(r, t) = LiveEvents(n, t)
    <3>1. CASE n.blocked_until # 0
      <4>1. LiveEvents(n, t) = <<>>
        BY <3>1 DEF LiveEvents
      <4>2. e = <<>>
        BY <1>1, <3>1 DEF NodeInv
      <4>3. PruneEvents(e, s) = <<>>
        <5>1. PICK p : p = PruneEvents(e, s)
          OBVIOUS
        <5>2. p \in Seq(Time) /\ Len(p) = Len(e) - StaleRun(e, s)
              /\ StaleRun(e, s) \in 0 .. Len(e)
          BY <1>2, <5>1, PruneFacts
        <5>3. Len(e) = 0
          BY <4>2, EmptySeq
        <5>4. Len(p) = 0
          BY <5>2, <5>3
        <5> QED
          BY <5>1, <5>2, <5>4, EmptySeq
      <4>4. r.events = <<>>
        BY <1>8, <4>3
      <4>5. LiveEvents(r, t) = <<>>
        <5>1. PICK p : p = PruneEvents(r.events, t)
          OBVIOUS
        <5>2. PICK f \in Seq(Time) : f = r.events /\ Len(f) = 0
          BY <4>4, EmptySeq
        <5>3. p \in Seq(Time) /\ Len(p) = Len(f) - StaleRun(f, t)
              /\ StaleRun(f, t) \in 0 .. Len(f)
          BY <1>2, <5>1, <5>2, PruneFacts
        <5>4. Len(p) = 0
          BY <5>2, <5>3
        <5>5. p = <<>>
          BY <5>3, <5>4, EmptySeq
        <5> QED
          BY <5>1, <5>5 DEF LiveEvents
      <4> QED
        BY <4>1, <4>5
    <3>2. CASE n.blocked_until = 0
      <4>1. r.blocked_until = 0
        BY <1>2, <1>9, <3>2
      <4>2. PruneEvents(PruneEvents(e, s), t) = PruneEvents(e, t)
        BY <1>2, PruneTwice
      <4> QED
        BY <1>1, <1>8, <3>2, <4>1, <4>2 DEF LiveEvents
    <3> QED
      BY <3>1, <3>2
  <2> QED
    BY <1>6, <1>11, <2>1, <2>2 DEF SameLeft
<1> QED
  BY <1>10, <1>11

\* Nothing is left of a record that load skips, then or later.
LEMMA SpentIsNothing ==
    ASSUME NEW n, NEW c \in Int, NodeInv(n, c, 0), NEW s \in Time, Spent(n, s),
           NEW t \in Time, s <= t
    PROVE  /\ SameLeft(ZeroNode, n, t)
           /\ Spent(n, t)
<1>1. n.blocked_until \in Int /\ s \in Int /\ t \in Int /\ t >= 0
  BY TimeFacts DEF NodeInv, Node
<1>2. n.blocked_until <= t /\ n.events = <<>>
  BY <1>1 DEF Spent
<1>3. ZeroNode.blocked_until = 0 /\ ZeroNode.events = <<>>
  BY DEF ZeroNode
<1>4. ~ Banned(n, t) /\ ~ Banned(ZeroNode, t)
  BY <1>1, <1>2, <1>3 DEF Banned
<1>5. PruneEvents(<<>>, t) = <<>>
  <2>1. PICK f \in Seq(Time) : f = <<>> /\ Len(f) = 0
    BY EmptySeq
  <2>2. PICK p : p = PruneEvents(f, t)
    OBVIOUS
  <2>3. p \in Seq(Time) /\ Len(p) = Len(f) - StaleRun(f, t)
        /\ StaleRun(f, t) \in 0 .. Len(f)
    BY <1>1, <2>2, PruneFacts
  <2>4. Len(p) = 0
    BY <2>1, <2>3
  <2> QED
    BY <2>1, <2>2, <2>3, <2>4, EmptySeq
<1>6. LiveEvents(n, t) = <<>> /\ LiveEvents(ZeroNode, t) = <<>>
  BY <1>2, <1>3, <1>5 DEF LiveEvents
<1> QED
  BY <1>2, <1>4, <1>6 DEF SameLeft, Spent

\* What load has made of the last i nodes of the list of z: those that are not
\* spent, restored, in their order.
LoadedUpTo(y, z, i, t) ==
    LET n == Len(z.queue)
    IN  /\ DOMAIN y.node = {k \in {z.queue[j] : j \in n - i + 1 .. n} :
                               ~ Spent(z.node[k], t)}
        /\ \A k \in DOMAIN y.node : y.node[k] = Restored(z.node[k], t)
        /\ Len(y.queue) <= i
        /\ \E f \in [1 .. Len(y.queue) -> n - i + 1 .. n] :
              /\ \A a, b \in 1 .. Len(y.queue) : a < b => f[a] < f[b]
              /\ \A a \in 1 .. Len(y.queue) : y.queue[a] = z.queue[f[a]]

\* A zone that has room gives a node to every identity.
LEMMA CreateInRoom ==
    ASSUME NEW z, ~ Full(z), NEW k, NEW t
    PROVE  LET y == CreateNode(z, k, t)
           IN  /\ y.queue = <<k>> \o z.queue
               /\ DOMAIN y.node = DOMAIN z.node \cup {k}
               /\ y.node[k] = NewNode(t)
               /\ \A j \in DOMAIN z.node \ {k} : y.node[j] = z.node[j]
<1>1. MakeRoom(z, t) = z
  BY DEF MakeRoom
<1>2. CreateNode(z, k, t) =
         [queue |-> <<k>> \o z.queue,
          node  |-> [j \in DOMAIN z.node \cup {k} |->
                        IF j = k THEN NewNode(t) ELSE z.node[j]]]
  BY <1>1, Zenon DEF CreateNode, NewNode
<1> QED
  BY <1>2

\* One more record.
LEMMA LoadNext ==
    ASSUME NEW z, NEW c \in Int, ZoneInv(z, c, 0), NEW t \in Time,
           NEW i \in 1 .. Len(z.queue),
           NEW acc, acc.full = FALSE, GoodZone(acc.zone),
           LoadedUpTo(acc.zone, z, i - 1, t)
    PROVE  LET r == LoadRecord(acc, Serialize(z)[i], t)
           IN  r.full = FALSE /\ LoadedUpTo(r.zone, z, i, t)
<1> DEFINE n == Len(z.queue)
<1>1. /\ n \in Nat /\ n <= Capacity /\ Distinct(z.queue)
      /\ Elems(z.queue) = DOMAIN z.node /\ Capacity \in Nat
  BY LenProperties, WellLinkedDef, ZoneLimits DEF ZoneInv, GoodZone, IsZone
<1>2. PICK y : y = acc.zone
  OBVIOUS
<1>3. PICK m : m = Len(y.queue)
  OBVIOUS
<1>4. /\ y.queue \in Seq(Key) /\ m \in Nat
  BY <1>2, <1>3, LenProperties DEF GoodZone, IsZone
<1>5. PICK k : k = z.queue[n + 1 - i]
  OBVIOUS
<1>6. /\ n + 1 - i \in 1 .. n /\ n - i + 1 = n + 1 - i
      /\ n - (i - 1) + 1 = n - i + 2
  BY <1>1
<1>7. k \in DOMAIN z.node
  BY <1>1, <1>5, <1>6 DEF Elems
<1>8. PICK rec : rec = Serialize(z)[i]
  OBVIOUS
<1>9. rec.key = k /\ rec.node = z.node[k]
  BY <1>5, <1>8 DEF Serialize
<1>10. /\ DOMAIN y.node = {j \in {z.queue[x] : x \in n - i + 2 .. n} :
                              ~ Spent(z.node[j], t)}
       /\ \A j \in DOMAIN y.node : y.node[j] = Restored(z.node[j], t)
       /\ m <= i - 1
  BY <1>2, <1>3, <1>6 DEF LoadedUpTo
<1>11. PICK f \in [1 .. m -> n - i + 2 .. n] :
          /\ \A a, b \in 1 .. m : a < b => f[a] < f[b]
          /\ \A a \in 1 .. m : y.queue[a] = z.queue[f[a]]
  BY <1>2, <1>3, <1>6 DEF LoadedUpTo
<1>12. k \notin DOMAIN y.node
  <2>1. \A x \in n - i + 2 .. n : x \in 1 .. n /\ x # n + 1 - i
    BY <1>1
  <2> QED
    BY <1>5, <1>6, <1>10, <2>1, <1>1 DEF Distinct
<1>13. \A x : x \in n - i + 1 .. n <=> x = n - i + 1 \/ x \in n - i + 2 .. n
  BY <1>1
<1>14. {z.queue[x] : x \in n - i + 1 .. n}
          = {z.queue[x] : x \in n - i + 2 .. n} \cup {k}
  BY <1>5, <1>6, <1>13
<1>15. PICK r : r = LoadRecord(acc, rec, t)
  OBVIOUS
<1>16. CASE Spent(z.node[k], t)
  <2>1. r = acc
    BY <1>9, <1>15, <1>16 DEF LoadRecord
  <2>2. DOMAIN y.node = {j \in {z.queue[x] : x \in n - i + 1 .. n} :
                            ~ Spent(z.node[j], t)}
    BY <1>10, <1>14, <1>16
  <2>3. f \in [1 .. m -> n - i + 1 .. n]
    BY <1>11, <1>13
  <2>4. m <= i
    BY <1>4, <1>10
  <2>5. LoadedUpTo(y, z, i, t)
    BY <1>3, <1>10, <1>11, <2>2, <2>3, <2>4 DEF LoadedUpTo
  <2> QED
    BY <1>2, <1>8, <1>15, <2>1, <2>5
<1>17. CASE ~ Spent(z.node[k], t)
  <2>1. ~ Full(y)
    BY <1>1, <1>3, <1>4, <1>10 DEF Full
  <2>2. PICK u : u = CreateNode(y, k, t)
    OBVIOUS
  <2>3. /\ u.queue = <<k>> \o y.queue
        /\ DOMAIN u.node = DOMAIN y.node \cup {k}
        /\ \A j \in DOMAIN y.node \ {k} : u.node[j] = y.node[j]
    BY <2>1, <2>2, CreateInRoom
  <2>4. PICK v : v = Restored(z.node[k], t)
    OBVIOUS
  <2>5. r = [zone |-> SetNode(u, k, v), full |-> FALSE]
    BY <1>2, <1>9, <1>12, <1>15, <1>17, <2>2, <2>3, <2>4 DEF LoadRecord
  <2>6. PICK w : w = r.zone
    OBVIOUS
  <2>7. /\ w.queue = <<k>> \o y.queue
        /\ DOMAIN w.node = DOMAIN y.node \cup {k}
        /\ w.node[k] = v
        /\ \A j \in DOMAIN y.node : w.node[j] = y.node[j]
    BY <1>12, <2>3, <2>5, <2>6 DEF SetNode
  <2>8. DOMAIN w.node = {j \in {z.queue[x] : x \in n - i + 1 .. n} :
                            ~ Spent(z.node[j], t)}
    BY <1>10, <1>14, <1>17, <2>7
  <2>9. \A j \in DOMAIN w.node : w.node[j] = Restored(z.node[j], t)
    BY <1>10, <2>4, <2>7
  <2>10. /\ Len(w.queue) = m + 1 /\ w.queue[1] = k
         /\ \A x \in 1 .. m : w.queue[x + 1] = y.queue[x]
    <3>1. k \in Key
      BY <1>7 DEF ZoneInv, GoodZone, IsZone
    <3>2. <<k>> \in Seq(Key) /\ Len(<<k>>) = 1 /\ <<k>>[1] = k
      BY <3>1
    <3> QED
      BY <1>3, <1>4, <2>7, <3>2, ConcatProperties
  <2>11. PICK g : g = [a \in 1 .. m + 1 |->
                          IF a = 1 THEN n - i + 1 ELSE f[a - 1]]
    OBVIOUS
  <2>12. \A a \in 1 .. m + 1 : a # 1 => a - 1 \in 1 .. m /\ (a - 1) + 1 = a
    BY <1>4
  <2>13. \A a \in 1 .. m : f[a] \in n - i + 2 .. n
    BY <1>11
  <2>14. g \in [1 .. m + 1 -> n - i + 1 .. n]
    <3>1. n - i + 1 \in n - i + 1 .. n
      BY <1>1
    <3> QED
      BY <1>13, <2>11, <2>12, <2>13, <3>1
  <2>15. ASSUME NEW a \in 1 .. m + 1, NEW b \in 1 .. m + 1, a < b
         PROVE  g[a] < g[b]
    <3>1. b # 1 /\ g[b] = f[b - 1]
      BY <1>4, <2>11, <2>15
    <3>2. CASE a = 1
      <4>1. g[a] = n - i + 1 /\ f[b - 1] \in n - i + 2 .. n
        BY <2>11, <2>12, <2>13, <3>1, <3>2
      <4> QED
        BY <1>1, <3>1, <4>1
    <3>3. CASE a # 1
      <4>1. g[a] = f[a - 1] /\ a - 1 < b - 1
        BY <1>4, <2>11, <2>15, <3>3
      <4> QED
        BY <1>11, <2>12, <3>1, <3>3, <4>1
    <3> QED
      BY <3>2, <3>3
  <2>16. \A a \in 1 .. m + 1 : w.queue[a] = z.queue[g[a]]
    <3> SUFFICES ASSUME NEW a \in 1 .. m + 1
                 PROVE  w.queue[a] = z.queue[g[a]]
      OBVIOUS
    <3>1. CASE a = 1
      BY <1>5, <1>6, <2>10, <2>11, <3>1
    <3>2. CASE a # 1
      <4>1. g[a] = f[a - 1] /\ a - 1 \in 1 .. m /\ (a - 1) + 1 = a
        BY <2>11, <2>12, <3>2
      <4>2. w.queue[a] = y.queue[a - 1]
        BY <2>10, <4>1
      <4> QED
        BY <1>11, <4>1, <4>2
    <3> QED
      BY <3>1, <3>2
  <2>17. m + 1 <= i
    BY <1>4, <1>10
  <2>18. LoadedUpTo(w, z, i, t)
    BY <2>8, <2>9, <2>10, <2>14, <2>15, <2>16, <2>17 DEF LoadedUpTo
  <2> QED
    BY <1>8, <1>15, <2>5, <2>6, <2>18
<1> QED
  BY <1>16, <1>17

\* The rounds of the load of a snapshot that a save has made: none fails.
LEMMA LoadRounds ==
    ASSUME NEW z, NEW c \in Time, ZoneInv(z, c, 0),
           NEW t, CachedAt(t, t, 0), c <= t,
           NEW k, IsLoadRun(k, Serialize(z), t)
    PROVE  \A i \in 0 .. Len(z.queue) : /\ k[i].full = FALSE
                                        /\ ZoneInv(k[i].zone, t, 0)
                                        /\ LoadedUpTo(k[i].zone, z, i, t)
<1> DEFINE n == Len(z.queue)
           Good(i) == /\ k[i].full = FALSE
                      /\ ZoneInv(k[i].zone, t, 0)
                      /\ LoadedUpTo(k[i].zone, z, i, t)
<1>1. /\ n \in Nat /\ Elems(z.queue) = DOMAIN z.node /\ GoodZone(z)
      /\ DOMAIN z.node \subseteq Key /\ c \in Int /\ t \in Time
  BY LenProperties, WellLinkedDef, TimeFacts
     DEF ZoneInv, GoodZone, IsZone, CachedAt
<1>2. PICK bans : bans = [j \in Key |-> TimeMax]
  OBVIOUS
<1>3. bans \in [Key -> Time] /\ \A j \in Key : bans[j] = TimeMax
  BY <1>2, TimeRange DEF Time
<1>4. PICK recs : recs = Serialize(z)
  OBVIOUS
<1>5. /\ Len(recs) = n
      /\ \A i \in 1 .. n : /\ recs[i].key = z.queue[n + 1 - i]
                           /\ recs[i].node = z.node[recs[i].key]
  BY <1>1, <1>4 DEF Serialize
<1>6. ASSUME NEW i \in 1 .. n PROVE RecordInv(recs[i], c, bans)
  <2>1. n + 1 - i \in 1 .. n
    BY <1>1
  <2>2. recs[i].key \in DOMAIN z.node
    BY <1>1, <1>5, <2>1 DEF Elems
  <2>3. NodeInv(recs[i].node, c, 0)
    BY <1>5, <2>2 DEF ZoneInv
  <2>4. recs[i].node.blocked_until <= TimeMax
    BY <2>3, TimeFacts DEF NodeInv, Node
  <2> QED
    BY <1>1, <1>3, <2>2, <2>3, <2>4 DEF RecordInv
<1>7. k[0] = [zone |-> EmptyZone, full |-> FALSE]
      /\ \A i \in 1 .. n : k[i] = LoadRecord(k[i - 1], recs[i], t)
  BY <1>4, <1>5 DEF IsLoadRun
<1>8. \A y : BansGranted(y, bans) <=> \A j \in Key : Until(y, j) <= TimeMax
  BY <1>3 DEF BansGranted
<1>9. Good(0)
  <2>1. k[0].zone = EmptyZone /\ k[0].full = FALSE
    BY <1>7
  <2>2. ZoneInv(EmptyZone, t, 0)
    BY <1>3, EmptyZoneFacts
  <2>3. PICK y : y = EmptyZone
    OBVIOUS
  <2>4. y.queue = <<>> /\ DOMAIN y.node = {} /\ Len(y.queue) = 0
    BY <2>3 DEF EmptyZone
  <2>5. LoadedUpTo(y, z, 0, t)
    <3>1. PICK f : f = [x \in 1 .. 0 |-> x]
      OBVIOUS
    <3>2. f \in [1 .. Len(y.queue) -> n - 0 + 1 .. n]
      BY <1>1, <2>4, <3>1
    <3>3. \A x \in n - 0 + 1 .. n : FALSE
      BY <1>1
    <3>4. {j \in {z.queue[x] : x \in n - 0 + 1 .. n} : ~ Spent(z.node[j], t)}
             = {}
      BY <3>3
    <3>5. \A a \in 1 .. Len(y.queue) : FALSE
      BY <2>4
    <3>6. /\ \A a, b \in 1 .. Len(y.queue) : a < b => f[a] < f[b]
          /\ \A a \in 1 .. Len(y.queue) : y.queue[a] = z.queue[f[a]]
      BY <3>5
    <3>7. /\ \A j \in DOMAIN y.node : y.node[j] = Restored(z.node[j], t)
          /\ Len(y.queue) <= 0
      BY <2>4
    <3> QED
      BY <2>4, <3>2, <3>4, <3>6, <3>7, Zenon DEF LoadedUpTo
  <2> QED
    BY <2>1, <2>2, <2>3, <2>5
<1>10. ASSUME NEW i \in 1 .. n, Good(i - 1)
       PROVE  Good(i)
  <2>1. PICK acc : acc = k[i - 1]
    OBVIOUS
  <2>2. /\ acc.full = FALSE /\ ZoneInv(acc.zone, t, 0)
        /\ LoadedUpTo(acc.zone, z, i - 1, t)
    BY <1>10, <2>1
  <2>3. BansGranted(acc.zone, bans)
    <3>1. \A j : Until(acc.zone, j) \in Time
      BY <2>2, NodeOfFacts
    <3> QED
      BY <1>8, <3>1, TimeFacts
  <2>4. k[i] = LoadRecord(acc, recs[i], t)
    BY <1>7, <2>1
  <2>5. ZoneInv(k[i].zone, t, 0)
    BY <1>1, <1>3, <1>6, <2>2, <2>3, <2>4, LoadRecordFacts
  <2>6. GoodZone(acc.zone)
    BY <2>2 DEF ZoneInv
  <2>7. k[i].full = FALSE /\ LoadedUpTo(k[i].zone, z, i, t)
    <3>1. PICK r : r = LoadRecord(acc, Serialize(z)[i], t)
      OBVIOUS
    <3>2. r.full = FALSE /\ LoadedUpTo(r.zone, z, i, t)
      <4>1. i \in 1 .. Len(z.queue)
        OBVIOUS
      <4> HIDE DEF n
      <4> QED
        BY <1>1, <2>2, <2>6, <3>1, <4>1, LoadNext
    <3>3. k[i] = r
      BY <1>4, <2>4, <3>1
    <3> QED
      BY <3>2, <3>3
  <2> QED
    BY <2>5, <2>7
<1>11. \A i \in 0 .. n : Good(i)
  <2> DEFINE S == {i \in 0 .. n : Good(i)}
  <2> HIDE DEF Good
  <2>1. 0 \in S
    BY <1>1, <1>9
  <2>2. \A i \in 1 .. n : i - 1 \in S => i \in S
    BY <1>1, <1>10
  <2> HIDE DEF S
  <2>3. \A i \in 0 .. n : i \in S
    BY <1>1, <2>1, <2>2, UpTo
  <2> QED
    BY <2>3 DEF S
<1> QED
  BY <1>11

\* The load of a snapshot that a save has made.
LEMMA LoadSerialized ==
    ASSUME NEW z, NEW c \in Time, ZoneInv(z, c, 0),
           NEW t, CachedAt(t, t, 0), c <= t
    PROVE  LET y == LoadAll(Serialize(z), t)
           IN  ZoneInv(y, t, 0) /\ LoadedUpTo(y, z, Len(z.queue), t)
<1>1. PICK n : n = Len(z.queue)
  OBVIOUS
<1>2. PICK recs : recs = Serialize(z)
  OBVIOUS
<1>3. n \in Nat
  BY <1>1, LenProperties DEF ZoneInv, GoodZone, IsZone
<1>4. Len(recs) = n
  BY <1>1, <1>2, <1>3 DEF Serialize
<1>5. PICK k : IsLoadRun(k, recs, t) /\ LoadAll(recs, t) = k[n].zone
  BY <1>3, <1>4, LoadRun
<1>6. n \in 0 .. n
  BY <1>3
<1> QED
  BY <1>1, <1>2, <1>5, <1>6, LoadRounds

=============================================================================
