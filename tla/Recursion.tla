------------------------------- MODULE Recursion -------------------------------
(***************************************************************************)
(* What the proofs about recursive functions share: induction over 0..N for a  *)
(* set instead of a predicate, that a function defined by recursion over 0..N   *)
(* exists (without which the CHOOSE behind it would mean nothing), what lists     *)
(* joined to one list hold, and how a set is listed.                         *)
(***************************************************************************)
EXTENDS Naturals, Sequences, SequencesExt, FiniteSetTheorems, SequenceTheorems, WellFoundedInduction, TLAPS

\* Induction up to N, for a set instead of a predicate.
LEMMA CountUp ==
  ASSUME NEW N \in Nat, NEW S, 0 \in S, \A n \in 0..N : n \in S /\ n < N => n + 1 \in S
  PROVE  0..N \subseteq S
<1> SUFFICES ASSUME ~(0..N \subseteq S) PROVE FALSE
  OBVIOUS
<1> DEFINE T == (0..N) \ S
<1>1. IsWellFoundedOn(OpToRel(<, Nat), Nat)
  BY NatLessThanWellFounded
<1>2. T \subseteq Nat /\ T # {}
  OBVIOUS
<1> HIDE DEF T
<1>3. PICK m \in T : \A k \in T : <<k, m>> \notin OpToRel(<, Nat)
  BY <1>1, <1>2, WFMin
<1>4. m \in 0..N /\ m \notin S /\ m # 0
  BY DEF T
<1>5. m - 1 \in 0..N /\ m - 1 < N /\ m - 1 < m /\ (m - 1) + 1 = m
  BY <1>4
<1>6. m - 1 \in T
  BY <1>4, <1>5 DEF T
<1>7. <<m - 1, m>> \in OpToRel(<, Nat)
  BY <1>4, <1>5 DEF OpToRel
<1>8. QED
  BY <1>3, <1>6, <1>7

\* A step for every place of a list.
Reading(N, S) == [1..N -> [S -> S]]

\* g tells what has been read up to each place, when F reads one.
ReadBy(g, N, S, x, F) == g \in [0..N -> S] /\ g[0] = x /\ \A n \in 1..N : g[n] = F[n][g[n - 1]]

\* A recursive function over the places of a list exists.
LEMMA ReadsExist ==
  ASSUME NEW N \in Nat, NEW S, NEW x \in S, NEW F \in Reading(N, S)
  PROVE  \E g : ReadBy(g, N, S, x, F)
<1> DEFINE T == {n \in 0..N : \E g \in [0..n -> S] : g[0] = x /\ \A i \in 1..n : g[i] = F[i][g[i - 1]]}
<1>1. 0 \in T
  <2>1. [i \in 0..0 |-> x] \in [0..0 -> S] /\ [i \in 0..0 |-> x][0] = x /\ 1..0 = {} /\ 0 \in 0..N
    OBVIOUS
  <2>2. QED
    BY <2>1
<1>2. ASSUME NEW n \in 0..N, n \in T, n < N PROVE n + 1 \in T
  <2>1. PICK g \in [0..n -> S] : g[0] = x /\ \A i \in 1..n : g[i] = F[i][g[i - 1]]
    BY <1>2
  <2> DEFINE h == [i \in 0..(n + 1) |-> IF i = n + 1 THEN F[n + 1][g[n]] ELSE g[i]]
  <2>0. F[n + 1][g[n]] \in S
    <3>1. g[n] \in S /\ n + 1 \in 1..N
      BY <1>2
    <3>2. QED
      BY <3>1 DEF Reading
  <2>2. h \in [0..(n + 1) -> S]
    BY <2>0
  <2>3. h[0] = x
    BY <2>1
  <2>4. ASSUME NEW i \in 1..(n + 1) PROVE h[i] = F[i][h[i - 1]]
    <3>1. i - 1 \in 0..n /\ h[i - 1] = g[i - 1]
      OBVIOUS
    <3>2. CASE i = n + 1
      BY <3>1, <3>2
    <3>3. CASE i # n + 1
      <4>1. i \in 1..n /\ i \in 0..(n + 1)
        BY <3>3
      <4>2. h[i] = g[i]
        BY <4>1, <3>3
      <4>3. QED
        BY <2>1, <3>1, <4>1, <4>2
    <3>4. QED
      BY <3>2, <3>3
  <2> HIDE DEF h
  <2>5. n + 1 \in 0..N
    BY <1>2
  <2>6. QED
    BY <2>2, <2>3, <2>4, <2>5
<1> HIDE DEF T
<1>3. N \in T
  BY <1>1, <1>2, CountUp
<1>4. PICK g \in [0..N -> S] : g[0] = x /\ \A i \in 1..N : g[i] = F[i][g[i - 1]]
  BY <1>3 DEF T
<1>5. QED
  BY <1>4 DEF ReadBy

\* A function defined by recursion is such a reading, where its step is F.
LEMMA ReadsAre ==
  ASSUME NEW N \in Nat, NEW S, NEW x \in S, NEW F \in Reading(N, S), NEW r, r = [n \in 0..N |-> r[n]], r[0] = x,
         \A n \in 1..N : r[n - 1] \in S => r[n] = F[n][r[n - 1]]
  PROVE  r \in [0..N -> S]
<1> DEFINE T == {n \in 0..N : r[n] \in S}
<1>1. 0 \in T
  OBVIOUS
<1>2. ASSUME NEW n \in 0..N, n \in T, n < N PROVE n + 1 \in T
  <2>1. n + 1 \in 1..N /\ n + 1 \in 0..N /\ (n + 1) - 1 = n /\ r[n] \in S
    BY <1>2
  <2>2. r[n + 1] = F[n + 1][r[n]]
    BY <2>1
  <2>3. F[n + 1] \in [S -> S]
    BY <2>1 DEF Reading
  <2>4. QED
    BY <2>1, <2>2, <2>3
<1> HIDE DEF T
<1>3. 0..N \subseteq T
  BY <1>1, <1>2, CountUp
<1>4. \A n \in 0..N : r[n] \in S
  BY <1>3 DEF T
<1>5. QED
  BY <1>4

-----------------------------------------------------------------------------
(* FlattenSeq of the community modules.                                      *)

\* What has been joined up to each list.
LEMMA FlattenIsRead ==
  ASSUME NEW T, NEW seqs \in Seq(Seq(T))
  PROVE  \E g \in [0..Len(seqs) -> Seq(T)] :
           /\ g[0] = <<>> /\ \A n \in 1..Len(seqs) : g[n] = g[n - 1] \o seqs[n]
           /\ FlattenSeq(seqs) = g[Len(seqs)]
<1> DEFINE S == Seq(T)
<1>1. PICK N \in Nat : N = Len(seqs)
  OBVIOUS
<1> DEFINE F == [n \in 1..N |-> [s \in S |-> s \o seqs[n]]]
           Def(f) == [i \in 1..N |-> IF i = 1 THEN seqs[i] ELSE f[i - 1] \o seqs[i]]
           flatten == CHOOSE f : f = Def(f)
<1>2. \A n \in 1..N : seqs[n] \in S
  BY <1>1
<1>3. <<>> \in S /\ F \in Reading(N, S)
  BY <1>2 DEF Reading
<1>4. PICK g : ReadBy(g, N, S, <<>>, F)
  <2> HIDE DEF S, F
  <2>1. QED
    BY <1>3, ReadsExist
<1>5. \A n \in 1..N : g[n - 1] \in S /\ g[n] = g[n - 1] \o seqs[n]
  <2> SUFFICES ASSUME NEW n \in 1..N PROVE g[n - 1] \in S /\ g[n] = g[n - 1] \o seqs[n]
    OBVIOUS
  <2>1. n - 1 \in 0..N
    OBVIOUS
  <2>2. g[n - 1] \in S /\ g[n] = F[n][g[n - 1]]
    <3> HIDE DEF S, F
    <3>1. QED
      BY <2>1, <1>4 DEF ReadBy
  <2>3. QED
    BY <2>2
<1>6. g \in [0..N -> S] /\ g[0] = <<>>
  <2> HIDE DEF S, F
  <2>1. QED
    BY <1>4 DEF ReadBy
<1>7. CASE N = 0
  <2>1. seqs = <<>>
    BY <1>1, <1>7, EmptySeq
  <2>2. FlattenSeq(seqs) = g[N]
    BY <1>1, <1>6, <1>7, <2>1 DEF FlattenSeq
  <2>3. QED
    BY <1>1, <1>5, <1>6, <2>2
<1>8. CASE N # 0
  <2> DEFINE h == [n \in 1..N |-> g[n]]
  <2>1. h = Def(h)
    <3>1. ASSUME NEW n \in 1..N PROVE h[n] = IF n = 1 THEN seqs[n] ELSE h[n - 1] \o seqs[n]
      <4>1. CASE n = 1
        <5>0. 1 \in 1..N /\ 1 - 1 = 0
          BY <4>1
        <5>1. g[1] = <<>> \o seqs[1]
          BY <5>0, <1>5, <1>6
        <5>2. <<>> \o seqs[1] = seqs[1]
          BY <1>2, <4>1
        <5>3. QED
          BY <4>1, <5>1, <5>2
      <4>2. CASE n # 1
        <5>1. n - 1 \in 1..N
          BY <4>2
        <5>2. QED
          BY <4>2, <5>1, <1>5
      <4>3. QED
        BY <4>1, <4>2
    <3>2. QED
      BY <3>1
  <2>2. PICK r : r = flatten
    OBVIOUS
  <2>3. r = Def(r)
    <3> HIDE DEF h, S, F
    <3>1. QED
      BY <2>1, <2>2
  <2>4. FlattenSeq(seqs) = r[N]
    BY <1>1, <1>8, <2>2 DEF FlattenSeq
  <2> HIDE DEF flatten, h, S, F
  <2>5. \A n \in 1..N : r[n] = IF n = 1 THEN seqs[n] ELSE r[n - 1] \o seqs[n]
    <3>1. r = [i \in 1..N |-> IF i = 1 THEN seqs[i] ELSE r[i - 1] \o seqs[i]]
      BY <2>3
    <3>2. QED
      BY <3>1
  <2> DEFINE U == {n \in 0..N : n = 0 \/ r[n] = g[n]}
  <2>6. ASSUME NEW n \in 0..N, n \in U, n < N PROVE n + 1 \in U
    <3>1. n + 1 \in 1..N /\ (n + 1) - 1 = n /\ n + 1 \in 0..N
      <4> HIDE DEF U
      <4>1. QED
        BY <2>6
    <3>2. r[n + 1] = IF n = 0 THEN seqs[1] ELSE r[n] \o seqs[n + 1]
      BY <2>5, <3>1
    <3>3. g[n + 1] = g[n] \o seqs[n + 1]
      BY <1>5, <3>1
    <3>4. CASE n = 0
      <4>1. <<>> \o seqs[1] = seqs[1]
        BY <1>2, <3>1, <3>4 DEF S
      <4>2. QED
        BY <3>1, <3>2, <3>3, <3>4, <4>1, <1>6
    <3>5. CASE n # 0
      <4>1. r[n] = g[n]
        BY <2>6, <3>5
      <4>2. r[n + 1] = g[n + 1]
        BY <3>2, <3>3, <3>5, <4>1
      <4>3. QED
        BY <3>1, <4>2
    <3>6. QED
      BY <3>4, <3>5
  <2>7. 0..N \subseteq U
    <3>1. 0 \in U
      OBVIOUS
    <3> HIDE DEF U
    <3>2. QED
      BY <2>6, <3>1, CountUp
  <2>8. r[N] = g[N]
    BY <1>8, <2>7
  <2>9. QED
    BY <1>1, <1>5, <1>6, <2>4, <2>8 DEF S
<1>9. QED
  BY <1>7, <1>8

\* Lists joined hold what each of them holds, and nothing else.
LEMMA FlattenHasAll ==
  ASSUME NEW T, NEW seqs \in Seq(Seq(T))
  PROVE  /\ FlattenSeq(seqs) \in Seq(T)
         /\ \A k \in 1..Len(seqs) : \A j \in 1..Len(seqs[k]) :
              \E n \in 1..Len(FlattenSeq(seqs)) : FlattenSeq(seqs)[n] = seqs[k][j]
         /\ \A n \in 1..Len(FlattenSeq(seqs)) : \E k \in 1..Len(seqs) : \E j \in 1..Len(seqs[k]) :
              FlattenSeq(seqs)[n] = seqs[k][j]
<1>1. PICK g \in [0..Len(seqs) -> Seq(T)] :
        /\ g[0] = <<>> /\ \A n \in 1..Len(seqs) : g[n] = g[n - 1] \o seqs[n]
        /\ FlattenSeq(seqs) = g[Len(seqs)]
  BY FlattenIsRead
<1>2. PICK N \in Nat : N = Len(seqs)
  OBVIOUS
<1>3. \A k \in 1..N : seqs[k] \in Seq(T)
  BY <1>2
<1> DEFINE Holds(m) == /\ \A k \in 1..m : \A j \in 1..Len(seqs[k]) : \E n \in 1..Len(g[m]) : g[m][n] = seqs[k][j]
                       /\ \A n \in 1..Len(g[m]) : \E k \in 1..m : \E j \in 1..Len(seqs[k]) : g[m][n] = seqs[k][j]
           U == {m \in 0..N : Holds(m)}
<1>4. 0 \in U
  BY <1>1
<1>5. ASSUME NEW m \in 0..N, m \in U, m < N PROVE m + 1 \in U
  <2>1. m + 1 \in 1..N /\ (m + 1) - 1 = m /\ m + 1 \in 0..N
    BY <1>5
  <2>2. g[m + 1] = g[m] \o seqs[m + 1] /\ g[m] \in Seq(T) /\ seqs[m + 1] \in Seq(T)
    BY <1>1, <1>2, <1>3, <2>1
  <2>3. PICK a \in Seq(T), b \in Seq(T) : a = g[m] /\ b = seqs[m + 1]
    BY <2>2
  <2>4. PICK x \in Nat, y \in Nat : x = Len(a) /\ y = Len(b)
    OBVIOUS
  <2>5. /\ Len(a \o b) = x + y
        /\ \A n \in 1..x : (a \o b)[n] = a[n]
        /\ \A n \in 1..y : (a \o b)[x + n] = b[n]
    BY <2>4
  <2>6. ASSUME NEW k \in 1..(m + 1), NEW j \in 1..Len(seqs[k]) PROVE \E n \in 1..(x + y) : (a \o b)[n] = seqs[k][j]
    <3>1. CASE k = m + 1
      <4>0. Len(seqs[k]) = y
        BY <3>1, <2>3, <2>4
      <4>1. j \in 1..y /\ x + j \in 1..(x + y)
        BY <4>0
      <4>2. (a \o b)[x + j] = seqs[k][j]
        BY <4>1, <3>1, <2>3, <2>5
      <4>3. QED
        BY <4>1, <4>2
    <3>2. CASE k # m + 1
      <4>1. k \in 1..m
        BY <3>2
      <4>2. PICK n \in 1..x : a[n] = seqs[k][j]
        BY <1>5, <4>1, <2>3, <2>4
      <4>3. n \in 1..(x + y)
        OBVIOUS
      <4>4. QED
        BY <2>5, <4>2, <4>3
    <3>3. QED
      BY <3>1, <3>2
  <2>7. ASSUME NEW n \in 1..(x + y) PROVE \E k \in 1..(m + 1) : \E j \in 1..Len(seqs[k]) : (a \o b)[n] = seqs[k][j]
    <3>1. CASE n <= x
      <4>1. n \in 1..x
        BY <3>1
      <4>2. PICK k \in 1..m : \E j \in 1..Len(seqs[k]) : a[n] = seqs[k][j]
        BY <1>5, <4>1, <2>3, <2>4
      <4>3. k \in 1..(m + 1)
        OBVIOUS
      <4>4. QED
        BY <2>5, <4>1, <4>2, <4>3
    <3>2. CASE ~(n <= x)
      <4>1. n - x \in 1..y /\ x + (n - x) = n
        BY <3>2
      <4>2. (a \o b)[n] = b[n - x]
        BY <2>5, <4>1
      <4>3. n - x \in 1..Len(seqs[m + 1]) /\ m + 1 \in 1..(m + 1)
        BY <4>1, <2>1, <2>3, <2>4
      <4>4. QED
        BY <2>3, <4>2, <4>3
    <3>3. QED
      BY <3>1, <3>2
  <2>8. g[m + 1] = a \o b /\ Len(g[m + 1]) = x + y
    BY <2>2, <2>3, <2>5
  <2>9. Holds(m + 1)
    <3>1. PICK c : c = a \o b
      OBVIOUS
    <3>2. Len(c) = x + y /\ g[m + 1] = c
      BY <2>8, <3>1
    <3>3. ASSUME NEW k \in 1..(m + 1), NEW j \in 1..Len(seqs[k]) PROVE \E n \in 1..Len(c) : c[n] = seqs[k][j]
      BY <2>6, <3>1, <3>2
    <3>4. ASSUME NEW n \in 1..Len(c) PROVE \E k \in 1..(m + 1) : \E j \in 1..Len(seqs[k]) : c[n] = seqs[k][j]
      BY <2>7, <3>1, <3>2
    <3>5. QED
      BY <3>2, <3>3, <3>4
  <2>10. QED
    BY <2>1, <2>9
<1>6. 0..N \subseteq U
  <2> HIDE DEF U
  <2>1. QED
    BY <1>4, <1>5, CountUp
<1>7. Holds(N)
  <2>1. N \in 0..N
    OBVIOUS
  <2>2. N \in U
    <3> HIDE DEF U
    <3>1. QED
      BY <1>6, <2>1
  <2>3. QED
    BY <2>2
<1>8. g[N] \in Seq(T) /\ FlattenSeq(seqs) = g[N]
  BY <1>1, <1>2
<1>9. QED
  BY <1>2, <1>7, <1>8

-----------------------------------------------------------------------------
(* Sets listed in an order.                                                  *)

\* s lists the n elements of S, each once, the ones of less depth first.
Lists(s, S, n, depth) ==
  /\ s \in [1..n -> S]
  /\ \A i, j \in 1..n : i # j => s[i] # s[j]
  /\ \A i, j \in 1..n : i < j => depth[s[i]] <= depth[s[j]]

\* Every finite set can be listed so.
LEMMA ListExists ==
  ASSUME NEW S, IsFiniteSet(S), NEW depth \in [S -> Nat]
  PROVE  \E s : Lists(s, S, Cardinality(S), depth)
<1>1. PICK N \in Nat : N = Cardinality(S)
  BY FS_CardinalityType
<1> DEFINE T == {n \in 0..N : \A U \in SUBSET S : Cardinality(U) = n => \E s : Lists(s, U, n, depth)}
<1>2. 0 \in T
  <2>1. ASSUME NEW U \in SUBSET S PROVE \E s : Lists(s, U, 0, depth)
    <3>1. PICK s : s = [i \in 1..0 |-> i]
      OBVIOUS
    <3>2. 1..0 = {} /\ s \in [1..0 -> U]
      BY <3>1
    <3>3. Lists(s, U, 0, depth)
      BY <3>2 DEF Lists
    <3>4. QED
      BY <3>3
  <2>2. QED
    BY <2>1
<1>3. ASSUME NEW n \in 0..N, n \in T, n < N PROVE n + 1 \in T
  <2>1. SUFFICES ASSUME NEW U \in SUBSET S, Cardinality(U) = n + 1 PROVE \E s : Lists(s, U, n + 1, depth)
    BY <1>3
  <2>2. IsFiniteSet(U) /\ U # {}
    <3>1. IsFiniteSet(U)
      BY FS_Subset
    <3>2. QED
      BY <2>1, <3>1, FS_EmptySet
  <2>3. PICK x \in U : \A y \in U : depth[x] <= depth[y]
    <3> DEFINE D == {depth[y] : y \in U}
    <3>1. D \subseteq Nat /\ D # {}
      BY <2>2
    <3>2. IsWellFoundedOn(OpToRel(<, Nat), Nat)
      BY NatLessThanWellFounded
    <3>3. PICK d \in D : \A e \in D : <<e, d>> \notin OpToRel(<, Nat)
      <4> HIDE DEF D
      <4>1. QED
        BY <3>1, <3>2, WFMin
    <3>4. PICK x \in U : d = depth[x]
      BY <3>3
    <3>5. ASSUME NEW y \in U PROVE depth[x] <= depth[y]
      <4>1. depth[y] \in Nat /\ depth[x] \in Nat /\ depth[y] \in D
        OBVIOUS
      <4>2. depth[y] < depth[x] => <<depth[y], d>> \in OpToRel(<, Nat)
        BY <3>4, <4>1 DEF OpToRel
      <4>3. ~(depth[y] < depth[x])
        <5> HIDE DEF D
        <5>1. QED
          BY <3>3, <4>1, <4>2
      <4>4. QED
        BY <4>1, <4>3
    <3>6. QED
      BY <3>5
  <2>4. U \ {x} \in SUBSET S /\ Cardinality(U \ {x}) = n
    <3>1. Cardinality(U \ {x}) = Cardinality(U) - 1
      BY <2>2, FS_RemoveElement
    <3>2. QED
      BY <2>1, <3>1
  <2>5. PICK s : Lists(s, U \ {x}, n, depth)
    BY <1>3, <2>4
  <2> DEFINE r == [i \in 1..(n + 1) |-> IF i = 1 THEN x ELSE s[i - 1]]
  <2>6. \A i \in 1..(n + 1) : i # 1 => i - 1 \in 1..n
    OBVIOUS
  <2>7. \A i \in 1..n : s[i] \in U /\ s[i] # x
    BY <2>5 DEF Lists
  <2>8. r \in [1..(n + 1) -> U] /\ 1 \in 1..(n + 1) /\ r[1] = x /\ \A i \in 1..(n + 1) : i # 1 => r[i] = s[i - 1]
    BY <2>6, <2>7
  <2> HIDE DEF r
  <2>9. ASSUME NEW i \in 1..(n + 1), NEW j \in 1..(n + 1), i # j PROVE r[i] # r[j]
    <3>1. CASE i = 1 \/ j = 1
      BY <2>6, <2>7, <2>8, <2>9, <3>1
    <3>2. CASE i # 1 /\ j # 1
      <4>1. i - 1 \in 1..n /\ j - 1 \in 1..n /\ i - 1 # j - 1
        BY <2>9, <3>2
      <4>2. QED
        BY <2>5, <2>8, <3>2, <4>1 DEF Lists
    <3>3. QED
      BY <3>1, <3>2
  <2>10. ASSUME NEW i \in 1..(n + 1), NEW j \in 1..(n + 1), i < j PROVE depth[r[i]] <= depth[r[j]]
    <3>1. CASE i = 1
      BY <2>3, <2>8, <3>1
    <3>2. CASE i # 1
      <4>1. i - 1 \in 1..n /\ j - 1 \in 1..n /\ i - 1 < j - 1 /\ j # 1
        BY <2>10, <3>2
      <4>2. QED
        BY <2>5, <2>8, <3>2, <4>1 DEF Lists
    <3>3. QED
      BY <3>1, <3>2
  <2>11. Lists(r, U, n + 1, depth)
    BY <2>8, <2>9, <2>10 DEF Lists
  <2>12. QED
    BY <2>11
<1> HIDE DEF T
<1>4. N \in T
  <2>1. 0..N \subseteq T
    BY <1>2, <1>3, CountUp
  <2>2. QED
    BY <2>1
<1>5. QED
  BY <1>1, <1>4 DEF T

\* What is listed is the whole set.
LEMMA ListsAll ==
  ASSUME NEW S, IsFiniteSet(S), NEW s \in [1..Cardinality(S) -> S],
         \A i, j \in 1..Cardinality(S) : i # j => s[i] # s[j]
  PROVE  s \in Seq(S) /\ Len(s) = Cardinality(S) /\ \A x \in S : \E i \in 1..Cardinality(S) : s[i] = x
<1>1. PICK N \in Nat : N = Cardinality(S)
  BY FS_CardinalityType
<1>2. s \in Injection(1..N, S)
  BY <1>1 DEF Injection, IsInjective
<1>3. IsFiniteSet(1..N) /\ Cardinality(1..N) = N
  BY FS_Interval
<1>4. s \in Surjection(1..N, S)
  BY <1>1, <1>2, <1>3, FS_Injection
<1>5. \A x \in S : \E i \in 1..N : s[i] = x
  BY <1>4 DEF Surjection
<1>6. s \in Seq(S) /\ Len(s) = N
  BY <1>1
<1>7. QED
  BY <1>1, <1>5, <1>6

-----------------------------------------------------------------------------
(* What is added up.                                                         *)

Total(s) ==
  LET total[n \in 0..Len(s)] == IF n = 0 THEN 0 ELSE total[n - 1] + s[n]
  IN  total[Len(s)]

\* g has what is added up to each place.
AddsUp(g, s) == g \in [0..Len(s) -> Nat] /\ g[0] = 0 /\ \A n \in 1..Len(s) : g[n] = g[n - 1] + s[n]

\* What is added up to each place.
LEMMA TotalIsRead ==
  ASSUME NEW s \in Seq(Nat)
  PROVE  \E g : AddsUp(g, s) /\ Total(s) = g[Len(s)]
<1>1. PICK N \in Nat : N = Len(s)
  OBVIOUS
<1> DEFINE F == [n \in 1..N |-> [m \in Nat |-> m + s[n]]]
           Def(g) == [n \in 0..N |-> IF n = 0 THEN 0 ELSE g[n - 1] + s[n]]
           all == CHOOSE g : g = Def(g)
<1>2. \A n \in 1..N : s[n] \in Nat
  BY <1>1
<1>3. F \in Reading(N, Nat)
  BY <1>2 DEF Reading
<1>4. ASSUME NEW m \in Nat, NEW n \in 1..N PROVE F[n][m] = m + s[n]
  OBVIOUS
<1>5. PICK g : ReadBy(g, N, Nat, 0, F)
  <2> HIDE DEF F
  <2>1. QED
    BY <1>3, ReadsExist
<1>6. g = Def(g)
  <2> HIDE DEF F
  <2>1. ASSUME NEW n \in 0..N PROVE g[n] = IF n = 0 THEN 0 ELSE g[n - 1] + s[n]
    <3>1. n # 0 => n \in 1..N /\ n - 1 \in 0..N
      OBVIOUS
    <3>2. QED
      BY <3>1, <1>4, <1>5 DEF ReadBy
  <2>2. g = [n \in 0..N |-> g[n]]
    BY <1>5 DEF ReadBy
  <2>3. QED
    BY <2>1, <2>2
<1> HIDE DEF F
<1>7. PICK r : r = all
  OBVIOUS
<1>8. r = Def(r)
  BY <1>6, <1>7
<1> HIDE DEF all
<1>9. r[0] = 0 /\ \A n \in 1..N : r[n] = r[n - 1] + s[n]
  <2>1. r = [n \in 0..N |-> IF n = 0 THEN 0 ELSE r[n - 1] + s[n]]
    BY <1>8
  <2>2. \A n \in 0..N : r[n] = IF n = 0 THEN 0 ELSE r[n - 1] + s[n]
    BY <2>1
  <2>3. QED
    BY <2>2
<1>10. r = [n \in 0..N |-> r[n]]
  BY <1>8
<1>11. r \in [0..N -> Nat]
  <2>1. 0 \in Nat /\ F \in Reading(N, Nat) /\ r[0] = 0
    BY <1>3, <1>9
  <2>2. \A n \in 1..N : r[n - 1] \in Nat => r[n] = F[n][r[n - 1]]
    BY <1>4, <1>9
  <2>3. QED
    BY <1>10, <2>1, <2>2, ReadsAre
<1>12. Total(s) = r[N]
  BY <1>1, <1>7, Zenon DEF Total, all
<1>13. QED
  BY <1>1, <1>9, <1>11, <1>12 DEF AddsUp

\* No numbers, one more, one first.
LEMMA TotalOf ==
  /\ Total(<<>>) = 0
  /\ \A s \in Seq(Nat) : Total(s) \in Nat
  /\ \A s \in Seq(Nat), e \in Nat : Total(Append(s, e)) = Total(s) + e /\ Total(<<e>> \o s) = e + Total(s)
<1>1. Total(<<>>) = 0
  <2>1. <<>> \in Seq(Nat) /\ Len(<<>>) = 0
    OBVIOUS
  <2>2. PICK g : AddsUp(g, <<>>) /\ Total(<<>>) = g[0]
    BY <2>1, TotalIsRead
  <2>3. QED
    BY <2>2 DEF AddsUp
<1>2. ASSUME NEW s \in Seq(Nat) PROVE Total(s) \in Nat
  BY TotalIsRead DEF AddsUp
<1>3. ASSUME NEW s \in Seq(Nat), NEW e \in Nat PROVE Total(Append(s, e)) = Total(s) + e
  <2>1. PICK N \in Nat : N = Len(s)
    OBVIOUS
  <2>2. PICK t : t = Append(s, e)
    OBVIOUS
  <2>3. t \in Seq(Nat) /\ Len(t) = N + 1 /\ t[N + 1] = e /\ \A n \in 1..N : t[n] = s[n]
    BY <2>1, <2>2
  <2>4. PICK g : g \in [0..N -> Nat] /\ g[0] = 0 /\ (\A n \in 1..N : g[n] = g[n - 1] + s[n]) /\ Total(s) = g[N]
    BY <2>1, TotalIsRead DEF AddsUp
  <2>5. PICK h : h \in [0..(N + 1) -> Nat] /\ h[0] = 0 /\ (\A n \in 1..(N + 1) : h[n] = h[n - 1] + t[n]) /\ Total(t) = h[N + 1]
    BY <2>3, TotalIsRead DEF AddsUp
  <2> DEFINE U == {n \in 0..N : h[n] = g[n]}
  <2>6. ASSUME NEW n \in 0..N, n \in U, n < N PROVE n + 1 \in U
    <3>1. n + 1 \in 1..N /\ (n + 1) - 1 = n /\ n + 1 \in 1..(N + 1) /\ h[n] = g[n]
      BY <2>6
    <3>2. h[n + 1] = h[n] + t[n + 1] /\ g[n + 1] = g[n] + s[n + 1] /\ t[n + 1] = s[n + 1]
      BY <2>3, <2>4, <2>5, <3>1
    <3>3. QED
      BY <3>1, <3>2
  <2>7. 0 \in U
    BY <2>4, <2>5
  <2> HIDE DEF U
  <2>8. N \in U
    <3>1. 0..N \subseteq U
      BY <2>6, <2>7, CountUp
    <3>2. QED
      BY <3>1
  <2>9. h[N] = g[N]
    BY <2>8 DEF U
  <2>10. h[N + 1] = h[N] + t[N + 1]
    <3>1. N + 1 \in 1..(N + 1) /\ (N + 1) - 1 = N
      OBVIOUS
    <3>2. QED
      BY <2>5, <3>1
  <2>11. QED
    BY <2>2, <2>3, <2>4, <2>5, <2>9, <2>10
<1>4. ASSUME NEW s \in Seq(Nat), NEW e \in Nat PROVE Total(<<e>> \o s) = e + Total(s)
  <2>1. PICK N \in Nat : N = Len(s)
    OBVIOUS
  <2>2. PICK t : t = <<e>> \o s
    OBVIOUS
  <2>3. t \in Seq(Nat) /\ Len(t) = N + 1 /\ t[1] = e /\ \A n \in 1..N : t[n + 1] = s[n]
    BY <2>1, <2>2
  <2>4. PICK g : g \in [0..N -> Nat] /\ g[0] = 0 /\ (\A n \in 1..N : g[n] = g[n - 1] + s[n]) /\ Total(s) = g[N]
    BY <2>1, TotalIsRead DEF AddsUp
  <2>5. PICK h : h \in [0..(N + 1) -> Nat] /\ h[0] = 0 /\ (\A n \in 1..(N + 1) : h[n] = h[n - 1] + t[n]) /\ Total(t) = h[N + 1]
    BY <2>3, TotalIsRead DEF AddsUp
  <2> DEFINE U == {n \in 0..N : h[n + 1] = e + g[n]}
  <2>6. ASSUME NEW n \in 0..N, n \in U, n < N PROVE n + 1 \in U
    <3>1. n + 1 \in 1..N /\ (n + 1) - 1 = n /\ (n + 1) + 1 \in 1..(N + 1) /\ ((n + 1) + 1) - 1 = n + 1 /\ h[n + 1] = e + g[n]
      BY <2>6
    <3>2. h[(n + 1) + 1] = h[n + 1] + t[(n + 1) + 1] /\ g[n + 1] = g[n] + s[n + 1] /\ t[(n + 1) + 1] = s[n + 1]
      BY <2>3, <2>4, <2>5, <3>1
    <3>3. g[n] \in Nat
      BY <2>4
    <3>4. s[n + 1] \in Nat
      BY <2>1, <3>1
    <3>5. h[(n + 1) + 1] = e + g[n + 1]
      BY <3>1, <3>2, <3>3, <3>4
    <3>6. QED
      BY <3>1, <3>5
  <2>7. 0 \in U
    <3>1. 1 \in 1..(N + 1) /\ 1 - 1 = 0
      OBVIOUS
    <3>2. h[1] = h[0] + t[1]
      BY <2>5, <3>1
    <3>3. QED
      BY <2>3, <2>4, <2>5, <3>2
  <2> HIDE DEF U
  <2>8. N \in U
    <3>1. 0..N \subseteq U
      BY <2>6, <2>7, CountUp
    <3>2. QED
      BY <3>1
  <2>9. h[N + 1] = e + g[N]
    BY <2>8 DEF U
  <2>10. QED
    BY <2>2, <2>4, <2>5, <2>9
<1>5. QED
  BY <1>1, <1>2, <1>3, <1>4

\* Where every number is at most another, so is what they add up to; and it is less if one of them is.
LEMMA TotalGrows ==
  ASSUME NEW s \in Seq(Nat), NEW t \in Seq(Nat), Len(s) = Len(t), \A i \in 1..Len(s) : s[i] <= t[i]
  PROVE  /\ Total(s) <= Total(t)
         /\ (\E i \in 1..Len(s) : s[i] < t[i]) => Total(s) < Total(t)
<1>1. PICK N \in Nat : N = Len(s) /\ N = Len(t)
  OBVIOUS
<1>2. PICK g : g \in [0..N -> Nat] /\ g[0] = 0 /\ (\A n \in 1..N : g[n] = g[n - 1] + s[n]) /\ Total(s) = g[N]
  BY <1>1, TotalIsRead DEF AddsUp
<1>3. PICK h : h \in [0..N -> Nat] /\ h[0] = 0 /\ (\A n \in 1..N : h[n] = h[n - 1] + t[n]) /\ Total(t) = h[N]
  BY <1>1, TotalIsRead DEF AddsUp
<1>4. ASSUME NEW n \in 0..N, n < N
      PROVE  /\ n + 1 \in 1..N /\ s[n + 1] \in Nat /\ t[n + 1] \in Nat /\ s[n + 1] <= t[n + 1]
             /\ g[n + 1] = g[n] + s[n + 1] /\ h[n + 1] = h[n] + t[n + 1] /\ g[n] \in Nat /\ h[n] \in Nat
  <2>1. n + 1 \in 1..N /\ (n + 1) - 1 = n
    BY <1>4
  <2>2. s[n + 1] \in Nat /\ t[n + 1] \in Nat /\ s[n + 1] <= t[n + 1]
    BY <1>1, <2>1
  <2>3. g[n + 1] = g[n] + s[n + 1] /\ h[n + 1] = h[n] + t[n + 1]
    BY <1>2, <1>3, <2>1
  <2>4. g[n] \in Nat /\ h[n] \in Nat
    BY <1>2, <1>3
  <2>5. QED
    BY <2>1, <2>2, <2>3, <2>4
<1> DEFINE U == {n \in 0..N : g[n] <= h[n] /\ ((\E i \in 1..n : s[i] < t[i]) => g[n] < h[n])}
<1>5. ASSUME NEW n \in 0..N, n \in U, n < N PROVE n + 1 \in U
  <2>1. /\ n + 1 \in 1..N /\ s[n + 1] \in Nat /\ t[n + 1] \in Nat /\ s[n + 1] <= t[n + 1]
        /\ g[n + 1] = g[n] + s[n + 1] /\ h[n + 1] = h[n] + t[n + 1] /\ g[n] \in Nat /\ h[n] \in Nat
    BY <1>4, <1>5
  <2>2. g[n] <= h[n] /\ ((\E i \in 1..n : s[i] < t[i]) => g[n] < h[n])
    BY <1>5
  <2>3. g[n + 1] <= h[n + 1]
    BY <2>1, <2>2
  <2>4. ASSUME NEW i \in 1..(n + 1), s[i] < t[i] PROVE g[n + 1] < h[n + 1]
    <3>1. CASE i = n + 1
      BY <2>1, <2>2, <2>4, <3>1
    <3>2. CASE i # n + 1
      <4>1. i \in 1..n
        BY <3>2
      <4>2. g[n] < h[n]
        BY <2>2, <2>4, <4>1
      <4>3. QED
        BY <2>1, <4>2
    <3>3. QED
      BY <3>1, <3>2
  <2>5. n + 1 \in 0..N
    BY <2>1
  <2>6. QED
    BY <2>3, <2>4, <2>5
<1>6. 0 \in U
  BY <1>2, <1>3
<1> HIDE DEF U
<1>7. 0..N \subseteq U
  BY <1>5, <1>6, CountUp
<1>8. N \in U
  BY <1>7
<1>9. g[N] <= h[N] /\ ((\E i \in 1..N : s[i] < t[i]) => g[N] < h[N])
  BY <1>8 DEF U
<1>10. QED
  BY <1>1, <1>2, <1>3, <1>9

\* One number raised.
LEMMA TotalRaised ==
  ASSUME NEW s \in Seq(Nat), NEW k \in 1..Len(s), NEW e \in Nat
  PROVE  [s EXCEPT ![k] = s[k] + e] \in Seq(Nat) /\ Total([s EXCEPT ![k] = s[k] + e]) = Total(s) + e
<1>1. PICK N \in Nat : N = Len(s)
  OBVIOUS
<1>2. PICK t : t = [s EXCEPT ![k] = s[k] + e]
  OBVIOUS
<1>3. s[k] \in Nat
  OBVIOUS
<1>4. t \in Seq(Nat) /\ Len(t) = N /\ t[k] = s[k] + e /\ \A i \in 1..N : i # k => t[i] = s[i]
  BY <1>1, <1>2, <1>3
<1>5. PICK g : g \in [0..N -> Nat] /\ g[0] = 0 /\ (\A n \in 1..N : g[n] = g[n - 1] + s[n]) /\ Total(s) = g[N]
  BY <1>1, TotalIsRead DEF AddsUp
<1>6. PICK h : h \in [0..N -> Nat] /\ h[0] = 0 /\ (\A n \in 1..N : h[n] = h[n - 1] + t[n]) /\ Total(t) = h[N]
  BY <1>4, TotalIsRead DEF AddsUp
<1> DEFINE U == {n \in 0..N : h[n] = IF k <= n THEN g[n] + e ELSE g[n]}
<1>7. ASSUME NEW n \in 0..N, n \in U, n < N PROVE n + 1 \in U
  <2>1. n + 1 \in 1..N /\ (n + 1) - 1 = n /\ n + 1 \in 0..N
    BY <1>7
  <2>2. h[n] = IF k <= n THEN g[n] + e ELSE g[n]
    BY <1>7
  <2>3. g[n + 1] = g[n] + s[n + 1] /\ h[n + 1] = h[n] + t[n + 1]
    BY <1>5, <1>6, <2>1
  <2>4. g[n] \in Nat
    BY <1>5
  <2>5. s[n + 1] \in Nat
    BY <1>1, <2>1
  <2>6. t[n + 1] = IF n + 1 = k THEN s[n + 1] + e ELSE s[n + 1]
    BY <1>4, <2>1
  <2>7. h[n + 1] = IF k <= n + 1 THEN g[n + 1] + e ELSE g[n + 1]
    <3>1. PICK a \in Nat, c \in Nat : a = g[n] /\ c = s[n + 1]
      BY <2>4, <2>5
    <3>5. PICK b : b = h[n]
      OBVIOUS
    <3>2. CASE n + 1 = k
      <4>1. b = a /\ t[n + 1] = c + e /\ k <= n + 1
        BY <2>2, <2>6, <3>1, <3>5, <3>2
      <4>2. h[n + 1] = a + (c + e) /\ g[n + 1] = a + c
        BY <2>3, <3>1, <3>5, <4>1
      <4>3. a + (c + e) = (a + c) + e
        OBVIOUS
      <4>4. QED
        BY <4>1, <4>2, <4>3
    <3>3. CASE n + 1 # k
      <4>1. t[n + 1] = c /\ (k <= n + 1 <=> k <= n)
        BY <2>6, <3>1, <3>5, <3>3
      <4>2. h[n + 1] = b + c /\ g[n + 1] = a + c /\ b = IF k <= n THEN a + e ELSE a
        BY <2>2, <2>3, <3>1, <3>5, <4>1
      <4>3. (a + e) + c = (a + c) + e
        OBVIOUS
      <4>4. QED
        BY <4>1, <4>2, <4>3
    <3>4. QED
      BY <3>2, <3>3
  <2>8. QED
    BY <2>1, <2>7
<1>8. 0 \in U
  BY <1>5, <1>6
<1> HIDE DEF U
<1>9. 0..N \subseteq U
  BY <1>7, <1>8, CountUp
<1>10. N \in U
  BY <1>9
<1>11. h[N] = g[N] + e
  BY <1>1, <1>10 DEF U
<1>12. QED
  BY <1>2, <1>4, <1>5, <1>6, <1>11

\* Numbers that are at most c.
LEMMA TotalBounded ==
  ASSUME NEW s \in Seq(Nat), NEW c \in Nat, \A i \in 1..Len(s) : s[i] <= c
  PROVE  Total(s) <= c * Len(s)
<1>1. PICK N \in Nat : N = Len(s)
  OBVIOUS
<1>2. PICK g : g \in [0..N -> Nat] /\ g[0] = 0 /\ (\A n \in 1..N : g[n] = g[n - 1] + s[n]) /\ Total(s) = g[N]
  BY <1>1, TotalIsRead DEF AddsUp
<1> DEFINE U == {n \in 0..N : g[n] <= c * n}
<1>3. ASSUME NEW n \in 0..N, n \in U, n < N PROVE n + 1 \in U
  <2>1. n + 1 \in 1..N /\ (n + 1) - 1 = n /\ n + 1 \in 0..N
    BY <1>3
  <2>2. PICK a \in Nat, b \in Nat : a = g[n] /\ b = s[n + 1] /\ a <= c * n /\ b <= c
    <3>1. g[n] \in Nat /\ g[n] <= c * n
      BY <1>2, <1>3
    <3>2. s[n + 1] \in Nat /\ s[n + 1] <= c
      BY <1>1, <2>1
    <3>3. QED
      BY <3>1, <3>2
  <2>3. g[n + 1] = a + b
    BY <1>2, <2>1, <2>2
  <2>4. c * n \in Nat /\ c * (n + 1) = c * n + c
    OBVIOUS
  <2>5. g[n + 1] <= c * (n + 1)
    BY <2>2, <2>3, <2>4
  <2>6. QED
    BY <2>1, <2>5
<1>4. 0 \in U
  BY <1>2
<1> HIDE DEF U
<1>5. 0..N \subseteq U
  BY <1>3, <1>4, CountUp
<1>6. N \in U
  BY <1>5
<1>7. QED
  BY <1>1, <1>2, <1>6 DEF U

-----------------------------------------------------------------------------
(* Sets listed by a strict order.                                            *)

\* R is a strict order of all elements of S.
Orders(R, S) ==
  /\ \A x \in S : <<x, x>> \notin R
  /\ \A x, y \in S : x # y => <<x, y>> \in R \/ <<y, x>> \in R
  /\ \A x, y, z \in S : <<x, y>> \in R /\ <<y, z>> \in R => <<x, z>> \in R

\* Every finite set can be listed by such an order.
LEMMA OrderExists ==
  ASSUME NEW S, IsFiniteSet(S), NEW R, Orders(R, S)
  PROVE  \E s \in [1..Cardinality(S) -> S] :
           /\ \A i, j \in 1..Cardinality(S) : i # j => s[i] # s[j]
           /\ \A i, j \in 1..Cardinality(S) : i < j => <<s[i], s[j]>> \in R
<1> DEFINE Above(x) == {y \in S : <<y, x>> \in R}
           rank == [x \in S |-> Cardinality(Above(x))]
<1>1. PICK N \in Nat : N = Cardinality(S)
  BY FS_CardinalityType
<1>2. ASSUME NEW x \in S PROVE IsFiniteSet(Above(x)) /\ Cardinality(Above(x)) \in Nat
  BY FS_Subset, FS_CardinalityType
<1>3. rank \in [S -> Nat]
  BY <1>2
<1>4. ASSUME NEW x \in S, NEW y \in S, <<x, y>> \in R PROVE rank[x] < rank[y]
  <2>1. Above(x) \subseteq Above(y) /\ x \in Above(y) /\ x \notin Above(x)
    BY <1>4 DEF Orders
  <2>2. Above(x) # Above(y)
    BY <2>1
  <2>3. Cardinality(Above(x)) < Cardinality(Above(y))
    <3> HIDE DEF Above
    <3>1. QED
      BY <1>2, <2>1, <2>2, FS_Subset
  <2>4. QED
    BY <2>3
<1> HIDE DEF rank
<1>5. PICK s : Lists(s, S, N, rank)
  BY <1>1, <1>3, ListExists
<1>6. /\ s \in [1..N -> S] /\ (\A i, j \in 1..N : i # j => s[i] # s[j])
      /\ \A i, j \in 1..N : i < j => rank[s[i]] <= rank[s[j]]
  BY <1>5 DEF Lists
<1>7. ASSUME NEW i \in 1..N, NEW j \in 1..N, i < j PROVE <<s[i], s[j]>> \in R
  <2>1. PICK x \in S, y \in S : x = s[i] /\ y = s[j]
    BY <1>6
  <2>2. x # y /\ rank[x] <= rank[y]
    BY <1>6, <1>7, <2>1
  <2>3. ASSUME <<y, x>> \in R PROVE FALSE
    <3>1. rank[y] < rank[x]
      BY <1>4, <2>3
    <3>2. rank[x] \in Nat /\ rank[y] \in Nat
      BY <1>3
    <3>3. QED
      BY <2>2, <3>1, <3>2
  <2>4. QED
    BY <2>1, <2>2, <2>3 DEF Orders
<1>8. QED
  BY <1>1, <1>6, <1>7

\* A list read backwards adds up to the same.
LEMMA TotalReversed ==
  ASSUME NEW s \in Seq(Nat)
  PROVE  Total([i \in 1..Len(s) |-> s[(Len(s) - i) + 1]]) = Total(s)
<1>1. PICK N \in Nat : N = Len(s)
  OBVIOUS
<1> DEFINE Back(n) == [i \in 1..n |-> s[(n - i) + 1]]
           U == {n \in 0..N : Total(Back(n)) = Total(SubSeq(s, 1, n))}
<1>2. ASSUME NEW n \in 0..N PROVE Back(n) \in Seq(Nat) /\ Len(Back(n)) = n /\ SubSeq(s, 1, n) \in Seq(Nat) /\ Len(SubSeq(s, 1, n)) = n
  <2>1. \A i \in 1..n : (n - i) + 1 \in 1..N
    OBVIOUS
  <2>2. \A i \in 1..n : s[(n - i) + 1] \in Nat
    BY <1>1, <2>1
  <2>3. Back(n) \in Seq(Nat) /\ Len(Back(n)) = n
    BY <2>2
  <2>4. SubSeq(s, 1, n) \in Seq(Nat) /\ Len(SubSeq(s, 1, n)) = n
    BY <1>1
  <2>5. QED
    BY <2>3, <2>4
<1>3. ASSUME NEW n \in 0..N, n \in U, n < N PROVE n + 1 \in U
  <2>1. n + 1 \in 1..N /\ n + 1 \in 0..N
    BY <1>3
  <2>2. PICK a \in Seq(Nat), b \in Seq(Nat), e \in Nat : a = Back(n) /\ b = SubSeq(s, 1, n) /\ e = s[n + 1] /\ Len(a) = n /\ Len(b) = n
    <3>1. s[n + 1] \in Nat
      BY <1>1, <2>1
    <3>2. QED
      BY <1>2, <3>1
  <2>3. SubSeq(s, 1, n + 1) = Append(b, e)
    <3>1. PICK c : c = SubSeq(s, 1, n + 1)
      OBVIOUS
    <3>0. c \in Seq(Nat) /\ Len(c) = n + 1 /\ \A i \in 1..(n + 1) : c[i] = s[i]
      BY <1>1, <2>1, <3>1
    <3>2. \A i \in 1..n : b[i] = s[i]
      BY <1>1, <2>1, <2>2
    <3>3. PICK d : d = Append(b, e)
      OBVIOUS
    <3>4. d \in Seq(Nat) /\ Len(d) = n + 1 /\ d[n + 1] = e /\ \A i \in 1..n : d[i] = b[i]
      BY <2>2, <3>3
    <3>5. ASSUME NEW i \in 1..(n + 1) PROVE c[i] = d[i]
      <4>1. CASE i = n + 1
        BY <2>2, <3>0, <3>4, <4>1
      <4>2. CASE i # n + 1
        <5>1. i \in 1..n
          BY <4>2
        <5>2. QED
          BY <3>0, <3>2, <3>4, <5>1
      <4>3. QED
        BY <4>1, <4>2
    <3>6. c = d
      BY <3>0, <3>4, <3>5, SeqEqual
    <3>7. QED
      BY <3>1, <3>3, <3>6
  <2>4. Back(n + 1) = <<e>> \o a
    <3>1. PICK c \in Seq(Nat) : c = Back(n + 1) /\ Len(c) = n + 1
      BY <1>2, <2>1
    <3>0. PICK d : d = <<e>> \o a
      OBVIOUS
    <3>2. d \in Seq(Nat) /\ Len(d) = n + 1 /\ d[1] = e /\ \A i \in 1..n : d[i + 1] = a[i]
      BY <2>2, <3>0
    <3>3. ASSUME NEW i \in 1..(n + 1) PROVE c[i] = d[i]
      <4>1. c[i] = s[((n + 1) - i) + 1]
        BY <3>1
      <4>2. CASE i = 1
        <5>1. ((n + 1) - i) + 1 = n + 1
          BY <4>2
        <5>2. QED
          BY <4>1, <4>2, <5>1, <3>2, <2>2
      <4>3. CASE i # 1
        <5>1. i - 1 \in 1..n /\ (n - (i - 1)) + 1 = ((n + 1) - i) + 1 /\ (i - 1) + 1 = i
          BY <4>3
        <5>2. a[i - 1] = s[(n - (i - 1)) + 1]
          BY <2>2, <5>1
        <5>3. d[i] = a[i - 1]
          BY <3>2, <5>1
        <5>4. QED
          BY <4>1, <5>1, <5>2, <5>3
      <4>4. QED
        BY <4>2, <4>3
    <3>4. c = d
      BY <3>1, <3>2, <3>3, SeqEqual
    <3>5. QED
      BY <3>0, <3>1, <3>4
  <2>5. Total(a) = Total(b)
    BY <1>3, <2>2
  <2>6. Total(Append(b, e)) = Total(b) + e /\ Total(<<e>> \o a) = e + Total(a) /\ Total(a) \in Nat
    BY TotalOf
  <2>7. Total(Back(n + 1)) = Total(SubSeq(s, 1, n + 1))
    <3>1. PICK p, q : p = Back(n + 1) /\ q = SubSeq(s, 1, n + 1)
      OBVIOUS
    <3>2. p = <<e>> \o a /\ q = Append(b, e)
      BY <2>3, <2>4, <3>1
    <3>3. Total(p) = e + Total(a) /\ Total(q) = Total(b) + e
      BY <2>6, <3>2
    <3>4. Total(p) = Total(q)
      BY <2>5, <2>6, <3>3
    <3>5. QED
      BY <3>1, <3>4
  <2>8. QED
    BY <2>1, <2>7
<1>4. 0 \in U
  <2>1. PICK p, q : p = Back(0) /\ q = SubSeq(s, 1, 0)
    OBVIOUS
  <2>2. p = <<>> /\ q = <<>>
    BY <2>1
  <2>3. Total(p) = Total(q)
    BY <2>2
  <2>4. Total(Back(0)) = Total(SubSeq(s, 1, 0))
    BY <2>1, <2>3
  <2>5. QED
    BY <2>4
<1> HIDE DEF U
<1>5. 0..N \subseteq U
  BY <1>3, <1>4, CountUp
<1>6. Total(Back(N)) = Total(SubSeq(s, 1, N))
  BY <1>5 DEF U
<1>7. SubSeq(s, 1, N) = s
  <2>1. PICK c \in Seq(Nat) : c = SubSeq(s, 1, N) /\ Len(c) = N /\ \A i \in 1..N : c[i] = s[i]
    BY <1>1
  <2>2. c = s
    BY <1>1, <2>1, SeqEqual
  <2>3. QED
    BY <2>1, <2>2
<1>8. QED
  BY <1>1, <1>6, <1>7

=============================================================================
