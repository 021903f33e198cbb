----------------------------- MODULE MemoryProofs -----------------------------
(***************************************************************************)
(* Theorems about what a new run is told of earlier ones: which of them and in *)
(* what order, how an excerpt is shared out, and what is handed on of an        *)
(* earlier ledger, for any runs, sizes and limits.                            *)
(*                                                                         *)
(* A recursive function is read step by step once it is shown to exist           *)
(* (PackingIsRead, GivingIsRead, BindingIsRead); what holds after every step is   *)
(* then shown by CountUp.                                                   *)
(***************************************************************************)
EXTENDS Surroundings, Recursion

-----------------------------------------------------------------------------
(* What is left is given out.                                                *)

LEMMA ListsAre == \A T, n \in Nat : \A z \in [1..n -> T] : z \in Seq(T) /\ Len(z) = n
<1>1. SUFFICES ASSUME NEW T, NEW n \in Nat, NEW z \in [1..n -> T] PROVE z \in Seq(T) /\ Len(z) = n
  OBVIOUS
<1>2. z \in Seq(T)
  BY SeqDef
<1>3. QED
  BY <1>2

LEMMA SumsAre == \A s : Past!Sum(s) = Total(s) /\ Shelf!Sum(s) = Total(s)
BY DEF Past!Sum, Shelf!Sum, Total

\* What has been given of what is wanted.
GivenOf(wanted) ==
  [sizes : {z \in [1..Len(wanted) -> Nat] : \A k \in 1..Len(wanted) : z[k] <= wanted[k]}, left : Nat]

\* One takes what it lacks, or all that is left.
LEMMA GiveGives ==
  ASSUME NEW wanted \in Seq(Nat), NEW g \in GivenOf(wanted), NEW k \in 1..Len(wanted)
  PROVE  /\ Past!Give(g, wanted, k) \in GivenOf(wanted)
         /\ \E e \in Nat : /\ Past!Give(g, wanted, k) = [sizes |-> [g.sizes EXCEPT ![k] = g.sizes[k] + e], left |-> g.left - e]
                           /\ e <= g.left /\ (e = g.left \/ g.sizes[k] + e = wanted[k])
<1>1. PICK z \in [1..Len(wanted) -> Nat], l \in Nat : z = g.sizes /\ l = g.left /\ \A i \in 1..Len(wanted) : z[i] <= wanted[i]
  BY DEF GivenOf
<1>2. PICK w \in Nat, a \in Nat : w = wanted[k] /\ a = z[k] /\ a <= w
  <2>1. wanted[k] \in Nat /\ z[k] \in Nat
    OBVIOUS
  <2>2. QED
    BY <1>1, <2>1
<1>3. PICK e \in Nat : e = Past!Least(l, w - a) /\ e <= l /\ e <= w - a /\ (e = l \/ e = w - a)
  <2>1. w - a \in Nat
    BY <1>2
  <2>2. PICK e : e = Past!Least(l, w - a)
    OBVIOUS
  <2>3. e \in Nat /\ e <= l /\ e <= w - a /\ (e = l \/ e = w - a)
    BY <2>1, <2>2 DEF Past!Least
  <2>4. QED
    BY <2>2, <2>3
<1>4. Past!Give(g, wanted, k) = [sizes |-> [z EXCEPT ![k] = a + e], left |-> l - e]
  BY <1>1, <1>2, <1>3 DEF Past!Give
<1>5. PICK y : y = [z EXCEPT ![k] = a + e]
  OBVIOUS
<1>6. y \in [1..Len(wanted) -> Nat] /\ \A i \in 1..Len(wanted) : y[i] <= wanted[i]
  <2>1. a + e \in Nat /\ a + e <= w
    BY <1>2, <1>3
  <2>2. y \in [1..Len(wanted) -> Nat] /\ y[k] = a + e /\ \A i \in 1..Len(wanted) : i # k => y[i] = z[i]
    BY <1>5, <2>1
  <2>3. QED
    BY <1>1, <1>2, <2>1, <2>2
<1>7. l - e \in Nat
  BY <1>3
<1>8. Past!Give(g, wanted, k) \in GivenOf(wanted)
  BY <1>4, <1>5, <1>6, <1>7 DEF GivenOf
<1>9. a + e = w \/ e = l
  BY <1>2, <1>3
<1>10. QED
  BY <1>1, <1>2, <1>3, <1>4, <1>8, <1>9

\* What has been given up to each place of an order.
LEMMA GivingIsRead ==
  ASSUME NEW wanted \in Seq(Nat), NEW order \in Seq(1..Len(wanted)), NEW x \in GivenOf(wanted)
  PROVE  \E g \in [0..Len(order) -> GivenOf(wanted)] :
           /\ g[0] = x /\ \A n \in 1..Len(order) : g[n] = Past!Give(g[n - 1], wanted, order[n])
           /\ Past!GiveOut(x.sizes, wanted, x.left, order) = g[Len(order)].sizes
<1> DEFINE S == GivenOf(wanted)
<1>1. PICK N \in Nat : N = Len(order)
  OBVIOUS
<1> DEFINE F == [n \in 1..N |-> [s \in S |-> Past!Give(s, wanted, order[n])]]
           Def(g) == [n \in 0..N |-> IF n = 0 THEN x ELSE Past!Give(g[n - 1], wanted, order[n])]
           all == CHOOSE g : g = Def(g)
<1>2. \A s \in S, n \in 1..N : Past!Give(s, wanted, order[n]) \in S
  <2>1. \A n \in 1..N : order[n] \in 1..Len(wanted)
    BY <1>1
  <2>2. QED
    BY <2>1, GiveGives
<1>3. F \in Reading(N, S)
  BY <1>2 DEF Reading
<1>4. ASSUME NEW s \in S, NEW n \in 1..N PROVE F[n][s] = Past!Give(s, wanted, order[n])
  OBVIOUS
<1>5. x \in S
  OBVIOUS
<1>6. PICK g : ReadBy(g, N, S, x, F)
  <2> HIDE DEF S, F
  <2>1. QED
    BY <1>3, <1>5, ReadsExist
<1>7. g = Def(g)
  <2> HIDE DEF S, F
  <2>1. ASSUME NEW n \in 0..N PROVE g[n] = IF n = 0 THEN x ELSE Past!Give(g[n - 1], wanted, order[n])
    <3>1. n # 0 => n \in 1..N /\ n - 1 \in 0..N
      OBVIOUS
    <3>2. QED
      BY <3>1, <1>4, <1>6 DEF ReadBy
  <2>2. g = [n \in 0..N |-> g[n]]
    BY <1>6 DEF ReadBy
  <2>3. QED
    BY <2>1, <2>2
<1> HIDE DEF S, F
<1>8. PICK r : r = all
  OBVIOUS
<1>9. r = Def(r)
  BY <1>7, <1>8
<1> HIDE DEF all
<1>10. r[0] = x /\ \A n \in 1..N : r[n] = Past!Give(r[n - 1], wanted, order[n])
  <2>1. r = [n \in 0..N |-> IF n = 0 THEN x ELSE Past!Give(r[n - 1], wanted, order[n])]
    BY <1>9
  <2>2. \A n \in 0..N : r[n] = IF n = 0 THEN x ELSE Past!Give(r[n - 1], wanted, order[n])
    BY <2>1
  <2>3. QED
    BY <2>2
<1>11. r = [n \in 0..N |-> r[n]]
  BY <1>9
<1>12. r \in [0..N -> S]
  <2>1. x \in S /\ F \in Reading(N, S) /\ r[0] = x
    BY <1>3, <1>5, <1>10
  <2>2. \A n \in 1..N : r[n - 1] \in S => r[n] = F[n][r[n - 1]]
    BY <1>4, <1>10
  <2>3. QED
    BY <1>11, <2>1, <2>2, ReadsAre
<1>13. x = [sizes |-> x.sizes, left |-> x.left]
  BY DEF GivenOf
<1>14. Past!GiveOut(x.sizes, wanted, x.left, order) = r[N].sizes
  <2>1. PICK z, l : z = x.sizes /\ l = x.left
    OBVIOUS
  <2>2. x = [sizes |-> z, left |-> l]
    BY <1>13, <2>1
  <2>3. Past!GiveOut(z, wanted, l, order) = r[N].sizes
    BY <1>1, <1>8, <2>2, Zenon DEF Past!GiveOut, all
  <2>4. QED
    BY <2>1, <2>3
<1>15. QED
  BY <1>1, <1>10, <1>12, <1>14 DEF S

\* All that is left is given, or nobody lacks anything; and nobody gets less than it has or more than it wants.
LEMMA GivenOut ==
  ASSUME NEW wanted \in Seq(Nat), NEW order \in Seq(1..Len(wanted)),
         NEW sizes \in Seq(Nat), Len(sizes) = Len(wanted), \A k \in 1..Len(wanted) : sizes[k] <= wanted[k], NEW left \in Nat,
         \A k \in 1..Len(wanted) : \E i \in 1..Len(order) : order[i] = k
  PROVE  LET r == Past!GiveOut(sizes, wanted, left, order) IN
         /\ r \in Seq(Nat) /\ Len(r) = Len(wanted)
         /\ \A k \in 1..Len(wanted) : sizes[k] <= r[k] /\ r[k] <= wanted[k]
         /\ Total(r) <= Total(sizes) + left
         /\ r = wanted \/ Total(r) = Total(sizes) + left
<1>1. PICK x : x = [sizes |-> sizes, left |-> left]
  OBVIOUS
<1>2. PICK m \in Nat : m = Len(wanted) /\ m = Len(sizes)
  OBVIOUS
<1>0. \A k \in 1..m : sizes[k] \in Nat /\ wanted[k] \in Nat /\ sizes[k] <= wanted[k]
  BY <1>2
<1>3. x \in GivenOf(wanted) /\ x.sizes = sizes /\ x.left = left
  BY <1>1 DEF GivenOf
<1>4. PICK g \in [0..Len(order) -> GivenOf(wanted)] :
        /\ g[0] = x /\ \A n \in 1..Len(order) : g[n] = Past!Give(g[n - 1], wanted, order[n])
        /\ Past!GiveOut(sizes, wanted, left, order) = g[Len(order)].sizes
  <2>1. \E g \in [0..Len(order) -> GivenOf(wanted)] :
        /\ g[0] = x /\ \A n \in 1..Len(order) : g[n] = Past!Give(g[n - 1], wanted, order[n])
        /\ Past!GiveOut(x.sizes, wanted, x.left, order) = g[Len(order)].sizes
    <3>1. x \in GivenOf(wanted)
      BY <1>3
    <3>2. QED
      BY ONLY <3>1, wanted \in Seq(Nat), order \in Seq(1..Len(wanted)), GivingIsRead
  <2>2. Past!GiveOut(x.sizes, wanted, x.left, order) = Past!GiveOut(sizes, wanted, left, order)
    BY <1>3
  <2>3. QED
    BY <2>1, <2>2
<1>5. PICK N \in Nat : N = Len(order)
  OBVIOUS
<1>6. PICK total \in Nat : total = Total(sizes) + left
  BY TotalOf
\* How far it has come after n.
<1> DEFINE Told(n) == /\ \A k \in 1..m : sizes[k] <= g[n].sizes[k]
                      /\ Total(g[n].sizes) + g[n].left = total
                      /\ g[n].left = 0 \/ \A i \in 1..n : g[n].sizes[order[i]] = wanted[order[i]]
           U == {n \in 0..N : Told(n)}
<1>7. ASSUME NEW n \in 0..N PROVE g[n].sizes \in [1..m -> Nat] /\ g[n].left \in Nat /\ \A k \in 1..m : g[n].sizes[k] <= wanted[k]
  BY <1>2, <1>4, <1>5 DEF GivenOf
<1>8. 0 \in U
  <2>1. g[0].sizes = sizes /\ g[0].left = left
    BY <1>3, <1>4
  <2>2. Told(0)
    BY <1>0, <1>6, <2>1
  <2>3. QED
    BY <2>2
<1>9. ASSUME NEW n \in 0..N, n \in U, n < N PROVE n + 1 \in U
  <2>1. n + 1 \in 1..N /\ n + 1 \in 0..N /\ (n + 1) - 1 = n
    BY <1>9
  <2>2. Told(n)
    BY <1>9
  <2>3. PICK k \in 1..m : k = order[n + 1]
    BY <1>2, <1>5, <2>1
  <2>4. PICK z \in Seq(Nat), l \in Nat : z = g[n].sizes /\ l = g[n].left /\ Len(z) = m
    <3>1. PICK z, l : z \in [1..m -> Nat] /\ l \in Nat /\ z = g[n].sizes /\ l = g[n].left
      BY <1>7
    <3>2. z \in Seq(Nat) /\ Len(z) = m
      <4>1. z \in [1..m -> Nat]
        BY <3>1
      <4>2. m \in Nat
        OBVIOUS
      <4>3. \A y \in [1..m -> Nat] : y \in Seq(Nat) /\ Len(y) = m
        BY <4>2, ListsAre
      <4>4. QED
        BY <4>1, <4>3
    <3>3. QED
      BY <3>1, <3>2
  <2>5. PICK e \in Nat : /\ g[n + 1] = [sizes |-> [z EXCEPT ![k] = z[k] + e], left |-> l - e]
                         /\ e <= l /\ (e = l \/ z[k] + e = wanted[k])
    <3>1. g[n + 1] = Past!Give(g[n], wanted, k) /\ g[n] \in GivenOf(wanted) /\ k \in 1..Len(wanted)
      BY <1>2, <1>4, <1>5, <2>1, <2>3
    <3>2. PICK f : f = g[n]
      OBVIOUS
    <3>3. f \in GivenOf(wanted) /\ f.sizes = z /\ f.left = l
      BY <2>4, <3>1, <3>2
    <3>4. \E e \in Nat : /\ Past!Give(f, wanted, k) = [sizes |-> [f.sizes EXCEPT ![k] = f.sizes[k] + e], left |-> f.left - e]
                          /\ e <= f.left /\ (e = f.left \/ f.sizes[k] + e = wanted[k])
      BY ONLY <3>1, <3>3, wanted \in Seq(Nat), GiveGives
    <3>5. QED
      BY <3>1, <3>2, <3>3, <3>4
  <2>6. PICK y : y = [z EXCEPT ![k] = z[k] + e]
    OBVIOUS
  <2>7. y \in Seq(Nat) /\ Total(y) = Total(z) + e
    BY <2>4, <2>6, TotalRaised
  <2>8. g[n + 1].sizes = y /\ g[n + 1].left = l - e
    BY <2>5, <2>6
  <2>9. \A i \in 1..m : y[i] = IF i = k THEN z[i] + e ELSE z[i]
    BY <2>4, <2>6
  <2>10. \A i \in 1..m : z[i] \in Nat /\ z[i] <= wanted[i] /\ sizes[i] <= z[i] /\ sizes[i] \in Nat
    BY <1>0, <1>7, <2>2, <2>4
  <2>11. \A i \in 1..m : sizes[i] <= y[i]
    <3>1. SUFFICES ASSUME NEW i \in 1..m PROVE sizes[i] <= y[i]
      OBVIOUS
    <3>2. PICK a \in Nat, b \in Nat : a = sizes[i] /\ b = z[i] /\ a <= b
      BY <2>10
    <3>3. y[i] = IF i = k THEN b + e ELSE b
      BY <2>9, <3>2
    <3>4. QED
      BY <3>2, <3>3
  <2>12. Total(y) + (l - e) = total
    <3>1. Total(z) \in Nat /\ Total(z) + l = total
      BY <2>2, <2>4, TotalOf
    <3>2. QED
      BY <2>5, <2>7, <3>1
  <2>13. l - e = 0 \/ \A i \in 1..(n + 1) : y[order[i]] = wanted[order[i]]
    <3>1. SUFFICES ASSUME l - e # 0, NEW i \in 1..(n + 1) PROVE y[order[i]] = wanted[order[i]]
      OBVIOUS
    <3>2. l # 0 /\ z[k] + e = wanted[k]
      BY <2>5, <3>1
    <3>3. order[i] \in 1..m /\ (i # n + 1 => i \in 1..n)
      <4>1. i \in 1..N /\ (i # n + 1 => i \in 1..n)
        BY <2>1
      <4>2. QED
        BY <1>2, <1>5, <4>1
    <3>4. i # n + 1 => z[order[i]] = wanted[order[i]]
      BY <2>2, <2>4, <3>2, <3>3
    <3>5. CASE order[i] = k
      BY <2>9, <3>2, <3>5
    <3>6. CASE order[i] # k
      BY <2>3, <2>9, <3>3, <3>4, <3>6
    <3>7. QED
      BY <3>5, <3>6
  <2>14. Told(n + 1)
    BY <2>8, <2>11, <2>12, <2>13
  <2>15. QED
    BY <2>1, <2>14
<1> HIDE DEF U
<1>10. 0..N \subseteq U
  BY <1>8, <1>9, CountUp
<1>11. N \in U
  BY <1>10
<1>12. Told(N)
  BY <1>11 DEF U
<1>13. PICK r : r = g[N].sizes
  OBVIOUS
<1>14. r \in Seq(Nat) /\ Len(r) = m /\ \A k \in 1..m : sizes[k] <= r[k] /\ r[k] <= wanted[k]
  <2>1. r \in [1..m -> Nat] /\ \A k \in 1..m : sizes[k] <= r[k] /\ r[k] <= wanted[k]
    BY <1>7, <1>12, <1>13
  <2>2. r \in Seq(Nat) /\ Len(r) = m
    BY <2>1
  <2>3. QED
    BY <2>1, <2>2
<1>15. Total(r) <= total /\ (g[N].left = 0 => Total(r) = total)
  <2>1. Total(r) \in Nat /\ g[N].left \in Nat /\ Total(r) + g[N].left = total
    BY <1>7, <1>12, <1>13, <1>14, TotalOf
  <2>2. QED
    BY <2>1
<1>16. g[N].left # 0 => r = wanted
  <2>1. SUFFICES ASSUME g[N].left # 0 PROVE r = wanted
    OBVIOUS
  <2>2. \A k \in 1..m : r[k] = wanted[k]
    BY <1>2, <1>5, <1>12, <1>13, <2>1
  <2>3. QED
    BY <1>2, <1>14, <2>2, SeqEqual
<1>17. Past!GiveOut(sizes, wanted, left, order) = r
  BY <1>4, <1>5, <1>13
<1>18. QED
  BY <1>2, <1>6, <1>14, <1>15, <1>16, <1>17

\* The bytes of all parts and what is between them.
LEMMA FullIs ==
  ASSUME NEW parts \in Seq(Nat)
  PROVE  /\ Past!Full(parts) \in Nat
         /\ Len(parts) = 0 => Past!Full(parts) = 0
         /\ Len(parts) # 0 => Past!Full(parts) = Total(parts) + 2 * (Len(parts) - 1)
<1>1. PICK n \in Nat : n = Len(parts) /\ (parts = <<>> <=> n = 0)
  BY EmptySeq
<1>2. Total(parts) \in Nat
  BY TotalOf
<1>3. Past!Full(parts) = IF n = 0 THEN 0 ELSE Total(parts) + 2 * (n - 1)
  BY <1>1, SumsAre DEF Past!Full
<1>4. QED
  BY <1>1, <1>2, <1>3

LEMMA SharesAre ==
  ASSUME NEW a \in Nat, NEW n \in Nat \ {0}
  PROVE  /\ a \div n \in Nat /\ (a \div n) * n <= a
         /\ \A k \in Nat : k >= a \div n => (k + 1) * n > a
<1>1. PICK q : q = a \div n
  OBVIOUS
<1>2. q \in Nat /\ q * n <= a /\ a < (q + 1) * n
  BY <1>1
<1>3. ASSUME NEW k \in Nat, k >= q PROVE (k + 1) * n > a
  <2>1. PICK d \in Nat : k = q + d
    <3>1. k - q \in Nat /\ k = q + (k - q)
      BY <1>2, <1>3
    <3>2. QED
      BY <3>1
  <2>2. (k + 1) * n = (q + 1) * n + d * n /\ d * n \in Nat
    BY <1>2, <2>1
  <2>3. QED
    BY <1>2, <2>2
<1>4. QED
  BY <1>1, <1>2, <1>3

\* Two lists of the same length, one below the other: if they add up to the same they are the same.
LEMMA SameTotal ==
  ASSUME NEW s \in Seq(Nat), NEW t \in Seq(Nat), Len(s) = Len(t), \A i \in 1..Len(s) : s[i] <= t[i], Total(t) <= Total(s)
  PROVE  s = t
<1>1. PICK n \in Nat : n = Len(s)
  OBVIOUS
<1>2. \A i \in 1..n : s[i] \in Nat /\ t[i] \in Nat /\ s[i] <= t[i]
  BY <1>1
<1>3. ~(\E i \in 1..n : s[i] < t[i])
  <2>1. Total(s) \in Nat /\ Total(t) \in Nat
    BY TotalOf
  <2>2. (\E i \in 1..Len(s) : s[i] < t[i]) => Total(s) < Total(t)
    BY TotalGrows
  <2>3. QED
    BY <1>1, <2>1, <2>2
<1>4. \A i \in 1..n : s[i] = t[i]
  BY <1>2, <1>3
<1>5. QED
  BY <1>1, <1>4, SeqEqual

\* What is kept of each part of a section (memory._fair_parts).
LEMMA PartsAreFair ==
  ASSUME NEW parts \in Seq(Nat), NEW room \in Nat
  PROVE  LET kept == Past!FairParts(parts, room) IN
         /\ room >= 2 * (Len(parts) - 1) => Past!Full(kept) <= room
         /\ room = Past!Full(parts) => kept = parts
         /\ \A i \in 1..Len(parts) :
              kept[i] < parts[i] => (kept[i] + 1) * Len(parts) > room - 2 * (Len(parts) - 1)
<1>1. PICK n \in Nat : n = Len(parts)
  OBVIOUS
<1>2. PICK a \in Nat : a = Past!Surplus(room - 2 * (n - 1)) /\ (room - 2 * (n - 1) >= 0 => a = room - 2 * (n - 1)) /\ a >= room - 2 * (n - 1)
  <2>1. PICK d \in Int : d = room - 2 * (n - 1)
    OBVIOUS
  <2>2. PICK a : a = Past!Surplus(d)
    OBVIOUS
  <2>3. a \in Nat /\ (d >= 0 => a = d) /\ a >= d
    BY ONLY d \in Int, <2>2 DEF Past!Surplus
  <2>4. QED
    BY <2>1, <2>2, <2>3
<1>3. PICK share \in Nat : share = (IF parts = <<>> THEN 0 ELSE a \div n) /\ (n # 0 => share = a \div n)
  <2>1. parts = <<>> <=> n = 0
    BY <1>1, EmptySeq
  <2>2. n # 0 => a \div n \in Nat
    BY SharesAre
  <2>3. QED
    BY <2>1, <2>2
<1>4. \A i \in 1..n : parts[i] \in Nat
  BY <1>1
<1>5. PICK sizes : sizes = [i \in 1..n |-> Past!Least(parts[i], share)]
  OBVIOUS
<1>6. /\ sizes \in Seq(Nat) /\ Len(sizes) = n
      /\ \A i \in 1..n : sizes[i] \in Nat /\ sizes[i] <= parts[i] /\ sizes[i] <= share /\ (sizes[i] = parts[i] \/ sizes[i] = share)
  <2>1. \A i \in 1..n : /\ Past!Least(parts[i], share) \in Nat /\ Past!Least(parts[i], share) <= parts[i]
                        /\ Past!Least(parts[i], share) <= share
                        /\ Past!Least(parts[i], share) = parts[i] \/ Past!Least(parts[i], share) = share
    BY <1>4 DEF Past!Least
  <2>2. sizes \in [1..n -> Nat]
    BY <1>5, <2>1
  <2>3. sizes \in Seq(Nat) /\ Len(sizes) = n
    BY <2>2, ListsAre
  <2>4. QED
    BY <1>5, <2>1, <2>3
<1>7. Total(sizes) \in Nat /\ Total(sizes) <= a
  <2>1. Total(sizes) \in Nat /\ Total(sizes) <= share * n
    BY <1>6, TotalBounded, TotalOf
  <2>2. CASE n = 0
    BY <1>2, <2>1, <2>2
  <2>3. CASE n # 0
    <3>1. share * n <= a /\ share * n \in Nat
      BY <1>3, <2>3, SharesAre
    <3>2. QED
      BY <2>1, <3>1
  <2>4. QED
    BY <2>2, <2>3
<1>8. PICK left \in Nat : left = a - Total(sizes)
  BY <1>7
<1>9. PICK order : order = [i \in 1..n |-> i]
  OBVIOUS
<1>10. order \in Seq(1..Len(parts)) /\ Len(order) = n /\ \A k \in 1..n : \E i \in 1..n : order[i] = k
  <2>1. order \in [1..n -> 1..n]
    BY <1>9
  <2>2. order \in Seq(1..n) /\ Len(order) = n
    BY <2>1, ListsAre
  <2>3. QED
    BY <1>1, <1>9, <2>2
<1>11. PICK kept : kept = Past!FairParts(parts, room)
  OBVIOUS
<1>12. kept = Past!GiveOut(sizes, parts, left, order)
  BY <1>1, <1>2, <1>3, <1>5, <1>8, <1>9, <1>11, SumsAre DEF Past!FairParts
<1>13. /\ kept \in Seq(Nat) /\ Len(kept) = n
       /\ \A k \in 1..n : sizes[k] <= kept[k] /\ kept[k] <= parts[k]
       /\ Total(kept) <= Total(sizes) + left
       /\ kept = parts \/ Total(kept) = Total(sizes) + left
  <2>1. Len(sizes) = Len(parts) /\ (\A k \in 1..Len(parts) : sizes[k] <= parts[k])
        /\ \A k \in 1..Len(parts) : \E i \in 1..Len(order) : order[i] = k
    BY <1>1, <1>6, <1>10
  <2>2. LET r == Past!GiveOut(sizes, parts, left, order) IN
         /\ r \in Seq(Nat) /\ Len(r) = Len(parts)
         /\ \A k \in 1..Len(parts) : sizes[k] <= r[k] /\ r[k] <= parts[k]
         /\ Total(r) <= Total(sizes) + left
         /\ r = parts \/ Total(r) = Total(sizes) + left
    BY <1>6, <1>10, <2>1, GivenOut
  <2>3. QED
    BY <1>1, <1>12, <2>2
<1>14. Total(kept) \in Nat /\ Total(parts) \in Nat /\ Total(kept) <= a /\ (kept = parts \/ Total(kept) = a)
  BY <1>7, <1>8, <1>13, TotalOf
<1>15. room >= 2 * (n - 1) => Past!Full(kept) <= room
  <2>1. n = 0 => Past!Full(kept) = 0
    BY <1>13, FullIs
  <2>2. n # 0 => Past!Full(kept) = Total(kept) + 2 * (n - 1)
    BY <1>13, FullIs
  <2>3. QED
    BY <1>2, <1>14, <2>1, <2>2
<1>16. room = Past!Full(parts) => kept = parts
  <2>1. SUFFICES ASSUME room = Past!Full(parts) PROVE kept = parts
    OBVIOUS
  <2>2. CASE n = 0
    BY <1>1, <1>13, <2>2, EmptySeq
  <2>3. CASE n # 0
    <3>1. a = Total(parts)
      BY <1>1, <1>2, <1>14, <2>1, <2>3, FullIs
    <3>2. Total(parts) <= Total(kept) \/ kept = parts
      BY <1>14, <3>1
    <3>3. QED
      BY <1>1, <1>13, <3>2, SameTotal
  <2>4. QED
    BY <2>2, <2>3
<1>17. ASSUME NEW i \in 1..n, kept[i] < parts[i] PROVE (kept[i] + 1) * n > room - 2 * (n - 1)
  <2>1. PICK x \in Nat, y \in Nat, z \in Nat : x = kept[i] /\ y = parts[i] /\ z = sizes[i]
    <3>1. kept[i] \in Nat
      BY <1>13
    <3>2. parts[i] \in Nat /\ sizes[i] \in Nat
      BY <1>4, <1>6
    <3>3. QED
      BY ONLY <3>1, <3>2
  <2>2. z <= x /\ x < y /\ (z = y \/ z = share)
    BY <1>6, <1>13, <1>17, <2>1
  <2>3. x >= share
    BY <2>2
  <2>4. n \in Nat \ {0}
    OBVIOUS
  <2>5. (x + 1) * n > a
    BY <1>3, <2>3, <2>4, SharesAre
  <2>6. (x + 1) * n \in Nat
    OBVIOUS
  <2>7. QED
    BY <1>2, <2>1, <2>5, <2>6
<1>18. QED
  BY <1>1, <1>11, <1>15, <1>16, <1>17

\* No excerpt is too long, and nobody's share is taken for another's sake, for sections of any length (memory._excerpt).
THEOREM ExcerptsStayFair ==
  ASSUME Budgets \in Seq(Nat), Preferred \in Seq(1..Len(Budgets)),
         \A k \in 1..Len(Budgets) : \E i \in 1..Len(Preferred) : Preferred[i] = k,
         NEW sections \in Seq(Seq(Nat)), Len(sections) = Len(Budgets)
  PROVE  Past!ExcerptIsFair(sections)
<1>1. PICK m \in Nat : m = Len(Budgets) /\ m = Len(sections)
  OBVIOUS
<1>2. \A k \in 1..m : sections[k] \in Seq(Nat) /\ Budgets[k] \in Nat /\ Past!Full(sections[k]) \in Nat
  <2>1. \A s \in Seq(Nat) : Past!Full(s) \in Nat
    BY FullIs
  <2>2. \A k \in 1..m : sections[k] \in Seq(Nat) /\ Budgets[k] \in Nat
    BY <1>1
  <2>3. QED
    BY ONLY <2>1, <2>2
<1>3. PICK full : full = [k \in 1..m |-> Past!Full(sections[k])]
  OBVIOUS
<1>4. full \in Seq(Nat) /\ Len(full) = m /\ \A k \in 1..m : full[k] = Past!Full(sections[k]) /\ full[k] \in Nat
  <2>1. full \in [1..m -> Nat]
    BY <1>2, <1>3
  <2>2. full \in Seq(Nat) /\ Len(full) = m
    <3>1. m \in Nat
      OBVIOUS
    <3>2. \A y \in [1..m -> Nat] : y \in Seq(Nat) /\ Len(y) = m
      BY ONLY <3>1, ListsAre
    <3>3. QED
      BY ONLY <2>1, <3>2
  <2>3. QED
    BY <1>2, <1>3, <2>2
<1>5. PICK sizes : sizes = [k \in 1..m |-> Past!Least(full[k], Budgets[k])]
  OBVIOUS
<1>6. /\ sizes \in Seq(Nat) /\ Len(sizes) = m
      /\ \A k \in 1..m : sizes[k] \in Nat /\ sizes[k] <= full[k] /\ sizes[k] <= Budgets[k] /\ sizes[k] = Past!Least(full[k], Budgets[k])
  <2>1. \A k \in 1..m : /\ Past!Least(full[k], Budgets[k]) \in Nat
                        /\ Past!Least(full[k], Budgets[k]) <= full[k] /\ Past!Least(full[k], Budgets[k]) <= Budgets[k]
    BY <1>2, <1>4 DEF Past!Least
  <2>2. sizes \in [1..m -> Nat]
    BY <1>5, <2>1
  <2>3. sizes \in Seq(Nat) /\ Len(sizes) = m
    <3>1. m \in Nat
      OBVIOUS
    <3>2. \A y \in [1..m -> Nat] : y \in Seq(Nat) /\ Len(y) = m
      BY ONLY <3>1, ListsAre
    <3>3. QED
      BY ONLY <2>2, <3>2
  <2>4. QED
    BY <1>5, <2>1, <2>3
<1>7. Total(sizes) \in Nat /\ Total(Budgets) \in Nat /\ Total(sizes) <= Total(Budgets) /\ Total(full) \in Nat
  <2>1. Total(sizes) \in Nat /\ Total(Budgets) \in Nat /\ Total(full) \in Nat
    BY <1>4, <1>6, TotalOf
  <2>2. Total(sizes) <= Total(Budgets)
    BY <1>1, <1>6, TotalGrows
  <2>3. QED
    BY <2>1, <2>2
<1>8. PICK left \in Nat : left = Total(Budgets) - Total(sizes)
  BY <1>7
<1>9. PICK r : r = Past!SectionSizes(sections)
  OBVIOUS
<1>10. r = Past!GiveOut(sizes, full, left, Preferred)
  BY <1>1, <1>3, <1>5, <1>8, <1>9, SumsAre DEF Past!SectionSizes
<1>11. /\ r \in Seq(Nat) /\ Len(r) = m
       /\ \A k \in 1..m : sizes[k] <= r[k] /\ r[k] <= full[k]
       /\ Total(r) <= Total(sizes) + left
       /\ r = full \/ Total(r) = Total(sizes) + left
  <2>1. /\ Len(sizes) = Len(full) /\ (\A k \in 1..Len(full) : sizes[k] <= full[k])
        /\ Preferred \in Seq(1..Len(full)) /\ \A k \in 1..Len(full) : \E i \in 1..Len(Preferred) : Preferred[i] = k
    BY <1>1, <1>4, <1>6
  <2>2. LET z == Past!GiveOut(sizes, full, left, Preferred) IN
         /\ z \in Seq(Nat) /\ Len(z) = Len(full)
         /\ \A k \in 1..Len(full) : sizes[k] <= z[k] /\ z[k] <= full[k]
         /\ Total(z) <= Total(sizes) + left
         /\ z = full \/ Total(z) = Total(sizes) + left
    BY <1>4, <1>6, <2>1, GivenOut
  <2>3. QED
    BY <1>4, <1>10, <2>2
<1>12. Total(r) \in Nat /\ Total(r) <= Total(Budgets) /\ (r = full \/ Total(r) = Total(Budgets))
  BY <1>7, <1>8, <1>11, TotalOf
<1>13. Total(full) <= Total(Budgets) => r = full
  <2>1. SUFFICES ASSUME Total(full) <= Total(Budgets), r # full PROVE FALSE
    OBVIOUS
  <2>2. Total(full) <= Total(r)
    BY <1>12, <2>1
  <2>3. r = full
    BY <1>4, <1>11, <2>2, SameTotal
  <2>4. QED
    BY <2>1, <2>3
<1>14. ASSUME NEW k \in 1..m
       PROVE  LET parts == sections[k]
                  kept == Past!FairParts(parts, r[k])
              IN /\ r[k] >= Past!Least(full[k], Budgets[k])
                 /\ r[k] >= 2 * (Len(parts) - 1) => Past!Full(kept) <= r[k]
                 /\ r[k] = full[k] => kept = parts
                 /\ \A i \in 1..Len(parts) :
                      kept[i] < parts[i] => (kept[i] + 1) * Len(parts) > r[k] - 2 * (Len(parts) - 1)
  <2>1. PICK parts \in Seq(Nat), room \in Nat : parts = sections[k] /\ room = r[k] /\ full[k] = Past!Full(parts)
    <3>1. r[k] \in Nat
      BY <1>11
    <3>2. QED
      BY <1>2, <1>4, <3>1
  <2>2. LET kept == Past!FairParts(parts, room) IN
         /\ room >= 2 * (Len(parts) - 1) => Past!Full(kept) <= room
         /\ room = Past!Full(parts) => kept = parts
         /\ \A i \in 1..Len(parts) :
              kept[i] < parts[i] => (kept[i] + 1) * Len(parts) > room - 2 * (Len(parts) - 1)
    BY PartsAreFair
  <2>3. r[k] >= Past!Least(full[k], Budgets[k])
    BY <1>6, <1>11
  <2>4. QED
    BY <2>1, <2>2, <2>3
<1>15. Past!Sum(r) = Total(r) /\ Past!Sum(Budgets) = Total(Budgets) /\ Past!Sum(full) = Total(full)
  BY SumsAre
<1>16. QED
  BY <1>1, <1>3, <1>9, <1>12, <1>13, <1>14, <1>15 DEF Past!ExcerptIsFair

-----------------------------------------------------------------------------
(* The best that fits.                                                       *)

LEMMA CountsAre == \A S : Past!Cardinality(S) = Cardinality(S) /\ Shelf!Cardinality(S) = Cardinality(S)
BY DEF Past!Cardinality, Shelf!Cardinality, Cardinality

\* Runs are told apart by when they were made.
ToldApart(P) ==
  /\ IsFiniteSet(P)
  /\ \A r, s \in P : r # s => r.made # s.made
  /\ \A r \in P : r.score \in Nat /\ r.made \in Nat /\ r.size \in Nat

\* Of two runs one is before the other.
LEMMA BeforeIs ==
  ASSUME NEW P, ToldApart(P)
  PROVE  /\ \A r, s \in P : r # s => Past!Before(r, s) \/ Past!Before(s, r)
         /\ \A r, s \in P : Past!Before(r, s) => ~Past!Before(s, r)
         /\ \A r \in P : ~Past!Before(r, r)
         /\ \A r, s, t \in P : Past!Before(r, s) /\ Past!Before(s, t) => Past!Before(r, t)
<1>1. \A r, s \in P : r # s => r.made # s.made
  BY DEF ToldApart
<1>2. \A r \in P : r.score \in Nat /\ r.made \in Nat
  BY DEF ToldApart
<1>3. QED
  BY <1>1, <1>2 DEF Past!Before

LEMMA BestFirst ==
  ASSUME NEW P, ToldApart(P)
  PROVE  LET s == Past!InOrder(P) IN
         /\ s \in Seq(P) /\ Len(s) = Cardinality(P)
         /\ \A i, j \in 1..Len(s) : i < j => Past!Before(s[i], s[j])
         /\ \A r \in P : \E i \in 1..Len(s) : s[i] = r
<1>1. PICK n \in Nat : n = Cardinality(P) /\ IsFiniteSet(P)
  BY FS_CardinalityType DEF ToldApart
<1>2. PICK R : R = {x \in P \X P : Past!Before(x[1], x[2])}
  OBVIOUS
<1>3. \A x, y \in P : <<x, y>> \in R <=> Past!Before(x, y)
  BY <1>2
<1>4. Orders(R, P)
  <2>1. \A x \in P : <<x, x>> \notin R
    BY <1>3, BeforeIs
  <2>2. \A x, y \in P : x # y => <<x, y>> \in R \/ <<y, x>> \in R
    BY <1>3, BeforeIs
  <2>3. \A x, y, z \in P : <<x, y>> \in R /\ <<y, z>> \in R => <<x, z>> \in R
    BY <1>3, BeforeIs
  <2>4. QED
    BY <2>1, <2>2, <2>3 DEF Orders
<1>5. PICK s \in [1..n -> P] : /\ \A i, j \in 1..n : i # j => s[i] # s[j]
                               /\ \A i, j \in 1..n : i < j => <<s[i], s[j]>> \in R
  BY <1>1, <1>4, OrderExists
<1>6. \A i, j \in 1..n : i < j => Past!Before(s[i], s[j])
  BY <1>3, <1>5
<1>7. Past!SetToSeqs(P) = {f \in [1..n -> P] : \A i, j \in 1..n : i # j => f[i] # f[j]}
  BY <1>1, CountsAre DEF Past!SetToSeqs
<1>8. s \in Past!SetToSeqs(P) /\ \A i, j \in DOMAIN s : i < j => Past!Before(s[i], s[j])
  BY <1>5, <1>6, <1>7
<1>9. PICK r : r = Past!InOrder(P)
  OBVIOUS
<1>10. r \in Past!SetToSeqs(P) /\ \A i, j \in DOMAIN r : i < j => Past!Before(r[i], r[j])
  BY <1>8, <1>9 DEF Past!InOrder
<1>11. r \in [1..n -> P] /\ \A i, j \in 1..n : i # j => r[i] # r[j]
  BY <1>7, <1>10
<1>12. r \in Seq(P) /\ Len(r) = n
  BY <1>11, ListsAre
<1>13. \A x \in P : \E i \in 1..n : r[i] = x
  BY <1>1, <1>11, ListsAll
<1>14. QED
  BY <1>1, <1>9, <1>10, <1>11, <1>12, <1>13

LEMMA AppendIs ==
  \A T : \A q \in Seq(T), y \in T : /\ Append(q, y) \in Seq(T) /\ Len(Append(q, y)) = Len(q) + 1
                                    /\ \A i \in 1..Len(q) : Append(q, y)[i] = q[i]
                                    /\ Append(q, y)[Len(q) + 1] = y
OBVIOUS

\* The bytes of entries.
LEMMA BytesAre ==
  ASSUME NEW P, \A r \in P : r.size \in Nat
  PROVE  /\ Past!Bytes(<<>>) = 0
         /\ \A e \in Seq(P) : Past!Bytes(e) \in Nat
         /\ \A e \in Seq(P), r \in P : Past!Bytes(Append(e, r)) = Past!Bytes(e) + r.size
<1> DEFINE Sizes(e) == [i \in 1..Len(e) |-> e[i].size]
<1>1. \A e : Past!Bytes(e) = Total(Sizes(e))
  BY SumsAre DEF Past!Bytes
<1>2. ASSUME NEW e \in Seq(P) PROVE Sizes(e) \in Seq(Nat) /\ Len(Sizes(e)) = Len(e)
  <2>1. PICK n \in Nat : n = Len(e)
    OBVIOUS
  <2>2. PICK z : z = Sizes(e)
    OBVIOUS
  <2>3. z = [i \in 1..n |-> e[i].size] /\ \A i \in 1..n : e[i].size \in Nat
    BY <2>1, <2>2
  <2>4. z \in [1..n -> Nat]
    BY <2>3
  <2>5. z \in Seq(Nat) /\ Len(z) = n
    BY <2>4, ListsAre
  <2> HIDE DEF Sizes
  <2>6. QED
    BY <2>1, <2>2, <2>5
<1>3. Sizes(<<>>) = <<>>
  OBVIOUS
<1>4. ASSUME NEW e \in Seq(P), NEW r \in P PROVE Sizes(Append(e, r)) = Append(Sizes(e), r.size)
  <2>1. PICK n \in Nat : n = Len(e)
    BY ONLY e \in Seq(P)
  <2>2. PICK a : a = Append(e, r)
    OBVIOUS
  <2>3. a \in Seq(P) /\ Len(a) = n + 1 /\ (\A i \in 1..n : a[i] = e[i]) /\ a[n + 1] = r
    BY <2>1, <2>2, AppendIs
  <2>4. PICK x, y, k : x = Sizes(a) /\ y = Sizes(e) /\ k = r.size
    OBVIOUS
  <2>5. x \in Seq(Nat) /\ Len(x) = n + 1 /\ y \in Seq(Nat) /\ Len(y) = n /\ k \in Nat
    <3> HIDE DEF Sizes
    <3>1. QED
      BY <1>2, <2>1, <2>3, <2>4
  <2>6. (\A i \in 1..n : x[i] = y[i]) /\ x[n + 1] = k
    BY <2>1, <2>3, <2>4
  <2>7. Append(y, k) \in Seq(Nat) /\ Len(Append(y, k)) = n + 1 /\ (\A i \in 1..n : Append(y, k)[i] = y[i]) /\ Append(y, k)[n + 1] = k
    BY ONLY <2>5
  <2>8. \A i \in 1..(n + 1) : x[i] = Append(y, k)[i]
    BY <2>6, <2>7
  <2>9. x = Append(y, k)
    BY <2>5, <2>7, <2>8, SeqEqual
  <2>10. QED
    BY <2>2, <2>4, <2>9
<1> HIDE DEF Sizes
<1>5. QED
  BY <1>1, <1>2, <1>3, <1>4, TotalOf

\* What has been packed of P.
PackOf(P) == [entries : Seq(P), skipped : Nat]

\* What has been packed up to each place of a list.
LEMMA PackingIsRead ==
  ASSUME NEW P, NEW q \in Seq(P)
  PROVE  \E g \in [0..Len(q) -> PackOf(P)] :
           /\ g[0] = [entries |-> <<>>, skipped |-> 0] /\ \A n \in 1..Len(q) : g[n] = Past!TakeUp(g[n - 1], q[n])
           /\ Past!Packed(q) = g[Len(q)]
<1> DEFINE S == PackOf(P)
<1>1. PICK N \in Nat : N = Len(q)
  OBVIOUS
<1>0. PICK x : x = [entries |-> <<>>, skipped |-> 0]
  OBVIOUS
<1> DEFINE F == [n \in 1..N |-> [s \in S |-> Past!TakeUp(s, q[n])]]
           Def(g) == [n \in 0..N |-> IF n = 0 THEN x ELSE Past!TakeUp(g[n - 1], q[n])]
           all == CHOOSE g : g = Def(g)
<1>2. \A s \in S, n \in 1..N : Past!TakeUp(s, q[n]) \in S
  <2>1. SUFFICES ASSUME NEW s \in S, NEW n \in 1..N PROVE Past!TakeUp(s, q[n]) \in S
    OBVIOUS
  <2>2. PICK e \in Seq(P), k \in Nat : s = [entries |-> e, skipped |-> k]
    BY DEF PackOf
  <2>3. PICK r \in P : r = q[n]
    BY <1>1
  <2>4. PICK a \in Seq(P) : a = Append(e, r)
    BY AppendIs
  <2>5. Past!TakeUp(s, r) \in {s, [entries |-> e, skipped |-> k + 1], [entries |-> a, skipped |-> k]}
    BY <2>2, <2>4 DEF Past!TakeUp
  <2>6. QED
    BY <2>3, <2>5 DEF PackOf
<1>3. F \in Reading(N, S)
  BY <1>2 DEF Reading
<1>4. ASSUME NEW s \in S, NEW n \in 1..N PROVE F[n][s] = Past!TakeUp(s, q[n])
  OBVIOUS
<1>5. x \in S
  BY <1>0 DEF PackOf
<1>6. PICK g : ReadBy(g, N, S, x, F)
  <2> HIDE DEF S, F
  <2>1. QED
    BY <1>3, <1>5, ReadsExist
<1>7. g = Def(g)
  <2> HIDE DEF S, F
  <2>1. ASSUME NEW n \in 0..N PROVE g[n] = IF n = 0 THEN x ELSE Past!TakeUp(g[n - 1], q[n])
    <3>1. n # 0 => n \in 1..N /\ n - 1 \in 0..N
      OBVIOUS
    <3>2. QED
      BY <3>1, <1>4, <1>6 DEF ReadBy
  <2>2. g = [n \in 0..N |-> g[n]]
    BY <1>6 DEF ReadBy
  <2>3. QED
    BY <2>1, <2>2
<1> HIDE DEF S, F
<1>8. PICK r : r = all
  OBVIOUS
<1>9. r = Def(r)
  BY <1>7, <1>8
<1> HIDE DEF all
<1>10. r[0] = x /\ \A n \in 1..N : r[n] = Past!TakeUp(r[n - 1], q[n])
  <2>1. r = [n \in 0..N |-> IF n = 0 THEN x ELSE Past!TakeUp(r[n - 1], q[n])]
    BY <1>9
  <2>2. \A n \in 0..N : r[n] = IF n = 0 THEN x ELSE Past!TakeUp(r[n - 1], q[n])
    BY <2>1
  <2>3. QED
    BY <2>2
<1>11. r = [n \in 0..N |-> r[n]]
  BY <1>9
<1>12. r \in [0..N -> S]
  <2>1. x \in S /\ F \in Reading(N, S) /\ r[0] = x
    BY <1>3, <1>5, <1>10
  <2>2. \A n \in 1..N : r[n - 1] \in S => r[n] = F[n][r[n - 1]]
    BY <1>4, <1>10
  <2>3. QED
    BY <1>11, <2>1, <2>2, ReadsAre
<1>13. Past!Packed(q) = r[N]
  BY <1>0, <1>1, <1>8, Zenon DEF Past!Packed, all
<1>14. QED
  BY <1>0, <1>1, <1>10, <1>12, <1>13 DEF S

\* One run taken up, or passed over.
LEMMA TakeUpIs ==
  ASSUME NEW P, NEW s \in PackOf(P), NEW r \in P
  PROVE  /\ Len(s.entries) = MaxRuns => Past!TakeUp(s, r) = s
         /\ Len(s.entries) # MaxRuns =>
              IF Past!Bytes(s.entries) + r.size > MaxPack
              THEN Past!TakeUp(s, r).entries = s.entries /\ Past!TakeUp(s, r).skipped = s.skipped + 1
              ELSE Past!TakeUp(s, r).entries = Append(s.entries, r) /\ Past!TakeUp(s, r).skipped = s.skipped
<1>1. s \in [entries : Seq(P), skipped : Nat]
  BY DEF PackOf
<1>2. ASSUME Len(s.entries) # MaxRuns, Past!Bytes(s.entries) + r.size > MaxPack
      PROVE  Past!TakeUp(s, r).entries = s.entries /\ Past!TakeUp(s, r).skipped = s.skipped + 1
  <2>1. PICK z : z = [s EXCEPT !.skipped = s.skipped + 1]
    OBVIOUS
  <2>2. z.entries = s.entries /\ z.skipped = s.skipped + 1
    BY ONLY <1>1, <2>1
  <2>3. Past!TakeUp(s, r) = z
    BY ONLY <1>2, <2>1, Zenon DEF Past!TakeUp
  <2>4. QED
    BY ONLY <2>2, <2>3
<1>3. ASSUME Len(s.entries) # MaxRuns, ~(Past!Bytes(s.entries) + r.size > MaxPack)
      PROVE  Past!TakeUp(s, r).entries = Append(s.entries, r) /\ Past!TakeUp(s, r).skipped = s.skipped
  <2>1. PICK z : z = [s EXCEPT !.entries = Append(s.entries, r)]
    OBVIOUS
  <2>2. z.entries = Append(s.entries, r) /\ z.skipped = s.skipped
    BY ONLY <1>1, <2>1
  <2>3. Past!TakeUp(s, r) = z
    BY ONLY <1>3, <2>1, Zenon DEF Past!TakeUp
  <2>4. QED
    BY ONLY <2>2, <2>3
<1>4. Len(s.entries) = MaxRuns => Past!TakeUp(s, r) = s
  BY Zenon DEF Past!TakeUp
<1>5. QED
  BY ONLY <1>2, <1>3, <1>4

\* Whatever stands in r's way among the entries e: the pack is full before it, or it did not fit with those before it.
Kept(e, r) ==
  \/ \E i \in 1..Len(e) : e[i] = r
  \/ Len(e) = MaxRuns /\ \A j \in 1..Len(e) : Past!Before(e[j], r)
  \/ \E k \in 0..Len(e) : /\ \A j \in 1..Len(e) : j <= k <=> Past!Before(e[j], r)
                          /\ Past!Bytes(SubSeq(e, 1, k)) + r.size > MaxPack

\* The entries of a pack after a further run.
LEMMA KeptStays ==
  ASSUME NEW P, ToldApart(P), NEW e \in Seq(P), NEW s \in P, NEW r \in P, Kept(e, r), Len(e) # MaxRuns, Past!Before(r, s)
  PROVE  Kept(Append(e, s), r)
<1>1. PICK a : a = Append(e, s)
  OBVIOUS
<1>2. PICK n \in Nat : n = Len(e)
  OBVIOUS
<1>3. a \in Seq(P) /\ Len(a) = n + 1 /\ (\A i \in 1..n : a[i] = e[i]) /\ a[n + 1] = s
  BY <1>1, <1>2, AppendIs
<1>4. CASE \E i \in 1..n : e[i] = r
  <2>1. \E i \in 1..(n + 1) : a[i] = r
    BY <1>3, <1>4
  <2>2. QED
    BY <1>1, <1>3, <2>1 DEF Kept
<1>5. ASSUME NEW k \in 0..n, \A j \in 1..n : j <= k <=> Past!Before(e[j], r),
             Past!Bytes(SubSeq(e, 1, k)) + r.size > MaxPack
      PROVE  Kept(a, r)
  <2>1. ~Past!Before(s, r)
    BY BeforeIs
  <2>2. \A j \in 1..(n + 1) : j <= k <=> Past!Before(a[j], r)
    <3>1. SUFFICES ASSUME NEW j \in 1..(n + 1) PROVE j <= k <=> Past!Before(a[j], r)
      OBVIOUS
    <3>2. CASE j = n + 1
      BY <1>3, <2>1, <3>2
    <3>3. CASE j # n + 1
      <4>1. j \in 1..n
        BY <3>3
      <4>2. QED
        BY <1>3, <1>5, <4>1
    <3>4. QED
      BY <3>2, <3>3
  <2>3. SubSeq(a, 1, k) = SubSeq(e, 1, k)
    <3>1. PICK x, y : x = SubSeq(a, 1, k) /\ y = SubSeq(e, 1, k)
      OBVIOUS
    <3>2. /\ x \in Seq(P) /\ Len(x) = k /\ \A i \in 1..k : x[i] = a[i]
          /\ y \in Seq(P) /\ Len(y) = k /\ \A i \in 1..k : y[i] = e[i]
      BY ONLY <3>1, <1>2, <1>3, e \in Seq(P), k \in 0..n
    <3>3. \A i \in 1..k : x[i] = y[i]
      BY <1>3, <3>2
    <3>4. x = y
      BY <3>2, <3>3, SeqEqual
    <3>5. QED
      BY <3>1, <3>4
  <2>4. k \in 0..(n + 1)
    OBVIOUS
  <2>5. QED
    BY <1>3, <1>5, <2>2, <2>3, <2>4 DEF Kept
<1>6. QED
  BY <1>1, <1>2, <1>4, <1>5 DEF Kept

\* What a pack of a list of runs, the best first, holds.
LEMMA PackIs ==
  ASSUME MaxRuns \in Nat, MaxPack \in Nat,
         NEW P, ToldApart(P), NEW q \in Seq(P), \A i, j \in 1..Len(q) : i < j => Past!Before(q[i], q[j])
  PROVE  LET pack == Past!Packed(q)
             e == pack.entries
         IN /\ pack \in PackOf(P)
            /\ \A i \in 1..Len(e) : \E p \in 1..Len(q) : e[i] = q[p]
            /\ \A i, j \in 1..Len(e) : i < j => Past!Before(e[i], e[j])
            /\ Len(e) <= MaxRuns /\ Past!Bytes(e) <= MaxPack
            /\ pack.skipped + Len(e) <= Len(q)
            /\ \A p \in 1..Len(q) : Kept(e, q[p])
<1>1. PICK N \in Nat : N = Len(q)
  OBVIOUS
<1>2. PICK g \in [0..N -> PackOf(P)] :
        /\ g[0] = [entries |-> <<>>, skipped |-> 0] /\ \A n \in 1..N : g[n] = Past!TakeUp(g[n - 1], q[n])
        /\ Past!Packed(q) = g[N]
  BY <1>1, PackingIsRead
<1>3. ASSUME NEW n \in 0..N PROVE g[n].entries \in Seq(P) /\ g[n].skipped \in Nat
  BY <1>2 DEF PackOf
<1>0. \A r \in P : r.size \in Nat
  BY DEF ToldApart
<1> DEFINE Told(e, k, n) ==
             /\ \A i \in 1..Len(e) : \E p \in 1..n : e[i] = q[p]
             /\ \A i, j \in 1..Len(e) : i < j => Past!Before(e[i], e[j])
             /\ Len(e) <= MaxRuns /\ Past!Bytes(e) <= MaxPack
             /\ k + Len(e) <= n
             /\ \A p \in 1..n : Kept(e, q[p])
           U == {n \in 0..N : Told(g[n].entries, g[n].skipped, n)}
<1>4. 0 \in U
  <2>1. g[0].entries = <<>> /\ g[0].skipped = 0
    BY <1>2
  <2>2. Past!Bytes(<<>>) = 0
    BY <1>0, BytesAre
  <2>3. Told(<<>>, 0, 0)
    BY <2>2
  <2>4. QED
    BY <2>1, <2>3
<1>5. ASSUME NEW n \in 0..N, n \in U, n < N PROVE n + 1 \in U
  <2>1. n + 1 \in 1..N /\ n + 1 \in 0..N /\ (n + 1) - 1 = n
    BY <1>5
  <2>2. PICK e \in Seq(P), k \in Nat : e = g[n].entries /\ k = g[n].skipped
    BY <1>3
  <2>3. Told(e, k, n)
    BY <1>5, <2>2
  <2>4. PICK r \in P : r = q[n + 1]
    BY <1>1, <2>1
  <2>5. PICK b, c : b = g[n + 1].entries /\ c = g[n + 1].skipped
    OBVIOUS
  <2>6. /\ Len(e) = MaxRuns => b = e /\ c = k
        /\ Len(e) # MaxRuns =>
             IF Past!Bytes(e) + r.size > MaxPack THEN b = e /\ c = k + 1 ELSE b = Append(e, r) /\ c = k
    <3>1. g[n] \in PackOf(P) /\ g[n + 1] = Past!TakeUp(g[n], r)
      BY <1>2, <2>1, <2>4
    <3>2. PICK s : s = g[n]
      OBVIOUS
    <3>3. s \in PackOf(P) /\ s.entries = e /\ s.skipped = k
      BY <2>2, <3>1, <3>2
    <3>4. /\ Len(s.entries) = MaxRuns => Past!TakeUp(s, r) = s
          /\ Len(s.entries) # MaxRuns =>
               IF Past!Bytes(s.entries) + r.size > MaxPack
               THEN Past!TakeUp(s, r).entries = s.entries /\ Past!TakeUp(s, r).skipped = s.skipped + 1
               ELSE Past!TakeUp(s, r).entries = Append(s.entries, r) /\ Past!TakeUp(s, r).skipped = s.skipped
      BY <3>3, TakeUpIs
    <3>5. QED
      BY <2>5, <3>1, <3>2, <3>3, <3>4
  <2>7. PICK m \in Nat, z \in Nat : m = Len(e) /\ z = Past!Bytes(e)
    BY <1>0, BytesAre
  <2>8. \A p \in 1..n : q[p] \in P /\ Past!Before(q[p], r)
    BY <1>1, <2>1, <2>4
  <2>9. \A j \in 1..m : Past!Before(e[j], r)
    BY <2>3, <2>7, <2>8
  <2>14. \A i \in 1..m : \E p \in 1..(n + 1) : e[i] = q[p]
    <3>1. SUFFICES ASSUME NEW i \in 1..m PROVE \E p \in 1..(n + 1) : e[i] = q[p]
      OBVIOUS
    <3>2. PICK p \in 1..n : e[i] = q[p]
      BY <2>3, <2>7
    <3>3. p \in 1..(n + 1)
      OBVIOUS
    <3>4. QED
      BY <3>2, <3>3
  <2>10. CASE m = MaxRuns
    <3>1. b = e /\ c = k
      BY <2>6, <2>7, <2>10
    <3>2. Kept(e, r)
      BY <2>7, <2>9, <2>10 DEF Kept
    <3>3. \A p \in 1..(n + 1) : Kept(e, q[p])
      BY <2>3, <2>4, <3>2
    <3>4. \A i \in 1..Len(e) : \E p \in 1..(n + 1) : e[i] = q[p]
      BY <2>7, <2>14
    <3>5. k + Len(e) <= n + 1
      BY <2>3, <2>7
    <3>6. Told(b, c, n + 1)
      BY <2>3, <3>1, <3>3, <3>4, <3>5
    <3>7. QED
      BY <2>1, <2>5, <3>6
  <2>11. CASE m # MaxRuns /\ z + r.size > MaxPack
    <3>1. b = e /\ c = k + 1
      BY <2>6, <2>7, <2>11
    <3>2. Kept(e, r)
      <4>1. SubSeq(e, 1, m) = e
        BY <2>7
      <4>2. m \in 0..m /\ \A j \in 1..m : j <= m <=> Past!Before(e[j], r)
        BY <2>9
      <4>3. QED
        BY <2>7, <2>11, <4>1, <4>2 DEF Kept
    <3>3. \A p \in 1..(n + 1) : Kept(e, q[p])
      BY <2>3, <2>4, <3>2
    <3>4. \A i \in 1..Len(e) : \E p \in 1..(n + 1) : e[i] = q[p]
      BY <2>7, <2>14
    <3>5. (k + 1) + Len(e) <= n + 1
      BY <2>3, <2>7
    <3>6. Told(b, c, n + 1)
      BY <2>3, <3>1, <3>3, <3>4, <3>5
    <3>7. QED
      BY <2>1, <2>5, <3>6
  <2>12. CASE m # MaxRuns /\ ~(z + r.size > MaxPack)
    <3>1. b = Append(e, r) /\ c = k
      BY <2>6, <2>7, <2>12
    <3>2. b \in Seq(P) /\ Len(b) = m + 1 /\ (\A i \in 1..m : b[i] = e[i]) /\ b[m + 1] = r
      BY <2>7, <3>1, AppendIs
    <3>3. Past!Bytes(b) = z + r.size
      BY <1>0, <2>7, <3>1, BytesAre
    <3>4. m + 1 <= MaxRuns /\ Past!Bytes(b) <= MaxPack /\ k + (m + 1) <= n + 1
      <4>1. m <= MaxRuns /\ k + m <= n /\ r.size \in Nat
        BY <1>0, <2>3, <2>7
      <4>2. QED
        BY <2>12, <3>3, <4>1
    <3>5. \A i \in 1..(m + 1) : \E p \in 1..(n + 1) : b[i] = q[p]
      <4>1. SUFFICES ASSUME NEW i \in 1..(m + 1) PROVE \E p \in 1..(n + 1) : b[i] = q[p]
        OBVIOUS
      <4>2. CASE i = m + 1
        BY <2>1, <2>4, <3>2, <4>2
      <4>3. CASE i # m + 1
        <5>1. i \in 1..m /\ b[i] = e[i]
          BY <3>2, <4>3
        <5>2. QED
          BY <2>14, <5>1
      <4>4. QED
        BY <4>2, <4>3
    <3>6. \A i, j \in 1..(m + 1) : i < j => Past!Before(b[i], b[j])
      <4>1. SUFFICES ASSUME NEW i \in 1..(m + 1), NEW j \in 1..(m + 1), i < j PROVE Past!Before(b[i], b[j])
        OBVIOUS
      <4>2. i \in 1..m /\ b[i] = e[i]
        BY <3>2, <4>1
      <4>3. CASE j = m + 1
        BY <2>9, <3>2, <4>2, <4>3
      <4>4. CASE j # m + 1
        <5>1. j \in 1..m /\ b[j] = e[j]
          BY <3>2, <4>4
        <5>2. \A x, y \in 1..m : x < y => Past!Before(e[x], e[y])
          BY <2>3, <2>7
        <5>3. QED
          BY <4>1, <4>2, <5>1, <5>2
      <4>5. QED
        BY <4>3, <4>4
    <3>7. \A p \in 1..(n + 1) : Kept(b, q[p])
      <4>1. SUFFICES ASSUME NEW p \in 1..(n + 1) PROVE Kept(b, q[p])
        OBVIOUS
      <4>2. CASE p = n + 1
        <5>1. \E i \in 1..Len(b) : b[i] = q[p]
          BY <2>4, <3>2, <4>2
        <5>2. QED
          BY <5>1 DEF Kept
      <4>3. CASE p # n + 1
        <5>1. p \in 1..n
          BY <4>3
        <5>2. Kept(e, q[p]) /\ q[p] \in P /\ Past!Before(q[p], r)
          BY <2>3, <2>8, <5>1
        <5>3. QED
          BY <2>7, <2>12, <3>1, <5>2, KeptStays
      <4>4. QED
        BY <4>2, <4>3
    <3>8. Told(b, c, n + 1)
      BY <3>1, <3>2, <3>4, <3>5, <3>6, <3>7
    <3>9. QED
      BY <2>1, <2>5, <3>8
  <2>13. QED
    BY <2>10, <2>11, <2>12
<1> HIDE DEF U
<1>6. 0..N \subseteq U
  BY <1>4, <1>5, CountUp
<1>7. N \in U
  BY <1>6
<1>8. Told(g[N].entries, g[N].skipped, N)
  BY <1>7 DEF U
<1>9. QED
  BY <1>1, <1>2, <1>8

LEMMA PartsToldApart == ASSUME NEW P, ToldApart(P), NEW Q \in SUBSET P PROVE ToldApart(Q)
<1>1. IsFiniteSet(Q)
  BY FS_Subset DEF ToldApart
<1>2. QED
  BY <1>1 DEF ToldApart

\* Where something matches, something is at least half as good as the best; and whatever is before a strong match is one.
LEMMA StrongIs ==
  ASSUME NEW P, ToldApart(P)
  PROVE  /\ Past!Strong(P) \subseteq Past!Matched(P) /\ Past!Matched(P) \subseteq P
         /\ Past!Matched(P) # {} => Past!Strong(P) # {}
         /\ \A r \in P, s \in Past!Strong(P) : Past!Before(r, s) => r \in Past!Strong(P)
<1>1. PICK M : M = Past!Matched(P)
  OBVIOUS
<1>2. M = {r \in P : r.score > 0} /\ M \subseteq P
  BY <1>1 DEF Past!Matched
<1>3. ToldApart(M)
  BY <1>2, PartsToldApart
<1>4. Past!Strong(P) = {r \in M : \A best \in P : 2 * r.score >= best.score}
  BY <1>1 DEF Past!Strong
<1>5. \A r \in P : r.score \in Nat
  BY DEF ToldApart
<1>6. ASSUME M # {} PROVE Past!Strong(P) # {}
  <2>1. PICK s \in Seq(M) : /\ s = Past!InOrder(M)
                            /\ \A i, j \in 1..Len(s) : i < j => Past!Before(s[i], s[j])
                            /\ \A r \in M : \E i \in 1..Len(s) : s[i] = r
    BY <1>3, BestFirst
  <2>2. PICK n \in Nat : n = Len(s)
    OBVIOUS
  <2>3. 1 \in 1..n
    BY <1>6, <2>1, <2>2
  <2>4. PICK x \in M : x = s[1]
    BY <2>2, <2>3
  <2>5. ASSUME NEW y \in M PROVE 2 * x.score >= y.score
    <3>1. PICK i \in 1..n : s[i] = y
      BY <2>1, <2>2
    <3>2. i = 1 \/ Past!Before(x, y)
      BY <2>1, <2>2, <2>3, <2>4, <3>1
    <3>3. x = y \/ Past!Before(x, y)
      BY <2>4, <3>1, <3>2
    <3>4. x.score \in Nat /\ y.score \in Nat
      BY <1>2, <1>5
    <3>5. x.score >= y.score
      BY <3>3, <3>4 DEF Past!Before
    <3>6. QED
      BY <3>4, <3>5
  <2>6. ASSUME NEW y \in P PROVE 2 * x.score >= y.score
    <3>1. y \notin M => y.score = 0
      BY <1>2, <1>5
    <3>2. x.score \in Nat
      BY <1>2, <1>5
    <3>3. QED
      BY <2>5, <3>1, <3>2
  <2>7. QED
    BY <1>4, <2>6
<1>7. ASSUME NEW r \in P, NEW s \in Past!Strong(P), Past!Before(r, s) PROVE r \in Past!Strong(P)
  <2>1. s \in M /\ s \in P /\ \A best \in P : 2 * s.score >= best.score
    BY <1>2, <1>4
  <2>2. PICK a \in Nat, b \in Nat : a = r.score /\ b = s.score
    BY <1>5, <2>1
  <2>3. a >= b /\ b > 0
    BY <1>2, <1>7, <2>1, <2>2 DEF Past!Before
  <2>4. r \in M
    BY <1>2, <2>2, <2>3
  <2>5. ASSUME NEW best \in P PROVE 2 * a >= best.score
    <3>1. PICK c \in Nat : c = best.score /\ 2 * b >= c
      BY <1>2, <1>5, <2>1, <2>2
    <3>2. QED
      BY <2>3, <3>1
  <2>6. QED
    BY <1>4, <2>2, <2>4, <2>5
<1>8. QED
  BY <1>1, <1>2, <1>4, <1>6, <1>7

\* The first of a list.
LEMMA FirstOf ==
  ASSUME NEW T, NEW s \in Seq(T), NEW m \in Nat
  PROVE  LET c == Past!Least(Len(s), m)
             f == SubSeq(s, 1, c)
         IN c \in Nat /\ c <= Len(s) /\ f \in Seq(T) /\ Len(f) = c /\ \A i \in 1..c : f[i] = s[i]
<1>1. PICK n \in Nat : n = Len(s)
  OBVIOUS
<1>2. PICK c \in Nat : c = Past!Least(n, m) /\ c <= n
  BY DEF Past!Least
<1>3. PICK f : f = SubSeq(s, 1, c)
  OBVIOUS
<1>4. f \in Seq(T) /\ Len(f) = c /\ \A i \in 1..c : f[i] = s[i]
  BY ONLY <1>1, <1>2, <1>3, s \in Seq(T)
<1>5. QED
  BY <1>1, <1>2, <1>3, <1>4

\* What an earlier run has to say is bounded, and it is the best that fits, for any runs (memory.select).
THEOREM PacksStayBest ==
  ASSUME MaxRuns \in Nat, MaxPack \in Nat, Candidates \in Nat, NEW runs, ToldApart(runs), NEW task
  PROVE  Past!PackIsBest(runs, task)
<1>1. PICK found : found = {r \in runs : r.task = task /\ Past!Public(r)}
  OBVIOUS
<1>2. found = Past!Eligible(runs, task) /\ found \subseteq runs
  BY <1>1 DEF Past!Eligible
<1>3. ToldApart(found)
  BY <1>2, PartsToldApart
<1>4. PICK M, S : M = Past!Matched(found) /\ S = Past!Strong(found)
  OBVIOUS
<1>5. S \subseteq M /\ M \subseteq found /\ (M # {} => S # {}) /\ \A r \in found, s \in S : Past!Before(r, s) => r \in S
  BY <1>3, <1>4, StrongIs
<1>6. PICK pool : pool = IF S = {} THEN found ELSE S
  OBVIOUS
<1>7. /\ pool \subseteq found /\ ToldApart(pool) /\ \A r \in found, s \in pool : Past!Before(r, s) => r \in pool
  BY <1>3, <1>5, <1>6, PartsToldApart
<1>8. PICK w \in Seq(pool) : /\ w = Past!InOrder(pool) /\ Len(w) = Cardinality(pool)
                             /\ \A i, j \in 1..Len(w) : i < j => Past!Before(w[i], w[j])
                             /\ \A r \in pool : \E i \in 1..Len(w) : w[i] = r
  BY <1>7, BestFirst
<1>9. PICK n \in Nat : n = Len(w)
  OBVIOUS
<1>10. PICK q \in Seq(pool), c \in Nat : /\ q = SubSeq(w, 1, Past!Least(Len(w), Candidates))
                                         /\ c = Len(q) /\ c <= n /\ \A i \in 1..c : q[i] = w[i]
  <2>1. PICK c : c = Past!Least(n, Candidates)
    OBVIOUS
  <2>2. PICK q : q = SubSeq(w, 1, c)
    OBVIOUS
  <2>3. c \in Nat /\ c <= n /\ q \in Seq(pool) /\ Len(q) = c /\ \A i \in 1..c : q[i] = w[i]
    BY <1>9, <2>1, <2>2, FirstOf
  <2>4. QED
    BY <1>9, <2>1, <2>2, <2>3
<1>11. q = Past!Ranked(found)
  BY <1>4, <1>6, <1>8, <1>10 DEF Past!Ranked
<1>12. \A i, j \in 1..Len(q) : i < j => Past!Before(q[i], q[j])
  BY <1>8, <1>9, <1>10
<1>13. PICK pack : pack = Past!Packed(q)
  OBVIOUS
<1>14. PICK e \in Seq(pool), k \in Nat : e = pack.entries /\ k = pack.skipped
  <2>1. pack \in PackOf(pool)
    BY <1>7, <1>12, <1>13, PackIs
  <2>2. QED
    BY <2>1 DEF PackOf
<1>15. PICK m \in Nat : m = Len(e)
  OBVIOUS
<1>16. /\ \A i \in 1..m : \E p \in 1..c : e[i] = q[p]
       /\ \A i, j \in 1..m : i < j => Past!Before(e[i], e[j])
       /\ m <= MaxRuns /\ Past!Bytes(e) <= MaxPack
       /\ k + m <= c
       /\ \A p \in 1..c : Kept(e, q[p])
  <2>1. LET b == Past!Packed(q)
            y == b.entries
        IN /\ b \in PackOf(pool)
           /\ \A i \in 1..Len(y) : \E p \in 1..Len(q) : y[i] = q[p]
           /\ \A i, j \in 1..Len(y) : i < j => Past!Before(y[i], y[j])
           /\ Len(y) <= MaxRuns /\ Past!Bytes(y) <= MaxPack
           /\ b.skipped + Len(y) <= Len(q)
           /\ \A p \in 1..Len(q) : Kept(y, q[p])
    BY <1>7, <1>12, PackIs
  <2>2. Past!Packed(q).entries = e /\ Past!Packed(q).skipped = k /\ Len(e) = m /\ Len(q) = c
    BY <1>10, <1>13, <1>14, <1>15
  <2>3. QED
    BY <2>1, <2>2
<1>17. PICK taken : taken = {e[i] : i \in 1..m}
  OBVIOUS
<1>18. taken \subseteq found
  BY <1>7, <1>15, <1>17
<1>19. ASSUME NEW i \in 1..m, NEW r \in found \ taken, Past!Before(r, e[i])
       PROVE  \E l \in 0..(i - 1) : /\ \A j \in 1..m : j <= l <=> Past!Before(e[j], r)
                                    /\ Past!Bytes(SubSeq(e, 1, l)) + r.size > MaxPack
  <2>1. e[i] \in pool /\ r \in pool
    BY <1>7, <1>15, <1>19
  <2>2. PICK x \in 1..n : w[x] = r
    BY <1>8, <1>9, <2>1
  <2>3. PICK y \in 1..c : e[i] = q[y]
    BY <1>16
  <2>4. y \in 1..n /\ e[i] = w[y]
    BY <1>10, <2>3
  <2>5. x < y
    <3>1. SUFFICES ASSUME ~(x < y) PROVE FALSE
      OBVIOUS
    <3>2. x = y \/ y < x
      BY <3>1
    <3>3. r = e[i] \/ Past!Before(e[i], r)
      BY <1>8, <1>9, <2>2, <2>4, <3>2
    <3>4. QED
      BY <1>7, <1>19, <2>1, <3>3, BeforeIs
  <2>6. x \in 1..c /\ r = q[x]
    <3>1. x \in 1..c
      BY <2>5
    <3>2. QED
      BY <1>10, <2>2, <3>1
  <2>7. Kept(e, r)
    BY <1>16, <2>6
  <2>8. ~Past!Before(e[i], r)
    BY <1>7, <1>19, <2>1, BeforeIs
  <2>9. ~(\E j \in 1..m : e[j] = r)
    BY <1>17, <1>19
  <2>10. PICK l \in 0..m : (\A j \in 1..m : j <= l <=> Past!Before(e[j], r)) /\ Past!Bytes(SubSeq(e, 1, l)) + r.size > MaxPack
    BY <1>15, <2>7, <2>8, <2>9 DEF Kept
  <2>11. ~(i <= l)
    BY <2>8, <2>10
  <2>12. l \in 0..(i - 1)
    BY <2>11
  <2>13. QED
    BY <2>10, <2>12
<1>20. PICK a \in Nat, b \in Nat, d \in Nat : a = Cardinality(M) /\ b = Cardinality(S) /\ d = Cardinality(M \ S) /\ d = a - b
  <2>1. IsFiniteSet(M) /\ IsFiniteSet(S) /\ IsFiniteSet(M \ S)
    BY <1>3, <1>5, FS_Subset DEF ToldApart
  <2>2. Cardinality(M \ S) = Cardinality(M) - Cardinality(M \cap S) /\ M \cap S = S
    BY <1>5, <2>1, FS_Difference
  <2>3. Cardinality(M) \in Nat /\ Cardinality(S) \in Nat /\ Cardinality(M \ S) \in Nat
    BY <2>1, FS_CardinalityType
  <2>4. QED
    BY <2>2, <2>3
<1>21. a > 0 => a = m + (c - m) + Past!Surplus(b - c) + d
  <2>1. SUFFICES ASSUME a > 0 PROVE a = m + (c - m) + Past!Surplus(b - c) + d
    OBVIOUS
  <2>2. M # {}
    <3>1. SUFFICES ASSUME M = {} PROVE FALSE
      OBVIOUS
    <3>2. Cardinality(M) = 0
      BY <3>1, FS_EmptySet, Zenon
    <3>3. a = 0
      BY <1>20, <3>2
    <3>4. QED
      BY <2>1, <3>3
  <2>3. b = n
    BY <1>5, <1>6, <1>8, <1>9, <1>20, <2>2
  <2>4. Past!Surplus(b - c) = b - c
    BY <1>10, <2>3 DEF Past!Surplus
  <2>5. QED
    BY <1>20, <2>4
<1>22. k <= c - m
  BY <1>16
<1>23. PICK chosen : chosen = Past!Select(runs, task)
  OBVIOUS
<1>24. /\ chosen.entries = e /\ chosen.matched = a /\ chosen.unselected = c - m
       /\ chosen.notConsidered = Past!Surplus(b - c) /\ chosen.belowFloor = d /\ chosen.skipped = k
  BY <1>2, <1>4, <1>10, <1>11, <1>13, <1>14, <1>15, <1>20, <1>23, CountsAre DEF Past!Select
<1>25. \A i \in 1..m, r \in found \ taken :
         Past!Before(r, e[i]) =>
           \E l \in 0..(i - 1) : (\A j \in 1..m : j <= l <=> Past!Before(e[j], r)) /\ Past!Bytes(SubSeq(e, 1, l)) + r.size > MaxPack
  BY <1>19
<1>26. Len(chosen.entries) = m
  BY <1>15, <1>24
<1>27. /\ Len(chosen.entries) <= MaxRuns /\ Past!Bytes(chosen.entries) <= MaxPack
       /\ \A i, j \in 1..Len(chosen.entries) : i < j => Past!Before(chosen.entries[i], chosen.entries[j])
  BY <1>16, <1>24, <1>26
<1>28. /\ chosen.matched > 0 => chosen.matched = Len(chosen.entries) + chosen.unselected + chosen.notConsidered + chosen.belowFloor
       /\ chosen.skipped <= chosen.unselected
  BY <1>21, <1>22, <1>24, <1>26
<1>29. {chosen.entries[i] : i \in 1..Len(chosen.entries)} = taken
  BY <1>17, <1>24, <1>26
<1> HIDE DEF Kept
<1>30. QED
  BY <1>1, <1>18, <1>23, <1>24, <1>25, <1>26, <1>27, <1>28, <1>29 DEF Past!PackIsBest

-----------------------------------------------------------------------------
(* The newest that fit.                                                      *)

\* Runs of an earlier ledger are told apart by when they were made.
ShelvedApart(P) ==
  /\ IsFiniteSet(P)
  /\ \A r, s \in P : r # s => r.made # s.made
  /\ \A r \in P : r.made \in Nat /\ r.question \in Nat /\ r.answers \in Seq(Nat)

LEMMA SizeIs ==
  ASSUME AnswerBytes \in Nat, NEW P, ShelvedApart(P), NEW r \in P
  PROVE  Shelf!Size(r) \in Nat
<1>1. PICK a \in Seq(Nat), n \in Nat : a = r.answers /\ n = Len(a)
  BY DEF ShelvedApart
<1>2. PICK s : s = [i \in 1..n |-> Shelf!Cut(a[i]).kept]
  OBVIOUS
<1>3. \A i \in 1..n : Shelf!Cut(a[i]).kept \in Nat
  <2>1. SUFFICES ASSUME NEW i \in 1..n PROVE Shelf!Cut(a[i]).kept \in Nat
    OBVIOUS
  <2>2. PICK c \in Nat : c = a[i]
    BY <1>1
  <2>3. Shelf!Cut(c).kept \in {c, AnswerBytes}
    BY DEF Shelf!Cut
  <2>4. QED
    BY <2>2, <2>3
<1>4. s \in [1..n -> Nat]
  BY <1>2, <1>3
<1>5. s \in Seq(Nat)
  BY <1>4, ListsAre
<1>6. Total(s) \in Nat /\ r.question \in Nat
  BY <1>5, TotalOf DEF ShelvedApart
<1>7. Shelf!Size(r) = r.question + Total(s)
  BY <1>1, <1>2, SumsAre DEF Shelf!Size
<1>8. QED
  BY <1>6, <1>7

LEMMA NewestIs ==
  ASSUME NEW P, ShelvedApart(P)
  PROVE  LET s == Shelf!NewestFirst(P) IN
         /\ s \in Seq(P) /\ Len(s) = Cardinality(P)
         /\ \A i, j \in 1..Len(s) : i < j => s[i].made > s[j].made
         /\ \A r \in P : \E i \in 1..Len(s) : s[i] = r
<1>1. PICK n \in Nat : n = Cardinality(P) /\ IsFiniteSet(P)
  BY FS_CardinalityType DEF ShelvedApart
<1>2. PICK R : R = {x \in P \X P : x[1].made > x[2].made}
  OBVIOUS
<1>3. \A x, y \in P : <<x, y>> \in R <=> x.made > y.made
  BY <1>2
<1>4. Orders(R, P)
  <2>1. \A x, y \in P : (x # y => x.made # y.made) /\ x.made \in Nat /\ y.made \in Nat
    BY DEF ShelvedApart
  <2>2. \A x \in P : <<x, x>> \notin R
    BY <1>3, <2>1
  <2>3. \A x, y \in P : x # y => <<x, y>> \in R \/ <<y, x>> \in R
    BY <1>3, <2>1
  <2>4. \A x, y, z \in P : <<x, y>> \in R /\ <<y, z>> \in R => <<x, z>> \in R
    BY <1>3, <2>1
  <2>5. QED
    BY <2>2, <2>3, <2>4 DEF Orders
<1>5. PICK s \in [1..n -> P] : /\ \A i, j \in 1..n : i # j => s[i] # s[j]
                               /\ \A i, j \in 1..n : i < j => <<s[i], s[j]>> \in R
  BY <1>1, <1>4, OrderExists
<1>6. \A i, j \in 1..n : i < j => s[i].made > s[j].made
  BY <1>3, <1>5
<1>7. Shelf!SetToSeqs(P) = {f \in [1..n -> P] : \A i, j \in 1..n : i # j => f[i] # f[j]}
  BY <1>1, CountsAre DEF Shelf!SetToSeqs
<1>8. s \in Shelf!SetToSeqs(P) /\ \A i, j \in DOMAIN s : i < j => s[i].made > s[j].made
  BY <1>5, <1>6, <1>7
<1>9. PICK r : r = Shelf!NewestFirst(P)
  OBVIOUS
<1>10. r \in Shelf!SetToSeqs(P) /\ \A i, j \in DOMAIN r : i < j => r[i].made > r[j].made
  BY <1>8, <1>9 DEF Shelf!NewestFirst
<1>11. r \in [1..n -> P] /\ \A i, j \in 1..n : i # j => r[i] # r[j]
  BY <1>7, <1>10
<1>12. r \in Seq(P) /\ Len(r) = n
  BY <1>11, ListsAre
<1>13. \A x \in P : \E i \in 1..n : r[i] = x
  BY <1>1, <1>11, ListsAll
<1>14. QED
  BY <1>1, <1>9, <1>10, <1>11, <1>12, <1>13

\* The bytes of runs, each with the empty line after it.
Padded(s) == Total([i \in 1..Len(s) |-> Shelf!Size(s[i]) + Shelf!Gap])

LEMMA PaddedAre ==
  ASSUME AnswerBytes \in Nat, NEW P, ShelvedApart(P)
  PROVE  /\ Padded(<<>>) = 0
         /\ \A e \in Seq(P) : Padded(e) \in Nat
         /\ \A e \in Seq(P), r \in P : Padded(Append(e, r)) = Padded(e) + (Shelf!Size(r) + Shelf!Gap)
<1> DEFINE Sizes(e) == [i \in 1..Len(e) |-> Shelf!Size(e[i]) + Shelf!Gap]
<1>1. \A e : Padded(e) = Total(Sizes(e))
  BY DEF Padded
<1>0. \A r \in P : Shelf!Size(r) + Shelf!Gap \in Nat
  BY SizeIs DEF Shelf!Gap
<1>2. ASSUME NEW e \in Seq(P) PROVE Sizes(e) \in Seq(Nat) /\ Len(Sizes(e)) = Len(e)
  <2>1. PICK n \in Nat : n = Len(e)
    OBVIOUS
  <2>2. PICK z : z = Sizes(e)
    OBVIOUS
  <2>3. z = [i \in 1..n |-> Shelf!Size(e[i]) + Shelf!Gap] /\ \A i \in 1..n : Shelf!Size(e[i]) + Shelf!Gap \in Nat
    BY <1>0, <2>1, <2>2
  <2>4. z \in [1..n -> Nat]
    BY <2>3
  <2>5. z \in Seq(Nat) /\ Len(z) = n
    BY <2>4, ListsAre
  <2> HIDE DEF Sizes
  <2>6. QED
    BY <2>1, <2>2, <2>5
<1>3. Sizes(<<>>) = <<>>
  OBVIOUS
<1>4. ASSUME NEW e \in Seq(P), NEW r \in P PROVE Sizes(Append(e, r)) = Append(Sizes(e), Shelf!Size(r) + Shelf!Gap)
  <2>1. PICK n \in Nat : n = Len(e)
    BY ONLY e \in Seq(P)
  <2>2. PICK a : a = Append(e, r)
    OBVIOUS
  <2>3. a \in Seq(P) /\ Len(a) = n + 1 /\ (\A i \in 1..n : a[i] = e[i]) /\ a[n + 1] = r
    BY <2>1, <2>2, AppendIs
  <2>4. PICK x, y, k : x = Sizes(a) /\ y = Sizes(e) /\ k = Shelf!Size(r) + Shelf!Gap
    OBVIOUS
  <2>5. x \in Seq(Nat) /\ Len(x) = n + 1 /\ y \in Seq(Nat) /\ Len(y) = n /\ k \in Nat
    <3> HIDE DEF Sizes
    <3>1. QED
      BY <1>0, <1>2, <2>1, <2>3, <2>4
  <2>6. (\A i \in 1..n : x[i] = y[i]) /\ x[n + 1] = k
    BY <2>1, <2>3, <2>4
  <2>7. Append(y, k) \in Seq(Nat) /\ Len(Append(y, k)) = n + 1 /\ (\A i \in 1..n : Append(y, k)[i] = y[i]) /\ Append(y, k)[n + 1] = k
    BY ONLY <2>5
  <2>8. \A i \in 1..(n + 1) : x[i] = Append(y, k)[i]
    BY <2>6, <2>7
  <2>9. x = Append(y, k)
    BY <2>5, <2>7, <2>8, SeqEqual
  <2>10. QED
    BY <2>2, <2>4, <2>9
<1> HIDE DEF Sizes
<1>5. QED
  BY <1>0, <1>1, <1>2, <1>3, <1>4, TotalOf

\* What has been bound of P.
BoundOf(P) == [size : Nat, shown : Seq(P), full : BOOLEAN]

\* One run bound, or the text is full.
LEMMA BindIs ==
  ASSUME AnswerBytes \in Nat, NEW P, ShelvedApart(P), NEW s \in BoundOf(P), NEW r \in P
  PROVE  /\ Shelf!Bind(s, r) \in BoundOf(P)
         /\ LET f == Shelf!Bind(s, r) IN
            IF s.full \/ s.size + Shelf!Size(r) > HandoffBytes
            THEN f.full /\ f.shown = s.shown /\ f.size = s.size
            ELSE ~f.full /\ f.shown = Append(s.shown, r) /\ f.size = s.size + Shelf!Size(r) + Shelf!Gap
<1>1. s \in [size : Nat, shown : Seq(P), full : BOOLEAN]
  BY DEF BoundOf
<1>2. Shelf!Size(r) \in Nat /\ Shelf!Gap \in Nat
  BY SizeIs DEF Shelf!Gap
<1>3. CASE s.full \/ s.size + Shelf!Size(r) > HandoffBytes
  <2>1. PICK z : z = [s EXCEPT !.full = TRUE]
    OBVIOUS
  <2>2. z \in [size : Nat, shown : Seq(P), full : BOOLEAN] /\ z.full /\ z.shown = s.shown /\ z.size = s.size
    BY ONLY <1>1, <2>1
  <2>3. Shelf!Bind(s, r) = z
    BY ONLY <1>3, <2>1, Zenon DEF Shelf!Bind
  <2>4. QED
    BY <1>3, <2>2, <2>3 DEF BoundOf
<1>4. CASE ~(s.full \/ s.size + Shelf!Size(r) > HandoffBytes)
  <2>1. PICK a \in Seq(P), n \in Nat : a = Append(s.shown, r) /\ n = s.size + Shelf!Size(r) + Shelf!Gap
    <3>1. s.shown \in Seq(P) /\ s.size \in Nat
      BY <1>1
    <3>2. Append(s.shown, r) \in Seq(P) /\ s.size + Shelf!Size(r) + Shelf!Gap \in Nat
      BY <1>2, <3>1, AppendIs
    <3>3. QED
      BY <3>2
  <2>2. PICK z : z = [s EXCEPT !.size = n, !.shown = a]
    OBVIOUS
  <2>3. z \in [size : Nat, shown : Seq(P), full : BOOLEAN] /\ z.full = s.full /\ z.shown = a /\ z.size = n
    BY ONLY <1>1, <2>1, <2>2
  <2>4. Shelf!Bind(s, r) = z
    <3>1. Shelf!Bind(s, r) = [s EXCEPT !.size = s.size + Shelf!Size(r) + Shelf!Gap, !.shown = Append(s.shown, r)]
      BY ONLY <1>4, Zenon DEF Shelf!Bind
    <3>2. QED
      BY ONLY <3>1, <2>1, <2>2, Zenon
  <2>5. QED
    BY <1>4, <2>1, <2>3, <2>4 DEF BoundOf
<1>5. QED
  BY <1>3, <1>4

\* What has been bound up to each place of a list.
LEMMA BindingIsRead ==
  ASSUME AnswerBytes \in Nat, NEW P, ShelvedApart(P), NEW q \in Seq(P)
  PROVE  \E g \in [0..Len(q) -> BoundOf(P)] :
           /\ g[0] = [size |-> 0, shown |-> <<>>, full |-> FALSE] /\ \A n \in 1..Len(q) : g[n] = Shelf!Bind(g[n - 1], q[n])
           /\ Shelf!Bound(q) = g[Len(q)]
<1> DEFINE S == BoundOf(P)
<1>1. PICK N \in Nat : N = Len(q)
  OBVIOUS
<1>0. PICK x : x = [size |-> 0, shown |-> <<>>, full |-> FALSE]
  OBVIOUS
<1> DEFINE F == [n \in 1..N |-> [s \in S |-> Shelf!Bind(s, q[n])]]
           Def(g) == [n \in 0..N |-> IF n = 0 THEN x ELSE Shelf!Bind(g[n - 1], q[n])]
           all == CHOOSE g : g = Def(g)
<1>2. \A s \in S, n \in 1..N : Shelf!Bind(s, q[n]) \in S
  <2>1. \A n \in 1..N : q[n] \in P
    BY <1>1
  <2>2. QED
    BY <2>1, BindIs
<1>3. F \in Reading(N, S)
  BY <1>2 DEF Reading
<1>4. ASSUME NEW s \in S, NEW n \in 1..N PROVE F[n][s] = Shelf!Bind(s, q[n])
  OBVIOUS
<1>5. x \in S
  BY <1>0 DEF BoundOf
<1>6. PICK g : ReadBy(g, N, S, x, F)
  <2> HIDE DEF S, F
  <2>1. QED
    BY <1>3, <1>5, ReadsExist
<1>7. g = Def(g)
  <2> HIDE DEF S, F
  <2>1. ASSUME NEW n \in 0..N PROVE g[n] = IF n = 0 THEN x ELSE Shelf!Bind(g[n - 1], q[n])
    <3>1. n # 0 => n \in 1..N /\ n - 1 \in 0..N
      OBVIOUS
    <3>2. QED
      BY <3>1, <1>4, <1>6 DEF ReadBy
  <2>2. g = [n \in 0..N |-> g[n]]
    BY <1>6 DEF ReadBy
  <2>3. QED
    BY <2>1, <2>2
<1> HIDE DEF S, F
<1>8. PICK r : r = all
  OBVIOUS
<1>9. r = Def(r)
  BY <1>7, <1>8
<1> HIDE DEF all
<1>10. r[0] = x /\ \A n \in 1..N : r[n] = Shelf!Bind(r[n - 1], q[n])
  <2>1. r = [n \in 0..N |-> IF n = 0 THEN x ELSE Shelf!Bind(r[n - 1], q[n])]
    BY <1>9
  <2>2. \A n \in 0..N : r[n] = IF n = 0 THEN x ELSE Shelf!Bind(r[n - 1], q[n])
    BY <2>1
  <2>3. QED
    BY <2>2
<1>11. r = [n \in 0..N |-> r[n]]
  BY <1>9
<1>12. r \in [0..N -> S]
  <2>1. x \in S /\ F \in Reading(N, S) /\ r[0] = x
    BY <1>3, <1>5, <1>10
  <2>2. \A n \in 1..N : r[n - 1] \in S => r[n] = F[n][r[n - 1]]
    BY <1>4, <1>10
  <2>3. QED
    BY <1>11, <2>1, <2>2, ReadsAre
<1>13. Shelf!Bound(q) = r[N]
  BY <1>0, <1>1, <1>8, Zenon DEF Shelf!Bound, all
<1>14. QED
  BY <1>0, <1>1, <1>10, <1>12, <1>13 DEF S

\* The bound text holds the first runs of the list, as long as they fit.
LEMMA BoundIs ==
  ASSUME AnswerBytes \in Nat, HandoffBytes \in Nat, NEW P, ShelvedApart(P), NEW q \in Seq(P)
  PROVE  LET f == Shelf!Bound(q)
             k == Len(f.shown)
         IN /\ f \in BoundOf(P)
            /\ k \in 0..Len(q) /\ \A i \in 1..k : f.shown[i] = q[i]
            /\ f.size = Padded(f.shown) /\ f.size <= HandoffBytes + Shelf!Gap
            /\ k < Len(q) => f.size + Shelf!Size(q[k + 1]) > HandoffBytes
<1>1. PICK N \in Nat : N = Len(q)
  OBVIOUS
<1>2. PICK g \in [0..N -> BoundOf(P)] :
        /\ g[0] = [size |-> 0, shown |-> <<>>, full |-> FALSE] /\ \A n \in 1..N : g[n] = Shelf!Bind(g[n - 1], q[n])
        /\ Shelf!Bound(q) = g[N]
  BY <1>1, BindingIsRead
<1>3. ASSUME NEW n \in 0..N PROVE g[n].shown \in Seq(P) /\ g[n].size \in Nat /\ g[n].full \in BOOLEAN /\ g[n] \in BoundOf(P)
  BY <1>2 DEF BoundOf
<1> DEFINE Told(e, z, full, n) ==
             /\ Len(e) \in 0..n /\ \A i \in 1..Len(e) : e[i] = q[i]
             /\ z = Padded(e) /\ z <= HandoffBytes + Shelf!Gap
             /\ full => Len(e) < n /\ z + Shelf!Size(q[Len(e) + 1]) > HandoffBytes
             /\ ~full => Len(e) = n
           U == {n \in 0..N : Told(g[n].shown, g[n].size, g[n].full, n)}
<1>4. 0 \in U
  <2>1. g[0].shown = <<>> /\ g[0].size = 0 /\ g[0].full = FALSE
    BY <1>2
  <2>2. Padded(<<>>) = 0
    BY PaddedAre
  <2>3. Told(<<>>, 0, FALSE, 0)
    BY <2>2 DEF Shelf!Gap
  <2>4. QED
    BY <2>1, <2>3
<1>5. ASSUME NEW n \in 0..N, n \in U, n < N PROVE n + 1 \in U
  <2>1. n + 1 \in 1..N /\ n + 1 \in 0..N /\ (n + 1) - 1 = n
    BY <1>5
  <2>2. PICK e \in Seq(P), z \in Nat, b \in BOOLEAN, m \in Nat : e = g[n].shown /\ z = g[n].size /\ b = g[n].full /\ m = Len(e)
    <3>1. PICK e \in Seq(P), z \in Nat, b \in BOOLEAN : e = g[n].shown /\ z = g[n].size /\ b = g[n].full
      BY <1>3
    <3>2. Len(e) \in Nat
      OBVIOUS
    <3>3. QED
      BY <3>1, <3>2
  <2>3. Told(e, z, b, n)
    BY <1>5, <2>2
  <2>4. PICK r \in P, size \in Nat : r = q[n + 1] /\ size = Shelf!Size(r)
    <3>1. q[n + 1] \in P
      BY <1>1, <2>1
    <3>2. QED
      BY <3>1, SizeIs
  <2>5. PICK x, y, full : x = g[n + 1].shown /\ y = g[n + 1].size /\ full = g[n + 1].full
    OBVIOUS
  <2>6. IF b \/ z + size > HandoffBytes THEN full /\ x = e /\ y = z
        ELSE ~full /\ x = Append(e, r) /\ y = z + size + Shelf!Gap
    <3>1. g[n] \in BoundOf(P) /\ g[n + 1] = Shelf!Bind(g[n], r)
      BY <1>3, <1>2, <2>1, <2>4
    <3>2. PICK s : s = g[n]
      OBVIOUS
    <3>3. s \in BoundOf(P) /\ s.shown = e /\ s.size = z /\ s.full = b
      BY <2>2, <3>1, <3>2
    <3>4. LET f == Shelf!Bind(s, r) IN
            IF s.full \/ s.size + Shelf!Size(r) > HandoffBytes
            THEN f.full /\ f.shown = s.shown /\ f.size = s.size
            ELSE ~f.full /\ f.shown = Append(s.shown, r) /\ f.size = s.size + Shelf!Size(r) + Shelf!Gap
      BY <3>3, BindIs
    <3>5. g[n + 1] = Shelf!Bind(s, r)
      BY <3>1, <3>2
    <3>6. QED
      BY <2>4, <2>5, <3>3, <3>4, <3>5
  <2>7. CASE b
    <3>1. full /\ x = e /\ y = z
      BY <2>6, <2>7
    <3>2. m < n /\ m \in 0..(n + 1) /\ m < n + 1
      BY <2>2, <2>3, <2>7
    <3>3. Told(x, y, full, n + 1)
      BY <2>2, <2>3, <2>7, <3>1, <3>2
    <3>4. QED
      BY <2>1, <2>5, <3>3
  <2>8. CASE ~b /\ z + size > HandoffBytes
    <3>1. full /\ x = e /\ y = z
      BY <2>6, <2>8
    <3>2. m = n /\ m \in 0..(n + 1) /\ m < n + 1
      BY <2>2, <2>3, <2>8
    <3>3. z + Shelf!Size(q[m + 1]) > HandoffBytes
      BY <2>4, <2>8, <3>2
    <3>4. Told(x, y, full, n + 1)
      BY <2>2, <2>3, <3>1, <3>2, <3>3
    <3>5. QED
      BY <2>1, <2>5, <3>4
  <2>9. CASE ~b /\ ~(z + size > HandoffBytes)
    <3>1. ~full /\ x = Append(e, r) /\ y = z + size + Shelf!Gap
      BY <2>6, <2>9
    <3>2. m = n
      BY <2>2, <2>3, <2>9
    <3>3. x \in Seq(P) /\ Len(x) = n + 1 /\ (\A i \in 1..n : x[i] = e[i]) /\ x[n + 1] = r
      <4>1. Len(e) = n
        BY <2>2, <3>2
      <4>2. QED
        BY <3>1, <4>1, AppendIs
    <3>4. \A i \in 1..(n + 1) : x[i] = q[i]
      <4>1. SUFFICES ASSUME NEW i \in 1..(n + 1) PROVE x[i] = q[i]
        OBVIOUS
      <4>2. CASE i = n + 1
        BY <2>4, <3>3, <4>2
      <4>3. CASE i # n + 1
        <5>1. i \in 1..n
          BY <4>3
        <5>2. QED
          BY <2>2, <2>3, <3>2, <3>3, <5>1
      <4>4. QED
        BY <4>2, <4>3
    <3>5. y = Padded(x) /\ y <= HandoffBytes + Shelf!Gap
      <4>1. Padded(x) = Padded(e) + (size + Shelf!Gap) /\ z = Padded(e)
        BY <2>3, <2>4, <3>1, PaddedAre
      <4>2. QED
        BY <2>9, <3>1, <4>1 DEF Shelf!Gap
    <3>6. n + 1 \in 0..(n + 1)
      OBVIOUS
    <3>7. Told(x, y, full, n + 1)
      BY <3>1, <3>3, <3>4, <3>5, <3>6
    <3>8. QED
      BY <2>1, <2>5, <3>7
  <2>10. QED
    BY <2>7, <2>8, <2>9
<1> HIDE DEF U
<1>6. 0..N \subseteq U
  BY <1>4, <1>5, CountUp
<1>7. N \in U
  BY <1>6
<1>8. Told(g[N].shown, g[N].size, g[N].full, N) /\ g[N] \in BoundOf(P) /\ g[N].full \in BOOLEAN
  BY <1>3, <1>7 DEF U
<1>9. QED
  BY <1>1, <1>2, <1>8

\* A handoff can be attached, has nothing that is not public, and nothing newer is left out of it, for any runs of an
\* earlier ledger (ledgers.handoff).
THEOREM HandoffsStayOpen ==
  ASSUME AnswerBytes \in Nat, HandoffBytes \in Nat, HeadBytes \in Nat, NEW limit \in Nat,
         HeadBytes + HandoffBytes + Shelf!Gap <= limit, NEW runs, ShelvedApart(runs), NEW task
  PROVE  Shelf!HandoffIsOpen(runs, task, limit)
<1>1. PICK P : P = Shelf!Public(runs, task)
  OBVIOUS
<1>2. PICK A : A = {r \in runs : r.task = task}
  OBVIOUS
<1>3. P \subseteq A /\ A \subseteq runs
  BY <1>1, <1>2 DEF Shelf!Public
<1>4. IsFiniteSet(P) /\ IsFiniteSet(A) /\ Cardinality(P) <= Cardinality(A)
  <2>1. IsFiniteSet(A)
    BY <1>3, FS_Subset DEF ShelvedApart
  <2>2. QED
    BY <1>3, <2>1, FS_Subset
<1>5. ShelvedApart(P)
  BY <1>3, <1>4 DEF ShelvedApart
<1>6. PICK q \in Seq(P), N \in Nat : /\ q = Shelf!NewestFirst(P) /\ N = Len(q)
                                     /\ \A i, j \in 1..N : i < j => q[i].made > q[j].made
                                     /\ \A r \in P : \E i \in 1..N : q[i] = r
  BY <1>5, NewestIs
<1>7. PICK f : f = Shelf!Bound(q)
  OBVIOUS
<1>8. PICK e \in Seq(P), size \in Nat, k \in 0..N :
        /\ e = f.shown /\ size = f.size /\ k = Len(e) /\ \A i \in 1..k : e[i] = q[i]
        /\ size = Padded(e) /\ size <= HandoffBytes + Shelf!Gap
        /\ k < N => size + Shelf!Size(q[k + 1]) > HandoffBytes
  <2>1. /\ f \in BoundOf(P)
        /\ Len(f.shown) \in 0..N /\ (\A i \in 1..Len(f.shown) : f.shown[i] = q[i])
        /\ f.size = Padded(f.shown) /\ f.size <= HandoffBytes + Shelf!Gap
        /\ Len(f.shown) < N => f.size + Shelf!Size(q[Len(f.shown) + 1]) > HandoffBytes
    <3>1. LET g == Shelf!Bound(q)
              l == Len(g.shown)
          IN /\ g \in BoundOf(P)
             /\ l \in 0..Len(q) /\ \A i \in 1..l : g.shown[i] = q[i]
             /\ g.size = Padded(g.shown) /\ g.size <= HandoffBytes + Shelf!Gap
             /\ l < Len(q) => g.size + Shelf!Size(q[l + 1]) > HandoffBytes
      BY <1>5, BoundIs
    <3>2. Len(q) = N
      BY <1>6
    <3>3. QED
      BY <1>7, <3>1, <3>2
  <2>2. f.shown \in Seq(P) /\ f.size \in Nat
    BY <2>1 DEF BoundOf
  <2>3. QED
    BY <2>1, <2>2
<1>9. PICK text : text = Shelf!Reverse(e)
  OBVIOUS
<1>10. text = [i \in 1..k |-> e[(k - i) + 1]]
  BY <1>8, <1>9 DEF Shelf!Reverse
<1>11. \A i \in 1..k : (k - i) + 1 \in 1..k
  OBVIOUS
<1>12. text \in Seq(P) /\ Len(text) = k /\ \A i \in 1..k : text[i] = q[(k - i) + 1]
  <2>1. text \in [1..k -> P]
    BY <1>8, <1>10, <1>11
  <2>2. text \in Seq(P) /\ Len(text) = k
    BY <2>1, ListsAre
  <2>3. QED
    BY <1>8, <1>10, <1>11, <2>2
<1>13. PICK visible : visible = {text[i] : i \in 1..k}
  OBVIOUS
<1>14. visible = {q[i] : i \in 1..k}
  <2>1. \A i \in 1..k : text[(k - i) + 1] = q[i]
    <3>1. SUFFICES ASSUME NEW i \in 1..k PROVE text[(k - i) + 1] = q[i]
      OBVIOUS
    <3>2. (k - ((k - i) + 1)) + 1 = i
      OBVIOUS
    <3>3. QED
      BY <1>11, <1>12, <3>2
  <2>2. QED
    BY <1>11, <1>12, <1>13, <2>1
<1>15. visible \subseteq P
  BY <1>12, <1>13
<1>16. \A i, j \in 1..k : i < j => text[i].made < text[j].made
  <2>1. SUFFICES ASSUME NEW i \in 1..k, NEW j \in 1..k, i < j PROVE text[i].made < text[j].made
    OBVIOUS
  <2>2. PICK x \in 1..N, y \in 1..N : x = (k - i) + 1 /\ y = (k - j) + 1 /\ y < x
    BY <2>1
  <2>3. text[i] = q[x] /\ text[j] = q[y]
    BY <1>12, <2>2
  <2>4. q[y].made > q[x].made
    BY <1>6, <2>2
  <2>5. q[y].made \in Nat /\ q[x].made \in Nat
    <3>1. q[y] \in P /\ q[x] \in P
      BY <1>6
    <3>2. QED
      BY <1>5, <3>1 DEF ShelvedApart
  <2>6. QED
    BY <2>3, <2>4, <2>5
<1>17. ASSUME NEW r \in P \ visible PROVE \E p \in (k + 1)..N : r = q[p]
  <2>1. PICK p \in 1..N : q[p] = r
    BY <1>6
  <2>2. p \notin 1..k
    BY <1>14, <1>17, <2>1
  <2>3. p \in (k + 1)..N
    BY <2>2
  <2>4. QED
    BY <2>1, <2>3
<1>18. \A i \in 1..N : q[i] \in P /\ q[i].made \in Nat
  <2>1. \A i \in 1..N : q[i] \in P
    BY <1>6
  <2>2. QED
    BY <1>5, <2>1 DEF ShelvedApart
<1>19. ASSUME NEW r \in P \ visible, NEW s \in visible PROVE r.made < s.made
  <2>1. PICK p \in (k + 1)..N : r = q[p]
    BY <1>17
  <2>2. PICK i \in 1..k : s = q[i]
    BY <1>14
  <2>3. p \in 1..N /\ i \in 1..N /\ i < p
    OBVIOUS
  <2>4. q[i].made > q[p].made /\ q[i].made \in Nat /\ q[p].made \in Nat
    BY <1>6, <1>18, <2>3
  <2>5. QED
    BY <2>1, <2>2, <2>4
<1>20. Cardinality(visible) <= Cardinality(P)
  BY <1>4, <1>15, FS_Subset
<1>21. Shelf!Sum([i \in 1..k |-> Shelf!Size(text[i]) + Shelf!Gap]) = size
  <2>1. PICK z : z = [i \in 1..k |-> Shelf!Size(e[i]) + Shelf!Gap]
    OBVIOUS
  <2>2. \A i \in 1..k : Shelf!Size(e[i]) + Shelf!Gap \in Nat
    <3>1. \A i \in 1..k : Shelf!Size(e[i]) \in Nat
      BY <1>5, <1>8, SizeIs
    <3>2. QED
      BY <3>1 DEF Shelf!Gap
  <2>3. z \in [1..k -> Nat]
    BY <2>1, <2>2
  <2>4. z \in Seq(Nat) /\ Len(z) = k
    BY <2>3, ListsAre
  <2>5. Total([i \in 1..k |-> z[(k - i) + 1]]) = Total(z)
    BY <2>4, TotalReversed
  <2>6. [i \in 1..k |-> z[(k - i) + 1]] = [i \in 1..k |-> Shelf!Size(text[i]) + Shelf!Gap]
    BY <1>10, <1>11, <2>1
  <2>7. Total(z) = size
    BY <1>8, <2>1 DEF Padded
  <2>8. QED
    BY <2>5, <2>6, <2>7, SumsAre
<1>22. ASSUME NEW r \in P \ visible, \A s \in P \ visible : s.made <= r.made
       PROVE  size + Shelf!Size(r) > HandoffBytes
  <2>1. PICK p \in (k + 1)..N : r = q[p]
    BY <1>17
  <2>2. k + 1 \in 1..N /\ p \in 1..N /\ k < N
    OBVIOUS
  <2>3. p = k + 1
    <3>1. SUFFICES ASSUME p # k + 1 PROVE FALSE
      OBVIOUS
    <3>2. k + 1 < p
      BY <3>1
    <3>3. q[k + 1].made > q[p].made /\ q[k + 1].made \in Nat /\ q[p].made \in Nat
      BY <1>6, <1>18, <2>2, <3>2
    <3>4. q[k + 1] \in P \ visible
      <4>1. SUFFICES ASSUME q[k + 1] \in visible PROVE FALSE
        BY <1>18, <2>2
      <4>2. PICK i \in 1..k : q[k + 1] = q[i]
        BY <1>14, <4>1
      <4>3. i \in 1..N /\ i < k + 1
        BY <2>2
      <4>4. q[i].made > q[k + 1].made /\ q[i].made \in Nat
        BY <1>6, <1>18, <2>2, <4>3
      <4>5. QED
        BY <3>3, <4>2, <4>4
    <3>5. QED
      BY <1>22, <2>1, <3>3, <3>4
  <2>4. QED
    BY <1>8, <2>1, <2>2, <2>3
<1>23. HeadBytes + size <= limit
  BY <1>8 DEF Shelf!Gap
<1>24. PICK handed : handed = Shelf!Handed(runs, task)
  OBVIOUS
<1>25. /\ handed.text = text /\ handed.bytes = HeadBytes + size
       /\ handed.public = Cardinality(P) /\ handed.total = Cardinality(A)
  BY <1>1, <1>2, <1>6, <1>7, <1>8, <1>9, <1>24, CountsAre DEF Shelf!Handed
<1>26. Len(handed.text) = k /\ DOMAIN handed.text = 1..k /\ {handed.text[i] : i \in 1..Len(handed.text)} = visible
  BY <1>12, <1>13, <1>25
<1>27. Shelf!Sum([i \in 1..Len(handed.text) |-> Shelf!Size(handed.text[i]) + Shelf!Gap]) = size
  BY <1>21, <1>25, <1>26
<1>28. handed.bytes <= limit /\ Shelf!Cardinality(visible) <= handed.public /\ handed.public <= handed.total
  BY <1>4, <1>20, <1>23, <1>25, CountsAre
<1>29. \A i, j \in DOMAIN handed.text : i < j => handed.text[i].made < handed.text[j].made
  BY <1>16, <1>25, <1>26
<1>30. \A r \in P \ visible : (\A s \in P \ visible : s.made <= r.made) =>
         Shelf!Sum([i \in 1..Len(handed.text) |-> Shelf!Size(handed.text[i]) + Shelf!Gap]) + Shelf!Size(r) > HandoffBytes
  BY <1>22, <1>27
<1>31. \A r \in P \ visible : \A s \in visible : r.made < s.made
  BY <1>19
<1>32. QED
  BY <1>1, <1>15, <1>24, <1>26, <1>28, <1>29, <1>30, <1>31 DEF Shelf!HandoffIsOpen

-----------------------------------------------------------------------------
(* Of Surroundings.                                                          *)

\* Whatever runs there are, a new run is told the best that fits of those that are public, nobody's share of an excerpt
\* is taken for another's sake, and what is handed on of an earlier ledger is public and fits (memory.select, _excerpt,
\* ledgers.handoff).
THEOREM MemoryStaysBounded == PartsSpec => []MemoryIsBounded
<1> DEFINE Held == part = "memory" => input \in AnyMemory
<1>1. PartsInit => Held
  BY DEF PartsInit, Input
<1>2. Held /\ [PartsNext]_partsVars => Held'
  <2> SUFFICES ASSUME Held, [PartsNext]_partsVars PROVE Held'
    OBVIOUS
  <2>1. UNCHANGED <<part, input>>
    BY DEF PartsNext, RosterNext, LauncherNext, LedgerNext, QuotaNext, ServerNext, CallNext, PagesNext, partsVars
  <2> QED
    BY <2>1
<1>3. Held => MemoryIsBounded
  <2> SUFFICES ASSUME part = "memory", input \in AnyMemory
               PROVE  IF "runs" \in DOMAIN input THEN Past!PackIsBest(input.runs, "t")
                      ELSE IF "sections" \in DOMAIN input THEN Past!ExcerptIsFair(input.sections)
                      ELSE Shelf!HandoffIsOpen(input.shelved, "t", SourceBytes)
    BY DEF MemoryIsBounded
  <2>1. /\ MaxRuns \in Nat /\ MaxPack \in Nat /\ Candidates \in Nat
        /\ HandoffBytes \in Nat /\ AnswerBytes \in Nat /\ HeadBytes \in Nat /\ SourceBytes \in Nat
        /\ HeadBytes + HandoffBytes + Shelf!Gap <= SourceBytes
        /\ Budgets \in Seq(Nat) /\ Preferred \in Seq(1..Len(Budgets))
        /\ \A k \in 1..Len(Budgets) : \E i \in 1..Len(Preferred) : Preferred[i] = k
    BY InputsAllowed DEF MemoriesAllowed
  <2>2. IF "runs" \in DOMAIN input THEN ToldApart(input.runs)
        ELSE IF "sections" \in DOMAIN input
        THEN input.sections \in Seq(Seq(Nat)) /\ Len(input.sections) = Len(Budgets)
        ELSE ShelvedApart(input.shelved)
    BY InputsAllowed, Zenon DEF MemoriesAllowed, ToldApart, ShelvedApart
  <2>3. CASE "runs" \in DOMAIN input
    BY <2>1, <2>2, <2>3, PacksStayBest
  <2>4. CASE "runs" \notin DOMAIN input /\ "sections" \in DOMAIN input
    BY <2>1, <2>2, <2>4, ExcerptsStayFair
  <2>5. CASE "runs" \notin DOMAIN input /\ "sections" \notin DOMAIN input
    BY <2>1, <2>2, <2>5, HandoffsStayOpen
  <2> QED
    BY <2>3, <2>4, <2>5
<1> HIDE DEF Held
<1> QED
  BY <1>1, <1>2, <1>3, PTL DEF PartsSpec

=============================================================================
