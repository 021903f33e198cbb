----------------------------- MODULE ContentsProofs -----------------------------
(***************************************************************************)
(* Theorems about the parts of Surroundings that compute something from what   *)
(* they are given, for any input.                                           *)
(***************************************************************************)
EXTENDS Surroundings, Recursion

-----------------------------------------------------------------------------
(* The box of a participant.                                                 *)

\* What a path lies in, name by name.
LEMMA WithinIs ==
  ASSUME NEW Names, NEW x \in Seq(Names), NEW y \in Seq(Names)
  PROVE  Box!Within(y, x) <=> Len(x) <= Len(y) /\ \A i \in 1..Len(x) : x[i] = y[i]
BY DEF Box!Within, Box!IsPrefix

\* Of two folders above the same path one lies within the other.
LEMMA FoldersNest ==
  ASSUME NEW Names, NEW h \in Seq(Names), NEW p \in Seq(Names), NEW q \in Seq(Names), Box!Within(h, p), Box!Within(h, q)
  PROVE  Box!Within(p, q) \/ Box!Within(q, p)
BY WithinIs

\* A sequence is its beginning and the rest.
LEMMA RestOf ==
  ASSUME NEW Names, NEW h \in Seq(Names), NEW p \in Seq(Names), Len(p) <= Len(h), \A i \in 1..Len(p) : p[i] = h[i]
  PROVE  p \o SubSeq(h, Len(p) + 1, Len(h)) = h
<1>1. PICK l \in Nat, b \in Nat : l = Len(p) /\ b = Len(h) /\ l <= b
  OBVIOUS
<1>2. PICK a \in Int : a = l + 1
  BY <1>1
<1>3. \A i \in a..b : h[i] \in Names
  BY <1>1, <1>2
<1>4. /\ SubSeq(h, a, b) \in Seq(Names) /\ Len(SubSeq(h, a, b)) = IF a <= b THEN b - a + 1 ELSE 0
      /\ \A i \in 1..b - a + 1 : SubSeq(h, a, b)[i] = h[a + i - 1]
  <2>1. b \in Int
    BY <1>1
  <2>2. QED
    BY <1>3, <2>1, SubSeqProperties
<1>5. PICK t : t = SubSeq(h, a, b)
  OBVIOUS
<1>6. t \in Seq(Names) /\ Len(t) = b - l
  BY <1>1, <1>2, <1>4, <1>5
<1>7. ASSUME NEW i \in 1..(b - l) PROVE t[i] = h[l + i]
  <2>1. i \in 1..b - a + 1 /\ a + i - 1 = l + i
    BY <1>1, <1>2
  <2>2. t[i] = h[a + i - 1]
    BY <1>4, <1>5, <2>1
  <2>3. QED
    BY <2>1, <2>2
<1>8. /\ p \o t \in Seq(Names) /\ Len(p \o t) = b
      /\ \A i \in 1..b : (p \o t)[i] = IF i <= l THEN p[i] ELSE t[i - l]
  <2>1. /\ p \o t \in Seq(Names) /\ Len(p \o t) = Len(p) + Len(t)
        /\ \A i \in 1 .. Len(p) + Len(t) : (p \o t)[i] = IF i <= Len(p) THEN p[i] ELSE t[i - Len(p)]
    BY <1>6, ConcatProperties
  <2>2. Len(p) + Len(t) = b
    BY <1>1, <1>6
  <2>3. QED
    BY <1>1, <2>1, <2>2
<1>9. ASSUME NEW i \in 1..b PROVE (p \o t)[i] = h[i]
  <2>1. CASE i <= l
    BY <1>1, <1>8, <2>1
  <2>2. CASE ~(i <= l)
    <3>1. i - l \in 1..(b - l) /\ l + (i - l) = i
      BY <1>1, <2>2
    <3>2. t[i - l] = h[i]
      BY <1>7, <3>1
    <3>3. QED
      BY <1>8, <2>2, <3>2
  <2>3. QED
    BY <2>1, <2>2
<1>10. p \o t = h
  BY <1>1, <1>8, <1>9, SeqEqual
<1>11. QED
  BY <1>1, <1>2, <1>5, <1>10

\* A connection under its own name keeps the names of what lies in it.
LEMMA OwnName ==
  ASSUME NEW Names, NEW h \in Seq(Names), NEW m, m.path = m.host, m.host \in Seq(Names), Box!Within(h, m.host)
  PROVE  Box!NameIn(m, h) = h
<1>1. Len(m.host) <= Len(h) /\ \A i \in 1..Len(m.host) : m.host[i] = h[i]
  BY WithinIs
<1>2. QED
  BY <1>1, RestOf DEF Box!NameIn

\* The paths of a list of connections.
ArePaths(mounts, Names) == \A i \in 1..Len(mounts) : mounts[i].host \in Seq(Names) /\ mounts[i].path \in Seq(Names)

(* Through any connections that _validate_mounts has let pass nothing of a     *)
(* sealed path is seen, by whatever name (isolation._validate_mounts 170-188;  *)
(* the first part of Sealed, which the runs check).                          *)
THEOREM SealedStaysUnseen ==
  ASSUME NEW Names, NEW mounts, ArePaths(mounts, Names), NEW never \in SUBSET Seq(Names), Box!ValidMounts(mounts, never),
         NEW h \in Seq(Names), Box!Shows(mounts, h) # {}
  PROVE  \A n \in never : ~Box!Within(h, n)
<1>1. PICK i \in 1..Len(mounts) : Box!Binds(mounts[i]) /\ Box!Within(h, mounts[i].host)
  BY DEF Box!Shows
<1>2. \A n \in never : Box!Apart(mounts[i], n)
  BY <1>1 DEF Box!ValidMounts
<1>3. QED
  BY <1>1, <1>2, FoldersNest DEF Box!Apart, ArePaths

(* What can be written under its own name does not lie in a folder connected   *)
(* for reading, in whatever order the connections were made (isolation.        *)
(* _validate_mounts 170-188).                                                *)
THEOREM ReadOnlyStaysSo ==
  ASSUME NEW Names, NEW mounts, Len(mounts) \in Nat, ArePaths(mounts, Names), NEW never, Box!ValidMounts(mounts, never),
         NEW h \in Seq(Names), NEW i \in Box!Shows(mounts, h), mounts[i].mode = "rw", mounts[i].path = mounts[i].host,
         NEW j \in 1..Len(mounts), mounts[j].mode = "ro", mounts[j].path = mounts[j].host
  PROVE  ~Box!Within(h, mounts[j].host)
<1>1. i \in 1..Len(mounts) /\ Box!Within(h, mounts[i].host) /\ \A k \in (i + 1)..Len(mounts) : ~Box!Within(h, mounts[k].path)
  BY OwnName DEF Box!Shows, ArePaths
<1>2. CASE i < j
  BY <1>1, <1>2
<1>3. CASE j < i
  <2>1. j \in 1..(i - 1)
    BY <1>1, <1>3
  <2>2. ~Box!Covers(mounts[i], mounts[j]) /\ ~Box!Broadens(mounts[i], mounts[j])
    BY <1>1, <2>1 DEF Box!ValidMounts
  <2>3. ~Box!Within(mounts[j].path, mounts[i].path) /\ ~Box!Within(mounts[i].path, mounts[j].path)
    BY <2>2 DEF Box!Covers, Box!Broadens
  <2>4. QED
    BY <1>1, <2>3, FoldersNest DEF ArePaths
<1>4. CASE i = j
  BY <1>4
<1>5. QED
  BY <1>1, <1>2, <1>3, <1>4

-----------------------------------------------------------------------------
(* All that is promised of a box.                                            *)

\* The names of the paths the box itself is made of.
BoxNames ==
  {"home", "u", ".claude", ".codex", "release", "data", "work", "ledger", "inputs", "usr", "bin", "etc", "tmp", "mnt",
   "resolv", "opt", "codex", "f", "claude", "w", "proc", "dev", "x"}

\* A box of any folders.
BoxOf(box, Names) ==
  /\ box.work \in Seq(Names) /\ box.home \in Seq(Names)
  /\ box.ro \in SUBSET Seq(Names) /\ IsFiniteSet(box.ro) /\ box.rw \in SUBSET Seq(Names) /\ IsFiniteSet(box.rw)
  /\ box.never \in SUBSET Seq(Names) /\ box.at \in SUBSET (Seq(Names) \X Seq(Names)) /\ IsFiniteSet(box.at)

\* A connection of any folders.
MountOf(P) == [path : P, mode : {"ro", "rw", "proc", "dev", "tmpfs"}, host : P]

LEMMA SameCount == \A S : Box!Cardinality(S) = Cardinality(S)
BY DEF Box!Cardinality, Cardinality

\* The elements of lists that are joined.
LEMMA JoinHas ==
  ASSUME NEW T, NEW a \in Seq(T), NEW b \in Seq(T)
  PROVE  /\ a \o b \in Seq(T) /\ DOMAIN (a \o b) = 1..Len(a \o b)
         /\ Range(a \o b) = Range(a) \union Range(b)
<1>1. PICK m \in Nat, n \in Nat : m = Len(a) /\ n = Len(b)
  OBVIOUS
<1>2. PICK c : c = a \o b
  OBVIOUS
<1>3. /\ c \in Seq(T) /\ Len(c) = m + n /\ (\A i \in 1..m : c[i] = a[i]) /\ (\A i \in 1..n : c[m + i] = b[i])
  <2>1. /\ a \o b \in Seq(T) /\ Len(a \o b) = m + n
        /\ \A i \in 1..(m + n) : (a \o b)[i] = IF i <= m THEN a[i] ELSE b[i - m]
    BY <1>1, ConcatProperties
  <2>2. c \in Seq(T) /\ Len(c) = m + n /\ \A i \in 1..(m + n) : c[i] = IF i <= m THEN a[i] ELSE b[i - m]
    BY <1>2, <2>1
  <2>3. ASSUME NEW i \in 1..m PROVE c[i] = a[i]
    <3>1. i \in 1..(m + n) /\ i <= m
      OBVIOUS
    <3>2. QED
      BY <2>2, <3>1
  <2>4. ASSUME NEW i \in 1..n PROVE c[m + i] = b[i]
    <3>1. m + i \in 1..(m + n) /\ ~(m + i <= m) /\ (m + i) - m = i
      OBVIOUS
    <3>2. PICK q : q = m + i
      OBVIOUS
    <3>3. q \in 1..(m + n) /\ ~(q <= m) /\ q - m = i
      BY <3>1, <3>2
    <3>4. QED
      BY <2>2, <3>2, <3>3
  <2>5. QED
    BY <2>2, <2>3, <2>4
<1>4. DOMAIN a = 1..m /\ DOMAIN b = 1..n /\ DOMAIN c = 1..(m + n)
  BY <1>1, <1>3
<1>5. ASSUME NEW i \in 1..(m + n) PROVE i \in 1..m \/ (i - m \in 1..n /\ m + (i - m) = i)
  OBVIOUS
<1>6. ASSUME NEW x \in Range(c) PROVE x \in Range(a) \union Range(b)
  <2>1. PICK i \in 1..(m + n) : c[i] = x
    BY <1>4 DEF Range
  <2>2. CASE i \in 1..m
    BY <1>3, <1>4, <2>1, <2>2 DEF Range
  <2>3. CASE i - m \in 1..n /\ m + (i - m) = i
    <3>1. c[i] = b[i - m]
      BY <1>3, <2>3
    <3>2. QED
      BY <1>4, <2>1, <2>3, <3>1 DEF Range
  <2>4. QED
    BY <1>5, <2>2, <2>3
<1>7. \A i \in 1..m : i \in 1..(m + n)
  OBVIOUS
<1>8. \A i \in 1..n : m + i \in 1..(m + n)
  OBVIOUS
<1>9. Range(a) \subseteq Range(c)
  BY <1>3, <1>4, <1>7 DEF Range
<1>10. Range(b) \subseteq Range(c)
  BY <1>3, <1>4, <1>8 DEF Range
<1>11. QED
  BY <1>1, <1>2, <1>3, <1>4, <1>6, <1>9, <1>10

\* A connection may be made after another.
Follows(m, previous) == ~Box!Covers(m, previous) /\ ~Box!Broadens(m, previous) /\ ~Box!Misplaced(m, previous)

Ordered(mounts) == \A i \in 1..Len(mounts) : \A j \in 1..(i - 1) : Follows(mounts[i], mounts[j])

\* The folders of one mode are connected, each under its own name, the outer ones first, and nothing else.
LEMMA ByDepthHas ==
  ASSUME NEW Names, NEW paths \in SUBSET Seq(Names), IsFiniteSet(paths), NEW mode \in {"ro", "rw"}
  PROVE  /\ Box!ByDepth(paths, mode) \in Seq(MountOf(Seq(Names)))
         /\ Range(Box!ByDepth(paths, mode)) = {Box!Mount(p, mode) : p \in paths}
         /\ Ordered(Box!ByDepth(paths, mode))
<1>1. PICK n \in Nat : n = Cardinality(paths)
  BY FS_CardinalityType
<1>2. PICK s : /\ s = Box!InOrder(paths) /\ s \in [1..n -> paths]
               /\ \A i, j \in 1..n : i # j => s[i] # s[j]
               /\ \A i, j \in 1..n : i < j => Len(s[i]) <= Len(s[j])
  <2> DEFINE depth == [p \in paths |-> Len(p)]
  <2>1. depth \in [paths -> Nat]
    <3>1. \A p \in paths : Len(p) \in Nat
      OBVIOUS
    <3>2. QED
      BY <3>1
  <2>2. PICK r : Lists(r, paths, n, depth)
    BY <1>1, <2>1, ListExists
  <2>3. /\ r \in [1..n -> paths] /\ DOMAIN r = 1..n
        /\ \A i, j \in 1..n : i # j => r[i] # r[j]
        /\ \A i, j \in 1..n : i < j => Len(r[i]) <= Len(r[j])
    <3>1. /\ r \in [1..n -> paths] /\ \A i, j \in 1..n : i # j => r[i] # r[j]
          /\ \A i, j \in 1..n : i < j => depth[r[i]] <= depth[r[j]]
      BY <2>2 DEF Lists
    <3>2. \A i \in 1..n : depth[r[i]] = Len(r[i])
      BY <3>1
    <3>3. QED
      BY <3>1, <3>2
  <2>4. Box!SetToSeqs(paths) = {f \in [1..n -> paths] : \A i, j \in 1..n : i # j => f[i] # f[j]}
    BY <1>1, SameCount DEF Box!SetToSeqs
  <2>5. r \in Box!SetToSeqs(paths)
    BY <2>3, <2>4
  <2>6. /\ Box!InOrder(paths) \in Box!SetToSeqs(paths)
        /\ \A i, j \in DOMAIN Box!InOrder(paths) : i < j => Len(Box!InOrder(paths)[i]) <= Len(Box!InOrder(paths)[j])
    <3>1. \E q \in Box!SetToSeqs(paths) : \A i, j \in DOMAIN q : i < j => Len(q[i]) <= Len(q[j])
      BY <2>3, <2>5
    <3>2. QED
      BY <3>1 DEF Box!InOrder
  <2>7. QED
    BY <2>4, <2>6
<1>3. s \in Seq(paths) /\ Len(s) = n /\ \A p \in paths : \E i \in 1..n : s[i] = p
  BY <1>1, <1>2, ListsAll
<1>4. PICK b : b = Box!ByDepth(paths, mode)
  OBVIOUS
<1>5. b = [i \in 1..n |-> Box!Mount(s[i], mode)]
  BY <1>2, <1>3, <1>4 DEF Box!ByDepth
<1>6. PICK M : M = MountOf(Seq(Names))
  OBVIOUS
<1>7. \A p \in paths : Box!Mount(p, mode) \in M
  BY <1>6 DEF Box!Mount, MountOf
<1>8. \A i \in 1..n : s[i] \in paths
  BY <1>2
<1>9. b \in Seq(M)
  BY <1>5, <1>7, <1>8
<1>10. Range(b) = {Box!Mount(p, mode) : p \in paths}
  BY <1>3, <1>5, <1>8 DEF Range
<1>11. Ordered(b)
  <2>1. Len(b) = n
    BY <1>5, <1>9
  <2>2. ASSUME NEW i \in 1..n, NEW j \in 1..(i - 1) PROVE Follows(b[i], b[j])
    <3>1. j \in 1..n /\ j < i /\ i # j
      OBVIOUS
    <3>2. s[i] \in Seq(Names) /\ s[j] \in Seq(Names) /\ s[i] # s[j] /\ Len(s[j]) <= Len(s[i])
      BY <1>2, <1>8, <3>1
    <3>3. ~Box!Within(s[j], s[i])
      <4>1. PICK p \in Seq(Names), q \in Seq(Names) : p = s[i] /\ q = s[j]
        BY <3>2
      <4>2. ASSUME Box!Within(q, p) PROVE FALSE
        <5>1. Len(p) <= Len(q) /\ \A k \in 1..Len(p) : p[k] = q[k]
          BY <4>2, WithinIs
        <5>2. Len(p) = Len(q)
          BY <3>2, <4>1, <5>1
        <5>3. p = q
          BY <5>1, <5>2, SeqEqual
        <5>4. QED
          BY <3>2, <4>1, <5>3
      <4>3. QED
        BY <4>1, <4>2
    <3>4. b[i] = Box!Mount(s[i], mode) /\ b[j] = Box!Mount(s[j], mode)
      BY <1>5, <3>1
    <3>5. /\ b[i].path = s[i] /\ b[i].host = s[i] /\ b[i].mode = mode
          /\ b[j].path = s[j] /\ b[j].mode = mode
      BY <3>4 DEF Box!Mount
    <3>6. QED
      BY <3>3, <3>5 DEF Follows, Box!Covers, Box!Broadens, Box!Misplaced
  <2>3. QED
    BY <2>1, <2>2 DEF Ordered
<1>12. QED
  BY <1>4, <1>6, <1>9, <1>10, <1>11

\* The folders connected under other names, and nothing else.
LEMMA ElsewhereHas ==
  ASSUME NEW Names, NEW at \in SUBSET (Seq(Names) \X Seq(Names)), IsFiniteSet(at)
  PROVE  /\ Box!Elsewhere(at) \in Seq(MountOf(Seq(Names)))
         /\ Range(Box!Elsewhere(at)) = {Box!MountAt(a) : a \in at}
<1>1. PICK n \in Nat : n = Cardinality(at)
  BY FS_CardinalityType
<1>2. PICK s : s = Box!SetToSeq(at) /\ s \in [1..n -> at] /\ \A i, j \in 1..n : i # j => s[i] # s[j]
  <2>1. \A f : f \in [1..n -> at] => (Box!IsInjective(f) <=> \A i, j \in 1..n : i # j => f[i] # f[j])
    BY DEF Box!IsInjective
  <2>2. PICK r : Lists(r, at, n, [a \in at |-> 0])
    BY <1>1, ListExists
  <2>3. r \in [1..n -> at] /\ Box!IsInjective(r)
    BY <2>1, <2>2 DEF Lists
  <2>4. Box!SetToSeq(at) = CHOOSE f \in [1..n -> at] : Box!IsInjective(f)
    BY <1>1, SameCount DEF Box!SetToSeq
  <2>5. Box!SetToSeq(at) \in [1..n -> at] /\ Box!IsInjective(Box!SetToSeq(at))
    BY <2>3, <2>4
  <2>6. QED
    BY <2>1, <2>5
<1>3. s \in Seq(at) /\ Len(s) = n /\ \A a \in at : \E i \in 1..n : s[i] = a
  BY <1>1, <1>2, ListsAll
<1>4. PICK P : P = Seq(Names)
  OBVIOUS
<1>5. PICK b : b = Box!Elsewhere(at)
  OBVIOUS
<1>6. b = [i \in 1..n |-> Box!MountAt(s[i])]
  BY <1>2, <1>3, <1>5 DEF Box!Elsewhere
<1>7. \A i \in 1..n : s[i] \in at /\ s[i][1] \in P /\ s[i][2] \in P
  BY <1>2, <1>4
<1>8. b \in Seq(MountOf(P))
  <2>1. \A i \in 1..n : Box!MountAt(s[i]) \in MountOf(P)
    BY <1>7 DEF MountOf, Box!MountAt
  <2>2. QED
    BY <1>6, <2>1
<1>9. Range(b) = {Box!MountAt(a) : a \in at}
  BY <1>3, <1>6, <1>7 DEF Range
<1>10. QED
  BY <1>4, <1>5, <1>8, <1>9

\* The connections of the system itself.
Given(host) ==
  {Box!Mount(Box!Usr, "ro"), Box!Mount(Box!Etc, "ro")} \union (IF host.merged THEN {} ELSE {Box!Mount(Box!Bin, "ro")})

Extra(host) == IF host.away THEN {Box!Mount(Box!Resolv, "ro")} ELSE {}

Virtual(home) ==
  {Box!Mount(<<"proc">>, "proc"), Box!Mount(<<"dev">>, "dev"), Box!Mount(Box!Tmp, "tmpfs"), Box!Mount(home, "tmpfs")}

\* All the connections that are asked for.
LEMMA PlanHas ==
  ASSUME NEW Names, BoxNames \subseteq Names, NEW box, BoxOf(box, Names)
  PROVE  /\ Box!MountPlan(box) \in Seq(MountOf(Seq(Names)))
         /\ Range(Box!MountPlan(box)) =
              Given(box.host) \union Virtual(box.home) \union Extra(box.host)
                \union {Box!MountAt(a) : a \in box.at}
                \union {Box!Mount(p, "rw") : p \in box.rw} \union {Box!Mount(p, "ro") : p \in box.ro}
                \union {Box!Mount(box.work, "rw")}
         /\ Range(Box!System(box.host) \o Box!Network(box.host)) = Given(box.host) \union Extra(box.host)
<1>1. PICK P : P = Seq(Names)
  OBVIOUS
<1>2. PICK M : M = MountOf(P)
  OBVIOUS
<1>3. \A p \in P, mode \in {"ro", "rw", "proc", "dev", "tmpfs"} : Box!Mount(p, mode) \in M
  BY <1>2 DEF Box!Mount, MountOf
<1>4. /\ Box!Usr \in P /\ Box!Etc \in P /\ Box!Bin \in P /\ Box!Tmp \in P /\ <<"proc">> \in P /\ <<"dev">> \in P
      /\ Box!Resolv \in P
  BY <1>1 DEF Box!Usr, Box!Etc, Box!Bin, Box!Tmp, Box!Resolv, BoxNames
<1>5. box.home \in P /\ box.work \in P
  BY <1>1 DEF BoxOf
<1>6. Box!System(box.host) \in Seq(M) /\ Range(Box!System(box.host)) = Given(box.host)
  <2>1. PICK a \in M, b \in M, c \in M : a = Box!Mount(Box!Usr, "ro") /\ b = Box!Mount(Box!Etc, "ro") /\ c = Box!Mount(Box!Bin, "ro")
    BY <1>3, <1>4
  <2>2. /\ <<a, b>> \in Seq(M) /\ Range(<<a, b>>) = {a, b}
        /\ <<c>> \in Seq(M) /\ Range(<<c>>) = {c}
        /\ <<>> \in Seq(M) /\ Range(<<>>) = {}
    <3>1. <<a, b>> \in Seq(M) /\ Range(<<a, b>>) = {a, b}
      BY DEF Range
    <3>2. <<c>> \in Seq(M) /\ Range(<<c>>) = {c}
      BY DEF Range
    <3>3. <<>> \in Seq(M) /\ Range(<<>>) = {}
      BY DEF Range
    <3>4. QED
      BY <3>1, <3>2, <3>3
  <2>3. /\ <<a, b>> \o <<c>> \in Seq(M) /\ Range(<<a, b>> \o <<c>>) = {a, b} \union {c}
        /\ <<a, b>> \o <<>> \in Seq(M) /\ Range(<<a, b>> \o <<>>) = {a, b} \union {}
    <3>1. PICK x \in Seq(M), y \in Seq(M), z \in Seq(M) : x = <<a, b>> /\ y = <<c>> /\ z = <<>>
      BY <2>2
    <3>2. x \o y \in Seq(M) /\ Range(x \o y) = Range(x) \union Range(y)
      BY JoinHas
    <3>3. x \o z \in Seq(M) /\ Range(x \o z) = Range(x) \union Range(z)
      BY JoinHas
    <3>4. QED
      BY <2>2, <3>1, <3>2, <3>3
  <2>4. QED
    BY <2>1, <2>3 DEF Box!System, Given
<1>7. Box!Network(box.host) \in Seq(M) /\ Range(Box!Network(box.host)) = Extra(box.host)
  <2>1. PICK a \in M : a = Box!Mount(Box!Resolv, "ro")
    BY <1>3, <1>4
  <2>2. <<a>> \in Seq(M) /\ Range(<<a>>) = {a} /\ <<>> \in Seq(M) /\ Range(<<>>) = {}
    BY DEF Range
  <2>3. QED
    BY <2>1, <2>2 DEF Box!Network, Extra
<1>8. PICK v \in Seq(M) :
        /\ v = <<Box!Mount(<<"proc">>, "proc"), Box!Mount(<<"dev">>, "dev"), Box!Mount(Box!Tmp, "tmpfs"), Box!Mount(box.home, "tmpfs")>>
        /\ Range(v) = Virtual(box.home)
  <2>1. PICK a \in M, b \in M, c \in M, d \in M :
          /\ a = Box!Mount(<<"proc">>, "proc") /\ b = Box!Mount(<<"dev">>, "dev")
          /\ c = Box!Mount(Box!Tmp, "tmpfs") /\ d = Box!Mount(box.home, "tmpfs")
    BY <1>3, <1>4, <1>5
  <2>2. <<a, b, c, d>> \in Seq(M) /\ Range(<<a, b, c, d>>) = {a, b, c, d}
    BY DEF Range
  <2>3. QED
    BY <2>1, <2>2 DEF Virtual
<1>9. PICK w \in Seq(M) : w = <<Box!Mount(box.work, "rw")>> /\ Range(w) = {Box!Mount(box.work, "rw")}
  <2>1. PICK a \in M : a = Box!Mount(box.work, "rw")
    BY <1>3, <1>5
  <2>2. <<a>> \in Seq(M) /\ Range(<<a>>) = {a}
    BY DEF Range
  <2>3. QED
    BY <2>1, <2>2
<1>10. PICK e \in Seq(M) : e = Box!Elsewhere(box.at) /\ Range(e) = {Box!MountAt(a) : a \in box.at}
  BY <1>1, <1>2, ElsewhereHas DEF BoxOf
<1>11. PICK r \in Seq(M) : r = Box!ByDepth(box.rw, "rw") /\ Range(r) = {Box!Mount(p, "rw") : p \in box.rw}
  BY <1>1, <1>2, ByDepthHas DEF BoxOf
<1>12. PICK o \in Seq(M) : o = Box!ByDepth(box.ro, "ro") /\ Range(o) = {Box!Mount(p, "ro") : p \in box.ro}
  BY <1>1, <1>2, ByDepthHas DEF BoxOf
<1>13. PICK s \in Seq(M), n \in Seq(M) : /\ s = Box!System(box.host) /\ Range(s) = Given(box.host)
                                          /\ n = Box!Network(box.host) /\ Range(n) = Extra(box.host)
  BY <1>6, <1>7
<1>14. Box!MountPlan(box) = s \o v \o n \o e \o r \o o \o w
  BY <1>8, <1>9, <1>10, <1>11, <1>12, <1>13 DEF Box!MountPlan
<1>15. PICK p1 \in Seq(M) : p1 = s \o v /\ Range(p1) = Range(s) \union Range(v)
  BY JoinHas, ZenonT(60)
<1>16. PICK p2 \in Seq(M) : p2 = p1 \o n /\ Range(p2) = Range(p1) \union Range(n)
  BY JoinHas, ZenonT(60)
<1>17. PICK p3 \in Seq(M) : p3 = p2 \o e /\ Range(p3) = Range(p2) \union Range(e)
  BY JoinHas, ZenonT(60)
<1>18. PICK p4 \in Seq(M) : p4 = p3 \o r /\ Range(p4) = Range(p3) \union Range(r)
  BY JoinHas, ZenonT(60)
<1>19. PICK p5 \in Seq(M) : p5 = p4 \o o /\ Range(p5) = Range(p4) \union Range(o)
  BY JoinHas, ZenonT(60)
<1>20. PICK p6 \in Seq(M) : p6 = p5 \o w /\ Range(p6) = Range(p5) \union Range(w)
  BY JoinHas, ZenonT(60)
<1>21. Range(s \o n) = Given(box.host) \union Extra(box.host)
  BY <1>13, JoinHas
<1>22. Box!MountPlan(box) = p6
  BY <1>14, <1>15, <1>16, <1>17, <1>18, <1>19, <1>20
<1>23. Range(p6) = Range(s) \union Range(v) \union Range(n) \union Range(e) \union Range(r) \union Range(o) \union Range(w)
  BY <1>15, <1>16, <1>17, <1>18, <1>19, <1>20
<1>24. QED
  BY <1>1, <1>2, <1>8, <1>9, <1>10, <1>11, <1>12, <1>13, <1>20, <1>21, <1>22, <1>23

\* The paths the requests are made of.
LEMMA PathsAreNamed ==
  ASSUME NEW Names, BoxNames \subseteq Names
  PROVE  /\ Box!Home \in Seq(Names) /\ Box!Claude \in Seq(Names) /\ Box!Codex \in Seq(Names) /\ Box!Release \in Seq(Names)
         /\ Box!Work \in Seq(Names) /\ Box!Ledger \in Seq(Names) /\ Box!Inputs \in Seq(Names)
         /\ Box!Usr \in Seq(Names) /\ Box!Bin \in Seq(Names) /\ Box!Etc \in Seq(Names) /\ Box!Tmp \in Seq(Names)
         /\ Box!Resolv \in Seq(Names) /\ Box!Opt \in Seq(Names)
         /\ Box!HostPath \subseteq Seq(Names)
<1>1. \A n \in BoxNames : n \in Names /\ <<n>> \in Seq(Names)
  OBVIOUS
<1>2. /\ Box!Home \in Seq(Names) /\ Box!Work \in Seq(Names) /\ Box!Ledger \in Seq(Names) /\ Box!Inputs \in Seq(Names)
      /\ Box!Usr \in Seq(Names) /\ Box!Bin \in Seq(Names) /\ Box!Etc \in Seq(Names) /\ Box!Tmp \in Seq(Names)
      /\ Box!Resolv \in Seq(Names) /\ Box!Opt \in Seq(Names)
  BY <1>1 DEF BoxNames, Box!Home, Box!Work, Box!Ledger, Box!Inputs, Box!Usr, Box!Bin, Box!Etc, Box!Tmp, Box!Resolv, Box!Opt
<1>3. \A a \in Seq(Names), b \in Seq(Names) : a \o b \in Seq(Names)
  OBVIOUS
<1>4. <<".claude">> \in Seq(Names) /\ <<".codex">> \in Seq(Names) /\ <<"release">> \in Seq(Names) /\ <<"f">> \in Seq(Names)
        /\ <<"bin">> \in Seq(Names) /\ <<"claude">> \in Seq(Names) /\ <<"w">> \in Seq(Names)
  BY <1>1 DEF BoxNames
<1>5. Box!Claude \in Seq(Names) /\ Box!Codex \in Seq(Names)
  BY <1>2, <1>3, <1>4 DEF Box!Claude, Box!Codex
<1>6. Box!Release \in Seq(Names)
  BY <1>3, <1>4, <1>5 DEF Box!Release
<1>7. ASSUME NEW s \in Seq(Names), s # <<>> PROVE Box!Front(s) \in Seq(Names)
  BY <1>7 DEF Box!Front
<1>8. Box!Front(Box!Home) \in Seq(Names) /\ Box!Front(Box!Work) \in Seq(Names) /\ Box!Front(Box!Resolv) \in Seq(Names)
  <2>1. Box!Home # <<>> /\ Box!Work # <<>> /\ Box!Resolv # <<>>
    BY DEF Box!Home, Box!Work, Box!Resolv
  <2>2. QED
    BY <1>2, <1>7, <2>1
<1>9. /\ Box!Inputs \o <<"f">> \in Seq(Names) /\ Box!Release \o <<"bin">> \in Seq(Names)
      /\ Box!Usr \o <<"claude">> \in Seq(Names) /\ Box!Tmp \o <<"w">> \in Seq(Names)
  BY <1>2, <1>3, <1>4, <1>6
<1>10. Box!HostPath \subseteq Seq(Names)
  BY <1>2, <1>5, <1>6, <1>8, <1>9 DEF Box!HostPath
<1>11. QED
  BY <1>2, <1>5, <1>6, <1>10

(* Whatever folders a box asks for: unless it is refused, nothing of a sealed  *)
(* path is seen, nothing is written but where it was asked for, everything      *)
(* asked for is seen, and of the host nothing else but the system (isolation.  *)
(* plan, _mount_plan, _validate_mounts).                                     *)
THEOREM BoxesStaySealed ==
  ASSUME NEW Names, BoxNames \subseteq Names, NEW box, BoxOf(box, Names)
  PROVE  Box!Sealed(box)
<1> DEFINE wanted == box.ro \union box.rw \union {box.work} \union {a[1] : a \in box.at}
<1> DEFINE system == {m.path : m \in Box!Range(Box!System(box.host) \o Box!Network(box.host))}
<1>1. PICK P : P = Seq(Names)
  OBVIOUS
<1>2. PICK M : M = Box!MountPlan(box)
  OBVIOUS
<1>3. /\ M \in Seq(MountOf(P))
      /\ Range(M) =
           Given(box.host) \union Virtual(box.home) \union Extra(box.host) \union {Box!MountAt(a) : a \in box.at}
             \union {Box!Mount(p, "rw") : p \in box.rw} \union {Box!Mount(p, "ro") : p \in box.ro}
             \union {Box!Mount(box.work, "rw")}
      /\ Range(Box!System(box.host) \o Box!Network(box.host)) = Given(box.host) \union Extra(box.host)
  BY <1>1, <1>2, PlanHas
<1>4. system = {m.path : m \in Given(box.host) \union Extra(box.host)}
  BY <1>3 DEF Box!Range, Range
<1>5. /\ box.work \in P /\ \A p \in box.rw \union box.ro \union box.never : p \in P
      /\ \A a \in box.at : a[1] \in P /\ a[2] \in P
  BY <1>1 DEF BoxOf
<1>6. /\ Len(M) \in Nat /\ \A i \in 1..Len(M) : M[i] \in Range(M) /\ M[i].path \in P /\ M[i].host \in P
      /\ \A m \in Range(M) : \E i \in 1..Len(M) : M[i] = m
  <2>1. Len(M) \in Nat /\ DOMAIN M = 1..Len(M) /\ \A i \in 1..Len(M) : M[i] \in MountOf(P)
    BY <1>3
  <2>2. QED
    BY <2>1 DEF Range, MountOf
<1>7. ASSUME NEW m \in Range(M), Box!Binds(m)
      PROVE  /\ m.host \in wanted \union system
             /\ m.mode = "rw" => m.host \in box.rw \union {box.work} /\ m.path = m.host
  <2>1. CASE m \in Given(box.host) \union Extra(box.host)
    <3>1. m.path \in system
      BY <1>4, <2>1
    <3>2. m.path = m.host /\ m.mode = "ro"
      BY <2>1 DEF Given, Extra, Box!Mount
    <3>3. QED
      BY <3>1, <3>2
  <2>2. CASE m \in Virtual(box.home)
    BY <1>7, <2>2 DEF Virtual, Box!Mount, Box!Binds
  <2>3. CASE m \in {Box!MountAt(a) : a \in box.at}
    <3>1. PICK a \in box.at : m = Box!MountAt(a)
      BY <2>3
    <3>2. m.host = a[1] /\ m.mode = "ro"
      BY <3>1 DEF Box!MountAt
    <3>3. QED
      BY <3>2
  <2>4. CASE m \in {Box!Mount(p, "rw") : p \in box.rw}
    <3>1. PICK p \in box.rw : m = Box!Mount(p, "rw")
      BY <2>4
    <3>2. QED
      BY <3>1 DEF Box!Mount
  <2>5. CASE m \in {Box!Mount(p, "ro") : p \in box.ro}
    <3>1. PICK p \in box.ro : m = Box!Mount(p, "ro")
      BY <2>5
    <3>2. QED
      BY <3>1 DEF Box!Mount
  <2>6. CASE m = Box!Mount(box.work, "rw")
    BY <2>6 DEF Box!Mount
  <2>7. QED
    BY <1>3, <2>1, <2>2, <2>3, <2>4, <2>5, <2>6
<1> SUFFICES ASSUME Box!Accepted(box)
             PROVE  /\ \A h \in Box!HostPath :
                         LET visible == Box!Shows(M, h)
                             written == \E i \in visible : M[i].mode = "rw"
                         IN /\ visible # {} => \A n \in box.never : ~Box!Within(h, n)
                            /\ visible # {} => \E p \in wanted \union system : Box!Within(h, p)
                            /\ written => /\ \E p \in box.rw \union {box.work} : Box!Within(h, p)
                                          /\ \A p \in box.ro : ~Box!Within(h, p)
                    /\ \A p \in wanted : Box!Shows(M, p) # {}
                    /\ \E i \in Box!Shows(M, box.work) : M[i].mode = "rw"
  BY <1>2 DEF Box!Sealed
<1>8. Box!ValidMounts(M, box.never)
  BY <1>2 DEF Box!Accepted
<1>9. ArePaths(M, Names)
  BY <1>1, <1>6 DEF ArePaths
<1> HIDE DEF wanted, system
<1>10. ASSUME NEW h \in Box!HostPath
       PROVE  /\ Box!Shows(M, h) # {} => \A n \in box.never : ~Box!Within(h, n)
              /\ Box!Shows(M, h) # {} => \E p \in wanted \union system : Box!Within(h, p)
              /\ \A i \in Box!Shows(M, h) : M[i].mode = "rw" => /\ \E p \in box.rw \union {box.work} : Box!Within(h, p)
                                                               /\ \A p \in box.ro : ~Box!Within(h, p)
  <2>1. h \in Seq(Names) /\ box.never \in SUBSET Seq(Names)
    BY PathsAreNamed DEF BoxOf
  <2>2. ASSUME NEW i \in Box!Shows(M, h)
        PROVE  i \in 1..Len(M) /\ Box!Binds(M[i]) /\ Box!Within(h, M[i].host)
    BY <2>2 DEF Box!Shows
  <2>3. Box!Shows(M, h) # {} => \A n \in box.never : ~Box!Within(h, n)
    BY <1>8, <1>9, <2>1, SealedStaysUnseen
  <2>4. ASSUME NEW i \in Box!Shows(M, h)
        PROVE  /\ \E p \in wanted \union system : Box!Within(h, p)
               /\ M[i].mode = "rw" => \E p \in box.rw \union {box.work} : Box!Within(h, p)
    BY <1>6, <1>7, <2>2
  <2>5. ASSUME NEW i \in Box!Shows(M, h), M[i].mode = "rw", NEW p \in box.ro
        PROVE  ~Box!Within(h, p)
    <3>1. M[i].path = M[i].host
      BY <1>6, <1>7, <2>2, <2>5
    <3>2. Box!Mount(p, "ro") \in Range(M)
      BY <1>3
    <3>3. PICK j \in 1..Len(M) : M[j] = Box!Mount(p, "ro")
      BY <1>6, <3>2
    <3>4. M[j].mode = "ro" /\ M[j].path = M[j].host /\ M[j].host = p
      BY <3>3 DEF Box!Mount
    <3>5. QED
      BY <1>6, <1>8, <1>9, <2>1, <2>5, <3>1, <3>4, ReadOnlyStaysSo
  <2>6. QED
    BY <2>3, <2>4, <2>5
\* A connection is seen by its own name, for none that is made later covers it.
<1>11. ASSUME NEW i \in 1..Len(M), Box!Binds(M[i])
       PROVE  i \in Box!Shows(M, M[i].host)
  <2>1. PICK p \in P, q \in P : p = M[i].host /\ q = M[i].path
    BY <1>6
  <2>2. Box!Within(p, p)
    BY <1>1, WithinIs
  <2>3. Box!NameIn(M[i], p) = q
    <3>1. PICK l \in Nat : l = Len(p)
      BY <1>1
    <3>2. SubSeq(p, l + 1, l) = <<>>
      BY <1>1, <3>1
    <3>3. q \o <<>> = q
      BY <1>1
    <3>4. QED
      BY <2>1, <3>1, <3>2, <3>3 DEF Box!NameIn
  <2>4. ASSUME NEW j \in (i + 1)..Len(M) PROVE ~Box!Within(q, M[j].path)
    <3>1. j \in 1..Len(M) /\ i \in 1..(j - 1)
      BY <1>6
    <3>2. ~Box!Covers(M[j], M[i])
      BY <1>8, <3>1 DEF Box!ValidMounts
    <3>3. QED
      BY <2>1, <3>2 DEF Box!Covers
  <2>5. QED
    BY <1>11, <2>1, <2>2, <2>3, <2>4 DEF Box!Shows
<1>12. ASSUME NEW p \in wanted PROVE Box!Shows(M, p) # {}
  <2>1. \E m \in Range(M) : m.host = p /\ Box!Binds(m)
    <3>1. CASE p \in box.ro
      <4>1. Box!Mount(p, "ro") \in Range(M)
        BY <1>3, <3>1
      <4>2. Box!Mount(p, "ro").host = p /\ Box!Binds(Box!Mount(p, "ro"))
        BY DEF Box!Mount, Box!Binds
      <4>3. QED
        BY <4>1, <4>2
    <3>2. CASE p \in box.rw \union {box.work}
      <4>1. Box!Mount(p, "rw") \in Range(M)
        BY <1>3, <3>2
      <4>2. Box!Mount(p, "rw").host = p /\ Box!Binds(Box!Mount(p, "rw"))
        BY DEF Box!Mount, Box!Binds
      <4>3. QED
        BY <4>1, <4>2
    <3>3. CASE p \in {a[1] : a \in box.at}
      <4>1. PICK a \in box.at : p = a[1]
        BY <3>3
      <4>2. Box!MountAt(a) \in Range(M)
        BY <1>3
      <4>3. Box!MountAt(a).host = p /\ Box!Binds(Box!MountAt(a))
        BY <4>1 DEF Box!MountAt, Box!Binds
      <4>4. QED
        BY <4>2, <4>3
    <3>4. QED
      BY <1>12, <3>1, <3>2, <3>3 DEF wanted
  <2>2. PICK m \in Range(M) : m.host = p /\ Box!Binds(m)
    BY <2>1
  <2>3. PICK i \in 1..Len(M) : M[i] = m
    BY <1>6
  <2>4. QED
    BY <1>11, <2>2, <2>3
<1>13. \E i \in Box!Shows(M, box.work) : M[i].mode = "rw"
  <2>1. Box!Mount(box.work, "rw") \in Range(M)
    BY <1>3
  <2>2. PICK i \in 1..Len(M) : M[i] = Box!Mount(box.work, "rw")
    BY <1>6, <2>1
  <2>3. M[i].host = box.work /\ M[i].mode = "rw" /\ Box!Binds(M[i])
    BY <2>2 DEF Box!Mount, Box!Binds
  <2>4. QED
    BY <1>11, <2>3
<1>14. QED
  BY <1>10, <1>12, <1>13

\* Connections in order, and then others that may follow each of them.
LEMMA OrderedJoin ==
  ASSUME NEW T, NEW a \in Seq(T), NEW b \in Seq(T), Ordered(a), Ordered(b),
         \A m \in Range(b), n \in Range(a) : Follows(m, n)
  PROVE  Ordered(a \o b)
<1>1. PICK l \in Nat, k \in Nat : l = Len(a) /\ k = Len(b)
  OBVIOUS
<1>2. DOMAIN a = 1..l /\ DOMAIN b = 1..k
  BY <1>1
<1>3. PICK c : c = a \o b
  OBVIOUS
<1>4. Len(c) = l + k /\ \A i \in 1..(l + k) : c[i] = IF i <= l THEN a[i] ELSE b[i - l]
  <2>1. /\ Len(a \o b) = Len(a) + Len(b)
        /\ \A i \in 1..(Len(a) + Len(b)) : (a \o b)[i] = IF i <= Len(a) THEN a[i] ELSE b[i - Len(a)]
    BY ConcatProperties
  <2>2. QED
    BY <1>1, <1>3, <2>1
<1>5. ASSUME NEW i \in 1..(l + k), NEW j \in 1..(i - 1) PROVE Follows(c[i], c[j])
  <2>1. CASE i <= l
    <3>1. i \in 1..l /\ j \in 1..(l + k) /\ j <= l
      BY <2>1
    <3>2. c[i] = a[i] /\ c[j] = a[j]
      BY <1>4, <3>1
    <3>3. QED
      BY <1>1, <3>1, <3>2 DEF Ordered
  <2>2. CASE ~(i <= l) /\ j <= l
    <3>1. i - l \in 1..k /\ j \in 1..l /\ j \in 1..(l + k)
      BY <2>2
    <3>2. c[i] = b[i - l] /\ c[j] = a[j]
      BY <1>4, <2>2, <3>1
    <3>3. b[i - l] \in Range(b) /\ a[j] \in Range(a)
      BY <1>2, <3>1 DEF Range
    <3>4. QED
      BY <3>2, <3>3
  <2>3. CASE ~(j <= l)
    <3>1. ~(i <= l) /\ i - l \in 1..k /\ j - l \in 1..((i - l) - 1) /\ j \in 1..(l + k)
      BY <2>3
    <3>2. c[i] = b[i - l] /\ c[j] = b[j - l]
      BY <1>4, <2>3, <3>1
    <3>3. QED
      BY <1>1, <3>1, <3>2 DEF Ordered
  <2>4. QED
    BY <2>1, <2>2, <2>3
<1>6. QED
  BY <1>3, <1>4, <1>5 DEF Ordered

\* Connections of folders that have nothing in common may follow each other.
LEMMA ApartFollows ==
  ASSUME NEW Names, NEW m \in MountOf(Seq(Names)), NEW n \in MountOf(Seq(Names)),
         m.path # <<>>, n.path # <<>>, m.path[1] # n.path[1]
  PROVE  Follows(m, n)
<1>1. m.path \in Seq(Names) /\ n.path \in Seq(Names)
  BY DEF MountOf
<1>2. PICK p \in Seq(Names), q \in Seq(Names) : p = m.path /\ q = n.path
  BY <1>1
<1>3. 1 \in 1..Len(p) /\ 1 \in 1..Len(q)
  BY <1>2
<1>4. ~Box!Within(p, q) /\ ~Box!Within(q, p)
  BY <1>2, <1>3, WithinIs
<1>5. QED
  BY <1>2, <1>4 DEF Follows, Box!Covers, Box!Broadens, Box!Misplaced

\* A folder and what lies in it.
LEMMA InFolder ==
  ASSUME NEW Names, NEW p \in Seq(Names), p # <<>>, NEW q \in Seq(Names), q # <<>>
  PROVE  /\ p \o q \in Seq(Names) /\ p \o q # <<>> /\ (p \o q)[1] = p[1]
         /\ Box!Within(p \o q, p) /\ ~Box!Within(p, p \o q)
<1>1. PICK l \in Nat \ {0}, k \in Nat \ {0} : l = Len(p) /\ k = Len(q)
  OBVIOUS
<1>2. PICK c : c = p \o q
  OBVIOUS
<1>3. c \in Seq(Names) /\ Len(c) = l + k /\ \A i \in 1..(l + k) : c[i] = IF i <= l THEN p[i] ELSE q[i - l]
  <2>1. /\ p \o q \in Seq(Names) /\ Len(p \o q) = Len(p) + Len(q)
        /\ \A i \in 1..(Len(p) + Len(q)) : (p \o q)[i] = IF i <= Len(p) THEN p[i] ELSE q[i - Len(p)]
    BY ConcatProperties
  <2>2. QED
    BY <1>1, <1>2, <2>1
<1>4. l <= l + k /\ ~(l + k <= l) /\ 1 \in 1..(l + k) /\ 1 <= l /\ \A i \in 1..l : i \in 1..(l + k) /\ i <= l
  OBVIOUS
<1>5. (\A i \in 1..l : p[i] = c[i]) /\ c[1] = p[1]
  BY <1>3, <1>4
<1>6. Box!Within(c, p) /\ ~Box!Within(p, c)
  BY <1>1, <1>3, <1>4, <1>5, WithinIs
<1>7. c # <<>>
  BY <1>3, <1>4
<1>8. QED
  BY <1>2, <1>3, <1>5, <1>6, <1>7

\* The first name of a folder tells it from the others.
HeadIs(p, name) == p # <<>> /\ p[1] = name

\* What the box of a participant asks for.
OwnBox(box) ==
  /\ box.work = Box!Work /\ box.home = Box!Home /\ box.never = {Box!Ledger}
  /\ \E c \in Seq(BoxNames) : HeadIs(c, "home") /\ ~Box!Within(Box!Home, c) /\ box.rw = {c}
  /\ box.ro \subseteq {Box!Usr \o <<"claude">>, Box!Inputs}
  /\ IsFiniteSet(box.at) /\ \A a \in box.at : a[1] \in Seq(BoxNames) /\ HeadIs(a[1], "home") /\ a[2] = Box!Opt /\ a = <<a[1], a[2]>>

LEMMA HeadsAre ==
  /\ HeadIs(Box!Home, "home") /\ HeadIs(Box!Work, "data") /\ HeadIs(Box!Ledger, "data") /\ HeadIs(Box!Inputs, "data")
  /\ HeadIs(Box!Usr, "usr") /\ HeadIs(Box!Bin, "bin") /\ HeadIs(Box!Etc, "etc") /\ HeadIs(Box!Tmp, "tmp")
  /\ HeadIs(Box!Resolv, "mnt") /\ HeadIs(Box!Opt, "opt") /\ HeadIs(<<"proc">>, "proc") /\ HeadIs(<<"dev">>, "dev")
BY DEF HeadIs, Box!Home, Box!Work, Box!Ledger, Box!Inputs, Box!Usr, Box!Bin, Box!Etc, Box!Tmp, Box!Resolv, Box!Opt

\* Folders that begin with other names lie apart.
LEMMA HeadsApart ==
  ASSUME NEW Names, NEW p \in Seq(Names), NEW q \in Seq(Names), NEW m, NEW n, HeadIs(p, m), HeadIs(q, n), m # n
  PROVE  ~Box!Within(p, q) /\ ~Box!Within(q, p)
<1>1. 1 \in 1..Len(p) /\ 1 \in 1..Len(q) /\ p[1] # q[1]
  BY DEF HeadIs
<1>2. QED
  BY <1>1, WithinIs

\* The folders of the application's data lie apart.
LEMMA DataApart ==
  /\ ~Box!Within(Box!Work, Box!Inputs) /\ ~Box!Within(Box!Inputs, Box!Work)
  /\ ~Box!Within(Box!Work, Box!Ledger) /\ ~Box!Within(Box!Ledger, Box!Work)
  /\ ~Box!Within(Box!Inputs, Box!Ledger) /\ ~Box!Within(Box!Ledger, Box!Inputs)
<1>1. /\ Box!Work \in Seq(BoxNames) /\ Box!Inputs \in Seq(BoxNames) /\ Box!Ledger \in Seq(BoxNames)
  BY PathsAreNamed
<1>2. /\ Len(Box!Work) = 2 /\ Len(Box!Inputs) = 2 /\ Len(Box!Ledger) = 2
      /\ Box!Work[2] = "work" /\ Box!Inputs[2] = "inputs" /\ Box!Ledger[2] = "ledger"
  BY DEF Box!Work, Box!Inputs, Box!Ledger
<1>3. 2 \in 1..2
  OBVIOUS
<1>4. QED
  BY <1>1, <1>2, <1>3, WithinIs

LEMMA OwnIsBox == ASSUME NEW box, OwnBox(box) PROVE BoxOf(box, BoxNames)
<1>1. /\ Box!Home \in Seq(BoxNames) /\ Box!Work \in Seq(BoxNames) /\ Box!Ledger \in Seq(BoxNames) /\ Box!Inputs \in Seq(BoxNames)
      /\ Box!Opt \in Seq(BoxNames) /\ Box!Usr \o <<"claude">> \in Seq(BoxNames)
  BY PathsAreNamed DEF Box!HostPath
<1>2. IsFiniteSet({Box!Usr \o <<"claude">>, Box!Inputs})
  <2>1. IsFiniteSet({Box!Usr \o <<"claude">>}) /\ IsFiniteSet({Box!Inputs})
    BY FS_Singleton
  <2>2. {Box!Usr \o <<"claude">>, Box!Inputs} = {Box!Usr \o <<"claude">>} \union {Box!Inputs}
    OBVIOUS
  <2>3. QED
    BY <2>1, <2>2, FS_Union
<1>3. IsFiniteSet(box.ro) /\ box.ro \in SUBSET Seq(BoxNames)
  BY <1>1, <1>2, FS_Subset DEF OwnBox
<1>4. IsFiniteSet(box.rw) /\ box.rw \in SUBSET Seq(BoxNames)
  <2>1. PICK c \in Seq(BoxNames) : box.rw = {c}
    BY DEF OwnBox
  <2>2. QED
    BY <2>1, FS_Singleton
<1>5. box.at \in SUBSET (Seq(BoxNames) \X Seq(BoxNames))
  <2>1. PICK P : P = Seq(BoxNames)
    OBVIOUS
  <2>2. \A a \in box.at : a[1] \in P /\ a[2] \in P /\ a = <<a[1], a[2]>>
    BY <1>1, <2>1 DEF OwnBox
  <2>3. \A a \in box.at : a \in P \X P
    BY <2>2
  <2>4. QED
    BY <2>1, <2>3
<1>6. QED
  BY <1>1, <1>3, <1>4, <1>5 DEF OwnBox, BoxOf

\* A list of one connection is in order.
LEMMA OneOrdered == \A m : Ordered(<<m>>)
BY DEF Ordered

\* Connections in whose folders nothing else begins may follow each other.
LEMMA HeadsFollow ==
  ASSUME NEW m \in MountOf(Seq(BoxNames)), NEW n \in MountOf(Seq(BoxNames)), NEW a, NEW b,
         HeadIs(m.path, a), HeadIs(n.path, b), a # b
  PROVE  Follows(m, n)
BY ApartFollows DEF HeadIs

\* The first name of a connection is one of these.
Heads(S, names) == \A m \in S : m \in MountOf(Seq(BoxNames)) /\ \E a \in names : HeadIs(m.path, a)

LEMMA HeadsAfter ==
  ASSUME NEW S, NEW U, NEW A, NEW B, Heads(S, A), Heads(U, B), A \intersect B = {}
  PROVE  \A m \in S, n \in U : Follows(m, n)
<1>1. SUFFICES ASSUME NEW m \in S, NEW n \in U PROVE Follows(m, n)
  OBVIOUS
<1>2. PICK a \in A, b \in B : HeadIs(m.path, a) /\ HeadIs(n.path, b) /\ m \in MountOf(Seq(BoxNames)) /\ n \in MountOf(Seq(BoxNames))
  BY DEF Heads
<1>3. a # b
  OBVIOUS
<1>4. QED
  BY <1>2, <1>3, HeadsFollow

\* The connections the system itself asks for, in order.
LEMMA SystemOrdered ==
  ASSUME NEW host
  PROVE  /\ Box!System(host) \in Seq(MountOf(Seq(BoxNames))) /\ Ordered(Box!System(host))
         /\ Range(Box!System(host)) = Given(host) /\ Heads(Given(host), {"usr", "etc", "bin"})
<1>1. PICK M : M = MountOf(Seq(BoxNames))
  OBVIOUS
<1>2. PICK a \in M, b \in M, c \in M : a = Box!Mount(Box!Usr, "ro") /\ b = Box!Mount(Box!Etc, "ro") /\ c = Box!Mount(Box!Bin, "ro")
  BY <1>1, PathsAreNamed DEF MountOf, Box!Mount
<1>3. HeadIs(a.path, "usr") /\ HeadIs(b.path, "etc") /\ HeadIs(c.path, "bin")
  BY <1>2, HeadsAre DEF Box!Mount
<1>4. Follows(b, a) /\ Follows(c, a) /\ Follows(c, b)
  BY <1>1, <1>3, HeadsFollow
<1>5. PICK x \in Seq(M), y \in Seq(M) :
        x = <<a, b>> /\ y = (IF host.merged THEN <<>> ELSE <<c>>)
  <2>1. <<a, b>> \in Seq(M)
    OBVIOUS
  <2>2. (IF host.merged THEN <<>> ELSE <<c>>) \in Seq(M)
    OBVIOUS
  <2>3. QED
    BY <2>1, <2>2
<1>6. /\ Range(x) = {a, b} /\ Range(y) = (IF host.merged THEN {} ELSE {c})
  <2>1. Range(<<a, b>>) = {a, b}
    BY DEF Range
  <2>2. Range(<<c>>) = {c}
    BY DEF Range
  <2>3. Range(<<>>) = {}
    BY DEF Range
  <2>4. QED
    BY <1>5, <2>1, <2>2, <2>3
<1>7. Ordered(x) /\ Ordered(y)
  <2>1. Ordered(<<a, b>>)
    <3>1. \A i \in 1..2 : \A j \in 1..(i - 1) : i = 2 /\ j = 1
      OBVIOUS
    <3>2. QED
      BY <1>4, <3>1 DEF Ordered
  <2>2. Ordered(<<>>)
    BY DEF Ordered
  <2>3. QED
    BY <1>5, <2>1, <2>2, OneOrdered
<1>8. x \o y \in Seq(M) /\ Range(x \o y) = Range(x) \union Range(y)
  BY JoinHas
<1>9. Ordered(x \o y)
  <2>1. \A m \in Range(y), n \in Range(x) : Follows(m, n)
    BY <1>4, <1>6
  <2>2. QED
    BY <1>7, <2>1, OrderedJoin
<1>10. Box!System(host) = x \o y
  BY <1>2, <1>5 DEF Box!System
<1>11. Range(x \o y) = Given(host)
  BY <1>2, <1>6, <1>8 DEF Given
<1>12. Heads(Given(host), {"usr", "etc", "bin"})
  <2>1. \A m \in Given(host) : m \in {a, b, c}
    BY <1>2 DEF Given
  <2>2. QED
    BY <1>1, <1>3, <2>1 DEF Heads
<1>13. QED
  BY <1>1, <1>8, <1>9, <1>10, <1>11, <1>12

LEMMA VirtualOrdered ==
  \E v \in Seq(MountOf(Seq(BoxNames))) :
    /\ v = <<Box!Mount(<<"proc">>, "proc"), Box!Mount(<<"dev">>, "dev"), Box!Mount(Box!Tmp, "tmpfs"), Box!Mount(Box!Home, "tmpfs")>>
    /\ Ordered(v) /\ Range(v) = Virtual(Box!Home) /\ Heads(Virtual(Box!Home), {"proc", "dev", "tmp", "home"})
<1>1. PICK M : M = MountOf(Seq(BoxNames))
  OBVIOUS
<1>2. <<"proc">> \in Seq(BoxNames) /\ <<"dev">> \in Seq(BoxNames)
  BY DEF BoxNames
<1>3. PICK a \in M, b \in M, c \in M, d \in M :
        /\ a = Box!Mount(<<"proc">>, "proc") /\ b = Box!Mount(<<"dev">>, "dev")
        /\ c = Box!Mount(Box!Tmp, "tmpfs") /\ d = Box!Mount(Box!Home, "tmpfs")
  BY <1>1, <1>2, PathsAreNamed DEF MountOf, Box!Mount
<1>4. HeadIs(a.path, "proc") /\ HeadIs(b.path, "dev") /\ HeadIs(c.path, "tmp") /\ HeadIs(d.path, "home")
  BY <1>3, HeadsAre DEF Box!Mount
<1>5. Follows(b, a) /\ Follows(c, a) /\ Follows(c, b) /\ Follows(d, a) /\ Follows(d, b) /\ Follows(d, c)
  BY <1>1, <1>4, HeadsFollow
<1>6. PICK v \in Seq(M) : v = <<a, b, c, d>>
  <2>1. <<a, b, c, d>> \in Seq(M)
    OBVIOUS
  <2>2. QED
    BY <2>1
<1>7. Range(v) = {a, b, c, d}
  BY <1>6 DEF Range
<1>8. Ordered(v)
  <2>1. Len(v) = 4 /\ v[1] = a /\ v[2] = b /\ v[3] = c /\ v[4] = d
    BY <1>6
  <2>2. ASSUME NEW i \in 1..4, NEW j \in 1..(i - 1)
        PROVE  (i = 2 /\ j = 1) \/ (i = 3 /\ j \in {1, 2}) \/ (i = 4 /\ j \in {1, 2, 3})
    OBVIOUS
  <2>3. \A i \in 1..4 : \A j \in 1..(i - 1) : Follows(v[i], v[j])
    BY <1>5, <2>1, <2>2
  <2>4. QED
    BY <2>1, <2>3 DEF Ordered
<1>9. Range(v) = Virtual(Box!Home)
  BY <1>3, <1>7 DEF Virtual
<1>10. Heads(Virtual(Box!Home), {"proc", "dev", "tmp", "home"})
  BY <1>1, <1>4, <1>7, <1>9 DEF Heads
<1>11. QED
  BY <1>1, <1>3, <1>6, <1>8, <1>9, <1>10

\* The file of the network, if it has to be connected.
LEMMA NetworkOrdered ==
  ASSUME NEW host
  PROVE  /\ Box!Network(host) \in Seq(MountOf(Seq(BoxNames))) /\ Ordered(Box!Network(host))
         /\ Range(Box!Network(host)) = Extra(host) /\ Heads(Extra(host), {"mnt"})
<1>1. PICK M : M = MountOf(Seq(BoxNames))
  OBVIOUS
<1>2. PICK a \in M : a = Box!Mount(Box!Resolv, "ro")
  BY <1>1, PathsAreNamed DEF MountOf, Box!Mount
<1>3. HeadIs(a.path, "mnt")
  BY <1>2, HeadsAre DEF Box!Mount
<1>4. <<a>> \in Seq(M) /\ Range(<<a>>) = {a} /\ <<>> \in Seq(M) /\ Range(<<>>) = {}
  BY DEF Range
<1>5. Ordered(<<a>>) /\ Ordered(<<>>)
  BY OneOrdered DEF Ordered
<1>6. Heads(Extra(host), {"mnt"})
  BY <1>1, <1>2, <1>3 DEF Heads, Extra
<1>7. QED
  BY <1>1, <1>2, <1>4, <1>5, <1>6 DEF Box!Network, Extra

\* Where the program of Claude lies.
LEMMA ClaudeProgram ==
  LET p == Box!Usr \o <<"claude">>
  IN p \in Seq(BoxNames) /\ HeadIs(p, "usr") /\ Box!Within(p, Box!Usr) /\ ~Box!Within(Box!Usr, p)
<1>1. PICK u \in Seq(BoxNames) : u = Box!Usr /\ u # <<>> /\ u[1] = "usr"
  BY PathsAreNamed, HeadsAre DEF HeadIs
<1>2. PICK c \in Seq(BoxNames) : c = <<"claude">> /\ c # <<>>
  <2>1. <<"claude">> \in Seq(BoxNames)
    BY DEF BoxNames
  <2>2. QED
    BY <2>1
<1>3. PICK p : p = u \o c
  OBVIOUS
<1>4. p \in Seq(BoxNames) /\ p # <<>> /\ p[1] = "usr" /\ Box!Within(p, u) /\ ~Box!Within(u, p)
  <2>1. u # <<>> /\ c # <<>>
    BY <1>1, <1>2
  <2>2. /\ u \o c \in Seq(BoxNames) /\ u \o c # <<>> /\ (u \o c)[1] = u[1]
        /\ Box!Within(u \o c, u) /\ ~Box!Within(u, u \o c)
    BY <2>1, InFolder
  <2>3. QED
    BY <1>1, <1>3, <2>2
<1>5. QED
  BY <1>1, <1>2, <1>3, <1>4 DEF HeadIs

\* The folders of other places, all shown at the same.
LEMMA ElsewhereOrdered ==
  ASSUME NEW box, OwnBox(box), box.at = {} \/ \E a : box.at = {a}
  PROVE  /\ Box!Elsewhere(box.at) \in Seq(MountOf(Seq(BoxNames))) /\ Ordered(Box!Elsewhere(box.at))
         /\ Range(Box!Elsewhere(box.at)) = {Box!MountAt(a) : a \in box.at}
         /\ Heads({Box!MountAt(a) : a \in box.at}, {"opt"})
<1>1. PICK e : e = Box!Elsewhere(box.at)
  OBVIOUS
<1>2. BoxOf(box, BoxNames)
  BY OwnIsBox
<1>3. e \in Seq(MountOf(Seq(BoxNames))) /\ Range(e) = {Box!MountAt(a) : a \in box.at}
  BY <1>1, <1>2, ElsewhereHas DEF BoxOf
<1>4. Len(e) \in {0, 1}
  <2>1. PICK n \in Nat : n = Cardinality(box.at) /\ n \in {0, 1}
    <3>1. CASE box.at = {}
      BY <3>1, FS_EmptySet
    <3>2. CASE \E a : box.at = {a}
      BY <3>2, FS_Singleton
    <3>3. QED
      BY <3>1, <3>2
  <2>2. PICK r : Lists(r, box.at, n, [a \in box.at |-> 0])
    BY <1>2, <2>1, ListExists DEF BoxOf
  <2>3. r \in [1..n -> box.at] /\ Box!IsInjective(r)
    BY <2>2 DEF Lists, Box!IsInjective
  <2>4. Box!SetToSeq(box.at) = CHOOSE f \in [1..n -> box.at] : Box!IsInjective(f)
    BY <2>1, SameCount DEF Box!SetToSeq
  <2>5. Box!SetToSeq(box.at) \in [1..n -> box.at]
    BY <2>3, <2>4
  <2>6. PICK s \in [1..n -> box.at] : s = Box!SetToSeq(box.at)
    BY <2>5
  <2>7. Len(s) = n
    BY <2>1
  <2>8. e = [i \in 1..n |-> Box!MountAt(s[i])]
    BY <1>1, <2>6, <2>7 DEF Box!Elsewhere
  <2>9. QED
    BY <2>1, <2>8
<1>5. Ordered(e)
  <2>1. ASSUME NEW i \in 1..Len(e), NEW j \in 1..(i - 1) PROVE FALSE
    <3>1. CASE Len(e) = 0
      BY <3>1
    <3>2. CASE Len(e) = 1
      BY <3>2
    <3>3. QED
      BY <1>4, <3>1, <3>2
  <2>2. QED
    BY <2>1 DEF Ordered
<1>6. Heads({Box!MountAt(a) : a \in box.at}, {"opt"})
  <2>1. PICK P : P = Seq(BoxNames)
    OBVIOUS
  <2>2. ASSUME NEW a \in box.at PROVE Box!MountAt(a) \in MountOf(P) /\ HeadIs(Box!MountAt(a).path, "opt")
    <3>1. a[1] \in P /\ a[2] = Box!Opt /\ Box!Opt \in P
      BY <2>1, PathsAreNamed DEF OwnBox
    <3>2. QED
      BY <3>1, HeadsAre DEF Box!MountAt, MountOf
  <2>3. QED
    BY <2>1, <2>2 DEF Heads
<1>7. QED
  BY <1>1, <1>3, <1>5, <1>6

\* All that the box of a participant asks for is in order.
LEMMA OwnOrdered ==
  ASSUME NEW box, OwnBox(box), box.at = {} \/ \E a : box.at = {a}
  PROVE  Ordered(Box!MountPlan(box))
<1>1. PICK M : M = MountOf(Seq(BoxNames))
  OBVIOUS
<1>2. BoxOf(box, BoxNames)
  BY OwnIsBox
<1>3. PICK c \in Seq(BoxNames) : HeadIs(c, "home") /\ ~Box!Within(Box!Home, c) /\ box.rw = {c}
  BY DEF OwnBox
<1>4. PICK s \in Seq(M) :
        s = Box!System(box.host) /\ Ordered(s) /\ Range(s) = Given(box.host) /\ Heads(Range(s), {"usr", "etc", "bin"})
  BY <1>1, SystemOrdered
<1>5. PICK v \in Seq(M) :
        /\ v = <<Box!Mount(<<"proc">>, "proc"), Box!Mount(<<"dev">>, "dev"), Box!Mount(Box!Tmp, "tmpfs"), Box!Mount(Box!Home, "tmpfs")>>
        /\ Ordered(v) /\ Range(v) = Virtual(Box!Home) /\ Heads(Range(v), {"proc", "dev", "tmp", "home"})
  BY <1>1, VirtualOrdered
<1>6. PICK n \in Seq(M) : n = Box!Network(box.host) /\ Ordered(n) /\ Heads(Range(n), {"mnt"})
  BY <1>1, NetworkOrdered
<1>7. PICK e \in Seq(M) : e = Box!Elsewhere(box.at) /\ Ordered(e) /\ Heads(Range(e), {"opt"})
  BY <1>1, ElsewhereOrdered
<1>8. PICK r \in Seq(M) : r = Box!ByDepth(box.rw, "rw") /\ Ordered(r) /\ Range(r) = {Box!Mount(p, "rw") : p \in box.rw}
  BY <1>1, <1>2, ByDepthHas DEF BoxOf
<1>9. PICK o \in Seq(M) : o = Box!ByDepth(box.ro, "ro") /\ Ordered(o) /\ Range(o) = {Box!Mount(p, "ro") : p \in box.ro}
  BY <1>1, <1>2, ByDepthHas DEF BoxOf
<1>10. PICK m \in M : m = Box!Mount(Box!Work, "rw") /\ HeadIs(m.path, "data")
  <2>1. Box!Work \in Seq(BoxNames) /\ HeadIs(Box!Work, "data")
    BY HeadsAre, PathsAreNamed
  <2>2. Box!Mount(Box!Work, "rw") \in M
    BY <1>1, <2>1 DEF MountOf, Box!Mount
  <2>3. Box!Mount(Box!Work, "rw").path = Box!Work
    BY DEF Box!Mount
  <2>4. QED
    BY <2>1, <2>2, <2>3
<1>11. PICK w \in Seq(M) : w = <<m>> /\ Ordered(w) /\ Range(w) = {m}
  <2>1. Range(<<m>>) = {m}
    BY DEF Range
  <2>2. <<m>> \in Seq(M)
    OBVIOUS
  <2>3. Ordered(<<m>>)
    BY OneOrdered
  <2>4. QED
    BY <2>1, <2>2, <2>3
<1>12. Box!MountPlan(box) = s \o v \o n \o e \o r \o o \o w
  BY <1>4, <1>5, <1>6, <1>7, <1>8, <1>9, <1>10, <1>11 DEF Box!MountPlan, OwnBox
<1>13. Heads(Range(r), {"home"})
  <2>1. Box!Mount(c, "rw") \in M /\ HeadIs(Box!Mount(c, "rw").path, "home")
    BY <1>1, <1>3 DEF MountOf, Box!Mount
  <2>2. QED
    BY <1>1, <1>3, <1>8, <2>1 DEF Heads
<1>14. Heads(Range(o), {"usr", "data"})
  <2>1. \A p \in box.ro : p \in Seq(BoxNames) /\ (HeadIs(p, "usr") \/ HeadIs(p, "data"))
    <3>1. HeadIs(Box!Usr \o <<"claude">>, "usr")
      BY ClaudeProgram
    <3>2. QED
      BY <1>2, <3>1, HeadsAre DEF OwnBox, BoxOf
  <2>2. \A p \in box.ro : Box!Mount(p, "ro") \in M /\ Box!Mount(p, "ro").path = p
    BY <1>1, <2>1 DEF MountOf, Box!Mount
  <2>3. QED
    BY <1>1, <1>9, <2>1, <2>2 DEF Heads
<1>15. Heads(Range(w), {"data"})
  BY <1>1, <1>10, <1>11 DEF Heads
\* The three pairs of connections that begin alike.
<1>16. \A y \in Range(r), x \in Range(v) : Follows(y, x)
  <2>1. SUFFICES ASSUME NEW x \in Range(v) PROVE Follows(Box!Mount(c, "rw"), x)
    BY <1>3, <1>8
  <2>2. CASE x = Box!Mount(Box!Home, "tmpfs")
    <3>1. /\ Box!Mount(c, "rw").path = c /\ Box!Mount(c, "rw").host = c
          /\ x.path = Box!Home /\ x.mode = "tmpfs"
      BY <2>2 DEF Box!Mount
    <3>2. QED
      BY <1>3, <3>1 DEF Follows, Box!Covers, Box!Broadens, Box!Misplaced
  <2>3. CASE x # Box!Mount(Box!Home, "tmpfs")
    <3>1. HeadIs(x.path, "proc") \/ HeadIs(x.path, "dev") \/ HeadIs(x.path, "tmp")
      <4>1. x \in Virtual(Box!Home)
        BY <1>5
      <4>2. \/ x = Box!Mount(<<"proc">>, "proc") \/ x = Box!Mount(<<"dev">>, "dev") \/ x = Box!Mount(Box!Tmp, "tmpfs")
        BY <2>3, <4>1 DEF Virtual
      <4>3. x.path = <<"proc">> \/ x.path = <<"dev">> \/ x.path = Box!Tmp
        BY <4>2 DEF Box!Mount
      <4>4. QED
        BY <4>3, HeadsAre
    <3>2. Box!Mount(c, "rw") \in MountOf(Seq(BoxNames)) /\ HeadIs(Box!Mount(c, "rw").path, "home")
      BY <1>3 DEF MountOf, Box!Mount
    <3>3. x \in MountOf(Seq(BoxNames))
      BY <1>5 DEF Heads
    <3>4. QED
      BY <3>1, <3>2, <3>3, HeadsFollow
  <2>4. QED
    BY <2>2, <2>3
<1>17. \A y \in Range(o), x \in Range(s) : Follows(y, x)
  <2>1. SUFFICES ASSUME NEW p \in box.ro, NEW x \in Range(s) PROVE Follows(Box!Mount(p, "ro"), x)
    BY <1>9
  <2>2. PICK y : y = Box!Mount(p, "ro") /\ y \in Range(o)
    BY <1>9
  <2>3. y.path = p /\ y.host = p /\ y.mode = "ro"
    BY <2>2 DEF Box!Mount
  <2>4. y \in MountOf(Seq(BoxNames)) /\ x \in MountOf(Seq(BoxNames))
    BY <1>4, <1>14, <2>2 DEF Heads
  <2>5. CASE HeadIs(p, "data")
    <3>1. HeadIs(x.path, "usr") \/ HeadIs(x.path, "etc") \/ HeadIs(x.path, "bin")
      BY <1>4 DEF Heads
    <3>2. QED
      BY <2>2, <2>3, <2>4, <2>5, <3>1, HeadsFollow
  <2>6. CASE p = Box!Usr \o <<"claude">>
    <3>1. HeadIs(p, "usr") /\ ~Box!Within(Box!Usr, p)
      BY <2>6, ClaudeProgram
    <3>2. CASE x.path = Box!Usr
      BY <2>2, <2>3, <3>1, <3>2 DEF Follows, Box!Covers, Box!Broadens, Box!Misplaced
    <3>3. CASE x.path # Box!Usr
      <4>1. HeadIs(x.path, "etc") \/ HeadIs(x.path, "bin")
        BY <1>4, <3>3, HeadsAre DEF Given, Box!Mount
      <4>2. QED
        BY <2>2, <2>3, <2>4, <3>1, <4>1, HeadsFollow
    <3>4. QED
      BY <3>2, <3>3
  <2>7. QED
    BY <2>5, <2>6, HeadsAre DEF OwnBox
<1>18. \A x \in Range(o) : Follows(m, x)
  <2>1. SUFFICES ASSUME NEW p \in box.ro PROVE Follows(m, Box!Mount(p, "ro"))
    BY <1>9
  <2>2. PICK x : x = Box!Mount(p, "ro") /\ x \in Range(o)
    BY <1>9
  <2>3. x.path = p
    BY <2>2 DEF Box!Mount
  <2>4. CASE p = Box!Inputs
    <3>1. m.path = Box!Work /\ m.host = Box!Work
      BY <1>10 DEF Box!Mount
    <3>2. QED
      BY <2>2, <2>3, <2>4, <3>1, DataApart DEF Follows, Box!Covers, Box!Broadens, Box!Misplaced
  <2>5. CASE p = Box!Usr \o <<"claude">>
    <3>1. HeadIs(p, "usr")
      BY <2>5, ClaudeProgram
    <3>2. x \in MountOf(Seq(BoxNames)) /\ m \in MountOf(Seq(BoxNames))
      BY <1>1, <1>14, <2>2 DEF Heads
    <3>3. QED
      BY <1>10, <2>2, <2>3, <3>1, <3>2, HeadsFollow
  <2>6. QED
    BY <2>4, <2>5 DEF OwnBox
\* One list after the other.
<1>20. PICK p1 \in Seq(M) : p1 = s \o v /\ Ordered(p1) /\ Range(p1) = Range(s) \union Range(v)
  <2>1. \A y \in Range(v), x \in Range(s) : Follows(y, x)
    BY <1>4, <1>5, HeadsAfter
  <2>2. Ordered(s \o v)
    BY <1>4, <1>5, <2>1, OrderedJoin
  <2>3. s \o v \in Seq(M) /\ Range(s \o v) = Range(s) \union Range(v)
    BY JoinHas, ZenonT(60)
  <2>4. QED
    BY <2>2, <2>3
<1>21. PICK p2 \in Seq(M) : p2 = p1 \o n /\ Ordered(p2) /\ Range(p2) = Range(p1) \union Range(n)
  <2>1. \A y \in Range(n), x \in Range(s) : Follows(y, x)
    BY <1>4, <1>6, HeadsAfter
  <2>2. \A y \in Range(n), x \in Range(v) : Follows(y, x)
    BY <1>5, <1>6, HeadsAfter
  <2>3. \A y \in Range(n), x \in Range(p1) : Follows(y, x)
    BY <1>20, <2>1, <2>2
  <2>4. Ordered(p1 \o n)
    BY <1>6, <1>20, <2>3, OrderedJoin
  <2>5. p1 \o n \in Seq(M) /\ Range(p1 \o n) = Range(p1) \union Range(n)
    BY JoinHas, ZenonT(60)
  <2>6. QED
    BY <2>4, <2>5
<1>22. PICK p3 \in Seq(M) : p3 = p2 \o e /\ Ordered(p3) /\ Range(p3) = Range(p2) \union Range(e)
  <2>1. \A y \in Range(e), x \in Range(s) : Follows(y, x)
    BY <1>4, <1>7, HeadsAfter
  <2>2. \A y \in Range(e), x \in Range(v) : Follows(y, x)
    BY <1>5, <1>7, HeadsAfter
  <2>3. \A y \in Range(e), x \in Range(n) : Follows(y, x)
    BY <1>6, <1>7, HeadsAfter
  <2>4. \A y \in Range(e), x \in Range(p2) : Follows(y, x)
    BY <1>20, <1>21, <2>1, <2>2, <2>3
  <2>5. Ordered(p2 \o e)
    BY <1>7, <1>21, <2>4, OrderedJoin
  <2>6. p2 \o e \in Seq(M) /\ Range(p2 \o e) = Range(p2) \union Range(e)
    BY JoinHas, ZenonT(60)
  <2>7. QED
    BY <2>5, <2>6
<1>23. PICK p4 \in Seq(M) : p4 = p3 \o r /\ Ordered(p4) /\ Range(p4) = Range(p3) \union Range(r)
  <2>1. \A y \in Range(r), x \in Range(s) : Follows(y, x)
    BY <1>4, <1>13, HeadsAfter
  <2>2. \A y \in Range(r), x \in Range(n) : Follows(y, x)
    BY <1>6, <1>13, HeadsAfter
  <2>3. \A y \in Range(r), x \in Range(e) : Follows(y, x)
    BY <1>7, <1>13, HeadsAfter
  <2>4. \A y \in Range(r), x \in Range(p3) : Follows(y, x)
    BY <1>16, <1>20, <1>21, <1>22, <2>1, <2>2, <2>3
  <2>5. Ordered(p3 \o r)
    BY <1>8, <1>22, <2>4, OrderedJoin
  <2>6. p3 \o r \in Seq(M) /\ Range(p3 \o r) = Range(p3) \union Range(r)
    BY JoinHas, ZenonT(60)
  <2>7. QED
    BY <2>5, <2>6
<1>24. PICK p5 \in Seq(M) : p5 = p4 \o o /\ Ordered(p5) /\ Range(p5) = Range(p4) \union Range(o)
  <2>1. \A y \in Range(o), x \in Range(v) : Follows(y, x)
    BY <1>5, <1>14, HeadsAfter
  <2>2. \A y \in Range(o), x \in Range(n) : Follows(y, x)
    BY <1>6, <1>14, HeadsAfter
  <2>3. \A y \in Range(o), x \in Range(e) : Follows(y, x)
    BY <1>7, <1>14, HeadsAfter
  <2>4. \A y \in Range(o), x \in Range(r) : Follows(y, x)
    BY <1>13, <1>14, HeadsAfter
  <2>5. \A y \in Range(o), x \in Range(p4) : Follows(y, x)
    BY <1>17, <1>20, <1>21, <1>22, <1>23, <2>1, <2>2, <2>3, <2>4
  <2>6. Ordered(p4 \o o)
    BY <1>9, <1>23, <2>5, OrderedJoin
  <2>7. p4 \o o \in Seq(M) /\ Range(p4 \o o) = Range(p4) \union Range(o)
    BY JoinHas, ZenonT(60)
  <2>8. QED
    BY <2>6, <2>7
<1>25. PICK p6 : p6 = p5 \o w /\ Ordered(p6)
  <2>1. \A y \in Range(w), x \in Range(s) : Follows(y, x)
    BY <1>4, <1>15, HeadsAfter
  <2>2. \A y \in Range(w), x \in Range(v) : Follows(y, x)
    BY <1>5, <1>15, HeadsAfter
  <2>3. \A y \in Range(w), x \in Range(n) : Follows(y, x)
    BY <1>6, <1>15, HeadsAfter
  <2>4. \A y \in Range(w), x \in Range(e) : Follows(y, x)
    BY <1>7, <1>15, HeadsAfter
  <2>5. \A y \in Range(w), x \in Range(r) : Follows(y, x)
    BY <1>13, <1>15, HeadsAfter
  <2>6. \A y \in Range(w), x \in Range(o) : Follows(y, x)
    BY <1>11, <1>18
  <2>7. \A y \in Range(w), x \in Range(p5) : Follows(y, x)
    BY <1>20, <1>21, <1>22, <1>23, <1>24, <2>1, <2>2, <2>3, <2>4, <2>5, <2>6
  <2>8. QED
    BY <1>11, <1>24, <2>7, OrderedJoin
<1>26. QED
  BY <1>12, <1>20, <1>21, <1>22, <1>23, <1>24, <1>25

\* Nothing that the box of a participant asks for is refused.
LEMMA OwnAllowed ==
  ASSUME NEW box, OwnBox(box), box.at = {} \/ \E a : box.at = {a}
  PROVE  Box!ValidMounts(Box!MountPlan(box), box.never)
<1>1. PICK M : M = Box!MountPlan(box)
  OBVIOUS
<1>2. BoxOf(box, BoxNames)
  BY OwnIsBox
<1>3. /\ M \in Seq(MountOf(Seq(BoxNames)))
      /\ Range(M) =
           Given(box.host) \union Virtual(box.home) \union Extra(box.host) \union {Box!MountAt(a) : a \in box.at}
             \union {Box!Mount(p, "rw") : p \in box.rw} \union {Box!Mount(p, "ro") : p \in box.ro}
             \union {Box!Mount(box.work, "rw")}
  BY <1>1, <1>2, PlanHas
<1>4. \A i \in 1..Len(M) : M[i] \in Range(M)
  BY <1>3 DEF Range
<1>5. Ordered(M)
  BY <1>1, OwnOrdered
<1>6. /\ Box!Ledger \in Seq(BoxNames) /\ Box!Usr \in Seq(BoxNames) /\ Box!Etc \in Seq(BoxNames) /\ Box!Bin \in Seq(BoxNames)
      /\ Box!Resolv \in Seq(BoxNames)
  BY PathsAreNamed
<1>7. ASSUME NEW h \in Seq(BoxNames), NEW name, HeadIs(h, name), name # "data"
      PROVE  h # <<>> /\ ~Box!Within(h, Box!Ledger) /\ ~Box!Within(Box!Ledger, h)
  BY <1>6, <1>7, HeadsApart, HeadsAre DEF HeadIs
<1>8. ASSUME NEW m \in Range(M)
      PROVE  m.path # <<>> /\ (Box!Binds(m) => Box!Apart(m, Box!Ledger))
  <2>1. CASE m \in Given(box.host) \union Extra(box.host)
    <3>1. /\ m.path = m.host
          /\ m.path = Box!Usr \/ m.path = Box!Etc \/ m.path = Box!Bin \/ m.path = Box!Resolv
      BY <2>1 DEF Given, Extra, Box!Mount
    <3>2. m.path \in Seq(BoxNames) /\ \E name : HeadIs(m.path, name) /\ name # "data"
      BY <1>6, <3>1, HeadsAre
    <3>3. QED
      BY <1>7, <3>1, <3>2 DEF Box!Apart
  <2>2. CASE m \in Virtual(box.home)
    <3>1. /\ m.mode = "proc" \/ m.mode = "dev" \/ m.mode = "tmpfs"
          /\ m.path = <<"proc">> \/ m.path = <<"dev">> \/ m.path = Box!Tmp \/ m.path = Box!Home
      BY <2>2 DEF Virtual, Box!Mount, OwnBox
    <3>2. m.path # <<>>
      BY <3>1, HeadsAre DEF HeadIs
    <3>3. QED
      BY <3>1, <3>2 DEF Box!Binds
  <2>3. CASE m \in {Box!MountAt(a) : a \in box.at}
    <3>1. PICK a \in box.at : m = Box!MountAt(a)
      BY <2>3
    <3>2. m.host = a[1] /\ m.path = Box!Opt /\ a[1] \in Seq(BoxNames) /\ HeadIs(a[1], "home")
      BY <3>1 DEF Box!MountAt, OwnBox
    <3>3. QED
      BY <1>7, <3>2, HeadsAre DEF Box!Apart, HeadIs
  <2>4. CASE m \in {Box!Mount(p, "rw") : p \in box.rw}
    <3>1. PICK c \in Seq(BoxNames) : HeadIs(c, "home") /\ box.rw = {c}
      BY DEF OwnBox
    <3>2. m.host = c /\ m.path = c
      BY <2>4, <3>1 DEF Box!Mount
    <3>3. QED
      BY <1>7, <3>1, <3>2 DEF Box!Apart
  <2>5. CASE m \in {Box!Mount(p, "ro") : p \in box.ro}
    <3>1. PICK p \in box.ro : m = Box!Mount(p, "ro")
      BY <2>5
    <3>2. m.host = p /\ m.path = p
      BY <3>1 DEF Box!Mount
    <3>3. CASE p = Box!Inputs
      BY <3>2, <3>3, HeadsAre, DataApart DEF Box!Apart, HeadIs
    <3>4. CASE p = Box!Usr \o <<"claude">>
      BY <1>7, <3>2, <3>4, ClaudeProgram DEF Box!Apart
    <3>5. QED
      BY <3>3, <3>4 DEF OwnBox
  <2>6. CASE m = Box!Mount(box.work, "rw")
    <3>1. m.host = Box!Work /\ m.path = Box!Work
      BY <2>6 DEF Box!Mount, OwnBox
    <3>2. QED
      BY <3>1, HeadsAre, DataApart DEF Box!Apart, HeadIs
  <2>7. QED
    BY <1>3, <2>1, <2>2, <2>3, <2>4, <2>5, <2>6
<1>9. \A i \in 1..Len(M) : \A j \in 1..(i - 1) :
        ~Box!Covers(M[i], M[j]) /\ ~Box!Broadens(M[i], M[j]) /\ ~Box!Misplaced(M[i], M[j])
  BY <1>5 DEF Ordered, Follows
<1>10. box.never = {Box!Ledger}
  BY DEF OwnBox
<1>11. QED
  BY <1>1, <1>4, <1>8, <1>9, <1>10 DEF Box!ValidMounts

(* A participant always gets its box, whichever CLI it is and however the host  *)
(* is laid out (isolation.participant_mounts, cli_executor.plan).             *)
THEOREM ParticipantsGetABox == ASSUME NEW cli \in {"claude-code", "codex"}, NEW host PROVE Box!Usable(cli, host)
<1>1. PICK box : box = Box!ParticipantBox(cli, host)
  OBVIOUS
<1>2. /\ Box!Home \in Seq(BoxNames) /\ Box!Release \in Seq(BoxNames) /\ Box!Opt \in Seq(BoxNames)
      /\ <<".claude">> \in Seq(BoxNames) /\ <<".codex">> \in Seq(BoxNames) /\ <<"release">> \in Seq(BoxNames)
      /\ <<".codex", "release">> \in Seq(BoxNames) /\ <<"bin">> \in Seq(BoxNames)
  BY PathsAreNamed DEF BoxNames
<1>3. <<".claude">> # <<>> /\ <<".codex">> # <<>> /\ <<".codex", "release">> # <<>> /\ <<"bin">> # <<>>
  OBVIOUS
<1>4. ASSUME NEW q \in Seq(BoxNames), q # <<>>
      PROVE  Box!Home \o q \in Seq(BoxNames) /\ HeadIs(Box!Home \o q, "home") /\ ~Box!Within(Box!Home, Box!Home \o q)
  <2>1. PICK p \in Seq(BoxNames) : p = Box!Home /\ p # <<>> /\ p[1] = "home"
    BY <1>2, HeadsAre DEF HeadIs
  <2>2. p \o q \in Seq(BoxNames) /\ p \o q # <<>> /\ (p \o q)[1] = p[1] /\ ~Box!Within(p, p \o q)
    BY <1>4, <2>1, InFolder
  <2>3. QED
    BY <2>1, <2>2 DEF HeadIs
<1>5. Box!Home \o <<".codex", "release">> = Box!Release
  <2>1. (Box!Home \o <<".codex">>) \o <<"release">> = Box!Home \o (<<".codex">> \o <<"release">>)
    BY <1>2, ConcatAssociative
  <2>2. <<".codex">> \o <<"release">> = <<".codex", "release">>
    <3>1. PICK c \in Seq(BoxNames) : c = <<".codex">> \o <<"release">> /\ Len(c) = 2 /\ c[1] = ".codex" /\ c[2] = "release"
      <4>1. PICK a \in Seq(BoxNames), b \in Seq(BoxNames) :
              a = <<".codex">> /\ b = <<"release">> /\ Len(a) = 1 /\ Len(b) = 1 /\ a[1] = ".codex" /\ b[1] = "release"
        BY <1>2
      <4>2. /\ a \o b \in Seq(BoxNames) /\ Len(a \o b) = Len(a) + Len(b)
            /\ \A i \in 1..(Len(a) + Len(b)) : (a \o b)[i] = IF i <= Len(a) THEN a[i] ELSE b[i - Len(a)]
        BY ConcatProperties
      <4>3. Len(a \o b) = 2 /\ (a \o b)[1] = a[1] /\ (a \o b)[2] = b[1]
        BY <4>1, <4>2
      <4>4. QED
        BY <4>1, <4>2, <4>3
    <3>2. PICK d \in Seq(BoxNames) : d = <<".codex", "release">> /\ Len(d) = 2 /\ d[1] = ".codex" /\ d[2] = "release"
      BY <1>2
    <3>3. \A i \in 1..2 : c[i] = d[i]
      BY <3>1, <3>2
    <3>4. c = d
      BY <3>1, <3>2, <3>3, SeqEqual
    <3>5. QED
      BY <3>1, <3>2, <3>4
  <2>3. QED
    BY <2>1, <2>2 DEF Box!Release, Box!Codex
<1>6. CASE cli = "claude-code"
  <2>1. /\ box.work = Box!Work /\ box.home = Box!Home /\ box.never = {Box!Ledger} /\ box.rw = {Box!Home \o <<".claude">>}
        /\ box.ro = {Box!Usr \o <<"claude">>} \union {Box!Inputs} /\ box.at = {} /\ box.exe = Box!Usr \o <<"claude">>
    BY <1>1, <1>6 DEF Box!ParticipantBox, Box!CliMounts
  <2>2. OwnBox(box)
    BY <1>2, <1>3, <1>4, <2>1, FS_EmptySet DEF OwnBox
  <2>3. Box!ValidMounts(Box!MountPlan(box), box.never)
    BY <2>1, <2>2, OwnAllowed
  <2>4. \E m \in Box!Range(Box!MountPlan(box)) : m.mode = "ro" /\ Box!Within(Box!ExeInside(box), m.path)
    <3>1. PICK p \in Seq(BoxNames) : p = Box!Usr \o <<"claude">>
      BY ClaudeProgram
    <3>2. Box!Mount(p, "ro") \in Box!Range(Box!MountPlan(box))
      <4>1. BoxOf(box, BoxNames)
        BY <2>2, OwnIsBox
      <4>2. Box!Mount(p, "ro") \in {Box!Mount(q, "ro") : q \in box.ro}
        BY <2>1, <3>1
      <4>3. Box!Mount(p, "ro") \in Range(Box!MountPlan(box))
        BY <4>1, <4>2, PlanHas
      <4>4. QED
        BY <4>3 DEF Box!Range, Range
    <3>3. Box!Mount(p, "ro").mode = "ro" /\ Box!Mount(p, "ro").path = p
      BY DEF Box!Mount
    <3>4. Box!ExeInside(box) = p
      BY <2>1, <3>1 DEF Box!ExeInside
    <3>5. Box!Within(p, p)
      BY WithinIs
    <3>6. QED
      BY <3>2, <3>3, <3>4, <3>5
  <2>5. QED
    BY <1>1, <2>3, <2>4 DEF Box!Usable, Box!Accepted
<1>7. CASE cli = "codex"
  <2>1. PICK a : a = <<Box!Release, Box!Opt>>
    OBVIOUS
  <2>2. a[1] = Box!Release /\ a[2] = Box!Opt /\ a = <<a[1], a[2]>>
    BY <2>1
  <2>3. /\ box.work = Box!Work /\ box.home = Box!Home /\ box.never = {Box!Ledger} /\ box.rw = {Box!Home \o <<".codex">>}
        /\ box.ro = {} \union {Box!Inputs} /\ box.at = {a} /\ box.exe = Box!Release \o <<"bin">>
    <3>1. {<<h, Box!Opt>> : h \in {Box!Release}} = {a}
      BY <2>1
    <3>2. QED
      BY <1>1, <1>5, <1>7, <3>1 DEF Box!ParticipantBox, Box!CliMounts
  <2>4. OwnBox(box)
    <3>1. HeadIs(Box!Release, "home")
      BY <1>2, <1>3, <1>4, <1>5
    <3>2. IsFiniteSet(box.at)
      BY <2>3, FS_Singleton
    <3>3. QED
      BY <1>2, <1>3, <1>4, <2>2, <2>3, <3>1, <3>2 DEF OwnBox
  <2>5. Box!ValidMounts(Box!MountPlan(box), box.never)
    BY <2>3, <2>4, OwnAllowed
  <2>6. \E m \in Box!Range(Box!MountPlan(box)) : m.mode = "ro" /\ Box!Within(Box!ExeInside(box), m.path)
    <3>1. Box!MountAt(a) \in Box!Range(Box!MountPlan(box))
      <4>1. BoxOf(box, BoxNames)
        BY <2>4, OwnIsBox
      <4>2. Box!MountAt(a) \in {Box!MountAt(b) : b \in box.at}
        BY <2>3
      <4>3. Box!MountAt(a) \in Range(Box!MountPlan(box))
        BY <4>1, <4>2, PlanHas
      <4>4. QED
        BY <4>3 DEF Box!Range, Range
    <3>2. Box!MountAt(a).mode = "ro" /\ Box!MountAt(a).path = Box!Opt
      BY <2>2 DEF Box!MountAt
    <3>3. PICK r \in Seq(BoxNames), e \in Seq(BoxNames) : r = Box!Release /\ e = box.exe /\ Box!Within(e, r)
      <4>1. PICK q \in Seq(BoxNames) : q = <<"bin">> /\ q # <<>>
        BY <1>2, <1>3
      <4>2. PICK r \in Seq(BoxNames) : r = Box!Release /\ r # <<>>
        BY <1>2, <1>3, <1>4, <1>5 DEF HeadIs
      <4>3. r \o q \in Seq(BoxNames) /\ Box!Within(r \o q, r)
        BY <4>1, <4>2, InFolder
      <4>4. QED
        BY <2>3, <4>1, <4>2, <4>3
    <3>4. {b \in box.at : Box!Within(box.exe, b[1])} = {a}
      BY <2>2, <2>3, <3>3
    <3>5. PICK s : s = SubSeq(e, Len(r) + 1, Len(e))
      OBVIOUS
    <3>6. Box!ExeInside(box) = Box!Opt \o s
      <4>1. (CHOOSE x \in {a} : TRUE) = a
        OBVIOUS
      <4>2. QED
        BY <2>2, <3>3, <3>4, <3>5, <4>1 DEF Box!ExeInside
    <3>7. Box!Within(Box!Opt \o s, Box!Opt)
      <4>1. s \in Seq(BoxNames)
        BY <3>5
      <4>2. PICK o \in Seq(BoxNames) : o = Box!Opt /\ o # <<>>
        BY <1>2, HeadsAre DEF HeadIs
      <4>3. CASE s = <<>>
        <5>1. o \o s = o
          BY <4>3
        <5>2. Box!Within(o, o)
          BY WithinIs
        <5>3. QED
          BY <4>2, <5>1, <5>2
      <4>4. CASE s # <<>>
        <5>1. Box!Within(o \o s, o)
          BY <4>1, <4>2, <4>4, InFolder
        <5>2. QED
          BY <4>2, <5>1
      <4>5. QED
        BY <4>3, <4>4
    <3>8. QED
      BY <3>1, <3>2, <3>6, <3>7
  <2>7. QED
    BY <1>1, <2>5, <2>6 DEF Box!Usable, Box!Accepted
<1>8. QED
  BY <1>6, <1>7

\* What a box may ask for, of folders that exist.
LEMMA RequestIs == ASSUME NEW box \in Box!Request PROVE BoxOf(box, BoxNames)
<1>1. PICK P : P = Seq(BoxNames)
  OBVIOUS
<1>2. /\ Box!Home \in P /\ Box!Claude \in P /\ Box!Codex \in P /\ Box!Release \in P /\ Box!Work \in P /\ Box!Ledger \in P
      /\ Box!Inputs \in P /\ Box!Usr \in P /\ Box!Etc \in P /\ Box!Resolv \in P /\ Box!Opt \in P
      /\ Box!Front(Box!Work) \in P /\ Box!Tmp \o <<"w">> \in P /\ Box!Usr \o <<"claude">> \in P
  BY <1>1, PathsAreNamed DEF Box!HostPath
<1>3. Box!Front(Box!Ledger) \in P /\ Box!Usr \o <<"x">> \in P /\ Box!Claude \o <<"x">> \in P
  <2>1. <<"x">> \in P
    BY <1>1 DEF BoxNames
  <2>2. \A a \in P, b \in P : a \o b \in P
    BY <1>1
  <2>3. Box!Ledger # <<>>
    BY HeadsAre DEF HeadIs
  <2>4. Box!Front(Box!Ledger) \in P
    BY <1>1, <1>2, <2>3 DEF Box!Front
  <2>5. QED
    BY <1>2, <2>1, <2>2, <2>4
<1>4. ASSUME NEW S, S \subseteq P, NEW U \in Box!AtMostOne(S) PROVE U \in SUBSET P /\ IsFiniteSet(U)
  <2>1. CASE U = {}
    BY <2>1, FS_EmptySet
  <2>2. CASE U # {}
    <3>1. PICK x \in S : U = {x}
      BY <1>4, <2>2 DEF Box!AtMostOne
    <3>2. QED
      BY <1>4, <3>1, FS_Singleton
  <2>3. QED
    BY <2>1, <2>2
<1>5. box.work \in P /\ box.home \in P
  BY <1>2 DEF Box!Request
<1>6. box.ro \in SUBSET P /\ IsFiniteSet(box.ro)
  <2>1. CASE box.ro = {Box!Codex, Box!Release}
    <3>1. IsFiniteSet({Box!Codex}) /\ IsFiniteSet({Box!Release}) /\ {Box!Codex, Box!Release} = {Box!Codex} \union {Box!Release}
      BY FS_Singleton
    <3>2. QED
      BY <1>2, <2>1, <3>1, FS_Union
  <2>2. CASE box.ro \in Box!AtMostOne({Box!Inputs, Box!Ledger, Box!Codex, Box!Release})
    BY <1>2, <1>4, <2>2
  <2>3. QED
    BY <2>1, <2>2 DEF Box!Request
<1>7. box.rw \in SUBSET P /\ IsFiniteSet(box.rw)
  <2>1. box.rw \in Box!AtMostOne({Box!Home, Box!Claude, Box!Codex, Box!Etc})
    BY DEF Box!Request
  <2>2. QED
    BY <1>2, <1>4, <2>1
<1>8. box.never \in SUBSET P
  <2>1. box.never \in Box!AtMostOne({Box!Ledger, Box!Front(Box!Ledger), Box!Usr \o <<"claude">>, Box!Resolv})
    BY DEF Box!Request
  <2>2. PICK S : S = {Box!Ledger, Box!Front(Box!Ledger), Box!Usr \o <<"claude">>, Box!Resolv}
    OBVIOUS
  <2>3. S \subseteq P
    BY <1>2, <1>3, <2>2
  <2>4. QED
    BY <1>4, <2>1, <2>2, <2>3
<1>9. box.at \in SUBSET (P \X P) /\ IsFiniteSet(box.at)
  <2>1. PICK a \in P \X P, b \in P \X P, c \in P \X P :
          /\ a = <<Box!Release, Box!Opt>> /\ b = <<Box!Release, Box!Usr \o <<"x">> >> /\ c = <<Box!Inputs, Box!Claude \o <<"x">> >>
    BY <1>2, <1>3
  <2>2. box.at \in {{}, {a}, {b}, {c}}
    <3>1. box.at \in {{}, {<<Box!Release, Box!Opt>>}, {<<Box!Release, Box!Usr \o <<"x">> >>}, {<<Box!Inputs, Box!Claude \o <<"x">> >>}}
      BY DEF Box!Request
    <3>2. QED
      BY <2>1, <3>1
  <2>3. IsFiniteSet({a}) /\ IsFiniteSet({b}) /\ IsFiniteSet({c}) /\ IsFiniteSet({})
    BY FS_EmptySet, FS_Singleton
  <2>4. box.at = {} \/ box.at = {a} \/ box.at = {b} \/ box.at = {c}
    BY <2>2
  <2>5. IsFiniteSet(box.at)
    BY <2>3, <2>4
  <2>6. box.at \in SUBSET (P \X P)
    BY <2>4
  <2>7. QED
    BY <2>5, <2>6
<1>10. QED
  BY <1>1, <1>5, <1>6, <1>7, <1>8, <1>9 DEF BoxOf

-----------------------------------------------------------------------------
(* What an output is read as.                                                *)

CodexState == [text : {"no text", "answer", "blank"}, completed : BOOLEAN, failure : BOOLEAN, odd : BOOLEAN]

CodexStart == [text |-> "no text", completed |-> FALSE, failure |-> FALSE, odd |-> FALSE]

\* What has been read of the output of Codex after each event.
LEMMA CodexIsRead ==
  ASSUME NEW out \in Seq(Out!CodexEvent)
  PROVE  \E g \in [0..Len(out) -> CodexState] :
           /\ g[0] = CodexStart /\ \A n \in 1..Len(out) : g[n] = Out!CodexStep(g[n - 1], out[n])
           /\ Out!CodexRead(out) = g[Len(out)]
<1> DEFINE S == CodexState
           x == CodexStart
<1>1. PICK N \in Nat : N = Len(out)
  OBVIOUS
<1> DEFINE F == [n \in 1..N |-> [s \in S |-> Out!CodexStep(s, out[n])]]
           Def(g) == [n \in 0..N |-> IF n = 0 THEN x ELSE Out!CodexStep(g[n - 1], out[n])]
           all == CHOOSE g : g = Def(g)
<1>2. ASSUME NEW s \in S, NEW e \in Out!CodexEvent PROVE Out!CodexStep(s, e) \in S
  BY DEF Out!CodexEvent, Out!CodexStep, CodexState
<1>3. \A n \in 1..N : out[n] \in Out!CodexEvent
  BY <1>1
<1>4. x \in S /\ F \in Reading(N, S)
  <2>1. x \in S
    BY DEF CodexStart, CodexState
  <2>2. QED
    BY <1>2, <1>3, <2>1 DEF Reading
<1>5. ASSUME NEW s \in S, NEW n \in 1..N PROVE F[n][s] = Out!CodexStep(s, out[n])
  OBVIOUS
<1>6. PICK g : ReadBy(g, N, S, x, F)
  <2> HIDE DEF S, x, F
  <2>1. QED
    BY <1>4, ReadsExist
<1>7. \A n \in 1..N : g[n - 1] \in S /\ g[n] = Out!CodexStep(g[n - 1], out[n])
  <2> SUFFICES ASSUME NEW n \in 1..N PROVE g[n - 1] \in S /\ g[n] = Out!CodexStep(g[n - 1], out[n])
    OBVIOUS
  <2>1. n - 1 \in 0..N
    OBVIOUS
  <2> HIDE DEF S, F, x
  <2>2. QED
    BY <2>1, <1>5, <1>6 DEF ReadBy
<1>8. g = Def(g)
  <2> HIDE DEF S, x, F
  <2>1. ASSUME NEW n \in 0..N PROVE g[n] = IF n = 0 THEN x ELSE Out!CodexStep(g[n - 1], out[n])
    <3>1. n # 0 => n \in 1..N
      OBVIOUS
    <3>2. QED
      BY <3>1, <1>6, <1>7 DEF ReadBy
  <2>2. g = [n \in 0..N |-> g[n]]
    BY <1>6 DEF ReadBy
  <2>3. QED
    BY <2>1, <2>2
<1> HIDE DEF S, x, F
<1>9. PICK r : r = all
  OBVIOUS
<1>10. r = Def(r)
  BY <1>8, <1>9
<1> HIDE DEF all
<1>11. r[0] = x /\ \A n \in 1..N : r[n] = Out!CodexStep(r[n - 1], out[n])
  <2>1. r = [n \in 0..N |-> IF n = 0 THEN x ELSE Out!CodexStep(r[n - 1], out[n])]
    BY <1>10
  <2>2. \A n \in 0..N : r[n] = IF n = 0 THEN x ELSE Out!CodexStep(r[n - 1], out[n])
    BY <2>1
  <2>3. QED
    BY <2>2
<1>12. \A n \in 0..N : r[n] \in S
  <2> DEFINE T == {n \in 0..N : r[n] \in S}
  <2>1. 0 \in T
    BY <1>4, <1>11
  <2>2. ASSUME NEW n \in 0..N, n \in T, n < N PROVE n + 1 \in T
    <3>1. n + 1 \in 1..N /\ n + 1 \in 0..N /\ (n + 1) - 1 = n
      BY <2>2
    <3>2. r[n + 1] = Out!CodexStep(r[n], out[n + 1])
      BY <1>11, <3>1
    <3>3. QED
      BY <1>2, <1>3, <2>2, <3>1, <3>2
  <2> HIDE DEF T
  <2>3. 0..N \subseteq T
    BY <2>1, <2>2, CountUp
  <2>4. QED
    BY <2>3 DEF T
<1>13. r \in [0..N -> S]
  <2>1. r = [n \in 0..N |-> r[n]]
    BY <1>10
  <2>2. QED
    BY <1>12, <2>1
<1>14. Out!CodexRead(out) = r[N]
  BY <1>1, <1>9, Zenon DEF Out!CodexRead, all, x, CodexStart
<1>15. QED
  BY <1>1, <1>11, <1>13, <1>14 DEF S, x

ClaudeState ==
  [init : {"none", "init", "other init"}, result : {"none"} \union Out!ClaudeResult, other : BOOLEAN, bad : BOOLEAN]

ClaudeStart == [init |-> "none", result |-> "none", other |-> FALSE, bad |-> FALSE]

\* What has been read of the output of Claude after each event.
LEMMA ClaudeIsRead ==
  ASSUME NEW out \in Seq(Out!ClaudeEvent)
  PROVE  \E g \in [0..Len(out) -> ClaudeState] :
           /\ g[0] = ClaudeStart /\ \A n \in 1..Len(out) : g[n] = Out!ClaudeStep(g[n - 1], out[n])
           /\ Out!ClaudeRead(out) = g[Len(out)]
<1> DEFINE S == ClaudeState
           x == ClaudeStart
<1>1. PICK N \in Nat : N = Len(out)
  OBVIOUS
<1> DEFINE F == [n \in 1..N |-> [s \in S |-> Out!ClaudeStep(s, out[n])]]
           Def(g) == [n \in 0..N |-> IF n = 0 THEN x ELSE Out!ClaudeStep(g[n - 1], out[n])]
           all == CHOOSE g : g = Def(g)
<1>2. ASSUME NEW s \in S, NEW e \in Out!ClaudeEvent PROVE Out!ClaudeStep(s, e) \in S
  BY DEF Out!ClaudeEvent, Out!ClaudeStep, ClaudeState, Out!ClaudeResult
<1>3. \A n \in 1..N : out[n] \in Out!ClaudeEvent
  BY <1>1
<1>4. x \in S /\ F \in Reading(N, S)
  <2>1. x \in S
    BY DEF ClaudeStart, ClaudeState, Out!ClaudeResult
  <2>2. QED
    BY <1>2, <1>3, <2>1 DEF Reading
<1>5. ASSUME NEW s \in S, NEW n \in 1..N PROVE F[n][s] = Out!ClaudeStep(s, out[n])
  OBVIOUS
<1>6. PICK g : ReadBy(g, N, S, x, F)
  <2> HIDE DEF S, x, F
  <2>1. QED
    BY <1>4, ReadsExist
<1>7. \A n \in 1..N : g[n - 1] \in S /\ g[n] = Out!ClaudeStep(g[n - 1], out[n])
  <2> SUFFICES ASSUME NEW n \in 1..N PROVE g[n - 1] \in S /\ g[n] = Out!ClaudeStep(g[n - 1], out[n])
    OBVIOUS
  <2>1. n - 1 \in 0..N
    OBVIOUS
  <2> HIDE DEF S, F, x
  <2>2. QED
    BY <2>1, <1>5, <1>6 DEF ReadBy
<1>8. g = Def(g)
  <2> HIDE DEF S, x, F
  <2>1. ASSUME NEW n \in 0..N PROVE g[n] = IF n = 0 THEN x ELSE Out!ClaudeStep(g[n - 1], out[n])
    <3>1. n # 0 => n \in 1..N
      OBVIOUS
    <3>2. QED
      BY <3>1, <1>6, <1>7 DEF ReadBy
  <2>2. g = [n \in 0..N |-> g[n]]
    BY <1>6 DEF ReadBy
  <2>3. QED
    BY <2>1, <2>2
<1> HIDE DEF S, x, F
<1>9. PICK r : r = all
  OBVIOUS
<1>10. r = Def(r)
  BY <1>8, <1>9
<1> HIDE DEF all
<1>11. r[0] = x /\ \A n \in 1..N : r[n] = Out!ClaudeStep(r[n - 1], out[n])
  <2>1. r = [n \in 0..N |-> IF n = 0 THEN x ELSE Out!ClaudeStep(r[n - 1], out[n])]
    BY <1>10
  <2>2. \A n \in 0..N : r[n] = IF n = 0 THEN x ELSE Out!ClaudeStep(r[n - 1], out[n])
    BY <2>1
  <2>3. QED
    BY <2>2
<1>12. \A n \in 0..N : r[n] \in S
  <2> DEFINE T == {n \in 0..N : r[n] \in S}
  <2>1. 0 \in T
    BY <1>4, <1>11
  <2>2. ASSUME NEW n \in 0..N, n \in T, n < N PROVE n + 1 \in T
    <3>1. n + 1 \in 1..N /\ n + 1 \in 0..N /\ (n + 1) - 1 = n
      BY <2>2
    <3>2. r[n + 1] = Out!ClaudeStep(r[n], out[n + 1])
      BY <1>11, <3>1
    <3>3. QED
      BY <1>2, <1>3, <2>2, <3>1, <3>2
  <2> HIDE DEF T
  <2>3. 0..N \subseteq T
    BY <2>1, <2>2, CountUp
  <2>4. QED
    BY <2>3 DEF T
<1>13. r \in [0..N -> S]
  <2>1. r = [n \in 0..N |-> r[n]]
    BY <1>10
  <2>2. QED
    BY <1>12, <2>1
<1>14. Out!ClaudeRead(out) = r[N]
  BY <1>1, <1>9, Zenon DEF Out!ClaudeRead, all, x, ClaudeStart
<1>15. QED
  BY <1>1, <1>11, <1>13, <1>14 DEF S, x

Answering == {"answer", "blank", "no text"}

\* What CodexRead tells of an output.
CodexTold(s, out, n) ==
  /\ s.completed <=> \E i \in 1..n : out[i] = "turn completed"
  /\ s.failure <=> \E i \in 1..n : out[i] = "failure"
  /\ s.odd <=> \E i \in 1..n : out[i] \in {"broken", "odd"}
  /\ \/ s.text = "no text" /\ \A i \in 1..n : out[i] \notin Answering
     \/ \E i \in 1..n : /\ out[i] \in Answering /\ s.text = out[i]
                        /\ \A j \in (i + 1)..n : out[j] \notin Answering

LEMMA CodexTells ==
  ASSUME NEW out \in Seq(Out!CodexEvent)
  PROVE  Out!CodexRead(out) \in CodexState /\ CodexTold(Out!CodexRead(out), out, Len(out))
<1>1. PICK N \in Nat : N = Len(out)
  OBVIOUS
<1>2. PICK g \in [0..N -> CodexState] :
        g[0] = CodexStart /\ (\A n \in 1..N : g[n] = Out!CodexStep(g[n - 1], out[n])) /\ Out!CodexRead(out) = g[N]
  BY <1>1, CodexIsRead
<1> DEFINE T == {n \in 0..N : CodexTold(g[n], out, n)}
<1>3. 0 \in T
  <2>1. 1..0 = {}
    OBVIOUS
  <2>2. QED
    <3>1. CodexTold(CodexStart, out, 0)
      BY <2>1 DEF CodexStart, CodexTold
    <3>2. QED
      BY <1>2, <3>1
<1>4. ASSUME NEW n \in 0..N, n \in T, n < N PROVE n + 1 \in T
  <2>1. n + 1 \in 1..N /\ n + 1 \in 0..N /\ (n + 1) - 1 = n
    BY <1>4
  <2>2. PICK s \in CodexState, e \in Out!CodexEvent, t \in CodexState : s = g[n] /\ e = out[n + 1] /\ t = g[n + 1]
    BY <1>1, <2>1
  <2>3. t = Out!CodexStep(s, e)
    BY <1>2, <2>1, <2>2
  <2>4. CodexTold(s, out, n)
    BY <1>4, <2>2
  <2>5. \A i : i \in 1..(n + 1) <=> i \in 1..n \/ i = n + 1
    OBVIOUS
  <2>6. t.completed <=> s.completed \/ e = "turn completed"
    BY <2>2, <2>3 DEF CodexState, Out!CodexStep, Out!CodexEvent, Answering
  <2>7. t.failure <=> s.failure \/ e = "failure"
    BY <2>2, <2>3 DEF CodexState, Out!CodexStep, Out!CodexEvent, Answering
  <2>8. t.odd <=> s.odd \/ e \in {"broken", "odd"}
    BY <2>2, <2>3 DEF CodexState, Out!CodexStep, Out!CodexEvent, Answering
  <2>9. t.text = IF e \in Answering THEN e ELSE s.text
    BY <2>2, <2>3 DEF CodexState, Out!CodexStep, Out!CodexEvent, Answering
  <2>10. t.completed <=> \E i \in 1..(n + 1) : out[i] = "turn completed"
    BY <2>2, <2>4, <2>5, <2>6 DEF CodexTold
  <2>11. t.failure <=> \E i \in 1..(n + 1) : out[i] = "failure"
    BY <2>2, <2>4, <2>5, <2>7 DEF CodexTold
  <2>12. t.odd <=> \E i \in 1..(n + 1) : out[i] \in {"broken", "odd"}
    BY <2>2, <2>4, <2>5, <2>8 DEF CodexTold
  <2>13. \/ t.text = "no text" /\ \A i \in 1..(n + 1) : out[i] \notin Answering
         \/ \E i \in 1..(n + 1) : /\ out[i] \in Answering /\ t.text = out[i]
                                 /\ \A j \in (i + 1)..(n + 1) : out[j] \notin Answering
    <3>1. CASE e \in Answering
      <4>1. n + 1 \in 1..(n + 1) /\ ((n + 1) + 1)..(n + 1) = {}
        OBVIOUS
      <4>2. QED
        BY <2>2, <2>9, <3>1, <4>1
    <3>2. CASE e \notin Answering
      <4>1. CASE s.text = "no text" /\ \A i \in 1..n : out[i] \notin Answering
        BY <2>2, <2>5, <2>9, <3>2, <4>1
      <4>2. ASSUME NEW i \in 1..n, out[i] \in Answering, s.text = out[i],
                   \A j \in (i + 1)..n : out[j] \notin Answering
            PROVE  /\ i \in 1..(n + 1) /\ t.text = out[i]
                   /\ \A j \in (i + 1)..(n + 1) : out[j] \notin Answering
        <5>1. \A j \in (i + 1)..(n + 1) : j \in (i + 1)..n \/ j = n + 1
          OBVIOUS
        <5>2. t.text = s.text /\ out[n + 1] \notin Answering
          BY <2>2, <2>9, <3>2
        <5>3. \A j \in (i + 1)..(n + 1) : out[j] \notin Answering
          BY <4>2, <5>1, <5>2
        <5>4. i \in 1..(n + 1)
          OBVIOUS
        <5>5. QED
          BY <4>2, <5>2, <5>3, <5>4
      <4>3. QED
        BY <2>4, <4>1, <4>2 DEF CodexTold
    <3>3. QED
      BY <3>1, <3>2
  <2>14. CodexTold(t, out, n + 1)
    BY <2>10, <2>11, <2>12, <2>13 DEF CodexTold
  <2>15. QED
    BY <2>1, <2>2, <2>14
<1> HIDE DEF T
<1>5. 0..N \subseteq T
  BY <1>3, <1>4, CountUp
<1>6. N \in T
  BY <1>5
<1>7. QED
  BY <1>1, <1>2, <1>6 DEF T

\* One init and no more, and nothing but words and tools that were given.
Begun(out, n) ==
  \E i \in 1..n : out[i] = "init" /\ \A j \in 1..n : j # i => out[j] \in {"text", "tool"}

Fine(s) == ~s.bad /\ ~s.other

\* What ClaudeRead tells of an output.
ClaudeTold(s, out, n) ==
  /\ Fine(s) /\ s.result = "none" /\ s.init = "none" <=> \A i \in 1..n : out[i] \in {"text", "tool"}
  /\ Fine(s) /\ s.result = "none" /\ s.init = "init" <=> Begun(out, n)
  /\ Fine(s) /\ s.result \in {"answer", "no model"} /\ s.init = "init" <=>
       n > 0 /\ out[n] \in {"answer", "no model"} /\ Begun(out, n - 1)

LEMMA ClaudeTells ==
  ASSUME NEW out \in Seq(Out!ClaudeEvent)
  PROVE  Out!ClaudeRead(out) \in ClaudeState /\ ClaudeTold(Out!ClaudeRead(out), out, Len(out))
<1>1. PICK N \in Nat : N = Len(out)
  OBVIOUS
<1>2. PICK g \in [0..N -> ClaudeState] :
        g[0] = ClaudeStart /\ (\A n \in 1..N : g[n] = Out!ClaudeStep(g[n - 1], out[n])) /\ Out!ClaudeRead(out) = g[N]
  BY <1>1, ClaudeIsRead
<1> DEFINE T == {n \in 0..N : ClaudeTold(g[n], out, n)}
<1>3. 0 \in T
  <2>1. 1..0 = {}
    OBVIOUS
  <2>2. QED
    <3>1. ~Begun(out, 0)
      BY <2>1 DEF Begun
    <3>2. ClaudeTold(ClaudeStart, out, 0)
      BY <2>1, <3>1 DEF ClaudeStart, ClaudeTold, Fine
    <3>3. QED
      BY <1>2, <3>2
<1>4. ASSUME NEW n \in 0..N, n \in T, n < N PROVE n + 1 \in T
  <2>1. n + 1 \in 1..N /\ n + 1 \in 0..N /\ (n + 1) - 1 = n /\ n + 1 > 0
    BY <1>4
  <2>2. PICK s \in ClaudeState, e \in Out!ClaudeEvent, t \in ClaudeState : s = g[n] /\ e = out[n + 1] /\ t = g[n + 1]
    BY <1>1, <2>1
  <2>3. t = Out!ClaudeStep(s, e)
    BY <1>2, <2>1, <2>2
  <2>4. ClaudeTold(s, out, n)
    BY <1>4, <2>2
  <2>5. \A i : i \in 1..(n + 1) <=> i \in 1..n \/ i = n + 1
    OBVIOUS
  <2>6. Fine(t) /\ t.result = "none" /\ t.init = "none" <=>
          Fine(s) /\ s.result = "none" /\ s.init = "none" /\ e \in {"text", "tool"}
    BY <2>2, <2>3 DEF ClaudeState, Out!ClaudeResult, Out!ClaudeStep, Out!ClaudeEvent, Fine
  <2>7. Fine(t) /\ t.result = "none" /\ t.init = "init" <=>
          /\ Fine(s) /\ s.result = "none"
          /\ (s.init = "none" /\ e = "init") \/ (s.init = "init" /\ e \in {"text", "tool"})
    BY <2>2, <2>3 DEF ClaudeState, Out!ClaudeResult, Out!ClaudeStep, Out!ClaudeEvent, Fine
  <2>8. Fine(t) /\ t.result \in {"answer", "no model"} /\ t.init = "init" <=>
          Fine(s) /\ s.result = "none" /\ s.init = "init" /\ e \in {"answer", "no model"}
    BY <2>2, <2>3 DEF ClaudeState, Out!ClaudeResult, Out!ClaudeStep, Out!ClaudeEvent, Fine
  <2>9. Fine(t) /\ t.result = "none" /\ t.init = "none" <=> \A i \in 1..(n + 1) : out[i] \in {"text", "tool"}
    BY <2>2, <2>4, <2>5, <2>6 DEF ClaudeTold
  <2>10. Begun(out, n + 1) <=>
           ((\A i \in 1..n : out[i] \in {"text", "tool"}) /\ e = "init") \/ (Begun(out, n) /\ e \in {"text", "tool"})
    <3>1. ASSUME NEW i \in 1..(n + 1), out[i] = "init", \A j \in 1..(n + 1) : j # i => out[j] \in {"text", "tool"}
          PROVE  ((\A k \in 1..n : out[k] \in {"text", "tool"}) /\ e = "init") \/ (Begun(out, n) /\ e \in {"text", "tool"})
      <4>1. CASE i = n + 1
        BY <2>2, <2>5, <3>1, <4>1
      <4>2. CASE i # n + 1
        BY <2>1, <2>2, <2>5, <3>1, <4>2 DEF Begun
      <4>3. QED
        BY <4>1, <4>2
    <3>2. ASSUME \A i \in 1..n : out[i] \in {"text", "tool"}, e = "init" PROVE Begun(out, n + 1)
      BY <2>2, <2>5, <3>2 DEF Begun
    <3>3. ASSUME Begun(out, n), e \in {"text", "tool"} PROVE Begun(out, n + 1)
      BY <2>2, <2>5, <3>3 DEF Begun
    <3>4. QED
      BY <3>1, <3>2, <3>3 DEF Begun
  <2>11. Fine(t) /\ t.result = "none" /\ t.init = "init" <=> Begun(out, n + 1)
    BY <2>4, <2>7, <2>10 DEF ClaudeTold
  <2>12. Fine(t) /\ t.result \in {"answer", "no model"} /\ t.init = "init" <=>
           n + 1 > 0 /\ out[n + 1] \in {"answer", "no model"} /\ Begun(out, (n + 1) - 1)
    BY <2>1, <2>2, <2>4, <2>8 DEF ClaudeTold
  <2>13. ClaudeTold(t, out, n + 1)
    BY <2>9, <2>11, <2>12 DEF ClaudeTold
  <2>14. QED
    BY <2>1, <2>2, <2>13
<1> HIDE DEF T
<1>5. 0..N \subseteq T
  BY <1>3, <1>4, CountUp
<1>6. N \in T
  BY <1>5
<1>7. QED
  BY <1>1, <1>2, <1>6 DEF T

\* An output of Codex is read as an answer exactly when it is one.
LEMMA CodexReadsRight ==
  ASSUME NEW out \in Seq(Out!CodexEvent), NEW s, s = Out!CodexRead(out)
  PROVE  /\ s \in CodexState
         /\ ~s.odd /\ ~s.failure /\ s.completed /\ s.text = "answer" <=> Out!CodexAnswered(out)
<1> DEFINE N == Len(out)
           L == Out!LastOf(Answering, out)
           Completed == /\ \E i \in 1..N : out[i] = "turn completed"
                        /\ ~\E i \in 1..N : out[i] = "failure"
                        /\ ~\E i \in 1..N : out[i] \in {"broken", "odd"}
           Ended == (\E i \in 1..N : out[i] \in Answering) /\ out[L] = "answer"
<1>1. s \in CodexState /\ CodexTold(s, out, N) /\ N \in Nat
  BY CodexTells
<1>2. ~s.odd /\ ~s.failure /\ s.completed <=> Completed
  BY <1>1 DEF CodexTold
<1>3. Out!CodexAnswered(out) <=> Completed /\ Ended
  BY DEF Out!CodexAnswered, Out!Occurs, Answering
<1>4. CASE s.text = "no text" /\ \A i \in 1..N : out[i] \notin Answering
  BY <1>2, <1>1, <1>3, <1>4
<1>5. ASSUME NEW i \in 1..N, out[i] \in Answering, s.text = out[i], \A j \in (i + 1)..N : out[j] \notin Answering
      PROVE  s.text = "answer" <=> Ended
  <2>1. L = i
    <3> DEFINE P(k) == k \in 1..N /\ out[k] \in Answering /\ \A j \in (k + 1)..N : out[j] \notin Answering
    <3>1. P(i)
      BY <1>5
    <3>2. L \in 1..N /\ out[L] \in Answering /\ \A j \in (L + 1)..N : out[j] \notin Answering
      BY <3>1 DEF Out!LastOf
    <3>3. ~(L > i) /\ ~(i > L)
      <4>1. L > i => L \in (i + 1)..N
        BY <1>1, <3>2
      <4>2. i > L => i \in (L + 1)..N
        BY <1>1, <3>2
      <4>3. QED
        BY <1>5, <3>2, <4>1, <4>2
    <3>4. QED
      BY <3>2, <3>3
  <2>2. QED
    BY <1>5, <2>1
<1>6. QED
  BY <1>1, <1>2, <1>3, <1>4, <1>5 DEF CodexTold

\* An output of Claude is read as an answer exactly when it is one.
LEMMA ClaudeReadsRight ==
  ASSUME NEW out \in Seq(Out!ClaudeEvent), NEW s, s = Out!ClaudeRead(out)
  PROVE  /\ s \in ClaudeState
         /\ Fine(s) /\ s.result \in {"answer", "no model"} /\ s.init = "init" <=> Out!ClaudeAnswered(out)
<1>0. PICK N \in Nat : N = Len(out)
  OBVIOUS
<1>1. s \in ClaudeState /\ ClaudeTold(s, out, N)
  BY <1>0, ClaudeTells
<1>2. ASSUME N > 0, out[N] \in {"answer", "no model"}
      PROVE  Begun(out, N - 1) <=>
               /\ \E i \in 1..N : out[i] = "init" /\ \A j \in 1..N : out[j] \in {"init", "other init"} => i = j
               /\ \A i \in 1..(N - 1) : out[i] \in {"init", "text", "tool"}
  <2>1. \A i : i \in 1..N <=> i \in 1..(N - 1) \/ i = N
    <3>0. N > 0
      BY <1>2
    <3>1. N - 1 \in Nat /\ (N - 1) + 1 = N
      BY <3>0
    <3>2. ASSUME NEW k \in Nat PROVE \A i : i \in 1..(k + 1) <=> i \in 1..k \/ i = k + 1
      OBVIOUS
    <3>3. QED
      BY <3>1, <3>2
  <2>2. out[N] \notin {"init", "other init", "text", "tool"}
    BY <1>2
  <2>3. ASSUME Begun(out, N - 1)
        PROVE  /\ \E i \in 1..N : out[i] = "init" /\ \A j \in 1..N : out[j] \in {"init", "other init"} => i = j
               /\ \A i \in 1..(N - 1) : out[i] \in {"init", "text", "tool"}
    <3>1. PICK i \in 1..(N - 1) : out[i] = "init" /\ \A j \in 1..(N - 1) : j # i => out[j] \in {"text", "tool"}
      BY <2>3 DEF Begun
    <3>2. QED
      BY <2>1, <2>2, <3>1
  <2>4. ASSUME NEW i \in 1..N, out[i] = "init", \A j \in 1..N : out[j] \in {"init", "other init"} => i = j,
               \A j \in 1..(N - 1) : out[j] \in {"init", "text", "tool"}
        PROVE  Begun(out, N - 1)
    <3>1. i \in 1..(N - 1)
      BY <2>1, <2>2, <2>4
    <3>2. \A j \in 1..(N - 1) : j # i => out[j] \in {"text", "tool"}
      BY <2>1, <2>4
    <3>3. QED
      BY <2>4, <3>1, <3>2 DEF Begun
  <2>5. QED
    BY <2>3, <2>4
<1>3. QED
  BY <1>0, <1>1, <1>2 DEF ClaudeTold, Out!ClaudeAnswered

Events(cli) == IF cli = "codex" THEN Out!CodexEvent ELSE Out!ClaudeEvent

(* An answer is accepted of a run exactly when its whole output says that this  *)
(* is its answer, whatever the run reports and however long the output is       *)
(* (adapters.interpret 336-367, domain.acceptance 75-97).                     *)
THEOREM AnswersStayWhole ==
  ASSUME NEW cli \in {"codex", "claude-code"}, NEW run \in Out!Run, NEW out \in Seq(Events(cli))
  PROVE  Out!Whole(cli, run, out)
<1>1. CASE cli = "codex"
  <2>1. PICK s : s = Out!CodexRead(out)
    OBVIOUS
  <2>2. /\ s \in CodexState
        /\ ~s.odd /\ ~s.failure /\ s.completed /\ s.text = "answer" <=> Out!CodexAnswered(out)
    BY <1>1, <2>1, CodexReadsRight DEF Events
  <2>3. /\ Out!Text(cli, out) = s.text /\ ~Out!Mismatch(cli, out)
        /\ Out!CodexStatus(run, out) = "ok" <=> /\ ~s.odd /\ ~Out!Hidden(run) /\ ~Out!Rejected(run)
                                            /\ ~run.failed /\ s.completed /\ ~s.failure /\ s.text # "no text"
    <3>1. Out!Text(cli, out) = s.text /\ ~Out!Mismatch(cli, out)
      BY <1>1, <2>1 DEF Out!Text, Out!Mismatch
    <3>2. Out!CodexStatus(run, out) =
            IF s.odd \/ Out!Hidden(run) THEN "format_error"
            ELSE IF Out!Rejected(run) THEN "tools_rejected"
            ELSE IF ~run.failed /\ s.completed /\ ~s.failure /\ s.text # "no text" THEN "ok"
            ELSE IF ~s.completed /\ ~s.failure /\ ~run.failed THEN "format_error"
            ELSE "cli_error"
      BY <2>1 DEF Out!CodexStatus
    <3>3. QED
      BY <2>2, <3>1, <3>2 DEF CodexState, Out!Run, Out!Hidden, Out!Rejected
  <2>4. Out!Interpret(cli, run, out) = "ok" <=>
          run.exited /\ run.input # "failed" /\ ~run.stdoutCut /\ Out!CodexStatus(run, out) = "ok"
    BY <1>1 DEF Out!Interpret, Out!Run
  <2>5. Out!Acceptance(cli, run, out) = "accepted" <=>
          /\ run.empty /\ Out!Interpret(cli, run, out) = "ok" /\ run.input = "complete"
          /\ Out!Text(cli, out) # "blank" /\ ~Out!Mismatch(cli, out)
    BY DEF Out!Acceptance
  <2>6. Out!Acceptance(cli, run, out) = "unknown" <=> ~run.empty
    BY DEF Out!Acceptance
  <2>7. QED
    BY <1>1, <2>2, <2>3, <2>4, <2>5, <2>6 DEF Out!Whole, Out!Run, Out!Hidden, Out!Rejected, CodexState
<1>2. CASE cli = "claude-code"
  <2>1. PICK s : s = Out!ClaudeRead(out)
    OBVIOUS
  <2>2. /\ s \in ClaudeState
        /\ Fine(s) /\ s.result \in {"answer", "no model"} /\ s.init = "init" <=> Out!ClaudeAnswered(out)
    BY <1>2, <2>1, ClaudeReadsRight DEF Events
  <2>3. /\ Out!Text(cli, out) = s.result /\ (Out!Mismatch(cli, out) <=> s.result = "other model")
        /\ Out!ClaudeStatus(run, out) = "ok" <=> /\ ~s.bad /\ s.init # "none" /\ s.result # "none"
                                             /\ s.init # "other init" /\ ~s.other /\ s.result # "error" /\ ~run.failed
    <3>1. Out!Text(cli, out) = s.result /\ (Out!Mismatch(cli, out) <=> s.result = "other model")
      BY <1>2, <2>1 DEF Out!Text, Out!Mismatch
    <3>2. Out!ClaudeStatus(run, out) =
            IF s.bad \/ s.init = "none" \/ s.result = "none" THEN "format_error"
            ELSE IF s.init = "other init" \/ s.other THEN "permission_mismatch"
            ELSE IF s.result = "error" \/ run.failed THEN "cli_error"
            ELSE "ok"
      BY <2>1 DEF Out!ClaudeStatus
    <3>3. QED
      BY <2>2, <3>1, <3>2 DEF ClaudeState, Out!ClaudeResult, Out!Run
  <2>4. Out!Interpret(cli, run, out) = "ok" <=>
          run.exited /\ run.input # "failed" /\ ~run.stdoutCut /\ Out!ClaudeStatus(run, out) = "ok"
    BY <1>2 DEF Out!Interpret, Out!Run
  <2>5. Out!Acceptance(cli, run, out) = "accepted" <=>
          /\ run.empty /\ Out!Interpret(cli, run, out) = "ok" /\ run.input = "complete"
          /\ Out!Text(cli, out) # "blank" /\ ~Out!Mismatch(cli, out)
    BY DEF Out!Acceptance
  <2>6. Out!Acceptance(cli, run, out) = "unknown" <=> ~run.empty
    BY DEF Out!Acceptance
  <2>7. QED
    BY <1>2, <2>2, <2>3, <2>4, <2>5, <2>6 DEF Out!Whole, Out!Run, ClaudeState, Out!ClaudeResult, Fine
<1>3. QED
  BY <1>1, <1>2

-----------------------------------------------------------------------------
(* The responses that lead to a source.                                      *)

FetchState == [done : BOOLEAN, ok : BOOLEAN, hops : Nat, time : Nat, body : Seq(Nat)]

FetchStart == [done |-> FALSE, ok |-> FALSE, hops |-> 0, time |-> 0, body |-> <<>>]

\* What a fetch has come to after each response.
LEMMA FetchIsRead ==
  ASSUME NEW responses \in Seq(Source!Response)
  PROVE  \E g \in [0..Len(responses) -> FetchState] :
           /\ g[0] = FetchStart /\ \A n \in 1..Len(responses) : g[n] = Source!Hop(g[n - 1], responses[n])
           /\ Source!Fetched(responses) = g[Len(responses)]
<1> DEFINE S == FetchState
           x == FetchStart
<1>1. PICK N \in Nat : N = Len(responses)
  OBVIOUS
<1> DEFINE F == [n \in 1..N |-> [s \in S |-> Source!Hop(s, responses[n])]]
           Def(g) == [n \in 0..N |-> IF n = 0 THEN x ELSE Source!Hop(g[n - 1], responses[n])]
           all == CHOOSE g : g = Def(g)
<1>2. ASSUME NEW s \in S, NEW e \in Source!Response PROVE Source!Hop(s, e) \in S
  <2>1. PICK h \in {s.hops, s.hops + 1}, t \in {s.time, s.time + e.time}, c \in {s.body, e.chunks}, d \in BOOLEAN, o \in BOOLEAN :
          Source!Hop(s, e) \in {s, Source!Failed, [done |-> d, ok |-> o, hops |-> h, time |-> t, body |-> c]}
    BY DEF Source!Hop, FetchState
  <2>2. /\ s.hops \in Nat /\ s.time \in Nat /\ s.body \in Seq(Nat)
        /\ e.time \in Nat /\ e.chunks \in Seq(Nat)
    BY DEF Source!Response, FetchState
  <2>3. h \in Nat /\ t \in Nat /\ c \in Seq(Nat)
    BY <2>1, <2>2
  <2>4. Source!Failed \in FetchState
    BY DEF FetchState, Source!Failed
  <2>5. QED
    BY <2>1, <2>3, <2>4 DEF FetchState
<1>3. \A n \in 1..N : responses[n] \in Source!Response
  BY <1>1
<1>4. x \in S /\ F \in Reading(N, S)
  <2>1. x \in S
    BY DEF FetchState, FetchStart
  <2>2. QED
    BY <1>2, <1>3, <2>1 DEF Reading
<1>5. ASSUME NEW s \in S, NEW n \in 1..N PROVE F[n][s] = Source!Hop(s, responses[n])
  OBVIOUS
<1>6. PICK g : ReadBy(g, N, S, x, F)
  <2> HIDE DEF S, x, F
  <2>1. QED
    BY <1>4, ReadsExist
<1>7. g = Def(g)
  <2> HIDE DEF S, x, F
  <2>1. ASSUME NEW n \in 0..N PROVE g[n] = IF n = 0 THEN x ELSE Source!Hop(g[n - 1], responses[n])
    <3>1. n # 0 => n \in 1..N /\ n - 1 \in 0..N
      OBVIOUS
    <3>2. QED
      BY <3>1, <1>5, <1>6 DEF ReadBy
  <2>2. g = [n \in 0..N |-> g[n]]
    BY <1>6 DEF ReadBy
  <2>3. QED
    BY <2>1, <2>2
<1> HIDE DEF S, x, F
<1>8. PICK r : r = all
  OBVIOUS
<1>9. r = Def(r)
  BY <1>7, <1>8
<1> HIDE DEF all
<1>10. r[0] = x /\ \A n \in 1..N : r[n] = Source!Hop(r[n - 1], responses[n])
  <2>1. r = [n \in 0..N |-> IF n = 0 THEN x ELSE Source!Hop(r[n - 1], responses[n])]
    BY <1>9
  <2>2. \A n \in 0..N : r[n] = IF n = 0 THEN x ELSE Source!Hop(r[n - 1], responses[n])
    BY <2>1
  <2>3. QED
    BY <2>2
<1>11. r = [n \in 0..N |-> r[n]]
  BY <1>9
<1>12. r \in [0..N -> S]
  <2>1. x \in S /\ F \in Reading(N, S) /\ r[0] = x
    BY <1>4, <1>10
  <2>2. \A n \in 1..N : r[n - 1] \in S => r[n] = F[n][r[n - 1]]
    BY <1>5, <1>10
  <2>3. QED
    BY <1>11, <2>1, <2>2, ReadsAre
<1>13. Source!Fetched(responses) = r[N]
  BY <1>1, <1>8, Zenon DEF Source!Fetched, all, x, FetchStart
<1>14. QED
  BY <1>1, <1>10, <1>12, <1>13 DEF S, x

\* What a fetch has come to tells of the first n responses.
FetchTold(f, responses, n) ==
  /\ ~f.done => /\ f.hops = n /\ f.hops < MaxHops
                /\ \A i \in 1..n : responses[i].public /\ responses[i].status = "redirect"
  /\ f.ok => /\ f.done /\ f.hops \in 1..n /\ f.hops <= MaxHops /\ f.time < Deadline
             /\ responses[f.hops].status = "ok" /\ f.body = responses[f.hops].chunks
             /\ responses[f.hops].length \in {-1, Source!Size(f.body)} /\ Source!Size(f.body) <= MaxBody
             /\ \A i \in 1..f.hops : responses[i].public /\ (i < f.hops => responses[i].status = "redirect")

\* A body that is taken is the whole last answer of public addresses, for any responses (url_fetch.fetch).
THEOREM BodiesAreWhole ==
  ASSUME MaxHops \in Nat \ {0}, Deadline \in Nat, NEW responses \in Seq(Source!Response)
  PROVE  Source!BodyIsWhole(responses)
<1>1. PICK N \in Nat : N = Len(responses)
  OBVIOUS
<1>2. PICK g \in [0..N -> FetchState] :
        /\ g[0] = FetchStart /\ \A n \in 1..N : g[n] = Source!Hop(g[n - 1], responses[n])
        /\ Source!Fetch(responses) = IF g[N].done THEN g[N] ELSE Source!Failed
  BY <1>1, FetchIsRead DEF Source!Fetch
<1> DEFINE T == {n \in 0..N : FetchTold(g[n], responses, n)}
<1>3. 0 \in T
  <2>1. FetchTold(FetchStart, responses, 0)
    BY DEF FetchStart, FetchTold
  <2>2. QED
    BY <1>2, <2>1
<1>4. ASSUME NEW n \in 0..N, n \in T, n < N PROVE n + 1 \in T
  <2>1. n + 1 \in 1..N /\ n + 1 \in 0..N /\ (n + 1) - 1 = n
    BY <1>4
  <2>2. PICK f \in FetchState, r \in Source!Response, h \in FetchState : f = g[n] /\ r = responses[n + 1] /\ h = g[n + 1]
    BY <1>1, <2>1
  <2>3. h = Source!Hop(f, r)
    BY <1>2, <2>1, <2>2
  <2>4. FetchTold(f, responses, n)
    BY <1>4, <2>2
  <2>5. \A i \in 1..(n + 1) : i \in 1..n \/ i = n + 1
    OBVIOUS
  <2>6. CASE f.done
    <3>1. h = f
      BY <2>3, <2>6 DEF Source!Hop
    <3>2. QED
      BY <2>4, <2>6, <3>1, <2>1, <2>2 DEF FetchTold
  <2>7. CASE ~f.done /\ h = Source!Failed
    BY <2>7, <2>1, <2>2 DEF FetchTold, Source!Failed
  <2>8. CASE ~f.done /\ h # Source!Failed
    <3>1. /\ r.public /\ f.time + r.time < Deadline
          /\ \/ r.status = "redirect" /\ f.hops + 1 < MaxHops /\ h = [f EXCEPT !.hops = @ + 1, !.time = @ + r.time]
             \/ /\ r.status = "ok" /\ Source!Complete(r)
                /\ h = [done |-> TRUE, ok |-> TRUE, hops |-> f.hops + 1, time |-> f.time + r.time, body |-> r.chunks]
      <4>1. ~(f.time + r.time >= Deadline) => f.time + r.time < Deadline
        BY DEF FetchState, Source!Response
      <4>2. QED
        BY <2>3, <2>8, <4>1 DEF Source!Hop
    <3>2. f.hops = n /\ f.hops < MaxHops /\ ~f.ok /\ \A i \in 1..n : responses[i].public /\ responses[i].status = "redirect"
      BY <2>4, <2>8 DEF FetchTold
    <3>3. CASE h = [f EXCEPT !.hops = @ + 1, !.time = @ + r.time] /\ r.status = "redirect" /\ f.hops + 1 < MaxHops
      <4>1. ~h.done /\ ~h.ok /\ h.hops = n + 1
        BY <3>2, <3>3, <2>8 DEF FetchState
      <4>2. \A i \in 1..(n + 1) : responses[i].public /\ responses[i].status = "redirect"
        BY <2>2, <2>5, <3>1, <3>2, <3>3
      <4>3. FetchTold(h, responses, n + 1)
        BY <3>2, <3>3, <4>1, <4>2 DEF FetchTold
      <4>4. QED
        BY <2>1, <2>2, <4>3
    <3>4. CASE /\ r.status = "ok" /\ Source!Complete(r)
               /\ h = [done |-> TRUE, ok |-> TRUE, hops |-> f.hops + 1, time |-> f.time + r.time, body |-> r.chunks]
      <4>1. /\ h.done /\ h.ok /\ h.hops = n + 1 /\ h.time = f.time + r.time /\ h.body = r.chunks
            /\ h.hops \in 1..(n + 1) /\ h.hops <= MaxHops
        BY <3>2, <3>4
      <4>2. \A i \in 1..(n + 1) : responses[i].public /\ (i < n + 1 => responses[i].status = "redirect")
        <5>1. \A i \in 1..n : i < n + 1
          OBVIOUS
        <5>2. QED
          BY <2>2, <2>5, <3>1, <3>2
      <4>3. r.length \in {-1, Source!Size(h.body)} /\ Source!Size(h.body) <= MaxBody
        BY <3>4, <4>1 DEF Source!Complete
      <4>4. FetchTold(h, responses, n + 1)
        BY <2>2, <3>1, <3>4, <4>1, <4>2, <4>3 DEF FetchTold
      <4>5. QED
        BY <2>1, <2>2, <4>4
    <3>5. QED
      BY <3>1, <3>3, <3>4
  <2>9. QED
    BY <2>6, <2>7, <2>8
<1> HIDE DEF T
<1>5. N \in T
  <2>1. 0..N \subseteq T
    BY <1>3, <1>4, CountUp
  <2>2. QED
    BY <2>1
<1>6. FetchTold(g[N], responses, N)
  BY <1>5 DEF T
<1>7. CASE ~g[N].done \/ ~g[N].ok
  BY <1>2, <1>7 DEF Source!BodyIsWhole, Source!Failed
<1>8. CASE g[N].done /\ g[N].ok
  BY <1>2, <1>6, <1>8 DEF Source!BodyIsWhole, FetchTold
<1>9. QED
  BY <1>7, <1>8

-----------------------------------------------------------------------------
(* What is attached of a source.                                             *)

\* What is taken and what is said to be left out are the whole, for any lines, pages and choice of them
\* (extract.from_pdf, source_document.document).
THEOREM ExtractsSayAll ==
  ASSUME MaxPages \in Nat, MaxLines \in Nat, NEW first \in Nat, NEW last \in Nat, NEW lines \in Seq(Nat)
  PROVE  Source!NothingUnsaid(first, last, lines)
<1>1. PICK N \in Nat : N = Len(lines) /\ DOMAIN lines = 1..N
  OBVIOUS
<1>2. ASSUME Source!Document(lines, first, last).ok
      PROVE  LET d == Source!Document(lines, first, last) IN
             /\ Len(d.selected) + d.omitted = N
             /\ last = 0 => Len(d.selected) = MaxLines \/ first + Len(d.selected) - 1 = N
  <2>1. PICK end : end = Source!Chosen(first, last, N, MaxLines)
    OBVIOUS
  <2>2. end \in Int /\ (last = 0 => end = N \/ end = first + MaxLines - 1)
    BY <1>1, <2>1 DEF Source!Chosen
  <2>3. PICK d, chosen : d = Source!Document(lines, first, last) /\ chosen = SubSeq(lines, first, end)
    OBVIOUS
  <2>4. /\ 1 <= first /\ first <= end /\ end <= N
        /\ d = [ok |-> TRUE, selected |-> chosen, omitted |-> N - (end - first + 1)]
    BY <1>1, <1>2, <2>1, <2>3 DEF Source!Document
  <2>5. Len(chosen) = end - first + 1
    BY <1>1, <2>2, <2>3, <2>4
  <2>6. d.selected = chosen /\ d.omitted = N - (end - first + 1)
    BY <2>4
  <2>7. Len(d.selected) + d.omitted = N /\ first + Len(d.selected) - 1 = end
    BY <2>2, <2>5, <2>6
  <2>8. last = 0 => Len(d.selected) = MaxLines \/ first + Len(d.selected) - 1 = N
    BY <2>2, <2>5, <2>6, <2>7
  <2>9. QED
    BY <2>3, <2>7, <2>8
<1>3. ASSUME Source!Pages(first, last, N, lines).ok
      PROVE  LET p == Source!Pages(first, last, N, lines) IN
             /\ p.omitted = N - Cardinality(p.first..p.last)
             /\ p.empty \subseteq p.first..p.last /\ p.empty # p.first..p.last
  <2>1. PICK end : end = Source!Chosen(first, last, N, MaxPages)
    OBVIOUS
  <2>2. end \in Int
    BY <1>1, <2>1 DEF Source!Chosen
  <2> DEFINE none == {first + i - 1 : i \in {j \in DOMAIN lines : lines[j] = 0}}
  <2>3. /\ 1 <= first /\ first <= end /\ N = end - first + 1 /\ \E i \in DOMAIN lines : lines[i] # 0
        /\ Source!Pages(first, last, N, lines) =
             [ok |-> TRUE, first |-> first, last |-> end, omitted |-> N - (end - first + 1), empty |-> none]
    BY <1>1, <1>3, <2>1 DEF Source!Pages
  <2>4. Cardinality(first..end) = end - first + 1
    BY <2>2, <2>3, FS_Interval
  <2>5. none \subseteq first..end
    BY <1>1, <2>2, <2>3
  <2>6. PICK i \in 1..N : lines[i] # 0
    BY <1>1, <2>3
  <2>7. first + i - 1 \in first..end /\ first + i - 1 \notin none
    <3>1. \A j \in 1..N : first + j - 1 = first + i - 1 => j = i
      OBVIOUS
    <3>2. QED
      BY <1>1, <2>2, <2>3, <2>6, <3>1
  <2> HIDE DEF none
  <2>8. PICK p : p = Source!Pages(first, last, N, lines)
    OBVIOUS
  <2>9. p.first = first /\ p.last = end /\ p.omitted = N - (end - first + 1) /\ p.empty = none
    BY <2>3, <2>8
  <2>10. QED
    BY <2>4, <2>5, <2>7, <2>8, <2>9
<1>4. \A S : Source!Cardinality(S) = Cardinality(S)
  BY DEF Source!Cardinality, Cardinality
<1>5. QED
  BY <1>1, <1>2, <1>3, <1>4 DEF Source!NothingUnsaid

-----------------------------------------------------------------------------
(* The text of a page.                                                       *)

Names == {"p", "svg", "head", "body"}

\* A name that is hidden has a last place.
LEMMA LastIs ==
  ASSUME NEW T, NEW hidden \in Seq(T), NEW name, \E i \in 1..Len(hidden) : hidden[i] = name
  PROVE  LET last == Source!LastOf(hidden, name) IN
         /\ last \in 1..Len(hidden) /\ hidden[last] = name
         /\ \A j \in (last + 1)..Len(hidden) : hidden[j] # name
<1>1. PICK N \in Nat : N = Len(hidden)
  OBVIOUS
<1> DEFINE D == {N - i : i \in {j \in 1..N : hidden[j] = name}}
<1>2. D \subseteq Nat /\ D # {}
  BY <1>1
<1>3. IsWellFoundedOn(OpToRel(<, Nat), Nat)
  BY NatLessThanWellFounded
<1>4. PICK d \in D : \A e \in D : <<e, d>> \notin OpToRel(<, Nat)
  <2> HIDE DEF D
  <2>1. QED
    BY <1>2, <1>3, WFMin
<1>5. PICK i \in 1..N : hidden[i] = name /\ d = N - i
  BY <1>4
<1>6. ASSUME NEW j \in (i + 1)..N PROVE hidden[j] # name
  <2> SUFFICES ASSUME hidden[j] = name PROVE FALSE
    OBVIOUS
  <2>1. j \in 1..N /\ N - j \in Nat /\ N - j < d
    BY <1>5
  <2>2. N - j \in D
    BY <2>1
  <2>3. <<N - j, d>> \in OpToRel(<, Nat)
    BY <1>2, <1>4, <2>1 DEF OpToRel
  <2>4. QED
    BY <1>4, <2>2, <2>3
<1>7. \E k \in 1..Len(hidden) : hidden[k] = name /\ \A j \in (k + 1)..Len(hidden) : hidden[j] # name
  BY <1>1, <1>5, <1>6
<1>8. QED
  BY <1>7 DEF Source!LastOf

LEMMA HiddenIsNames ==
  ASSUME NEW hidden \in Seq(Names), NEW t \in Source!Token
  PROVE  Source!HiddenAfter(hidden, t) \in Seq(Names)
<1>1. CASE t.kind = "open"
  <2>1. Source!Name(t) \in Names
    BY <1>1 DEF Source!Token, Source!Name, Names
  <2>2. \/ Source!HiddenAfter(hidden, t) = <<>>
        \/ Source!HiddenAfter(hidden, t) = Append(hidden, Source!Name(t))
        \/ Source!HiddenAfter(hidden, t) = hidden
    BY <1>1 DEF Source!HiddenAfter
  <2>3. Append(hidden, Source!Name(t)) \in Seq(Names) /\ <<>> \in Seq(Names) /\ hidden \in Seq(Names)
    BY <2>1
  <2>4. QED
    BY <2>2, <2>3, Zenon
<1>2. CASE t.kind = "close" /\ Source!Name(t) \in Source!Range(hidden)
  <2>1. Source!Range(hidden) = {hidden[j] : j \in DOMAIN hidden} /\ DOMAIN hidden = 1..Len(hidden)
    BY DEF Source!Range
  <2>2. PICK i \in 1..Len(hidden) : hidden[i] = Source!Name(t)
    BY <1>2, <2>1
  <2>3. PICK k \in 1..Len(hidden) : k = Source!LastOf(hidden, Source!Name(t))
    BY <2>2, LastIs
  <2>4. Source!HiddenAfter(hidden, t) = SubSeq(hidden, 1, k - 1)
    BY <1>2, <2>3 DEF Source!HiddenAfter
  <2>5. QED
    BY <2>4
<1>3. CASE t.kind # "open" /\ ~(t.kind = "close" /\ Source!Name(t) \in Source!Range(hidden))
  BY <1>3 DEF Source!HiddenAfter
<1>4. QED
  BY <1>1, <1>2, <1>3

PageState == [hidden : Seq(Names), shown : SUBSET Nat, at : Nat]

PageStart == [hidden |-> <<>>, shown |-> {}, at |-> 1]

\* What has been read of a page after each token.
LEMMA PageIsRead ==
  ASSUME NEW page \in Seq(Source!Token)
  PROVE  \E g \in [0..Len(page) -> PageState] :
           /\ g[0] = PageStart /\ \A n \in 1..Len(page) : g[n] = Source!Parse(g[n - 1], page[n])
           /\ Source!Parsed(page) = g[Len(page)]
<1> DEFINE S == PageState
           x == PageStart
<1>1. PICK N \in Nat : N = Len(page)
  OBVIOUS
<1> DEFINE F == [n \in 1..N |-> [s \in S |-> Source!Parse(s, page[n])]]
           Def(g) == [n \in 0..N |-> IF n = 0 THEN x ELSE Source!Parse(g[n - 1], page[n])]
           all == CHOOSE g : g = Def(g)
<1>2. ASSUME NEW s \in S, NEW e \in Source!Token PROVE Source!Parse(s, e) \in S
  <2>1. s.hidden \in Seq(Names) /\ s.shown \in SUBSET Nat /\ s.at \in Nat
    BY DEF PageState
  <2>2. Source!HiddenAfter(s.hidden, e) \in Seq(Names)
    BY <2>1, HiddenIsNames
  <2>3. QED
    BY <2>1, <2>2 DEF Source!Parse, PageState
<1>3. \A n \in 1..N : page[n] \in Source!Token
  BY <1>1
<1>4. x \in S /\ F \in Reading(N, S)
  <2>1. x \in S
    BY DEF PageState, PageStart
  <2>2. QED
    BY <1>2, <1>3, <2>1 DEF Reading
<1>5. ASSUME NEW s \in S, NEW n \in 1..N PROVE F[n][s] = Source!Parse(s, page[n])
  OBVIOUS
<1>6. PICK g : ReadBy(g, N, S, x, F)
  <2> HIDE DEF S, x, F
  <2>1. QED
    BY <1>4, ReadsExist
<1>7. g = Def(g)
  <2> HIDE DEF S, x, F
  <2>1. ASSUME NEW n \in 0..N PROVE g[n] = IF n = 0 THEN x ELSE Source!Parse(g[n - 1], page[n])
    <3>1. n # 0 => n \in 1..N /\ n - 1 \in 0..N
      OBVIOUS
    <3>2. QED
      BY <3>1, <1>5, <1>6 DEF ReadBy
  <2>2. g = [n \in 0..N |-> g[n]]
    BY <1>6 DEF ReadBy
  <2>3. QED
    BY <2>1, <2>2
<1> HIDE DEF S, x, F
<1>8. PICK r : r = all
  OBVIOUS
<1>9. r = Def(r)
  BY <1>7, <1>8
<1> HIDE DEF all
<1>10. r[0] = x /\ \A n \in 1..N : r[n] = Source!Parse(r[n - 1], page[n])
  <2>1. r = [n \in 0..N |-> IF n = 0 THEN x ELSE Source!Parse(r[n - 1], page[n])]
    BY <1>9
  <2>2. \A n \in 0..N : r[n] = IF n = 0 THEN x ELSE Source!Parse(r[n - 1], page[n])
    BY <2>1
  <2>3. QED
    BY <2>2
<1>11. r = [n \in 0..N |-> r[n]]
  BY <1>9
<1>12. r \in [0..N -> S]
  <2>1. x \in S /\ F \in Reading(N, S) /\ r[0] = x
    BY <1>4, <1>10
  <2>2. \A n \in 1..N : r[n - 1] \in S => r[n] = F[n][r[n - 1]]
    BY <1>5, <1>10
  <2>3. QED
    BY <1>11, <2>1, <2>2, ReadsAre
<1>13. Source!Parsed(page) = r[N]
  BY <1>1, <1>8, Zenon DEF Source!Parsed, all, x, PageStart
<1>14. QED
  BY <1>1, <1>10, <1>12, <1>13 DEF S, x

OpenState == Seq(Source!Token \union {Source!Bad})

OpenStart == <<>>

\* The tags that are open after each token.
LEMMA OpenIsRead ==
  ASSUME NEW page \in Seq(Source!Token)
  PROVE  \E g \in [0..Len(page) -> OpenState] :
           /\ g[0] = OpenStart /\ \A n \in 1..Len(page) : g[n] = Source!AfterTag(g[n - 1], page[n])
           /\ \A i \in 1..(Len(page) + 1) : Source!OpenBefore(page, i) = g[i - 1]
<1> DEFINE S == OpenState
           x == OpenStart
<1>1. PICK N \in Nat : N = Len(page)
  OBVIOUS
<1> DEFINE F == [n \in 1..N |-> [s \in S |-> Source!AfterTag(s, page[n])]]
           Def(g) == [n \in 0..N |-> IF n = 0 THEN x ELSE Source!AfterTag(g[n - 1], page[n])]
           all == CHOOSE g : g = Def(g)
<1>2. ASSUME NEW s \in S, NEW e \in Source!Token PROVE Source!AfterTag(s, e) \in S
  <2>1. PICK Tags : Tags = Source!Token \union {Source!Bad}
    OBVIOUS
  <2>2. s \in Seq(Tags) /\ e \in Tags /\ Source!Bad \in Tags
    BY <2>1 DEF OpenState
  <2>3. Source!AfterTag(s, e) \in {<<e>>, <<Source!Bad>>, Append(s, e), s} \/ (s # <<>> /\ Source!AfterTag(s, e) = Source!Front(s))
    BY DEF Source!AfterTag, Source!Token
  <2>4. s # <<>> => Source!Front(s) \in Seq(Tags)
    BY <2>2 DEF Source!Front
  <2>5. /\ <<e>> \in Seq(Tags) /\ <<Source!Bad>> \in Seq(Tags) /\ Append(s, e) \in Seq(Tags)
    BY <2>2
  <2>6. QED
    BY <2>1, <2>2, <2>3, <2>4, <2>5 DEF OpenState
<1>3. \A n \in 1..N : page[n] \in Source!Token
  BY <1>1
<1>4. x \in S /\ F \in Reading(N, S)
  <2>1. x \in S
    BY DEF OpenState, OpenStart
  <2>2. QED
    BY <1>2, <1>3, <2>1 DEF Reading
<1>5. ASSUME NEW s \in S, NEW n \in 1..N PROVE F[n][s] = Source!AfterTag(s, page[n])
  OBVIOUS
<1>6. PICK g : ReadBy(g, N, S, x, F)
  <2> HIDE DEF S, x, F
  <2>1. QED
    BY <1>4, ReadsExist
<1>7. g = Def(g)
  <2> HIDE DEF S, x, F
  <2>1. ASSUME NEW n \in 0..N PROVE g[n] = IF n = 0 THEN x ELSE Source!AfterTag(g[n - 1], page[n])
    <3>1. n # 0 => n \in 1..N /\ n - 1 \in 0..N
      OBVIOUS
    <3>2. QED
      BY <3>1, <1>5, <1>6 DEF ReadBy
  <2>2. g = [n \in 0..N |-> g[n]]
    BY <1>6 DEF ReadBy
  <2>3. QED
    BY <2>1, <2>2
<1> HIDE DEF S, x, F
<1>8. PICK r : r = all
  OBVIOUS
<1>9. r = Def(r)
  BY <1>7, <1>8
<1> HIDE DEF all
<1>10. r[0] = x /\ \A n \in 1..N : r[n] = Source!AfterTag(r[n - 1], page[n])
  <2>1. r = [n \in 0..N |-> IF n = 0 THEN x ELSE Source!AfterTag(r[n - 1], page[n])]
    BY <1>9
  <2>2. \A n \in 0..N : r[n] = IF n = 0 THEN x ELSE Source!AfterTag(r[n - 1], page[n])
    BY <2>1
  <2>3. QED
    BY <2>2
<1>11. r = [n \in 0..N |-> r[n]]
  BY <1>9
<1>12. r \in [0..N -> S]
  <2>1. x \in S /\ F \in Reading(N, S) /\ r[0] = x
    BY <1>4, <1>10
  <2>2. \A n \in 1..N : r[n - 1] \in S => r[n] = F[n][r[n - 1]]
    BY <1>5, <1>10
  <2>3. QED
    BY <1>11, <2>1, <2>2, ReadsAre
<1>13. \A i \in 1..(N + 1) : Source!OpenBefore(page, i) = r[i - 1]
  BY <1>1, <1>8, Zenon DEF Source!OpenBefore, all, x, OpenStart
<1>14. QED
  BY <1>1, <1>10, <1>12, <1>13 DEF S, x

\* What is hidden are the names of the open tags from the first one on that hides.
HiddenOf(open, hidden) ==
  /\ Len(hidden) <= Len(open)
  /\ \A j \in 1..Len(hidden) : hidden[j] = Source!Name(open[Len(open) - Len(hidden) + j])
  /\ \A i \in 1..(Len(open) - Len(hidden)) : ~Source!Hides(open[i])
  /\ hidden # <<>> => Source!Hides(open[Len(open) - Len(hidden) + 1])

LEMMA OneMore ==
  ASSUME NEW T, NEW s \in Seq(T), NEW e \in T
  PROVE  /\ Append(s, e) \in Seq(T) /\ Len(Append(s, e)) = Len(s) + 1 /\ Append(s, e)[Len(s) + 1] = e
         /\ \A i \in 1..Len(s) : Append(s, e)[i] = s[i]
OBVIOUS

LEMMA OneLess ==
  ASSUME NEW T, NEW s \in Seq(T), Len(s) > 0
  PROVE  /\ SubSeq(s, 1, Len(s) - 1) \in Seq(T) /\ Len(SubSeq(s, 1, Len(s) - 1)) = Len(s) - 1
         /\ \A i \in 1..(Len(s) - 1) : SubSeq(s, 1, Len(s) - 1)[i] = s[i]
<1>1. PICK m \in Nat : m = Len(s)
  OBVIOUS
<1>2. SubSeq(s, 1, m - 1) \in Seq(T) /\ Len(SubSeq(s, 1, m - 1)) = m - 1
  BY <1>1
<1>3. \A i \in 1..(m - 1) : SubSeq(s, 1, m - 1)[i] = s[i]
  BY <1>1
<1>4. QED
  BY <1>1, <1>2, <1>3

\* A tag that is opened or closed where it may keeps that so.
LEMMA HidingKept ==
  ASSUME NEW open \in Seq(Source!Token), NEW hidden \in Seq(Names), NEW t \in Source!Token, HiddenOf(open, hidden),
         Source!AfterTag(open, t) # <<Source!Bad>>
  PROVE  HiddenOf(Source!AfterTag(open, t), Source!HiddenAfter(hidden, t))
<1>1. PICK m \in Nat, k \in Nat : m = Len(open) /\ k = Len(hidden)
  OBVIOUS
<1>2. /\ k <= m /\ (\A j \in 1..k : hidden[j] = Source!Name(open[m - k + j])) /\ (\A i \in 1..(m - k) : ~Source!Hides(open[i]))
      /\ (k > 0 => Source!Hides(open[m - k + 1]))
  <2>1. k > 0 => hidden # <<>>
    BY <1>1
  <2>2. QED
    BY <1>1, <2>1 DEF HiddenOf
<1>3. (k = 0 <=> hidden = <<>>) /\ (m = 0 <=> open = <<>>)
  BY <1>1
<1>4. \A n \in Source!Range(hidden) : \E j \in 1..k : hidden[j] = n
  BY <1>1 DEF Source!Range
<1>5. \A j \in 1..k : hidden[j] \in Source!Range(hidden)
  BY <1>1 DEF Source!Range
<1>6. CASE t.kind = "open" /\ t.tag = "body"
  <2>1. Source!AfterTag(open, t) = <<t>> /\ (m = 0 \/ Head(open).tag = "head")
    BY <1>3, <1>6 DEF Source!AfterTag
  <2>2. ~Source!Hides(t)
    BY <1>6 DEF Source!Hides
  <2>3. CASE m = 0
    <3>1. hidden = <<>>
      BY <1>2, <1>3, <2>3
    <3>2. Source!HiddenAfter(hidden, t) = <<>>
      BY <1>6, <2>2, <3>1 DEF Source!HiddenAfter
    <3>3. QED
      BY <2>1, <2>2, <3>2 DEF HiddenOf
  <2>4. CASE m > 0 /\ Head(open).tag = "head"
    <3>1. open[1].tag = "head" /\ 1 \in 1..m
      BY <1>1, <2>4
    <3>2. Source!Hides(open[1]) /\ Source!Name(open[1]) = "head"
      BY <3>1 DEF Source!Hides, Source!Name
    <3>3. m - k = 0
      BY <1>2, <3>2
    <3>4. hidden[1] = "head" /\ 1 \in 1..k
      BY <1>2, <2>4, <3>2, <3>3
    <3>5. Source!HiddenAfter(hidden, t) = <<>>
      BY <1>5, <1>6, <3>4 DEF Source!HiddenAfter
    <3>6. QED
      BY <2>1, <2>2, <3>5 DEF HiddenOf
  <2>5. QED
    BY <2>1, <2>3, <2>4
<1>7. CASE t.kind = "open" /\ t.tag # "body" /\ (t.tag = "head" => m = 0)
  <2>1. Source!AfterTag(open, t) = Append(open, t)
    <3>1. CASE t.tag = "head"
      <4>1. open = <<>> /\ Append(<<>>, t) = <<t>>
        BY <1>3, <1>7, <3>1
      <4>2. QED
        BY <1>7, <3>1, <4>1 DEF Source!AfterTag
    <3>2. CASE t.tag # "head"
      BY <1>7, <3>2 DEF Source!AfterTag
    <3>3. QED
      BY <3>1, <3>2
  <2>2. PICK p \in Seq(Source!Token) : p = Append(open, t) /\ Len(p) = m + 1 /\ p[m + 1] = t /\ \A i \in 1..m : p[i] = open[i]
    <3>1. PICK p : p = Append(open, t)
      OBVIOUS
    <3>2. p \in Seq(Source!Token) /\ Len(p) = m + 1 /\ p[m + 1] = t /\ \A i \in 1..m : p[i] = open[i]
      BY <1>1, <3>1, OneMore
    <3>3. QED
      BY <3>1, <3>2
  <2>3. CASE Source!Hides(t) \/ k > 0
    <3>1. Source!HiddenAfter(hidden, t) = Append(hidden, Source!Name(t))
      BY <1>3, <1>7, <2>3 DEF Source!HiddenAfter
    <3>2. Source!Name(t) \in Names
      BY <1>7 DEF Source!Token, Source!Name, Names
    <3>3. PICK h \in Seq(Names) : /\ h = Append(hidden, Source!Name(t)) /\ Len(h) = k + 1
                                  /\ h[k + 1] = Source!Name(t) /\ \A j \in 1..k : h[j] = hidden[j]
      <4>1. PICK h : h = Append(hidden, Source!Name(t))
        OBVIOUS
      <4>2. h \in Seq(Names) /\ Len(h) = k + 1 /\ h[k + 1] = Source!Name(t) /\ \A j \in 1..k : h[j] = hidden[j]
        BY <1>1, <3>2, <4>1, OneMore
      <4>3. QED
        BY <4>1, <4>2
    <3>4. \A j \in 1..(k + 1) : h[j] = Source!Name(p[m - k + j])
      <4>1. ASSUME NEW j \in 1..k PROVE m - k + j \in 1..m
        BY <1>2
      <4>2. m - k + (k + 1) = m + 1
        OBVIOUS
      <4>3. \A j \in 1..(k + 1) : j \in 1..k \/ j = k + 1
        OBVIOUS
      <4>4. \A j \in 1..k : h[j] = Source!Name(p[m - k + j])
        BY <1>2, <2>2, <3>3, <4>1
      <4>5. h[k + 1] = Source!Name(p[m - k + (k + 1)])
        BY <2>2, <3>3, <4>2
      <4>6. QED
        BY <4>3, <4>4, <4>5
    <3>5. \A i \in 1..(m - k) : ~Source!Hides(p[i])
      BY <1>2, <2>2
    <3>6. Source!Hides(p[m - k + 1])
      <4>1. CASE k > 0
        <5>1. m - k + 1 \in 1..m
          BY <1>2, <4>1
        <5>2. QED
          BY <1>2, <2>2, <4>1, <5>1
      <4>2. CASE k = 0
        BY <2>2, <2>3, <4>2
      <4>3. QED
        BY <4>1, <4>2
    <3>7. (m + 1) - (k + 1) = m - k /\ k + 1 <= m + 1
      BY <1>2
    <3>8. HiddenOf(p, h)
      BY <2>2, <3>3, <3>4, <3>5, <3>6, <3>7 DEF HiddenOf
    <3>9. QED
      BY <2>1, <2>2, <3>1, <3>3, <3>8
  <2>4. CASE ~Source!Hides(t) /\ k = 0
    <3>1. Source!HiddenAfter(hidden, t) = <<>>
      BY <1>3, <1>7, <2>4 DEF Source!HiddenAfter
    <3>2. \A i \in 1..(m + 1) : ~Source!Hides(p[i])
      <4>1. \A i \in 1..(m + 1) : i \in 1..m \/ i = m + 1
        OBVIOUS
      <4>2. \A i \in 1..m : ~Source!Hides(open[i])
        BY <1>2, <2>4
      <4>3. QED
        BY <2>2, <2>4, <4>1, <4>2
    <3>3. HiddenOf(p, <<>>)
      BY <2>2, <3>2 DEF HiddenOf
    <3>4. QED
      BY <2>1, <2>2, <3>1, <3>3
  <2>5. QED
    BY <2>3, <2>4
<1>8. CASE t.kind = "close"
  <2>1. /\ m > 0 /\ Source!Name(open[m]) = t.tag /\ Source!Name(t) = t.tag
        /\ Source!AfterTag(open, t) = SubSeq(open, 1, m - 1)
    <3>1. open # <<>> /\ Source!Name(Source!Last(open)) = t.tag /\ Source!AfterTag(open, t) = Source!Front(open)
      BY <1>8 DEF Source!AfterTag
    <3>2. Source!Last(open) = open[m] /\ Source!Front(open) = SubSeq(open, 1, m - 1)
      BY <1>1 DEF Source!Last, Source!Front
    <3>3. Source!Name(t) = t.tag
      BY <1>8 DEF Source!Name, Source!Token
    <3>4. QED
      BY <1>3, <3>1, <3>2, <3>3
  <2>2. PICK p \in Seq(Source!Token) : p = SubSeq(open, 1, m - 1) /\ Len(p) = m - 1 /\ \A i \in 1..(m - 1) : p[i] = open[i]
    <3>1. PICK p : p = SubSeq(open, 1, m - 1)
      OBVIOUS
    <3>2. p \in Seq(Source!Token) /\ Len(p) = m - 1 /\ \A i \in 1..(m - 1) : p[i] = open[i]
      BY <1>1, <2>1, <3>1, OneLess
    <3>3. QED
      BY <3>1, <3>2
  <2>3. CASE k > 0
    <3>1. hidden[k] = Source!Name(t) /\ k \in 1..k
      <4>1. m - k + k = m /\ k \in 1..k
        BY <2>3
      <4>2. QED
        BY <1>2, <2>1, <4>1
    <3>2. Source!LastOf(hidden, Source!Name(t)) = k
      <4>1. PICK last : last = Source!LastOf(hidden, Source!Name(t))
        OBVIOUS
      <4>2. last \in 1..k /\ \A j \in (last + 1)..k : hidden[j] # Source!Name(t)
        BY <1>1, <3>1, <4>1, LastIs
      <4>3. last < k => k \in (last + 1)..k
        BY <4>2
      <4>4. QED
        BY <3>1, <4>1, <4>2, <4>3
    <3>3. Source!HiddenAfter(hidden, t) = SubSeq(hidden, 1, k - 1)
      BY <1>5, <1>8, <3>1, <3>2 DEF Source!HiddenAfter
    <3>4. PICK h \in Seq(Names) : h = SubSeq(hidden, 1, k - 1) /\ Len(h) = k - 1 /\ \A j \in 1..(k - 1) : h[j] = hidden[j]
      <4>1. PICK h : h = SubSeq(hidden, 1, k - 1)
        OBVIOUS
      <4>2. h \in Seq(Names) /\ Len(h) = k - 1 /\ \A j \in 1..(k - 1) : h[j] = hidden[j]
        BY <1>1, <2>3, <4>1, OneLess
      <4>3. QED
        BY <4>1, <4>2
    <3>5. (m - 1) - (k - 1) = m - k /\ k - 1 <= m - 1
      BY <1>2
    <3>6. \A j \in 1..(k - 1) : h[j] = Source!Name(p[m - k + j])
      <4>1. ASSUME NEW j \in 1..(k - 1) PROVE m - k + j \in 1..(m - 1) /\ j \in 1..k
        BY <1>2
      <4>2. QED
        BY <1>2, <2>2, <3>4, <4>1
    <3>7. \A i \in 1..(m - k) : ~Source!Hides(p[i])
      <4>1. \A i \in 1..(m - k) : i \in 1..(m - 1)
        BY <2>3
      <4>2. QED
        BY <1>2, <2>2, <4>1
    <3>8. h # <<>> => Source!Hides(p[m - k + 1])
      <4>1. h # <<>> => m - k + 1 \in 1..(m - 1)
        BY <1>2, <3>4
      <4>2. QED
        BY <1>2, <2>2, <2>3, <4>1
    <3>9. HiddenOf(p, h)
      BY <2>2, <3>4, <3>5, <3>6, <3>7, <3>8 DEF HiddenOf
    <3>10. QED
      BY <2>1, <2>2, <3>3, <3>4, <3>9
  <2>4. CASE k = 0
    <3>1. hidden = <<>> /\ Source!Range(hidden) = {}
      BY <1>3, <1>4, <2>4
    <3>2. Source!HiddenAfter(hidden, t) = <<>>
      BY <1>8, <3>1 DEF Source!HiddenAfter
    <3>3. \A i \in 1..(m - 1) : ~Source!Hides(p[i])
      <4>1. \A i \in 1..(m - 1) : i \in 1..(m - k)
        BY <2>4
      <4>2. QED
        BY <1>2, <2>2, <4>1
    <3>4. HiddenOf(p, <<>>)
      BY <2>1, <2>2, <3>3 DEF HiddenOf
    <3>5. QED
      BY <2>1, <2>2, <3>2, <3>4
  <2>5. QED
    BY <2>3, <2>4
<1>9. CASE t.kind \notin {"open", "close"}
  <2>1. Source!AfterTag(open, t) = open /\ Source!HiddenAfter(hidden, t) = hidden
    BY <1>9 DEF Source!AfterTag, Source!HiddenAfter
  <2>2. QED
    BY <2>1
<1>10. t.kind = "open" /\ t.tag = "head" => m = 0
  BY <1>3 DEF Source!AfterTag
<1>11. QED
  BY <1>6, <1>7, <1>8, <1>9, <1>10

\* Of a page whose tags are nested exactly the texts are shown that nothing around them hides (extract._HTML).
THEOREM PagesAreShown ==
  ASSUME NEW page \in Seq(Source!Token)
  PROVE  Source!PageIsShown(page)
<1> SUFFICES ASSUME Source!Nested(page)
             PROVE  Source!Shown(page) = {i \in 1..Len(page) : /\ page[i].kind = "text"
                                                             /\ \A t \in Source!Range(Source!OpenBefore(page, i)) : ~Source!Hides(t)}
  BY DEF Source!PageIsShown
<1>1. PICK N \in Nat : N = Len(page)
  OBVIOUS
<1>2. PICK f \in [0..N -> PageState] :
        f[0] = PageStart /\ (\A n \in 1..N : f[n] = Source!Parse(f[n - 1], page[n])) /\ Source!Parsed(page) = f[N]
  BY <1>1, PageIsRead
<1>3. PICK States : States = OpenState
  OBVIOUS
<1>4. PICK g \in [0..N -> States] :
        /\ g[0] = OpenStart /\ \A n \in 1..N : g[n] = Source!AfterTag(g[n - 1], page[n])
        /\ \A i \in 1..(N + 1) : Source!OpenBefore(page, i) = g[i - 1]
  BY <1>1, <1>3, OpenIsRead
<1>5. ASSUME NEW n \in 0..N PROVE g[n] \in Seq(Source!Token) /\ g[n] # <<Source!Bad>>
  <2>1. n + 1 \in 1..(N + 1) /\ (n + 1) - 1 = n
    OBVIOUS
  <2>2. Source!OpenBefore(page, n + 1) = g[n]
    BY <1>4, <2>1
  <2>3. Source!Bad \notin Source!Range(g[n])
    BY <1>1, <2>1, <2>2 DEF Source!Nested
  <2>4. PICK s : s = g[n]
    OBVIOUS
  <2>5. s \in Seq(Source!Token \union {Source!Bad})
    <3>1. s \in States
      BY <1>4, <2>4
    <3>2. QED
      BY <1>3, <3>1 DEF OpenState
  <2>6. \A i \in 1..Len(s) : s[i] # Source!Bad /\ s[i] \in Source!Token \union {Source!Bad}
    BY <2>3, <2>4, <2>5 DEF Source!Range
  <2>7. s \in Seq(Source!Token)
    <3>1. PICK Tags, Texts : Tags = Source!Token \union {Source!Bad} /\ Texts = Source!Token
      OBVIOUS
    <3>2. s \in Seq(Tags) /\ \A i \in 1..Len(s) : s[i] \in Texts
      BY <2>5, <2>6, <3>1
    <3>3. s \in Seq(Texts)
      BY <3>2
    <3>4. QED
      BY <3>1, <3>3
  <2>8. s # <<Source!Bad>>
    BY <2>6
  <2>9. QED
    BY <2>4, <2>7, <2>8
<1> DEFINE Free(n) == \A t \in Source!Range(g[n]) : ~Source!Hides(t)
           Told(n) == /\ HiddenOf(g[n], f[n].hidden) /\ f[n].at = n + 1
                      /\ f[n].shown = {i \in 1..n : page[i].kind = "text" /\ Free(i - 1)}
           T == {n \in 0..N : Told(n)}
<1>6. 0 \in T
  <2>1. HiddenOf(<<>>, <<>>) /\ 1..0 = {}
    BY DEF HiddenOf
  <2>2. QED
    BY <1>2, <1>4, <2>1 DEF PageStart, OpenStart
<1>7. ASSUME NEW n \in 0..N, n \in T, n < N PROVE n + 1 \in T
  <2>1. n + 1 \in 1..N /\ n + 1 \in 0..N /\ (n + 1) - 1 = n
    BY <1>7
  <2>2. PICK s \in PageState, e \in Source!Token, o \in Seq(Source!Token) : s = f[n] /\ e = page[n + 1] /\ o = g[n]
    BY <1>1, <1>2, <1>5, <2>1
  <2>3. f[n + 1] = Source!Parse(s, e) /\ g[n + 1] = Source!AfterTag(o, e)
    BY <1>2, <1>4, <2>1, <2>2
  <2>4. HiddenOf(o, s.hidden) /\ s.at = n + 1 /\ s.shown = {i \in 1..n : page[i].kind = "text" /\ Free(i - 1)} /\ s.hidden \in Seq(Names)
    BY <1>7, <2>2 DEF PageState
  <2>5. HiddenOf(g[n + 1], Source!HiddenAfter(s.hidden, e))
    BY <1>5, <2>1, <2>3, <2>4, HidingKept
  <2>6. s.hidden = <<>> <=> Free(n)
    <3>1. PICK m \in Nat, k \in Nat : m = Len(o) /\ k = Len(s.hidden)
      BY <2>4
    <3>2. k = 0 <=> s.hidden = <<>>
      BY <2>4, <3>1
    <3>3. /\ k <= m /\ (\A i \in 1..(m - k) : ~Source!Hides(o[i])) /\ (k > 0 => Source!Hides(o[m - k + 1]))
      <4>1. PICK h \in Seq(Names) : h = s.hidden /\ k = Len(h) /\ HiddenOf(o, h)
        BY <2>4, <3>1
      <4>2. k > 0 => h # <<>>
        BY <4>1
      <4>3. QED
        BY <3>1, <4>1, <4>2 DEF HiddenOf
    <3>4. Free(n) <=> \A i \in 1..m : ~Source!Hides(o[i])
      <4>1. DOMAIN o = 1..m
        BY <3>1
      <4>2. Source!Range(o) = {o[i] : i \in 1..m}
        BY <4>1 DEF Source!Range
      <4>3. Free(n) <=> \A t \in Source!Range(o) : ~Source!Hides(t)
        BY <2>2
      <4>4. QED
        BY <4>2, <4>3
    <3>5. k > 0 => m - k + 1 \in 1..m
      BY <3>3
    <3>6. k = 0 => 1..m = 1..(m - k)
      OBVIOUS
    <3> HIDE DEF Free
    <3>7. QED
      BY <3>2, <3>3, <3>4, <3>5, <3>6
  <2> HIDE DEF Free
  <2>7. f[n + 1].shown = {i \in 1..(n + 1) : page[i].kind = "text" /\ Free(i - 1)}
    <3>1. f[n + 1].shown = IF e.kind = "text" /\ s.hidden = <<>> THEN s.shown \union {n + 1} ELSE s.shown
      BY <2>3, <2>4 DEF Source!Parse
    <3>2. \A i : i \in 1..(n + 1) <=> i \in 1..n \/ i = n + 1
      OBVIOUS
    <3>3. n + 1 \notin 1..n
      OBVIOUS
    <3>4. \A i \in 1..(n + 1) : i = n + 1 => page[i] = e /\ i - 1 = n
      BY <2>2
    <3>5. ASSUME NEW i \in 1..(n + 1) PROVE i \in f[n + 1].shown <=> page[i].kind = "text" /\ Free(i - 1)
      <4>1. CASE i = n + 1
        <5>1. i \notin s.shown
          BY <2>4, <3>3, <4>1
        <5>2. QED
          BY <2>6, <3>1, <3>4, <4>1, <5>1
      <4>2. CASE i # n + 1
        <5>1. i \in 1..n
          BY <4>2
        <5>2. i \in s.shown <=> page[i].kind = "text" /\ Free(i - 1)
          BY <2>4, <5>1
        <5>3. QED
          BY <3>1, <4>2, <5>2
      <4>3. QED
        BY <4>1, <4>2
    <3>6. f[n + 1].shown \subseteq 1..(n + 1)
      BY <2>4, <3>1, <3>2
    <3>7. QED
      BY <3>5, <3>6
  <2>8. f[n + 1].hidden = Source!HiddenAfter(s.hidden, e) /\ f[n + 1].at = (n + 1) + 1
    BY <2>3, <2>4 DEF Source!Parse
  <2>9. QED
    BY <2>1, <2>5, <2>7, <2>8
<1> HIDE DEF T
<1>8. N \in T
  <2>1. 0..N \subseteq T
    BY <1>6, <1>7, CountUp
  <2>2. QED
    BY <2>1
<1>9. f[N].shown = {i \in 1..N : page[i].kind = "text" /\ Free(i - 1)}
  BY <1>8 DEF T
<1>10. \A i \in 1..N : Source!OpenBefore(page, i) = g[i - 1]
  BY <1>4
<1>11. QED
  BY <1>1, <1>2, <1>9, <1>10 DEF Source!Shown

-----------------------------------------------------------------------------
(* In Surroundings.                                                          *)

\* A part that computes something is given what Init chose for it.
LEMMA InputStays == PartsSpec => [](input \in Input)
<1>1. PartsInit => input \in Input
  BY DEF PartsInit
<1>2. input \in Input /\ [PartsNext]_partsVars => (input \in Input)'
  <2> SUFFICES ASSUME input \in Input, [PartsNext]_partsVars PROVE (input \in Input)'
    OBVIOUS
  <2>1. UNCHANGED <<part, input>>
    BY DEF PartsNext, RosterNext, LauncherNext, LedgerNext, QuotaNext, ServerNext, CallNext, PagesNext, partsVars
  <2> QED
    BY <2>1 DEF Input
<1> QED
  BY <1>1, <1>2, PTL DEF PartsSpec

\* Whatever a box is asked for, it is sealed or refused, and the boxes of both CLIs are not (isolation.plan,
\* _validate_mounts, participant_mounts).
THEOREM SealsHold == PartsSpec => []SealHolds
<1>1. input \in Input => SealHolds
  <2> SUFFICES ASSUME part = "boxes", input \in Box!Request
               PROVE  Box!Sealed(input) /\ \A cli \in {"claude-code", "codex"} : Box!Usable(cli, input.host)
    BY DEF SealHolds, Input
  <2>1. BoxOf(input, BoxNames)
    BY RequestIs
  <2> QED
    BY <2>1, BoxesStaySealed, ParticipantsGetABox
<1> QED
  BY <1>1, InputStays, PTL

\* An answer is accepted of a run exactly when its whole output says that this is its answer, whatever the run
\* reports and however long the output is (adapters.interpret, claude_stream, domain.acceptance).
THEOREM OutputsAreReadWhole == PartsSpec => []AnswersAreWhole
<1>1. input \in Input => AnswersAreWhole
  <2> SUFFICES ASSUME part = "answers", input \in AnyOutput
               PROVE  Out!Whole(input.cli, input.run, input.out)
    BY DEF AnswersAreWhole, Input
  <2>1. /\ input.cli \in {"codex", "claude-code"}
        /\ input.run \in Out!Run
        /\ input.out \in Seq(Events(input.cli))
    BY InputsAllowed DEF OutputsAllowed, Events
  <2> QED
    BY <2>1, AnswersStayWhole
<1> QED
  BY <1>1, InputStays, PTL

\* Whatever source is read, what is taken of it is whole, and exactly what it shows (extract._HTML, url_fetch.fetch,
\* source_document.document).
THEOREM SourcesAreReadWhole == PartsSpec => []ExtractsAreWhole
<1>1. input \in Input => ExtractsAreWhole
  <2> SUFFICES ASSUME part = "sources", input \in AnySource
               PROVE  IF "page" \in DOMAIN input THEN Source!PageIsShown(input.page)
                      ELSE IF "responses" \in DOMAIN input THEN Source!BodyIsWhole(input.responses)
                      ELSE Source!NothingUnsaid(input.first, input.last, input.lines)
    BY DEF ExtractsAreWhole, Input
  <2>1. /\ MaxHops \in Nat \ {0} /\ Deadline \in Nat /\ MaxPages \in Nat /\ MaxLines \in Nat
        /\ IF "page" \in DOMAIN input THEN input.page \in Seq(Source!Token)
           ELSE IF "responses" \in DOMAIN input THEN input.responses \in Seq(Source!Response)
           ELSE input.lines \in Seq(Nat) /\ input.first \in Nat /\ input.last \in Nat
    BY InputsAllowed DEF SourcesAllowed
  <2>2. CASE "page" \in DOMAIN input
    BY <2>1, <2>2, PagesAreShown
  <2>3. CASE "page" \notin DOMAIN input /\ "responses" \in DOMAIN input
    BY <2>1, <2>3, BodiesAreWhole
  <2>4. CASE "page" \notin DOMAIN input /\ "responses" \notin DOMAIN input
    BY <2>1, <2>4, ExtractsSayAll
  <2> QED
    BY <2>2, <2>3, <2>4
<1> QED
  BY <1>1, InputStays, PTL

=============================================================================
