-------------------------- MODULE EnforcementProofs --------------------------
(***************************************************************************)
(* Theorems about Enforcement: what the calls of a request to the router   *)
(* do, whatever call raises, gets lost, or is the last one.                *)
(***************************************************************************)
EXTENDS Enforcement, SequenceTheorems, FiniteSetTheorems, WellFoundedInduction, TLAPS

-----------------------------------------------------------------------------
(* Sequences.                                                              *)

\* A set of numbers that is not empty has a least one: induction, as a fact
\* about sets.
LEMMA Least ==
  ASSUME NEW T \in SUBSET Nat, T # {}
  PROVE  \E x \in T : \A y \in T : x <= y
<1> DEFINE R == OpToRel(<, Nat)
<1>1. IsWellFoundedOn(R, Nat)
  BY NatLessThanWellFounded
<1>2. \A x, y \in Nat : y < x => <<y, x>> \in R
  BY DEF OpToRel
<1> HIDE DEF R
<1>3. PICK x \in T : \A y \in T : ~(<<y, x>> \in R)
  BY <1>1, WFMin
<1>4. \A y \in T : ~(y < x)
  BY <1>2, <1>3
<1> QED
  BY <1>3, <1>4

\* What is so for 0, and for i + 1 when it is so for i, is so up to m.
LEMMA Induct ==
  ASSUME NEW m \in Nat, NEW G \in SUBSET Nat, 0 \in G,
         \A i \in Nat : i < m /\ i \in G => i + 1 \in G
  PROVE  \A i \in 0..m : i \in G
<1> DEFINE T == {i \in 0..m : i \notin G}
<1> SUFFICES ASSUME T # {}
             PROVE  FALSE
  OBVIOUS
<1>1. PICK i \in T : \A j \in T : i <= j
  BY Least, T \in SUBSET Nat
<1>2. i - 1 \in Nat /\ i - 1 \in G
  BY <1>1
<1> QED
  BY <1>1, <1>2

\* The beginnings of Each(s): f[i] is s[1] to s[i].
Upto(f, s, m) ==
  f = [i \in 0..m |-> IF i = 0 THEN <<>> ELSE f[i - 1] \o s[i]]

LEMMA UptoExists ==
  ASSUME NEW s, NEW m \in Nat
  PROVE  \E f : Upto(f, s, m)
<1> DEFINE G == {j \in Nat : \E f : Upto(f, s, j)}
<1>1. 0 \in G
  <2> DEFINE f == [i \in 0..0 |-> <<>>]
  <2>1. Upto(f, s, 0)
    BY DEF Upto
  <2> QED
    BY <2>1
<1>2. ASSUME NEW j \in Nat, j \in G
      PROVE  j + 1 \in G
  <2>1. PICK f : Upto(f, s, j)
    BY <1>2
  <2> DEFINE g == [i \in 0..(j + 1) |-> IF i = j + 1 THEN f[j] \o s[j + 1] ELSE f[i]]
  <2>2. ASSUME NEW i \in 0..(j + 1)
        PROVE  g[i] = IF i = 0 THEN <<>> ELSE g[i - 1] \o s[i]
    <3>1. CASE i = j + 1
      <4>1. i # 0 /\ i - 1 = j /\ g[i - 1] = f[j]
        BY <3>1
      <4> QED
        BY <3>1, <4>1
    <3>2. CASE i \in 0..j
      <4>1. f[i] = IF i = 0 THEN <<>> ELSE f[i - 1] \o s[i]
        BY <2>1, <3>2 DEF Upto
      <4>2. i # 0 => i - 1 \in 0..(j + 1) /\ i - 1 # j + 1
        BY <3>2
      <4> QED
        BY <3>2, <4>1, <4>2
    <3> QED
      BY <3>1, <3>2
  <2>3. Upto(g, s, j + 1)
    BY <2>2, Zenon DEF Upto
  <2> QED
    BY <2>3
<1>3. G \in SUBSET Nat /\ \A j \in Nat : j < m /\ j \in G => j + 1 \in G
  BY <1>2
<1> HIDE DEF G
<1>4. m \in 0..m /\ \A i \in 0..m : i \in G
  BY <1>1, <1>3, Induct
<1> QED
  BY <1>4 DEF G

LEMMA EachIs ==
  ASSUME NEW s, Len(s) \in Nat
  PROVE  \E f : Upto(f, s, Len(s)) /\ Each(s) = f[Len(s)]
<1>1. PICK f : Upto(f, s, Len(s))
  BY UptoExists
<1> DEFINE g == CHOOSE h : h = [i \in 0..Len(s) |-> IF i = 0 THEN <<>> ELSE h[i - 1] \o s[i]]
<1>2. g = [i \in 0..Len(s) |-> IF i = 0 THEN <<>> ELSE g[i - 1] \o s[i]]
  BY <1>1 DEF Upto
<1>3. Each(s) = g[Len(s)]
  BY DEF Each
<1> QED
  BY <1>2, <1>3 DEF Upto

\* e is the sequences of s one after the other, s[i] after the first a[i - 1] elements.
Parts(e, s, a, m) ==
  /\ a \in [0..m -> Nat] /\ a[0] = 0 /\ a[m] = Len(e)
  /\ \A i \in 1..m : /\ a[i] = a[i - 1] + Len(s[i])
                     /\ \A q \in 1..Len(s[i]) : e[a[i - 1] + q] = s[i][q]

LEMMA PartsGrow ==
  ASSUME NEW m \in Nat, NEW e, NEW s, NEW a, Parts(e, s, a, m), \A i \in 1..m : Len(s[i]) \in Nat
  PROVE  \A x \in 0..m : \A y \in 0..x : a[y] <= a[x]
<1> DEFINE H == {x \in Nat : x <= m => \A y \in 0..x : a[y] <= a[x]}
<1>1. a \in [0..m -> Nat] /\ \A i \in 1..m : a[i] = a[i - 1] + Len(s[i])
  BY DEF Parts
<1>2. 0 \in H
  BY <1>1
<1>3. ASSUME NEW x \in Nat, x < m, x \in H
      PROVE  x + 1 \in H
  <2>1. a[x + 1] = a[x] + Len(s[x + 1]) /\ Len(s[x + 1]) \in Nat
    BY <1>1, <1>3, x + 1 \in 1..m, (x + 1) - 1 = x
  <2>2. a[x] \in Nat /\ \A y \in 0..x : a[y] <= a[x] /\ a[y] \in Nat
    BY <1>1, <1>3
  <2> QED
    BY <2>1, <2>2
<1>4. H \in SUBSET Nat /\ \A x \in Nat : x < m /\ x \in H => x + 1 \in H
  BY <1>3
<1> HIDE DEF H
<1>5. \A x \in 0..m : x \in H
  BY <1>2, <1>4, Induct
<1> QED
  BY <1>5 DEF H

LEMMA JoinIs ==
  ASSUME NEW T, NEW s \in Seq(T), NEW t \in Seq(T)
  PROVE  /\ s \o t \in Seq(T) /\ Len(s) \in Nat /\ Len(t) \in Nat
         /\ DOMAIN s = 1..Len(s) /\ DOMAIN t = 1..Len(t)
         /\ Len(s \o t) = Len(s) + Len(t) /\ DOMAIN (s \o t) = 1..(Len(s) + Len(t))
         /\ \A i \in 1..Len(s) : (s \o t)[i] = s[i]
         /\ \A i \in 1..Len(t) : (s \o t)[Len(s) + i] = t[i]
         /\ \A i \in 1..(Len(s) + Len(t)) : i > Len(s) => (s \o t)[i] = t[i - Len(s)]
<1>1. s \o t \in Seq(T) /\ Len(s) \in Nat /\ Len(t) \in Nat
  OBVIOUS
<1>2. DOMAIN s = 1..Len(s) /\ DOMAIN t = 1..Len(t)
  OBVIOUS
<1>3. Len(s \o t) = Len(s) + Len(t)
  OBVIOUS
<1>4. \A i \in 1..(Len(s) + Len(t)) : (s \o t)[i] = IF i <= Len(s) THEN s[i] ELSE t[i - Len(s)]
  OBVIOUS
<1>5. \A i \in 1..Len(s) : (s \o t)[i] = s[i]
  BY <1>1, <1>4
<1>6. \A i \in 1..Len(t) : (s \o t)[Len(s) + i] = t[i]
  BY <1>1, <1>4
<1> QED
  BY <1>1, <1>2, <1>3, <1>4, <1>5, <1>6

LEMMA SeqOf ==
  ASSUME NEW S, NEW s \in Seq(S), NEW U, \A i \in 1..Len(s) : s[i] \in U
  PROVE  s \in Seq(U)
<1>1. s = [i \in 1..Len(s) |-> s[i]] /\ Len(s) \in Nat
  OBVIOUS
<1>2. s \in [1..Len(s) -> U]
  BY <1>1
<1> QED
  BY <1>1, <1>2

LEMMA EachParts ==
  ASSUME NEW T, NEW s, Len(s) \in Nat, \A i \in 1..Len(s) : s[i] \in Seq(T)
  PROVE  Each(s) \in Seq(T) /\ \E a : Parts(Each(s), s, a, Len(s))
<1> DEFINE m == Len(s)
<1>1. PICK f : Upto(f, s, m) /\ Each(s) = f[m]
  BY EachIs
<1>2. f[0] = <<>> /\ \A i \in Nat : i < m => f[i + 1] = f[i] \o s[i + 1]
  <2>1. \A i \in 0..m : f[i] = IF i = 0 THEN <<>> ELSE f[i - 1] \o s[i]
    BY <1>1 DEF Upto
  <2>2. ASSUME NEW i \in Nat, i < m
        PROVE  f[i + 1] = f[i] \o s[i + 1]
    <3>1. i + 1 \in 0..m /\ i + 1 # 0 /\ (i + 1) - 1 = i
      BY <2>2
    <3> QED
      BY <2>1, <3>1
  <2>3. f[0] = <<>>
    BY <2>1, 0 \in 0..m
  <2> HIDE DEF m
  <2> QED
    BY <2>2, <2>3
<1> HIDE DEF m
<1>3. m \in Nat /\ m = Len(s)
  BY DEF m
<1> DEFINE G == {j \in Nat : j <= m => f[j] \in Seq(T) /\ \E a : Parts(f[j], s, a, j)}
<1>4. 0 \in G
  <2> DEFINE a == [i \in 0..0 |-> 0]
  <2>1. a \in [0..0 -> Nat] /\ a[0] = 0 /\ 1..0 = {}
    OBVIOUS
  <2>2. f[0] \in Seq(T) /\ Len(f[0]) = 0
    BY <1>2
  <2>3. Parts(f[0], s, a, 0)
    BY <2>1, <2>2 DEF Parts
  <2> QED
    BY <2>2, <2>3
<1>5. ASSUME NEW j \in Nat, j < m, j \in G
      PROVE  j + 1 \in G
  <2>1. f[j] \in Seq(T) /\ \E a : Parts(f[j], s, a, j)
    BY <1>3, <1>5
  <2>2. PICK a : Parts(f[j], s, a, j)
    BY <2>1
  <2>3. s[j + 1] \in Seq(T) /\ f[j + 1] = f[j] \o s[j + 1]
    BY <1>2, <1>3, <1>5, j + 1 \in 1..Len(s)
  <2>4. f[j + 1] \in Seq(T) /\ Len(f[j + 1]) = Len(f[j]) + Len(s[j + 1])
    BY <2>1, <2>3, JoinIs
  <2>5. /\ \A p \in 1..Len(f[j]) : f[j + 1][p] = f[j][p]
        /\ \A q \in 1..Len(s[j + 1]) : f[j + 1][Len(f[j]) + q] = s[j + 1][q]
    <3> DEFINE u == f[j]
               v == s[j + 1]
               w == f[j + 1]
    <3>1. u \in Seq(T) /\ v \in Seq(T) /\ w = u \o v
      BY <2>1, <2>3
    <3> HIDE DEF u, v, w
    <3>2. /\ \A p \in 1..Len(u) : w[p] = u[p]
          /\ \A q \in 1..Len(v) : w[Len(u) + q] = v[q]
      BY <3>1, JoinIs
    <3> QED
      BY <3>2 DEF u, v, w
  <2>6. Len(f[j]) \in Nat /\ Len(s[j + 1]) \in Nat
    BY <2>1, <2>3
  <2> DEFINE b == [i \in 0..(j + 1) |-> IF i = j + 1 THEN Len(f[j]) + Len(s[j + 1]) ELSE a[i]]
  <2>7. /\ a \in [0..j -> Nat] /\ a[0] = 0 /\ a[j] = Len(f[j])
        /\ \A i \in 1..j : /\ a[i] = a[i - 1] + Len(s[i])
                           /\ \A q \in 1..Len(s[i]) : f[j][a[i - 1] + q] = s[i][q]
    BY <2>2 DEF Parts
  <2>8. b \in [0..(j + 1) -> Nat] /\ b[0] = 0 /\ b[j + 1] = Len(f[j + 1])
    <3>1. j + 1 # 0 /\ b[j + 1] = Len(f[j]) + Len(s[j + 1]) /\ b[0] = a[0]
      OBVIOUS
    <3>2. ASSUME NEW i \in 0..(j + 1)
          PROVE  (IF i = j + 1 THEN Len(f[j]) + Len(s[j + 1]) ELSE a[i]) \in Nat
      <4>1. i = j + 1 \/ i \in 0..j
        OBVIOUS
      <4>2. Len(f[j]) + Len(s[j + 1]) \in Nat
        <5>1. \A x, y \in Nat : x + y \in Nat
          OBVIOUS
        <5> QED
          BY <2>6, <5>1, Zenon
      <4> QED
        BY <2>7, <4>1, <4>2
    <3>3. b \in [0..(j + 1) -> Nat]
      BY <3>2, Zenon
    <3> QED
      BY <2>4, <2>7, <3>1, <3>3
  <2>9. \A i \in 0..j : b[i] = a[i]
    <3> SUFFICES ASSUME NEW i \in 0..j
                 PROVE  b[i] = a[i]
      OBVIOUS
    <3>1. i \in 0..(j + 1) /\ i # j + 1
      OBVIOUS
    <3> QED
      BY <3>1
  <2>10. ASSUME NEW i \in 1..(j + 1)
         PROVE  /\ b[i] = b[i - 1] + Len(s[i])
                /\ \A q \in 1..Len(s[i]) : f[j + 1][b[i - 1] + q] = s[i][q]
    <3>1. CASE i = j + 1
      <4>1. b[i - 1] = Len(f[j]) /\ b[i] = Len(f[j]) + Len(s[j + 1])
        <5>1. i - 1 = j /\ j \in 0..j
          BY <3>1
        <5>2. b[j + 1] = Len(f[j]) + Len(s[j + 1]) /\ b[j] = a[j]
          BY <2>4, <2>8, <2>9, <5>1
        <5> HIDE DEF b
        <5> QED
          BY <2>7, <3>1, <5>1, <5>2
      <4> QED
        BY <2>5, <3>1, <4>1
    <3>2. CASE i \in 1..j
      <4> HIDE DEF b
      <4>1. b[i] = a[i] /\ b[i - 1] = a[i - 1] /\ a[i - 1] \in Nat
        <5>1. i \in 0..j /\ i - 1 \in 0..j
          BY <3>2
        <5> QED
          BY <2>7, <2>9, <5>1
      <4>2. a[i] = a[i - 1] + Len(s[i]) /\ s[i] \in Seq(T)
        BY <1>3, <1>5, <2>7, <3>2
      <4>3. a[i] <= Len(f[j])
        <5>1. \A x \in 1..j : Len(s[x]) \in Nat
          BY <1>3, <1>5
        <5>2. \A x \in 0..j : \A y \in 0..x : a[y] <= a[x]
          BY <2>2, <5>1, PartsGrow
        <5> QED
          BY <2>7, <3>2, <5>2
      <4>4. \A q \in 1..Len(s[i]) : /\ f[j][a[i - 1] + q] = s[i][q]
                                   /\ a[i - 1] + q \in 1..Len(f[j])
        <5> SUFFICES ASSUME NEW q \in 1..Len(s[i])
                     PROVE  f[j][a[i - 1] + q] = s[i][q] /\ a[i - 1] + q \in 1..Len(f[j])
          OBVIOUS
        <5>1. f[j][a[i - 1] + q] = s[i][q]
          BY <2>7, <3>2
        <5>2. Len(s[i]) \in Nat
          BY <4>2
        <5>3. a[i - 1] + q >= 1 /\ a[i - 1] + q <= a[i] /\ a[i - 1] + q \in Nat
          BY <4>1, <4>2, <5>2
        <5>4. a[i] \in Nat
          BY <2>7, <3>2
        <5> QED
          BY <2>6, <4>3, <5>1, <5>3, <5>4
      <4> QED
        BY <2>5, <4>1, <4>2, <4>4
    <3> HIDE DEF b
    <3> QED
      BY <3>1, <3>2
  <2>11. Parts(f[j + 1], s, b, j + 1)
    BY <2>8, <2>10, Zenon DEF Parts
  <2> QED
    BY <2>4, <2>11
<1>6. G \in SUBSET Nat /\ \A j \in Nat : j < m /\ j \in G => j + 1 \in G
  BY <1>5
<1> HIDE DEF G
<1>7. m \in 0..m /\ m \in G
  <2>1. \A i \in 0..m : i \in G
    BY <1>3, <1>4, <1>6, Induct
  <2> QED
    BY <1>3, <2>1
<1>8. f[m] \in Seq(T) /\ \E a : Parts(f[m], s, a, m)
  BY <1>7 DEF G
<1> QED
  BY <1>1, <1>3, <1>8

\* Every element of e is in one of its parts.
LEMMA PartsCover ==
  ASSUME NEW m \in Nat, NEW e, NEW s, NEW a, Parts(e, s, a, m),
         \A i \in 1..m : Len(s[i]) \in Nat, NEW p \in 1..Len(e)
  PROVE  \E i \in 1..m : a[i - 1] < p /\ p <= a[i]
<1>1. a \in [0..m -> Nat] /\ a[0] = 0 /\ a[m] = Len(e)
  BY DEF Parts
<1> DEFINE T == {i \in 0..m : p <= a[i]}
<1>2. m \in T
  BY <1>1
<1>3. PICK i \in T : \A j \in T : i <= j
  BY <1>2, Least, T \in SUBSET Nat
<1>4. i # 0 /\ i \in 1..m /\ i - 1 \in 0..m /\ i - 1 \notin T
  BY <1>1, <1>3
<1> QED
  BY <1>1, <1>3, <1>4

LEMMA OrderedIs ==
  ASSUME NEW S, IsFiniteSet(S)
  PROVE  /\ Cardinality(S) \in Nat
         /\ Ordered(S) \in [1..Cardinality(S) -> S]
         /\ Len(Ordered(S)) = Cardinality(S) /\ DOMAIN Ordered(S) = 1..Cardinality(S)
         /\ \A x \in S : \E i \in 1..Cardinality(S) : Ordered(S)[i] = x
         /\ \A i, j \in 1..Cardinality(S) : Ordered(S)[i] = Ordered(S)[j] => i = j
<1> DEFINE m == Cardinality(S)
           All(s) == \A x \in S : \E i \in DOMAIN s : s[i] = x
<1>1. m \in Nat /\ ExistsBijection(1..m, S)
  BY FS_CardinalityType
<1>2. PICK f \in [1..m -> S] : \A x \in S : \E i \in 1..m : f[i] = x
  BY <1>1 DEF ExistsBijection, Bijection, Surjection
<1>3. All(f)
  BY <1>2
<1>4. Ordered(S) \in [1..m -> S] /\ All(Ordered(S))
  BY <1>3 DEF Ordered
<1>5. Ordered(S) \in Surjection(1..m, S)
  BY <1>4 DEF Surjection
<1>6. IsFiniteSet(1..m) /\ Cardinality(1..m) = m
  BY <1>1, FS_Interval
<1>7. Ordered(S) \in Injection(1..m, S)
  BY <1>5, <1>6, FS_Surjection
<1>8. Len(Ordered(S)) = m /\ DOMAIN Ordered(S) = 1..m
  BY <1>1, <1>4
<1>9. \A i, j \in 1..m : Ordered(S)[i] = Ordered(S)[j] => i = j
  BY <1>7 DEF Injection, IsInjective
<1>10. \A x \in S : \E i \in 1..m : Ordered(S)[i] = x
  BY <1>4, <1>8
<1> HIDE DEF All
<1> QED
  BY <1>1, <1>4, <1>8, <1>9, <1>10

-----------------------------------------------------------------------------
(* Calls.                                                                  *)

OnEntries == {"one", "clear", "add", "remove", "set"}
OnDevices == {"member", "ensure", "leave", "expect mode", "expect bandwidth",
              "expect services"}
OnContracts == {"absent?", "healthy?", "release", "purge", "forget", "expect contract", "approve"}
Plain == {"gate", "disarm", "expect global", "unschedule", "stale lists", "stale queues"}

\* What each call names.
Named(c) ==
  /\ c.do \in OnEntries => c.r \in Lists /\ c.d \in Devices
  /\ c.do \in {"one", "set"} => c.r \in Managed
  /\ c.do = "set" => c.r \in Queues
  /\ c.do \in OnDevices => c.d \in Devices
  /\ c.do = "services" => c.d \in Devices /\ c.S \in SUBSET Keys
  /\ c.do \in OnContracts => c.k \in Customs
  /\ c.do = "approve" => c.ok \in BOOLEAN
  /\ c.do \in {"install", "uninstall"} => c.k \in Customs /\ c.r \in Contract
  /\ c.do \in {"script", "arm"} => c.mode \in Modes
  /\ c.do \in {"sched", "unsched"} => c.entry \in Groups \X Days \X Modes
  /\ c.do = "web" => c.on \in BOOLEAN
  /\ c.do = "again" => c.modes \in SUBSET Modes
  /\ c.do = "stale queues" => c.spared \in SUBSET Devices
  /\ c.do \in OnEntries \cup OnDevices \cup OnContracts \cup Plain \cup
              {"services", "install", "uninstall", "script", "arm", "sched", "unsched", "web", "again"}

Formed(s) == s \in Seq({s[i] : i \in DOMAIN s}) /\ \A i \in DOMAIN s : Named(s[i])

LEMMA SeqOfItems ==
  ASSUME NEW A, NEW U, NEW q \in Seq(A), \A i \in 1..Len(q) : q[i] \in U
  PROVE  q \in Seq(U)
OBVIOUS

LEMMA JoinFormed ==
  ASSUME NEW s, NEW t, Formed(s), Formed(t)
  PROVE  /\ Formed(s \o t) /\ Len(s) \in Nat /\ Len(t) \in Nat
         /\ Len(s \o t) = Len(s) + Len(t)
         /\ \A i \in 1..Len(s) : (s \o t)[i] = s[i]
         /\ \A i \in 1..Len(t) : (s \o t)[Len(s) + i] = t[i]
         /\ \A i \in 1..(Len(s) + Len(t)) : i > Len(s) => (s \o t)[i] = t[i - Len(s)]
<1> DEFINE S == {s[i] : i \in DOMAIN s}
           T == {t[i] : i \in DOMAIN t}
           U == {(s \o t)[i] : i \in DOMAIN (s \o t)}
<1>1. s \in Seq(S \cup T) /\ t \in Seq(S \cup T)
  <2>1. s \in Seq(S) /\ t \in Seq(T)
    BY DEF Formed
  <2> HIDE DEF S, T
  <2> QED
    BY <2>1
<1>2. /\ Len(s) \in Nat /\ Len(t) \in Nat /\ DOMAIN s = 1..Len(s) /\ DOMAIN t = 1..Len(t)
      /\ s \o t \in Seq(S \cup T) /\ Len(s \o t) = Len(s) + Len(t)
      /\ \A i \in 1..Len(s) : (s \o t)[i] = s[i]
      /\ \A i \in 1..Len(t) : (s \o t)[Len(s) + i] = t[i]
      /\ \A i \in 1..(Len(s) + Len(t)) : i > Len(s) => (s \o t)[i] = t[i - Len(s)]
  <2> HIDE DEF S, T
  <2> QED
    BY <1>1
<1>3. DOMAIN (s \o t) = 1..(Len(s) + Len(t))
  <2> HIDE DEF S, T
  <2> QED
    BY <1>2
<1>4. s \o t \in Seq(U)
  <2>1. \A i \in 1..Len(s \o t) : (s \o t)[i] \in U
    BY <1>2, <1>3
  <2>2. s \o t \in Seq(S \cup T)
    BY <1>2
  <2> HIDE DEF U, S, T
  <2> QED
    BY <2>1, <2>2, SeqOfItems, Zenon
<1>5. ASSUME NEW i \in 1..(Len(s) + Len(t))
      PROVE  Named((s \o t)[i])
  <2>1. CASE i <= Len(s)
    <3>1. i \in 1..Len(s) /\ (s \o t)[i] = s[i]
      BY <1>2, <2>1
    <3> QED
      BY <1>2, <3>1, Zenon DEF Formed
  <2>2. CASE i > Len(s)
    <3>1. i - Len(s) \in 1..Len(t)
      BY <1>2, <2>2
    <3>2. (s \o t)[i] = t[i - Len(s)]
      BY <1>2, <2>2
    <3> QED
      BY <1>2, <3>1, <3>2, Zenon DEF Formed
  <2> QED
    BY <1>2, <2>1, <2>2
<1>6. Formed(s \o t)
  BY <1>3, <1>4, <1>5, Zenon DEF Formed
<1> QED
  BY <1>2, <1>6

LEMMA TailFormed ==
  ASSUME NEW s, Formed(s), s # <<>>
  PROVE  /\ Formed(Tail(s)) /\ Len(s) \in Nat /\ Len(s) > 0 /\ DOMAIN s = 1..Len(s)
         /\ Len(Tail(s)) = Len(s) - 1 /\ DOMAIN Tail(s) = 1..(Len(s) - 1)
         /\ \A i \in 1..(Len(s) - 1) : Tail(s)[i] = s[i + 1]
         /\ Head(s) = s[1] /\ Named(Head(s))
<1> DEFINE S == {s[i] : i \in DOMAIN s}
           U == {Tail(s)[i] : i \in DOMAIN Tail(s)}
<1>1. s \in Seq(S)
  BY DEF Formed
<1>2. /\ Len(s) \in Nat /\ Len(s) > 0 /\ DOMAIN s = 1..Len(s)
      /\ Tail(s) \in Seq(S)
      /\ Len(Tail(s)) = Len(s) - 1 /\ DOMAIN Tail(s) = 1..(Len(s) - 1)
      /\ \A i \in 1..(Len(s) - 1) : Tail(s)[i] = s[i + 1]
      /\ Head(s) = s[1]
  <2> HIDE DEF S
  <2> QED
    BY <1>1
<1>3. Tail(s) \in Seq(U)
  <2>1. \A i \in 1..Len(Tail(s)) : Tail(s)[i] \in U
    BY <1>2
  <2> HIDE DEF U, S
  <2> QED
    BY <1>2, <2>1, SeqOf, Zenon
<1>4. \A i \in 1..Len(s) : Named(s[i])
  BY <1>2, Zenon DEF Formed
<1>5. ASSUME NEW i \in 1..(Len(s) - 1)
      PROVE  Named(Tail(s)[i])
  <2>1. i + 1 \in 1..Len(s) /\ Tail(s)[i] = s[i + 1]
    BY <1>2
  <2> QED
    BY <1>4, <2>1, Zenon
<1>6. Named(s[1])
  BY <1>2, <1>4
<1>7. Formed(Tail(s))
  BY <1>2, <1>3, <1>5, Zenon DEF Formed
<1> QED
  BY <1>2, <1>6, <1>7

\* The sequence that a table of m elements lists.
LEMMA ListFormed ==
  ASSUME NEW m \in Nat, NEW s, DOMAIN s = 1..m, s = [i \in 1..m |-> s[i]],
         \A i \in 1..m : Named(s[i])
  PROVE  Formed(s) /\ Len(s) = m
<1> DEFINE S == {s[i] : i \in DOMAIN s}
<1>1. \A i \in 1..m : s[i] \in S
  OBVIOUS
<1>2. s \in Seq(S) /\ Len(s) = m
  <2> HIDE DEF S
  <2> QED
    BY <1>1
<1> QED
  BY <1>2, Zenon DEF Formed

LEMMA NothingFormed == Formed(<<>>) /\ Len(<<>>) = 0
BY DEF Formed

Writing == {"add", "remove", "set", "script", "arm", "disarm", "sched", "unsched",
            "install", "uninstall", "forget", "web"}

LEMMA EffectCases ==
  ASSUME NEW c
  PROVE  /\ c.do = "add" => Effect(c) = [ros EXCEPT !.n[c.r][c.d] = @ + 1]
         /\ c.do = "remove" => Effect(c) = [ros EXCEPT !.n[c.r][c.d] = @ - 1,
                                                      !.disabled = @ \ {<<c.r, c.d>>}]
         /\ c.do = "set" => Effect(c) = [ros EXCEPT !.disabled = @ \ {<<c.r, c.d>>}]
         /\ c.do = "script" => Effect(c) = [ros EXCEPT !.gmode = c.mode]
         /\ c.do = "arm" => Effect(c) = [ros EXCEPT !.temp = c.mode]
         /\ c.do = "disarm" => Effect(c) = [ros EXCEPT !.temp = "none"]
         /\ c.do = "sched" => Effect(c) = [ros EXCEPT !.scheds = @ \cup {c.entry}]
         /\ c.do = "unsched" => Effect(c) = [ros EXCEPT !.scheds = @ \ {c.entry}]
         /\ c.do = "install" => Effect(c) = [ros EXCEPT !.rules[c.k] = @ \cup {c.r}]
         /\ c.do = "uninstall" => Effect(c) = [ros EXCEPT !.rules[c.k] = @ \ {c.r}]
         /\ c.do = "forget" => Effect(c) = [ros EXCEPT !.learned = @ \ {c.k}]
         /\ c.do = "web" => Effect(c) = [ros EXCEPT !.web = c.on]
         /\ c.do \notin Writing => Effect(c) = ros
<1> USE Zenon DEF Effect
<1>1. c.do \notin Writing => Effect(c) = ros
  BY DEF Writing
<1>2. c.do = "add" => Effect(c) = [ros EXCEPT !.n[c.r][c.d] = @ + 1]
  OBVIOUS
<1>3. c.do = "remove" => Effect(c) = [ros EXCEPT !.n[c.r][c.d] = @ - 1, !.disabled = @ \ {<<c.r, c.d>>}]
  OBVIOUS
<1>4. c.do = "set" => Effect(c) = [ros EXCEPT !.disabled = @ \ {<<c.r, c.d>>}]
  OBVIOUS
<1>5. /\ c.do = "script" => Effect(c) = [ros EXCEPT !.gmode = c.mode]
      /\ c.do = "arm" => Effect(c) = [ros EXCEPT !.temp = c.mode]
      /\ c.do = "disarm" => Effect(c) = [ros EXCEPT !.temp = "none"]
  OBVIOUS
<1>6. /\ c.do = "sched" => Effect(c) = [ros EXCEPT !.scheds = @ \cup {c.entry}]
      /\ c.do = "unsched" => Effect(c) = [ros EXCEPT !.scheds = @ \ {c.entry}]
  OBVIOUS
<1>7. /\ c.do = "install" => Effect(c) = [ros EXCEPT !.rules[c.k] = @ \cup {c.r}]
      /\ c.do = "uninstall" => Effect(c) = [ros EXCEPT !.rules[c.k] = @ \ {c.r}]
  OBVIOUS
<1>8. /\ c.do = "forget" => Effect(c) = [ros EXCEPT !.learned = @ \ {c.k}]
      /\ c.do = "web" => Effect(c) = [ros EXCEPT !.web = c.on]
  OBVIOUS
<1> QED
  BY <1>1, <1>2, <1>3, <1>4, <1>5, <1>6, <1>7, <1>8

LEMMA AfterCases ==
  ASSUME NEW c
  PROVE  /\ c.do = "one" => After(c) = Single(c.r, c.d) \o Tail(job.plan)
         /\ c.do = "clear" => After(c) = Removes(c.r, c.d) \o Tail(job.plan)
         /\ c.do = "services" => After(c) = ServiceCalls(c.d, c.S) \o Tail(job.plan)
         /\ c.do = "ensure" => After(c) = (IF n["restricted"][c.d] = 0 THEN <<Add("restricted", c.d)>> ELSE <<>>)
                                           \o Tail(job.plan)
         /\ c.do = "leave" => After(c) = Removes("restricted", c.d) \o Tail(job.plan)
         /\ c.do = "again" => After(c) = IF gmode \in c.modes THEN GlobalPlan(gmode) ELSE <<>>
         /\ c.do = "absent?" => After(c) = Rest(c, "healthy")
         /\ c.do = "healthy?" => After(c) = Rest(c, "absent")
         /\ c.do = "release" => After(c) = Released(c.k) \o Tail(job.plan)
         /\ c.do = "purge" => After(c) = Uninstalls(c.k) \o Tail(job.plan)
         /\ c.do = "unschedule" => After(c) = Unscheduled(c.g) \o Tail(job.plan)
         /\ c.do = "stale lists" =>
              \E spared \in SUBSET Devices :
                After(c) = Stale(Managed \ Queues, spared) \o <<[do |-> "stale queues", spared |-> spared]>>
         /\ c.do = "stale queues" => After(c) = Stale(Queues, c.spared)
         /\ c.do \notin {"one", "clear", "services", "ensure", "leave", "again", "absent?", "healthy?",
                         "release", "purge", "unschedule", "stale lists", "stale queues"}
              => After(c) = Tail(job.plan)
<1> USE Zenon DEF After
<1>1. /\ c.do = "one" => After(c) = Single(c.r, c.d) \o Tail(job.plan)
      /\ c.do = "clear" => After(c) = Removes(c.r, c.d) \o Tail(job.plan)
  OBVIOUS
<1>2. c.do = "services" => After(c) = ServiceCalls(c.d, c.S) \o Tail(job.plan)
  OBVIOUS
<1>3. c.do = "ensure" => After(c) = (IF n["restricted"][c.d] = 0 THEN <<Add("restricted", c.d)>> ELSE <<>>)
                                   \o Tail(job.plan)
  OBVIOUS
<1>4. /\ c.do = "leave" => After(c) = Removes("restricted", c.d) \o Tail(job.plan)
      /\ c.do = "again" => After(c) = IF gmode \in c.modes THEN GlobalPlan(gmode) ELSE <<>>
  OBVIOUS
<1>5. /\ c.do = "absent?" => After(c) = Rest(c, "healthy")
      /\ c.do = "healthy?" => After(c) = Rest(c, "absent")
  OBVIOUS
<1>6. /\ c.do = "release" => After(c) = Released(c.k) \o Tail(job.plan)
      /\ c.do = "purge" => After(c) = Uninstalls(c.k) \o Tail(job.plan)
      /\ c.do = "unschedule" => After(c) = Unscheduled(c.g) \o Tail(job.plan)
  OBVIOUS
<1>7. c.do = "stale lists" =>
        \E spared \in SUBSET Devices :
          After(c) = Stale(Managed \ Queues, spared) \o <<[do |-> "stale queues", spared |-> spared]>>
  <2> DEFINE spared == {d \in Devices : n["restricted"][d] > 0}
  <2>1. spared \in SUBSET Devices
    OBVIOUS
  <2>2. c.do = "stale lists" =>
          After(c) = Stale(Managed \ Queues, spared) \o <<[do |-> "stale queues", spared |-> spared]>>
    OBVIOUS
  <2> HIDE DEF spared
  <2> QED
    BY <2>1, <2>2
<1>8. c.do = "stale queues" => After(c) = Stale(Queues, c.spared)
  OBVIOUS
<1>9. c.do \notin {"one", "clear", "services", "ensure", "leave", "again", "absent?", "healthy?",
                  "release", "purge", "unschedule", "stale lists", "stale queues"}
       => After(c) = Tail(job.plan)
  OBVIOUS
<1> QED
  BY <1>1, <1>2, <1>3, <1>4, <1>5, <1>6, <1>7, <1>8, <1>9

\* What a call that is not refused has read.
LEMMA RefusesCases ==
  ASSUME NEW c, ~Refuses(c)
  PROVE  /\ c.do = "gate" => job.proven \/ Ready
         /\ c.do = "remove" => n[c.r][c.d] # 0
BY Zenon DEF Refuses

LEMMA UndoCases ==
  ASSUME NEW c
  PROVE  /\ c.do = "install" => Undo(c) = (IF c.r = "block" THEN <<Uninstall(c.k, "learn")>> ELSE <<>>)
                                          \o <<Forget(c.k)>>
         /\ c.do = "sched" => Undo(c) = <<[do |-> "unschedule", g |-> c.entry[1]]>>
         /\ c.do = "expect contract" /\ job.do = "provision"
              => Undo(c) = <<[do |-> "purge", k |-> c.k], Forget(c.k)>>
         /\ c.do = "approve" /\ c.ok => Undo(c) = RemovePlan(c.k)
         /\ c.do \in {"script", "expect global"} /\ job.do = "temporary"
              => Undo(c) = <<[do |-> "disarm"]>>
<1> USE Zenon DEF Undo
<1>1. /\ c.do = "install" => Undo(c) = (IF c.r = "block" THEN <<Uninstall(c.k, "learn")>> ELSE <<>>)
                                       \o <<Forget(c.k)>>
      /\ c.do = "sched" => Undo(c) = <<[do |-> "unschedule", g |-> c.entry[1]]>>
  OBVIOUS
<1>2. c.do = "expect contract" /\ job.do = "provision"
        => Undo(c) = <<[do |-> "purge", k |-> c.k], Forget(c.k)>>
  OBVIOUS
<1>3. c.do = "approve" /\ c.ok => Undo(c) = RemovePlan(c.k)
  OBVIOUS
<1>4. c.do \in {"script", "expect global"} /\ job.do = "temporary"
        => Undo(c) = <<[do |-> "disarm"]>>
  OBVIOUS
<1> QED
  BY <1>1, <1>2, <1>3, <1>4

LEMMA UndoNothing ==
  ASSUME NEW c, c.do # "install", c.do # "sched",
         ~(c.do = "expect contract" /\ job.do = "provision"),
         ~(c.do = "approve" /\ c.ok),
         ~(c.do \in {"script", "expect global"} /\ job.do = "temporary")
  PROVE  Undo(c) = <<>>
BY Zenon DEF Undo

-----------------------------------------------------------------------------
(* What the reads of a request are replaced by.                            *)

\* Each element of Each(s) is an element of a part.
LEMMA EachFormed ==
  ASSUME NEW s, Len(s) \in Nat, \A i \in 1..Len(s) : Formed(s[i])
  PROVE  /\ Formed(Each(s)) /\ DOMAIN Each(s) = 1..Len(Each(s))
         /\ \A i \in 1..Len(s) : Len(s[i]) \in Nat
         /\ \E a : /\ Parts(Each(s), s, a, Len(s))
                  /\ \A x \in 0..Len(s) : \A y \in 0..x : a[y] <= a[x]
                  /\ \A p \in 1..Len(Each(s)) : \E i \in 1..Len(s) :
                       /\ a[i - 1] < p /\ p <= a[i]
                       /\ p - a[i - 1] \in 1..Len(s[i])
                       /\ Each(s)[p] = s[i][p - a[i - 1]]
<1> DEFINE m == Len(s)
           T == UNION {{s[i][q] : q \in DOMAIN s[i]} : i \in 1..m}
<1>1. \A i \in 1..m : s[i] \in Seq(T)
  <2> SUFFICES ASSUME NEW i \in 1..m
               PROVE  s[i] \in Seq(T)
    OBVIOUS
  <2> DEFINE R == {s[i][q] : q \in DOMAIN s[i]}
  <2>1. s[i] \in Seq(R)
    BY DEF Formed
  <2>2. R \subseteq T
    OBVIOUS
  <2> HIDE DEF T, R
  <2> QED
    BY <2>1, <2>2
<1>2. Each(s) \in Seq(T) /\ \E a : Parts(Each(s), s, a, m)
  <2> HIDE DEF T
  <2> QED
    BY <1>1, EachParts
<1>3. PICK a : Parts(Each(s), s, a, m)
  BY <1>2
<1>4. \A i \in 1..m : Len(s[i]) \in Nat
  <2> HIDE DEF T
  <2> QED
    BY <1>1
<1>5. \A x \in 0..m : \A y \in 0..x : a[y] <= a[x]
  BY <1>3, <1>4, PartsGrow
<1>6. ASSUME NEW p \in 1..Len(Each(s))
      PROVE  \E i \in 1..m : /\ a[i - 1] < p /\ p <= a[i]
                             /\ p - a[i - 1] \in 1..Len(s[i])
                             /\ Each(s)[p] = s[i][p - a[i - 1]]
  <2>1. PICK i \in 1..m : a[i - 1] < p /\ p <= a[i]
    BY <1>3, <1>4, PartsCover
  <2>2. /\ a \in [0..m -> Nat] /\ a[i] = a[i - 1] + Len(s[i])
        /\ \A q \in 1..Len(s[i]) : Each(s)[a[i - 1] + q] = s[i][q]
    BY <1>3 DEF Parts
  <2>3. p - a[i - 1] \in 1..Len(s[i]) /\ a[i - 1] + (p - a[i - 1]) = p
    BY <1>4, <2>1, <2>2
  <2> QED
    BY <2>1, <2>2, <2>3
<1>7. Len(Each(s)) \in Nat /\ DOMAIN Each(s) = 1..Len(Each(s))
  <2> HIDE DEF T
  <2> QED
    BY <1>2
<1>8. \A p \in 1..Len(Each(s)) : Named(Each(s)[p])
  <2> SUFFICES ASSUME NEW p \in 1..Len(Each(s))
               PROVE  Named(Each(s)[p])
    OBVIOUS
  <2>1. PICK i \in 1..m : p - a[i - 1] \in 1..Len(s[i]) /\ Each(s)[p] = s[i][p - a[i - 1]]
    BY <1>6
  <2>2. DOMAIN s[i] = 1..Len(s[i])
    <3> HIDE DEF T
    <3> QED
      BY <1>1
  <2> QED
    BY <2>1, <2>2, Zenon DEF Formed
<1>9. Each(s) = [p \in 1..Len(Each(s)) |-> Each(s)[p]]
  <2> HIDE DEF T
  <2> QED
    BY <1>2
<1>10. Formed(Each(s))
  BY <1>7, <1>8, <1>9, ListFormed
<1> QED
  BY <1>3, <1>4, <1>5, <1>6, <1>7, <1>10

\* The removals of one entry, and those of several.
RemovesOnly(s, R, D) ==
  /\ Formed(s)
  /\ \A i \in DOMAIN s : s[i].do = "remove" /\ s[i].r \in R /\ s[i].d \in D

LEMMA RemovesIs ==
  ASSUME TypeOK, NEW r \in Lists, NEW d \in Devices
  PROVE  /\ n[r][d] \in Nat /\ Len(Removes(r, d)) = n[r][d]
         /\ Formed(Removes(r, d)) /\ DOMAIN Removes(r, d) = 1..n[r][d]
         /\ \A i \in 1..n[r][d] : Removes(r, d)[i] = Remove(r, d)
         /\ RemovesOnly(Removes(r, d), {r}, {d})
<1>1. n[r][d] \in Nat
  BY DEF TypeOK, Routers, n
<1>2. DOMAIN Removes(r, d) = 1..n[r][d] /\ \A i \in 1..n[r][d] : Removes(r, d)[i] = Remove(r, d)
  BY DEF Removes
<1>3. Named(Remove(r, d))
  BY DEF Named, Remove, OnEntries, OnDevices, OnContracts, Plain
<1>4. Removes(r, d) = [i \in 1..n[r][d] |-> Removes(r, d)[i]]
  BY DEF Removes
<1>5. Formed(Removes(r, d)) /\ Len(Removes(r, d)) = n[r][d]
  BY <1>1, <1>2, <1>3, <1>4, ListFormed
<1> QED
  BY <1>1, <1>2, <1>5 DEF RemovesOnly, Remove

LEMMA SomeRemoves ==
  ASSUME NEW s, Len(s) \in Nat, NEW R, NEW D, \A i \in 1..Len(s) : RemovesOnly(s[i], R, D)
  PROVE  RemovesOnly(Each(s), R, D)
<1>1. \A i \in 1..Len(s) : Formed(s[i])
  BY DEF RemovesOnly
<1>2. /\ Formed(Each(s)) /\ DOMAIN Each(s) = 1..Len(Each(s))
      /\ \A p \in 1..Len(Each(s)) : \E i \in 1..Len(s) : \E q \in 1..Len(s[i]) : Each(s)[p] = s[i][q]
  <2>1. /\ Formed(Each(s)) /\ DOMAIN Each(s) = 1..Len(Each(s))
        /\ \E a : \A p \in 1..Len(Each(s)) : \E i \in 1..Len(s) :
             p - a[i - 1] \in 1..Len(s[i]) /\ Each(s)[p] = s[i][p - a[i - 1]]
    <3>1. /\ Formed(Each(s)) /\ DOMAIN Each(s) = 1..Len(Each(s))
          /\ \E a : /\ Parts(Each(s), s, a, Len(s))
                   /\ \A x \in 0..Len(s) : \A y \in 0..x : a[y] <= a[x]
                   /\ \A p \in 1..Len(Each(s)) : \E i \in 1..Len(s) :
                        /\ a[i - 1] < p /\ p <= a[i]
                        /\ p - a[i - 1] \in 1..Len(s[i])
                        /\ Each(s)[p] = s[i][p - a[i - 1]]
      BY <1>1, EachFormed
    <3>2. PICK a : /\ Parts(Each(s), s, a, Len(s))
                   /\ \A x \in 0..Len(s) : \A y \in 0..x : a[y] <= a[x]
                   /\ \A p \in 1..Len(Each(s)) : \E i \in 1..Len(s) :
                        /\ a[i - 1] < p /\ p <= a[i]
                        /\ p - a[i - 1] \in 1..Len(s[i])
                        /\ Each(s)[p] = s[i][p - a[i - 1]]
      BY <3>1
    <3>3. \A p \in 1..Len(Each(s)) : \E i \in 1..Len(s) :
            p - a[i - 1] \in 1..Len(s[i]) /\ Each(s)[p] = s[i][p - a[i - 1]]
      BY <3>2, Zenon
    <3> QED
      BY <3>1, <3>3, Zenon
  <2> QED
    BY <2>1, Zenon
<1>3. \A i \in 1..Len(s) : DOMAIN s[i] = 1..Len(s[i])
  BY <1>1 DEF Formed
<1> QED
  BY <1>2, <1>3 DEF RemovesOnly

LEMMA ReleaseAllIs ==
  ASSUME TypeOK, NEW K \in SUBSET Lists, IsFiniteSet(K), NEW d \in Devices
  PROVE  RemovesOnly(ReleaseAll(K, d), K, {d})
<1> DEFINE o == Ordered(K)
           s == [i \in DOMAIN o |-> Removes(o[i], d)]
<1>1. Cardinality(K) \in Nat /\ o \in [1..Cardinality(K) -> K]
  BY OrderedIs
<1>2. Len(s) = Cardinality(K)
  BY <1>1
<1>3. ASSUME NEW i \in 1..Cardinality(K)
      PROVE  RemovesOnly(s[i], K, {d})
  <2>1. o[i] \in K /\ o[i] \in Lists /\ s[i] = Removes(o[i], d)
    BY <1>1
  <2>2. RemovesOnly(Removes(o[i], d), {o[i]}, {d})
    BY <2>1, RemovesIs
  <2> QED
    BY <2>1, <2>2 DEF RemovesOnly
<1>4. ReleaseAll(K, d) = Each(s)
  BY DEF ReleaseAll
<1> HIDE DEF s, o
<1> QED
  BY <1>1, <1>2, <1>3, <1>4, SomeRemoves

LEMMA FiniteKinds ==
  /\ IsFiniteSet(Lists) /\ Queues \subseteq Managed /\ Managed \subseteq Lists /\ Keys \subseteq Managed
  /\ Customs \subseteq Keys
  /\ \A R \in SUBSET Lists : IsFiniteSet(R)
  /\ \A D \in SUBSET Devices : IsFiniteSet(D)
<1>1. IsFiniteSet(Keys) /\ IsFiniteSet(Devices)
  BY FiniteAssumption
<1>2. IsFiniteSet({"blocked", "slow"}) /\ IsFiniteSet({"slowq", "bw"}) /\ IsFiniteSet({"restricted"})
  <2>1. {"blocked", "slow"} = {"blocked"} \cup {"slow"} /\ {"slowq", "bw"} = {"slowq"} \cup {"bw"}
    OBVIOUS
  <2>2. IsFiniteSet({"blocked"}) /\ IsFiniteSet({"slowq"}) /\ IsFiniteSet({"restricted"})
    BY FS_Singleton
  <2> QED
    BY <2>1, <2>2, FS_AddElement
<1>3. IsFiniteSet(Lists)
  <2>1. IsFiniteSet({"blocked", "slow"} \cup Queues)
    BY <1>2, FS_Union DEF Queues
  <2>2. IsFiniteSet(Managed)
    BY <1>1, <2>1, FS_Union DEF Managed
  <2> QED
    BY <1>2, <2>2, FS_Union DEF Lists
<1>4. \A R \in SUBSET Lists : IsFiniteSet(R)
  BY <1>3, FS_Subset
<1>5. \A D \in SUBSET Devices : IsFiniteSet(D)
  BY <1>1, FS_Subset
<1> QED
  BY <1>3, <1>4, <1>5 DEF Lists, Managed, Keys, Queues

LEMMA StaleIs ==
  ASSUME TypeOK, NEW K \in SUBSET Lists, NEW spared \in SUBSET Devices
  PROVE  RemovesOnly(Stale(K, spared), K, Devices)
<1> DEFINE D == Devices \ spared
           o == Ordered(D)
           s == [i \in DOMAIN o |-> ReleaseAll(K, o[i])]
<1>1. Cardinality(D) \in Nat /\ o \in [1..Cardinality(D) -> D]
  BY FiniteKinds, OrderedIs
<1>2. Len(s) = Cardinality(D)
  BY <1>1
<1>3. ASSUME NEW i \in 1..Cardinality(D)
      PROVE  RemovesOnly(s[i], K, Devices)
  <2>1. o[i] \in Devices /\ s[i] = ReleaseAll(K, o[i])
    BY <1>1
  <2>2. RemovesOnly(ReleaseAll(K, o[i]), K, {o[i]})
    BY <2>1, ReleaseAllIs, FiniteKinds
  <2> QED
    BY <2>1, <2>2 DEF RemovesOnly
<1>4. Stale(K, spared) = Each(s)
  BY DEF Stale
<1> HIDE DEF s, o, D
<1> QED
  BY <1>1, <1>2, <1>3, <1>4, SomeRemoves

LEMMA ReleasedIs ==
  ASSUME TypeOK, NEW k \in Lists
  PROVE  RemovesOnly(Released(k), {k}, Devices)
<1> DEFINE o == Ordered(Devices)
           s == [i \in DOMAIN o |-> Removes(k, o[i])]
<1>1. Cardinality(Devices) \in Nat /\ o \in [1..Cardinality(Devices) -> Devices]
  BY FiniteKinds, OrderedIs
<1>2. Len(s) = Cardinality(Devices)
  BY <1>1
<1>3. ASSUME NEW i \in 1..Cardinality(Devices)
      PROVE  RemovesOnly(s[i], {k}, Devices)
  <2>1. o[i] \in Devices /\ s[i] = Removes(k, o[i])
    BY <1>1
  <2>2. RemovesOnly(Removes(k, o[i]), {k}, {o[i]})
    BY <2>1, RemovesIs
  <2> QED
    BY <2>1, <2>2 DEF RemovesOnly
<1>4. Released(k) = Each(s)
  BY DEF Released
<1> HIDE DEF s, o
<1> QED
  BY <1>1, <1>2, <1>3, <1>4, SomeRemoves

\* Short plans, call by call.
LEMMA FormedOf ==
  ASSUME NEW a, Named(a)
  PROVE  Formed(<<a>>) /\ Len(<<a>>) = 1
<1>1. /\ DOMAIN <<a>> = 1..1 /\ <<a>> = [i \in 1..1 |-> <<a>>[i]]
      /\ \A i \in 1..1 : Named(<<a>>[i])
  OBVIOUS
<1> QED
  BY <1>1, ListFormed

LEMMA FormedOfTwo ==
  ASSUME NEW a, Named(a), NEW b, Named(b)
  PROVE  Formed(<<a, b>>) /\ Len(<<a, b>>) = 2
<1>1. /\ DOMAIN <<a, b>> = 1..2 /\ <<a, b>> = [i \in 1..2 |-> <<a, b>>[i]]
      /\ \A i \in 1..2 : Named(<<a, b>>[i])
  OBVIOUS
<1> QED
  BY <1>1, ListFormed

LEMMA FormedOfThree ==
  ASSUME NEW a, Named(a), NEW b, Named(b), NEW c, Named(c)
  PROVE  Formed(<<a, b, c>>) /\ Len(<<a, b, c>>) = 3
<1>1. /\ DOMAIN <<a, b, c>> = 1..3 /\ <<a, b, c>> = [i \in 1..3 |-> <<a, b, c>>[i]]
      /\ \A i \in 1..3 : Named(<<a, b, c>>[i])
  OBVIOUS
<1> QED
  BY <1>1, ListFormed

LEMMA FormedOfFour ==
  ASSUME NEW a, Named(a), NEW b, Named(b), NEW c, Named(c), NEW d, Named(d)
  PROVE  Formed(<<a, b, c, d>>) /\ Len(<<a, b, c, d>>) = 4
<1>1. /\ DOMAIN <<a, b, c, d>> = 1..4 /\ <<a, b, c, d>> = [i \in 1..4 |-> <<a, b, c, d>>[i]]
      /\ \A i \in 1..4 : Named(<<a, b, c, d>>[i])
  OBVIOUS
<1> QED
  BY <1>1, ListFormed

LEMMA CallsNamed ==
  /\ Named(Gate) /\ Named([do |-> "disarm"])
  /\ \A r \in Lists, d \in Devices : Named(Clear(r, d)) /\ Named(Add(r, d))
  /\ \A r \in Managed, d \in Devices : Named(One(r, d))
  /\ \A r \in Queues, d \in Devices : Named([do |-> "set", r |-> r, d |-> d])
  /\ \A d \in Devices : Named(Member(d)) /\ Named([do |-> "ensure", d |-> d]) /\ Named([do |-> "leave", d |-> d])
  /\ \A d \in Devices : \A m : Named([do |-> "expect mode", d |-> d, mode |-> m])
  /\ \A d \in Devices : \A l : Named([do |-> "expect bandwidth", d |-> d, limited |-> l])
  /\ \A d \in Devices, S \in SUBSET Keys :
       Named([do |-> "services", d |-> d, S |-> S]) /\ Named([do |-> "expect services", d |-> d, S |-> S])
  /\ \A m \in Modes : /\ Named(Script(m)) /\ Named([do |-> "arm", mode |-> m])
  /\ \A m : Named([do |-> "expect global", mode |-> m])
  /\ \A e \in Groups \X Days \X Modes : Named([do |-> "sched", entry |-> e]) /\ Named([do |-> "unsched", entry |-> e])
  /\ \A k \in Customs, r \in Contract : Named(Install(k, r)) /\ Named(Uninstall(k, r))
  /\ \A k \in Customs : /\ Named(Forget(k)) /\ Named(Approve(k, TRUE)) /\ Named(Approve(k, FALSE))
                        /\ Named([do |-> "absent?", k |-> k]) /\ Named([do |-> "healthy?", k |-> k])
                        /\ Named([do |-> "release", k |-> k]) /\ Named([do |-> "purge", k |-> k])
                        /\ \A x : Named([do |-> "expect contract", k |-> k, is |-> x])
  /\ \A g : Named([do |-> "unschedule", g |-> g])
  /\ \A M \in SUBSET Modes : Named([do |-> "again", modes |-> M])
  /\ \A b \in BOOLEAN : Named([do |-> "web", on |-> b])
  /\ Named([do |-> "stale lists"])
  /\ \A D \in SUBSET Devices : Named([do |-> "stale queues", spared |-> D])
<1> USE DEF Named, OnEntries, OnDevices, OnContracts, Plain
<1>1. Named(Gate) /\ Named([do |-> "disarm"]) /\ Named([do |-> "stale lists"])
  BY DEF Gate
<1>2. \A r \in Lists, d \in Devices : Named(Clear(r, d)) /\ Named(Add(r, d))
  BY DEF Clear, Add
<1>3. /\ \A r \in Managed, d \in Devices : Named(One(r, d))
      /\ \A r \in Queues, d \in Devices : Named([do |-> "set", r |-> r, d |-> d])
  BY DEF One, Lists, Managed
<1>4. \A d \in Devices : Named(Member(d)) /\ Named([do |-> "ensure", d |-> d]) /\ Named([do |-> "leave", d |-> d])
  BY DEF Member
<1>5. /\ \A d \in Devices : \A m : Named([do |-> "expect mode", d |-> d, mode |-> m])
      /\ \A d \in Devices : \A l : Named([do |-> "expect bandwidth", d |-> d, limited |-> l])
  OBVIOUS
<1>6. \A d \in Devices, S \in SUBSET Keys :
        Named([do |-> "services", d |-> d, S |-> S]) /\ Named([do |-> "expect services", d |-> d, S |-> S])
  OBVIOUS
<1>7. /\ \A m \in Modes : Named(Script(m)) /\ Named([do |-> "arm", mode |-> m])
      /\ \A m : Named([do |-> "expect global", mode |-> m])
  BY DEF Script
<1>8. \A e \in Groups \X Days \X Modes : Named([do |-> "sched", entry |-> e]) /\ Named([do |-> "unsched", entry |-> e])
  OBVIOUS
<1>9. \A k \in Customs, r \in Contract : Named(Install(k, r)) /\ Named(Uninstall(k, r))
  BY DEF Install, Uninstall
<1>10. \A k \in Customs : /\ Named(Forget(k)) /\ Named(Approve(k, TRUE)) /\ Named(Approve(k, FALSE))
                         /\ Named([do |-> "absent?", k |-> k]) /\ Named([do |-> "healthy?", k |-> k])
  BY DEF Forget, Approve
<1>11. \A k \in Customs : /\ Named([do |-> "release", k |-> k]) /\ Named([do |-> "purge", k |-> k])
                         /\ \A x : Named([do |-> "expect contract", k |-> k, is |-> x])
  OBVIOUS
<1>12. \A g : Named([do |-> "unschedule", g |-> g])
  OBVIOUS
<1>13. /\ \A M \in SUBSET Modes : Named([do |-> "again", modes |-> M])
       /\ \A b \in BOOLEAN : Named([do |-> "web", on |-> b])
       /\ \A D \in SUBSET Devices : Named([do |-> "stale queues", spared |-> D])
  OBVIOUS
<1> HIDE DEF Named, OnEntries, OnDevices, OnContracts, Plain
<1> QED
  BY <1>1, <1>2, <1>3, <1>4, <1>5, <1>6, <1>7, <1>8, <1>9, <1>10, <1>11, <1>12, <1>13

\* Calls that neither add nor enable an entry, nor turn into calls that do.
Gated == {"one", "services", "ensure", "add"}
Quiet(s) == Formed(s) /\ \A i \in DOMAIN s : s[i].do \notin Gated \cup {"set"}

LEMMA UninstallsIs ==
  ASSUME TypeOK, NEW k \in Customs
  PROVE  Quiet(Uninstalls(k))
<1> DEFINE S == rules[k]
           o == Ordered(S)
<1>1. S \subseteq Contract /\ IsFiniteSet(S)
  <2>1. S \subseteq {"learn", "block"}
    BY DEF TypeOK, Routers, rules, Contract
  <2>2. {"learn", "block"} = {"learn"} \cup {"block"} /\ IsFiniteSet({"learn"})
    BY FS_Singleton
  <2>3. IsFiniteSet({"learn", "block"})
    BY <2>2, FS_AddElement
  <2> QED
    BY <2>1, <2>3, FS_Subset DEF Contract
<1>2. Cardinality(S) \in Nat /\ o \in [1..Cardinality(S) -> S]
  BY <1>1, OrderedIs
<1>3. DOMAIN Uninstalls(k) = 1..Cardinality(S) /\ \A i \in 1..Cardinality(S) : Uninstalls(k)[i] = Uninstall(k, o[i])
  BY <1>2 DEF Uninstalls
<1>4. Uninstalls(k) = [i \in 1..Cardinality(S) |-> Uninstalls(k)[i]]
  BY <1>2 DEF Uninstalls
<1>5. \A i \in 1..Cardinality(S) : /\ Named(Uninstalls(k)[i]) /\ Uninstalls(k)[i].do = "uninstall"
  <2> SUFFICES ASSUME NEW i \in 1..Cardinality(S)
               PROVE  Named(Uninstalls(k)[i]) /\ Uninstalls(k)[i].do = "uninstall"
    OBVIOUS
  <2>1. o[i] \in Contract
    BY <1>1, <1>2
  <2>2. Named(Uninstall(k, o[i])) /\ Uninstall(k, o[i]).do = "uninstall"
    BY <2>1, CallsNamed DEF Uninstall
  <2> QED
    BY <1>3, <2>2
<1>6. Formed(Uninstalls(k))
  BY <1>2, <1>3, <1>4, <1>5, ListFormed
<1> QED
  BY <1>3, <1>5, <1>6 DEF Quiet, Gated

LEMMA UnscheduledIs ==
  ASSUME TypeOK, NEW g
  PROVE  Quiet(Unscheduled(g))
<1> DEFINE S == {e \in scheds : e[1] = g}
           o == Ordered(S)
<1>1. S \subseteq Groups \X Days \X Modes /\ IsFiniteSet(S)
  <2>1. scheds \subseteq Groups \X Days \X Modes
    BY DEF TypeOK, Routers, scheds
  <2>2. IsFiniteSet({"normal", "slow", "blocked"})
    <3>1. {"normal", "slow", "blocked"} = ({"normal"} \cup {"slow"}) \cup {"blocked"}
      OBVIOUS
    <3>2. IsFiniteSet({"normal"}) /\ IsFiniteSet({"normal"} \cup {"slow"})
      BY FS_Singleton, FS_AddElement
    <3> QED
      BY <3>1, <3>2, FS_AddElement
  <2>3. IsFiniteSet(Groups \X (Days \X Modes))
    BY FiniteAssumption, <2>2, FS_Product DEF Modes
  <2> DEFINE h == [e \in Groups \X Days \X Modes |-> <<e[1], <<e[2], e[3]>>>>]
  <2>4. h \in Injection(Groups \X Days \X Modes, Groups \X (Days \X Modes))
    <3>1. h \in [Groups \X Days \X Modes -> Groups \X (Days \X Modes)]
      OBVIOUS
    <3>2. \A x, y \in Groups \X Days \X Modes : h[x] = h[y] => x = y
      OBVIOUS
    <3> HIDE DEF h
    <3> QED
      BY <3>1, <3>2 DEF Injection, IsInjective
  <2>5. IsFiniteSet(Groups \X Days \X Modes)
    BY <2>3, <2>4, FS_Injection
  <2> QED
    BY <2>1, <2>5, FS_Subset
<1>2. Cardinality(S) \in Nat /\ o \in [1..Cardinality(S) -> S]
  BY <1>1, OrderedIs
<1> DEFINE u == Unscheduled(g)
<1>3. u = [i \in DOMAIN o |-> [do |-> "unsched", entry |-> o[i]]]
  BY DEF Unscheduled
<1>4. DOMAIN u = 1..Cardinality(S) /\ \A i \in 1..Cardinality(S) : u[i] = [do |-> "unsched", entry |-> o[i]]
  BY <1>2, <1>3
<1>5. u = [i \in 1..Cardinality(S) |-> u[i]]
  BY <1>2, <1>3
<1>6. \A i \in 1..Cardinality(S) : Named(u[i]) /\ u[i].do = "unsched"
  <2> SUFFICES ASSUME NEW i \in 1..Cardinality(S)
               PROVE  Named(u[i]) /\ u[i].do = "unsched"
    OBVIOUS
  <2>1. o[i] \in Groups \X Days \X Modes
    BY <1>1, <1>2
  <2> DEFINE e == o[i]
             c == [do |-> "unsched", entry |-> e]
  <2>2. e \in Groups \X Days \X Modes
    BY <2>1
  <2>3. u[i] = c /\ c.do = "unsched"
    BY <1>4
  <2> HIDE DEF u, o, S, e
  <2>4. Named(c)
    BY <2>2, CallsNamed
  <2> HIDE DEF c
  <2> QED
    BY <2>3, <2>4
<1> HIDE DEF u, S, o
<1>7. Formed(u)
  BY <1>2, <1>4, <1>5, <1>6, ListFormed
<1> QED
  BY <1>4, <1>6, <1>7 DEF Quiet, Gated, u

\* Calls on the entries of one device.
EntryCalls(s, R, d) ==
  Formed(s) /\ \A i \in DOMAIN s : s[i].do \in {"add", "remove", "set"} /\ s[i].r \in R /\ s[i].d = d

LEMMA NoRemoves ==
  ASSUME NEW r, NEW d, n[r][d] = 0
  PROVE  Removes(r, d) = <<>>
<1>1. Removes(r, d) = [i \in 1..0 |-> Remove(r, d)]
  BY DEF Removes
<1> QED
  BY <1>1

LEMMA BlockIs ==
  ASSUME TypeOK, NEW r \in Lists, NEW d \in Devices
  PROVE  /\ EntryCalls(Block(r, d), {r}, d)
         /\ \A i \in DOMAIN Block(r, d) : Block(r, d)[i].do \in {"add", "remove"}
         /\ n[r][d] = 0 => Block(r, d) = <<Add(r, d)>>
<1>1. /\ Formed(Removes(r, d))
      /\ \A i \in DOMAIN Removes(r, d) : /\ Removes(r, d)[i].do = "remove"
                                         /\ Removes(r, d)[i].r = r /\ Removes(r, d)[i].d = d
  <2>1. Formed(Removes(r, d)) /\ \A i \in DOMAIN Removes(r, d) : Removes(r, d)[i] = Remove(r, d)
    BY RemovesIs
  <2>2. Remove(r, d).do = "remove" /\ Remove(r, d).r = r /\ Remove(r, d).d = d
    BY DEF Remove
  <2> QED
    BY <2>1, <2>2, Zenon
<1>2. Formed(<<Add(r, d)>>) /\ Len(<<Add(r, d)>>) = 1 /\ <<Add(r, d)>>[1] = Add(r, d)
  BY CallsNamed, FormedOf
<1>3. n[r][d] = 0 => Block(r, d) = <<Add(r, d)>>
  <2>1. <<>> \o <<Add(r, d)>> = <<Add(r, d)>>
    OBVIOUS
  <2> QED
    BY <2>1, NoRemoves DEF Block
<1> DEFINE s == Removes(r, d)
           t == <<Add(r, d)>>
<1>4. /\ Formed(s \o t) /\ Len(s) \in Nat /\ Len(s \o t) = Len(s) + 1
      /\ \A i \in 1..Len(s) : (s \o t)[i] = s[i]
      /\ (s \o t)[Len(s) + 1] = t[1]
  <2>1. Formed(s) /\ Formed(t) /\ Len(t) = 1
    BY <1>1, <1>2
  <2> HIDE DEF s, t
  <2>2. /\ Formed(s \o t) /\ Len(s) \in Nat /\ Len(s \o t) = Len(s) + Len(t)
        /\ \A i \in 1..Len(s) : (s \o t)[i] = s[i]
        /\ \A i \in 1..Len(t) : (s \o t)[Len(s) + i] = t[i]
    <3>1. Formed(s) /\ Formed(t)
      BY <2>1
    <3> QED
      BY <3>1, JoinFormed
  <2>3. 1 \in 1..Len(t)
    BY <2>1
  <2> QED
    BY <2>1, <2>2, <2>3
<1>5. DOMAIN s = 1..Len(s)
  BY RemovesIs
<1>6. DOMAIN (s \o t) = 1..(Len(s) + 1)
  <2> HIDE DEF s, t
  <2>1. Len(s \o t) \in Nat /\ DOMAIN (s \o t) = 1..Len(s \o t)
    BY <1>4 DEF Formed
  <2> QED
    BY <1>4, <2>1
<1>7. t[1].do = "add" /\ t[1].r = r /\ t[1].d = d
  BY <1>2 DEF Add
<1>8. \A i \in 1..(Len(s) + 1) : i \in 1..Len(s) \/ i = Len(s) + 1
  BY <1>4
<1>9. Block(r, d) = s \o t
  BY DEF Block
<1> HIDE DEF s, t
<1>10. ASSUME NEW i \in DOMAIN (s \o t)
       PROVE  (s \o t)[i].do \in {"add", "remove"} /\ (s \o t)[i].r = r /\ (s \o t)[i].d = d
  <2>1. s = Removes(r, d)
    BY DEF s
  <2> QED
    BY <1>1, <1>4, <1>5, <1>6, <1>7, <1>8, <2>1
<1> QED
  BY <1>3, <1>4, <1>9, <1>10 DEF EntryCalls

LEMMA BlockAllIs ==
  ASSUME TypeOK, NEW K \in SUBSET Lists, NEW d \in Devices
  PROVE  /\ EntryCalls(BlockAll(K, d), K, d)
         /\ \A i \in DOMAIN BlockAll(K, d) : BlockAll(K, d)[i].do \in {"add", "remove"}
         /\ (\A k \in K : n[k][d] = 0) =>
              /\ \A i \in DOMAIN BlockAll(K, d) : BlockAll(K, d)[i].do = "add"
              /\ \A i, j \in DOMAIN BlockAll(K, d) : BlockAll(K, d)[i].r = BlockAll(K, d)[j].r => i = j
              /\ \A k \in K : \E i \in DOMAIN BlockAll(K, d) : BlockAll(K, d)[i].r = k
<1> DEFINE o == Ordered(K)
           m == Cardinality(K)
           s == [i \in DOMAIN o |-> Block(o[i], d)]
           e == BlockAll(K, d)
<1>1. /\ m \in Nat /\ o \in [1..m -> K]
      /\ \A x \in K : \E i \in 1..m : o[i] = x
      /\ \A i, j \in 1..m : o[i] = o[j] => i = j
  BY FiniteKinds, OrderedIs
<1>2. Len(s) = m /\ \A i \in 1..m : s[i] = Block(o[i], d) /\ o[i] \in K /\ o[i] \in Lists
  BY <1>1
<1>3. e = Each(s)
  BY DEF BlockAll
<1> HIDE DEF o, m, s, e
<1>4. \A i \in 1..m : /\ Formed(s[i])
                      /\ \A q \in DOMAIN s[i] : /\ s[i][q].do \in {"add", "remove"}
                                                /\ s[i][q].r = o[i] /\ s[i][q].d = d
                      /\ n[o[i]][d] = 0 => s[i] = <<Add(o[i], d)>>
  BY <1>2, BlockIs DEF EntryCalls
<1>5. /\ Formed(e) /\ DOMAIN e = 1..Len(e) /\ \A i \in 1..m : Len(s[i]) \in Nat
      /\ \E a : /\ Parts(e, s, a, m)
                /\ \A x \in 0..m : \A y \in 0..x : a[y] <= a[x]
                /\ \A p \in 1..Len(e) : \E i \in 1..m :
                     /\ a[i - 1] < p /\ p <= a[i]
                     /\ p - a[i - 1] \in 1..Len(s[i])
                     /\ e[p] = s[i][p - a[i - 1]]
  <2>1. Len(s) \in Nat
    BY <1>1, <1>2
  <2>0. \A i \in 1..Len(s) : Formed(s[i])
    BY <1>2, <1>4
  <2>2. /\ Formed(Each(s)) /\ DOMAIN Each(s) = 1..Len(Each(s)) /\ \A i \in 1..Len(s) : Len(s[i]) \in Nat
        /\ \E a : /\ Parts(Each(s), s, a, Len(s))
                  /\ \A x \in 0..Len(s) : \A y \in 0..x : a[y] <= a[x]
                  /\ \A p \in 1..Len(Each(s)) : \E i \in 1..Len(s) :
                       /\ a[i - 1] < p /\ p <= a[i]
                       /\ p - a[i - 1] \in 1..Len(s[i])
                       /\ Each(s)[p] = s[i][p - a[i - 1]]
    BY <2>0, <2>1, EachFormed
  <2>3. m = Len(s)
    BY <1>2
  <2> QED
    BY <1>3, <2>2, <2>3, Zenon
<1>6. PICK a : /\ Parts(e, s, a, m)
               /\ \A x \in 0..m : \A y \in 0..x : a[y] <= a[x]
               /\ \A p \in 1..Len(e) : \E i \in 1..m :
                    /\ a[i - 1] < p /\ p <= a[i]
                    /\ p - a[i - 1] \in 1..Len(s[i])
                    /\ e[p] = s[i][p - a[i - 1]]
  BY <1>5
<1>7. \A i \in 1..m : DOMAIN s[i] = 1..Len(s[i])
  BY <1>4, <1>5 DEF Formed
<1>8. \A p \in 1..Len(e) : e[p].do \in {"add", "remove"} /\ e[p].r \in K /\ e[p].d = d
  <2> SUFFICES ASSUME NEW p \in 1..Len(e)
               PROVE  e[p].do \in {"add", "remove"} /\ e[p].r \in K /\ e[p].d = d
    OBVIOUS
  <2>1. PICK i \in 1..m : p - a[i - 1] \in 1..Len(s[i]) /\ e[p] = s[i][p - a[i - 1]]
    BY <1>6
  <2> QED
    BY <1>2, <1>4, <1>7, <2>1
<1>9. ASSUME \A k \in K : n[k][d] = 0
      PROVE  /\ \A i \in 1..Len(e) : e[i].do = "add"
             /\ \A i, j \in 1..Len(e) : e[i].r = e[j].r => i = j
             /\ \A k \in K : \E i \in 1..Len(e) : e[i].r = k
  <2>1. /\ a \in [0..m -> Nat] /\ a[0] = 0 /\ a[m] = Len(e)
        /\ \A i \in 1..m : /\ a[i] = a[i - 1] + Len(s[i])
                           /\ \A q \in 1..Len(s[i]) : e[a[i - 1] + q] = s[i][q]
    BY <1>6 DEF Parts
  <2>2. \A i \in 1..m : Len(s[i]) = 1 /\ s[i][1].do = "add" /\ s[i][1].r = o[i]
    <3> SUFFICES ASSUME NEW i \in 1..m
                 PROVE  Len(s[i]) = 1 /\ s[i][1].do = "add" /\ s[i][1].r = o[i]
      OBVIOUS
    <3>1. s[i] = <<Add(o[i], d)>>
      BY <1>2, <1>4, <1>9
    <3> QED
      BY <3>1 DEF Add
  <2>3. \A i \in 1..m : /\ a[i - 1] \in Nat /\ a[i] = a[i - 1] + 1 /\ a[i] <= Len(e)
                        /\ e[a[i]].do = "add" /\ e[a[i]].r = o[i] /\ a[i] \in 1..Len(e)
    <3> SUFFICES ASSUME NEW i \in 1..m
                 PROVE  /\ a[i - 1] \in Nat /\ a[i] = a[i - 1] + 1 /\ a[i] <= Len(e)
                        /\ e[a[i]].do = "add" /\ e[a[i]].r = o[i] /\ a[i] \in 1..Len(e)
      OBVIOUS
    <3>1. a[i - 1] \in Nat /\ a[i] \in Nat
      <4>1. i - 1 \in 0..m /\ i \in 0..m
        BY <1>1
      <4> QED
        BY <2>1, <4>1
    <3>2. a[i] = a[i - 1] + 1
      BY <2>1, <2>2
    <3>3. a[i] <= a[m]
      BY <1>1, <1>6, i \in 0..m, m \in 0..m
    <3>4. 1 \in 1..Len(s[i]) /\ e[a[i - 1] + 1] = s[i][1]
      BY <2>1, <2>2
    <3> QED
      BY <2>1, <2>2, <3>1, <3>2, <3>3, <3>4
  <2>4. \A p \in 1..Len(e) : \E i \in 1..m : p = a[i]
    <3> SUFFICES ASSUME NEW p \in 1..Len(e)
                 PROVE  \E i \in 1..m : p = a[i]
      OBVIOUS
    <3>1. PICK i \in 1..m : a[i - 1] < p /\ p <= a[i]
      BY <1>6
    <3>2. a[i - 1] \in Nat /\ a[i] = a[i - 1] + 1
      BY <2>3
    <3> QED
      BY <3>1, <3>2
  <2>5. \A i \in 1..Len(e) : e[i].do = "add"
    BY <2>3, <2>4
  <2>6. ASSUME NEW p \in 1..Len(e), NEW q \in 1..Len(e), e[p].r = e[q].r
        PROVE  p = q
    <3>1. PICK i \in 1..m : p = a[i]
      BY <2>4
    <3>2. PICK j \in 1..m : q = a[j]
      BY <2>4
    <3>3. o[i] = o[j]
      BY <2>3, <2>6, <3>1, <3>2
    <3> QED
      BY <1>1, <3>1, <3>2, <3>3
  <2>7. ASSUME NEW k \in K
        PROVE  \E i \in 1..Len(e) : e[i].r = k
    <3>1. PICK i \in 1..m : o[i] = k
      BY <1>1
    <3>2. a[i] \in 1..Len(e) /\ e[a[i]].r = k
      BY <2>3, <3>1
    <3> QED
      BY <3>2
  <2> QED
    BY <2>5, <2>6, <2>7
<1>10. e = BlockAll(K, d)
  BY DEF e
<1>11. EntryCalls(e, K, d)
  BY <1>5, <1>8 DEF EntryCalls
<1>12. (\A k \in K : n[k][d] = 0) =>
         /\ \A i \in DOMAIN e : e[i].do = "add"
         /\ \A i, j \in DOMAIN e : e[i].r = e[j].r => i = j
         /\ \A k \in K : \E i \in DOMAIN e : e[i].r = k
  BY <1>5, <1>9
<1>13. \A i \in DOMAIN e : e[i].do \in {"add", "remove"}
  BY <1>5, <1>8
<1> QED
  BY <1>11, <1>12, <1>13, Zenon DEF e

-----------------------------------------------------------------------------
(* What a call does to the router.                                         *)

LEMMA TypeIs ==
  ASSUME TypeOK
  PROVE  /\ ros = [n |-> n, disabled |-> disabled, rules |-> rules, learned |-> learned,
                   gmode |-> gmode, web |-> web, late |-> late, failing |-> failing,
                   temp |-> temp, scheds |-> scheds]
         /\ n \in [Lists -> [Devices -> Nat]] /\ disabled \subseteq Queues \X Devices
         /\ rules \in [Customs -> SUBSET Contract] /\ learned \subseteq Customs
         /\ gmode \in Modes \cup {"invalid"} /\ web \in BOOLEAN /\ late \in BOOLEAN
         /\ failing \subseteq StaticChecks /\ temp \in Modes \cup {"none", "fired"}
         /\ scheds \subseteq Groups \X Days \X Modes
BY DEF TypeOK, Routers, n, disabled, rules, learned, gmode, web, late, failing, temp, scheds

LEMMA EffectOnEntries ==
  ASSUME TypeOK, NEW c, Named(c), ~Refuses(c)
  PROVE  /\ Effect(c).n \in [Lists -> [Devices -> Nat]]
         /\ \A r \in Lists, d \in Devices :
              Effect(c).n[r][d] = IF c.do = "add" /\ c.r = r /\ c.d = d THEN n[r][d] + 1
                                  ELSE IF c.do = "remove" /\ c.r = r /\ c.d = d THEN n[r][d] - 1
                                  ELSE n[r][d]
         /\ c.do = "remove" => n[c.r][c.d] > 0
         /\ Effect(c).disabled \subseteq Queues \X Devices
         /\ \A r, d : <<r, d>> \in Effect(c).disabled <=>
              <<r, d>> \in disabled /\ ~(c.do \in {"remove", "set"} /\ c.r = r /\ c.d = d)
<1> USE TypeIs
<1>1. CASE c.do = "add"
  <2>1. Effect(c) = [ros EXCEPT !.n[c.r][c.d] = @ + 1] /\ c.r \in Lists /\ c.d \in Devices
    BY <1>1, EffectCases DEF Named, OnEntries
  <2> DEFINE r0 == c.r
             d0 == c.d
             m == [n EXCEPT ![r0][d0] = @ + 1]
  <2>2. r0 \in Lists /\ d0 \in Devices
    BY <2>1
  <2>3. Effect(c).n = m /\ Effect(c).disabled = disabled
    BY <2>1 DEF n, disabled
  <2> HIDE DEF r0, d0
  <2>4. /\ m \in [Lists -> [Devices -> Nat]]
        /\ \A r \in Lists, d \in Devices : m[r][d] = IF r0 = r /\ d0 = d THEN n[r][d] + 1 ELSE n[r][d]
    BY <2>2
  <2> HIDE DEF m
  <2> QED
    BY <1>1, <2>3, <2>4 DEF r0, d0
<1>2. CASE c.do = "remove"
  <2>1. /\ Effect(c) = [ros EXCEPT !.n[c.r][c.d] = @ - 1, !.disabled = @ \ {<<c.r, c.d>>}]
        /\ c.r \in Lists /\ c.d \in Devices /\ n[c.r][c.d] # 0
    BY <1>2, EffectCases, RefusesCases DEF Named, OnEntries
  <2> DEFINE r0 == c.r
             d0 == c.d
             m == [n EXCEPT ![r0][d0] = @ - 1]
             q == disabled \ {<<r0, d0>>}
  <2>2. r0 \in Lists /\ d0 \in Devices /\ n[r0][d0] # 0
    BY <2>1
  <2>3. Effect(c).n = m /\ Effect(c).disabled = q
    BY <2>1 DEF n, disabled
  <2> HIDE DEF r0, d0
  <2>4. /\ m \in [Lists -> [Devices -> Nat]]
        /\ \A r \in Lists, d \in Devices : m[r][d] = IF r0 = r /\ d0 = d THEN n[r][d] - 1 ELSE n[r][d]
        /\ n[r0][d0] > 0
    BY <2>2
  <2>5. /\ q \subseteq Queues \X Devices
        /\ \A r, d : <<r, d>> \in q <=> <<r, d>> \in disabled /\ ~(r0 = r /\ d0 = d)
    OBVIOUS
  <2> HIDE DEF m, q
  <2> QED
    BY <1>2, <2>3, <2>4, <2>5 DEF r0, d0
<1>3. CASE c.do = "set"
  <2>1. Effect(c) = [ros EXCEPT !.disabled = @ \ {<<c.r, c.d>>}]
    BY <1>3, EffectCases
  <2> DEFINE r0 == c.r
             d0 == c.d
             q == disabled \ {<<r0, d0>>}
  <2>2. Effect(c).n = n /\ Effect(c).disabled = q
    BY <2>1
  <2> HIDE DEF r0, d0
  <2>3. /\ q \subseteq Queues \X Devices
        /\ \A r, d : <<r, d>> \in q <=> <<r, d>> \in disabled /\ ~(r0 = r /\ d0 = d)
    OBVIOUS
  <2> HIDE DEF q
  <2> QED
    BY <1>3, <2>2, <2>3 DEF r0, d0
<1>4. CASE c.do \notin {"add", "remove", "set"}
  <2>1. Effect(c).n = n /\ Effect(c).disabled = disabled
    <3> DEFINE Kept(x) == x.n = n /\ x.disabled = disabled
    <3>5. \A x : /\ Kept([ros EXCEPT !.gmode = x]) /\ Kept([ros EXCEPT !.temp = x])
                 /\ Kept([ros EXCEPT !.web = x])
      BY DEF n, disabled
    <3>6. \A e : /\ Kept([ros EXCEPT !.scheds = @ \cup {e}]) /\ Kept([ros EXCEPT !.scheds = @ \ {e}])
                 /\ Kept([ros EXCEPT !.learned = @ \ {e}])
      BY DEF n, disabled
    <3> HIDE DEF Kept
    <3> SUFFICES Kept(Effect(c))
      BY DEF Kept
    <3>1. CASE c.do \notin Writing
      BY <3>1, EffectCases DEF n, disabled, Kept
    <3>8. CASE c.do = "script"
      <4>1. Effect(c) = [ros EXCEPT !.gmode = c.mode]
        BY <3>8, EffectCases
      <4> QED
        BY <3>5, <4>1
    <3>9. CASE c.do = "arm"
      <4>1. Effect(c) = [ros EXCEPT !.temp = c.mode]
        BY <3>9, EffectCases
      <4> QED
        BY <3>5, <4>1
    <3>10. CASE c.do = "disarm"
      <4>1. Effect(c) = [ros EXCEPT !.temp = "none"]
        BY <3>10, EffectCases
      <4> QED
        BY <3>5, <4>1
    <3>11. CASE c.do = "web"
      <4>1. Effect(c) = [ros EXCEPT !.web = c.on]
        BY <3>11, EffectCases
      <4> QED
        BY <3>5, <4>1
    <3>12. CASE c.do = "sched"
      <4>1. Effect(c) = [ros EXCEPT !.scheds = @ \cup {c.entry}]
        BY <3>12, EffectCases
      <4> QED
        BY <3>6, <4>1
    <3>13. CASE c.do = "unsched"
      <4>1. Effect(c) = [ros EXCEPT !.scheds = @ \ {c.entry}]
        BY <3>13, EffectCases
      <4> QED
        BY <3>6, <4>1
    <3>14. CASE c.do = "forget"
      <4>1. Effect(c) = [ros EXCEPT !.learned = @ \ {c.k}]
        BY <3>14, EffectCases
      <4> QED
        BY <3>6, <4>1
    <3>15. CASE c.do = "install"
      <4>1. Effect(c) = [ros EXCEPT !.rules[c.k] = @ \cup {c.r}]
        BY <3>15, EffectCases
      <4> QED
        BY <4>1 DEF n, disabled, Kept
    <3>16. CASE c.do = "uninstall"
      <4>1. Effect(c) = [ros EXCEPT !.rules[c.k] = @ \ {c.r}]
        BY <3>16, EffectCases
      <4> QED
        BY <4>1 DEF n, disabled, Kept
    <3> QED
      BY <1>4, <3>1, <3>8, <3>9, <3>10, <3>11, <3>12, <3>13, <3>14, <3>15, <3>16 DEF Writing
  <2> QED
    BY <1>4, <2>1
<1> QED
  BY <1>1, <1>2, <1>3, <1>4

LEMMA EffectElsewhere ==
  ASSUME TypeOK, NEW c, Named(c), ~Refuses(c)
  PROVE  /\ Effect(c) \in Routers
         /\ Effect(c).gmode = IF c.do = "script" THEN c.mode ELSE gmode
         /\ Effect(c).temp = IF c.do = "arm" THEN c.mode ELSE IF c.do = "disarm" THEN "none" ELSE temp
         /\ Effect(c).web = IF c.do = "web" THEN c.on ELSE web
         /\ Effect(c).late = late /\ Effect(c).failing = failing
<1> USE TypeIs
<1> DEFINE x == Effect(c)
           Rest0 == /\ x.gmode = IF c.do = "script" THEN c.mode ELSE gmode
                    /\ x.temp = IF c.do = "arm" THEN c.mode ELSE IF c.do = "disarm" THEN "none" ELSE temp
                    /\ x.web = IF c.do = "web" THEN c.on ELSE web
                    /\ x.late = late /\ x.failing = failing
           Fields(v) == v = [n |-> v.n, disabled |-> v.disabled, rules |-> v.rules, learned |-> v.learned,
                             gmode |-> v.gmode, web |-> v.web, late |-> v.late, failing |-> v.failing,
                             temp |-> v.temp, scheds |-> v.scheds]
           Others == /\ x.rules \in [Customs -> SUBSET Contract] /\ x.learned \subseteq Customs
                     /\ x.scheds \subseteq Groups \X Days \X Modes
<1>1. x.n \in [Lists -> [Devices -> Nat]] /\ x.disabled \subseteq Queues \X Devices
  BY EffectOnEntries
<1>2. Fields(x) /\ Rest0 /\ Others
  <2> USE DEF n, disabled, rules, learned, gmode, web, late, failing, temp, scheds
  <2>1. CASE c.do \notin Writing
    <3>1. x = ros
      BY <2>1, EffectCases
    <3> HIDE DEF x
    <3> QED
      BY <2>1, <3>1 DEF Writing
  <2>2. CASE c.do = "add"
    <3>1. x = [ros EXCEPT !.n[c.r][c.d] = @ + 1]
      BY <2>2, EffectCases
    <3>2. Named(c)
      OBVIOUS
    <3> HIDE DEF x
    <3> QED
      BY <2>2, <3>1, <3>2 DEF Named, OnContracts
  <2>3. CASE c.do = "remove"
    <3>1. x = [ros EXCEPT !.n[c.r][c.d] = @ - 1, !.disabled = @ \ {<<c.r, c.d>>}]
      BY <2>3, EffectCases
    <3>2. Named(c)
      OBVIOUS
    <3> HIDE DEF x
    <3> QED
      BY <2>3, <3>1, <3>2 DEF Named, OnContracts
  <2>4. CASE c.do = "set"
    <3>1. x = [ros EXCEPT !.disabled = @ \ {<<c.r, c.d>>}]
      BY <2>4, EffectCases
    <3>2. Named(c)
      OBVIOUS
    <3> HIDE DEF x
    <3> QED
      BY <2>4, <3>1, <3>2 DEF Named, OnContracts
  <2>5. CASE c.do = "script"
    <3>1. x = [ros EXCEPT !.gmode = c.mode]
      BY <2>5, EffectCases
    <3>2. Named(c)
      OBVIOUS
    <3> HIDE DEF x
    <3> QED
      BY <2>5, <3>1, <3>2 DEF Named, OnContracts
  <2>6. CASE c.do = "arm"
    <3>1. x = [ros EXCEPT !.temp = c.mode]
      BY <2>6, EffectCases
    <3>2. Named(c)
      OBVIOUS
    <3> HIDE DEF x
    <3> QED
      BY <2>6, <3>1, <3>2 DEF Named, OnContracts
  <2>7. CASE c.do = "disarm"
    <3>1. x = [ros EXCEPT !.temp = "none"]
      BY <2>7, EffectCases
    <3>2. Named(c)
      OBVIOUS
    <3> HIDE DEF x
    <3> QED
      BY <2>7, <3>1, <3>2 DEF Named, OnContracts
  <2>8. CASE c.do = "web"
    <3>1. x = [ros EXCEPT !.web = c.on]
      BY <2>8, EffectCases
    <3>2. Named(c)
      OBVIOUS
    <3> HIDE DEF x
    <3> QED
      BY <2>8, <3>1, <3>2 DEF Named, OnContracts
  <2>9. CASE c.do = "sched"
    <3>1. x = [ros EXCEPT !.scheds = @ \cup {c.entry}]
      BY <2>9, EffectCases
    <3>2. Named(c)
      OBVIOUS
    <3> HIDE DEF x
    <3> QED
      BY <2>9, <3>1, <3>2 DEF Named, OnContracts
  <2>10. CASE c.do = "unsched"
    <3>1. x = [ros EXCEPT !.scheds = @ \ {c.entry}]
      BY <2>10, EffectCases
    <3>2. Named(c)
      OBVIOUS
    <3> HIDE DEF x
    <3> QED
      BY <2>10, <3>1, <3>2 DEF Named, OnContracts
  <2>11. CASE c.do = "forget"
    <3>1. x = [ros EXCEPT !.learned = @ \ {c.k}]
      BY <2>11, EffectCases
    <3>2. Named(c)
      OBVIOUS
    <3> HIDE DEF x
    <3> QED
      BY <2>11, <3>1, <3>2 DEF Named, OnContracts
  <2>12. CASE c.do = "install"
    <3>1. x = [ros EXCEPT !.rules[c.k] = @ \cup {c.r}]
      BY <2>12, EffectCases
    <3>2. Named(c)
      OBVIOUS
    <3> HIDE DEF x
    <3> QED
      BY <2>12, <3>1, <3>2 DEF Named, OnContracts
  <2>13. CASE c.do = "uninstall"
    <3>1. x = [ros EXCEPT !.rules[c.k] = @ \ {c.r}]
      BY <2>13, EffectCases
    <3>2. Named(c)
      OBVIOUS
    <3> HIDE DEF x
    <3> QED
      BY <2>13, <3>1, <3>2 DEF Named, OnContracts
  <2> HIDE DEF n, disabled, rules, learned, gmode, web, late, failing, temp, scheds
  <2> HIDE DEF x, Fields, Rest0, Others
  <2> QED
    BY <2>1, <2>2, <2>3, <2>4, <2>5, <2>6, <2>7, <2>8, <2>9, <2>10, <2>11, <2>12, <2>13 DEF Writing
<1>3. x \in Routers
  <2>1. c.do = "script" \/ c.do = "arm" => c.mode \in Modes
    BY DEF Named
  <2>2. c.do = "web" => c.on \in BOOLEAN
    BY DEF Named
  <2> HIDE DEF x
  <2> QED
    BY <1>1, <1>2, <2>1, <2>2 DEF Routers
<1> QED
  BY <1>2, <1>3

LEMMA ApprovalsType ==
  ASSUME TypeOK, NEW c, Named(c)
  PROVE  Approvals(c) \subseteq Customs
<1>1. c.do = "approve" /\ c.ok => Approvals(c) = approved \cup {c.k}
  BY Zenon DEF Approvals
<1>2. c.do = "approve" /\ ~c.ok => Approvals(c) = approved \ {c.k}
  BY Zenon DEF Approvals
<1>3. c.do # "approve" => Approvals(c) = approved
  BY Zenon DEF Approvals
<1>4. c.do = "approve" => c.k \in Customs
  BY DEF Named, OnContracts
<1>5. approved \subseteq Customs
  BY DEF TypeOK
<1>6. CASE c.do = "approve" /\ c.ok
  <2>1. Approvals(c) = approved \cup {c.k} /\ c.k \in Customs
    BY <1>1, <1>4, <1>6, Zenon
  <2> QED
    BY <1>5, <2>1
<1>7. CASE c.do = "approve" /\ ~c.ok
  <2>1. Approvals(c) = approved \ {c.k}
    BY <1>2, <1>7, Zenon
  <2> QED
    BY <1>5, <2>1
<1>8. CASE c.do # "approve"
  BY <1>3, <1>5, <1>8
<1> QED
  BY <1>6, <1>7, <1>8, Zenon

-----------------------------------------------------------------------------
(* What is left of a plan after a call.                                    *)

LEMMA QuietJoin ==
  ASSUME NEW s, NEW t, Quiet(s), Quiet(t)
  PROVE  Quiet(s \o t)
<1>1. /\ Formed(s \o t) /\ Len(s) \in Nat /\ Len(t) \in Nat
      /\ Len(s \o t) = Len(s) + Len(t)
      /\ \A i \in 1..Len(s) : (s \o t)[i] = s[i]
      /\ \A i \in 1..(Len(s) + Len(t)) : i > Len(s) => (s \o t)[i] = t[i - Len(s)]
  BY JoinFormed DEF Quiet
<1>2. /\ DOMAIN s = 1..Len(s) /\ DOMAIN t = 1..Len(t) /\ DOMAIN (s \o t) = 1..(Len(s) + Len(t))
  BY <1>1 DEF Quiet, Formed
<1>3. ASSUME NEW i \in 1..(Len(s) + Len(t))
      PROVE  (s \o t)[i].do \notin Gated \cup {"set"}
  <2>1. CASE i \in 1..Len(s)
    BY <1>1, <1>2, <2>1 DEF Quiet
  <2>2. CASE i > Len(s)
    <3>1. i - Len(s) \in 1..Len(t) /\ (s \o t)[i] = t[i - Len(s)]
      BY <1>1, <2>2
    <3> QED
      BY <1>2, <3>1 DEF Quiet
  <2> QED
    BY <1>1, <2>1, <2>2
<1> QED
  BY <1>1, <1>2, <1>3 DEF Quiet

LEMMA RemovesQuiet ==
  ASSUME NEW s, NEW R, NEW D, RemovesOnly(s, R, D)
  PROVE  Quiet(s)
BY DEF RemovesOnly, Quiet, Gated

LEMMA GlobalPlanIs ==
  ASSUME NEW m \in Modes
  PROVE  Quiet(GlobalPlan(m)) /\ Len(GlobalPlan(m)) = 3
<1> DEFINE a == Gate
           b == Script(m)
           c == [do |-> "expect global", mode |-> m]
<1>1. Named(a) /\ Named(b) /\ Named(c)
  BY CallsNamed
<1>2. a.do = "gate" /\ b.do = "script" /\ c.do = "expect global"
  BY DEF Gate, Script
<1>3. GlobalPlan(m) = <<a, b, c>>
  BY DEF GlobalPlan
<1> HIDE DEF a, b, c
<1>4. Formed(<<a, b, c>>) /\ Len(<<a, b, c>>) = 3
  BY <1>1, FormedOfThree
<1>5. \A i \in DOMAIN <<a, b, c>> : <<a, b, c>>[i].do \notin Gated \cup {"set"}
  <2>1. DOMAIN <<a, b, c>> = 1..3 /\ <<a, b, c>>[1] = a /\ <<a, b, c>>[2] = b /\ <<a, b, c>>[3] = c
    OBVIOUS
  <2>2. \A i \in 1..3 : i = 1 \/ i = 2 \/ i = 3
    OBVIOUS
  <2>3. a.do \notin Gated \cup {"set"} /\ b.do \notin Gated \cup {"set"} /\ c.do \notin Gated \cup {"set"}
    BY <1>2 DEF Gated
  <2> QED
    BY <2>1, <2>2, <2>3, Zenon
<1> QED
  BY <1>3, <1>4, <1>5 DEF Quiet

LEMMA SingleIs ==
  ASSUME TypeOK, NEW r \in Managed, NEW d \in Devices
  PROVE  /\ EntryCalls(Single(r, d), {r}, d)
         /\ n[r][d] = 0 => Single(r, d) = <<Add(r, d)>>
         /\ n[r][d] = 1 /\ r \in Queues => Single(r, d) = <<[do |-> "set", r |-> r, d |-> d]>>
         /\ n[r][d] = 1 /\ r \notin Queues => Single(r, d) = <<>>
<1>1. r \in Lists
  BY DEF Lists
<1>2. CASE n[r][d] # 1
  <2>1. Single(r, d) = Block(r, d)
    BY <1>2 DEF Single, Block
  <2> QED
    BY <1>1, <1>2, <2>1, BlockIs
<1>3. CASE n[r][d] = 1 /\ r \in Queues
  <2> DEFINE c == [do |-> "set", r |-> r, d |-> d]
  <2>1. Single(r, d) = <<c>> /\ Named(c)
    BY <1>3, CallsNamed DEF Single
  <2>2. c.do = "set" /\ c.r = r /\ c.d = d
    OBVIOUS
  <2>3. n[r][d] = 1 /\ r \in Queues => Single(r, d) = <<[do |-> "set", r |-> r, d |-> d]>>
    BY <2>1
  <2> HIDE DEF c
  <2>4. EntryCalls(<<c>>, {r}, d)
    BY <2>1, <2>2, FormedOf DEF EntryCalls
  <2> QED
    BY <1>3, <2>1, <2>3, <2>4
<1>4. CASE n[r][d] = 1 /\ r \notin Queues
  <2>1. Single(r, d) = <<>>
    BY <1>4 DEF Single
  <2>2. EntryCalls(<<>>, {r}, d)
    BY NothingFormed DEF EntryCalls
  <2> QED
    BY <1>4, <2>1, <2>2
<1> QED
  BY <1>2, <1>3, <1>4

LEMMA RestIs ==
  ASSUME Formed(job.plan), job.plan # <<>>, NEW c, NEW x
  PROVE  Rest(c, x) = Tail(job.plan) \/ Quiet(Rest(c, x))
<1> DEFINE l == job.plan[Len(job.plan)]
<1>1. Rest(c, x) = Tail(job.plan) \/ (l.do = "approve" /\ Rest(c, x) = <<l>>) \/ Rest(c, x) = <<>>
  BY DEF Rest
<1>2. Named(l)
  <2>1. Len(job.plan) \in 1..Len(job.plan) /\ DOMAIN job.plan = 1..Len(job.plan)
    BY TailFormed
  <2> QED
    BY <2>1, Zenon DEF Formed
<1> HIDE DEF l
<1>3. l.do = "approve" => Quiet(<<l>>)
  BY <1>2, FormedOf DEF Quiet, Gated
<1>4. Quiet(<<>>)
  BY NothingFormed DEF Quiet
<1> QED
  BY <1>1, <1>3, <1>4

\* Every call but three leaves quiet calls before what follows it, or instead.
LEMMA AfterQuiet ==
  ASSUME TypeOK, Formed(job.plan), job.plan # <<>>,
         NEW c, c = Head(job.plan), c.do \notin {"one", "services", "ensure"}
  PROVE  \/ Quiet(After(c))
         \/ \E s : Quiet(s) /\ After(c) = s \o Tail(job.plan)
<1>1. Named(c) /\ Formed(Tail(job.plan))
  BY TailFormed
<1> DEFINE t == Tail(job.plan)
<1>2. <<>> \o t = t /\ Quiet(<<>>)
  <2>1. t \in Seq({t[i] : i \in DOMAIN t})
    BY <1>1 DEF Formed
  <2>2. Quiet(<<>>)
    BY NothingFormed DEF Quiet
  <2> DEFINE T == {t[i] : i \in DOMAIN t}
  <2> HIDE DEF t, T
  <2>3. \A u \in Seq(T) : <<>> \o u = u
    OBVIOUS
  <2> QED
    BY <2>1, <2>2, <2>3 DEF T
<1> HIDE DEF t
<1>3. CASE c.do = "clear"
  <2>1. After(c) = Removes(c.r, c.d) \o t /\ c.r \in Lists /\ c.d \in Devices
    BY <1>1, <1>3, AfterCases DEF Named, OnEntries, t
  <2>2. Quiet(Removes(c.r, c.d))
    BY <2>1, RemovesIs, RemovesQuiet
  <2> QED
    BY <2>1, <2>2 DEF t
<1>4. CASE c.do = "leave"
  <2>1. After(c) = Removes("restricted", c.d) \o t /\ "restricted" \in Lists /\ c.d \in Devices
    BY <1>1, <1>4, AfterCases DEF Named, OnDevices, Lists, t
  <2>2. Quiet(Removes("restricted", c.d))
    BY <2>1, RemovesIs, RemovesQuiet
  <2> QED
    BY <2>1, <2>2 DEF t
<1>5. CASE c.do = "again"
  <2>1. c.modes \subseteq Modes
    BY <1>1, <1>5 DEF Named
  <2>2. After(c) = IF gmode \in c.modes THEN GlobalPlan(gmode) ELSE <<>>
    BY <1>5, AfterCases
  <2> QED
    BY <1>2, <2>1, <2>2, GlobalPlanIs
<1>6. CASE c.do = "absent?"
  <2>1. After(c) = Rest(c, "healthy")
    BY <1>6, AfterCases
  <2> QED
    BY <1>2, <2>1, RestIs DEF t
<1>7. CASE c.do = "healthy?"
  <2>1. After(c) = Rest(c, "absent")
    BY <1>7, AfterCases
  <2> QED
    BY <1>2, <2>1, RestIs DEF t
<1>8. CASE c.do = "release"
  <2>1. After(c) = Released(c.k) \o t /\ c.k \in Lists
    <3>1. c.k \in Customs
      BY <1>1, <1>8 DEF Named, OnContracts
    <3>2. c.k \in Lists
      BY <3>1, FiniteKinds
    <3> QED
      BY <1>8, <3>2, AfterCases DEF t
  <2>2. Quiet(Released(c.k))
    BY <2>1, ReleasedIs, RemovesQuiet
  <2> QED
    BY <2>1, <2>2 DEF t
<1>9. CASE c.do = "purge"
  <2>1. After(c) = Uninstalls(c.k) \o t /\ c.k \in Customs
    BY <1>1, <1>9, AfterCases DEF Named, OnContracts, t
  <2>2. Quiet(Uninstalls(c.k))
    BY <2>1, UninstallsIs
  <2> QED
    BY <2>1, <2>2 DEF t
<1>10. CASE c.do = "unschedule"
  <2>1. After(c) = Unscheduled(c.g) \o t
    BY <1>10, AfterCases DEF t
  <2>2. Quiet(Unscheduled(c.g))
    BY UnscheduledIs
  <2> QED
    BY <2>1, <2>2 DEF t
<1>11. CASE c.do = "stale lists"
  <2>1. PICK spared \in SUBSET Devices :
          After(c) = Stale(Managed \ Queues, spared) \o <<[do |-> "stale queues", spared |-> spared]>>
    BY <1>11, AfterCases
  <2>2. Managed \ Queues \in SUBSET Lists
    BY FiniteKinds
  <2>3. Quiet(Stale(Managed \ Queues, spared))
    BY <2>2, StaleIs, RemovesQuiet
  <2> DEFINE x == [do |-> "stale queues", spared |-> spared]
  <2>4. Named(x) /\ x.do = "stale queues"
    BY CallsNamed
  <2> HIDE DEF x
  <2>5. Quiet(<<x>>)
    <3>1. Formed(<<x>>)
      BY <2>4, FormedOf
    <3>2. \A i \in DOMAIN <<x>> : <<x>>[i] = x
      OBVIOUS
    <3> QED
      BY <2>4, <3>1, <3>2 DEF Quiet, Gated
  <2>6. After(c) = Stale(Managed \ Queues, spared) \o <<x>>
    BY <2>1 DEF x
  <2> QED
    BY <2>3, <2>5, <2>6, QuietJoin
<1>12. CASE c.do = "stale queues"
  <2>1. After(c) = Stale(Queues, c.spared) /\ c.spared \in SUBSET Devices
    BY <1>1, <1>12, AfterCases DEF Named
  <2>2. Queues \in SUBSET Lists
    BY FiniteKinds
  <2> QED
    BY <2>1, <2>2, StaleIs, RemovesQuiet
<1>13. CASE c.do \notin {"clear", "leave", "again", "absent?", "healthy?", "release", "purge",
                         "unschedule", "stale lists", "stale queues"}
  <2>1. After(c) = t
    BY <1>13, AfterCases DEF t
  <2> QED
    BY <1>2, <2>1 DEF t
<1> QED
  BY <1>3, <1>4, <1>5, <1>6, <1>7, <1>8, <1>9, <1>10, <1>11, <1>12, <1>13

LEMMA EnforceableKeys ==
  ASSUME TypeOK
  PROVE  Enforceable \subseteq Keys /\ Enforceable \subseteq Lists /\ Enforceable \subseteq Managed
BY FiniteKinds DEF TypeOK, Enforceable

\* set_device_services, where no entry is there twice: what is missing is added
\* before what is too much is removed.
LEMMA ServiceCallsAre ==
  ASSUME TypeOK, NEW d \in Devices, NEW S
  PROVE  /\ EntryCalls(ServiceCalls(d, S), Keys, d)
         /\ \A i \in DOMAIN ServiceCalls(d, S) : ServiceCalls(d, S)[i].do \in {"add", "remove"}
         /\ (\A k \in Keys : n[k][d] <= 1) => \E b \in Nat :
              /\ \A i \in DOMAIN ServiceCalls(d, S) :
                   IF i <= b THEN /\ ServiceCalls(d, S)[i].do = "add"
                                  /\ n[ServiceCalls(d, S)[i].r][d] = 0
                             ELSE /\ ServiceCalls(d, S)[i].do = "remove"
                                  /\ ServiceCalls(d, S)[i].r \notin S
              /\ \A i, j \in DOMAIN ServiceCalls(d, S) :
                   i <= b /\ j <= b /\ ServiceCalls(d, S)[i].r = ServiceCalls(d, S)[j].r => i = j
              /\ \A k \in Enforceable \cap S :
                   n[k][d] > 0 \/ \E i \in DOMAIN ServiceCalls(d, S) : i <= b /\ ServiceCalls(d, S)[i].r = k
<1> DEFINE K == {k \in Enforceable \cap S : n[k][d] # 1}
           L == {k \in Enforceable \ S : n[k][d] # 0}
           e == BlockAll(K, d)
           f == ReleaseAll(L, d)
           s == ServiceCalls(d, S)
<1>1. K \in SUBSET Lists /\ L \in SUBSET Lists /\ IsFiniteSet(L)
  BY EnforceableKeys, FiniteKinds
<1>2. K \subseteq Keys /\ L \subseteq Keys /\ L \cap S = {}
  BY EnforceableKeys
<1>3. s = e \o f
  BY DEF ServiceCalls
<1>4. /\ Formed(e) /\ \A i \in DOMAIN e : e[i].do \in {"add", "remove"} /\ e[i].r \in K /\ e[i].d = d
      /\ (\A k \in K : n[k][d] = 0) =>
           /\ \A i \in DOMAIN e : e[i].do = "add"
           /\ \A i, j \in DOMAIN e : e[i].r = e[j].r => i = j
           /\ \A k \in K : \E i \in DOMAIN e : e[i].r = k
  <2> HIDE DEF K, L
  <2> QED
    BY <1>1, BlockAllIs DEF EntryCalls
<1>5. Formed(f) /\ \A i \in DOMAIN f : f[i].do = "remove" /\ f[i].r \in L /\ f[i].d = d
  <2> HIDE DEF K, L
  <2> QED
    BY <1>1, ReleaseAllIs DEF RemovesOnly
<1>6. (\A k \in Keys : n[k][d] <= 1) => \A k \in K : n[k][d] = 0
  <2> SUFFICES ASSUME \A k \in Keys : n[k][d] <= 1, NEW k \in K
               PROVE  n[k][d] = 0
    OBVIOUS
  <2>1. k \in Lists /\ k \in Keys /\ n[k][d] # 1
    BY <1>1, <1>2
  <2>2. n[k][d] \in Nat
    BY <2>1, TypeIs
  <2> QED
    BY <2>1, <2>2
<1>7. \A k \in Enforceable \cap S : k \notin K => n[k][d] > 0
  <2> SUFFICES ASSUME NEW k \in Enforceable \cap S, k \notin K
               PROVE  n[k][d] > 0
    OBVIOUS
  <2> QED
    OBVIOUS
<1> HIDE DEF K, L, e, f, s
<1>8. /\ Formed(s) /\ Len(e) \in Nat /\ Len(f) \in Nat /\ Len(s) = Len(e) + Len(f)
      /\ \A i \in 1..Len(e) : s[i] = e[i]
      /\ \A i \in 1..(Len(e) + Len(f)) : i > Len(e) => s[i] = f[i - Len(e)]
  BY <1>3, <1>4, <1>5, JoinFormed
<1>9. DOMAIN e = 1..Len(e) /\ DOMAIN f = 1..Len(f) /\ DOMAIN s = 1..(Len(e) + Len(f))
  BY <1>4, <1>5, <1>8 DEF Formed
<1>10. \A i \in DOMAIN s : IF i <= Len(e) THEN i \in DOMAIN e /\ s[i] = e[i]
                           ELSE i - Len(e) \in DOMAIN f /\ s[i] = f[i - Len(e)]
  BY <1>8, <1>9
<1>11. \A i \in DOMAIN s : s[i].do \in {"add", "remove"} /\ s[i].r \in Keys /\ s[i].d = d
  BY <1>2, <1>4, <1>5, <1>10
<1>12. ASSUME \A k \in Keys : n[k][d] <= 1
       PROVE  /\ \A i \in DOMAIN s : IF i <= Len(e) THEN s[i].do = "add" /\ n[s[i].r][d] = 0
                                                   ELSE s[i].do = "remove" /\ s[i].r \notin S
              /\ \A i, j \in DOMAIN s : i <= Len(e) /\ j <= Len(e) /\ s[i].r = s[j].r => i = j
              /\ \A k \in Enforceable \cap S : n[k][d] > 0 \/ \E i \in DOMAIN s : i <= Len(e) /\ s[i].r = k
  <2>1. \A k \in K : n[k][d] = 0
    BY <1>6, <1>12
  <2>2. \A i \in DOMAIN e : i \in DOMAIN s /\ i <= Len(e) /\ s[i] = e[i]
    BY <1>8, <1>9
  <2>3. \A k \in Enforceable \cap S : n[k][d] > 0 \/ \E i \in DOMAIN s : i <= Len(e) /\ s[i].r = k
    <3> SUFFICES ASSUME NEW k \in Enforceable \cap S, k \in K
                 PROVE  \E i \in DOMAIN s : i <= Len(e) /\ s[i].r = k
      BY <1>7
    <3>1. PICK i \in DOMAIN e : e[i].r = k
      BY <1>4, <2>1
    <3> QED
      BY <2>2, <3>1
  <2>4. \A i, j \in DOMAIN s : i <= Len(e) /\ j <= Len(e) /\ s[i].r = s[j].r => i = j
    BY <1>4, <1>10, <2>1
  <2>5. \A i \in DOMAIN s : IF i <= Len(e) THEN s[i].do = "add" /\ n[s[i].r][d] = 0
                                          ELSE s[i].do = "remove" /\ s[i].r \notin S
    BY <1>2, <1>4, <1>5, <1>10, <2>1
  <2> QED
    BY <2>3, <2>4, <2>5
<1>13. EntryCalls(s, Keys, d)
  BY <1>8, <1>11 DEF EntryCalls
<1>14. \A i \in DOMAIN s : s[i].do \in {"add", "remove"}
  BY <1>11
<1> DEFINE Known(b) ==
      /\ \A i \in DOMAIN s : IF i <= b THEN s[i].do = "add" /\ n[s[i].r][d] = 0
                                     ELSE s[i].do = "remove" /\ s[i].r \notin S
      /\ \A i, j \in DOMAIN s : i <= b /\ j <= b /\ s[i].r = s[j].r => i = j
      /\ \A k \in Enforceable \cap S : n[k][d] > 0 \/ \E i \in DOMAIN s : i <= b /\ s[i].r = k
<1>15. (\A k \in Keys : n[k][d] <= 1) => \E b \in Nat : Known(b)
  <2>1. (\A k \in Keys : n[k][d] <= 1) => Known(Len(e))
    BY <1>12
  <2> HIDE DEF Known
  <2> QED
    BY <1>8, <2>1
<1> QED
  BY <1>13, <1>14, <1>15, Zenon DEF s

LEMMA JoinAt ==
  ASSUME NEW s, NEW t, Formed(s), Formed(t)
  PROVE  /\ Formed(s \o t) /\ Len(s) \in Nat /\ Len(t) \in Nat
         /\ DOMAIN s = 1..Len(s) /\ DOMAIN t = 1..Len(t) /\ DOMAIN (s \o t) = 1..(Len(s) + Len(t))
         /\ \A i \in DOMAIN s : i \in DOMAIN (s \o t) /\ (s \o t)[i] = s[i]
         /\ \A i \in DOMAIN (s \o t) : IF i <= Len(s) THEN i \in DOMAIN s /\ (s \o t)[i] = s[i]
                                       ELSE i - Len(s) \in DOMAIN t /\ (s \o t)[i] = t[i - Len(s)]
<1>1. /\ Formed(s \o t) /\ Len(s) \in Nat /\ Len(t) \in Nat
      /\ Len(s \o t) = Len(s) + Len(t)
      /\ \A i \in 1..Len(s) : (s \o t)[i] = s[i]
      /\ \A i \in 1..(Len(s) + Len(t)) : i > Len(s) => (s \o t)[i] = t[i - Len(s)]
  BY JoinFormed
<1>2. /\ DOMAIN s = 1..Len(s) /\ DOMAIN t = 1..Len(t) /\ DOMAIN (s \o t) = 1..(Len(s) + Len(t))
  BY <1>1 DEF Formed
<1> QED
  BY <1>1, <1>2

LEMMA FormedJoin ==
  ASSUME NEW s, NEW t, Formed(s), Formed(t)
  PROVE  Formed(s \o t)
BY JoinFormed

LEMMA AfterFormed ==
  ASSUME TypeOK, Formed(job.plan), job.plan # <<>>, NEW c, c = Head(job.plan)
  PROVE  Formed(After(c))
<1>1. Named(c) /\ Formed(Tail(job.plan))
  BY TailFormed
<1>2. CASE c.do = "one"
  <2>1. c.r \in Managed /\ c.d \in Devices
    BY <1>1, <1>2 DEF Named, OnEntries
  <2>2. Formed(Single(c.r, c.d)) /\ After(c) = Single(c.r, c.d) \o Tail(job.plan)
    BY <1>2, <2>1, SingleIs, AfterCases DEF EntryCalls
  <2> QED
    BY <1>1, <2>2, FormedJoin
<1>3. CASE c.do = "services"
  <2>1. c.d \in Devices
    BY <1>1, <1>3 DEF Named
  <2>2. Formed(ServiceCalls(c.d, c.S)) /\ After(c) = ServiceCalls(c.d, c.S) \o Tail(job.plan)
    BY <1>3, <2>1, ServiceCallsAre, AfterCases DEF EntryCalls
  <2> QED
    BY <1>1, <2>2, FormedJoin
<1>4. CASE c.do = "ensure"
  <2> DEFINE x == IF n["restricted"][c.d] = 0 THEN <<Add("restricted", c.d)>> ELSE <<>>
  <2>1. After(c) = x \o Tail(job.plan)
    BY <1>4, AfterCases
  <2>2. Named(Add("restricted", c.d))
    <3>1. c.d \in Devices /\ "restricted" \in Lists
      BY <1>1, <1>4 DEF Named, OnDevices, Lists
    <3> QED
      BY <3>1, CallsNamed
  <2>3. Formed(x)
    BY <2>2, FormedOf, NothingFormed
  <2> HIDE DEF x
  <2> QED
    BY <1>1, <2>1, <2>3, FormedJoin
<1>5. CASE c.do \notin {"one", "services", "ensure"}
  <2>1. CASE Quiet(After(c))
    BY <2>1 DEF Quiet
  <2>2. CASE \E s : Quiet(s) /\ After(c) = s \o Tail(job.plan)
    BY <1>1, <2>2, FormedJoin DEF Quiet
  <2> QED
    BY <1>5, <2>1, <2>2, AfterQuiet
<1> QED
  BY <1>2, <1>3, <1>4, <1>5

-----------------------------------------------------------------------------
(* The order of the calls of a plan.                                       *)

\* Nothing is written before a gate was passed.
GateFirst(s, proven) ==
  \A i \in DOMAIN s : s[i].do \in Gated => proven \/ \E p \in 1..(i - 1) : s[p].do = "gate"

\* Additions come first, one per entry, of what is not there.
Adds(s, m) ==
  \A i \in DOMAIN s : s[i].do = "add" =>
    /\ m[s[i].r][s[i].d] = 0
    /\ \A p \in 1..(i - 1) : s[p].do = "add" /\ (s[p].r # s[i].r \/ s[p].d # s[i].d)

\* A queue that is enabled is there, once.
Enables(s, m) ==
  \A i \in DOMAIN s : s[i].do = "set" => i = 1 /\ m[s[i].r][s[i].d] = 1

NoAdds(s) == \A i \in DOMAIN s : s[i].do \notin {"add", "set"}

LEMMA GateFirstJoin ==
  ASSUME NEW s, NEW t, Formed(s), Formed(t), NEW proven,
         GateFirst(t, proven), proven \/ Quiet(s)
  PROVE  GateFirst(s \o t, proven)
<1> DEFINE u == s \o t
<1>1. /\ Len(s) \in Nat /\ Len(t) \in Nat
      /\ DOMAIN s = 1..Len(s) /\ DOMAIN t = 1..Len(t) /\ DOMAIN u = 1..(Len(s) + Len(t))
      /\ \A i \in DOMAIN u : IF i <= Len(s) THEN i \in DOMAIN s /\ u[i] = s[i]
                             ELSE i - Len(s) \in DOMAIN t /\ u[i] = t[i - Len(s)]
  BY JoinAt
<1> HIDE DEF u
<1> SUFFICES ASSUME ~proven, NEW i \in DOMAIN u, u[i].do \in Gated
             PROVE  \E p \in 1..(i - 1) : u[p].do = "gate"
  BY DEF GateFirst, u
<1>2. i > Len(s) /\ i - Len(s) \in DOMAIN t /\ u[i] = t[i - Len(s)]
  BY <1>1 DEF Quiet
<1>3. PICK q \in 1..(i - Len(s) - 1) : t[q].do = "gate"
  BY <1>2 DEF GateFirst
<1>4. Len(s) + q \in 1..(i - 1) /\ Len(s) + q \in DOMAIN u /\ Len(s) + q > Len(s) /\ (Len(s) + q) - Len(s) = q
  BY <1>1, <1>2, <1>3
<1>5. u[Len(s) + q] = t[q]
  BY <1>1, <1>4
<1> QED
  BY <1>3, <1>4, <1>5

LEMMA GateFirstTail ==
  ASSUME NEW s, Formed(s), s # <<>>, NEW proven, GateFirst(s, proven)
  PROVE  GateFirst(Tail(s), proven \/ Head(s).do = "gate")
<1> DEFINE t == Tail(s)
<1>1. /\ Len(s) \in Nat /\ DOMAIN s = 1..Len(s) /\ DOMAIN t = 1..(Len(s) - 1)
      /\ \A i \in 1..(Len(s) - 1) : t[i] = s[i + 1]
      /\ Head(s) = s[1]
  BY TailFormed
<1> HIDE DEF t
<1> SUFFICES ASSUME ~(proven \/ Head(s).do = "gate"), NEW i \in DOMAIN t, t[i].do \in Gated
             PROVE  \E p \in 1..(i - 1) : t[p].do = "gate"
  BY DEF GateFirst, t
<1>2. i + 1 \in DOMAIN s /\ s[i + 1].do \in Gated /\ (i + 1) - 1 = i
  BY <1>1
<1>3. PICK q \in 1..i : s[q].do = "gate"
  BY <1>2 DEF GateFirst
<1>4. q # 1 /\ q - 1 \in 1..(i - 1) /\ q - 1 \in 1..(Len(s) - 1) /\ (q - 1) + 1 = q
  BY <1>1, <1>2, <1>3
<1>5. t[q - 1] = s[q]
  BY <1>1, <1>4
<1> QED
  BY <1>3, <1>4, <1>5

LEMMA GateFirstStep ==
  ASSUME TypeOK, Formed(job.plan), job.plan # <<>>, NEW c, c = Head(job.plan),
         GateFirst(job.plan, job.proven)
  PROVE  GateFirst(After(c), job.proven \/ c.do = "gate")
<1>1. Named(c) /\ Formed(Tail(job.plan)) /\ GateFirst(Tail(job.plan), job.proven \/ c.do = "gate")
  BY TailFormed, GateFirstTail
<1>2. CASE c.do \in {"one", "services", "ensure"}
  <2>1. job.proven
    <3>1. 1 \in DOMAIN job.plan /\ job.plan[1] = c
      BY TailFormed
    <3> QED
      BY <1>2, <3>1 DEF GateFirst, Gated
  <2> QED
    BY <2>1 DEF GateFirst
<1>3. CASE c.do \notin {"one", "services", "ensure"}
  <2>1. CASE Quiet(After(c))
    BY <2>1 DEF Quiet, GateFirst
  <2>2. CASE \E s : Quiet(s) /\ After(c) = s \o Tail(job.plan)
    <3>1. PICK s : Quiet(s) /\ After(c) = s \o Tail(job.plan)
      BY <2>2
    <3>2. Formed(s)
      BY <3>1 DEF Quiet
    <3> QED
      BY <1>1, <3>1, <3>2, GateFirstJoin
  <2> QED
    BY <1>3, <2>1, <2>2, AfterQuiet
<1> QED
  BY <1>2, <1>3

LEMMA AddsTail ==
  ASSUME NEW s, Formed(s), s # <<>>, NEW m, Adds(s, m), Enables(s, m)
  PROVE  /\ \A i \in DOMAIN Tail(s) : Tail(s)[i].do # "set"
         /\ Head(s).do # "add" => NoAdds(Tail(s))
         /\ Head(s).do = "set" => m[Head(s).r][Head(s).d] = 1
         /\ Head(s).do = "add" => m[Head(s).r][Head(s).d] = 0
         /\ \A i \in DOMAIN Tail(s) : Tail(s)[i].do = "add" =>
              /\ Head(s).do = "add" /\ m[Tail(s)[i].r][Tail(s)[i].d] = 0
              /\ Head(s).r # Tail(s)[i].r \/ Head(s).d # Tail(s)[i].d
              /\ \A p \in 1..(i - 1) : /\ Tail(s)[p].do = "add"
                                       /\ Tail(s)[p].r # Tail(s)[i].r \/ Tail(s)[p].d # Tail(s)[i].d
<1> DEFINE t == Tail(s)
           h == Head(s)
<1>1. /\ Len(s) \in Nat /\ DOMAIN s = 1..Len(s) /\ DOMAIN t = 1..(Len(s) - 1) /\ 1 \in DOMAIN s
      /\ \A i \in 1..(Len(s) - 1) : t[i] = s[i + 1]
      /\ h = s[1]
  BY TailFormed
<1> HIDE DEF t, h
<1>2. \A i \in DOMAIN t : t[i].do # "set"
  <2> SUFFICES ASSUME NEW i \in DOMAIN t, t[i].do = "set"
               PROVE  FALSE
    OBVIOUS
  <2>1. i + 1 \in DOMAIN s /\ s[i + 1].do = "set" /\ i + 1 # 1
    BY <1>1
  <2> QED
    BY <2>1 DEF Enables
<1>3. ASSUME NEW i \in DOMAIN t, t[i].do = "add"
      PROVE  /\ h.do = "add" /\ m[t[i].r][t[i].d] = 0
             /\ h.r # t[i].r \/ h.d # t[i].d
             /\ \A p \in 1..(i - 1) : /\ t[p].do = "add"
                                      /\ t[p].r # t[i].r \/ t[p].d # t[i].d
  <2>1. i + 1 \in DOMAIN s /\ s[i + 1] = t[i] /\ (i + 1) - 1 = i
    BY <1>1
  <2>2. /\ m[t[i].r][t[i].d] = 0
        /\ \A p \in 1..i : s[p].do = "add" /\ (s[p].r # t[i].r \/ s[p].d # t[i].d)
    BY <1>3, <2>1 DEF Adds
  <2>3. 1 \in 1..i /\ \A p \in 1..(i - 1) : p + 1 \in 1..i /\ t[p] = s[p + 1]
    BY <1>1
  <2>4. h.do = "add" /\ (h.r # t[i].r \/ h.d # t[i].d)
    BY <1>1, <2>2, <2>3
  <2>5. \A p \in 1..(i - 1) : t[p].do = "add" /\ (t[p].r # t[i].r \/ t[p].d # t[i].d)
    <3> SUFFICES ASSUME NEW p \in 1..(i - 1)
                 PROVE  t[p].do = "add" /\ (t[p].r # t[i].r \/ t[p].d # t[i].d)
      OBVIOUS
    <3>1. p + 1 \in 1..i /\ t[p] = s[p + 1]
      BY <2>3
    <3> QED
      BY <2>2, <3>1
  <2> QED
    BY <2>2, <2>4, <2>5
<1>4. h.do # "add" => NoAdds(t)
  BY <1>2, <1>3 DEF NoAdds
<1>5. /\ h.do = "set" => m[h.r][h.d] = 1
      /\ h.do = "add" => m[h.r][h.d] = 0
  BY <1>1 DEF Adds, Enables
<1>6. \A i \in DOMAIN t : t[i].do = "add" =>
         /\ h.do = "add" /\ m[t[i].r][t[i].d] = 0
         /\ h.r # t[i].r \/ h.d # t[i].d
         /\ \A p \in 1..(i - 1) : /\ t[p].do = "add"
                                  /\ t[p].r # t[i].r \/ t[p].d # t[i].d
  BY <1>3
<1> QED
  BY <1>2, <1>4, <1>5, <1>6, Zenon DEF t, h

LEMMA AddsJoin ==
  ASSUME NEW s, NEW t, Formed(s), Formed(t), NEW m, Adds(s, m), Enables(s, m), NoAdds(t)
  PROVE  Adds(s \o t, m) /\ Enables(s \o t, m)
<1> DEFINE u == s \o t
<1>1. /\ Len(s) \in Nat /\ Len(t) \in Nat
      /\ DOMAIN s = 1..Len(s) /\ DOMAIN t = 1..Len(t) /\ DOMAIN u = 1..(Len(s) + Len(t))
      /\ \A i \in DOMAIN s : i \in DOMAIN u /\ u[i] = s[i]
      /\ \A i \in DOMAIN u : IF i <= Len(s) THEN i \in DOMAIN s /\ u[i] = s[i]
                             ELSE i - Len(s) \in DOMAIN t /\ u[i] = t[i - Len(s)]
  BY JoinAt
<1> HIDE DEF u
<1>2. \A i \in DOMAIN u : u[i].do \in {"add", "set"} => i \in DOMAIN s /\ u[i] = s[i]
  BY <1>1 DEF NoAdds
<1>3. \A i \in DOMAIN s : \A p \in 1..(i - 1) : p \in DOMAIN s /\ u[p] = s[p]
  BY <1>1
<1>4. ASSUME NEW i \in DOMAIN u, u[i].do = "add"
      PROVE  /\ m[u[i].r][u[i].d] = 0
             /\ \A p \in 1..(i - 1) : u[p].do = "add" /\ (u[p].r # u[i].r \/ u[p].d # u[i].d)
  BY <1>2, <1>3, <1>4 DEF Adds
<1>5. Adds(u, m)
  BY <1>4 DEF Adds
<1>6. Enables(u, m)
  BY <1>2 DEF Enables
<1> QED
  BY <1>5, <1>6 DEF u

LEMMA NoAddsIs ==
  ASSUME NEW s, NoAdds(s), NEW m
  PROVE  Adds(s, m) /\ Enables(s, m)
BY DEF NoAdds, Adds, Enables

LEMMA QuietNoAdds ==
  ASSUME NEW s, Quiet(s)
  PROVE  NoAdds(s)
BY DEF Quiet, NoAdds, Gated

\* No entry is there twice.
Intact(m) == \A r \in Managed : \A d \in Devices : m[r][d] <= 1

LEMMA SingleAdds ==
  ASSUME TypeOK, NEW r \in Managed, NEW d \in Devices, Intact(n)
  PROVE  /\ Adds(Single(r, d), n) /\ Enables(Single(r, d), n)
         /\ \A i \in DOMAIN Single(r, d) : Single(r, d)[i].do # "remove"
<1>1. n[r][d] = 0 \/ n[r][d] = 1
  <2>1. n[r][d] \in Nat /\ n[r][d] <= 1
    BY TypeIs DEF Intact, Lists
  <2> QED
    BY <2>1
<1>2. CASE n[r][d] = 0
  <2> DEFINE a == Add(r, d)
  <2>1. Single(r, d) = <<a>> /\ a.do = "add" /\ a.r = r /\ a.d = d
    BY <1>2, SingleIs DEF Add
  <2> HIDE DEF a
  <2>2. DOMAIN <<a>> = 1..1 /\ <<a>>[1] = a
    OBVIOUS
  <2> QED
    BY <1>2, <2>1, <2>2 DEF Adds, Enables
<1>3. CASE n[r][d] = 1 /\ r \in Queues
  <2> DEFINE a == [do |-> "set", r |-> r, d |-> d]
  <2>1. Single(r, d) = <<a>> /\ a.do = "set" /\ a.r = r /\ a.d = d
    BY <1>3, SingleIs
  <2> HIDE DEF a
  <2>2. DOMAIN <<a>> = 1..1 /\ <<a>>[1] = a
    OBVIOUS
  <2> QED
    BY <1>3, <2>1, <2>2 DEF Adds, Enables
<1>4. CASE n[r][d] = 1 /\ r \notin Queues
  <2>1. Single(r, d) = <<>>
    BY <1>4, SingleIs
  <2> QED
    BY <2>1 DEF Adds, Enables
<1> QED
  BY <1>1, <1>2, <1>3, <1>4

LEMMA ServicesAdds ==
  ASSUME TypeOK, NEW d \in Devices, NEW S, Intact(n)
  PROVE  Adds(ServiceCalls(d, S), n) /\ Enables(ServiceCalls(d, S), n)
<1> DEFINE s == ServiceCalls(d, S)
<1>1. \A k \in Keys : n[k][d] <= 1
  BY FiniteKinds DEF Intact
<1>2. /\ DOMAIN s = 1..Len(s) /\ Len(s) \in Nat
      /\ \A i \in DOMAIN s : s[i].do \in {"add", "remove"} /\ s[i].d = d
      /\ \E b \in Nat :
           /\ \A i \in DOMAIN s : IF i <= b THEN s[i].do = "add" /\ n[s[i].r][d] = 0
                                            ELSE s[i].do = "remove" /\ s[i].r \notin S
           /\ \A i, j \in DOMAIN s : i <= b /\ j <= b /\ s[i].r = s[j].r => i = j
  <2>1. Formed(s)
    BY ServiceCallsAre DEF EntryCalls
  <2>2. DOMAIN s = 1..Len(s) /\ Len(s) \in Nat
    <3> HIDE DEF s
    <3> QED
      BY <2>1 DEF Formed
  <2>3. \A i \in DOMAIN s : s[i].do \in {"add", "remove"} /\ s[i].d = d
    BY ServiceCallsAre DEF EntryCalls
  <2>4. \E b \in Nat :
           /\ \A i \in DOMAIN s : IF i <= b THEN s[i].do = "add" /\ n[s[i].r][d] = 0
                                            ELSE s[i].do = "remove" /\ s[i].r \notin S
           /\ \A i, j \in DOMAIN s : i <= b /\ j <= b /\ s[i].r = s[j].r => i = j
    BY <1>1, ServiceCallsAre
  <2> QED
    BY <2>2, <2>3, <2>4
<1> HIDE DEF s
<1>3. PICK b \in Nat :
        /\ \A i \in DOMAIN s : IF i <= b THEN s[i].do = "add" /\ n[s[i].r][d] = 0
                                         ELSE s[i].do = "remove" /\ s[i].r \notin S
        /\ \A i, j \in DOMAIN s : i <= b /\ j <= b /\ s[i].r = s[j].r => i = j
  BY <1>2
<1>4. ASSUME NEW i \in DOMAIN s, s[i].do = "add"
      PROVE  /\ n[s[i].r][s[i].d] = 0
             /\ \A p \in 1..(i - 1) : s[p].do = "add" /\ (s[p].r # s[i].r \/ s[p].d # s[i].d)
  <2>1. i <= b /\ n[s[i].r][s[i].d] = 0
    BY <1>2, <1>3, <1>4
  <2>2. ASSUME NEW p \in 1..(i - 1)
        PROVE  s[p].do = "add" /\ s[p].r # s[i].r
    <3>1. p \in DOMAIN s /\ p <= b /\ p # i
      BY <1>2, <2>1
    <3> QED
      BY <1>3, <2>1, <3>1
  <2> QED
    BY <2>1, <2>2
<1>5. Adds(s, n) /\ Enables(s, n)
  BY <1>2, <1>4 DEF Adds, Enables
<1> QED
  BY <1>5 DEF s

\* A disabled queue is there.
Fresh(m, D) == \A q \in Queues, d \in Devices : <<q, d>> \in D => m[q][d] > 0

LEMMA AddsStep ==
  ASSUME TypeOK, Formed(job.plan), job.plan # <<>>, NEW c, c = Head(job.plan), ~Refuses(c),
         GateFirst(job.plan, job.proven), Adds(job.plan, n), Enables(job.plan, n),
         job.proven => Intact(n)
  PROVE  /\ Adds(After(c), Effect(c).n) /\ Enables(After(c), Effect(c).n)
         /\ Intact(n) => Intact(Effect(c).n)
         /\ c.do = "add" => n[c.r][c.d] = 0
         /\ c.do = "set" => n[c.r][c.d] = 1
<1> DEFINE t == Tail(job.plan)
           m == Effect(c).n
<1>1. Named(c) /\ Formed(t) /\ 1 \in DOMAIN job.plan /\ job.plan[1] = c
  BY TailFormed
<1>2. \A r \in Lists, d \in Devices :
        m[r][d] = IF c.do = "add" /\ c.r = r /\ c.d = d THEN n[r][d] + 1
                  ELSE IF c.do = "remove" /\ c.r = r /\ c.d = d THEN n[r][d] - 1
                  ELSE n[r][d]
  BY <1>1, EffectOnEntries
<1>3. /\ c.do # "add" => NoAdds(t)
      /\ c.do = "set" => n[c.r][c.d] = 1
      /\ c.do = "add" => n[c.r][c.d] = 0
  BY AddsTail
<1>4. n \in [Lists -> [Devices -> Nat]]
  BY TypeIs
<1>5. Intact(n) => Intact(m)
  <2> SUFFICES ASSUME Intact(n), NEW r \in Managed, NEW d \in Devices
               PROVE  m[r][d] <= 1
    BY DEF Intact
  <2>1. r \in Lists /\ n[r][d] \in Nat /\ n[r][d] <= 1
    BY <1>4 DEF Intact, Lists
  <2> HIDE DEF m
  <2> QED
    BY <1>2, <1>3, <2>1
<1>6. c.do \in {"one", "services", "ensure"} => job.proven /\ m = n
  <2>1. c.do \in {"one", "services", "ensure"} => Effect(c) = ros
    BY EffectCases DEF Writing
  <2>2. c.do \in {"one", "services", "ensure"} => job.proven
    BY <1>1 DEF GateFirst, Gated
  <2> QED
    BY <2>1, <2>2 DEF n
<1>7. CASE c.do = "one"
  <2>1. c.r \in Managed /\ c.d \in Devices
    BY <1>1, <1>7 DEF Named, OnEntries
  <2>2. Intact(n) /\ m = n /\ NoAdds(t)
    BY <1>3, <1>6, <1>7
  <2>3. Formed(Single(c.r, c.d)) /\ After(c) = Single(c.r, c.d) \o t
    BY <1>7, <2>1, SingleIs, AfterCases DEF EntryCalls
  <2>4. Adds(Single(c.r, c.d), n) /\ Enables(Single(c.r, c.d), n)
    BY <2>1, <2>2, SingleAdds
  <2> HIDE DEF t, m
  <2>5. Adds(After(c), n) /\ Enables(After(c), n)
    BY <1>1, <2>2, <2>3, <2>4, AddsJoin
  <2> QED
    BY <1>3, <1>5, <2>2, <2>5 DEF m
<1>8. CASE c.do = "services"
  <2>1. c.d \in Devices
    BY <1>1, <1>8 DEF Named
  <2>2. Intact(n) /\ m = n /\ NoAdds(t)
    BY <1>3, <1>6, <1>8
  <2>3. Formed(ServiceCalls(c.d, c.S)) /\ After(c) = ServiceCalls(c.d, c.S) \o t
    BY <1>8, <2>1, ServiceCallsAre, AfterCases DEF EntryCalls
  <2>4. Adds(ServiceCalls(c.d, c.S), n) /\ Enables(ServiceCalls(c.d, c.S), n)
    BY <2>1, <2>2, ServicesAdds
  <2> HIDE DEF t, m
  <2>5. Adds(After(c), n) /\ Enables(After(c), n)
    BY <1>1, <2>2, <2>3, <2>4, AddsJoin
  <2> QED
    BY <1>3, <1>5, <2>2, <2>5 DEF m
<1>9. CASE c.do = "ensure"
  <2> DEFINE a == Add("restricted", c.d)
             x == IF n["restricted"][c.d] = 0 THEN <<a>> ELSE <<>>
  <2>1. After(c) = x \o t
    BY <1>9, AfterCases
  <2>2. Named(a) /\ a.do = "add" /\ a.r = "restricted" /\ a.d = c.d
    <3>1. c.d \in Devices /\ "restricted" \in Lists
      BY <1>1, <1>9 DEF Named, OnDevices, Lists
    <3> QED
      BY <3>1, CallsNamed DEF Add
  <2>3. m = n /\ NoAdds(t)
    BY <1>3, <1>6, <1>9
  <2> HIDE DEF a
  <2>4. Formed(x)
    BY <2>2, FormedOf, NothingFormed
  <2>5. Adds(x, n) /\ Enables(x, n)
    <3>1. DOMAIN <<a>> = 1..1 /\ <<a>>[1] = a
      OBVIOUS
    <3>2. n["restricted"][c.d] = 0 => Adds(<<a>>, n) /\ Enables(<<a>>, n)
      BY <2>2, <3>1 DEF Adds, Enables
    <3>3. Adds(<<>>, n) /\ Enables(<<>>, n)
      BY DEF Adds, Enables
    <3> QED
      BY <3>2, <3>3
  <2> HIDE DEF t, m, x
  <2>6. Adds(After(c), n) /\ Enables(After(c), n)
    BY <1>1, <2>1, <2>3, <2>4, <2>5, AddsJoin
  <2> QED
    BY <1>3, <1>5, <2>3, <2>6 DEF m
<1>10. CASE c.do \notin {"one", "services", "ensure", "add"}
  <2>1. CASE Quiet(After(c))
    BY <1>3, <1>5, <2>1, QuietNoAdds, NoAddsIs
  <2>2. CASE \E s : Quiet(s) /\ After(c) = s \o t
    <3>1. PICK s : Quiet(s) /\ After(c) = s \o t
      BY <2>2
    <3>2. Formed(s) /\ Adds(s, m) /\ Enables(s, m) /\ NoAdds(t)
      BY <1>3, <1>10, <3>1, QuietNoAdds, NoAddsIs DEF Quiet
    <3> HIDE DEF t, m
    <3>3. Adds(After(c), m) /\ Enables(After(c), m)
      BY <1>1, <3>1, <3>2, AddsJoin
    <3> QED
      BY <1>3, <1>5, <3>3 DEF m
  <2> QED
    BY <1>10, <2>1, <2>2, AfterQuiet
<1>11. CASE c.do = "add"
  <2>1. After(c) = t
    BY <1>11, AfterCases
  <2>2. /\ \A i \in DOMAIN t : t[i].do # "set"
        /\ \A i \in DOMAIN t : t[i].do = "add" =>
             /\ n[t[i].r][t[i].d] = 0
             /\ c.r # t[i].r \/ c.d # t[i].d
             /\ \A p \in 1..(i - 1) : /\ t[p].do = "add"
                                      /\ t[p].r # t[i].r \/ t[p].d # t[i].d
    BY AddsTail
  <2>3. \A i \in DOMAIN t : t[i].do = "add" => t[i].r \in Lists /\ t[i].d \in Devices
    BY <1>1 DEF Formed, Named, OnEntries
  <2> HIDE DEF t, m
  <2>4. Enables(t, m)
    BY <2>2 DEF Enables
  <2>5. Adds(t, m)
    BY <1>2, <1>11, <2>2, <2>3 DEF Adds
  <2> QED
    BY <1>3, <1>5, <2>1, <2>4, <2>5 DEF m
<1> QED
  BY <1>7, <1>8, <1>9, <1>10, <1>11

LEMMA FreshStep ==
  ASSUME TypeOK, NEW c, Named(c), ~Refuses(c), Fresh(n, disabled)
  PROVE  Fresh(Effect(c).n, Effect(c).disabled)
<1> DEFINE m == Effect(c).n
           D == Effect(c).disabled
<1>1. \A r \in Lists, d \in Devices :
        m[r][d] = IF c.do = "add" /\ c.r = r /\ c.d = d THEN n[r][d] + 1
                  ELSE IF c.do = "remove" /\ c.r = r /\ c.d = d THEN n[r][d] - 1
                  ELSE n[r][d]
  BY EffectOnEntries
<1>2. \A r, d : <<r, d>> \in D <=>
        <<r, d>> \in disabled /\ ~(c.do \in {"remove", "set"} /\ c.r = r /\ c.d = d)
  BY EffectOnEntries
<1> HIDE DEF m, D
<1>3. ASSUME NEW q \in Queues, NEW d \in Devices, <<q, d>> \in D
      PROVE  m[q][d] > 0
  <2>1. q \in Lists /\ n[q][d] \in Nat
    BY FiniteKinds, TypeIs
  <2>2. n[q][d] > 0 /\ ~(c.do = "remove" /\ c.r = q /\ c.d = d)
    BY <1>2, <1>3 DEF Fresh
  <2> QED
    BY <1>1, <2>1, <2>2
<1> QED
  BY <1>3 DEF Fresh, m, D

-----------------------------------------------------------------------------
(* The plans of set_device_mode and of reconcile_device.                   *)

PolicyKinds == {"gate", "member", "services", "expect mode", "expect bandwidth", "expect services",
                "one", "clear", "add", "remove", "set"}

PolicyPlan(s, d, S) ==
  \A i \in DOMAIN s : /\ s[i].do \in PolicyKinds
                      /\ s[i].do \in OnEntries => s[i].d = d
                      /\ s[i].do \in {"one", "clear"} => s[i].r \in {"blocked", "slow"} \cup Queues
                      /\ s[i].do = "services" => s[i].d = d /\ s[i].S = S

\* A call of K on a list of R comes when ok, or after a call of L on x.
Before(s, K, R, L, x, ok) ==
  \A i \in DOMAIN s : s[i].do \in K /\ s[i].r \in R =>
    ok \/ \E p \in 1..(i - 1) : s[p].do \in L /\ s[p].r = x

\* Calls of K on lists of R are not about those of X.
Spares(s, K, R, X) ==
  \A i \in DOMAIN s : s[i].do \in K /\ s[i].r \in R => s[i].r \notin X

LEMMA BeforeJoin ==
  ASSUME NEW s, NEW t, Formed(s), Formed(t), NEW K, NEW R, NEW L, NEW x, NEW ok,
         Before(s, K, R, L, x, ok),
         Before(t, K, R, L, x, ok \/ \E p \in DOMAIN s : s[p].do \in L /\ s[p].r = x)
  PROVE  Before(s \o t, K, R, L, x, ok)
<1> DEFINE u == s \o t
<1>1. /\ Len(s) \in Nat /\ Len(t) \in Nat
      /\ DOMAIN s = 1..Len(s) /\ DOMAIN t = 1..Len(t) /\ DOMAIN u = 1..(Len(s) + Len(t))
      /\ \A i \in DOMAIN s : i \in DOMAIN u /\ u[i] = s[i]
      /\ \A i \in DOMAIN u : IF i <= Len(s) THEN i \in DOMAIN s /\ u[i] = s[i]
                             ELSE i - Len(s) \in DOMAIN t /\ u[i] = t[i - Len(s)]
  BY JoinAt
<1> HIDE DEF u
<1> SUFFICES ASSUME ~ok, NEW i \in DOMAIN u, u[i].do \in K, u[i].r \in R
             PROVE  \E p \in 1..(i - 1) : u[p].do \in L /\ u[p].r = x
  BY DEF Before, u
<1>2. CASE i <= Len(s)
  <2>1. i \in DOMAIN s /\ u[i] = s[i]
    BY <1>1, <1>2
  <2>2. PICK p \in 1..(i - 1) : s[p].do \in L /\ s[p].r = x
    BY <2>1 DEF Before
  <2>3. p \in DOMAIN s /\ u[p] = s[p]
    BY <1>1, <2>1
  <2> QED
    BY <2>2, <2>3
<1>3. CASE ~(i <= Len(s))
  <2>1. i - Len(s) \in DOMAIN t /\ u[i] = t[i - Len(s)]
    BY <1>1, <1>3
  <2>2. (\E p \in DOMAIN s : s[p].do \in L /\ s[p].r = x)
          \/ \E p \in 1..(i - Len(s) - 1) : t[p].do \in L /\ t[p].r = x
    BY <2>1 DEF Before
  <2>3. CASE \E p \in DOMAIN s : s[p].do \in L /\ s[p].r = x
    <3>1. PICK p \in DOMAIN s : s[p].do \in L /\ s[p].r = x
      BY <2>3
    <3>2. p \in 1..(i - 1) /\ u[p] = s[p]
      BY <1>1, <1>3
    <3> QED
      BY <3>1, <3>2
  <2>4. CASE \E p \in 1..(i - Len(s) - 1) : t[p].do \in L /\ t[p].r = x
    <3>1. PICK p \in 1..(i - Len(s) - 1) : t[p].do \in L /\ t[p].r = x
      BY <2>4
    <3>2. /\ Len(s) + p \in 1..(i - 1) /\ Len(s) + p \in DOMAIN u
          /\ ~(Len(s) + p <= Len(s)) /\ (Len(s) + p) - Len(s) = p
      BY <1>1, <2>1
    <3>3. u[Len(s) + p] = t[p]
      BY <1>1, <3>2
    <3> QED
      BY <3>1, <3>2, <3>3
  <2> QED
    BY <2>2, <2>3, <2>4
<1> QED
  BY <1>2, <1>3

LEMMA BeforeTail ==
  ASSUME NEW s, Formed(s), s # <<>>, NEW K, NEW R, NEW L, NEW x, NEW ok,
         Before(s, K, R, L, x, ok)
  PROVE  /\ Before(Tail(s), K, R, L, x, ok \/ (Head(s).do \in L /\ Head(s).r = x))
         /\ Head(s).do \in K /\ Head(s).r \in R => ok
<1> DEFINE t == Tail(s)
           h == Head(s)
<1>1. /\ Len(s) \in Nat /\ DOMAIN s = 1..Len(s) /\ DOMAIN t = 1..(Len(s) - 1) /\ 1 \in DOMAIN s
      /\ \A i \in 1..(Len(s) - 1) : t[i] = s[i + 1]
      /\ h = s[1]
  BY TailFormed
<1> HIDE DEF t, h
<1>2. h.do \in K /\ h.r \in R => ok
  BY <1>1 DEF Before
<1>3. ASSUME ~ok, ~(h.do \in L /\ h.r = x), NEW i \in DOMAIN t, t[i].do \in K, t[i].r \in R
      PROVE  \E p \in 1..(i - 1) : t[p].do \in L /\ t[p].r = x
  <2>1. i + 1 \in DOMAIN s /\ s[i + 1] = t[i] /\ (i + 1) - 1 = i
    BY <1>1
  <2>2. PICK p \in 1..i : s[p].do \in L /\ s[p].r = x
    BY <1>3, <2>1 DEF Before
  <2>3. p # 1 /\ p - 1 \in 1..(i - 1) /\ p - 1 \in 1..(Len(s) - 1) /\ (p - 1) + 1 = p
    BY <1>1, <1>3, <2>2
  <2>4. t[p - 1] = s[p]
    BY <1>1, <2>3
  <2> QED
    BY <2>2, <2>3, <2>4
<1>4. Before(t, K, R, L, x, ok \/ (h.do \in L /\ h.r = x))
  BY <1>3 DEF Before
<1> QED
  BY <1>2, <1>4 DEF t, h

LEMMA SparesJoin ==
  ASSUME NEW s, NEW t, Formed(s), Formed(t), NEW K, NEW R, NEW X,
         Spares(s, K, R, X), Spares(t, K, R, X)
  PROVE  Spares(s \o t, K, R, X)
<1> DEFINE u == s \o t
<1>1. \A i \in DOMAIN u : IF i <= Len(s) THEN i \in DOMAIN s /\ u[i] = s[i]
                          ELSE i - Len(s) \in DOMAIN t /\ u[i] = t[i - Len(s)]
  BY JoinAt
<1> HIDE DEF u
<1>2. Spares(u, K, R, X)
  BY <1>1 DEF Spares
<1> QED
  BY <1>2 DEF u

LEMMA SparesTail ==
  ASSUME NEW s, Formed(s), s # <<>>, NEW K, NEW R, NEW X, Spares(s, K, R, X)
  PROVE  /\ Spares(Tail(s), K, R, X)
         /\ Head(s).do \in K /\ Head(s).r \in R => Head(s).r \notin X
<1> DEFINE t == Tail(s)
           h == Head(s)
<1>1. /\ Len(s) \in Nat /\ DOMAIN s = 1..Len(s) /\ DOMAIN t = 1..(Len(s) - 1) /\ 1 \in DOMAIN s
      /\ \A i \in 1..(Len(s) - 1) : t[i] = s[i + 1]
      /\ h = s[1]
  BY TailFormed
<1> HIDE DEF t, h
<1>2. \A i \in DOMAIN t : i + 1 \in DOMAIN s /\ t[i] = s[i + 1]
  BY <1>1
<1>3. Spares(t, K, R, X) /\ (h.do \in K /\ h.r \in R => h.r \notin X)
  BY <1>1, <1>2 DEF Spares
<1> QED
  BY <1>3 DEF t, h

LEMMA PolicyJoin ==
  ASSUME NEW s, NEW t, Formed(s), Formed(t), NEW d, NEW S, PolicyPlan(s, d, S), PolicyPlan(t, d, S)
  PROVE  PolicyPlan(s \o t, d, S)
<1> DEFINE u == s \o t
<1>1. \A i \in DOMAIN u : IF i <= Len(s) THEN i \in DOMAIN s /\ u[i] = s[i]
                          ELSE i - Len(s) \in DOMAIN t /\ u[i] = t[i - Len(s)]
  BY JoinAt
<1> HIDE DEF u
<1>2. PolicyPlan(u, d, S)
  BY <1>1 DEF PolicyPlan
<1> QED
  BY <1>2 DEF u

LEMMA PolicyTail ==
  ASSUME NEW s, Formed(s), s # <<>>, NEW d, NEW S, PolicyPlan(s, d, S)
  PROVE  /\ PolicyPlan(Tail(s), d, S)
         /\ Head(s).do \in PolicyKinds
         /\ Head(s).do \in OnEntries => Head(s).d = d
         /\ Head(s).do \in {"one", "clear"} => Head(s).r \in {"blocked", "slow"} \cup Queues
         /\ Head(s).do = "services" => Head(s).d = d /\ Head(s).S = S
<1> DEFINE t == Tail(s)
           h == Head(s)
<1>1. /\ Len(s) \in Nat /\ DOMAIN s = 1..Len(s) /\ DOMAIN t = 1..(Len(s) - 1) /\ 1 \in DOMAIN s
      /\ \A i \in 1..(Len(s) - 1) : t[i] = s[i + 1]
      /\ h = s[1]
  BY TailFormed
<1> HIDE DEF t, h
<1>2. \A i \in DOMAIN t : i + 1 \in DOMAIN s /\ t[i] = s[i + 1]
  BY <1>1
<1>3. PolicyPlan(t, d, S)
  BY <1>2 DEF PolicyPlan
<1>4. /\ h.do \in PolicyKinds
      /\ h.do \in OnEntries => h.d = d
      /\ h.do \in {"one", "clear"} => h.r \in {"blocked", "slow"} \cup Queues
      /\ h.do = "services" => h.d = d /\ h.S = S
  BY <1>1 DEF PolicyPlan
<1> QED
  BY <1>3, <1>4 DEF t, h

\* What replaces c.
Writes(c, d, S) ==
  IF c.do = "one" THEN Single(c.r, d)
  ELSE IF c.do = "clear" THEN Removes(c.r, d)
  ELSE IF c.do = "services" THEN ServiceCalls(d, S)
  ELSE <<>>

LEMMA PolicyAfter ==
  ASSUME TypeOK, Formed(job.plan), job.plan # <<>>, NEW c, c = Head(job.plan),
         NEW d \in Devices, NEW S, PolicyPlan(job.plan, d, S)
  PROVE  /\ Formed(Writes(c, d, S)) /\ PolicyPlan(Writes(c, d, S), d, S)
         /\ After(c) = Writes(c, d, S) \o Tail(job.plan)
         /\ \A i \in DOMAIN Writes(c, d, S) : Writes(c, d, S)[i].do \in {"add", "remove", "set"}
         /\ c.do = "one" => c.r \in Managed
         /\ c.do = "clear" => c.r \in Lists
<1>1. Named(c) /\ Formed(Tail(job.plan))
  BY TailFormed
<1>2. /\ c.do \in PolicyKinds
      /\ c.do \in OnEntries => c.d = d
      /\ c.do = "services" => c.d = d /\ c.S = S
  BY PolicyTail
<1>3. CASE c.do = "one"
  <2>1. c.r \in Managed /\ c.d = d
    BY <1>1, <1>2, <1>3 DEF Named, OnEntries
  <2>2. EntryCalls(Single(c.r, d), {c.r}, d) /\ After(c) = Single(c.r, d) \o Tail(job.plan)
    BY <1>3, <2>1, SingleIs, AfterCases
  <2> DEFINE s == Single(c.r, d)
  <2> HIDE DEF s
  <2>3. Formed(s) /\ \A i \in DOMAIN s : s[i].do \in {"add", "remove", "set"} /\ s[i].d = d
    BY <2>2 DEF EntryCalls, s
  <2>4. PolicyPlan(s, d, S)
    BY <2>3 DEF PolicyPlan, PolicyKinds
  <2>5. Writes(c, d, S) = s
    BY <1>3 DEF s, Writes
  <2> QED
    BY <1>3, <2>1, <2>2, <2>3, <2>4, <2>5 DEF s
<1>4. CASE c.do = "clear"
  <2>1. c.r \in Lists /\ c.d = d
    BY <1>1, <1>2, <1>4 DEF Named, OnEntries
  <2>2. RemovesOnly(Removes(c.r, d), {c.r}, {d}) /\ After(c) = Removes(c.r, d) \o Tail(job.plan)
    BY <1>4, <2>1, RemovesIs, AfterCases
  <2> DEFINE s == Removes(c.r, d)
  <2> HIDE DEF s
  <2>3. Formed(s) /\ \A i \in DOMAIN s : s[i].do = "remove" /\ s[i].d = d
    BY <2>2 DEF RemovesOnly, s
  <2>4. PolicyPlan(s, d, S)
    BY <2>3 DEF PolicyPlan, PolicyKinds
  <2>5. Writes(c, d, S) = s
    BY <1>4 DEF s, Writes
  <2> QED
    BY <1>4, <2>1, <2>2, <2>3, <2>4, <2>5 DEF s
<1>5. CASE c.do = "services"
  <2>1. c.d = d /\ c.S = S
    BY <1>2, <1>5
  <2>2. EntryCalls(ServiceCalls(d, S), Keys, d) /\ After(c) = ServiceCalls(d, S) \o Tail(job.plan)
    BY <1>5, <2>1, ServiceCallsAre, AfterCases
  <2> DEFINE s == ServiceCalls(d, S)
  <2> HIDE DEF s
  <2>3. Formed(s) /\ \A i \in DOMAIN s : s[i].do \in {"add", "remove", "set"} /\ s[i].d = d
    BY <2>2 DEF EntryCalls, s
  <2>4. PolicyPlan(s, d, S)
    BY <2>3 DEF PolicyPlan, PolicyKinds
  <2>5. Writes(c, d, S) = s
    BY <1>5 DEF s, Writes
  <2> QED
    BY <1>5, <2>1, <2>2, <2>3, <2>4, <2>5 DEF s
<1>6. CASE c.do \notin {"one", "clear", "services"}
  <2> DEFINE t == Tail(job.plan)
  <2>1. After(c) = t
    BY <1>2, <1>6, AfterCases DEF PolicyKinds
  <2>2. <<>> \o t = t
    <3>1. t \in Seq({t[i] : i \in DOMAIN t})
      BY <1>1 DEF Formed
    <3> DEFINE T == {t[i] : i \in DOMAIN t}
    <3> HIDE DEF t, T
    <3>2. \A u \in Seq(T) : <<>> \o u = u
      OBVIOUS
    <3> QED
      BY <3>1, <3>2 DEF T
  <2>3. Formed(<<>>) /\ PolicyPlan(<<>>, d, S) /\ \A i \in DOMAIN <<>> : <<>>[i].do \in {"add", "remove", "set"}
    BY NothingFormed DEF PolicyPlan
  <2> HIDE DEF t
  <2>4. After(c) = <<>> \o t
    BY <2>1, <2>2
  <2>5. Writes(c, d, S) = <<>>
    BY <1>6 DEF Writes
  <2> QED
    BY <1>6, <2>3, <2>4, <2>5 DEF t
<1> QED
  BY <1>3, <1>4, <1>5, <1>6

LEMMA PolicyStep ==
  ASSUME TypeOK, Formed(job.plan), job.plan # <<>>, NEW c, c = Head(job.plan),
         NEW d \in Devices, NEW S, PolicyPlan(job.plan, d, S)
  PROVE  PolicyPlan(After(c), d, S) /\ Undo(c) = <<>> /\ Approvals(c) = approved
<1> DEFINE s == Writes(c, d, S)
<1>1. Formed(s) /\ PolicyPlan(s, d, S) /\ After(c) = s \o Tail(job.plan)
  BY PolicyAfter
<1>2. Formed(Tail(job.plan)) /\ PolicyPlan(Tail(job.plan), d, S) /\ c.do \in PolicyKinds
  BY TailFormed, PolicyTail
<1>3. PolicyPlan(After(c), d, S)
  BY <1>1, <1>2, PolicyJoin
<1>4. Undo(c) = <<>>
  <2>1. c.do \notin {"install", "sched", "expect contract", "approve", "script", "expect global"}
    BY <1>2 DEF PolicyKinds
  <2> QED
    BY <2>1, UndoNothing, Zenon
<1>5. Approvals(c) = approved
  <2>1. c.do # "approve"
    BY <1>2 DEF PolicyKinds
  <2> QED
    BY <2>1, Zenon DEF Approvals
<1> QED
  BY <1>3, <1>4, <1>5

\* What limits a device that is to be SLOW or BLOCKED.
Limits == {"blocked"} \cup Queues
Held(m, D, h, d) == m[h][d] > 0 /\ <<h, d>> \notin D

Holds(s, h, held) ==
  /\ Spares(s, {"clear", "remove"}, Limits, {h})
  /\ Before(s, {"clear", "remove"}, Limits, {"one", "add", "set"}, h, held)

LEMMA HoldStep ==
  ASSUME TypeOK, Formed(job.plan), job.plan # <<>>, NEW c, c = Head(job.plan), ~Refuses(c),
         GateFirst(job.plan, job.proven), Adds(job.plan, n), Enables(job.plan, n),
         job.proven => Intact(n), Fresh(n, disabled),
         NEW d \in Devices, NEW S, PolicyPlan(job.plan, d, S),
         NEW h \in {"blocked", "slowq"}, Holds(job.plan, h, Held(n, disabled, h, d))
  PROVE  Holds(After(c), h, Held(Effect(c).n, Effect(c).disabled, h, d))
<1> DEFINE K == {"clear", "remove"}
           L == {"one", "add", "set"}
           t == Tail(job.plan)
           m == Effect(c).n
           D == Effect(c).disabled
           ok == Held(n, disabled, h, d)
           ok1 == Held(m, D, h, d)
           s == Writes(c, d, S)
<1>1. Named(c) /\ Formed(t) /\ 1 \in DOMAIN job.plan /\ job.plan[1] = c
  BY TailFormed
<1>2. /\ Formed(s) /\ After(c) = s \o t
      /\ \A i \in DOMAIN s : s[i].do \in {"add", "remove", "set"}
      /\ c.do = "one" => s = Single(c.r, d) /\ c.r \in Managed
      /\ c.do = "clear" => s = Removes(c.r, d) /\ c.r \in Lists
      /\ c.do = "services" => s = ServiceCalls(d, S)
      /\ c.do \notin {"one", "clear", "services"} => s = <<>>
  <2>1. /\ Formed(s) /\ After(c) = s \o t
        /\ \A i \in DOMAIN s : s[i].do \in {"add", "remove", "set"}
        /\ c.do = "one" => c.r \in Managed
        /\ c.do = "clear" => c.r \in Lists
    BY PolicyAfter
  <2> QED
    BY <2>1 DEF Writes
<1> HIDE DEF s
<1>3. /\ Spares(t, K, Limits, {h})
      /\ c.do \in K /\ c.r \in Limits => c.r # h /\ ok
      /\ Before(t, K, Limits, L, h, ok \/ (c.do \in L /\ c.r = h))
  BY SparesTail, BeforeTail DEF Holds
<1>4. /\ \A r \in Lists, e \in Devices :
           m[r][e] = IF c.do = "add" /\ c.r = r /\ c.d = e THEN n[r][e] + 1
                     ELSE IF c.do = "remove" /\ c.r = r /\ c.d = e THEN n[r][e] - 1
                     ELSE n[r][e]
      /\ \A r, e : <<r, e>> \in D <=>
           <<r, e>> \in disabled /\ ~(c.do \in {"remove", "set"} /\ c.r = r /\ c.d = e)
  BY <1>1, EffectOnEntries
<1>5. /\ c.do \in PolicyKinds
      /\ c.do \in OnEntries => c.d = d
  BY PolicyTail
<1>6. h \in Limits /\ h \in Lists /\ h \in Managed /\ n[h][d] \in Nat /\ disabled \subseteq Queues \X Devices
  BY TypeIs DEF Limits, Queues, Lists, Managed
<1>7. ok => ok1
  <2> SUFFICES ASSUME ok
               PROVE  ok1
    OBVIOUS
  <2>1. ~(c.do = "remove" /\ c.r = h)
    BY <1>3, <1>6
  <2> QED
    BY <1>4, <1>6, <2>1 DEF Held
<1>8. c.do \in {"add", "set"} /\ c.r = h => ok1
  <2> SUFFICES ASSUME c.do \in {"add", "set"}, c.r = h
               PROVE  ok1
    OBVIOUS
  <2>1. c.d = d
    BY <1>5 DEF OnEntries
  <2>2. /\ c.do = "add" => n[c.r][c.d] = 0
        /\ c.do = "set" => n[c.r][c.d] = 1
    BY AddsStep
  <2>3. CASE c.do = "add"
    <3>1. m[h][d] = 1
      BY <1>4, <1>6, <2>1, <2>2, <2>3
    <3>2. <<h, d>> \notin disabled
      <4>1. n[h][d] = 0
        BY <2>1, <2>2, <2>3
      <4> QED
        BY <1>6, <4>1 DEF Fresh
    <3> QED
      BY <1>4, <3>1, <3>2 DEF Held
  <2>4. CASE c.do = "set"
    <3>1. m[h][d] = 1
      BY <1>4, <1>6, <2>1, <2>2, <2>4
    <3>2. <<h, d>> \notin D
      BY <1>4, <2>1, <2>4
    <3> QED
      BY <3>1, <3>2 DEF Held
  <2> QED
    BY <2>3, <2>4
<1>9. c.do = "one" => m = n /\ D = disabled /\ Intact(n)
  <2>1. c.do = "one" => Effect(c) = ros
    BY EffectCases DEF Writing
  <2>2. c.do = "one" => job.proven
    BY <1>1 DEF GateFirst, Gated
  <2> QED
    BY <2>1, <2>2 DEF n, disabled
<1>10. c.do = "one" /\ c.r = h => ok1 \/ \E p \in DOMAIN s : s[p].do \in L /\ s[p].r = h
  <2> SUFFICES ASSUME c.do = "one", c.r = h
               PROVE  ok1 \/ \E p \in DOMAIN s : s[p].do \in L /\ s[p].r = h
    OBVIOUS
  <2>1. s = Single(h, d) /\ n[h][d] <= 1
    BY <1>2, <1>6, <1>9 DEF Intact
  <2>2. CASE n[h][d] = 0
    <3> DEFINE a == Add(h, d)
    <3>1. s = <<a>> /\ a.do = "add" /\ a.r = h
      BY <1>6, <2>1, <2>2, SingleIs DEF Add
    <3> HIDE DEF a
    <3>2. 1 \in DOMAIN s /\ s[1] = a
      BY <3>1
    <3> QED
      BY <3>1, <3>2
  <2>3. CASE n[h][d] = 1 /\ h \in Queues
    <3> DEFINE a == [do |-> "set", r |-> h, d |-> d]
    <3>1. s = <<a>> /\ a.do = "set" /\ a.r = h
      BY <1>6, <2>1, <2>3, SingleIs
    <3> HIDE DEF a
    <3>2. 1 \in DOMAIN s /\ s[1] = a
      BY <3>1
    <3> QED
      BY <3>1, <3>2
  <2>4. CASE n[h][d] = 1 /\ h \notin Queues
    <3>1. <<h, d>> \notin disabled
      BY <1>6, <2>4
    <3> QED
      BY <1>9, <2>4, <3>1 DEF Held
  <2> QED
    BY <1>6, <2>1, <2>2, <2>3, <2>4
<1>11. ok \/ (c.do \in L /\ c.r = h) => ok1 \/ \E p \in DOMAIN s : s[p].do \in L /\ s[p].r = h
  BY <1>7, <1>8, <1>10
<1>12. Spares(s, K, Limits, {h}) /\ Before(s, K, Limits, L, h, ok1)
  <2>1. CASE c.do = "one"
    <3>1. \A i \in DOMAIN s : s[i].do # "remove"
      BY <1>2, <1>9, <2>1, SingleAdds
    <3> QED
      BY <1>2, <3>1 DEF Spares, Before
  <2>2. CASE c.do = "clear"
    <3>1. \A i \in DOMAIN s : s[i].r = c.r
      BY <1>2, <2>2, RemovesIs DEF RemovesOnly
    <3>2. c.r \in Limits => c.r # h /\ ok1
      BY <1>3, <1>7, <2>2
    <3> HIDE DEF ok1
    <3> QED
      BY <3>1, <3>2 DEF Spares, Before
  <2>3. CASE c.do = "services"
    <3>1. \A i \in DOMAIN s : s[i].r \in Keys
      BY <1>2, <2>3, ServiceCallsAre DEF EntryCalls
    <3>2. Keys \cap Limits = {}
      BY KeysAssumption DEF Limits
    <3> QED
      BY <3>1, <3>2 DEF Spares, Before
  <2>4. CASE c.do \notin {"one", "clear", "services"}
    BY <1>2, <2>4 DEF Spares, Before
  <2> QED
    BY <2>1, <2>2, <2>3, <2>4
<1>13. Before(t, K, Limits, L, h, ok1 \/ \E p \in DOMAIN s : s[p].do \in L /\ s[p].r = h)
  <2> DEFINE x == ok \/ (c.do \in L /\ c.r = h)
             y == ok1 \/ \E p \in DOMAIN s : s[p].do \in L /\ s[p].r = h
  <2>1. x => y
    BY <1>11
  <2>2. Before(t, K, Limits, L, h, x)
    BY <1>3
  <2> HIDE DEF x, y
  <2>3. Before(t, K, Limits, L, h, y)
    BY <2>1, <2>2 DEF Before
  <2> QED
    BY <2>3 DEF y
<1> HIDE DEF ok, ok1, K, L, t, m, D
<1>14. Spares(s \o t, K, Limits, {h}) /\ Before(s \o t, K, Limits, L, h, ok1)
  BY <1>1, <1>2, <1>3, <1>12, <1>13, SparesJoin, BeforeJoin
<1> QED
  BY <1>2, <1>14 DEF Holds, K, L, t, ok1, m, D

\* Services outside S are released when those of S are blocked.
Releases(s, S, d, m) ==
  /\ Spares(s, {"remove"}, Keys, S)
  /\ \A x \in S : Before(s, {"remove"}, Keys, {"add"}, x, m[x][d] > 0)

LEMMA ReleaseStep ==
  ASSUME TypeOK, Formed(job.plan), job.plan # <<>>, NEW c, c = Head(job.plan), ~Refuses(c),
         GateFirst(job.plan, job.proven), Adds(job.plan, n), Enables(job.plan, n),
         job.proven => Intact(n),
         NEW d \in Devices, NEW S \in SUBSET Enforceable, PolicyPlan(job.plan, d, S),
         Releases(job.plan, S, d, n)
  PROVE  Releases(After(c), S, d, Effect(c).n)
<1> DEFINE K == {"remove"}
           L == {"add"}
           t == Tail(job.plan)
           m == Effect(c).n
           s == Writes(c, d, S)
<1>1. Named(c) /\ Formed(t) /\ 1 \in DOMAIN job.plan /\ job.plan[1] = c
  BY TailFormed
<1>2. /\ Formed(s) /\ After(c) = s \o t
      /\ \A i \in DOMAIN s : s[i].do \in {"add", "remove", "set"}
      /\ c.do = "one" => s = Single(c.r, d) /\ c.r \in Managed
      /\ c.do = "clear" => s = Removes(c.r, d) /\ c.r \in Lists
      /\ c.do = "services" => s = ServiceCalls(d, S)
      /\ c.do \notin {"one", "clear", "services"} => s = <<>>
  <2>1. /\ Formed(s) /\ After(c) = s \o t
        /\ \A i \in DOMAIN s : s[i].do \in {"add", "remove", "set"}
        /\ c.do = "one" => c.r \in Managed
        /\ c.do = "clear" => c.r \in Lists
    BY PolicyAfter
  <2> QED
    BY <2>1 DEF Writes
<1>3. /\ Spares(t, K, Keys, S)
      /\ c.do \in K /\ c.r \in Keys => c.r \notin S
      /\ \A x \in S : Before(t, K, Keys, L, x, n[x][d] > 0 \/ (c.do \in L /\ c.r = x))
  <2>1. Spares(job.plan, K, Keys, S) /\ \A x \in S : Before(job.plan, K, Keys, L, x, n[x][d] > 0)
    BY DEF Releases
  <2>2. Spares(t, K, Keys, S) /\ (c.do \in K /\ c.r \in Keys => c.r \notin S)
    <3> HIDE DEF K
    <3> QED
      BY <2>1, SparesTail
  <2>3. ASSUME NEW x \in S
        PROVE  Before(t, K, Keys, L, x, n[x][d] > 0 \/ (c.do \in L /\ c.r = x))
    <3> DEFINE ok == n[x][d] > 0
    <3>1. Before(job.plan, K, Keys, L, x, ok)
      BY <2>1
    <3> HIDE DEF K, L, ok
    <3>2. Before(t, K, Keys, L, x, ok \/ (c.do \in L /\ c.r = x))
      BY <3>1, BeforeTail
    <3> QED
      BY <3>2 DEF ok
  <2> QED
    BY <2>2, <2>3
<1>4. \A r \in Lists, e \in Devices :
        m[r][e] = IF c.do = "add" /\ c.r = r /\ c.d = e THEN n[r][e] + 1
                  ELSE IF c.do = "remove" /\ c.r = r /\ c.d = e THEN n[r][e] - 1
                  ELSE n[r][e]
  BY <1>1, EffectOnEntries
<1>5. /\ c.do \in PolicyKinds
      /\ c.do \in OnEntries => c.d = d
      /\ c.do = "clear" => c.r \in {"blocked", "slow"} \cup Queues
  BY PolicyTail
<1>6. \A x \in S : x \in Keys /\ x \in Lists /\ n[x][d] \in Nat
  BY EnforceableKeys, TypeIs
<1>7. \A x \in S : n[x][d] > 0 \/ (c.do \in L /\ c.r = x) => m[x][d] > 0
  <2> SUFFICES ASSUME NEW x \in S, n[x][d] > 0 \/ (c.do = "add" /\ c.r = x)
               PROVE  m[x][d] > 0
    OBVIOUS
  <2>1. ~(c.do = "remove" /\ c.r = x)
    BY <1>3, <1>6
  <2>2. c.do = "add" => c.d = d
    BY <1>5 DEF OnEntries
  <2> HIDE DEF m
  <2> QED
    BY <1>4, <1>6, <2>1, <2>2
<1>8. c.do \in {"one", "services"} => m = n /\ Intact(n)
  <2>1. c.do \in {"one", "services"} => Effect(c) = ros
    BY EffectCases DEF Writing
  <2>2. c.do \in {"one", "services"} => job.proven
    BY <1>1 DEF GateFirst, Gated
  <2> QED
    BY <2>1, <2>2 DEF n
<1> HIDE DEF s
<1>9. Spares(s, K, Keys, S) /\ \A x \in S : Before(s, K, Keys, L, x, m[x][d] > 0)
  <2>1. CASE c.do = "one"
    <3>1. \A i \in DOMAIN s : s[i].do # "remove"
      BY <1>2, <1>8, <2>1, SingleAdds
    <3> QED
      BY <3>1 DEF Spares, Before
  <2>2. CASE c.do = "clear"
    <3>1. \A i \in DOMAIN s : s[i].r = c.r
      BY <1>2, <2>2, RemovesIs DEF RemovesOnly
    <3>2. c.r \notin Keys
      BY <1>5, <2>2, KeysAssumption
    <3> QED
      BY <3>1, <3>2 DEF Spares, Before
  <2>3. CASE c.do = "services"
    <3>1. \A k \in Keys : n[k][d] <= 1
      BY <1>8, <2>3, FiniteKinds DEF Intact
    <3>2. DOMAIN s = 1..Len(s) /\ Len(s) \in Nat
      BY <1>2 DEF Formed
    <3>3. \E b \in Nat :
            /\ \A i \in DOMAIN s : IF i <= b THEN s[i].do = "add" /\ n[s[i].r][d] = 0
                                             ELSE s[i].do = "remove" /\ s[i].r \notin S
            /\ \A k \in Enforceable \cap S : n[k][d] > 0 \/ \E i \in DOMAIN s : i <= b /\ s[i].r = k
      <4>1. s = ServiceCalls(d, S)
        BY <1>2, <2>3
      <4> QED
        BY <3>1, <4>1, ServiceCallsAre
    <3>4. PICK b \in Nat :
            /\ \A i \in DOMAIN s : IF i <= b THEN s[i].do = "add" /\ n[s[i].r][d] = 0
                                             ELSE s[i].do = "remove" /\ s[i].r \notin S
            /\ \A k \in Enforceable \cap S : n[k][d] > 0 \/ \E i \in DOMAIN s : i <= b /\ s[i].r = k
      BY <3>3
    <3>5. Spares(s, K, Keys, S)
      BY <3>2, <3>4 DEF Spares
    <3>6. ASSUME NEW x \in S
          PROVE  Before(s, K, Keys, L, x, m[x][d] > 0)
      <4>1. CASE n[x][d] > 0
        BY <1>7, <4>1 DEF Before
      <4>2. CASE \E i \in DOMAIN s : i <= b /\ s[i].r = x
        <5>1. PICK p \in DOMAIN s : p <= b /\ s[p].r = x
          BY <4>2
        <5>2. s[p].do = "add"
          BY <3>4, <5>1
        <5>3. \A i \in DOMAIN s : s[i].do = "remove" => p \in 1..(i - 1)
          BY <3>2, <3>4, <5>1
        <5> QED
          BY <5>1, <5>2, <5>3 DEF Before
      <4>3. x \in Enforceable \cap S
        OBVIOUS
      <4> QED
        BY <3>4, <4>1, <4>2, <4>3
    <3> QED
      BY <3>5, <3>6
  <2>4. CASE c.do \notin {"one", "clear", "services"}
    BY <1>2, <2>4 DEF Spares, Before
  <2> QED
    BY <2>1, <2>2, <2>3, <2>4
<1> HIDE DEF K, L, t, m
<1>10. Spares(s \o t, K, Keys, S)
  BY <1>1, <1>2, <1>3, <1>9, SparesJoin
<1>11. ASSUME NEW x \in S
       PROVE  Before(s \o t, K, Keys, L, x, m[x][d] > 0)
  <2> DEFINE ok == n[x][d] > 0 \/ (c.do \in L /\ c.r = x)
             y == m[x][d] > 0
             z == y \/ \E p \in DOMAIN s : s[p].do \in L /\ s[p].r = x
  <2>1. ok => z
    BY <1>7
  <2>2. Before(t, K, Keys, L, x, ok) /\ Before(s, K, Keys, L, x, y)
    BY <1>3, <1>9
  <2> HIDE DEF ok
  <2>3. Before(t, K, Keys, L, x, z)
    <3> HIDE DEF z
    <3> QED
      BY <2>1, <2>2 DEF Before
  <2> HIDE DEF y
  <2>4. Before(t, K, Keys, L, x, y \/ \E p \in DOMAIN s : s[p].do \in L /\ s[p].r = x)
    BY <2>3
  <2>5. Before(s \o t, K, Keys, L, x, y)
    BY <1>1, <1>2, <2>2, <2>4, BeforeJoin
  <2> QED
    BY <2>5 DEF y
<1> QED
  BY <1>2, <1>10, <1>11 DEF Releases, K, L, t, m

-----------------------------------------------------------------------------
(* The inductive invariant.                                                *)

\* The job is a record whose calls name what exists; a job of a device has a
\* device, and its services are of the catalogue.
JobOK ==
  /\ job = [do |-> job.do, on |-> job.on, mode |-> job.mode, S |-> job.S, plan |-> job.plan,
            proven |-> job.proven, undoing |-> job.undoing, shaken |-> job.shaken]
  /\ job.proven \in BOOLEAN /\ job.undoing \in BOOLEAN /\ job.shaken \in BOOLEAN
  /\ Formed(job.plan)
  /\ job.do \in {"device", "policy"} =>
       /\ job.on \in Devices /\ job.mode \in Modes /\ job.S \subseteq Enforceable
       /\ PolicyPlan(job.plan, job.on, job.S)
  /\ job.do = "temporary" => job.mode \in Modes

\* Writes come after a gate; as long as nobody edits the router, what is added
\* is not there, and nothing is there twice.
OrderOK ==
  /\ GateFirst(job.plan, job.proven)
  /\ ~job.shaken => /\ Adds(job.plan, n) /\ Enables(job.plan, n)
                    /\ job.proven => Intact(n)

\* What has to hold the device, when it is not to be NORMAL.
Strict(mode) == IF mode = "blocked" THEN "blocked" ELSE "slowq"

\* The device keeps its limit until the new one is there, and its services stay
\* blocked until the new ones are.
PolicyOK ==
  job.do \in {"device", "policy"} /\ ~job.shaken =>
    /\ job.mode # "normal" =>
         Holds(job.plan, Strict(job.mode), Held(n, disabled, Strict(job.mode), job.on))
    /\ Releases(job.plan, job.S, job.on, n)

\* What is left of temporary access: before NORMAL, the restore is armed.
TempOK ==
  job.do = "temporary" =>
    IF job.undoing THEN job.plan = <<[do |-> "disarm"]>>
    ELSE LET k == Len(job.plan) IN
         /\ k \in 1..6
         /\ \A i \in 1..k : job.plan[i] = TemporaryPlan(job.mode)[6 - k + i]
         /\ k <= 3 => temp = job.mode

IInv ==
  /\ TypeOK /\ JobOK
  /\ Fresh(n, disabled)
  /\ OrderOK
  /\ PolicyOK
  /\ TempOK

-----------------------------------------------------------------------------
(* The invariant and the steps that leave the plan alone or drop it.       *)

LEMMA NothingLeft ==
  ASSUME NEW m, NEW p
  PROVE  /\ Formed(<<>>) /\ GateFirst(<<>>, p) /\ NoAdds(<<>>) /\ Adds(<<>>, m) /\ Enables(<<>>, m)
<1>1. DOMAIN <<>> = {}
  OBVIOUS
<1> QED
  BY <1>1, NothingFormed DEF GateFirst, NoAdds, Adds, Enables

LEMMA IdleKeeps ==
  ASSUME TypeOK', Fresh(n, disabled)', job' = Idle
  PROVE  IInv'
<1>1. /\ job'.do = "idle" /\ job'.plan = <<>>
      /\ job'.proven = FALSE /\ job'.undoing = FALSE /\ job'.shaken = FALSE
      /\ job' = [do |-> job'.do, on |-> job'.on, mode |-> job'.mode, S |-> job'.S, plan |-> job'.plan,
                 proven |-> job'.proven, undoing |-> job'.undoing, shaken |-> job'.shaken]
  BY DEF Idle
<1>2. JobOK'
  BY <1>1, NothingFormed DEF JobOK
<1>3. OrderOK'
  <2>1. /\ GateFirst(<<>>, FALSE) /\ \A m : Adds(<<>>, m) /\ Enables(<<>>, m)
    BY NothingLeft
  <2> QED
    BY <1>1, <2>1 DEF OrderOK
<1>4. PolicyOK' /\ TempOK'
  BY <1>1 DEF PolicyOK, TempOK
<1> QED
  BY <1>2, <1>3, <1>4 DEF IInv

LEMMA SameJobKeeps ==
  ASSUME IInv, TypeOK', n' = n, disabled' = disabled, approved' = approved, job' = job,
         job.do = "temporary" /\ ~job.undoing /\ Len(job.plan) <= 3 => temp' = temp
  PROVE  IInv'
<1> USE DEF IInv
<1>1. Enforceable' = Enforceable
  BY DEF Enforceable
<1>2. JobOK'
  BY <1>1 DEF JobOK
<1>3. Fresh(n, disabled)'
  BY DEF Fresh
<1>4. OrderOK'
  BY DEF OrderOK
<1>5. PolicyOK'
  BY DEF PolicyOK
<1>6. TempOK'
  BY DEF TempOK
<1> QED
  BY <1>2, <1>3, <1>4, <1>5, <1>6

LEMMA ShakenKeeps ==
  ASSUME IInv, TypeOK', Fresh(n, disabled)', approved' = approved, temp' = temp,
         job' = [job EXCEPT !.shaken = TRUE]
  PROVE  IInv'
<1> USE DEF IInv
<1>1. /\ job'.do = job.do /\ job'.on = job.on /\ job'.mode = job.mode /\ job'.S = job.S
      /\ job'.plan = job.plan /\ job'.proven = job.proven /\ job'.undoing = job.undoing
      /\ job'.shaken = TRUE
      /\ job' = [do |-> job'.do, on |-> job'.on, mode |-> job'.mode, S |-> job'.S, plan |-> job'.plan,
                 proven |-> job'.proven, undoing |-> job'.undoing, shaken |-> job'.shaken]
  BY DEF JobOK
<1>2. Enforceable' = Enforceable
  BY DEF Enforceable
<1>3. JobOK'
  BY <1>1, <1>2 DEF JobOK
<1>4. OrderOK'
  BY <1>1 DEF OrderOK
<1>5. PolicyOK'
  BY <1>1 DEF PolicyOK
<1>6. TempOK'
  BY <1>1 DEF TempOK
<1> QED
  BY <1>3, <1>4, <1>5, <1>6

\* What the router does by itself leaves the lists and the queues alone.
LEMMA EventKeeps ==
  ASSUME IInv, TempFires \/ ScheduleFires \/ DetectorLearns \/ ReadTemporary
  PROVE  IInv'
<1> USE TypeIs DEF IInv
<1>1. CASE TempFires
  <2>1. /\ ros' = [ros EXCEPT !.gmode = temp, !.temp = "fired"] /\ temp \in Modes
        /\ job.do = "temporary" => Len(job.plan) > Len(GlobalPlan("normal"))
        /\ approved' = approved /\ wanted' = wanted /\ job' = job
    BY <1>1 DEF TempFires, Event
  <2>2. TypeOK'
    BY <2>1 DEF TypeOK, Routers
  <2>3. n' = n /\ disabled' = disabled
    BY <2>1 DEF n, disabled
  <2>4. job.do = "temporary" /\ ~job.undoing => ~(Len(job.plan) <= 3)
    <3>1. Len(GlobalPlan("normal")) = 3 /\ "normal" \in Modes
      BY GlobalPlanIs DEF Modes
    <3>2. job.do = "temporary" /\ ~job.undoing => Len(job.plan) \in 1..6
      BY DEF TempOK
    <3>3. job.do = "temporary" => Len(job.plan) > Len(GlobalPlan("normal"))
      BY <2>1
    <3>4. \A x, y : y = 3 /\ x \in 1..6 /\ x > y => ~(x <= 3)
      OBVIOUS
    <3> QED
      BY <3>1, <3>2, <3>3, <3>4, Zenon
  <2> QED
    BY <2>1, <2>2, <2>3, <2>4, SameJobKeeps
<1>2. CASE ScheduleFires
  <2>1. PICK e \in scheds : Event([ros EXCEPT !.gmode = e[3]])
    BY <1>2 DEF ScheduleFires
  <2>2. /\ ros' = [ros EXCEPT !.gmode = e[3]] /\ e[3] \in Modes
        /\ approved' = approved /\ wanted' = wanted /\ job' = job
    BY <2>1 DEF Event
  <2>3. TypeOK'
    BY <2>2 DEF TypeOK, Routers
  <2>4. n' = n /\ disabled' = disabled /\ temp' = temp
    BY <2>2 DEF n, disabled, temp
  <2> QED
    BY <2>2, <2>3, <2>4, SameJobKeeps
<1>3. CASE DetectorLearns
  <2>1. PICK k \in Customs : ros' = [ros EXCEPT !.learned = @ \cup {k}]
    BY <1>3 DEF DetectorLearns
  <2>2. approved' = approved /\ wanted' = wanted /\ job' = job
    BY <1>3 DEF DetectorLearns
  <2>3. TypeOK'
    BY <2>1, <2>2 DEF TypeOK, Routers
  <2>4. n' = n /\ disabled' = disabled /\ temp' = temp
    BY <2>1 DEF n, disabled, temp
  <2> QED
    BY <2>2, <2>3, <2>4, SameJobKeeps
<1>4. CASE ReadTemporary
  <2>1. /\ temp = "fired" /\ ros' = [ros EXCEPT !.temp = "none"]
        /\ approved' = approved /\ wanted' = wanted /\ job' = job
    BY <1>4 DEF ReadTemporary
  <2>2. TypeOK'
    BY <2>1 DEF TypeOK, Routers
  <2>3. n' = n /\ disabled' = disabled
    BY <2>1 DEF n, disabled
  <2>4. ~(job.do = "temporary" /\ ~job.undoing /\ Len(job.plan) <= 3)
    BY <2>1 DEF TempOK, JobOK, Modes
  <2> QED
    BY <2>1, <2>2, <2>3, <2>4, SameJobKeeps
<1> QED
  BY <1>1, <1>2, <1>3, <1>4

\* What is edited by hand.
LEMMA EditIs ==
  ASSUME TypeOK, Fresh(n, disabled), ManualEdit
  PROVE  /\ TypeOK' /\ Fresh(n, disabled)' /\ temp' = temp /\ approved' = approved
         /\ job' = (IF job = Idle THEN Idle ELSE [job EXCEPT !.shaken = TRUE])
<1> USE TypeIs
<1>1. CASE \E r \in Lists, d \in Devices : n[r][d] < 2 /\ Edited([ros EXCEPT !.n[r][d] = @ + 1])
  <2>1. PICK r \in Lists, d \in Devices : n[r][d] < 2 /\ Edited([ros EXCEPT !.n[r][d] = @ + 1])
    BY <1>1
  <2>2. /\ ros' = [ros EXCEPT !.n[r][d] = @ + 1] /\ approved' = approved /\ wanted' = wanted
        /\ job' = (IF job = Idle THEN Idle ELSE [job EXCEPT !.shaken = TRUE])
    BY <2>1 DEF Edited
  <2>3. /\ n' = [n EXCEPT ![r][d] = @ + 1] /\ disabled' = disabled /\ temp' = temp
        /\ ros' = [ros EXCEPT !.n = n']
    BY <2>2 DEF n, disabled, temp
  <2>4. n' \in [Lists -> [Devices -> Nat]] /\ \A q \in Lists, x \in Devices : n'[q][x] >= n[q][x]
    BY <2>3
  <2>5. TypeOK'
    BY <2>2, <2>3, <2>4 DEF TypeOK, Routers
  <2>6. Queues \subseteq Lists
    BY DEF Lists, Managed
  <2>7. Fresh(n, disabled)'
    BY <2>3, <2>4, <2>6 DEF Fresh
  <2> QED
    BY <2>2, <2>3, <2>5, <2>7
<1>2. CASE \E r \in Lists, d \in Devices :
             n[r][d] > 0 /\ Edited([ros EXCEPT !.n[r][d] = @ - 1, !.disabled = @ \ {<<r, d>>}])
  <2>1. PICK r \in Lists, d \in Devices :
             n[r][d] > 0 /\ Edited([ros EXCEPT !.n[r][d] = @ - 1, !.disabled = @ \ {<<r, d>>}])
    BY <1>2
  <2>2. /\ ros' = [ros EXCEPT !.n[r][d] = @ - 1, !.disabled = @ \ {<<r, d>>}]
        /\ approved' = approved /\ wanted' = wanted
        /\ job' = (IF job = Idle THEN Idle ELSE [job EXCEPT !.shaken = TRUE])
    BY <2>1 DEF Edited
  <2>3. /\ n' = [n EXCEPT ![r][d] = @ - 1] /\ disabled' = disabled \ {<<r, d>>} /\ temp' = temp
        /\ ros' = [ros EXCEPT !.n = n', !.disabled = disabled']
    BY <2>2 DEF n, disabled, temp
  <2>4. /\ n' \in [Lists -> [Devices -> Nat]]
        /\ \A q \in Lists, x \in Devices : q # r \/ x # d => n'[q][x] = n[q][x]
    BY <2>1, <2>3
  <2>9. disabled' \in SUBSET (Queues \X Devices)
    BY <2>3
  <2>10. ros' \in Routers
    BY <2>3, <2>4, <2>9 DEF TypeOK, Routers
  <2>5. TypeOK'
    BY <2>2, <2>10 DEF TypeOK
  <2>6. Queues \subseteq Lists
    BY DEF Lists, Managed
  <2>7. ASSUME NEW q \in Queues, NEW x \in Devices, <<q, x>> \in disabled'
        PROVE  n'[q][x] > 0
    <3>1. <<q, x>> \in disabled /\ (q # r \/ x # d)
      BY <2>3, <2>7
    <3>2. n[q][x] > 0
      BY <3>1 DEF Fresh
    <3> QED
      BY <2>4, <2>6, <3>1, <3>2
  <2>8. Fresh(n, disabled)'
    BY <2>7 DEF Fresh
  <2> QED
    BY <2>2, <2>3, <2>5, <2>8
<1>3. CASE \E q \in Queues, d \in Devices : On(q, d) /\ Edited([ros EXCEPT !.disabled = @ \cup {<<q, d>>}])
  <2>1. PICK q \in Queues, d \in Devices : On(q, d) /\ Edited([ros EXCEPT !.disabled = @ \cup {<<q, d>>}])
    BY <1>3
  <2>2. /\ ros' = [ros EXCEPT !.disabled = @ \cup {<<q, d>>}] /\ approved' = approved /\ wanted' = wanted
        /\ job' = (IF job = Idle THEN Idle ELSE [job EXCEPT !.shaken = TRUE])
    BY <2>1 DEF Edited
  <2>3. /\ n' = n /\ disabled' = disabled \cup {<<q, d>>} /\ temp' = temp
        /\ ros' = [ros EXCEPT !.disabled = disabled']
    BY <2>2 DEF n, disabled, temp
  <2>4. TypeOK'
    BY <2>2, <2>3 DEF TypeOK, Routers
  <2>5. Fresh(n, disabled)'
    BY <2>1, <2>3 DEF Fresh, On
  <2> QED
    BY <2>2, <2>3, <2>4, <2>5
<1>4. CASE \/ \E c \in StaticChecks : failing = {} /\ Edited([ros EXCEPT !.failing = {c}])
           \/ failing # {} /\ Edited([ros EXCEPT !.failing = {}])
  <2>1. PICK F \in SUBSET StaticChecks : Edited([ros EXCEPT !.failing = F])
    BY <1>4
  <2>2. /\ ros' = [ros EXCEPT !.failing = F] /\ approved' = approved /\ wanted' = wanted
        /\ job' = (IF job = Idle THEN Idle ELSE [job EXCEPT !.shaken = TRUE])
    BY <2>1 DEF Edited
  <2>3. TypeOK' /\ n' = n /\ disabled' = disabled /\ temp' = temp
    BY <2>2 DEF TypeOK, Routers, n, disabled, temp
  <2> QED
    BY <2>2, <2>3 DEF Fresh
<1>5. CASE \/ gmode # "invalid" /\ Edited([ros EXCEPT !.gmode = "invalid"])
           \/ ~late /\ Edited([ros EXCEPT !.late = TRUE])
  <2>1. /\ ros' = [ros EXCEPT !.gmode = "invalid"] \/ ros' = [ros EXCEPT !.late = TRUE]
        /\ approved' = approved /\ wanted' = wanted
        /\ job' = (IF job = Idle THEN Idle ELSE [job EXCEPT !.shaken = TRUE])
    BY <1>5 DEF Edited
  <2>2. TypeOK' /\ n' = n /\ disabled' = disabled /\ temp' = temp
    BY <2>1 DEF TypeOK, Routers, n, disabled, temp
  <2> QED
    BY <2>1, <2>2 DEF Fresh
<1>6. CASE \E k \in Customs : \E r \in rules[k] : Edited([ros EXCEPT !.rules[k] = @ \ {r}])
  <2>0. PICK k \in Customs : \E r \in rules[k] : Edited([ros EXCEPT !.rules[k] = @ \ {r}])
    BY <1>6
  <2>1. PICK r \in rules[k] : Edited([ros EXCEPT !.rules[k] = @ \ {r}])
    BY <2>0
  <2>2. /\ ros' = [ros EXCEPT !.rules[k] = @ \ {r}] /\ approved' = approved /\ wanted' = wanted
        /\ job' = (IF job = Idle THEN Idle ELSE [job EXCEPT !.shaken = TRUE])
    BY <2>1 DEF Edited
  <2>3. n' = n /\ disabled' = disabled /\ temp' = temp /\ rules' = [rules EXCEPT ![k] = @ \ {r}]
        /\ ros' = [ros EXCEPT !.rules = rules']
    BY <2>2 DEF n, disabled, temp, rules
  <2>4. rules' \in [Customs -> SUBSET Contract]
    BY <2>3
  <2>5. TypeOK'
    BY <2>2, <2>3, <2>4 DEF TypeOK, Routers
  <2> QED
    BY <2>2, <2>3, <2>5 DEF Fresh
<1> QED
  BY <1>1, <1>2, <1>3, <1>4, <1>5, <1>6 DEF ManualEdit

LEMMA EditKeeps ==
  ASSUME IInv, ManualEdit
  PROVE  IInv'
<1>1. /\ TypeOK' /\ Fresh(n, disabled)' /\ temp' = temp /\ approved' = approved
      /\ job' = (IF job = Idle THEN Idle ELSE [job EXCEPT !.shaken = TRUE])
  BY EditIs DEF IInv
<1> QED
  BY <1>1, IdleKeeps, ShakenKeeps

-----------------------------------------------------------------------------
(* Requests.                                                               *)

LEMMA BeginKeeps ==
  ASSUME IInv, NEW do, NEW on, NEW mode, NEW S, NEW plan, Begin(do, on, mode, S, plan),
         DOMAIN wanted' \subseteq Groups, Formed(plan), NoAdds(plan), GateFirst(plan, FALSE),
         do \in {"device", "policy"} =>
           /\ on \in Devices /\ mode \in Modes /\ S \subseteq Enforceable /\ PolicyPlan(plan, on, S)
           /\ mode # "normal" => Holds(plan, Strict(mode), Held(n, disabled, Strict(mode), on))
           /\ Releases(plan, S, on, n),
         do = "temporary" => mode \in Modes /\ plan = TemporaryPlan(mode) /\ Len(plan) = 6
  PROVE  IInv'
<1>1. /\ ros' = ros /\ approved' = approved /\ n' = n /\ disabled' = disabled
      /\ Enforceable' = Enforceable
  BY DEF Begin, n, disabled, Enforceable
<1>2. TypeOK' /\ Fresh(n, disabled)'
  BY <1>1 DEF IInv, TypeOK, Fresh
<1>3. CASE job' = Idle
  BY <1>2, <1>3, IdleKeeps
<1>4. CASE job' # Idle
  <2>1. job' = [Idle EXCEPT !.do = do, !.on = on, !.mode = mode, !.S = S, !.plan = plan]
    BY <1>4 DEF Begin
  <2>2. /\ job'.do = do /\ job'.on = on /\ job'.mode = mode /\ job'.S = S /\ job'.plan = plan
        /\ job'.proven = FALSE /\ job'.undoing = FALSE /\ job'.shaken = FALSE
        /\ job' = [do |-> job'.do, on |-> job'.on, mode |-> job'.mode, S |-> job'.S, plan |-> job'.plan,
                   proven |-> job'.proven, undoing |-> job'.undoing, shaken |-> job'.shaken]
    BY <2>1 DEF Idle
  <2>3. JobOK'
    BY <1>1, <2>2 DEF JobOK
  <2>4. OrderOK'
    BY <2>2, NoAddsIs DEF OrderOK
  <2>5. PolicyOK'
    BY <1>1, <2>2 DEF PolicyOK
  <2>6. TempOK'
    <3>1. do = "temporary" => \A i \in 1..6 : plan[i] = TemporaryPlan(mode)[6 - 6 + i]
      <4>1. \A i \in 1..6 : 6 - 6 + i = i
        OBVIOUS
      <4> QED
        BY <4>1
    <3>2. 6 \in 1..6 /\ ~(6 <= 3)
      OBVIOUS
    <3>3. do = "temporary" => Len(job'.plan) = 6
      BY <2>2
    <3> QED
      BY <2>2, <3>1, <3>2, <3>3, Zenon DEF TempOK
  <2> QED
    BY <1>2, <2>3, <2>4, <2>5, <2>6 DEF IInv
<1> QED
  BY <1>3, <1>4

\* A plan that starts with the gate, or writes nothing before one.
LEMMA GateFirstGate ==
  ASSUME NEW s, Formed(s), s # <<>>, Head(s).do = "gate"
  PROVE  GateFirst(s, FALSE)
<1>1. /\ Len(s) \in Nat /\ DOMAIN s = 1..Len(s) /\ s[1].do = "gate"
  BY TailFormed
<1>2. \A i \in DOMAIN s : i # 1 => 1 \in 1..(i - 1)
  BY <1>1
<1>3. s[1].do \notin Gated
  BY <1>1 DEF Gated
<1> QED
  BY <1>1, <1>2, <1>3 DEF GateFirst

LEMMA GateFirstQuiet ==
  ASSUME NEW s, Quiet(s), NEW p
  PROVE  GateFirst(s, p)
BY DEF Quiet, GateFirst

\* The plan of a request: it starts with the gate, and what it will add or
\* remove it does not know yet.
Opens(s) == Formed(s) /\ s # <<>> /\ Head(s).do = "gate"
Lacks(s) == \A i \in DOMAIN s : s[i].do \notin {"add", "set", "remove"}

LEMMA OpensJoin ==
  ASSUME NEW s, NEW t, Opens(s), Formed(t)
  PROVE  Opens(s \o t)
<1> DEFINE u == s \o t
<1>1. /\ Formed(u) /\ Len(s) \in Nat /\ Len(t) \in Nat /\ DOMAIN u = 1..(Len(s) + Len(t))
      /\ \A i \in DOMAIN s : i \in DOMAIN u /\ u[i] = s[i]
  BY JoinAt DEF Opens
<1>2. Len(s) > 0 /\ DOMAIN s = 1..Len(s) /\ Head(s) = s[1]
  BY TailFormed DEF Opens
<1>3. 1 \in DOMAIN s /\ 1 \in DOMAIN u /\ u[1] = Head(s)
  BY <1>1, <1>2
<1> HIDE DEF u
<1>4. u # <<>>
  BY <1>3
<1>5. Head(u) = u[1]
  BY <1>1, <1>4, TailFormed
<1>6. Opens(u)
  BY <1>1, <1>3, <1>4, <1>5 DEF Opens
<1> QED
  BY <1>6 DEF u

LEMMA LacksJoin ==
  ASSUME NEW s, NEW t, Formed(s), Formed(t), Lacks(s), Lacks(t)
  PROVE  Lacks(s \o t)
<1> DEFINE u == s \o t
<1>1. \A i \in DOMAIN u : IF i <= Len(s) THEN i \in DOMAIN s /\ u[i] = s[i]
                          ELSE i - Len(s) \in DOMAIN t /\ u[i] = t[i - Len(s)]
  BY JoinAt
<1> HIDE DEF u
<1>2. Lacks(u)
  BY <1>1 DEF Lacks
<1> QED
  BY <1>2 DEF u

LEMMA LacksIs ==
  ASSUME NEW s, Lacks(s)
  PROVE  NoAdds(s) /\ \A S, d, m : Releases(s, S, d, m)
BY DEF Lacks, NoAdds, Releases, Spares, Before

LEMMA OpensIs ==
  ASSUME NEW s, Opens(s), Lacks(s)
  PROVE  Formed(s) /\ NoAdds(s) /\ GateFirst(s, FALSE)
BY GateFirstGate, LacksIs DEF Opens

LEMMA GateFirstBoth ==
  ASSUME NEW s, NEW t, Formed(s), Formed(t), GateFirst(s, FALSE), GateFirst(t, FALSE)
  PROVE  GateFirst(s \o t, FALSE)
<1> DEFINE u == s \o t
<1> SUFFICES ASSUME NEW i \in DOMAIN u, u[i].do \in Gated
             PROVE  \E p \in 1..(i - 1) : u[p].do = "gate"
  BY DEF GateFirst
<1>1. /\ Len(s) \in Nat /\ Len(t) \in Nat /\ DOMAIN u = 1..(Len(s) + Len(t))
      /\ DOMAIN s = 1..Len(s) /\ DOMAIN t = 1..Len(t)
      /\ \A j \in DOMAIN s : u[j] = s[j]
      /\ \A j \in DOMAIN u : IF j <= Len(s) THEN j \in DOMAIN s /\ u[j] = s[j]
                             ELSE j - Len(s) \in DOMAIN t /\ u[j] = t[j - Len(s)]
  BY JoinAt
<1> HIDE DEF u
<1>2. CASE i <= Len(s)
  <2>1. i \in DOMAIN s /\ s[i].do \in Gated
    BY <1>1, <1>2
  <2>2. PICK p \in 1..(i - 1) : s[p].do = "gate"
    BY <2>1 DEF GateFirst
  <2>3. p \in DOMAIN s
    BY <1>1, <2>1
  <2> QED
    BY <1>1, <2>2, <2>3
<1>3. CASE ~(i <= Len(s))
  <2>1. i - Len(s) \in DOMAIN t /\ t[i - Len(s)].do \in Gated
    BY <1>1, <1>3
  <2>2. PICK p \in 1..(i - Len(s) - 1) : t[p].do = "gate"
    BY <2>1 DEF GateFirst
  <2>3. /\ Len(s) + p \in 1..(i - 1) /\ Len(s) + p \in DOMAIN u /\ ~(Len(s) + p <= Len(s))
        /\ Len(s) + p - Len(s) = p
    BY <1>1, <2>1, <2>2
  <2>4. u[Len(s) + p].do = "gate"
    BY <1>1, <2>2, <2>3
  <2> QED
    BY <2>3, <2>4
<1> QED
  BY <1>2, <1>3

\* A plan makes sure that the device is in list x.
Establishes(s, x) == \E p \in DOMAIN s : s[p].do \in {"one", "add", "set"} /\ s[p].r = x

LEMMA HoldsJoin ==
  ASSUME NEW s, NEW t, Formed(s), Formed(t), NEW h, NEW held,
         Holds(s, h, held), Holds(t, h, held \/ Establishes(s, h))
  PROVE  Holds(s \o t, h, held)
BY SparesJoin, BeforeJoin DEF Holds, Establishes

LEMMA EstablishesJoin ==
  ASSUME NEW s, NEW t, Formed(s), Formed(t), NEW h, Establishes(s, h) \/ Establishes(t, h)
  PROVE  Establishes(s \o t, h)
<1> DEFINE u == s \o t
<1>1. /\ Len(s) \in Nat /\ Len(t) \in Nat /\ DOMAIN u = 1..(Len(s) + Len(t)) /\ DOMAIN t = 1..Len(t)
      /\ \A i \in DOMAIN s : i \in DOMAIN u /\ u[i] = s[i]
      /\ \A i \in DOMAIN u : IF i <= Len(s) THEN i \in DOMAIN s /\ u[i] = s[i]
                             ELSE i - Len(s) \in DOMAIN t /\ u[i] = t[i - Len(s)]
  BY JoinAt
<1> HIDE DEF u
<1>2. CASE Establishes(s, h)
  <2>1. Establishes(u, h)
    BY <1>1, <1>2 DEF Establishes
  <2> QED
    BY <2>1 DEF u
<1>3. CASE Establishes(t, h)
  <2>1. PICK p \in DOMAIN t : t[p].do \in {"one", "add", "set"} /\ t[p].r = h
    BY <1>3 DEF Establishes
  <2>2. Len(s) + p \in DOMAIN u /\ ~(Len(s) + p <= Len(s)) /\ Len(s) + p - Len(s) = p
    BY <1>1, <2>1
  <2>3. u[Len(s) + p] = t[p]
    BY <1>1, <2>2
  <2>4. Establishes(u, h)
    BY <2>1, <2>2, <2>3 DEF Establishes
  <2> QED
    BY <2>4 DEF u
<1> QED
  BY <1>2, <1>3

LEMMA NothingAsked ==
  /\ Formed(<<>>) /\ Lacks(<<>>) /\ GateFirst(<<>>, FALSE)
  /\ \A d, S : PolicyPlan(<<>>, d, S)
  /\ \A h, held : Holds(<<>>, h, held)
<1>1. DOMAIN <<>> = {}
  OBVIOUS
<1> QED
  BY <1>1, NothingLeft DEF Lacks, PolicyPlan, Holds, Spares, Before

LEMMA HoldsUntouched ==
  ASSUME NEW s, \A i \in DOMAIN s : s[i].do \notin {"clear", "remove"}
  PROVE  \A h, held : Holds(s, h, held)
BY DEF Holds, Spares, Before

\* How set_device_mode, set_device_bandwidth and set_device_services begin.
LEMMA OpeningIs ==
  ASSUME NEW d \in Devices
  PROVE  /\ Opens(<<Gate, Member(d)>>) /\ Lacks(<<Gate, Member(d)>>)
         /\ \A S : PolicyPlan(<<Gate, Member(d)>>, d, S)
         /\ \A h, held : Holds(<<Gate, Member(d)>>, h, held)
<1> DEFINE a == <<Gate, Member(d)>>
<1>1. /\ DOMAIN a = 1..2 /\ a[1] = Gate /\ a[2] = Member(d) /\ a # <<>> /\ Head(a) = Gate
  OBVIOUS
<1>2. Gate.do = "gate" /\ Member(d).do = "member"
  BY DEF Gate, Member
<1>3. Formed(a)
  <2>1. Named(Gate) /\ Named(Member(d))
    BY CallsNamed
  <2> HIDE DEF a
  <2>2. Formed(<<Gate, Member(d)>>)
    BY <2>1, FormedOfTwo
  <2> QED
    BY <2>2 DEF a
<1> HIDE DEF a
<1>4. \A i \in DOMAIN a : a[i].do \in {"gate", "member"}
  BY <1>1, <1>2
<1>5. Opens(a) /\ Lacks(a)
  BY <1>1, <1>2, <1>3, <1>4 DEF Opens, Lacks
<1>6. \A S : PolicyPlan(a, d, S)
  BY <1>4 DEF PolicyPlan, PolicyKinds, OnEntries
<1>7. \A h, held : Holds(a, h, held)
  BY <1>4, HoldsUntouched
<1> QED
  BY <1>5, <1>6, <1>7 DEF a

LEMMA OneIs ==
  ASSUME NEW c
  PROVE  DOMAIN <<c>> = {1} /\ <<c>>[1] = c
<1>1. DOMAIN <<c>> = 1..1 /\ <<c>>[1] = c
  OBVIOUS
<1>2. 1..1 = {1}
  OBVIOUS
<1> QED
  BY <1>1, <1>2, Zenon

\* The fresh read after the writes.
LEMMA ClosingIs ==
  ASSUME NEW d \in Devices, NEW c, Named(c),
         c.do \in {"expect mode", "expect bandwidth", "expect services"}
  PROVE  /\ Formed(<<c>>) /\ Lacks(<<c>>)
         /\ \A S : PolicyPlan(<<c>>, d, S)
         /\ \A h, held : Holds(<<c>>, h, held)
<1> DEFINE a == <<c>>
<1>1. DOMAIN a = {1} /\ a[1] = c
  BY OneIs, Zenon
<1>3. Formed(a)
  <2> HIDE DEF a
  <2>2. Formed(<<c>>)
    BY FormedOf
  <2> QED
    BY <2>2 DEF a
<1> HIDE DEF a
<1>4. \A i \in DOMAIN a : a[i].do \in {"expect mode", "expect bandwidth", "expect services"}
  <2>1. \A i \in DOMAIN a : a[i] = c
    BY <1>1, Zenon
  <2> QED
    BY <2>1, Zenon
<1>5. Lacks(a)
  BY <1>4 DEF Lacks
<1>6. \A S : PolicyPlan(a, d, S)
  BY <1>4 DEF PolicyPlan, PolicyKinds, OnEntries
<1>7. \A h, held : Holds(a, h, held)
  BY <1>4, HoldsUntouched
<1> QED
  BY <1>3, <1>5, <1>6, <1>7 DEF a

\* What set_device_mode writes to the entries of the device.
LEMMA ModeWritesAre ==
  ASSUME NEW d \in Devices, NEW a, NEW b, NEW c, NEW e,
         {a, b, c, e} \subseteq {One("blocked", d), One("slowq", d), One("slow", d), Clear("blocked", d),
                                 Clear("slow", d), Clear("slowq", d), Clear("bw", d)}
  PROVE  /\ Formed(<<a, b, c>>) /\ Formed(<<a, b, c, e>>)
         /\ Lacks(<<a, b, c>>) /\ Lacks(<<a, b, c, e>>)
         /\ \A S : PolicyPlan(<<a, b, c>>, d, S) /\ PolicyPlan(<<a, b, c, e>>, d, S)
<1> DEFINE W == {One("blocked", d), One("slowq", d), One("slow", d), Clear("blocked", d),
                 Clear("slow", d), Clear("slowq", d), Clear("bw", d)}
<1>1. {"blocked", "slow", "slowq", "bw"} \subseteq Lists /\ {"blocked", "slow", "slowq", "bw"} \subseteq Managed
  BY DEF Lists, Managed, Queues
<1>2. ASSUME NEW x \in W
      PROVE  /\ Named(x) /\ x.do \in {"one", "clear"} /\ x.d = d
             /\ x.r \in {"blocked", "slow"} \cup Queues
  <2>1. Named(x)
    BY <1>1, CallsNamed
  <2>2. PICK r \in {"blocked", "slow", "slowq", "bw"} : x = One(r, d) \/ x = Clear(r, d)
    OBVIOUS
  <2>3. x.do \in {"one", "clear"} /\ x.d = d /\ x.r = r
    BY <2>2 DEF One, Clear
  <2> QED
    BY <2>1, <2>3 DEF Queues
<1>3. a \in W /\ b \in W /\ c \in W /\ e \in W
  OBVIOUS
<1> HIDE DEF W
<1>4. Formed(<<a, b, c>>) /\ Formed(<<a, b, c, e>>)
  BY <1>2, <1>3, FormedOfThree, FormedOfFour
<1> DEFINE s == <<a, b, c>>
<1> DEFINE t == <<a, b, c, e>>
<1>5. (\A i \in DOMAIN s : s[i] \in W) /\ (\A i \in DOMAIN t : t[i] \in W)
  BY <1>3
<1> HIDE DEF s, t
<1>6. Lacks(s) /\ Lacks(t)
  BY <1>2, <1>5 DEF Lacks
<1>7. \A S : PolicyPlan(s, d, S) /\ PolicyPlan(t, d, S)
  <2>1. ASSUME NEW x \in W
        PROVE  /\ x.do \in PolicyKinds /\ x.do # "services"
               /\ x.d = d /\ x.r \in {"blocked", "slow"} \cup Queues
    BY <1>2 DEF PolicyKinds
  <2> QED
    BY <1>5, <2>1 DEF PolicyPlan
<1> QED
  BY <1>4, <1>6, <1>7 DEF s, t

LEMMA ModePlanCases ==
  ASSUME NEW d, NEW m
  PROVE  /\ m = "normal" => ModePlan(d, m) =
              (<<Gate, Member(d)>> \o <<Clear("blocked", d), Clear("slow", d), Clear("slowq", d)>>)
              \o <<[do |-> "expect mode", d |-> d, mode |-> m]>>
         /\ m = "blocked" => ModePlan(d, m) =
              (<<Gate, Member(d)>> \o <<One("blocked", d), Clear("slow", d), Clear("slowq", d), Clear("bw", d)>>)
              \o <<[do |-> "expect mode", d |-> d, mode |-> m]>>
         /\ m = "slow" => ModePlan(d, m) =
              (<<Gate, Member(d)>> \o <<One("slowq", d), One("slow", d), Clear("bw", d), Clear("blocked", d)>>)
              \o <<[do |-> "expect mode", d |-> d, mode |-> m]>>
BY Zenon DEF ModePlan

\* The strict modes establish their limit before they release another.
LEMMA StrictWrites ==
  ASSUME NEW d \in Devices
  PROVE  LET s == <<One("blocked", d), Clear("slow", d), Clear("slowq", d), Clear("bw", d)>>
             t == <<One("slowq", d), One("slow", d), Clear("bw", d), Clear("blocked", d)>>
         IN  /\ Holds(s, "blocked", FALSE) /\ Establishes(s, "blocked")
             /\ Holds(t, "slowq", FALSE) /\ Establishes(t, "slowq")
<1> DEFINE s == <<One("blocked", d), Clear("slow", d), Clear("slowq", d), Clear("bw", d)>>
           t == <<One("slowq", d), One("slow", d), Clear("bw", d), Clear("blocked", d)>>
<1>1. /\ \A r : One(r, d).do = "one" /\ One(r, d).r = r
      /\ \A r : Clear(r, d).do = "clear" /\ Clear(r, d).r = r
  BY DEF One, Clear
<1>2. /\ DOMAIN s = 1..4 /\ s[1] = One("blocked", d) /\ s[2] = Clear("slow", d)
      /\ s[3] = Clear("slowq", d) /\ s[4] = Clear("bw", d)
      /\ DOMAIN t = 1..4 /\ t[1] = One("slowq", d) /\ t[2] = One("slow", d)
      /\ t[3] = Clear("bw", d) /\ t[4] = Clear("blocked", d)
  OBVIOUS
<1> HIDE DEF s, t
<1>3. \A i \in 1..4 : i = 1 \/ i = 2 \/ i = 3 \/ i = 4
  OBVIOUS
<1>4. /\ s[1].do = "one" /\ s[1].r = "blocked"
      /\ \A i \in DOMAIN s : i # 1 => 1 \in 1..(i - 1) /\ s[i].r # "blocked"
      /\ t[1].do = "one" /\ t[1].r = "slowq"
      /\ \A i \in DOMAIN t : i # 1 => 1 \in 1..(i - 1) /\ t[i].r # "slowq"
      /\ 1 \in DOMAIN s /\ 1 \in DOMAIN t
  BY <1>1, <1>2, <1>3
<1>5. Holds(s, "blocked", FALSE) /\ Establishes(s, "blocked")
  BY <1>4 DEF Holds, Spares, Before, Establishes
<1>6. Holds(t, "slowq", FALSE) /\ Establishes(t, "slowq")
  BY <1>4 DEF Holds, Spares, Before, Establishes
<1> QED
  BY <1>5, <1>6 DEF s, t

LEMMA ModePlanIs ==
  ASSUME NEW d \in Devices, NEW m \in Modes
  PROVE  /\ Opens(ModePlan(d, m)) /\ Lacks(ModePlan(d, m))
         /\ \A S : PolicyPlan(ModePlan(d, m), d, S)
         /\ m # "normal" => Holds(ModePlan(d, m), Strict(m), FALSE) /\ Establishes(ModePlan(d, m), Strict(m))
<1> DEFINE a == <<Gate, Member(d)>>
           c == [do |-> "expect mode", d |-> d, mode |-> m]
<1>1. /\ Opens(a) /\ Formed(a) /\ Lacks(a)
      /\ \A S : PolicyPlan(a, d, S)
      /\ \A h, held : Holds(a, h, held)
  BY OpeningIs DEF Opens
<1>2. /\ Formed(<<c>>) /\ Lacks(<<c>>)
      /\ \A S : PolicyPlan(<<c>>, d, S)
      /\ \A h, held : Holds(<<c>>, h, held)
  <2>1. Named(c) /\ c.do \in {"expect mode", "expect bandwidth", "expect services"}
    BY CallsNamed
  <2> HIDE DEF c
  <2> QED
    BY <2>1, ClosingIs
<1>3. ASSUME NEW w, Formed(w), Lacks(w), \A S : PolicyPlan(w, d, S),
             NEW h, m # "normal" => Holds(w, h, FALSE) /\ Establishes(w, h)
      PROVE  /\ Opens((a \o w) \o <<c>>) /\ Lacks((a \o w) \o <<c>>)
             /\ \A S : PolicyPlan((a \o w) \o <<c>>, d, S)
             /\ m # "normal" => Holds((a \o w) \o <<c>>, h, FALSE) /\ Establishes((a \o w) \o <<c>>, h)
  <2> HIDE DEF a, c
  <2>1. Formed(a \o w) /\ Opens(a \o w) /\ Lacks(a \o w)
    BY <1>1, <1>3, FormedJoin, OpensJoin, LacksJoin
  <2>2. Opens((a \o w) \o <<c>>) /\ Lacks((a \o w) \o <<c>>)
    BY <1>2, <2>1, OpensJoin, LacksJoin
  <2>3. ASSUME NEW S
        PROVE  PolicyPlan((a \o w) \o <<c>>, d, S)
    <3>1. PolicyPlan(a \o w, d, S)
      BY <1>1, <1>3, PolicyJoin
    <3> QED
      BY <1>2, <2>1, <3>1, PolicyJoin
  <2>4. ASSUME m # "normal"
        PROVE  Holds((a \o w) \o <<c>>, h, FALSE) /\ Establishes((a \o w) \o <<c>>, h)
    <3>1. Holds(w, h, FALSE \/ Establishes(a, h))
      <4>1. Holds(w, h, FALSE) /\ Holds(a, h, FALSE)
        BY <1>1, <1>3, <2>4
      <4> QED
        BY <4>1 DEF Holds, Before
    <3>2. Holds(a \o w, h, FALSE) /\ Establishes(a \o w, h)
      BY <1>1, <1>3, <2>4, <3>1, HoldsJoin, EstablishesJoin
    <3> QED
      BY <1>2, <2>1, <3>2, HoldsJoin, EstablishesJoin
  <2> QED
    BY <2>2, <2>3, <2>4
<1>4. CASE m = "normal"
  <2> DEFINE w == <<Clear("blocked", d), Clear("slow", d), Clear("slowq", d)>>
  <2>1. Formed(w) /\ Lacks(w) /\ \A S : PolicyPlan(w, d, S)
    BY ModeWritesAre
  <2>2. ModePlan(d, m) = (a \o w) \o <<c>>
    BY <1>4, ModePlanCases
  <2> HIDE DEF a, c, w
  <2> QED
    BY <1>3, <1>4, <2>1, <2>2
<1>5. CASE m = "blocked"
  <2> DEFINE w == <<One("blocked", d), Clear("slow", d), Clear("slowq", d), Clear("bw", d)>>
  <2>1. Formed(w) /\ Lacks(w) /\ \A S : PolicyPlan(w, d, S)
    BY ModeWritesAre
  <2>2. ModePlan(d, m) = (a \o w) \o <<c>>
    BY <1>5, ModePlanCases
  <2>3. Holds(w, "blocked", FALSE) /\ Establishes(w, "blocked") /\ Strict(m) = "blocked"
    BY <1>5, StrictWrites DEF Strict
  <2> HIDE DEF a, c, w
  <2> QED
    BY <1>3, <1>5, <2>1, <2>2, <2>3
<1>6. CASE m = "slow"
  <2> DEFINE w == <<One("slowq", d), One("slow", d), Clear("bw", d), Clear("blocked", d)>>
  <2>1. Formed(w) /\ Lacks(w) /\ \A S : PolicyPlan(w, d, S)
    BY ModeWritesAre
  <2>2. ModePlan(d, m) = (a \o w) \o <<c>>
    BY <1>6, ModePlanCases
  <2>3. Holds(w, "slowq", FALSE) /\ Establishes(w, "slowq") /\ Strict(m) = "slowq"
    BY <1>6, StrictWrites DEF Strict
  <2> HIDE DEF a, c, w
  <2> QED
    BY <1>3, <1>6, <2>1, <2>2, <2>3
<1> QED
  BY <1>4, <1>5, <1>6 DEF Modes

LEMMA FourAre ==
  ASSUME NEW a, NEW b, NEW c, NEW e
  PROVE  /\ <<a, b, c, e>> # <<>> /\ Head(<<a, b, c, e>>) = a
         /\ \A i \in DOMAIN <<a, b, c, e>> : <<a, b, c, e>>[i] \in {a, b, c, e}
OBVIOUS

LEMMA BandwidthPlanIs ==
  ASSUME NEW d \in Devices, NEW limited \in BOOLEAN
  PROVE  /\ Opens(BandwidthPlan(d, limited)) /\ Lacks(BandwidthPlan(d, limited))
         /\ \A S : PolicyPlan(BandwidthPlan(d, limited), d, S)
         /\ ~limited => \A h \in {"blocked", "slowq"} : Holds(BandwidthPlan(d, limited), h, TRUE)
<1> DEFINE c == IF limited THEN One("bw", d) ELSE Clear("bw", d)
           e == [do |-> "expect bandwidth", d |-> d, limited |-> limited]
           s == <<Gate, Member(d), c, e>>
<1>1. Named(Gate) /\ Named(Member(d)) /\ Named(c) /\ Named(e)
  <2>1. "bw" \in Lists /\ "bw" \in Managed
    BY DEF Lists, Managed, Queues
  <2> QED
    BY <2>1, CallsNamed
<1>2. /\ Gate.do = "gate" /\ Member(d).do = "member" /\ e.do = "expect bandwidth"
      /\ c.do \in {"one", "clear"} /\ c.d = d /\ c.r = "bw"
  BY DEF Gate, Member, One, Clear
<1>3. BandwidthPlan(d, limited) = s
  BY Zenon DEF BandwidthPlan
<1> HIDE DEF c, e
<1>4. Formed(s)
  BY <1>1, FormedOfFour
<1>5. s # <<>> /\ Head(s) = Gate /\ \A i \in DOMAIN s : s[i] \in {Gate, Member(d), c, e}
  BY FourAre
<1> HIDE DEF s
<1>6. Opens(s) /\ Lacks(s)
  BY <1>2, <1>4, <1>5 DEF Opens, Lacks
<1>7. \A S : PolicyPlan(s, d, S)
  BY <1>2, <1>5 DEF PolicyPlan, PolicyKinds, OnEntries, Queues
<1>8. \A h \in {"blocked", "slowq"} : Holds(s, h, TRUE)
  BY <1>2, <1>5 DEF Holds, Spares, Before
<1> QED
  BY <1>3, <1>6, <1>7, <1>8

LEMMA ServicesPlanIs ==
  ASSUME NEW d \in Devices, NEW S \in SUBSET Keys
  PROVE  /\ Opens(ServicesPlan(d, S)) /\ Lacks(ServicesPlan(d, S))
         /\ PolicyPlan(ServicesPlan(d, S), d, S)
         /\ \A h, held : Holds(ServicesPlan(d, S), h, held)
<1> DEFINE c == [do |-> "services", d |-> d, S |-> S]
           e == [do |-> "expect services", d |-> d, S |-> S]
           s == <<Gate, Member(d), c, e>>
<1>1. Named(Gate) /\ Named(Member(d)) /\ Named(c) /\ Named(e)
  BY CallsNamed
<1>2. /\ Gate.do = "gate" /\ Member(d).do = "member" /\ e.do = "expect services"
      /\ c.do = "services" /\ c.d = d /\ c.S = S
  BY DEF Gate, Member
<1>3. ServicesPlan(d, S) = s
  BY Zenon DEF ServicesPlan
<1> HIDE DEF c, e
<1>4. Formed(s)
  BY <1>1, FormedOfFour
<1>5. s # <<>> /\ Head(s) = Gate /\ \A i \in DOMAIN s : s[i] \in {Gate, Member(d), c, e}
  BY FourAre
<1> HIDE DEF s
<1>6. Opens(s) /\ Lacks(s)
  BY <1>2, <1>4, <1>5 DEF Opens, Lacks
<1>7. PolicyPlan(s, d, S)
  BY <1>2, <1>5 DEF PolicyPlan, PolicyKinds, OnEntries
<1>8. \A h, held : Holds(s, h, held)
  <2>1. \A i \in DOMAIN s : s[i].do \notin {"clear", "remove"}
    BY <1>2, <1>5
  <2> QED
    BY <2>1, HoldsUntouched
<1> QED
  BY <1>3, <1>6, <1>7, <1>8

LEMMA LiveModeCases ==
  ASSUME NEW d, LiveMode(d) # "normal"
  PROVE  /\ LiveMode(d) = "blocked" => n["blocked"][d] = 1
         /\ LiveMode(d) = "slow" => n["slowq"][d] = 1 /\ On("slowq", d)
<1>1. LiveMode(d) = "blocked" => n["blocked"][d] = 1
  BY Zenon DEF LiveMode
<1>2. LiveMode(d) = "slow" => n["slowq"][d] = 1 /\ On("slowq", d)
  BY Zenon DEF LiveMode
<1> QED
  BY <1>1, <1>2

LEMMA SetDeviceModeKeeps ==
  ASSUME IInv, NEW d \in Devices, NEW m \in Modes, SetDeviceMode(d, m)
  PROVE  IInv'
<1> DEFINE s == ModePlan(d, m)
<1>1. /\ Opens(s) /\ Lacks(s) /\ PolicyPlan(s, d, {})
      /\ m # "normal" => Holds(s, Strict(m), FALSE)
  BY ModePlanIs
<1>2. Begin("device", d, m, {}, s) /\ wanted' = wanted
  BY DEF SetDeviceMode
<1>3. DOMAIN wanted' \subseteq Groups
  BY <1>2 DEF IInv, TypeOK
<1> HIDE DEF s
<1>4. Formed(s) /\ NoAdds(s) /\ GateFirst(s, FALSE) /\ Releases(s, {}, d, n)
  BY <1>1, OpensIs, LacksIs
<1>5. m # "normal" => Holds(s, Strict(m), Held(n, disabled, Strict(m), d))
  BY <1>1 DEF Holds, Before
<1>6. {} \subseteq Enforceable
  OBVIOUS
<1> QED
  BY <1>1, <1>2, <1>3, <1>4, <1>5, <1>6, BeginKeeps

LEMMA ApplyPolicyKeeps ==
  ASSUME IInv, NEW d \in Devices, NEW m \in Modes, NEW preset \in BOOLEAN, NEW other \in BOOLEAN,
         NEW S \in SUBSET Enforceable, ApplyPolicy(d, m, preset, S, other)
  PROVE  IInv'
<1> DEFINE limited == BandwidthExpected(m, preset)
           s == IF LiveMode(d) # m THEN ModePlan(d, m) ELSE <<>>
           t == IF BandwidthDrift(d, limited, other) THEN BandwidthPlan(d, limited) ELSE <<>>
           u == IF ServiceDrift(d, S) THEN ServicesPlan(d, S) ELSE <<>>
           h == Strict(m)
           held == Held(n, disabled, h, d)
<1>1. Begin("policy", d, m, S, (s \o t) \o u) /\ wanted' = wanted
  BY DEF ApplyPolicy
<1>2. DOMAIN wanted' \subseteq Groups /\ S \subseteq Keys
  BY <1>1, EnforceableKeys DEF IInv, TypeOK
<1>3. limited \in BOOLEAN /\ (m # "normal" => ~limited) /\ h \in {"blocked", "slowq"}
  BY DEF BandwidthExpected, Strict
<1>4. m # "normal" /\ LiveMode(d) = m => held
  <2>1. m = "blocked" /\ LiveMode(d) = m => held
    <3>1. m = "blocked" /\ LiveMode(d) = m => n["blocked"][d] = 1
      BY LiveModeCases
    <3>2. <<"blocked", d>> \notin disabled
      BY TypeIs DEF IInv, Queues
    <3> QED
      BY <3>1, <3>2 DEF Held, Strict
  <2>2. m = "slow" /\ LiveMode(d) = m => held
    <3>1. m = "slow" /\ LiveMode(d) = m => n["slowq"][d] = 1 /\ On("slowq", d)
      BY LiveModeCases
    <3> QED
      BY <3>1 DEF Held, Strict, On
  <2> QED
    BY <2>1, <2>2 DEF Modes
<1> HIDE DEF limited, h, held
<1>5. /\ Formed(s) /\ Lacks(s) /\ GateFirst(s, FALSE) /\ PolicyPlan(s, d, S)
      /\ m # "normal" => Holds(s, h, held) /\ (held \/ Establishes(s, h))
  <2>1. CASE LiveMode(d) # m
    <3>1. /\ Opens(s) /\ Lacks(s) /\ PolicyPlan(s, d, S)
          /\ m # "normal" => Holds(s, h, FALSE) /\ Establishes(s, h)
      BY <2>1, ModePlanIs DEF h
    <3> HIDE DEF s
    <3>2. m # "normal" => Holds(s, h, held)
      BY <3>1 DEF Holds, Before
    <3> QED
      BY <3>1, <3>2, OpensIs
  <2>2. CASE LiveMode(d) = m
    BY <1>4, <2>2, NothingAsked
  <2> QED
    BY <2>1, <2>2
<1>6. /\ Formed(t) /\ Lacks(t) /\ GateFirst(t, FALSE) /\ PolicyPlan(t, d, S)
      /\ m # "normal" => Holds(t, h, TRUE)
  <2>1. /\ Opens(BandwidthPlan(d, limited)) /\ Lacks(BandwidthPlan(d, limited))
        /\ PolicyPlan(BandwidthPlan(d, limited), d, S)
        /\ m # "normal" => Holds(BandwidthPlan(d, limited), h, TRUE)
    BY <1>3, BandwidthPlanIs
  <2>2. Formed(BandwidthPlan(d, limited)) /\ GateFirst(BandwidthPlan(d, limited), FALSE)
    BY <2>1, OpensIs
  <2> QED
    BY <2>1, <2>2, NothingAsked
<1>7. /\ Formed(u) /\ Lacks(u) /\ GateFirst(u, FALSE) /\ PolicyPlan(u, d, S)
      /\ Holds(u, h, TRUE)
  <2>1. /\ Opens(ServicesPlan(d, S)) /\ Lacks(ServicesPlan(d, S))
        /\ PolicyPlan(ServicesPlan(d, S), d, S) /\ Holds(ServicesPlan(d, S), h, TRUE)
    BY <1>2, ServicesPlanIs
  <2>2. Formed(ServicesPlan(d, S)) /\ GateFirst(ServicesPlan(d, S), FALSE)
    BY <2>1, OpensIs
  <2> QED
    BY <2>1, <2>2, NothingAsked
<1> HIDE DEF s, t, u
<1>8. Formed(s \o t) /\ Lacks(s \o t) /\ GateFirst(s \o t, FALSE) /\ PolicyPlan(s \o t, d, S)
  BY <1>5, <1>6, FormedJoin, LacksJoin, GateFirstBoth, PolicyJoin
<1>9. /\ Formed((s \o t) \o u) /\ Lacks((s \o t) \o u) /\ GateFirst((s \o t) \o u, FALSE)
      /\ PolicyPlan((s \o t) \o u, d, S)
  BY <1>7, <1>8, FormedJoin, LacksJoin, GateFirstBoth, PolicyJoin
<1>10. ASSUME m # "normal"
       PROVE  Holds((s \o t) \o u, h, held)
  <2>1. Holds(t, h, held \/ Establishes(s, h))
    BY <1>5, <1>6, <1>10 DEF Holds, Before
  <2>2. Holds(s \o t, h, held)
    BY <1>5, <1>6, <1>10, <2>1, HoldsJoin
  <2>3. held \/ Establishes(s \o t, h)
    BY <1>5, <1>6, <1>10, EstablishesJoin
  <2>4. Holds(u, h, held \/ Establishes(s \o t, h))
    BY <1>7, <2>3 DEF Holds, Before
  <2> QED
    BY <1>7, <1>8, <2>2, <2>4, HoldsJoin
<1>11. NoAdds((s \o t) \o u) /\ Releases((s \o t) \o u, S, d, n)
  BY <1>9, LacksIs
<1>12. S \subseteq Enforceable
  OBVIOUS
<1> DEFINE w == (s \o t) \o u
<1>13. m # "normal" => Holds(w, Strict(m), Held(n, disabled, Strict(m), d))
  BY <1>10 DEF h, held
<1> HIDE DEF w
<1> QED
  BY <1>1, <1>2, <1>9, <1>11, <1>12, <1>13, BeginKeeps DEF w

LEMMA QuietBegins ==
  ASSUME IInv, NEW do, NEW on, NEW mode, NEW S, NEW plan, Begin(do, on, mode, S, plan),
         DOMAIN wanted' \subseteq Groups, Quiet(plan), do \notin {"device", "policy", "temporary"}
  PROVE  IInv'
<1>1. Formed(plan) /\ NoAdds(plan) /\ GateFirst(plan, FALSE)
  BY QuietNoAdds, GateFirstQuiet DEF Quiet
<1> QED
  BY <1>1, BeginKeeps

LEMMA WantedType ==
  ASSUME IInv, wanted' = wanted
  PROVE  DOMAIN wanted' \subseteq Groups
BY DEF IInv, TypeOK

LEMMA QuietOne ==
  ASSUME NEW c, Named(c), c.do \notin Gated \cup {"set"}
  PROVE  Quiet(<<c>>)
<1> DEFINE s == <<c>>
<1>1. Formed(s)
  BY FormedOf
<1>2. \A i \in DOMAIN s : s[i] = c
  BY OneIs, Zenon
<1> HIDE DEF s
<1>3. Quiet(s)
  BY <1>1, <1>2, Zenon DEF Quiet
<1> QED
  BY <1>3 DEF s

LEMMA SetModeKeeps ==
  ASSUME IInv, NEW m \in Modes, SetMode(m)
  PROVE  IInv'
<1> DEFINE c == [do |-> "disarm"]
           s == <<c>> \o GlobalPlan(m)
<1>1. Named(c) /\ c.do \notin Gated \cup {"set"}
  BY CallsNamed DEF Gated
<1>2. Begin("mode", "global", m, {}, s) /\ wanted' = wanted
  BY DEF SetMode
<1> HIDE DEF c
<1>3. Quiet(s)
  BY <1>1, QuietOne, GlobalPlanIs, QuietJoin
<1> HIDE DEF s
<1> QED
  BY <1>2, <1>3, WantedType, QuietBegins

LEMMA ArmingIs ==
  ASSUME NEW m \in Modes
  PROVE  LET a == <<Gate, [do |-> "disarm"], [do |-> "arm", mode |-> m]>>
         IN  Quiet(a) /\ Len(a) = 3
<1> DEFINE c == [do |-> "disarm"]
           e == [do |-> "arm", mode |-> m]
           a == <<Gate, c, e>>
<1>1. Named(Gate) /\ Named(c) /\ Named(e)
  BY CallsNamed
<1>2. Gate.do = "gate" /\ c.do = "disarm" /\ e.do = "arm"
  BY DEF Gate
<1> HIDE DEF c, e
<1>3. Formed(a) /\ Len(a) = 3
  BY <1>1, FormedOfThree
<1>4. \A i \in DOMAIN a : a[i] \in {Gate, c, e}
  OBVIOUS
<1> HIDE DEF a
<1>5. Quiet(a)
  BY <1>2, <1>3, <1>4 DEF Quiet, Gated
<1> QED
  BY <1>3, <1>5 DEF a, c, e

LEMMA TemporaryPlanIs ==
  ASSUME NEW m \in Modes
  PROVE  Quiet(TemporaryPlan(m)) /\ Len(TemporaryPlan(m)) = 6
<1> DEFINE a == <<Gate, [do |-> "disarm"], [do |-> "arm", mode |-> m]>>
           b == GlobalPlan("normal")
<1>1. Quiet(a) /\ Len(a) = 3
  BY ArmingIs
<1>2. Quiet(b) /\ Len(b) = 3
  BY GlobalPlanIs DEF Modes
<1>3. TemporaryPlan(m) = a \o b
  BY Zenon DEF TemporaryPlan
<1> HIDE DEF a, b
<1>4. Len(a \o b) = Len(a) + Len(b)
  BY <1>1, <1>2, JoinFormed DEF Quiet
<1>5. Quiet(a \o b)
  BY <1>1, <1>2, QuietJoin
<1> QED
  BY <1>1, <1>2, <1>3, <1>4, <1>5

LEMMA SetTemporaryKeeps ==
  ASSUME IInv, SetTemporary
  PROVE  IInv'
<1> DEFINE s == TemporaryPlan(gmode)
<1>1. gmode \in Modes /\ Begin("temporary", "global", gmode, {}, s) /\ wanted' = wanted
  BY DEF SetTemporary
<1>2. Quiet(s) /\ Len(s) = 6
  BY <1>1, TemporaryPlanIs
<1>3. Formed(s) /\ NoAdds(s) /\ GateFirst(s, FALSE)
  BY <1>2, QuietNoAdds, GateFirstQuiet DEF Quiet
<1>4. gmode \in Modes /\ s = TemporaryPlan(gmode) /\ Len(s) = 6
  BY <1>1, <1>2
<1> HIDE DEF s
<1> QED
  BY <1>1, <1>3, <1>4, WantedType, BeginKeeps

LEMMA AddScheduleKeeps ==
  ASSUME IInv, NEW g \in Groups, NEW m \in Modes, NEW days \in SUBSET Days, AddSchedule(g, m, days)
  PROVE  IInv'
<1> DEFINE o == Ordered(days)
           s == [i \in DOMAIN o |-> [do |-> "sched", entry |-> <<g, o[i], m>>]]
           c == Cardinality(days)
<1>1. Begin("schedule", g, m, {}, <<Gate>> \o s)
  BY DEF AddSchedule, SchedulePlan
<1>2. DOMAIN wanted' \subseteq Groups
  <2>1. DOMAIN wanted' = DOMAIN wanted \cup {g}
    BY DEF AddSchedule
  <2> QED
    BY <2>1 DEF IInv, TypeOK
<1>3. IsFiniteSet(days)
  BY FiniteAssumption, FS_Subset
<1>4. c \in Nat /\ DOMAIN o = 1..c /\ o \in [1..c -> days]
  BY <1>3, OrderedIs
<1>5. Named(Gate) /\ \A e \in Groups \X Days \X Modes : Named([do |-> "sched", entry |-> e])
  BY CallsNamed
<1> HIDE DEF o, c
<1>6. /\ DOMAIN s = 1..c /\ s = [i \in 1..c |-> s[i]]
      /\ \A i \in 1..c : s[i] = [do |-> "sched", entry |-> <<g, o[i], m>>]
  BY <1>4
<1>7. \A i \in 1..c : <<g, o[i], m>> \in Groups \X Days \X Modes
  BY <1>4
<1>8. \A i \in 1..c : Named(s[i]) /\ s[i].do = "sched"
  BY <1>5, <1>6, <1>7
<1> HIDE DEF s
<1>9. Formed(s)
  BY <1>4, <1>6, <1>8, ListFormed
<1>10. Quiet(s)
  BY <1>6, <1>8, <1>9 DEF Quiet, Gated
<1>11. Quiet(<<Gate>>)
  BY <1>5, QuietOne DEF Gate, Gated
<1>12. Quiet(<<Gate>> \o s)
  BY <1>10, <1>11, QuietJoin
<1> QED
  BY <1>1, <1>2, <1>12, QuietBegins

LEMMA SingleCallKeeps ==
  ASSUME IInv, (\E g \in DOMAIN wanted : RemoveSchedule(g)) \/ (\E b \in BOOLEAN : SetWebPolicy(b)) \/ Cleanup
  PROVE  IInv'
<1>1. ASSUME NEW c, Named(c), c.do \notin Gated \cup {"set"}, NEW do \in {"unschedule", "web", "cleanup"},
             NEW on, Begin(do, on, "none", {}, <<c>>), wanted' = wanted
      PROVE  IInv'
  <2>1. Quiet(<<c>>)
    BY <1>1, QuietOne
  <2>2. do \notin {"device", "policy", "temporary"}
    OBVIOUS
  <2> QED
    BY <1>1, <2>1, <2>2, WantedType, QuietBegins
<1>2. ASSUME NEW g \in DOMAIN wanted, RemoveSchedule(g)
      PROVE  IInv'
  <2> DEFINE c == [do |-> "unschedule", g |-> g]
  <2>1. Named(c) /\ c.do \notin Gated \cup {"set"}
    BY CallsNamed DEF Gated
  <2>2. Begin("unschedule", g, "none", {}, <<c>>) /\ wanted' = wanted
    BY <1>2 DEF RemoveSchedule
  <2> HIDE DEF c
  <2> QED
    BY <1>1, <2>1, <2>2
<1>3. ASSUME NEW b \in BOOLEAN, SetWebPolicy(b)
      PROVE  IInv'
  <2> DEFINE c == [do |-> "web", on |-> b]
  <2>1. Named(c) /\ c.do \notin Gated \cup {"set"}
    BY CallsNamed DEF Gated
  <2>2. Begin("web", "web", "none", {}, <<c>>) /\ wanted' = wanted
    BY <1>3 DEF SetWebPolicy
  <2> HIDE DEF c
  <2> QED
    BY <1>1, <2>1, <2>2
<1>4. ASSUME Cleanup
      PROVE  IInv'
  <2> DEFINE c == [do |-> "stale lists"]
  <2>1. Named(c) /\ c.do \notin Gated \cup {"set"}
    BY CallsNamed DEF Gated
  <2>2. Begin("cleanup", "router", "none", {}, <<c>>) /\ wanted' = wanted
    BY <1>4 DEF Cleanup
  <2> HIDE DEF c
  <2> QED
    BY <1>1, <2>1, <2>2
<1> QED
  BY <1>2, <1>3, <1>4

LEMMA ThreeAre ==
  ASSUME NEW a, NEW b, NEW c
  PROVE  /\ <<a, b, c>> # <<>> /\ Head(<<a, b, c>>) = a
         /\ \A i \in DOMAIN <<a, b, c>> : <<a, b, c>>[i] \in {a, b, c}
OBVIOUS

LEMMA MembershipKeeps ==
  ASSUME IInv, NEW d \in Devices, AddDevice(d) \/ RemoveDevice(d)
  PROVE  IInv'
<1>1. ASSUME NEW b, Named(b), b.do \in {"ensure", "leave"}, NEW c, Named(c), c.do = "again",
             NEW do \in {"manage", "unmanage"}, Begin(do, d, "none", {}, <<Gate, b, c>>), wanted' = wanted
      PROVE  IInv'
  <2> DEFINE s == <<Gate, b, c>>
  <2>1. Named(Gate) /\ Gate.do = "gate"
    BY CallsNamed DEF Gate
  <2>2. Formed(s)
    BY <1>1, <2>1, FormedOfThree
  <2>3. s # <<>> /\ Head(s) = Gate /\ \A i \in DOMAIN s : s[i] \in {Gate, b, c}
    BY ThreeAre
  <2> HIDE DEF s
  <2>4. Opens(s) /\ Lacks(s)
    BY <1>1, <2>1, <2>2, <2>3, Zenon DEF Opens, Lacks
  <2>5. Formed(s) /\ NoAdds(s) /\ GateFirst(s, FALSE)
    BY <2>4, OpensIs
  <2>6. Begin(do, d, "none", {}, s)
    BY <1>1 DEF s
  <2>7. do \notin {"device", "policy"} /\ do # "temporary"
    OBVIOUS
  <2> QED
    BY <1>1, <2>5, <2>6, <2>7, WantedType, BeginKeeps
<1>2. CASE AddDevice(d)
  <2> DEFINE b == [do |-> "ensure", d |-> d]
             c == [do |-> "again", modes |-> {"slow", "blocked"}]
  <2>1. Named(b) /\ Named(c) /\ b.do = "ensure" /\ c.do = "again"
    <3>1. {"slow", "blocked"} \in SUBSET Modes
      BY DEF Modes
    <3> QED
      BY <3>1, CallsNamed
  <2>2. Begin("manage", d, "none", {}, <<Gate, b, c>>) /\ wanted' = wanted
    BY <1>2 DEF AddDevice
  <2> HIDE DEF b, c
  <2> QED
    BY <1>1, <2>1, <2>2
<1>3. CASE RemoveDevice(d)
  <2> DEFINE b == [do |-> "leave", d |-> d]
             c == [do |-> "again", modes |-> {"slow"}]
  <2>1. Named(b) /\ Named(c) /\ b.do = "leave" /\ c.do = "again"
    <3>1. {"slow"} \in SUBSET Modes
      BY DEF Modes
    <3> QED
      BY <3>1, CallsNamed
  <2>2. Begin("unmanage", d, "none", {}, <<Gate, b, c>>) /\ wanted' = wanted
    BY <1>3 DEF RemoveDevice
  <2> HIDE DEF b, c
  <2> QED
    BY <1>1, <2>1, <2>2
<1> QED
  BY <1>2, <1>3

\* The contracts of a custom service.
LEMMA ContractPlansAre ==
  ASSUME NEW k \in Customs
  PROVE  Quiet(ProvisionPlan(k)) /\ Quiet(RemovePlan(k))
<1> DEFINE N == {"gate", "absent?", "healthy?", "install", "uninstall", "expect contract", "approve",
                 "release", "forget"}
<1>1. ASSUME NEW m \in Nat, NEW s, DOMAIN s = 1..m, s = [i \in 1..m |-> s[i]],
             \A i \in 1..m : Named(s[i]) /\ s[i].do \in N
      PROVE  Quiet(s)
  <2>1. Formed(s)
    BY <1>1, ListFormed
  <2> QED
    BY <1>1, <2>1 DEF Quiet, Gated
<1>2. /\ Named(Gate) /\ Gate.do \in N
      /\ \A r \in {"learn", "block"} : /\ Named(Install(k, r)) /\ Install(k, r).do \in N
                                       /\ Named(Uninstall(k, r)) /\ Uninstall(k, r).do \in N
      /\ Named(Approve(k, TRUE)) /\ Approve(k, TRUE).do \in N
      /\ Named(Forget(k)) /\ Forget(k).do \in N
  BY CallsNamed DEF Contract, Gate, Install, Uninstall, Approve, Forget
<1>3. \A i \in 1..7 : i = 1 \/ i = 2 \/ i = 3 \/ i = 4 \/ i = 5 \/ i = 6 \/ i = 7
  OBVIOUS
<1>4. Quiet(ProvisionPlan(k))
  <2> DEFINE a == [do |-> "absent?", k |-> k]
             e == [do |-> "expect contract", k |-> k, is |-> "healthy"]
             s == <<Gate, a, Install(k, "learn"), Install(k, "block"), e, Approve(k, TRUE)>>
  <2>1. Named(a) /\ a.do \in N /\ Named(e) /\ e.do \in N
    BY CallsNamed
  <2>2. ProvisionPlan(k) = s
    BY Zenon DEF ProvisionPlan
  <2> HIDE DEF a, e
  <2>3. /\ DOMAIN s = 1..6 /\ s = [i \in 1..6 |-> s[i]]
        /\ s[1] = Gate /\ s[2] = a /\ s[3] = Install(k, "learn") /\ s[4] = Install(k, "block")
        /\ s[5] = e /\ s[6] = Approve(k, TRUE)
    OBVIOUS
  <2> HIDE DEF s, N
  <2>4. \A i \in 1..6 : i = 1 \/ i = 2 \/ i = 3 \/ i = 4 \/ i = 5 \/ i = 6
    OBVIOUS
  <2>5. \A i \in 1..6 : Named(s[i]) /\ s[i].do \in N
    BY <1>2, <2>1, <2>3, <2>4, Zenon
  <2>6. 6 \in Nat
    OBVIOUS
  <2>7. Quiet(s)
    BY <1>1, <2>3, <2>5, <2>6
  <2> QED
    BY <2>2, <2>7
<1>5. Quiet(RemovePlan(k))
  <2> DEFINE a == [do |-> "healthy?", k |-> k]
             b == [do |-> "release", k |-> k]
             e == [do |-> "expect contract", k |-> k, is |-> "absent"]
             s == <<Gate, a, Uninstall(k, "block"), Uninstall(k, "learn"), b, Forget(k), e>>
  <2>1. Named(a) /\ a.do \in N /\ Named(b) /\ b.do \in N /\ Named(e) /\ e.do \in N
    BY CallsNamed
  <2>2. RemovePlan(k) = s
    BY Zenon DEF RemovePlan
  <2> HIDE DEF a, b, e
  <2>3. /\ DOMAIN s = 1..7 /\ s = [i \in 1..7 |-> s[i]]
        /\ s[1] = Gate /\ s[2] = a /\ s[3] = Uninstall(k, "block") /\ s[4] = Uninstall(k, "learn")
        /\ s[5] = b /\ s[6] = Forget(k) /\ s[7] = e
    OBVIOUS
  <2> HIDE DEF s, N
  <2>5. \A i \in 1..7 : Named(s[i]) /\ s[i].do \in N
    BY <1>2, <1>3, <2>1, <2>3, Zenon
  <2>6. 7 \in Nat
    OBVIOUS
  <2>7. Quiet(s)
    BY <1>1, <2>3, <2>5, <2>6
  <2> QED
    BY <2>2, <2>7
<1> QED
  BY <1>4, <1>5

LEMMA ContractKeeps ==
  ASSUME IInv, NEW k \in Customs, Provision(k) \/ Unprovision(k)
  PROVE  IInv'
<1>1. Quiet(ProvisionPlan(k)) /\ Quiet(RemovePlan(k))
  BY ContractPlansAre
<1>2. Quiet(<<Approve(k, FALSE)>>)
  <2>1. Named(Approve(k, FALSE)) /\ Approve(k, FALSE).do \notin Gated \cup {"set"}
    BY CallsNamed DEF Approve, Gated
  <2> QED
    BY <2>1, QuietOne
<1>3. Quiet(RemovePlan(k) \o <<Approve(k, FALSE)>>)
  BY <1>1, <1>2, QuietJoin
<1>4. CASE Provision(k)
  <2>1. Begin("provision", k, "none", {}, ProvisionPlan(k)) /\ wanted' = wanted
    BY <1>4 DEF Provision
  <2> QED
    BY <1>1, <2>1, WantedType, QuietBegins
<1>5. CASE Unprovision(k)
  <2>1. Begin("unprovision", k, "none", {}, RemovePlan(k) \o <<Approve(k, FALSE)>>) /\ wanted' = wanted
    BY <1>5 DEF Unprovision
  <2> QED
    BY <1>3, <2>1, WantedType, QuietBegins
<1> QED
  BY <1>4, <1>5

LEMMA RequestKeeps ==
  ASSUME IInv, Request
  PROVE  IInv'
<1>1. ASSUME NEW d \in Devices, NEW m \in Modes, SetDeviceMode(d, m)
      PROVE  IInv'
  BY <1>1, SetDeviceModeKeeps
<1>2. ASSUME NEW d \in Devices, NEW m \in Modes, NEW preset \in BOOLEAN, NEW other \in BOOLEAN,
             NEW S \in SUBSET Enforceable, ApplyPolicy(d, m, preset, S, other)
      PROVE  IInv'
  BY <1>2, ApplyPolicyKeeps
<1>3. ASSUME NEW m \in Modes, SetMode(m)
      PROVE  IInv'
  BY <1>3, SetModeKeeps
<1>4. ASSUME NEW g \in Groups, NEW m \in Modes, NEW days \in SUBSET Days \ {{}}, AddSchedule(g, m, days)
      PROVE  IInv'
  BY <1>4, AddScheduleKeeps
<1> QED
  BY <1>1, <1>2, <1>3, <1>4, SetTemporaryKeeps, SingleCallKeeps, MembershipKeeps, ContractKeeps
  DEF Request

-----------------------------------------------------------------------------
(* The calls of the request, and giving up.                                *)

LEMMA UndoQuiet ==
  ASSUME NEW c, Named(c)
  PROVE  Quiet(Undo(c))
<1>1. Quiet(<<>>)
  <2>1. DOMAIN <<>> = {}
    OBVIOUS
  <2> QED
    BY <2>1, NothingFormed DEF Quiet
<1>2. c.do \in {"install", "expect contract", "approve"} => c.k \in Customs
  BY Zenon DEF Named, OnContracts
<1>3. CASE c.do = "install"
  <2> DEFINE k == c.k
             u == Uninstall(k, "learn")
             f == Forget(k)
  <2>1. k \in Customs
    BY <1>2, <1>3
  <2>2. /\ Named(u) /\ u.do \notin Gated \cup {"set"} /\ Named(f) /\ f.do \notin Gated \cup {"set"}
    BY <2>1, CallsNamed DEF Contract, Uninstall, Forget, Gated
  <2>3. Undo(c) = (IF c.r = "block" THEN <<u>> ELSE <<>>) \o <<f>>
    BY <1>3, UndoCases
  <2> HIDE DEF u, f
  <2>4. Quiet(<<u>>) /\ Quiet(<<f>>)
    BY <2>2, QuietOne
  <2>5. Quiet(IF c.r = "block" THEN <<u>> ELSE <<>>)
    BY <1>1, <2>4
  <2> QED
    BY <2>3, <2>4, <2>5, QuietJoin
<1>4. CASE c.do = "sched"
  <2> DEFINE u == [do |-> "unschedule", g |-> c.entry[1]]
  <2>1. Named(u) /\ u.do \notin Gated \cup {"set"}
    BY CallsNamed DEF Gated
  <2>2. Undo(c) = <<u>>
    BY <1>4, UndoCases
  <2> HIDE DEF u
  <2> QED
    BY <2>1, <2>2, QuietOne
<1>5. CASE c.do = "expect contract" /\ job.do = "provision"
  <2> DEFINE k == c.k
             u == [do |-> "purge", k |-> k]
             f == Forget(k)
  <2>1. k \in Customs
    BY <1>2, <1>5
  <2>2. Named(u) /\ u.do = "purge" /\ Named(f) /\ f.do = "forget"
    BY <2>1, CallsNamed DEF Forget
  <2>3. Undo(c) = <<u, f>>
    BY <1>5, UndoCases
  <2> HIDE DEF u, f
  <2>4. Formed(<<u, f>>)
    BY <2>2, FormedOfTwo
  <2> DEFINE s == <<u, f>>
  <2>5. \A i \in DOMAIN s : s[i] \in {u, f}
    OBVIOUS
  <2> HIDE DEF s
  <2>6. Quiet(s)
    BY <2>2, <2>4, <2>5 DEF Quiet, Gated, s
  <2> QED
    BY <2>3, <2>6 DEF s
<1>6. CASE c.do = "approve" /\ c.ok
  <2>1. c.k \in Customs
    BY <1>2, <1>6
  <2>2. Undo(c) = RemovePlan(c.k)
    BY <1>6, UndoCases
  <2> QED
    BY <2>1, <2>2, ContractPlansAre
<1>7. CASE c.do \in {"script", "expect global"} /\ job.do = "temporary"
  <2> DEFINE u == [do |-> "disarm"]
  <2>1. Named(u) /\ u.do \notin Gated \cup {"set"}
    BY CallsNamed DEF Gated
  <2>2. Undo(c) = <<u>>
    BY <1>7, UndoCases
  <2> HIDE DEF u
  <2> QED
    BY <2>1, <2>2, QuietOne
<1>8. CASE /\ c.do # "install" /\ c.do # "sched"
           /\ ~(c.do = "expect contract" /\ job.do = "provision")
           /\ ~(c.do = "approve" /\ c.ok)
           /\ ~(c.do \in {"script", "expect global"} /\ job.do = "temporary")
  <2>1. Undo(c) = <<>>
    BY <1>8, UndoNothing, Zenon
  <2> QED
    BY <1>1, <2>1
<1> QED
  BY <1>3, <1>4, <1>5, <1>6, <1>7, <1>8, Zenon

\* The calls of set_temporary_normal.
LEMMA TemporaryCalls ==
  ASSUME NEW m \in Modes
  PROVE  LET s == TemporaryPlan(m)
         IN  /\ s[1].do = "gate" /\ s[2].do = "disarm" /\ s[3] = [do |-> "arm", mode |-> m]
             /\ s[4].do = "gate" /\ s[5].do = "script" /\ s[6].do = "expect global"
<1> DEFINE a == <<Gate, [do |-> "disarm"], [do |-> "arm", mode |-> m]>>
           b == GlobalPlan("normal")
           u == a \o b
<1>1. TemporaryPlan(m) = u
  BY Zenon DEF TemporaryPlan
<1>2. Quiet(a) /\ Len(a) = 3 /\ Quiet(b) /\ Len(b) = 3
  <2>1. Quiet(a) /\ Len(a) = 3
    BY ArmingIs
  <2>2. Quiet(b) /\ Len(b) = 3
    BY GlobalPlanIs DEF Modes
  <2> QED
    BY <2>1, <2>2
<1>3. a[1] = Gate /\ a[2] = [do |-> "disarm"] /\ a[3] = [do |-> "arm", mode |-> m]
  OBVIOUS
<1>4. b[1] = Gate /\ b[2] = Script("normal") /\ b[3] = [do |-> "expect global", mode |-> "normal"]
  BY DEF GlobalPlan
<1> HIDE DEF a, b
<1>5. (\A i \in 1..3 : u[i] = a[i]) /\ (\A i \in 1..3 : u[3 + i] = b[i])
  <2>1. Formed(a) /\ Formed(b)
    BY <1>2 DEF Quiet
  <2>2. (\A i \in 1..Len(a) : (a \o b)[i] = a[i]) /\ (\A i \in 1..Len(b) : (a \o b)[Len(a) + i] = b[i])
    BY <2>1, JoinFormed
  <2>3. (\A i \in 1..3 : (a \o b)[i] = a[i]) /\ (\A i \in 1..3 : (a \o b)[3 + i] = b[i])
    BY <1>2, <2>2, Zenon
  <2> QED
    BY <2>3, Zenon
<1> HIDE DEF u
<1>6. u[1] = a[1] /\ u[2] = a[2] /\ u[3] = a[3] /\ u[4] = b[1] /\ u[5] = b[2] /\ u[6] = b[3]
  <2>1. /\ 1 \in 1..3 /\ 2 \in 1..3 /\ 3 \in 1..3 /\ 3 + 1 = 4 /\ 3 + 2 = 5 /\ 3 + 3 = 6
    OBVIOUS
  <2>2. u[3 + 1] = b[1] /\ u[3 + 2] = b[2] /\ u[3 + 3] = b[3]
    BY <1>5, <2>1, Zenon
  <2> QED
    BY <1>5, <2>1, <2>2
<1>7. Gate.do = "gate" /\ Script("normal").do = "script"
  BY DEF Gate, Script
<1>8. /\ u[1].do = "gate" /\ u[2].do = "disarm" /\ u[3] = [do |-> "arm", mode |-> m]
      /\ u[4].do = "gate" /\ u[5].do = "script" /\ u[6].do = "expect global"
  <2>1. u[1].do = "gate" /\ u[4].do = "gate" /\ u[5].do = "script"
    BY <1>3, <1>4, <1>6, <1>7, Zenon
  <2>2. u[2].do = "disarm"
    BY <1>3, <1>6
  <2>3. u[6].do = "expect global"
    <3>1. [do |-> "expect global", mode |-> "normal"].do = "expect global"
      OBVIOUS
    <3> QED
      BY <1>4, <1>6, <3>1, Zenon
  <2>4. u[3] = [do |-> "arm", mode |-> m]
    BY <1>3, <1>6, Zenon
  <2> QED
    BY <2>1, <2>2, <2>3, <2>4, Zenon
<1> QED
  BY <1>1, <1>8, Zenon

LEMMA TemporaryHead ==
  ASSUME IInv, job.plan # <<>>, job.do = "temporary", ~job.undoing, NEW c, c = Head(job.plan)
  PROVE  /\ Len(job.plan) \in 1..6 /\ job.mode \in Modes
         /\ c = TemporaryPlan(job.mode)[7 - Len(job.plan)]
         /\ Len(job.plan) = 6 => c.do = "gate"
         /\ Len(job.plan) = 5 => c.do = "disarm"
         /\ Len(job.plan) = 4 => c = [do |-> "arm", mode |-> job.mode]
         /\ Len(job.plan) = 3 => c.do = "gate"
         /\ Len(job.plan) = 2 => c.do = "script"
         /\ Len(job.plan) = 1 => c.do = "expect global"
<1> DEFINE k == Len(job.plan)
           s == TemporaryPlan(job.mode)
<1>1. /\ k \in 1..6 /\ job.mode \in Modes /\ Formed(job.plan)
      /\ \A i \in 1..k : job.plan[i] = s[6 - k + i]
  BY DEF IInv, TempOK, JobOK
<1>2. c = job.plan[1]
  BY <1>1, TailFormed
<1> HIDE DEF k, s
<1>3. 1 \in 1..k /\ 6 - k + 1 = 7 - k
  BY <1>1
<1>4. c = s[7 - k]
  BY <1>1, <1>2, <1>3
<1>5. /\ s[1].do = "gate" /\ s[2].do = "disarm" /\ s[3] = [do |-> "arm", mode |-> job.mode]
      /\ s[4].do = "gate" /\ s[5].do = "script" /\ s[6].do = "expect global"
  BY <1>1, TemporaryCalls DEF s
<1>6. /\ k = 6 => 7 - k = 1
      /\ k = 5 => 7 - k = 2
      /\ k = 4 => 7 - k = 3
      /\ k = 3 => 7 - k = 4
      /\ k = 2 => 7 - k = 5
      /\ k = 1 => 7 - k = 6
  OBVIOUS
<1>7. /\ k = 6 => c.do = "gate"
      /\ k = 5 => c.do = "disarm"
      /\ k = 4 => c = [do |-> "arm", mode |-> job.mode]
      /\ k = 3 => c.do = "gate"
      /\ k = 2 => c.do = "script"
      /\ k = 1 => c.do = "expect global"
  BY <1>4, <1>5, <1>6, Zenon
<1> QED
  BY <1>1, <1>4, <1>7, Zenon DEF k, s

LEMMA GiveUpKeeps ==
  ASSUME IInv, job.plan # <<>>, NEW c, c = Head(job.plan), GiveUp(c),
         ros' \in Routers, Fresh(n, disabled)', ~job.shaken /\ job.proven => Intact(n')
  PROVE  IInv'
<1> DEFINE u == Undo(c)
<1>1. TypeOK /\ JobOK /\ Formed(job.plan) /\ Named(c)
  BY TailFormed DEF IInv, JobOK
<1>2. approved' = approved /\ wanted' = wanted
  BY DEF GiveUp
<1>3. TypeOK'
  BY <1>1, <1>2 DEF TypeOK
<1>4. CASE job' = Idle
  BY <1>3, <1>4, IdleKeeps
<1>5. CASE job' # Idle
  <2>1. ~job.undoing /\ Len(u) # 0 /\ job' = [job EXCEPT !.plan = u, !.undoing = TRUE]
    BY <1>5 DEF GiveUp
  <2>2. /\ job'.do = job.do /\ job'.on = job.on /\ job'.mode = job.mode /\ job'.S = job.S
        /\ job'.plan = u /\ job'.proven = job.proven /\ job'.undoing = TRUE
        /\ job'.shaken = job.shaken
        /\ job' = [do |-> job'.do, on |-> job'.on, mode |-> job'.mode, S |-> job'.S, plan |-> job'.plan,
                   proven |-> job'.proven, undoing |-> job'.undoing, shaken |-> job'.shaken]
    BY <1>1, <2>1 DEF JobOK
  <2>3. Quiet(u) /\ Formed(u) /\ NoAdds(u)
    BY <1>1, UndoQuiet, QuietNoAdds DEF Quiet
  <2>4. job.do \notin {"device", "policy"}
    <3>1. job.do \in {"device", "policy"} => u = <<>>
      BY <1>1, PolicyStep DEF JobOK
    <3>2. Len(<<>>) = 0
      BY NothingFormed
    <3> QED
      BY <2>1, <3>1, <3>2
  <2>5. job.do = "temporary" => u = <<[do |-> "disarm"]>>
    <3> SUFFICES ASSUME job.do = "temporary"
                 PROVE  u = <<[do |-> "disarm"]>>
      OBVIOUS
    <3>1. c.do \in {"gate", "disarm", "script", "expect global"} \/ c = [do |-> "arm", mode |-> job.mode]
      <4>1. \A k \in 1..6 : k = 1 \/ k = 2 \/ k = 3 \/ k = 4 \/ k = 5 \/ k = 6
        OBVIOUS
      <4>2. /\ Len(job.plan) \in 1..6
            /\ Len(job.plan) = 6 => c.do = "gate"
            /\ Len(job.plan) = 5 => c.do = "disarm"
            /\ Len(job.plan) = 4 => c = [do |-> "arm", mode |-> job.mode]
            /\ Len(job.plan) = 3 => c.do = "gate"
            /\ Len(job.plan) = 2 => c.do = "script"
            /\ Len(job.plan) = 1 => c.do = "expect global"
        BY <2>1, TemporaryHead
      <4> QED
        BY <4>1, <4>2, Zenon
    <3>2. [do |-> "arm", mode |-> job.mode].do = "arm"
      OBVIOUS
    <3>3. CASE c.do \in {"script", "expect global"}
      BY <3>3, UndoCases
    <3>4. CASE c.do \in {"gate", "disarm", "arm"}
      <4>1. u = <<>>
        BY <3>4, UndoNothing
      <4>2. Len(<<>>) = 0
        BY NothingFormed
      <4> QED
        BY <2>1, <4>1, <4>2
    <3> QED
      BY <3>1, <3>2, <3>3, <3>4, Zenon
  <2> HIDE DEF u
  <2>6. JobOK'
    BY <1>1, <2>2, <2>3, <2>4 DEF JobOK
  <2>7. OrderOK'
    <3>1. GateFirst(u, job.proven) /\ Adds(u, n') /\ Enables(u, n')
      BY <2>3, GateFirstQuiet, NoAddsIs
    <3> QED
      BY <2>2, <3>1 DEF OrderOK
  <2>8. PolicyOK'
    BY <2>2, <2>4 DEF PolicyOK
  <2>9. TempOK'
    BY <2>2, <2>5 DEF TempOK
  <2> QED
    BY <1>3, <2>6, <2>7, <2>8, <2>9 DEF IInv
<1> QED
  BY <1>4, <1>5

\* A call that does not refuse, its effect made or not.
LEMMA EffectKeeps ==
  ASSUME IInv, job.plan # <<>>, NEW c, c = Head(job.plan), ~Refuses(c), ros' = Effect(c)
  PROVE  /\ ros' \in Routers /\ n' = Effect(c).n /\ disabled' = Effect(c).disabled /\ temp' = Effect(c).temp
         /\ Fresh(n, disabled)'
         /\ ~job.shaken /\ (job.proven \/ c.do = "gate") => Intact(n')
<1>1. TypeOK /\ JobOK /\ Formed(job.plan) /\ Named(c) /\ Fresh(n, disabled)
  BY TailFormed DEF IInv, JobOK
<1>2. ros' \in Routers
  BY <1>1, EffectElsewhere
<1>3. n' = Effect(c).n /\ disabled' = Effect(c).disabled /\ temp' = Effect(c).temp
  BY DEF n, disabled, temp
<1>4. Fresh(n, disabled)'
  BY <1>1, <1>3, FreshStep
<1>5. ASSUME ~job.shaken, job.proven \/ c.do = "gate"
      PROVE  Intact(n')
  <2>1. /\ GateFirst(job.plan, job.proven) /\ Adds(job.plan, n) /\ Enables(job.plan, n)
        /\ job.proven => Intact(n)
    BY <1>5 DEF IInv, OrderOK
  <2>2. Intact(n) => Intact(Effect(c).n)
    BY <1>1, <2>1, AddsStep
  <2>3. c.do = "gate" => job.proven \/ Ready
    BY RefusesCases
  <2>4. Ready => Intact(n)
    <3>1. Managed \subseteq Lists
      BY DEF Lists
    <3> QED
      BY <1>1, <3>1, TypeIs DEF Ready, IntegrityFails, Intact
  <2> QED
    BY <1>3, <1>5, <2>1, <2>2, <2>3, <2>4
<1> QED
  BY <1>2, <1>3, <1>4, <1>5

LEMMA CallKeeps ==
  ASSUME IInv, Call
  PROVE  IInv'
<1> DEFINE c == Head(job.plan)
           u == After(c)
<1>1. /\ job.plan # <<>> /\ ~Refuses(c) /\ ros' = Effect(c) /\ approved' = Approvals(c) /\ wanted' = wanted
      /\ job' = (IF Len(u) = 0 THEN Idle
                 ELSE [job EXCEPT !.plan = u, !.proven = @ \/ c.do = "gate"])
  BY DEF Call
<1>2. /\ TypeOK /\ JobOK /\ OrderOK /\ PolicyOK /\ TempOK /\ Fresh(n, disabled)
      /\ Formed(job.plan) /\ GateFirst(job.plan, job.proven)
      /\ ~job.shaken => /\ Adds(job.plan, n) /\ Enables(job.plan, n)
                        /\ job.proven => Intact(n)
  BY DEF IInv, JobOK, OrderOK
<1>3. Named(c) /\ Formed(Tail(job.plan)) /\ c = Head(job.plan)
  BY <1>1, <1>2, TailFormed
<1> HIDE DEF c, u
<1>4. /\ ros' \in Routers /\ n' = Effect(c).n /\ disabled' = Effect(c).disabled /\ temp' = Effect(c).temp
      /\ Fresh(n, disabled)'
      /\ ~job.shaken /\ (job.proven \/ c.do = "gate") => Intact(n')
  BY <1>1, <1>3, EffectKeeps
<1>5. TypeOK'
  <2>1. Approvals(c) \subseteq Customs
    BY <1>2, <1>3, ApprovalsType
  <2> QED
    BY <1>1, <1>2, <1>4, <2>1 DEF TypeOK
<1>6. CASE Len(u) = 0
  BY <1>1, <1>4, <1>5, <1>6, IdleKeeps
<1>7. CASE Len(u) # 0
  <2> DEFINE p == job.proven \/ c.do = "gate"
  <2>1. job' = [job EXCEPT !.plan = u, !.proven = p]
    BY <1>1, <1>7
  <2>2. p \in BOOLEAN
    BY <1>2 DEF JobOK
  <2> HIDE DEF p
  <2>3. /\ job'.do = job.do /\ job'.on = job.on /\ job'.mode = job.mode /\ job'.S = job.S
        /\ job'.plan = u /\ job'.proven = p /\ job'.undoing = job.undoing
        /\ job'.shaken = job.shaken
        /\ job' = [do |-> job'.do, on |-> job'.on, mode |-> job'.mode, S |-> job'.S, plan |-> job'.plan,
                   proven |-> job'.proven, undoing |-> job'.undoing, shaken |-> job'.shaken]
    BY <1>2, <2>1 DEF JobOK
  <2>4. Formed(u)
    BY <1>1, <1>2, <1>3, AfterFormed DEF u
  <2>5. ASSUME job.do \in {"device", "policy"}
        PROVE  /\ job.on \in Devices /\ job.mode \in Modes /\ job.S \subseteq Enforceable
               /\ PolicyPlan(job.plan, job.on, job.S)
               /\ PolicyPlan(u, job.on, job.S) /\ Enforceable' = Enforceable
    <3>1. /\ job.on \in Devices /\ job.mode \in Modes /\ job.S \subseteq Enforceable
          /\ PolicyPlan(job.plan, job.on, job.S)
      BY <1>2, <2>5 DEF JobOK
    <3>2. PolicyPlan(u, job.on, job.S) /\ Approvals(c) = approved
      BY <1>1, <1>2, <1>3, <3>1, PolicyStep DEF u
    <3>3. Enforceable' = Enforceable
      BY <1>1, <3>2 DEF Enforceable
    <3> QED
      BY <3>1, <3>2, <3>3
  <2>6. JobOK'
    BY <1>2, <2>2, <2>3, <2>4, <2>5 DEF JobOK
  <2>7. OrderOK'
    <3>1. GateFirst(u, p)
      BY <1>1, <1>2, <1>3, GateFirstStep DEF u, p
    <3>2. ~job.shaken => Adds(u, Effect(c).n) /\ Enables(u, Effect(c).n)
      BY <1>1, <1>2, <1>3, AddsStep DEF u
    <3>3. ~job.shaken /\ p => Intact(n')
      BY <1>4 DEF p
    <3> QED
      BY <1>4, <2>3, <3>1, <3>2, <3>3 DEF OrderOK
  <2>8. ASSUME job.do \in {"device", "policy"}, ~job.shaken
        PROVE  /\ job.mode # "normal" =>
                    Holds(u, Strict(job.mode), Held(Effect(c).n, Effect(c).disabled, Strict(job.mode), job.on))
               /\ Releases(u, job.S, job.on, Effect(c).n)
    <3>1. Strict(job.mode) \in {"blocked", "slowq"}
      BY DEF Strict
    <3>2. /\ job.mode # "normal" =>
               Holds(job.plan, Strict(job.mode), Held(n, disabled, Strict(job.mode), job.on))
          /\ Releases(job.plan, job.S, job.on, n)
      BY <1>2, <2>8 DEF PolicyOK
    <3>3. job.mode # "normal" =>
            Holds(u, Strict(job.mode), Held(Effect(c).n, Effect(c).disabled, Strict(job.mode), job.on))
      <4> DEFINE h == Strict(job.mode)
      <4>1. h \in {"blocked", "slowq"}
        BY <3>1
      <4> HIDE DEF h
      <4>2. ASSUME Holds(job.plan, h, Held(n, disabled, h, job.on))
            PROVE  Holds(u, h, Held(Effect(c).n, Effect(c).disabled, h, job.on))
        BY <1>1, <1>2, <1>3, <2>5, <2>8, <4>1, <4>2, HoldStep DEF u
      <4> QED
        BY <3>2, <4>2 DEF h
    <3>4. Releases(u, job.S, job.on, Effect(c).n)
      BY <1>1, <1>2, <1>3, <2>5, <2>8, <3>2, ReleaseStep DEF u
    <3> QED
      BY <3>3, <3>4
  <2>9. PolicyOK'
    BY <1>4, <2>3, <2>8 DEF PolicyOK
  <2>10. ASSUME job.do = "temporary"
         PROVE  /\ ~job.undoing /\ Len(u) \in 1..6
                /\ \A i \in 1..Len(u) : u[i] = TemporaryPlan(job.mode)[6 - Len(u) + i]
                /\ Len(u) <= 3 => temp' = job.mode
    <3>1. CASE job.undoing
      <4>1. job.plan = <<[do |-> "disarm"]>>
        BY <1>2, <2>10, <3>1 DEF TempOK
      <4>2. c.do = "disarm"
        BY <1>3, <4>1
      <4>3. u = Tail(job.plan)
        BY <4>2, AfterCases DEF u
      <4>4. Len(u) = 0
        BY <4>1, <4>3
      <4> QED
        BY <1>7, <4>4
    <3>2. CASE ~job.undoing
      <4> DEFINE k == Len(job.plan)
      <4>1. /\ k \in 1..6 /\ job.mode \in Modes
            /\ k = 6 => c.do = "gate"
            /\ k = 5 => c.do = "disarm"
            /\ k = 4 => c = [do |-> "arm", mode |-> job.mode]
            /\ k = 3 => c.do = "gate"
            /\ k = 2 => c.do = "script"
            /\ k = 1 => c.do = "expect global"
        BY <1>1, <1>3, <2>10, <3>2, TemporaryHead
      <4>2. /\ \A i \in 1..k : job.plan[i] = TemporaryPlan(job.mode)[6 - k + i]
            /\ k <= 3 => temp = job.mode
        BY <1>2, <2>10, <3>2 DEF TempOK
      <4>3. /\ c.do \in {"gate", "disarm", "arm", "script", "expect global"}
            /\ k = 4 => c.do = "arm" /\ c.mode = job.mode
            /\ k <= 3 => c.do \notin {"arm", "disarm"}
        <5>1. \A i \in 1..6 : i = 1 \/ i = 2 \/ i = 3 \/ i = 4 \/ i = 5 \/ i = 6
          OBVIOUS
        <5>2. \A i \in 1..6 : i <= 3 => i # 4 /\ i # 5 /\ i # 6
          OBVIOUS
        <5>3. [do |-> "arm", mode |-> job.mode].do = "arm" /\ [do |-> "arm", mode |-> job.mode].mode = job.mode
          OBVIOUS
        <5> HIDE DEF k
        <5>4. k = 4 => c.do = "arm" /\ c.mode = job.mode
          BY <4>1, <5>3, Zenon
        <5>5. c.do \in {"gate", "disarm", "arm", "script", "expect global"}
          BY <4>1, <5>1, <5>4, Zenon
        <5>6. k <= 3 => c.do \notin {"arm", "disarm"}
          <6>1. k <= 3 => c.do \in {"gate", "script", "expect global"}
            BY <4>1, <5>1, <5>2, Zenon
          <6> QED
            BY <6>1
        <5> QED
          BY <5>4, <5>5, <5>6
      <4>4. u = Tail(job.plan)
        BY <4>3, AfterCases DEF u
      <4>5. Len(u) = k - 1 /\ \A i \in 1..(k - 1) : u[i] = job.plan[i + 1]
        BY <1>1, <1>2, <4>4, TailFormed
      <4>6. temp' = (IF c.do = "arm" THEN c.mode ELSE IF c.do = "disarm" THEN "none" ELSE temp)
        BY <1>1, <1>2, <1>3, <1>4, EffectElsewhere
      <4> HIDE DEF k
      <4>10. k \in 1..6 /\ Len(u) = k - 1
        BY <4>1, <4>5, Zenon
      <4> HIDE DEF u
      <4>7. Len(u) \in 1..6
        BY <1>7, <4>10
      <4>8. ASSUME NEW i \in 1..Len(u)
            PROVE  u[i] = TemporaryPlan(job.mode)[6 - Len(u) + i]
        <5>1. /\ i \in 1..(k - 1) /\ i + 1 \in 1..k /\ 6 - Len(u) + i = 6 - k + (i + 1)
          BY <4>10
        <5> QED
          BY <4>2, <4>5, <5>1
      <4>9. Len(u) <= 3 => temp' = job.mode
        <5>1. Len(u) <= 3 => k = 4 \/ k <= 3
          BY <4>10
        <5> QED
          BY <4>2, <4>3, <4>6, <5>1, Zenon
      <4> QED
        BY <3>2, <4>7, <4>8, <4>9
    <3> QED
      BY <3>1, <3>2
  <2>11. TempOK'
    <3> DEFINE l == Len(u)
    <3>1. ASSUME job.do = "temporary"
          PROVE  /\ ~job.undoing /\ l \in 1..6
                 /\ \A i \in 1..l : u[i] = TemporaryPlan(job.mode)[6 - l + i]
                 /\ l <= 3 => temp' = job.mode
      BY <2>10, <3>1
    <3>2. job'.do = job.do /\ job'.undoing = job.undoing /\ job'.mode = job.mode /\ job'.plan = u
      BY <2>3
    <3>3. Len(job'.plan) = l
      BY <3>2
    <3> HIDE DEF l
    <3> QED
      BY <3>1, <3>2, <3>3, Zenon DEF TempOK
  <2> QED
    BY <1>4, <1>5, <2>6, <2>7, <2>9, <2>11 DEF IInv
<1> QED
  BY <1>6, <1>7

LEMMA RefusedKeeps ==
  ASSUME IInv, Refused
  PROVE  IInv'
<1>1. job.plan # <<>> /\ GiveUp(Head(job.plan)) /\ ros' = ros
  BY DEF Refused
<1>2. n' = n /\ disabled' = disabled
  BY <1>1 DEF n, disabled
<1>3. /\ ros' \in Routers /\ Fresh(n, disabled)'
      /\ ~job.shaken /\ job.proven => Intact(n')
  BY <1>1, <1>2 DEF IInv, TypeOK, Fresh, OrderOK
<1> QED
  BY <1>1, <1>3, GiveUpKeeps

LEMMA RaisesKeeps ==
  ASSUME IInv, NEW lost \in BOOLEAN, CallRaises(lost)
  PROVE  IInv'
<1> DEFINE c == Head(job.plan)
<1>1. job.plan # <<>> /\ ~Refuses(c) /\ GiveUp(c) /\ c = Head(job.plan)
  BY DEF CallRaises
<1>2. ros' = Effect(c) \/ ros' = ros
  BY DEF CallRaises
<1> HIDE DEF c
<1>3. /\ ros' \in Routers /\ Fresh(n, disabled)'
      /\ ~job.shaken /\ job.proven => Intact(n')
  <2>1. CASE ros' = Effect(c)
    BY <1>1, <2>1, EffectKeeps
  <2>2. CASE ros' = ros
    <3>1. n' = n /\ disabled' = disabled
      BY <2>2 DEF n, disabled
    <3> QED
      BY <2>2, <3>1 DEF IInv, TypeOK, Fresh, OrderOK
  <2> QED
    BY <1>2, <2>1, <2>2
<1> QED
  BY <1>1, <1>3, GiveUpKeeps

-----------------------------------------------------------------------------
(* The invariant holds.                                                    *)

LEMMA EntriesType ==
  ASSUME NEW managed, NEW mode, NEW limited
  PROVE  Entries(managed, mode, limited) \in [Lists -> [Devices -> Nat]]
<1>1. ASSUME NEW r \in Lists, NEW d \in Devices
      PROVE  Entries(managed, mode, limited)[r][d] \in {0, 1}
  <2>1. Entries(managed, mode, limited)[r][d] =
          CASE r = "restricted" -> IF d \in managed THEN 1 ELSE 0
            [] d \notin managed -> 0
            [] r = "bw" -> IF limited /\ mode = "normal" THEN 1 ELSE 0
            [] r = "blocked" -> IF mode = "blocked" THEN 1 ELSE 0
            [] r \in {"slow", "slowq"} -> IF mode = "slow" THEN 1 ELSE 0
            [] OTHER -> 0
    BY Zenon DEF Entries
  <2> QED
    BY <2>1, Zenon
<1>2. \A r \in Lists, d \in Devices : Entries(managed, mode, limited)[r][d] \in Nat
  BY <1>1
<1> QED
  BY <1>2 DEF Entries

LEMMA InitKeeps ==
  ASSUME Init
  PROVE  IInv
<1>1. PICK managed \in SUBSET Devices, mode \in Modes, limited \in BOOLEAN, g \in {"normal", "slow"},
           failing0 \in {{}, {"rule_contracts"}} :
        ros = [n |-> Entries(managed, mode, limited), disabled |-> {},
               rules |-> [k \in Customs |-> {}], learned |-> {}, gmode |-> g,
               web |-> TRUE, late |-> FALSE, failing |-> failing0, temp |-> "none", scheds |-> {}]
  BY DEF Init
<1>2. Entries(managed, mode, limited) \in [Lists -> [Devices -> Nat]]
  BY EntriesType
<1>3. failing0 \subseteq StaticChecks /\ g \in Modes /\ [k \in Customs |-> {}] \in [Customs -> SUBSET Contract]
  BY DEF StaticChecks, Modes
<1>4. ros \in Routers
  BY <1>1, <1>2, <1>3 DEF Routers
<1>5. approved = {} /\ wanted = <<>> /\ job = Idle
  BY DEF Init
<1>6. DOMAIN wanted = {}
  BY <1>5
<1>7. TypeOK
  BY <1>4, <1>5, <1>6 DEF TypeOK
<1>8. disabled = {}
  BY <1>1 DEF disabled
<1>9. Fresh(n, disabled)
  BY <1>8 DEF Fresh
<1>10. /\ job.do = "idle" /\ job.plan = <<>>
       /\ job.proven = FALSE /\ job.undoing = FALSE /\ job.shaken = FALSE
       /\ job = [do |-> job.do, on |-> job.on, mode |-> job.mode, S |-> job.S, plan |-> job.plan,
                 proven |-> job.proven, undoing |-> job.undoing, shaken |-> job.shaken]
  BY <1>5 DEF Idle
<1>11. JobOK
  BY <1>10, NothingFormed DEF JobOK
<1>12. OrderOK
  <2>1. /\ GateFirst(<<>>, FALSE) /\ \A m : Adds(<<>>, m) /\ Enables(<<>>, m)
    BY NothingLeft
  <2> QED
    BY <1>10, <2>1 DEF OrderOK
<1>13. PolicyOK /\ TempOK
  BY <1>10 DEF PolicyOK, TempOK
<1> QED
  BY <1>7, <1>9, <1>11, <1>12, <1>13 DEF IInv

LEMMA NextKeeps ==
  ASSUME IInv, [Next]_vars
  PROVE  IInv'
<1>1. CASE Request
  BY <1>1, RequestKeeps
<1>2. CASE Call
  BY <1>2, CallKeeps
<1>3. CASE Refused
  BY <1>3, RefusedKeeps
<1>4. CASE \E lost \in BOOLEAN : CallRaises(lost)
  BY <1>4, RaisesKeeps
<1>5. CASE Crash
  <2>1. /\ job' = Idle /\ ros' = ros /\ approved' = approved /\ wanted' = wanted
    BY <1>5 DEF Crash
  <2>2. n' = n /\ disabled' = disabled
    BY <2>1 DEF n, disabled
  <2>3. TypeOK' /\ Fresh(n, disabled)'
    BY <2>1, <2>2 DEF IInv, TypeOK, Fresh
  <2> QED
    BY <2>1, <2>3, IdleKeeps
<1>6. CASE TempFires \/ ScheduleFires \/ DetectorLearns \/ ReadTemporary
  BY <1>6, EventKeeps
<1>7. CASE ManualEdit
  BY <1>7, EditKeeps
<1>8. CASE UNCHANGED vars
  <2>1. /\ ros' = ros /\ approved' = approved /\ wanted' = wanted /\ job' = job
    BY <1>8 DEF vars
  <2>2. n' = n /\ disabled' = disabled /\ temp' = temp
    BY <2>1 DEF n, disabled, temp
  <2>3. TypeOK'
    BY <2>1 DEF IInv, TypeOK
  <2> QED
    BY <2>1, <2>2, <2>3, SameJobKeeps
<1> QED
  BY <1>1, <1>2, <1>3, <1>4, <1>5, <1>6, <1>7, <1>8 DEF Next

\* Manual edits and the router's own acts are counted.
Counts == edits \in Nat /\ events \in Nat

LEMMA CountsKept ==
  ASSUME Counts, [Next]_vars
  PROVE  /\ Counts'
         /\ ManualEdit => edits' # edits
         /\ TempFires \/ ScheduleFires => events' # events
<1>1. ManualEdit => edits' = edits + 1 /\ events' = events
  BY DEF ManualEdit, Edited
<1>2. TempFires \/ ScheduleFires => events' = events + 1 /\ edits' = edits
  BY DEF TempFires, ScheduleFires, Event
<1>3. Request => edits' = edits /\ events' = events
  <2>1. \A do, on, mode, S, plan : Begin(do, on, mode, S, plan) => edits' = edits /\ events' = events
    BY DEF Begin
  <2> QED
    BY <2>1, Zenon DEF Request, SetDeviceMode, ApplyPolicy, SetMode, SetTemporary, AddSchedule,
         RemoveSchedule, AddDevice, RemoveDevice, SetWebPolicy, Cleanup, Provision, Unprovision
<1>4. Call \/ Refused \/ (\E lost \in BOOLEAN : CallRaises(lost)) \/ Crash \/ DetectorLearns \/ ReadTemporary
        => edits' = edits /\ events' = events
  BY DEF Call, Refused, CallRaises, Crash, DetectorLearns, ReadTemporary, bounds
<1>5. UNCHANGED vars => edits' = edits /\ events' = events
  BY DEF vars, bounds
<1>6. edits \in Nat /\ events \in Nat /\ edits + 1 \in Nat /\ events + 1 \in Nat
      /\ edits + 1 # edits /\ events + 1 # events
  BY DEF Counts
<1> QED
  BY <1>1, <1>2, <1>3, <1>4, <1>5, <1>6 DEF Next, Counts

\* Only a call of the request, the router itself and an edit change the router.
Calls == job.plan # <<>> /\ ~Refuses(Head(job.plan)) /\ ros' = Effect(Head(job.plan))

LEMMA StepCases ==
  ASSUME [Next]_vars
  PROVE  Calls \/ ros' = ros \/ DetectorLearns \/ ReadTemporary \/ TempFires \/ ScheduleFires \/ ManualEdit
<1>1. Request => ros' = ros
  <2>1. \A do, on, mode, S, plan : Begin(do, on, mode, S, plan) => ros' = ros
    BY DEF Begin
  <2> QED
    BY <2>1, Zenon DEF Request, SetDeviceMode, ApplyPolicy, SetMode, SetTemporary, AddSchedule,
         RemoveSchedule, AddDevice, RemoveDevice, SetWebPolicy, Cleanup, Provision, Unprovision
<1>2. Call => Calls
  BY DEF Call, Calls
<1>3. Refused \/ Crash \/ UNCHANGED vars => ros' = ros
  BY DEF Refused, Crash, vars
<1>4. ASSUME NEW lost \in BOOLEAN, CallRaises(lost)
      PROVE  Calls \/ ros' = ros
  BY <1>4 DEF CallRaises, Calls
<1> QED
  BY <1>1, <1>2, <1>3, <1>4 DEF Next

\* What the router does by itself leaves its lists and queues alone.
LEMMA OwnActs ==
  ASSUME TypeOK, DetectorLearns \/ ReadTemporary \/ TempFires \/ ScheduleFires
  PROVE  /\ n' = n /\ disabled' = disabled /\ web' = web /\ late' = late /\ failing' = failing
         /\ gmode' = gmode \/ gmode' \in Modes
         /\ DetectorLearns \/ ReadTemporary => gmode' = gmode
<1> USE TypeIs
<1>1. CASE DetectorLearns
  <2>1. PICK k : ros' = [ros EXCEPT !.learned = @ \cup {k}]
    BY <1>1 DEF DetectorLearns
  <2> QED
    BY <2>1 DEF n, disabled, web, late, failing, gmode
<1>2. CASE ReadTemporary
  BY <1>2 DEF ReadTemporary, n, disabled, web, late, failing, gmode
<1>3. CASE TempFires
  <2>1. temp \in Modes /\ ros' = [ros EXCEPT !.gmode = temp, !.temp = "fired"]
    BY <1>3 DEF TempFires, Event
  <2>2. /\ n' = n /\ disabled' = disabled /\ web' = web /\ late' = late /\ failing' = failing
        /\ gmode' = temp
    BY <2>1 DEF n, disabled, web, late, failing, gmode
  <2>3. DetectorLearns \/ ReadTemporary => gmode' = gmode
    <3>1. ASSUME NEW k, ros' = [ros EXCEPT !.learned = @ \cup {k}]
          PROVE  gmode' = gmode
      BY <3>1 DEF gmode
    <3>2. ros' = [ros EXCEPT !.temp = "none"] => gmode' = gmode
      BY DEF gmode
    <3> QED
      BY <3>1, <3>2, Zenon DEF DetectorLearns, ReadTemporary
  <2> QED
    BY <2>1, <2>2, <2>3
<1>4. CASE ScheduleFires
  <2>1. PICK e \in scheds : ros' = [ros EXCEPT !.gmode = e[3]]
    BY <1>4 DEF ScheduleFires, Event
  <2>2. /\ n' = n /\ disabled' = disabled /\ web' = web /\ late' = late /\ failing' = failing
        /\ gmode' = e[3] /\ e[3] \in Modes
    BY <2>1 DEF n, disabled, web, late, failing, gmode
  <2>3. DetectorLearns \/ ReadTemporary => gmode' = gmode
    <3>1. ASSUME NEW k, ros' = [ros EXCEPT !.learned = @ \cup {k}]
          PROVE  gmode' = gmode
      BY <3>1 DEF gmode
    <3>2. ros' = [ros EXCEPT !.temp = "none"] => gmode' = gmode
      BY DEF gmode
    <3> QED
      BY <3>1, <3>2, Zenon DEF DetectorLearns, ReadTemporary
  <2> QED
    BY <2>2, <2>3
<1> QED
  BY <1>1, <1>2, <1>3, <1>4

\* A call of a request, on the lists of a device.
LEMMA CallOnDevice ==
  ASSUME IInv, Calls, NEW d \in Devices, NEW c, c = Head(job.plan)
  PROVE  /\ Named(c) /\ 1 \in DOMAIN job.plan /\ job.plan[1] = c
         /\ \A r \in Lists : n'[r][d] >= n[r][d] \/ (c.do = "remove" /\ c.r = r /\ c.d = d)
         /\ \A r \in Lists : n[r][d] \in Nat /\ n'[r][d] \in Nat
         /\ disabled' \subseteq disabled
<1>1. TypeOK /\ Formed(job.plan) /\ job.plan # <<>> /\ ~Refuses(c) /\ ros' = Effect(c)
  BY DEF IInv, JobOK, Calls
<1>2. Named(c) /\ 1 \in DOMAIN job.plan /\ job.plan[1] = c
  BY <1>1, TailFormed
<1>3. n' = Effect(c).n /\ disabled' = Effect(c).disabled
  BY <1>1 DEF n, disabled
<1>4. /\ Effect(c).n \in [Lists -> [Devices -> Nat]]
      /\ \A r \in Lists : Effect(c).n[r][d] = IF c.do = "add" /\ c.r = r /\ c.d = d THEN n[r][d] + 1
                                              ELSE IF c.do = "remove" /\ c.r = r /\ c.d = d THEN n[r][d] - 1
                                              ELSE n[r][d]
      /\ \A r, x : <<r, x>> \in Effect(c).disabled => <<r, x>> \in disabled
      /\ Effect(c).disabled \subseteq Queues \X Devices
  BY <1>1, <1>2, EffectOnEntries
<1>5. n \in [Lists -> [Devices -> Nat]]
  BY <1>1, TypeIs
<1> DEFINE m == Effect(c).n
           D == Effect(c).disabled
<1>6. D \subseteq disabled
  BY <1>4
<1> HIDE DEF m, D
<1>7. ASSUME NEW r \in Lists
      PROVE  /\ m[r][d] >= n[r][d] \/ (c.do = "remove" /\ c.r = r /\ c.d = d)
             /\ n[r][d] \in Nat /\ m[r][d] \in Nat
  <2>1. n[r][d] \in Nat /\ m[r][d] \in Nat
    BY <1>4, <1>5 DEF m
  <2>2. \/ m[r][d] = n[r][d] + 1 \/ m[r][d] = n[r][d]
        \/ (c.do = "remove" /\ c.r = r /\ c.d = d)
    BY <1>4, Zenon DEF m
  <2>3. \A x, y \in Nat : x = y + 1 \/ x = y => x >= y
    OBVIOUS
  <2> QED
    BY <2>1, <2>2, <2>3, Zenon
<1> QED
  BY <1>2, <1>3, <1>6, <1>7 DEF m, D

LEMMA LimitedIs ==
  ASSUME TypeOK, NEW d
  PROVE  Limited(d) <=> \E l \in Limits : Held(n, disabled, l, d)
<1>1. <<"blocked", d>> \notin disabled
  BY TypeIs DEF Queues
<1>2. Limits = {"blocked", "slowq", "bw"}
  BY DEF Limits, Queues
<1> QED
  BY <1>1, <1>2 DEF Limited, Held, On

LEMMA HeldIsLimited ==
  ASSUME NEW d, NEW l \in Limits, Held(n, disabled, l, d)'
  PROVE  Limited(d)'
<1>1. l = "blocked" \/ l = "slowq" \/ l = "bw"
  BY DEF Limits, Queues
<1> QED
  BY <1>1 DEF Limited, Held, On

LEMMA FailsRestrictiveStep ==
  ASSUME IInv, Counts, [Next]_vars, NEW d \in Devices,
         job.do \in {"device", "policy"}, job.on = d, job.mode # "normal", ~job.shaken, Ours, Limited(d)
  PROVE  Limited(d)'
<1> DEFINE c == Head(job.plan)
           h == Strict(job.mode)
<1>1. PICK l \in Limits : Held(n, disabled, l, d)
  BY LimitedIs DEF IInv
<1>2. ~ManualEdit
  BY CountsKept DEF Ours
<1>3. CASE Calls
  <2>1. /\ Named(c) /\ 1 \in DOMAIN job.plan /\ job.plan[1] = c
        /\ \A r \in Lists : n'[r][d] >= n[r][d] \/ (c.do = "remove" /\ c.r = r /\ c.d = d)
        /\ \A r \in Lists : n[r][d] \in Nat /\ n'[r][d] \in Nat
        /\ disabled' \subseteq disabled
    BY <1>3, CallOnDevice
  <2>2. /\ Spares(job.plan, {"clear", "remove"}, Limits, {h})
        /\ Before(job.plan, {"clear", "remove"}, Limits, {"one", "add", "set"}, h, Held(n, disabled, h, d))
    BY DEF IInv, PolicyOK, Holds
  <2>3. h \in Limits
    BY DEF Strict, Limits, Queues
  <2>4. Limits \subseteq Lists
    BY DEF Limits, Lists, Managed
  <2> HIDE DEF c, h
  <2>5. ASSUME NEW x \in Limits, Held(n, disabled, x, d), ~(c.do = "remove" /\ c.r = x /\ c.d = d)
        PROVE  Limited(d)'
    <3>1. n'[x][d] >= n[x][d] /\ n[x][d] \in Nat /\ n'[x][d] \in Nat
      BY <2>1, <2>4, <2>5
    <3>2. Held(n, disabled, x, d)'
      BY <2>1, <2>5, <3>1 DEF Held
    <3> QED
      BY <3>2, HeldIsLimited
  <2>6. CASE c.do = "remove" /\ c.r \in Limits
    <3>1. c.r # h
      BY <2>1, <2>2, <2>6 DEF Spares
    <3>2. Held(n, disabled, h, d)
      <4>1. 1..(1 - 1) = {}
        OBVIOUS
      <4>2. Held(n, disabled, h, d) \/ \E p \in 1..(1 - 1) : TRUE
        BY <2>1, <2>2, <2>6 DEF Before
      <4> QED
        BY <4>1, <4>2
    <3> QED
      BY <2>3, <2>5, <3>1, <3>2
  <2>7. CASE ~(c.do = "remove" /\ c.r \in Limits)
    BY <1>1, <2>5, <2>7
  <2> QED
    BY <2>6, <2>7
<1>4. CASE ros' = ros \/ DetectorLearns \/ ReadTemporary \/ TempFires \/ ScheduleFires
  <2>1. n' = n /\ disabled' = disabled
    <3>1. ros' = ros => n' = n /\ disabled' = disabled
      BY DEF n, disabled
    <3> QED
      BY <1>4, <3>1, OwnActs DEF IInv
  <2>2. Held(n, disabled, l, d)'
    BY <1>1, <2>1 DEF Held
  <2> QED
    BY <2>2, HeldIsLimited
<1> QED
  BY <1>2, <1>3, <1>4, StepCases

LEMMA ReleasesLastStep ==
  ASSUME IInv, Counts, [Next]_vars, NEW d \in Devices,
         job.do = "policy", job.on = d, ~job.shaken, Ours,
         NEW k \in Keys \ job.S, n[k][d]' < n[k][d], NEW x \in job.S
  PROVE  n[x][d] > 0
<1> DEFINE c == Head(job.plan)
<1>1. ~ManualEdit
  BY CountsKept DEF Ours
<1>2. k \in Lists
  BY DEF Lists, Managed
<1>3. n[k][d] \in Nat
  BY <1>2, TypeIs DEF IInv
<1>4. n'[k][d] # n[k][d]
  <2>1. n[k][d]' = n'[k][d]
    OBVIOUS
  <2>2. ~(n[k][d] < n[k][d])
    BY <1>3
  <2> QED
    BY <2>1, <2>2
<1>5. Calls
  <2>1. ros' = ros => n' = n
    BY DEF n
  <2>2. DetectorLearns \/ ReadTemporary \/ TempFires \/ ScheduleFires => n' = n
    BY OwnActs DEF IInv
  <2> QED
    BY <1>1, <1>4, <2>1, <2>2, StepCases
<1>6. /\ Named(c) /\ 1 \in DOMAIN job.plan /\ job.plan[1] = c
      /\ n'[k][d] >= n[k][d] \/ (c.do = "remove" /\ c.r = k /\ c.d = d)
      /\ n[k][d] \in Nat /\ n'[k][d] \in Nat
  BY <1>2, <1>5, CallOnDevice
<1>7. c.do = "remove" /\ c.r = k
  <2>1. n'[k][d] < n[k][d]
    OBVIOUS
  <2>2. \A a, b \in Nat : a < b => ~(a >= b)
    OBVIOUS
  <2> QED
    BY <1>6, <2>1, <2>2, Zenon
<1>8. Before(job.plan, {"remove"}, Keys, {"add"}, x, n[x][d] > 0)
  BY DEF IInv, PolicyOK, Releases
<1> HIDE DEF c
<1>9. 1..(1 - 1) = {}
  OBVIOUS
<1>10. n[x][d] > 0 \/ \E p \in 1..(1 - 1) : TRUE
  BY <1>6, <1>7, <1>8 DEF Before
<1> QED
  BY <1>9, <1>10

LEMMA ArmedBeforeNormalStep ==
  ASSUME IInv, Counts, [Next]_vars,
         job.do = "temporary", ~job.shaken, Ours, gmode # "normal", gmode' = "normal"
  PROVE  temp = job.mode
<1> DEFINE c == Head(job.plan)
<1>1. ~ManualEdit /\ ~TempFires /\ ~ScheduleFires
  BY CountsKept DEF Ours
<1>2. Calls
  <2>1. ros' = ros => gmode' = gmode
    BY DEF gmode
  <2>2. DetectorLearns \/ ReadTemporary => gmode' = gmode
    BY OwnActs DEF IInv
  <2> QED
    BY <1>1, <2>1, <2>2, StepCases
<1>3. job.plan # <<>> /\ ~Refuses(c) /\ ros' = Effect(c) /\ TypeOK /\ Formed(job.plan) /\ c = Head(job.plan)
  BY <1>2 DEF Calls, IInv, JobOK
<1>4. Named(c)
  BY <1>3, TailFormed
<1>5. Effect(c).gmode = IF c.do = "script" THEN c.mode ELSE gmode
  BY <1>3, <1>4, EffectElsewhere
<1>6. c.do = "script"
  <2>1. gmode' = Effect(c).gmode
    BY <1>3 DEF gmode
  <2> QED
    BY <1>5, <2>1
<1>7. ~job.undoing
  <2>1. ASSUME job.undoing
        PROVE  FALSE
    <3>1. job.plan = <<[do |-> "disarm"]>>
      BY <2>1 DEF IInv, TempOK
    <3>2. c.do = "disarm"
      BY <3>1
    <3> QED
      BY <1>6, <3>2
  <2> QED
    BY <2>1
<1> HIDE DEF c
<1>8. /\ Len(job.plan) \in 1..6
      /\ Len(job.plan) = 6 => c.do = "gate"
      /\ Len(job.plan) = 5 => c.do = "disarm"
      /\ Len(job.plan) = 4 => c = [do |-> "arm", mode |-> job.mode]
  BY <1>3, <1>7, TemporaryHead
<1>9. [do |-> "arm", mode |-> job.mode].do = "arm"
  OBVIOUS
<1>10. Len(job.plan) <= 3
  <2>1. \A i \in 1..6 : i = 6 \/ i = 5 \/ i = 4 \/ i <= 3
    OBVIOUS
  <2>2. "script" # "gate" /\ "script" # "disarm" /\ "script" # "arm"
    OBVIOUS
  <2> QED
    BY <1>6, <1>8, <1>9, <2>1, <2>2, Zenon
<1>11. Len(job.plan) <= 3 => temp = job.mode
  BY <1>7, Zenon DEF IInv, TempOK
<1> QED
  BY <1>10, <1>11

\* The gate is open, said of the parts it looks at.
Open(F, w, g, l, m) == F = {} /\ w /\ g # "invalid" /\ ~(l /\ g = "blocked") /\ Intact(m)

LEMMA IntactIs ==
  ASSUME TypeOK
  PROVE  Intact(n) <=> ~IntegrityFails
<1>1. Managed \subseteq Lists
  BY DEF Lists
<1>2. \A r \in Managed, d \in Devices : n[r][d] \in Nat
  BY <1>1, TypeIs
<1> QED
  BY <1>2 DEF Intact, IntegrityFails

LEMMA OpenIs ==
  ASSUME TypeOK
  PROVE  Ready <=> Open(failing, web, gmode, late, n)
<1>1. web \in BOOLEAN /\ late \in BOOLEAN
  BY TypeIs
<1> QED
  BY <1>1, IntactIs, Zenon DEF Ready, Open, GlobalModeFails, ForwardOrderFails

LEMMA OpenMeansReady ==
  ASSUME TypeOK', Open(failing', web', gmode', late', n')
  PROVE  Ready'
<1>1. Managed \subseteq Lists
  BY DEF Lists
<1>2. n' \in [Lists -> [Devices -> Nat]]
  BY DEF TypeOK, Routers, n
<1>3. \A r \in Managed, d \in Devices : n'[r][d] \in Nat
  BY <1>1, <1>2
<1>4. ~IntegrityFails'
  BY <1>3 DEF Open, Intact, IntegrityFails
<1> QED
  BY <1>4 DEF Ready, Open, GlobalModeFails, ForwardOrderFails

LEMMA NoSelfLockoutStep ==
  ASSUME IInv, Counts, [Next]_vars, Ready, ~job.shaken, edits' = edits
  PROVE  Ready' \/ ~web' \/ (late /\ gmode' = "blocked")
<1> DEFINE c == Head(job.plan)
<1>1. ~ManualEdit
  BY CountsKept
<1>2. TypeOK /\ TypeOK' /\ Open(failing, web, gmode, late, n)
  BY NextKeeps, OpenIs DEF IInv
<1>3. ASSUME failing' = failing, late' = late, gmode' \in Modes \/ gmode' = gmode, Intact(n')
      PROVE  Ready' \/ ~web' \/ (late /\ gmode' = "blocked")
  <2> SUFFICES ASSUME web', ~(late /\ gmode' = "blocked")
               PROVE  Ready'
    OBVIOUS
  <2>1. gmode' # "invalid"
    BY <1>2, <1>3 DEF Open, Modes
  <2>2. Open(failing', web', gmode', late', n')
    BY <1>2, <1>3, <2>1 DEF Open
  <2> QED
    BY <1>2, <2>2, OpenMeansReady
<1>4. CASE ros' = ros
  <2>1. failing' = failing /\ late' = late /\ gmode' = gmode /\ n' = n
    BY <1>4 DEF failing, late, gmode, n
  <2> QED
    BY <1>2, <1>3, <2>1 DEF Open
<1>5. CASE DetectorLearns \/ ReadTemporary \/ TempFires \/ ScheduleFires
  <2>1. failing' = failing /\ late' = late /\ (gmode' \in Modes \/ gmode' = gmode) /\ n' = n
    BY <1>2, <1>5, OwnActs
  <2> QED
    BY <1>2, <1>3, <2>1 DEF Open
<1>6. CASE Calls
  <2>1. /\ job.plan # <<>> /\ ~Refuses(c) /\ ros' = Effect(c) /\ Formed(job.plan) /\ c = Head(job.plan)
        /\ GateFirst(job.plan, job.proven) /\ Adds(job.plan, n) /\ Enables(job.plan, n)
        /\ job.proven => Intact(n)
    BY <1>6 DEF Calls, IInv, JobOK, OrderOK
  <2>2. Named(c)
    BY <2>1, TailFormed
  <2>3. /\ failing' = Effect(c).failing /\ late' = Effect(c).late /\ gmode' = Effect(c).gmode
        /\ n' = Effect(c).n
    BY <2>1 DEF failing, late, gmode, n
  <2>4. /\ Effect(c).gmode = IF c.do = "script" THEN c.mode ELSE gmode
        /\ Effect(c).late = late /\ Effect(c).failing = failing
    BY <1>2, <2>1, <2>2, EffectElsewhere
  <2>5. c.do = "script" => c.mode \in Modes
    BY <2>2, Zenon DEF Named
  <2>6. Intact(n')
    <3>1. Intact(n)
      BY <1>2 DEF Open
    <3>2. Intact(n) => Intact(Effect(c).n)
      BY <1>2, <2>1, AddsStep
    <3> QED
      BY <2>3, <3>1, <3>2
  <2>7. gmode' \in Modes \/ gmode' = gmode
    BY <2>3, <2>4, <2>5, Zenon
  <2>8. failing' = failing /\ late' = late
    BY <2>3, <2>4, Zenon
  <2> HIDE DEF c
  <2> QED
    BY <1>3, <2>6, <2>7, <2>8
<1> QED
  BY <1>1, <1>4, <1>5, <1>6, StepCases

-----------------------------------------------------------------------------
(* Theorems.                                                               *)

LEMMA Always ==
  Spec => [](IInv /\ Counts)
<1>1. Init => IInv /\ Counts
  <2>1. Init => edits = 0 /\ events = 0
    BY Zenon DEF Init
  <2>2. 0 \in Nat
    OBVIOUS
  <2> QED
    BY <2>1, <2>2, InitKeeps DEF Counts
<1>2. IInv /\ Counts /\ [Next]_vars => (IInv /\ Counts)'
  BY NextKeeps, CountsKept
<1> QED
  BY <1>1, <1>2, PTL DEF Spec

\* Whatever calls raise, get lost or are the last of the process, and whatever
\* is edited by hand: the router's lists, queues, rules and schedules, the
\* approvals and the groups stay what the adapter takes them for.
THEOREM TypeCorrect ==
  Spec => []TypeOK
<1>1. IInv => TypeOK
  BY DEF IInv
<1> QED
  BY <1>1, Always, PTL

\* set_device_mode and reconcile_device towards SLOW or BLOCKED: a device that
\* is limited stays limited through every call, lost answer and crash, for any
\* plan they make and any state of the router they find.
THEOREM StaysLimited ==
  Spec => FailsRestrictive
<1>1. IInv /\ Counts /\ [Next]_vars =>
        [\A d \in Devices :
           job.do \in {"device", "policy"} /\ job.on = d /\ job.mode # "normal"
           /\ ~job.shaken /\ Ours /\ Limited(d) => Limited(d)']_vars
  BY FailsRestrictiveStep
<1> QED
  BY <1>1, Always, PTL DEF Spec, FailsRestrictive

\* set_device_services establishes every block before it releases any: the loop
\* over the services to release follows the loop over those to block, whatever
\* the catalogue and the entries it found.
THEOREM BlocksComeFirst ==
  Spec => ReleasesLast
<1>1. IInv /\ Counts /\ [Next]_vars =>
        [\A d \in Devices :
           job.do = "policy" /\ job.on = d /\ ~job.shaken /\ Ours
           /\ (\E k \in Keys \ job.S : n[k][d]' < n[k][d])
           => \A k \in job.S : n[k][d] > 0]_vars
  BY ReleasesLastStep
<1> QED
  BY <1>1, Always, PTL DEF Spec, ReleasesLast

\* set_temporary_normal runs the script of NORMAL only while the restore of the
\* mode it read is armed, also when an earlier call had to be undone.
THEOREM RestoreIsArmed ==
  Spec => ArmedBeforeNormal
<1>1. IInv /\ Counts /\ [Next]_vars =>
        [job.do = "temporary" /\ ~job.shaken /\ Ours /\ gmode # "normal" /\ gmode' = "normal"
           => temp = job.mode]_vars
  BY ArmedBeforeNormalStep
<1> QED
  BY <1>1, Always, PTL DEF Spec, ArmedBeforeNormal

\* A request that has passed assert_policy_enforcement_ready leaves the gate as
\* open as it found it: no interrupted or lost sequence of its calls makes a
\* duplicate or a contradictory mode, for any devices, services and schedules.
THEOREM GateStaysOpen ==
  Spec => NoSelfLockout
<1>1. IInv /\ Counts /\ [Next]_vars =>
        [Ready /\ ~job.shaken /\ edits' = edits => Ready' \/ ~web' \/ (late /\ gmode' = "blocked")]_vars
  BY NoSelfLockoutStep
<1> QED
  BY <1>1, Always, PTL DEF Spec, NoSelfLockout
=============================================================================
