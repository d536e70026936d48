---------------------------- MODULE McacheProofs ----------------------------
(***************************************************************************)
(* Proofs about Mcache for every number of classes, slots, managers and    *)
(* caches: where objects live, what the lists hold, and that the chain of  *)
(* managers always serves.                                                 *)
(***************************************************************************)
EXTENDS Mcache, SequenceTheorems, FiniteSetTheorems, WellFoundedInduction, TLAPS

(* Induction over the natural numbers, for a property given as a set: a set *)
(* of natural numbers has a least element.                                 *)
LEMMA NatMin ==
  ASSUME NEW T, T \subseteq Nat, T # {}
  PROVE  \E x \in T : \A y \in T : x =< y
<1> DEFINE R == {ss \in Nat \X Nat : ss[1] < ss[2]}
<1>0. IsWellFoundedOn(R, Nat)
  BY NatLessThanWellFounded DEF OpToRel
<1> HIDE DEF R
<1>1. PICK x \in T : \A y \in T : ~(<<y, x>> \in R)
  BY <1>0, WFMin, Zenon
<1>2. \A y \in T : ~(y < x)
  BY <1>1 DEF R
<1> QED BY <1>2

LEMMA NatInd ==
  ASSUME NEW N \in Nat, NEW P, 0 \in P,
         \A k \in 0..(N - 1) : k \in P => k + 1 \in P
  PROVE  \A k \in 0..N : k \in P
<1> DEFINE T == {k \in 0..N : k \notin P}
<1> SUFFICES ASSUME T # {} PROVE FALSE
  OBVIOUS
<1>1. PICK x \in T : \A y \in T : x =< y
  <2>1. T \subseteq Nat
    OBVIOUS
  <2> HIDE DEF T
  <2> QED BY <2>1, NatMin
<1>2. x # 0 /\ x \in 1..N
  BY <1>1
<1>3. x - 1 \in 0..(N - 1) /\ x - 1 \notin T
  BY <1>1, <1>2
<1>4. x - 1 \in P
  BY <1>3
<1> QED BY <1>1, <1>3, <1>4, (x - 1) + 1 = x

LEMMA MinIs ==
  ASSUME NEW T, T \subseteq Nat, T # {}
  PROVE  Min(T) \in T
<1>1. \E x \in T : \A y \in T : x =< y
  BY NatMin
<1> QED BY <1>1, Zenon DEF Min

-----------------------------------------------------------------------------
(* A list of managers: q[l - 1] is its head, which next[First] names, and   *)
(* next leads from q[i] to q[i - 1].  S is the set of its managers.         *)
IsList(q, l, next, S) ==
    /\ q \in [0..(l - 1) -> S]
    /\ \A i, j \in 0..(l - 1) : q[i] = q[j] => i = j
    /\ \A m \in S : \E i \in 0..(l - 1) : q[i] = m
    /\ next[First] = IF l = 0 THEN None ELSE q[l - 1]
    /\ \A i \in 0..(l - 1) : next[q[i]] = IF i = 0 THEN None ELSE q[i - 1]

ListDef(next, f) ==
    f = [i \in 0..MaxMgrs |->
           IF i = 0 THEN {next[First]}
           ELSE f[i - 1] \cup {next[m] : m \in f[i - 1] \ {None}}]

(* The recursive function in Listed exists. *)
LEMMA ListExists ==
  ASSUME NEW next
  PROVE  \E f : ListDef(next, f)
<1> DEFINE N == MaxMgrs
           Body(f, i) == IF i = 0 THEN {next[First]}
                         ELSE f[i - 1] \cup {next[m] : m \in f[i - 1] \ {None}}
           Def(n, f) == \A i \in 0..n : f[i] = Body(f, i)
           P == {n \in 0..N : \E f : Def(n, f)}
<1>0. N \in Nat
  BY McacheAssumption
<1>1. 0 \in P
  <2> DEFINE f == [i \in 0..N |-> {next[First]}]
  <2>1. Def(0, f)
    BY <1>0
  <2>2. 0 \in 0..N
    BY <1>0
  <2> HIDE DEF Def
  <2> QED BY <2>1, <2>2
<1>2. ASSUME NEW n \in 0..(N - 1), n \in P PROVE n + 1 \in P
  <2>1. PICK f : Def(n, f)
    BY <1>2
  <2> DEFINE g == [i \in 0..N |-> IF i = n + 1 THEN Body(f, n + 1) ELSE f[i]]
  <2>2. ASSUME NEW i \in 0..(n + 1) PROVE g[i] = Body(g, i)
    <3>1. i \in 0..N /\ (i # 0 => i - 1 \in 0..N /\ i - 1 # n + 1)
      BY <1>0
    <3>2. i # 0 => g[i - 1] = f[i - 1]
      BY <3>1
    <3>3. CASE i = n + 1
      BY <3>1, <3>2, <3>3
    <3>4. CASE i # n + 1
      <4>1. i \in 0..n
        BY <3>4
      <4>2. f[i] = Body(f, i) /\ g[i] = f[i]
        BY <2>1, <3>1, <3>4, <4>1
      <4> QED BY <3>2, <4>2
    <3> QED BY <3>3, <3>4
  <2> HIDE DEF g, Body
  <2>3. Def(n + 1, g)
    BY <2>2
  <2> HIDE DEF Def
  <2>4. n + 1 \in 0..N
    BY <1>0
  <2> QED BY <2>3, <2>4
<1>3. N \in P
  <2> HIDE DEF P, N
  <2> QED BY <1>0, <1>1, <1>2, NatInd
<1>4. PICK f : Def(N, f)
  BY <1>3
<1> DEFINE h == [i \in 0..N |-> f[i]]
<1>5. ASSUME NEW i \in 0..N PROVE h[i] = Body(h, i)
  <2>1. f[i] = Body(f, i) /\ h[i] = f[i]
    BY <1>4
  <2>2. i # 0 => i - 1 \in 0..N
    BY <1>0
  <2> QED BY <2>1, <2>2
<1>6. ListDef(next, h)
  BY <1>5 DEF ListDef
<1> QED BY <1>6

LEMMA ListedIs ==
  ASSUME NEW next
  PROVE  \E f : ListDef(next, f) /\ Listed(next) = f[MaxMgrs] \ {None}
<1> DEFINE f == CHOOSE f : ListDef(next, f)
<1>1. ListDef(next, f)
  BY ListExists, Zenon
<1>2. Listed(next) = f[MaxMgrs] \ {None}
  BY Zenon DEF Listed, ListDef
<1> QED BY <1>1, <1>2

(* What is listed is what the list holds, and no two lead to one. *)
LEMMA ListHolds ==
  ASSUME NEW q, NEW l \in Nat, NEW next, NEW S, IsList(q, l, next, S),
         S \subseteq MgrIds \ {First}
  PROVE  /\ Listed(next) = S
         /\ \A a, b \in S \cup {First} : a # b /\ next[a] # None => next[a] # next[b]
<1>0. MaxMgrs \in Nat \ {0} /\ None \notin S /\ First \notin S
  BY McacheAssumption DEF MgrIds, None, First
<1>1. l =< MaxMgrs
  <2>1. q \in Injection(0..(l - 1), MgrIds)
    BY DEF IsList, Injection, IsInjective
  <2>2. IsFiniteSet(MgrIds) /\ Cardinality(MgrIds) = MaxMgrs
    BY <1>0, FS_Interval DEF MgrIds
  <2>3. Cardinality(0..(l - 1)) =< MaxMgrs
    BY <2>1, <2>2, FS_Injection
  <2>4. Cardinality(0..(l - 1)) = l
    <3>1. Cardinality(0..(l - 1)) = IF 0 > l - 1 THEN 0 ELSE (l - 1) - 0 + 1
      BY FS_Interval
    <3> QED BY <3>1
  <2> QED BY <2>3, <2>4
<1>2. PICK f : ListDef(next, f) /\ Listed(next) = f[MaxMgrs] \ {None}
  BY ListedIs
<1>3. \A i \in 0..MaxMgrs :
        f[i] = IF i = 0 THEN {next[First]}
               ELSE f[i - 1] \cup {next[m] : m \in f[i - 1] \ {None}}
  BY <1>2 DEF ListDef
<1>4. next[First] \in S \cup {None} /\ \A m \in S : next[m] \in S \cup {None}
  <2>1. next[First] \in S \cup {None}
    BY DEF IsList
  <2>2. ASSUME NEW m \in S PROVE next[m] \in S \cup {None}
    <3>1. PICK i \in 0..(l - 1) : q[i] = m
      BY DEF IsList
    <3>2. i # 0 => i - 1 \in 0..(l - 1)
      OBVIOUS
    <3> QED BY <3>1, <3>2 DEF IsList
  <2> QED BY <2>1, <2>2
<1>5. \A i \in 0..MaxMgrs : f[i] \subseteq S \cup {None}
  <2> DEFINE P == {i \in 0..MaxMgrs : f[i] \subseteq S \cup {None}}
  <2>1. 0 \in P
    <3>1. 0 \in 0..MaxMgrs
      BY <1>0
    <3>2. f[0] = {next[First]}
      BY <1>3, <3>1
    <3> QED BY <1>4, <3>1, <3>2
  <2>2. ASSUME NEW i \in 0..(MaxMgrs - 1), i \in P PROVE i + 1 \in P
    <3>1. i + 1 \in 0..MaxMgrs /\ i + 1 # 0 /\ (i + 1) - 1 = i
      BY <1>0
    <3>2. f[i + 1] = f[i] \cup {next[m] : m \in f[i] \ {None}}
      BY <1>3, <3>1
    <3> QED BY <1>4, <2>2, <3>1, <3>2
  <2> HIDE DEF P
  <2>3. \A i \in 0..MaxMgrs : i \in P
    BY <1>0, <2>1, <2>2, NatInd
  <2> QED BY <2>3 DEF P
<1>6. \A i \in 0..MaxMgrs : \A j \in 0..(l - 1) : j + i >= l - 1 => q[j] \in f[i]
  <2> DEFINE P == {i \in 0..MaxMgrs : \A j \in 0..(l - 1) : j + i >= l - 1 => q[j] \in f[i]}
  <2>1. 0 \in P
    <3>1. ASSUME NEW j \in 0..(l - 1), j + 0 >= l - 1 PROVE q[j] \in f[0]
      <4>1. j = l - 1 /\ l # 0
        BY <3>1
      <4>2. 0 \in 0..MaxMgrs
        BY <1>0
      <4>3. f[0] = {next[First]}
        BY <1>3, <4>2
      <4> QED BY <4>1, <4>3 DEF IsList
    <3> QED BY <1>0, <3>1
  <2>2. ASSUME NEW i \in 0..(MaxMgrs - 1), i \in P PROVE i + 1 \in P
    <3>1. i + 1 \in 0..MaxMgrs /\ i + 1 # 0 /\ (i + 1) - 1 = i
      BY <1>0
    <3>2. f[i + 1] = f[i] \cup {next[m] : m \in f[i] \ {None}}
      BY <1>3, <3>1
    <3>3. ASSUME NEW j \in 0..(l - 1), j + (i + 1) >= l - 1 PROVE q[j] \in f[i + 1]
      <4>1. CASE j + i >= l - 1
        BY <2>2, <3>2, <4>1
      <4>2. CASE ~(j + i >= l - 1)
        <5>1. j + 1 \in 0..(l - 1) /\ (j + 1) + i >= l - 1 /\ j + 1 # 0 /\ (j + 1) - 1 = j
          BY <3>3, <4>2
        <5>2. q[j + 1] \in f[i]
          BY <2>2, <5>1
        <5>3. next[q[j + 1]] = q[j] /\ q[j + 1] \in S
          BY <5>1 DEF IsList
        <5> QED BY <1>0, <3>2, <5>2, <5>3
      <4> QED BY <4>1, <4>2
    <3> QED BY <3>1, <3>3
  <2> HIDE DEF P
  <2>3. \A i \in 0..MaxMgrs : i \in P
    BY <1>0, <2>1, <2>2, NatInd
  <2> QED BY <2>3 DEF P
<1>7. S \subseteq f[MaxMgrs]
  <2>1. ASSUME NEW m \in S PROVE m \in f[MaxMgrs]
    <3>1. PICK j \in 0..(l - 1) : q[j] = m
      BY DEF IsList
    <3>2. j + MaxMgrs >= l - 1 /\ MaxMgrs \in 0..MaxMgrs
      BY <1>0, <1>1
    <3> QED BY <1>6, <3>1, <3>2
  <2> QED BY <2>1
<1>8. Listed(next) = S
  <2>1. f[MaxMgrs] \subseteq S \cup {None}
    BY <1>0, <1>5
  <2> QED BY <1>0, <1>2, <1>7, <2>1
<1>9. ASSUME NEW a \in S \cup {First}, NEW b \in S \cup {First}, a # b, next[a] # None,
             next[a] = next[b]
      PROVE  FALSE
  <2>1. ASSUME NEW m \in S \cup {First}, next[m] # None
        PROVE  \E i \in 0..l : /\ i # 0 /\ next[m] = q[i - 1]
                               /\ IF i = l THEN m = First ELSE m = q[i]
    <3>1. CASE m = First
      <4>1. l # 0 /\ next[m] = q[l - 1]
        BY <2>1, <3>1 DEF IsList
      <4> QED BY <3>1, <4>1
    <3>2. CASE m \in S
      <4>1. PICK i \in 0..(l - 1) : q[i] = m
        BY <3>2 DEF IsList
      <4>2. i # 0 /\ next[m] = q[i - 1]
        BY <2>1, <4>1 DEF IsList
      <4>3. i \in 0..l /\ i # l
        OBVIOUS
      <4> QED BY <4>1, <4>2, <4>3
    <3> QED BY <3>1, <3>2
  <2>2. PICK i \in 0..l : /\ i # 0 /\ next[a] = q[i - 1]
                          /\ IF i = l THEN a = First ELSE a = q[i]
    BY <1>9, <2>1
  <2>3. PICK j \in 0..l : /\ j # 0 /\ next[b] = q[j - 1]
                          /\ IF j = l THEN b = First ELSE b = q[j]
    BY <1>9, <2>1
  <2>4. i - 1 \in 0..(l - 1) /\ j - 1 \in 0..(l - 1)
    BY <2>2, <2>3
  <2>5. i - 1 = j - 1
    <3>1. \A a1, b1 \in 0..(l - 1) : q[a1] = q[b1] => a1 = b1
      BY DEF IsList
    <3>2. q[i - 1] = q[j - 1]
      BY <1>9, <2>2, <2>3
    <3> QED BY <2>4, <3>1, <3>2
  <2>6. i = j
    BY <2>5
  <2> QED BY <1>9, <2>2, <2>3, <2>6
<1> QED BY <1>8, <1>9

(* The list stays as long as its links do. *)
LEMMA ListSame ==
  ASSUME NEW q, NEW l \in Nat, NEW next, NEW S, IsList(q, l, next, S),
         NEW new, \A m \in S \cup {First} : new[m] = next[m]
  PROVE  IsList(q, l, new, S)
BY DEF IsList

PushedOn(next, new, S, m) ==
    new[First] = m /\ new[m] = next[First] /\ \A a \in S : new[a] = next[a]

PoppedOff(next, new, S, m) ==
    m = next[First] /\ new[First] = next[m] /\ \A a \in S \ {m} : new[a] = next[a]

LEMMA ListPush ==
  ASSUME NEW q, NEW l \in Nat, NEW next, NEW S, IsList(q, l, next, S),
         NEW m, m \notin S, First \notin S, m # First,
         NEW new, PushedOn(next, new, S, m)
  PROVE  \E r : \E k \in Nat : IsList(r, k, new, S \cup {m})
<1>0. new[First] = m /\ new[m] = next[First] /\ \A a \in S : new[a] = next[a]
  BY DEF PushedOn
<1> DEFINE r == [i \in 0..l |-> IF i = l THEN m ELSE q[i]]
<1>1. /\ \A i \in 0..(l - 1) : r[i] = q[i] /\ q[i] \in S /\ q[i] # m
      /\ r[l] = m /\ r \in [0..l -> S \cup {m}]
  BY DEF IsList
<1> HIDE DEF r
<1>2. \A i \in 0..l : i = l \/ i \in 0..(l - 1)
  OBVIOUS
<1>3. \A i, j \in 0..l : r[i] = r[j] => i = j
  BY <1>1, <1>2 DEF IsList
<1>4. \A a \in S \cup {m} : \E i \in 0..l : r[i] = a
  <2>1. \A i \in 0..(l - 1) : i \in 0..l
    OBVIOUS
  <2>2. l \in 0..l
    OBVIOUS
  <2> QED BY <1>1, <2>1, <2>2 DEF IsList
<1>5. ASSUME NEW i \in 0..l PROVE new[r[i]] = IF i = 0 THEN None ELSE r[i - 1]
  <2>1. CASE i = l
    <3>1. l # 0 => l - 1 \in 0..(l - 1)
      OBVIOUS
    <3> QED BY <1>0, <1>1, <2>1, <3>1 DEF IsList
  <2>2. CASE i # l
    <3>1. i \in 0..(l - 1) /\ (i # 0 => i - 1 \in 0..(l - 1))
      BY <2>2
    <3> QED BY <1>0, <1>1, <3>1 DEF IsList
  <2> QED BY <2>1, <2>2
<1>6. l + 1 \in Nat /\ (l + 1) - 1 = l /\ l + 1 # 0
  OBVIOUS
<1>7. IsList(r, l + 1, new, S \cup {m})
  BY <1>0, <1>1, <1>3, <1>4, <1>5, <1>6 DEF IsList
<1> QED BY <1>6, <1>7

LEMMA ListPop ==
  ASSUME NEW q, NEW l \in Nat, NEW next, NEW S, IsList(q, l, next, S),
         NEW m, m # None, First \notin S, NEW new, PoppedOff(next, new, S, m)
  PROVE  m \in S /\ \E r : \E k \in Nat : IsList(r, k, new, S \ {m})
<1>0. m = next[First] /\ new[First] = next[m] /\ \A a \in S \ {m} : new[a] = next[a]
  BY DEF PoppedOff
<1>1. l # 0 /\ m = q[l - 1] /\ l - 1 \in 0..(l - 1) /\ l - 1 \in Nat
  BY <1>0 DEF IsList
<1> DEFINE k == l - 1
           r == [i \in 0..(k - 1) |-> q[i]]
<1>2. \A i \in 0..(k - 1) : i \in 0..(l - 1) /\ i # l - 1
  BY <1>1
<1>3. \A i \in 0..(k - 1) : r[i] = q[i] /\ q[i] \in S \ {m}
  BY <1>1, <1>2 DEF IsList
<1>4. r \in [0..(k - 1) -> S \ {m}]
  BY <1>3
<1> HIDE DEF r
<1>5. \A i, j \in 0..(k - 1) : r[i] = r[j] => i = j
  BY <1>2, <1>3 DEF IsList
<1>6. ASSUME NEW a \in S \ {m} PROVE \E i \in 0..(k - 1) : r[i] = a
  <2>1. PICK i \in 0..(l - 1) : q[i] = a
    BY DEF IsList
  <2>2. i # l - 1
    BY <1>1, <2>1
  <2>3. i \in 0..(k - 1)
    BY <2>2
  <2> QED BY <1>3, <2>1, <2>3
<1>7. ASSUME NEW i \in 0..(k - 1) PROVE new[r[i]] = IF i = 0 THEN None ELSE r[i - 1]
  <2>1. i # 0 => i - 1 \in 0..(k - 1)
    OBVIOUS
  <2>2. next[q[i]] = IF i = 0 THEN None ELSE q[i - 1]
    BY <1>2 DEF IsList
  <2> QED BY <1>0, <1>3, <2>1, <2>2
<1>8. new[First] = IF k = 0 THEN None ELSE r[k - 1]
  <2>1. next[q[l - 1]] = IF l - 1 = 0 THEN None ELSE q[(l - 1) - 1]
    BY <1>1 DEF IsList
  <2>2. k # 0 => k - 1 \in 0..(k - 1)
    BY <1>1
  <2> QED BY <1>0, <1>1, <1>3, <2>1, <2>2
<1>9. IsList(r, k, new, S \ {m})
  BY <1>4, <1>5, <1>6, <1>7, <1>8 DEF IsList
<1>10. m \in S
  BY <1>1 DEF IsList
<1> QED BY <1>1, <1>9, <1>10

-----------------------------------------------------------------------------
(* The invariant, of a heap h whose callers hold x[k] objects in cache k.   *)
MgrType(n) ==
    [caches : [Slots -> 0..MaxCaches], next : 0..MaxMgrs, prev : 0..n,
     next_partial_free : [Classes -> 0..n], partial_counts : [Classes -> Nat],
     next_free : 0..n, used_slots : 0..SlotNum]

CacheType == [class : Classes, free : Nat, used : Nat, owner : 0..MaxMgrs]

HeapType(h) ==
    /\ DOMAIN h = {"mgrs", "caches", "cell", "at"}
    /\ Len(h.mgrs) \in MgrIds /\ h.mgrs \in Seq(MgrType(Len(h.mgrs)))
    /\ h.caches \in [CacheIds -> CacheType]
    /\ h.cell \in [MgrIds -> 0..MaxCaches]
    /\ \A m \in DOMAIN h.mgrs : h.mgrs[m].prev = m - 1

Holds(h, k) == {m \in MgrIds : h.cell[m] = k}

Objects(h, x) ==
    /\ x \in [CacheIds -> Nat]
    /\ \A k \in CacheIds :
         /\ h.caches[k].used = x[k] + Cardinality(Holds(h, k))
         /\ h.caches[k].used = 0 => h.caches[k] = NoCache
         /\ h.caches[k].used # 0 =>
              h.caches[k].free + h.caches[k].used = Cells[h.caches[k].class]

Homes(h) ==
    /\ \A m \in DOMAIN h.mgrs, s \in Slots : h.mgrs[m].caches[s] # None =>
         /\ h.caches[h.mgrs[m].caches[s]].owner = m
         /\ h.caches[h.mgrs[m].caches[s]].used # 0
    /\ \A m \in DOMAIN h.mgrs, s, t \in Slots :
         h.mgrs[m].caches[s] # None /\ h.mgrs[m].caches[s] = h.mgrs[m].caches[t] => s = t
    /\ \A k \in CacheIds : h.caches[k].used # 0 =>
         /\ h.caches[k].owner \in DOMAIN h.mgrs
         /\ \E s \in Slots : h.mgrs[h.caches[k].owner].caches[s] = k

Occupied(h, m) == {s \in Slots : h.mgrs[m].caches[s] # None}

Counts(h) ==
    \A m \in DOMAIN h.mgrs :
      /\ h.mgrs[m].used_slots = Cardinality(Occupied(h, m))
      /\ \A c \in Classes : Cells[c] > 1 =>
           h.mgrs[m].partial_counts[c] = Cardinality(Usable(h, m, c))

(* The later managers with a free slot, and those with a usable cache *)
Roomy(h) == {m \in DOMAIN h.mgrs \ {First} : h.mgrs[m].used_slots < SlotNum}
Partial(h, c) == {m \in DOMAIN h.mgrs \ {First} : Usable(h, m, c) # {}}

FreeNext(h) == [m \in DOMAIN h.mgrs |-> h.mgrs[m].next_free]
PartialNext(h, c) == [m \in DOMAIN h.mgrs |-> h.mgrs[m].next_partial_free[c]]

FreeOK(h) == \E q : \E l \in Nat : IsList(q, l, FreeNext(h), Roomy(h))

PartialListOK(h, c) ==
    \E q : \E l \in Nat : IsList(q, l, PartialNext(h, c), Partial(h, c))

PartialOK(h) == \A c \in Classes : Cells[c] > 1 => PartialListOK(h, c)

Core(h, x, st) ==
    /\ HeapType(h) /\ Objects(h, x) /\ Homes(h) /\ Counts(h) /\ FreeOK(h)
    /\ ~st => PartialOK(h)

(* Every manager but the last has a successor, which is an object of one of *)
(* its caches; the last one has no caches.                                 *)
Chain(h) ==
    /\ \A m \in DOMAIN h.mgrs : h.mgrs[m].next = IF m = Len(h.mgrs) THEN None ELSE m + 1
    /\ \A m \in MgrIds : IF m \in 2..Len(h.mgrs)
                         THEN h.cell[m] # None /\ h.caches[h.cell[m]].owner = m - 1
                         ELSE h.cell[m] = None
    /\ h.mgrs[Len(h.mgrs)].used_slots = 0
    /\ \A c \in Classes : h.mgrs[Len(h.mgrs)].partial_counts[c] = 0

McacheInv ==
    /\ Core(Heap, live, stale) /\ Chain(Heap)
    /\ status \in {"ok", "no_partial"} /\ stale \in BOOLEAN
    /\ ~stale /\ (\A c \in Classes : Cells[c] > 1) => status # "no_partial"

-----------------------------------------------------------------------------
(* Writing fields of the managers *)
WithCount(M, m, c, v) == [M EXCEPT ![m].partial_counts[c] = v]
WithPartial(M, m, c, p) == [M EXCEPT ![m].next_partial_free[c] = p]
WithFree(M, m, p) == [M EXCEPT ![m].next_free = p]
WithSlot(M, m, s, k, u) == [M EXCEPT ![m].caches[s] = k, ![m].used_slots = u]

(* Alike: managers that differ in what a size class has of free cells only *)
Alike(a, b) ==
    /\ a.caches = b.caches /\ a.next = b.next /\ a.prev = b.prev
    /\ a.next_free = b.next_free /\ a.used_slots = b.used_slots

LEMMA CountWritten ==
  ASSUME NEW n \in Nat, NEW M \in Seq(MgrType(n)), NEW m \in 1..Len(M), NEW c \in Classes,
         NEW v \in Nat, NEW N, N = WithCount(M, m, c, v)
  PROVE  /\ N \in Seq(MgrType(n)) /\ Len(N) = Len(M)
         /\ \A i \in 1..Len(M) :
              /\ Alike(N[i], M[i]) /\ N[i].next_partial_free = M[i].next_partial_free
              /\ \A d \in Classes : N[i].partial_counts[d] =
                   IF i = m /\ d = c THEN v ELSE M[i].partial_counts[d]
<1> DEFINE pc == [M[m].partial_counts EXCEPT ![c] = v]
           r == [M[m] EXCEPT !.partial_counts = pc]
<1>1. M[m] \in MgrType(n)
  OBVIOUS
<1>2. /\ pc \in [Classes -> Nat] /\ pc[c] = v
      /\ \A d \in Classes : d # c => pc[d] = M[m].partial_counts[d]
  BY <1>1 DEF MgrType
<1> HIDE DEF pc
<1>3. /\ r \in MgrType(n) /\ Alike(r, M[m]) /\ r.partial_counts = pc
      /\ r.next_partial_free = M[m].next_partial_free
  BY <1>1, <1>2 DEF MgrType, Alike
<1>4. N = [M EXCEPT ![m] = r]
  BY DEF WithCount, pc
<1> HIDE DEF r
<1>5. /\ N \in Seq(MgrType(n)) /\ Len(N) = Len(M) /\ N[m] = r
      /\ \A i \in 1..Len(M) : i # m => N[i] = M[i]
  BY <1>3, <1>4, ExceptSeq
<1> QED BY <1>2, <1>3, <1>5 DEF Alike

LEMMA PartialWritten ==
  ASSUME NEW n \in Nat, NEW M \in Seq(MgrType(n)), NEW m \in 1..Len(M), NEW c \in Classes,
         NEW p \in 0..n, NEW N, N = WithPartial(M, m, c, p)
  PROVE  /\ N \in Seq(MgrType(n)) /\ Len(N) = Len(M)
         /\ \A i \in 1..Len(M) :
              /\ Alike(N[i], M[i]) /\ N[i].partial_counts = M[i].partial_counts
              /\ \A d \in Classes : N[i].next_partial_free[d] =
                   IF i = m /\ d = c THEN p ELSE M[i].next_partial_free[d]
<1> DEFINE np == [M[m].next_partial_free EXCEPT ![c] = p]
           r == [M[m] EXCEPT !.next_partial_free = np]
<1>1. M[m] \in MgrType(n)
  OBVIOUS
<1>2. /\ np \in [Classes -> 0..n] /\ np[c] = p
      /\ \A d \in Classes : d # c => np[d] = M[m].next_partial_free[d]
  BY <1>1 DEF MgrType
<1> HIDE DEF np
<1>3. /\ r \in MgrType(n) /\ Alike(r, M[m]) /\ r.next_partial_free = np
      /\ r.partial_counts = M[m].partial_counts
  BY <1>1, <1>2 DEF MgrType, Alike
<1>4. N = [M EXCEPT ![m] = r]
  BY DEF WithPartial, np
<1> HIDE DEF r
<1>5. /\ N \in Seq(MgrType(n)) /\ Len(N) = Len(M) /\ N[m] = r
      /\ \A i \in 1..Len(M) : i # m => N[i] = M[i]
  BY <1>3, <1>4, ExceptSeq
<1> QED BY <1>2, <1>3, <1>5 DEF Alike

LEMMA FreeWritten ==
  ASSUME NEW n \in Nat, NEW M \in Seq(MgrType(n)), NEW m \in 1..Len(M), NEW p \in 0..n,
         NEW N, N = WithFree(M, m, p)
  PROVE  /\ N \in Seq(MgrType(n)) /\ Len(N) = Len(M) /\ N[m].next_free = p
         /\ \A i \in 1..Len(M) :
              /\ i # m => N[i] = M[i]
              /\ N[i].caches = M[i].caches /\ N[i].next = M[i].next /\ N[i].prev = M[i].prev
              /\ N[i].used_slots = M[i].used_slots
              /\ N[i].next_partial_free = M[i].next_partial_free
              /\ N[i].partial_counts = M[i].partial_counts
<1> DEFINE r == [M[m] EXCEPT !.next_free = p]
<1>1. M[m] \in MgrType(n)
  OBVIOUS
<1>2. /\ r \in MgrType(n) /\ r.next_free = p /\ r.caches = M[m].caches
      /\ r.next = M[m].next /\ r.prev = M[m].prev /\ r.used_slots = M[m].used_slots
      /\ r.next_partial_free = M[m].next_partial_free
      /\ r.partial_counts = M[m].partial_counts
  BY <1>1 DEF MgrType
<1>3. N = [M EXCEPT ![m] = r]
  BY DEF WithFree
<1> HIDE DEF r
<1>4. /\ N \in Seq(MgrType(n)) /\ Len(N) = Len(M) /\ N[m] = r
      /\ \A i \in 1..Len(M) : i # m => N[i] = M[i]
  BY <1>2, <1>3, ExceptSeq
<1> QED BY <1>2, <1>4

(* Slot s of manager m is now k, u slots are in use, and all else is as before. *)
SlotIn(M, N, n, m, s, k, u) ==
    /\ N \in Seq(MgrType(n)) /\ Len(N) = Len(M) /\ N[m].used_slots = u
    /\ \A t \in Slots : N[m].caches[t] = IF t = s THEN k ELSE M[m].caches[t]
    /\ \A i \in 1..Len(M) :
         /\ i # m => N[i] = M[i]
         /\ N[i].next = M[i].next /\ N[i].prev = M[i].prev
         /\ N[i].next_free = M[i].next_free
         /\ N[i].next_partial_free = M[i].next_partial_free
         /\ N[i].partial_counts = M[i].partial_counts

LEMMA SlotWritten ==
  ASSUME NEW n \in Nat, NEW M \in Seq(MgrType(n)), NEW m \in 1..Len(M), NEW s \in Slots,
         NEW k \in 0..MaxCaches, NEW u \in 0..SlotNum, NEW N, N = WithSlot(M, m, s, k, u)
  PROVE  SlotIn(M, N, n, m, s, k, u)
<1> DEFINE cs == [M[m].caches EXCEPT ![s] = k]
           r == [M[m] EXCEPT !.caches = cs, !.used_slots = u]
<1>1. M[m] \in MgrType(n)
  OBVIOUS
<1>2. /\ cs \in [Slots -> 0..MaxCaches]
      /\ \A t \in Slots : cs[t] = IF t = s THEN k ELSE M[m].caches[t]
  BY <1>1 DEF MgrType
<1>3. N = [M EXCEPT ![m] = r]
  BY DEF WithSlot
<1> HIDE DEF cs
<1>4. /\ r \in MgrType(n) /\ r.caches = cs /\ r.used_slots = u
      /\ r.next = M[m].next /\ r.prev = M[m].prev /\ r.next_free = M[m].next_free
      /\ r.next_partial_free = M[m].next_partial_free
      /\ r.partial_counts = M[m].partial_counts
  BY <1>1, <1>2 DEF MgrType
<1> HIDE DEF r
<1>5. /\ N \in Seq(MgrType(n)) /\ Len(N) = Len(M) /\ N[m] = r
      /\ \A i \in 1..Len(M) : i # m => N[i] = M[i]
  BY <1>3, <1>4, ExceptSeq
<1> QED BY <1>2, <1>4, <1>5 DEF SlotIn

-----------------------------------------------------------------------------
(* Two heaps that agree in a part of what their managers hold *)
SameSlots(h, g) ==
    \A i \in 1..Len(h.mgrs) :
      g.mgrs[i].caches = h.mgrs[i].caches /\ g.mgrs[i].used_slots = h.mgrs[i].used_slots

SameFree(h, g) == \A i \in 1..Len(h.mgrs) : g.mgrs[i].next_free = h.mgrs[i].next_free

SameNext(h, g) == \A i \in 1..Len(h.mgrs) : g.mgrs[i].next = h.mgrs[i].next

SameCounts(h, g) ==
    \A i \in 1..Len(h.mgrs), d \in Classes :
      g.mgrs[i].partial_counts[d] = h.mgrs[i].partial_counts[d]

SamePartial(h, g) ==
    \A i \in 1..Len(h.mgrs), d \in Classes :
      g.mgrs[i].next_partial_free[d] = h.mgrs[i].next_partial_free[d]

Recounted(h, g, m, c, v) ==
    \A i \in 1..Len(h.mgrs), d \in Classes : g.mgrs[i].partial_counts[d] =
      IF i = m /\ d = c THEN v ELSE h.mgrs[i].partial_counts[d]

Relinked(h, g, m, c, p) ==
    \A i \in 1..Len(h.mgrs), d \in Classes : g.mgrs[i].next_partial_free[d] =
      IF i = m /\ d = c THEN p ELSE h.mgrs[i].next_partial_free[d]

Freed(h, g, m, p) ==
    \A i \in 1..Len(h.mgrs) : g.mgrs[i].next_free =
      IF i = m THEN p ELSE h.mgrs[i].next_free

Slotted(h, g, m, s, k, u) ==
    /\ \A i \in 1..Len(h.mgrs) : \A t \in Slots : g.mgrs[i].caches[t] =
         IF i = m /\ t = s THEN k ELSE h.mgrs[i].caches[t]
    /\ \A i \in 1..Len(h.mgrs) : g.mgrs[i].used_slots =
         IF i = m THEN u ELSE h.mgrs[i].used_slots

Typed(h, g) == HeapType(g) /\ Len(g.mgrs) = Len(h.mgrs)

SameCells(h, g) == g.caches = h.caches /\ g.cell = h.cell

(* A slot is written, and before or after it the slots stay as they are. *)
LEMMA ThenSlotted ==
  ASSUME NEW h, NEW f, NEW g, NEW m, NEW s, NEW k, NEW u,
         SameSlots(h, f), Len(f.mgrs) = Len(h.mgrs), Slotted(f, g, m, s, k, u)
  PROVE  Slotted(h, g, m, s, k, u)
<1>1. \A i \in 1..Len(h.mgrs) :
        f.mgrs[i].caches = h.mgrs[i].caches /\ f.mgrs[i].used_slots = h.mgrs[i].used_slots
  BY DEF SameSlots
<1>2. /\ \A i \in 1..Len(h.mgrs) : \A t \in Slots : g.mgrs[i].caches[t] =
           IF i = m /\ t = s THEN k ELSE f.mgrs[i].caches[t]
      /\ \A i \in 1..Len(h.mgrs) : g.mgrs[i].used_slots =
           IF i = m THEN u ELSE f.mgrs[i].used_slots
  BY DEF Slotted
<1>3. \A i \in 1..Len(h.mgrs) : \A t \in Slots : g.mgrs[i].caches[t] =
        IF i = m /\ t = s THEN k ELSE h.mgrs[i].caches[t]
  BY ONLY <1>1, <1>2
<1>4. \A i \in 1..Len(h.mgrs) : g.mgrs[i].used_slots =
        IF i = m THEN u ELSE h.mgrs[i].used_slots
  BY ONLY <1>1, <1>2
<1> QED BY ONLY <1>3, <1>4 DEF Slotted

LEMMA SlottedThen ==
  ASSUME NEW h, NEW f, NEW g, NEW m, NEW s, NEW k, NEW u,
         Slotted(h, f, m, s, k, u), Len(f.mgrs) = Len(h.mgrs), SameSlots(f, g)
  PROVE  Slotted(h, g, m, s, k, u)
<1>1. \A i \in 1..Len(h.mgrs) :
        g.mgrs[i].caches = f.mgrs[i].caches /\ g.mgrs[i].used_slots = f.mgrs[i].used_slots
  BY DEF SameSlots
<1>2. /\ \A i \in 1..Len(h.mgrs) : \A t \in Slots : f.mgrs[i].caches[t] =
           IF i = m /\ t = s THEN k ELSE h.mgrs[i].caches[t]
      /\ \A i \in 1..Len(h.mgrs) : f.mgrs[i].used_slots =
           IF i = m THEN u ELSE h.mgrs[i].used_slots
  BY DEF Slotted
<1>3. \A i \in 1..Len(h.mgrs) : \A t \in Slots : g.mgrs[i].caches[t] =
        IF i = m /\ t = s THEN k ELSE h.mgrs[i].caches[t]
  BY ONLY <1>1, <1>2
<1>4. \A i \in 1..Len(h.mgrs) : g.mgrs[i].used_slots =
        IF i = m THEN u ELSE h.mgrs[i].used_slots
  BY ONLY <1>1, <1>2
<1> QED BY ONLY <1>3, <1>4 DEF Slotted

LEMMA HeapFacts ==
  ASSUME NEW h, HeapType(h)
  PROVE  /\ Len(h.mgrs) \in Nat /\ Len(h.mgrs) >= 1 /\ Len(h.mgrs) =< MaxMgrs
         /\ DOMAIN h.mgrs = 1..Len(h.mgrs) /\ First \in 1..Len(h.mgrs)
         /\ h.mgrs \in Seq(MgrType(Len(h.mgrs)))
         /\ \A i \in 1..Len(h.mgrs) :
              /\ h.mgrs[i] \in MgrType(Len(h.mgrs)) /\ h.mgrs[i].prev = i - 1
              /\ h.mgrs[i].caches \in [Slots -> 0..MaxCaches]
              /\ h.mgrs[i].next_partial_free \in [Classes -> 0..Len(h.mgrs)]
              /\ h.mgrs[i].partial_counts \in [Classes -> Nat]
              /\ h.mgrs[i].next_free \in 0..Len(h.mgrs)
              /\ h.mgrs[i].used_slots \in 0..SlotNum
         /\ \A k \in CacheIds : h.caches[k] \in CacheType
<1>1. /\ Len(h.mgrs) \in 1..MaxMgrs /\ h.mgrs \in Seq(MgrType(Len(h.mgrs)))
      /\ h.caches \in [CacheIds -> CacheType]
      /\ \A i \in DOMAIN h.mgrs : h.mgrs[i].prev = i - 1
  BY DEF HeapType, MgrIds
<1>2. DOMAIN h.mgrs = 1..Len(h.mgrs)
  BY <1>1
<1>3. Len(h.mgrs) \in Nat /\ Len(h.mgrs) >= 1 /\ Len(h.mgrs) =< MaxMgrs
  BY <1>1, McacheAssumption
<1>4. \A i \in 1..Len(h.mgrs) : h.mgrs[i] \in MgrType(Len(h.mgrs))
  BY <1>1
<1>5. First \in 1..Len(h.mgrs)
  BY <1>3 DEF First
<1> QED BY <1>1, <1>2, <1>3, <1>4, <1>5 DEF MgrType

LEMMA HeapTyped ==
  ASSUME NEW h, HeapType(h), NEW g, DOMAIN g = DOMAIN h, Len(g.mgrs) = Len(h.mgrs),
         g.mgrs \in Seq(MgrType(Len(h.mgrs))), g.caches \in [CacheIds -> CacheType],
         g.cell \in [MgrIds -> 0..MaxCaches], \A i \in 1..Len(h.mgrs) : g.mgrs[i].prev = h.mgrs[i].prev
  PROVE  HeapType(g)
<1>1. DOMAIN g.mgrs = 1..Len(g.mgrs) /\ DOMAIN h.mgrs = 1..Len(h.mgrs)
  BY HeapFacts
<1> QED BY <1>1 DEF HeapType

LEMMA SetCountFields ==
  ASSUME NEW h, HeapType(h), NEW m \in 1..Len(h.mgrs), NEW c \in Classes, NEW v \in Nat,
         NEW g, g = SetCount(h, m, c, v)
  PROVE  /\ Typed(h, g) /\ SameCells(h, g) /\ g.at = h.at
         /\ SameSlots(h, g) /\ SameFree(h, g) /\ SameNext(h, g) /\ SamePartial(h, g)
         /\ Recounted(h, g, m, c, v)
<1>1. DOMAIN h = {"mgrs", "caches", "cell", "at"}
  BY DEF HeapType
<1>2. /\ DOMAIN g = DOMAIN h /\ g.caches = h.caches /\ g.cell = h.cell /\ g.at = h.at
      /\ g.mgrs = WithCount(h.mgrs, m, c, v)
  BY <1>1 DEF SetCount, WithCount
<1>3. PICK n \in Nat : n = Len(h.mgrs)
  BY HeapFacts
<1>4. h.mgrs \in Seq(MgrType(n))
  BY <1>3, HeapFacts
<1>5. PICK N : N = WithCount(h.mgrs, m, c, v)
  OBVIOUS
<1>6. /\ N \in Seq(MgrType(n)) /\ Len(N) = n
      /\ \A i \in 1..n :
           /\ Alike(N[i], h.mgrs[i])
           /\ N[i].next_partial_free = h.mgrs[i].next_partial_free
           /\ \A d \in Classes : N[i].partial_counts[d] =
                IF i = m /\ d = c THEN v ELSE h.mgrs[i].partial_counts[d]
  BY <1>3, <1>4, <1>5, CountWritten
<1>7. g.mgrs = N
  BY <1>2, <1>5
<1>8. HeapType(g)
  <2>1. \A i \in 1..n : N[i].prev = h.mgrs[i].prev
    BY <1>6 DEF Alike
  <2>2. h.caches \in [CacheIds -> CacheType] /\ h.cell \in [MgrIds -> 0..MaxCaches]
    BY DEF HeapType
  <2> QED BY <1>2, <1>3, <1>6, <1>7, <2>1, <2>2, HeapTyped
<1> QED BY <1>2, <1>3, <1>6, <1>7, <1>8
      DEF Typed, SameCells, SameSlots, SameFree, SameNext, SamePartial, Recounted, Alike

LEMMA SetPartialFields ==
  ASSUME NEW h, HeapType(h), NEW m \in 1..Len(h.mgrs), NEW c \in Classes,
         NEW p \in 0..Len(h.mgrs), NEW g, g = SetPartial(h, m, c, p)
  PROVE  /\ Typed(h, g) /\ SameCells(h, g) /\ g.at = h.at
         /\ SameSlots(h, g) /\ SameFree(h, g) /\ SameNext(h, g) /\ SameCounts(h, g)
         /\ Relinked(h, g, m, c, p)
<1>1. DOMAIN h = {"mgrs", "caches", "cell", "at"}
  BY DEF HeapType
<1>2. /\ DOMAIN g = DOMAIN h /\ g.caches = h.caches /\ g.cell = h.cell /\ g.at = h.at
      /\ g.mgrs = WithPartial(h.mgrs, m, c, p)
  BY <1>1 DEF SetPartial, WithPartial
<1>3. PICK n \in Nat : n = Len(h.mgrs)
  BY HeapFacts
<1>4. h.mgrs \in Seq(MgrType(n))
  BY <1>3, HeapFacts
<1>5. PICK N : N = WithPartial(h.mgrs, m, c, p)
  OBVIOUS
<1>6. /\ N \in Seq(MgrType(n)) /\ Len(N) = n
      /\ \A i \in 1..n :
           /\ Alike(N[i], h.mgrs[i])
           /\ N[i].partial_counts = h.mgrs[i].partial_counts
           /\ \A d \in Classes : N[i].next_partial_free[d] =
                IF i = m /\ d = c THEN p ELSE h.mgrs[i].next_partial_free[d]
  BY <1>3, <1>4, <1>5, PartialWritten
<1>7. g.mgrs = N
  BY <1>2, <1>5
<1>8. HeapType(g)
  <2>1. \A i \in 1..n : N[i].prev = h.mgrs[i].prev
    BY <1>6 DEF Alike
  <2>2. h.caches \in [CacheIds -> CacheType] /\ h.cell \in [MgrIds -> 0..MaxCaches]
    BY DEF HeapType
  <2> QED BY <1>2, <1>3, <1>6, <1>7, <2>1, <2>2, HeapTyped
<1> QED BY <1>2, <1>3, <1>6, <1>7, <1>8
      DEF Typed, SameCells, SameSlots, SameFree, SameNext, SameCounts, Relinked, Alike

LEMMA SetFreeFields ==
  ASSUME NEW h, HeapType(h), NEW m \in 1..Len(h.mgrs),
         NEW p \in 0..Len(h.mgrs), NEW g, g = SetFree(h, m, p)
  PROVE  /\ Typed(h, g) /\ SameCells(h, g) /\ g.at = h.at
         /\ SameSlots(h, g) /\ SameNext(h, g) /\ SameCounts(h, g) /\ SamePartial(h, g)
         /\ Freed(h, g, m, p)
<1>1. DOMAIN h = {"mgrs", "caches", "cell", "at"}
  BY DEF HeapType
<1>2. /\ DOMAIN g = DOMAIN h /\ g.caches = h.caches /\ g.cell = h.cell /\ g.at = h.at
      /\ g.mgrs = WithFree(h.mgrs, m, p)
  BY <1>1 DEF SetFree, WithFree
<1>3. PICK n \in Nat : n = Len(h.mgrs)
  BY HeapFacts
<1>4. h.mgrs \in Seq(MgrType(n))
  BY <1>3, HeapFacts
<1>5. PICK N : N = WithFree(h.mgrs, m, p)
  OBVIOUS
<1>6. /\ N \in Seq(MgrType(n)) /\ Len(N) = n /\ N[m].next_free = p
      /\ \A i \in 1..n :
           /\ i # m => N[i] = h.mgrs[i]
           /\ N[i].caches = h.mgrs[i].caches /\ N[i].next = h.mgrs[i].next
           /\ N[i].prev = h.mgrs[i].prev /\ N[i].used_slots = h.mgrs[i].used_slots
           /\ N[i].next_partial_free = h.mgrs[i].next_partial_free
           /\ N[i].partial_counts = h.mgrs[i].partial_counts
  BY <1>3, <1>4, <1>5, FreeWritten
<1>7. g.mgrs = N
  BY <1>2, <1>5
<1>8. HeapType(g)
  <2>1. h.caches \in [CacheIds -> CacheType] /\ h.cell \in [MgrIds -> 0..MaxCaches]
    BY DEF HeapType
  <2> QED BY <1>2, <1>3, <1>6, <1>7, <2>1, HeapTyped
<1> QED BY ONLY <1>2, <1>3, <1>6, <1>7, <1>8
      DEF Typed, SameCells, SameSlots, SamePartial, SameNext, SameCounts, Freed

LEMMA SetSlotFields ==
  ASSUME NEW h, HeapType(h), NEW m \in 1..Len(h.mgrs), NEW s \in Slots,
         NEW k \in 0..MaxCaches, NEW u \in 0..SlotNum, NEW g, g = SetSlot(h, m, s, k, u)
  PROVE  /\ Typed(h, g) /\ SameCells(h, g) /\ g.at = h.at
         /\ SameFree(h, g) /\ SameNext(h, g) /\ SameCounts(h, g) /\ SamePartial(h, g)
         /\ Slotted(h, g, m, s, k, u)
<1>1. DOMAIN h = {"mgrs", "caches", "cell", "at"}
  BY DEF HeapType
<1>2. /\ DOMAIN g = DOMAIN h /\ g.caches = h.caches /\ g.cell = h.cell /\ g.at = h.at
      /\ g.mgrs = WithSlot(h.mgrs, m, s, k, u)
  BY <1>1 DEF SetSlot, WithSlot
<1>3. PICK n \in Nat : n = Len(h.mgrs)
  BY HeapFacts
<1>4. h.mgrs \in Seq(MgrType(n))
  BY <1>3, HeapFacts
<1>5. PICK N : N = WithSlot(h.mgrs, m, s, k, u)
  OBVIOUS
<1>6. /\ N \in Seq(MgrType(n)) /\ Len(N) = n /\ N[m].used_slots = u
      /\ \A t \in Slots : N[m].caches[t] = IF t = s THEN k ELSE h.mgrs[m].caches[t]
      /\ \A i \in 1..n :
           /\ i # m => N[i] = h.mgrs[i]
           /\ N[i].next = h.mgrs[i].next /\ N[i].prev = h.mgrs[i].prev
           /\ N[i].next_free = h.mgrs[i].next_free
           /\ N[i].next_partial_free = h.mgrs[i].next_partial_free
           /\ N[i].partial_counts = h.mgrs[i].partial_counts
  <2>1. PICK M : M = h.mgrs
    OBVIOUS
  <2>2. /\ M \in Seq(MgrType(n)) /\ m \in 1..Len(M) /\ Len(M) = n
        /\ N = WithSlot(M, m, s, k, u)
    BY <1>3, <1>4, <1>5, <2>1
  <2>3. SlotIn(M, N, n, m, s, k, u)
    BY ONLY <2>2, n \in Nat, s \in Slots, k \in 0..MaxCaches, u \in 0..SlotNum, SlotWritten
  <2> QED BY ONLY <2>1, <2>2, <2>3 DEF SlotIn
<1>7. g.mgrs = N
  BY <1>2, <1>5
<1>8. HeapType(g)
  <2>1. h.caches \in [CacheIds -> CacheType] /\ h.cell \in [MgrIds -> 0..MaxCaches]
    BY DEF HeapType
  <2> QED BY <1>2, <1>3, <1>6, <1>7, <2>1, HeapTyped
<1> QED BY <1>2, <1>3, <1>6, <1>7, <1>8
      DEF Typed, SameCells, SameFree, SamePartial, SameNext, SameCounts, Slotted

SameMgrs(h, g) == g.mgrs = h.mgrs /\ g.cell = h.cell

LEMMA SetCacheFields ==
  ASSUME NEW h, HeapType(h), NEW k \in CacheIds, NEW p \in CacheType,
         NEW g, g = SetCache(h, k, p)
  PROVE  /\ HeapType(g) /\ SameMgrs(h, g) /\ g.at = h.at
         /\ \A j \in CacheIds : g.caches[j] = IF j = k THEN p ELSE h.caches[j]
<1>1. DOMAIN h = {"mgrs", "caches", "cell", "at"} /\ h.caches \in [CacheIds -> CacheType]
  BY DEF HeapType
<1>2. /\ DOMAIN g = DOMAIN h /\ g.mgrs = h.mgrs /\ g.cell = h.cell /\ g.at = h.at
      /\ g.caches = [h.caches EXCEPT ![k] = p]
  BY <1>1 DEF SetCache
<1>3. g.caches \in [CacheIds -> CacheType]
  BY <1>1, <1>2
<1>4. HeapType(g)
  BY <1>2, <1>3, HeapTyped, HeapFacts DEF HeapType
<1> QED BY <1>1, <1>2, <1>4 DEF SameMgrs

LEMMA AllocObjFields ==
  ASSUME NEW h, HeapType(h), NEW k \in CacheIds, h.caches[k].free > 0,
         NEW g, g = alloc_obj(h, k)
  PROVE  /\ HeapType(g) /\ SameMgrs(h, g) /\ g.at = k
         /\ g.caches[k].free = h.caches[k].free - 1
         /\ g.caches[k].used = h.caches[k].used + 1
         /\ g.caches[k].class = h.caches[k].class
         /\ g.caches[k].owner = h.caches[k].owner
         /\ \A j \in CacheIds : j # k => g.caches[j] = h.caches[j]
<1>1. PICK p \in CacheType : p = h.caches[k] /\ p.free > 0
  BY HeapFacts
<1> DEFINE r == [p EXCEPT !.free = p.free - 1, !.used = p.used + 1]
           f == SetCache(h, k, r)
<1>2. /\ r \in CacheType /\ r.free = p.free - 1 /\ r.used = p.used + 1
      /\ r.class = p.class /\ r.owner = p.owner
  <2>1. p.free - 1 \in Nat /\ p.used + 1 \in Nat
    BY <1>1 DEF CacheType
  <2> QED BY <2>1 DEF CacheType
<1>3. g = [f EXCEPT !.at = k]
  BY <1>1 DEF alloc_obj
<1> HIDE DEF r
<1>4. /\ HeapType(f) /\ SameMgrs(h, f)
      /\ \A j \in CacheIds : f.caches[j] = IF j = k THEN r ELSE h.caches[j]
  BY <1>2, SetCacheFields
<1> HIDE DEF f
<1>5. DOMAIN f = {"mgrs", "caches", "cell", "at"}
  BY <1>4 DEF HeapType
<1>6. /\ g.mgrs = f.mgrs /\ g.cell = f.cell /\ g.caches = f.caches /\ g.at = k
      /\ DOMAIN g = DOMAIN f
  BY <1>3, <1>5
<1>7. HeapType(g)
  BY <1>4, <1>6 DEF HeapType
<1> QED BY <1>1, <1>2, <1>4, <1>6, <1>7 DEF SameMgrs

(* The counters of cache k become f and u; the other caches stay. *)
Moved(h, g, k, f, u) ==
    /\ g.caches[k].free = f /\ g.caches[k].used = u
    /\ g.caches[k].class = h.caches[k].class /\ g.caches[k].owner = h.caches[k].owner
    /\ \A j \in CacheIds : j # k => g.caches[j] = h.caches[j]
    /\ g.cell = h.cell

(* cache_alloc takes a cell of cache k; a manager that fills its last        *)
(* partial cache is unlinked from the head of the list.                     *)
LEMMA CacheAllocFields ==
  ASSUME NEW h, HeapType(h), NEW m \in 1..Len(h.mgrs), NEW c \in Classes,
         NEW k \in CacheIds, k = h.mgrs[m].caches[Min(Usable(h, m, c))],
         h.caches[k].free > 0, NEW count \in Nat, count = h.mgrs[m].partial_counts[c],
         count # 0, NEW g, g = cache_alloc(h, m, c)
  PROVE  /\ Typed(h, g) /\ g.at = k
         /\ Moved(h, g, k, h.caches[k].free - 1, h.caches[k].used + 1)
         /\ SameSlots(h, g) /\ SameFree(h, g) /\ SameNext(h, g)
         /\ h.caches[k].free # 1 => SameCounts(h, g) /\ SamePartial(h, g)
         /\ h.caches[k].free = 1 =>
              /\ Recounted(h, g, m, c, count - 1)
              /\ count # 1 => SamePartial(h, g)
              /\ count = 1 => Relinked(h, g, First, c, h.mgrs[m].next_partial_free[c])
<1> DEFINE t == alloc_obj(h, k)
           r == SetCount(t, m, c, count - 1)
<1>1. g = IF t.caches[k].free # 0 THEN t
          ELSE IF count # 1 THEN r
          ELSE SetPartial(r, First, c, r.mgrs[m].next_partial_free[c])
  BY DEF cache_alloc
<1>2. /\ HeapType(t) /\ SameMgrs(h, t) /\ t.at = k
      /\ Moved(h, t, k, h.caches[k].free - 1, h.caches[k].used + 1)
  <2>1. PICK v : v = alloc_obj(h, k)
    OBVIOUS
  <2>2. /\ HeapType(v) /\ SameMgrs(h, v) /\ v.at = k
        /\ v.caches[k].free = h.caches[k].free - 1
        /\ v.caches[k].used = h.caches[k].used + 1
        /\ v.caches[k].class = h.caches[k].class
        /\ v.caches[k].owner = h.caches[k].owner
        /\ \A j \in CacheIds : j # k => v.caches[j] = h.caches[j]
    BY ONLY <2>1, HeapType(h), k \in CacheIds, h.caches[k].free > 0, AllocObjFields
  <2>3. Moved(h, v, k, h.caches[k].free - 1, h.caches[k].used + 1)
    BY ONLY <2>2 DEF Moved, SameMgrs
  <2> QED BY ONLY <2>1, <2>2, <2>3
<1> HIDE DEF t
<1>3. h.caches[k].free \in Nat /\ t.caches[k].free = h.caches[k].free - 1
  BY <1>2, HeapFacts DEF CacheType, Moved
<1>4. CASE h.caches[k].free # 1
  <2>1. g = t
    BY ONLY <1>1, <1>3, <1>4
  <2> QED BY <1>2, <1>4, <2>1 DEF Typed, SameMgrs, SameSlots, SameFree, SameNext, SameCounts, SamePartial
<1>5. CASE h.caches[k].free = 1
  <2>0. t.mgrs = h.mgrs /\ m \in 1..Len(t.mgrs) /\ count - 1 \in Nat
    <3>1. t.mgrs = h.mgrs
      BY <1>2 DEF SameMgrs
    <3> QED BY <3>1
  <2>1. /\ Typed(t, r) /\ SameCells(t, r) /\ r.at = t.at
        /\ SameSlots(t, r) /\ SameFree(t, r) /\ SameNext(t, r) /\ SamePartial(t, r)
        /\ Recounted(t, r, m, c, count - 1)
    BY <1>2, <2>0, SetCountFields
  <2> HIDE DEF r
  <2>2. /\ Typed(h, r) /\ r.at = k
        /\ SameSlots(h, r) /\ SameFree(h, r) /\ SameNext(h, r) /\ SamePartial(h, r)
        /\ Recounted(h, r, m, c, count - 1)
    <3>1. Typed(h, r) /\ r.at = k /\ SameSlots(h, r) /\ SameFree(h, r) /\ SameNext(h, r)
      BY <1>2, <2>0, <2>1 DEF Typed, SameSlots, SameFree, SameNext
    <3>2. SamePartial(h, r) /\ Recounted(h, r, m, c, count - 1)
      BY <2>0, <2>1 DEF SamePartial, Recounted
    <3> QED BY <3>1, <3>2
  <2>3. Moved(h, r, k, h.caches[k].free - 1, h.caches[k].used + 1)
    BY <1>2, <2>1 DEF Moved, SameCells
  <2>4. CASE count # 1
    <3>1. g = r
      BY <1>1, <1>3, <1>5, <2>4
    <3> QED BY <1>5, <2>2, <2>3, <2>4, <3>1
  <2>5. CASE count = 1
    <3>1. PICK p : p = r.mgrs[m].next_partial_free[c]
      OBVIOUS
    <3>2. g = SetPartial(r, First, c, p)
      BY <1>1, <1>3, <1>5, <2>5, <3>1
    <3>3. p = h.mgrs[m].next_partial_free[c]
      BY <2>2, <3>1 DEF SamePartial
    <3>4. p \in 0..Len(r.mgrs) /\ First \in 1..Len(r.mgrs) /\ HeapType(r) /\ Len(r.mgrs) = Len(h.mgrs)
      BY <2>2, <3>3, HeapFacts DEF Typed
    <3>5. /\ Typed(r, g) /\ SameCells(r, g) /\ g.at = r.at
          /\ SameSlots(r, g) /\ SameFree(r, g) /\ SameNext(r, g) /\ SameCounts(r, g)
          /\ Relinked(r, g, First, c, p)
      BY <3>2, <3>4, SetPartialFields
    <3>6. /\ Typed(h, g) /\ g.at = k /\ SameSlots(h, g) /\ SameFree(h, g) /\ SameNext(h, g)
      BY <2>2, <3>5 DEF Typed, SameSlots, SameFree, SameNext
    <3>7. Recounted(h, g, m, c, count - 1)
      BY <2>2, <3>4, <3>5 DEF SameCounts, Recounted
    <3>8. Relinked(h, g, First, c, h.mgrs[m].next_partial_free[c])
      BY <2>2, <3>3, <3>4, <3>5 DEF SamePartial, Relinked
    <3>9. Moved(h, g, k, h.caches[k].free - 1, h.caches[k].used + 1)
      BY <2>3, <3>5 DEF Moved, SameCells
    <3> QED BY <1>5, <2>5, <3>6, <3>7, <3>8, <3>9
  <2> QED BY <2>4, <2>5
<1> QED BY <1>4, <1>5

(* Manager m becomes the head of the partial list of class c. *)
Pushed(h, g, m, c) ==
    \A i \in 1..Len(h.mgrs), d \in Classes : g.mgrs[i].next_partial_free[d] =
      IF d = c /\ i = First THEN m
      ELSE IF d = c /\ i = m THEN h.mgrs[First].next_partial_free[c]
      ELSE h.mgrs[i].next_partial_free[d]

LEMMA GlobalIsFirst ==
  ASSUME NEW h, HeapType(h), NEW m \in 1..Len(h.mgrs)
  PROVE  is_global_allocator(h, m) <=> m = First
<1>1. h.mgrs[m].prev = m - 1 /\ Len(h.mgrs) \in Nat
  BY HeapFacts
<1>2. m - 1 = 0 <=> m = 1
  BY <1>1
<1> QED BY <1>1, <1>2 DEF is_global_allocator, None, First

LEMMA PushPartialFields ==
  ASSUME NEW h, HeapType(h), NEW m \in 1..Len(h.mgrs), NEW c \in Classes,
         NEW g, g = PushPartial(h, m, c)
  PROVE  /\ Typed(h, g) /\ SameCells(h, g) /\ g.at = h.at
         /\ SameSlots(h, g) /\ SameFree(h, g) /\ SameNext(h, g) /\ SameCounts(h, g)
         /\ IF m = First \/ h.mgrs[m].partial_counts[c] # 0 THEN SamePartial(h, g)
            ELSE Pushed(h, g, m, c)
<1>1. is_global_allocator(h, m) <=> m = First
  BY GlobalIsFirst
<1>2. CASE m = First \/ h.mgrs[m].partial_counts[c] # 0
  <2>1. g = h
    BY <1>1, <1>2 DEF PushPartial
  <2> QED BY <1>2, <2>1
        DEF Typed, SameCells, SameSlots, SameFree, SameNext, SameCounts, SamePartial
<1>3. CASE ~(m = First \/ h.mgrs[m].partial_counts[c] # 0)
  <2>1. PICK p : p = h.mgrs[First].next_partial_free[c]
    OBVIOUS
  <2> DEFINE r == SetPartial(h, m, c, p)
  <2>2. g = SetPartial(r, First, c, m)
    BY <1>1, <1>3, <2>1 DEF PushPartial
  <2>3. p \in 0..Len(h.mgrs) /\ First \in 1..Len(h.mgrs) /\ m \in 0..Len(h.mgrs)
    BY <2>1, HeapFacts
  <2>4. /\ Typed(h, r) /\ SameCells(h, r) /\ r.at = h.at
        /\ SameSlots(h, r) /\ SameFree(h, r) /\ SameNext(h, r) /\ SameCounts(h, r)
        /\ Relinked(h, r, m, c, p)
    BY <2>3, SetPartialFields
  <2> HIDE DEF r
  <2>5. HeapType(r) /\ Len(r.mgrs) = Len(h.mgrs)
    BY <2>4 DEF Typed
  <2>6. /\ Typed(r, g) /\ SameCells(r, g) /\ g.at = r.at
        /\ SameSlots(r, g) /\ SameFree(r, g) /\ SameNext(r, g) /\ SameCounts(r, g)
        /\ Relinked(r, g, First, c, m)
    BY <2>2, <2>3, <2>5, SetPartialFields
  <2>7. Typed(h, g) /\ SameCells(h, g) /\ g.at = h.at
    BY <2>4, <2>6 DEF Typed, SameCells
  <2>8. SameSlots(h, g) /\ SameFree(h, g) /\ SameNext(h, g)
    BY <2>4, <2>5, <2>6 DEF SameSlots, SameFree, SameNext
  <2>9. SameCounts(h, g)
    BY <2>4, <2>5, <2>6 DEF SameCounts
  <2>10. Pushed(h, g, m, c)
    BY ONLY <1>3, <2>1, <2>4, <2>5, <2>6 DEF Relinked, Pushed
  <2> QED BY <1>3, <2>7, <2>8, <2>9, <2>10
<1> QED BY <1>2, <1>3

(* free_obj puts a cell back into cache k; its manager is listed if the     *)
(* cache was full and no other one was partial.                            *)
LEMMA FreeObjFields ==
  ASSUME NEW h, HeapType(h), NEW k \in CacheIds, NEW m \in 1..Len(h.mgrs),
         NEW c \in Classes, c = h.caches[k].class, h.caches[k].used # 0,
         NEW count \in Nat, count = h.mgrs[m].partial_counts[c],
         NEW g, g = free_obj(h, m, k)
  PROVE  /\ Typed(h, g)
         /\ Moved(h, g, k, h.caches[k].free + 1, h.caches[k].used - 1)
         /\ SameSlots(h, g) /\ SameFree(h, g) /\ SameNext(h, g)
         /\ h.caches[k].free # 0 => SameCounts(h, g) /\ SamePartial(h, g)
         /\ h.caches[k].free = 0 =>
              /\ Recounted(h, g, m, c, count + 1)
              /\ IF m = First \/ count # 0 THEN SamePartial(h, g) ELSE Pushed(h, g, m, c)
<1>1. PICK p \in CacheType : p = h.caches[k]
  BY HeapFacts
<1> DEFINE pushed == PushPartial(h, m, c)
           w == IF p.free = 0 THEN SetCount(pushed, m, c, count + 1) ELSE h
           r == [p EXCEPT !.used = p.used - 1, !.free = p.free + 1]
<1>2. g = SetCache(w, k, r)
  BY <1>1 DEF free_obj
<1>3. /\ r \in CacheType /\ r.free = p.free + 1 /\ r.used = p.used - 1
      /\ r.class = p.class /\ r.owner = p.owner
  <2>1. p.free + 1 \in Nat /\ p.used - 1 \in Nat
    BY <1>1 DEF CacheType
  <2> QED BY <2>1 DEF CacheType
<1> HIDE DEF r
<1>4. /\ Typed(h, w) /\ SameCells(h, w)
      /\ SameSlots(h, w) /\ SameFree(h, w) /\ SameNext(h, w)
      /\ h.caches[k].free # 0 => SameCounts(h, w) /\ SamePartial(h, w)
      /\ h.caches[k].free = 0 =>
           /\ Recounted(h, w, m, c, count + 1)
           /\ IF m = First \/ count # 0 THEN SamePartial(h, w) ELSE Pushed(h, w, m, c)
  <2>1. CASE p.free # 0
    BY <1>1, <2>1
       DEF Typed, SameCells, SameSlots, SameFree, SameNext, SameCounts, SamePartial
  <2>2. CASE p.free = 0
    <3>1. w = SetCount(pushed, m, c, count + 1)
      BY <2>2
    <3>2. /\ Typed(h, pushed) /\ SameCells(h, pushed)
          /\ SameSlots(h, pushed) /\ SameFree(h, pushed) /\ SameNext(h, pushed)
          /\ SameCounts(h, pushed)
          /\ IF m = First \/ count # 0 THEN SamePartial(h, pushed) ELSE Pushed(h, pushed, m, c)
      BY PushPartialFields
    <3> HIDE DEF w, pushed
    <3>3. HeapType(pushed) /\ Len(pushed.mgrs) = Len(h.mgrs) /\ count + 1 \in Nat
      BY <3>2 DEF Typed
    <3>4. /\ Typed(pushed, w) /\ SameCells(pushed, w)
          /\ SameSlots(pushed, w) /\ SameFree(pushed, w) /\ SameNext(pushed, w)
          /\ SamePartial(pushed, w) /\ Recounted(pushed, w, m, c, count + 1)
      BY <3>1, <3>3, SetCountFields
    <3>5. /\ Typed(h, w) /\ SameCells(h, w) /\ SameSlots(h, w) /\ SameFree(h, w) /\ SameNext(h, w)
      BY <3>2, <3>3, <3>4 DEF Typed, SameCells, SameSlots, SameFree, SameNext
    <3>6. Recounted(h, w, m, c, count + 1)
      BY <3>2, <3>3, <3>4 DEF SameCounts, Recounted
    <3>7. IF m = First \/ count # 0 THEN SamePartial(h, w) ELSE Pushed(h, w, m, c)
      <4>1. SamePartial(h, pushed) => SamePartial(h, w)
        BY <3>3, <3>4 DEF SamePartial
      <4>2. Pushed(h, pushed, m, c) => Pushed(h, w, m, c)
        <5>1. \A i \in 1..Len(h.mgrs), d \in Classes :
                w.mgrs[i].next_partial_free[d] = pushed.mgrs[i].next_partial_free[d]
          BY <3>3, <3>4 DEF SamePartial
        <5> QED BY <5>1 DEF Pushed
      <4> QED BY <3>2, <4>1, <4>2
    <3> QED BY <1>1, <2>2, <3>5, <3>6, <3>7
  <2> QED BY <2>1, <2>2
<1> HIDE DEF w
<1>5. HeapType(w) /\ Len(w.mgrs) = Len(h.mgrs) /\ w.caches = h.caches /\ w.cell = h.cell
  BY <1>4 DEF Typed, SameCells
<1>6. /\ HeapType(g) /\ g.mgrs = w.mgrs /\ g.cell = w.cell
      /\ \A j \in CacheIds : g.caches[j] = IF j = k THEN r ELSE w.caches[j]
  <2>1. /\ HeapType(g) /\ SameMgrs(w, g)
        /\ \A j \in CacheIds : g.caches[j] = IF j = k THEN r ELSE w.caches[j]
    BY <1>2, <1>3, <1>5, SetCacheFields
  <2> QED BY <2>1 DEF SameMgrs
<1>7. Moved(h, g, k, h.caches[k].free + 1, h.caches[k].used - 1)
  BY <1>1, <1>3, <1>5, <1>6 DEF Moved
<1>8. Typed(h, g) /\ SameSlots(h, g) /\ SameFree(h, g) /\ SameNext(h, g)
  BY <1>4, <1>5, <1>6 DEF Typed, SameSlots, SameFree, SameNext
<1>9. /\ h.caches[k].free # 0 => SameCounts(h, g) /\ SamePartial(h, g)
      /\ h.caches[k].free = 0 => Recounted(h, g, m, c, count + 1)
  BY <1>4, <1>5, <1>6 DEF SameCounts, SamePartial, Recounted
<1>10. h.caches[k].free = 0 =>
         IF m = First \/ count # 0 THEN SamePartial(h, g) ELSE Pushed(h, g, m, c)
  <2>1. SamePartial(h, w) => SamePartial(h, g)
    BY <1>6 DEF SamePartial
  <2>2. Pushed(h, w, m, c) => Pushed(h, g, m, c)
    BY <1>6 DEF Pushed
  <2> QED BY <1>4, <2>1, <2>2
<1> QED BY <1>7, <1>8, <1>9, <1>10

-----------------------------------------------------------------------------
(* The parts of the invariant along the operations *)
LEMMA PartialListSame ==
  ASSUME NEW h, NEW g, HeapType(h), HeapType(g), Len(g.mgrs) = Len(h.mgrs),
         NEW d \in Classes, PartialListOK(h, d),
         \A i \in 1..Len(h.mgrs) :
           g.mgrs[i].next_partial_free[d] = h.mgrs[i].next_partial_free[d],
         \A i \in 1..Len(h.mgrs) : i # First => (Usable(g, i, d) = {} <=> Usable(h, i, d) = {})
  PROVE  PartialListOK(g, d)
<1>1. DOMAIN h.mgrs = 1..Len(h.mgrs) /\ DOMAIN g.mgrs = DOMAIN h.mgrs
  BY HeapFacts
<1>2. Partial(g, d) = Partial(h, d)
  BY <1>1 DEF Partial
<1>3. PartialNext(g, d) = PartialNext(h, d)
  BY <1>1 DEF PartialNext
<1> QED BY <1>2, <1>3 DEF PartialListOK

LEMMA FreeListSame ==
  ASSUME NEW h, NEW g, HeapType(h), HeapType(g), Len(g.mgrs) = Len(h.mgrs), FreeOK(h),
         SameFree(h, g),
         \A i \in 1..Len(h.mgrs) : i # First =>
           (g.mgrs[i].used_slots < SlotNum <=> h.mgrs[i].used_slots < SlotNum)
  PROVE  FreeOK(g)
<1>1. DOMAIN h.mgrs = 1..Len(h.mgrs) /\ DOMAIN g.mgrs = DOMAIN h.mgrs
  BY HeapFacts
<1>2. Roomy(g) = Roomy(h)
  BY <1>1 DEF Roomy
<1>3. FreeNext(g) = FreeNext(h)
  BY <1>1 DEF FreeNext, SameFree
<1> QED BY <1>2, <1>3 DEF FreeOK

LEMMA HoldsNat ==
  ASSUME NEW h, NEW k
  PROVE  IsFiniteSet(Holds(h, k)) /\ Cardinality(Holds(h, k)) \in Nat
<1>1. IsFiniteSet(MgrIds)
  BY McacheAssumption, FS_Interval DEF MgrIds
<1> QED BY <1>1, FS_Subset, FS_CardinalityType DEF Holds

LEMMA SlotsFinite ==
  /\ IsFiniteSet(Slots) /\ Cardinality(Slots) = SlotNum
  /\ \A T \in SUBSET Slots : IsFiniteSet(T) /\ Cardinality(T) \in Nat
<1>1. IsFiniteSet(Slots) /\ Cardinality(Slots) = SlotNum
  BY McacheAssumption, FS_Interval DEF Slots
<1> QED BY <1>1, FS_Subset, FS_CardinalityType

(* Callers hold v objects in cache k and what they held in the others. *)
Rebased(x, y, k, v) ==
    /\ y \in [CacheIds -> Nat] /\ y[k] = v
    /\ \A j \in CacheIds : j # k => y[j] = x[j]

LEMMA RebasedIs ==
  ASSUME NEW x \in [CacheIds -> Nat], NEW k \in CacheIds, NEW v \in Nat
  PROVE  Rebased(x, [x EXCEPT ![k] = v], k, v)
BY DEF Rebased

LEMMA MovedObjects ==
  ASSUME NEW h, NEW g, NEW x, HeapType(h), HeapType(g), Objects(h, x), NEW k \in CacheIds,
         NEW f \in Nat, NEW u \in Nat \ {0}, Moved(h, g, k, f, u), h.caches[k].used # 0,
         f + u = h.caches[k].free + h.caches[k].used,
         NEW y, Rebased(x, y, k, x[k] + (u - h.caches[k].used))
  PROVE  Objects(g, y)
<1>0. /\ y \in [CacheIds -> Nat] /\ y[k] = x[k] + (u - h.caches[k].used)
      /\ \A j \in CacheIds : j # k => y[j] = x[j]
  BY DEF Rebased
<1>1. \A j \in CacheIds : Holds(g, j) = Holds(h, j)
  BY DEF Holds, Moved
<1>2. \A j \in CacheIds : j # k =>
        /\ g.caches[j].used = y[j] + Cardinality(Holds(g, j))
        /\ g.caches[j].used = 0 => g.caches[j] = NoCache
        /\ g.caches[j].used # 0 =>
             g.caches[j].free + g.caches[j].used = Cells[g.caches[j].class]
  BY <1>0, <1>1 DEF Objects, Moved
<1>3. u = y[k] + Cardinality(Holds(g, k))
  <2>1. PICK a \in Nat : a = Cardinality(Holds(h, k))
    BY HoldsNat
  <2>2. PICK b \in Nat : b = h.caches[k].used
    BY HeapFacts DEF CacheType
  <2>3. b = x[k] + a /\ x[k] \in Nat
    BY <2>1, <2>2 DEF Objects
  <2>4. Cardinality(Holds(g, k)) = a
    BY <1>1, <2>1
  <2> QED BY <1>0, <2>2, <2>3, <2>4
<1>4. /\ g.caches[k].used = u /\ g.caches[k].free = f
      /\ g.caches[k].class = h.caches[k].class
  BY DEF Moved
<1>5. f + u = Cells[h.caches[k].class]
  BY DEF Objects
<1> QED BY <1>0, <1>2, <1>3, <1>4, <1>5 DEF Objects

LEMMA SlotCache ==
  ASSUME NEW h, HeapType(h), NEW i \in 1..Len(h.mgrs), NEW t \in Slots
  PROVE  /\ h.mgrs[i].caches[t] \in 0..MaxCaches
         /\ h.mgrs[i].caches[t] # None => h.mgrs[i].caches[t] \in CacheIds
<1>1. h.mgrs[i].caches \in [Slots -> 0..MaxCaches]
  BY HeapFacts
<1>2. PICK k \in 0..MaxCaches : k = h.mgrs[i].caches[t]
  BY <1>1
<1>3. k # None => k \in CacheIds
  BY McacheAssumption DEF CacheIds, None
<1> QED BY <1>2, <1>3

LEMMA MovedHomes ==
  ASSUME NEW h, NEW g, HeapType(h), HeapType(g), Len(g.mgrs) = Len(h.mgrs), Homes(h),
         SameSlots(h, g), NEW k \in CacheIds, NEW f, NEW u, u # 0, h.caches[k].used # 0,
         Moved(h, g, k, f, u)
  PROVE  Homes(g)
<1>1. DOMAIN h.mgrs = 1..Len(h.mgrs) /\ DOMAIN g.mgrs = DOMAIN h.mgrs
  BY HeapFacts
<1>2. \A i \in DOMAIN h.mgrs : g.mgrs[i].caches = h.mgrs[i].caches
  BY <1>1 DEF SameSlots
<1>3. \A j \in CacheIds : /\ g.caches[j].owner = h.caches[j].owner
                          /\ g.caches[j].used # 0 <=> h.caches[j].used # 0
  BY DEF Moved
<1>4. \A i \in DOMAIN h.mgrs, s \in Slots : h.mgrs[i].caches[s] # None =>
        h.mgrs[i].caches[s] \in CacheIds
  BY <1>1, SlotCache
<1>5. \A i \in DOMAIN g.mgrs, s \in Slots : g.mgrs[i].caches[s] # None =>
         /\ g.caches[g.mgrs[i].caches[s]].owner = i
         /\ g.caches[g.mgrs[i].caches[s]].used # 0
  <2> SUFFICES ASSUME NEW i \in DOMAIN g.mgrs, NEW s \in Slots, g.mgrs[i].caches[s] # None
               PROVE  /\ g.caches[g.mgrs[i].caches[s]].owner = i
                      /\ g.caches[g.mgrs[i].caches[s]].used # 0
    OBVIOUS
  <2>1. PICK j \in CacheIds : j = h.mgrs[i].caches[s] /\ j = g.mgrs[i].caches[s]
    BY <1>1, <1>2, <1>4
  <2>2. i \in DOMAIN h.mgrs /\ h.mgrs[i].caches[s] # None
    BY <1>1, <2>1
  <2>3. /\ h.caches[h.mgrs[i].caches[s]].owner = i
        /\ h.caches[h.mgrs[i].caches[s]].used # 0
    BY ONLY Homes(h), <2>2, s \in Slots DEF Homes
  <2> QED BY <1>3, <2>1, <2>3
<1>6. \A i \in DOMAIN g.mgrs, s, t \in Slots :
         g.mgrs[i].caches[s] # None /\ g.mgrs[i].caches[s] = g.mgrs[i].caches[t] => s = t
  BY <1>1, <1>2 DEF Homes
<1>7. \A j \in CacheIds : g.caches[j].used # 0 =>
         /\ g.caches[j].owner \in DOMAIN g.mgrs
         /\ \E s \in Slots : g.mgrs[g.caches[j].owner].caches[s] = j
  <2> SUFFICES ASSUME NEW j \in CacheIds, g.caches[j].used # 0
               PROVE  /\ g.caches[j].owner \in DOMAIN g.mgrs
                      /\ \E s \in Slots : g.mgrs[g.caches[j].owner].caches[s] = j
    OBVIOUS
  <2>1. PICK o \in DOMAIN h.mgrs : o = h.caches[j].owner /\ \E s \in Slots : h.mgrs[o].caches[s] = j
    BY <1>3 DEF Homes
  <2> QED BY <1>1, <1>2, <1>3, <2>1
<1> QED BY <1>5, <1>6, <1>7 DEF Homes

LEMMA UsableIs ==
  ASSUME NEW h, NEW i, NEW d, NEW t \in Slots
  PROVE  t \in Usable(h, i, d) <=>
           /\ h.mgrs[i].caches[t] # None
           /\ h.caches[h.mgrs[i].caches[t]].class = d
           /\ h.caches[h.mgrs[i].caches[t]].free > 0
BY DEF Usable

(* Only the usable slots of class c of manager m change. *)
UsableElsewhere(h, g, m, c) ==
    \A i \in 1..Len(h.mgrs), d \in Classes : i # m \/ d # c =>
      Usable(g, i, d) = Usable(h, i, d)

(* Slot s is usable if its cache has f > 0 free cells. *)
UsableThere(h, g, m, c, s, f) ==
    /\ f # 0 => Usable(g, m, c) = Usable(h, m, c) \cup {s}
    /\ f = 0 => Usable(g, m, c) = Usable(h, m, c) \ {s}

(* Slot s of manager m has cache k of class c. *)
SlotOf(h, m, s, k, c) ==
    /\ m \in 1..Len(h.mgrs) /\ s \in Slots /\ k \in CacheIds /\ c \in Classes
    /\ h.mgrs[m].caches[s] = k /\ c = h.caches[k].class

LEMMA MovedUsable ==
  ASSUME NEW h, NEW g, HeapType(h), HeapType(g), Len(g.mgrs) = Len(h.mgrs), Homes(h),
         SameSlots(h, g), NEW k, NEW f \in Nat, NEW u, Moved(h, g, k, f, u),
         NEW m, NEW s, NEW c, SlotOf(h, m, s, k, c)
  PROVE  UsableElsewhere(h, g, m, c) /\ UsableThere(h, g, m, c, s, f)
<1>0. /\ m \in 1..Len(h.mgrs) /\ s \in Slots /\ k \in CacheIds /\ c \in Classes
      /\ h.mgrs[m].caches[s] = k /\ c = h.caches[k].class
  BY DEF SlotOf
<1>1. DOMAIN h.mgrs = 1..Len(h.mgrs)
  BY HeapFacts
<1>2. k # None
  BY <1>0 DEF CacheIds, None
<1>3. ASSUME NEW i \in 1..Len(h.mgrs), NEW t \in Slots
      PROVE  /\ g.mgrs[i].caches[t] = h.mgrs[i].caches[t]
             /\ h.mgrs[i].caches[t] # None => h.mgrs[i].caches[t] \in CacheIds
             /\ h.mgrs[i].caches[t] = k <=> i = m /\ t = s
  <2>1. g.mgrs[i].caches[t] = h.mgrs[i].caches[t]
    BY DEF SameSlots
  <2>2. h.mgrs[i].caches[t] # None => h.mgrs[i].caches[t] \in CacheIds
    BY SlotCache
  <2>3. ASSUME h.mgrs[i].caches[t] = k PROVE i = m /\ t = s
    <3>1. h.caches[k].owner = i /\ h.caches[k].owner = m
      BY <1>0, <1>1, <1>2, <2>3 DEF Homes
    <3> QED BY <1>0, <1>1, <1>2, <2>3, <3>1 DEF Homes
  <2> QED BY <1>0, <2>1, <2>2, <2>3
<1>4. ASSUME NEW i \in 1..Len(h.mgrs), NEW d \in Classes, i # m \/ d # c
      PROVE  Usable(g, i, d) = Usable(h, i, d)
  <2>1. ASSUME NEW t \in Slots PROVE t \in Usable(g, i, d) <=> t \in Usable(h, i, d)
    <3>1. CASE h.mgrs[i].caches[t] = k
      <4>1. d # c
        BY <1>3, <1>4, <3>1
      <4>2. g.mgrs[i].caches[t] = k /\ h.caches[k].class = c /\ g.caches[k].class = c
        BY <1>0, <1>3, <3>1 DEF Moved
      <4>3. t \in Usable(g, i, d) => g.caches[g.mgrs[i].caches[t]].class = d
        BY ONLY t \in Slots, UsableIs
      <4>4. t \in Usable(h, i, d) => h.caches[h.mgrs[i].caches[t]].class = d
        BY ONLY t \in Slots, UsableIs
      <4> QED BY ONLY <3>1, <4>1, <4>2, <4>3, <4>4
    <3>2. CASE h.mgrs[i].caches[t] # k
      <4>1. h.mgrs[i].caches[t] # None =>
              g.caches[h.mgrs[i].caches[t]] = h.caches[h.mgrs[i].caches[t]]
        BY <1>3, <3>2 DEF Moved
      <4>2. g.mgrs[i].caches[t] = h.mgrs[i].caches[t]
        BY <1>3
      <4>3. PICK j : j = h.mgrs[i].caches[t]
        OBVIOUS
      <4>4. j # None => g.caches[j] = h.caches[j]
        BY <4>1, <4>3
      <4>5. t \in Usable(g, i, d) <=>
              j # None /\ g.caches[j].class = d /\ g.caches[j].free > 0
        BY <4>2, <4>3, UsableIs
      <4>6. t \in Usable(h, i, d) <=>
              j # None /\ h.caches[j].class = d /\ h.caches[j].free > 0
        BY <4>3, UsableIs
      <4> QED BY <4>4, <4>5, <4>6
    <3> QED BY <3>1, <3>2
  <2> QED BY <2>1 DEF Usable
<1>5. ASSUME NEW t \in Slots
      PROVE  t \in Usable(g, m, c) <=> IF t = s THEN f > 0 ELSE t \in Usable(h, m, c)
  <2>1. CASE t = s
    <3>1. g.mgrs[m].caches[t] = k /\ g.caches[k].class = c /\ g.caches[k].free = f
      BY <1>0, <1>3, <2>1 DEF Moved
    <3> QED BY <1>2, <2>1, <3>1, UsableIs
  <2>2. CASE t # s
    <3>1. h.mgrs[m].caches[t] # None =>
              g.caches[h.mgrs[m].caches[t]] = h.caches[h.mgrs[m].caches[t]]
      BY <1>0, <1>3, <2>2 DEF Moved
    <3>2. g.mgrs[m].caches[t] = h.mgrs[m].caches[t]
      BY <1>0, <1>3
    <3>3. PICK j : j = h.mgrs[m].caches[t]
      OBVIOUS
    <3>4. j # None => g.caches[j] = h.caches[j]
      BY <3>1, <3>3
    <3>5. t \in Usable(g, m, c) <=>
            j # None /\ g.caches[j].class = c /\ g.caches[j].free > 0
      <4>1. t \in Usable(g, m, c) <=>
              /\ g.mgrs[m].caches[t] # None
              /\ g.caches[g.mgrs[m].caches[t]].class = c
              /\ g.caches[g.mgrs[m].caches[t]].free > 0
        BY ONLY t \in Slots, UsableIs
      <4> QED BY ONLY <3>2, <3>3, <4>1
    <3>6. t \in Usable(h, m, c) <=>
            j # None /\ h.caches[j].class = c /\ h.caches[j].free > 0
      BY <3>3, UsableIs
    <3> QED BY <2>2, <3>4, <3>5, <3>6
  <2> QED BY <2>1, <2>2
<1>6. f > 0 => Usable(g, m, c) = Usable(h, m, c) \cup {s}
  BY <1>0, <1>5 DEF Usable
<1>7. f = 0 => Usable(g, m, c) = Usable(h, m, c) \ {s}
  BY ONLY <1>0, <1>5 DEF Usable
<1>8. f # 0 <=> f > 0
  OBVIOUS
<1> QED BY <1>4, <1>6, <1>7, <1>8 DEF UsableElsewhere, UsableThere

LEMMA CountsKept ==
  ASSUME NEW h, NEW g, HeapType(h), Typed(h, g), SameSlots(h, g), Counts(h),
         \A i \in 1..Len(h.mgrs), d \in Classes : Cells[d] > 1 =>
           g.mgrs[i].partial_counts[d] = Cardinality(Usable(g, i, d))
  PROVE  Counts(g)
<1>1. /\ DOMAIN h.mgrs = 1..Len(h.mgrs) /\ DOMAIN g.mgrs = DOMAIN h.mgrs
  BY HeapFacts DEF Typed
<1>2. \A i \in 1..Len(h.mgrs) : Occupied(g, i) = Occupied(h, i)
  BY DEF Occupied, SameSlots
<1>3. \A i \in 1..Len(h.mgrs) : g.mgrs[i].used_slots = Cardinality(Occupied(g, i))
  BY <1>1, <1>2 DEF Counts, SameSlots
<1> QED BY <1>1, <1>3 DEF Counts

LEMMA PartialElsewhere ==
  ASSUME NEW h, NEW g, HeapType(h), Typed(h, g), NEW m, NEW c \in Classes,
         UsableElsewhere(h, g, m, c), PartialOK(h),
         \A i \in 1..Len(h.mgrs), d \in Classes : d # c =>
           g.mgrs[i].next_partial_free[d] = h.mgrs[i].next_partial_free[d],
         Cells[c] > 1 => PartialListOK(g, c)
  PROVE  PartialOK(g)
<1>1. ASSUME NEW d \in Classes, Cells[d] > 1, d # c PROVE PartialListOK(g, d)
  <2>1. PartialListOK(h, d)
    BY <1>1 DEF PartialOK
  <2>2. \A i \in 1..Len(h.mgrs) : Usable(g, i, d) = Usable(h, i, d)
    BY <1>1 DEF UsableElsewhere
  <2> QED BY <1>1, <2>1, <2>2, PartialListSame DEF Typed
<1> QED BY <1>1 DEF PartialOK

(* The head of the partial list leaves it, with its last partial cache. *)
LEMMA PartialPop ==
  ASSUME NEW h, NEW g, HeapType(h), Typed(h, g), NEW m \in 1..Len(h.mgrs), m # First,
         NEW c \in Classes, PartialListOK(h, c), m = h.mgrs[First].next_partial_free[c],
         Relinked(h, g, First, c, h.mgrs[m].next_partial_free[c]),
         UsableElsewhere(h, g, m, c), Usable(g, m, c) = {}
  PROVE  PartialListOK(g, c)
<1>1. /\ DOMAIN h.mgrs = 1..Len(h.mgrs) /\ DOMAIN g.mgrs = DOMAIN h.mgrs
      /\ First \in 1..Len(h.mgrs)
  BY HeapFacts DEF Typed
<1>2a. PICK q : \E l \in Nat : IsList(q, l, PartialNext(h, c), Partial(h, c))
  BY DEF PartialListOK
<1>2. PICK l \in Nat : IsList(q, l, PartialNext(h, c), Partial(h, c))
  BY <1>2a
<1>3. Partial(g, c) = Partial(h, c) \ {m}
  BY <1>1 DEF Partial, UsableElsewhere
<1>4. /\ m = PartialNext(h, c)[First] /\ m # None /\ First \notin Partial(h, c)
      /\ PartialNext(g, c)[First] = PartialNext(h, c)[m]
  BY <1>1 DEF PartialNext, Relinked, Partial, None
<1>5. \A a \in Partial(h, c) \ {m} : PartialNext(g, c)[a] = PartialNext(h, c)[a]
  BY <1>1 DEF PartialNext, Relinked, Partial
<1>6. PICK next, new, S : next = PartialNext(h, c) /\ new = PartialNext(g, c) /\ S = Partial(h, c)
  OBVIOUS
<1>7. \E r : \E k \in Nat : IsList(r, k, new, S \ {m})
  <2>1. IsList(q, l, next, S) /\ First \notin S /\ PoppedOff(next, new, S, m)
    BY <1>2, <1>4, <1>5, <1>6 DEF PoppedOff
  <2> QED BY <1>4, <2>1, ListPop
<1> QED BY <1>3, <1>6, <1>7 DEF PartialListOK

(* A manager with its first partial cache becomes the head. *)
LEMMA PartialPush ==
  ASSUME NEW h, NEW g, HeapType(h), Typed(h, g), NEW m \in 1..Len(h.mgrs), m # First,
         NEW c \in Classes, PartialListOK(h, c), Pushed(h, g, m, c),
         UsableElsewhere(h, g, m, c), Usable(h, m, c) = {}, Usable(g, m, c) # {}
  PROVE  PartialListOK(g, c)
<1>1. /\ DOMAIN h.mgrs = 1..Len(h.mgrs) /\ DOMAIN g.mgrs = DOMAIN h.mgrs
      /\ First \in 1..Len(h.mgrs)
  BY HeapFacts DEF Typed
<1>2a. PICK q : \E l \in Nat : IsList(q, l, PartialNext(h, c), Partial(h, c))
  BY DEF PartialListOK
<1>2. PICK l \in Nat : IsList(q, l, PartialNext(h, c), Partial(h, c))
  BY <1>2a
<1>3. Partial(g, c) = Partial(h, c) \cup {m} /\ m \notin Partial(h, c)
  BY <1>1 DEF Partial, UsableElsewhere
<1>4. /\ First \notin Partial(h, c) /\ PartialNext(g, c)[First] = m
      /\ PartialNext(g, c)[m] = PartialNext(h, c)[First]
  BY <1>1 DEF PartialNext, Pushed, Partial
<1>5. \A a \in Partial(h, c) : PartialNext(g, c)[a] = PartialNext(h, c)[a]
  BY <1>1, <1>3 DEF PartialNext, Pushed, Partial
<1>6. PICK next, new, S : next = PartialNext(h, c) /\ new = PartialNext(g, c) /\ S = Partial(h, c)
  OBVIOUS
<1>7. \E r : \E k \in Nat : IsList(r, k, new, S \cup {m})
  <2>1. IsList(q, l, next, S) /\ m \notin S /\ First \notin S /\ PushedOn(next, new, S, m)
    BY <1>2, <1>3, <1>4, <1>5, <1>6 DEF PushedOn
  <2> QED BY <2>1, ListPush
<1> QED BY <1>3, <1>6, <1>7 DEF PartialListOK

LEMMA CardUsable ==
  ASSUME NEW h, NEW i, NEW d
  PROVE  /\ IsFiniteSet(Usable(h, i, d)) /\ Cardinality(Usable(h, i, d)) \in Nat
         /\ Cardinality(Usable(h, i, d)) = 0 <=> Usable(h, i, d) = {}
<1>1. Usable(h, i, d) \in SUBSET Slots
  BY DEF Usable
<1>2. IsFiniteSet(Usable(h, i, d)) /\ Cardinality(Usable(h, i, d)) \in Nat
  BY <1>1, SlotsFinite
<1> QED BY <1>2, FS_EmptySet

SameOwners(h, g) == \A j \in CacheIds : g.caches[j].owner = h.caches[j].owner

(* The counters of the last manager stay. *)
SameElsewhere(h, g, m) ==
    \A i \in 1..Len(h.mgrs) : i # m =>
      /\ g.mgrs[i].used_slots = h.mgrs[i].used_slots
      /\ \A d \in Classes : g.mgrs[i].partial_counts[d] = h.mgrs[i].partial_counts[d]

(* The cache in a slot of manager m *)
LEMMA SlotFacts ==
  ASSUME NEW h, HeapType(h), Homes(h), NEW m \in 1..Len(h.mgrs), NEW s \in Slots,
         NEW k, k = h.mgrs[m].caches[s], k # None
  PROVE  /\ k \in CacheIds /\ h.caches[k].owner = m /\ h.caches[k].used # 0
         /\ h.caches[k].free \in Nat /\ h.caches[k].used \in Nat
         /\ h.caches[k].class \in Classes
<1>1. k \in CacheIds
  BY SlotCache
<1>2. m \in DOMAIN h.mgrs
  BY HeapFacts
<1>3. h.caches[k].owner = m /\ h.caches[k].used # 0
  BY <1>2 DEF Homes
<1>4. h.caches[k] \in CacheType
  BY <1>1, HeapFacts
<1> QED BY <1>1, <1>3, <1>4 DEF CacheType

LEMMA CacheAllocCore ==
  ASSUME NEW h, NEW x, NEW st, Core(h, x, st), NEW m \in 1..Len(h.mgrs), NEW c \in Classes,
         CanCacheAlloc(h, m, c), m = First \/ m = h.mgrs[First].next_partial_free[c],
         NEW g, g = cache_alloc(h, m, c)
  PROVE  /\ g.at \in CacheIds /\ Core(g, [x EXCEPT ![g.at] = x[g.at] + 1], st)
         /\ Typed(h, g) /\ SameNext(h, g) /\ g.cell = h.cell /\ SameOwners(h, g)
         /\ SameElsewhere(h, g, m)
<1>0. HeapType(h) /\ Objects(h, x) /\ Homes(h) /\ Counts(h) /\ FreeOK(h) /\ (~st => PartialOK(h))
  BY DEF Core
<1>1. PICK count \in Nat \ {0} : count = h.mgrs[m].partial_counts[c]
  BY <1>0, HeapFacts DEF CanCacheAlloc
<1>2. PICK s \in Slots : s = Min(Usable(h, m, c)) /\ s \in Usable(h, m, c)
  <2>1. Usable(h, m, c) \subseteq Nat
    BY ONLY McacheAssumption DEF Usable, Slots
  <2>2. Usable(h, m, c) # {}
    BY DEF CanCacheAlloc
  <2>3. Min(Usable(h, m, c)) \in Usable(h, m, c)
    BY ONLY <2>1, <2>2, MinIs
  <2> QED BY <2>3 DEF Usable
<1>3. PICK k : k = h.mgrs[m].caches[s]
  OBVIOUS
<1>4. k # None /\ h.caches[k].class = c /\ h.caches[k].free > 0
  BY <1>2, <1>3, UsableIs
<1>5. /\ k \in CacheIds /\ h.caches[k].owner = m /\ h.caches[k].used # 0
      /\ h.caches[k].free \in Nat /\ h.caches[k].used \in Nat
  BY ONLY <1>0, <1>3, <1>4, m \in 1..Len(h.mgrs), s \in Slots, SlotFacts
<1>6. PICK f \in Nat : f = h.caches[k].free - 1
  BY <1>4, <1>5
<1>7. PICK u \in Nat \ {0} : u = h.caches[k].used + 1
  BY <1>5
<1>8. /\ Typed(h, g) /\ g.at = k /\ Moved(h, g, k, f, u)
      /\ SameSlots(h, g) /\ SameFree(h, g) /\ SameNext(h, g)
      /\ f # 0 => SameCounts(h, g) /\ SamePartial(h, g)
      /\ f = 0 =>
           /\ Recounted(h, g, m, c, count - 1)
           /\ count # 1 => SamePartial(h, g)
           /\ count = 1 => Relinked(h, g, First, c, h.mgrs[m].next_partial_free[c])
  <2>1. f # 0 <=> h.caches[k].free # 1
    BY <1>5, <1>6
  <2>2. k = h.mgrs[m].caches[Min(Usable(h, m, c))]
    BY <1>2, <1>3
  <2>3. /\ Typed(h, g) /\ g.at = k
        /\ Moved(h, g, k, h.caches[k].free - 1, h.caches[k].used + 1)
        /\ SameSlots(h, g) /\ SameFree(h, g) /\ SameNext(h, g)
        /\ h.caches[k].free # 1 => SameCounts(h, g) /\ SamePartial(h, g)
        /\ h.caches[k].free = 1 =>
             /\ Recounted(h, g, m, c, count - 1)
             /\ count # 1 => SamePartial(h, g)
             /\ count = 1 => Relinked(h, g, First, c, h.mgrs[m].next_partial_free[c])
    <3>1. HeapType(h) /\ count \in Nat /\ count # 0 /\ count = h.mgrs[m].partial_counts[c]
      BY <1>0, <1>1
    <3>2. k \in CacheIds /\ h.caches[k].free > 0
      BY <1>4, <1>5
    <3> QED BY ONLY <2>2, <3>1, <3>2, m \in 1..Len(h.mgrs), c \in Classes,
                    g = cache_alloc(h, m, c), CacheAllocFields
  <2> QED BY <1>6, <1>7, <2>1, <2>3
<1>9. HeapType(g) /\ Len(g.mgrs) = Len(h.mgrs)
  BY <1>8 DEF Typed
<1>10. /\ UsableElsewhere(h, g, m, c)
       /\ f # 0 => Usable(g, m, c) = Usable(h, m, c)
       /\ f = 0 => Usable(g, m, c) = Usable(h, m, c) \ {s}
  <2>1. SlotOf(h, m, s, k, c)
    BY <1>3, <1>4, <1>5 DEF SlotOf
  <2>2. UsableElsewhere(h, g, m, c) /\ UsableThere(h, g, m, c, s, f)
    BY <1>0, <1>8, <1>9, <2>1, MovedUsable
  <2> QED BY <1>2, <2>2 DEF UsableThere
<1>11. Objects(g, [x EXCEPT ![k] = x[k] + 1])
  <2>1. x \in [CacheIds -> Nat]
    BY <1>0 DEF Objects
  <2>2. PICK y : y = [x EXCEPT ![k] = x[k] + 1]
    OBVIOUS
  <2>3. x[k] \in Nat /\ x[k] + 1 \in Nat
    BY <1>5, <2>1
  <2>4. Rebased(x, y, k, x[k] + 1)
    BY <1>5, <2>1, <2>2, <2>3, RebasedIs
  <2>5. f + u = h.caches[k].free + h.caches[k].used /\ u - h.caches[k].used = 1
    <3>1. PICK a \in Nat, b \in Nat : a = h.caches[k].free /\ b = h.caches[k].used
      BY <1>5
    <3>2. f = a - 1 /\ u = b + 1
      BY <1>6, <1>7, <3>1
    <3>3. f + u = a + b /\ u - b = 1
      BY <3>2
    <3> QED BY <3>1, <3>3, Zenon
  <2>6. Rebased(x, y, k, x[k] + (u - h.caches[k].used))
    BY <2>4, <2>5
  <2>7. Objects(g, y)
    BY <1>0, <1>5, <1>8, <1>9, <2>5, <2>6, MovedObjects
  <2> QED BY <2>2, <2>7
<1>12. Homes(g)
  BY <1>0, <1>5, <1>8, <1>9, MovedHomes
<1>13. FreeOK(g)
  BY <1>0, <1>8, <1>9, FreeListSame DEF SameSlots
<1>14. Cells[c] > 1 => count = Cardinality(Usable(h, m, c))
  BY <1>0, <1>1, HeapFacts DEF Counts
<1>15. Cells[c] > 1 /\ f = 0 => count - 1 = Cardinality(Usable(g, m, c))
  BY <1>2, <1>10, <1>14, CardUsable, FS_RemoveElement
<1>16. Counts(g)
  <2>1. ASSUME NEW i \in 1..Len(h.mgrs), NEW d \in Classes, Cells[d] > 1
        PROVE  g.mgrs[i].partial_counts[d] = Cardinality(Usable(g, i, d))
    <3>1. h.mgrs[i].partial_counts[d] = Cardinality(Usable(h, i, d))
      BY <1>0, <2>1, HeapFacts DEF Counts
    <3>2. CASE i # m \/ d # c
      <4>1. g.mgrs[i].partial_counts[d] = h.mgrs[i].partial_counts[d]
        BY <1>8, <3>2 DEF SameCounts, Recounted
      <4> QED BY <1>10, <3>1, <3>2, <4>1 DEF UsableElsewhere
    <3>3. CASE i = m /\ d = c /\ f # 0
      BY <1>8, <1>10, <3>1, <3>3 DEF SameCounts
    <3>4. CASE i = m /\ d = c /\ f = 0
      BY <1>8, <1>15, <2>1, <3>4 DEF Recounted
    <3> QED BY <3>2, <3>3, <3>4
  <2> QED BY <1>0, <1>8, <2>1, CountsKept
<1>17. ~st => PartialOK(g)
  <2> SUFFICES ASSUME ~st PROVE PartialOK(g)
    OBVIOUS
  <2>1. PartialOK(h)
    BY <1>0
  <2>2. \A i \in 1..Len(h.mgrs), d \in Classes : d # c =>
           g.mgrs[i].next_partial_free[d] = h.mgrs[i].next_partial_free[d]
    BY <1>8 DEF SamePartial, Relinked
  <2>3. ASSUME Cells[c] > 1 PROVE PartialListOK(g, c)
    <3>1. PartialListOK(h, c)
      BY <2>1, <2>3 DEF PartialOK
    <3>2. CASE f = 0 /\ count = 1 /\ m # First
      <4>1. Usable(g, m, c) = {}
        BY <1>15, <2>3, <3>2, CardUsable
      <4>2. m = h.mgrs[First].next_partial_free[c]
        BY <3>2
      <4> QED BY <1>0, <1>8, <1>10, <3>1, <3>2, <4>1, <4>2, PartialPop
    <3>3. CASE ~(f = 0 /\ count = 1 /\ m # First)
      <4>1. \A i \in 1..Len(h.mgrs) :
              g.mgrs[i].next_partial_free[c] = h.mgrs[i].next_partial_free[c]
        BY <1>8, <3>3 DEF SamePartial, Relinked
      <4>2. ASSUME NEW i \in 1..Len(h.mgrs), i # First
            PROVE  Usable(g, i, c) = {} <=> Usable(h, i, c) = {}
        <5>1. CASE i # m
          BY <1>10, <5>1 DEF UsableElsewhere
        <5>2. CASE i = m /\ f # 0
          BY <1>10, <5>2
        <5>3. CASE i = m /\ f = 0
          <6>1. count - 1 # 0
            BY <3>3, <4>2, <5>3
          <6>2. Usable(g, m, c) # {}
            BY <1>15, <2>3, <5>3, <6>1, CardUsable
          <6> QED BY <1>2, <5>3, <6>2
        <5> QED BY <5>1, <5>2, <5>3
      <4> QED BY <1>0, <1>9, <3>1, <4>1, <4>2, PartialListSame
    <3> QED BY <3>2, <3>3
  <2> QED BY <1>0, <1>8, <1>10, <2>1, <2>2, <2>3, PartialElsewhere
<1>18. Core(g, [x EXCEPT ![g.at] = x[g.at] + 1], st)
  BY <1>8, <1>9, <1>11, <1>12, <1>13, <1>16, <1>17 DEF Core
<1>19. SameOwners(h, g) /\ g.cell = h.cell
  BY <1>8 DEF Moved, SameOwners
<1>20. SameElsewhere(h, g, m)
  BY <1>8 DEF SameElsewhere, SameSlots, SameCounts, Recounted
<1> QED BY <1>5, <1>8, <1>18, <1>19, <1>20

(* A cache in use is in one slot of its owner. *)
LEMMA OwnerFacts ==
  ASSUME NEW h, HeapType(h), Homes(h), NEW k \in CacheIds, h.caches[k].used # 0
  PROVE  /\ h.caches[k].owner \in 1..Len(h.mgrs) /\ h.caches[k].class \in Classes
         /\ h.caches[k].free \in Nat /\ h.caches[k].used \in Nat \ {0}
         /\ \E s \in Slots :
              /\ SlotOf(h, h.caches[k].owner, s, k, h.caches[k].class)
              /\ {t \in Slots : h.mgrs[h.caches[k].owner].caches[t] = k} = {s}
<1>1. DOMAIN h.mgrs = 1..Len(h.mgrs) /\ h.caches[k] \in CacheType /\ k # None
  BY HeapFacts DEF CacheIds, None
<1>2. /\ h.caches[k].owner \in 1..Len(h.mgrs) /\ h.caches[k].class \in Classes
      /\ h.caches[k].free \in Nat /\ h.caches[k].used \in Nat \ {0}
  BY <1>1 DEF Homes, CacheType
<1>3. PICK m \in 1..Len(h.mgrs) : m = h.caches[k].owner
  BY <1>2
<1>4. PICK s \in Slots : h.mgrs[m].caches[s] = k
  BY <1>3 DEF Homes
<1>5. \A t \in Slots : h.mgrs[m].caches[t] = k => t = s
  BY <1>1, <1>4 DEF Homes
<1>6. {t \in Slots : h.mgrs[m].caches[t] = k} = {s}
  BY <1>4, <1>5
<1>7. SlotOf(h, m, s, k, h.caches[k].class)
  BY <1>2, <1>4 DEF SlotOf
<1> QED BY <1>2, <1>3, <1>6, <1>7

LEMMA FreeObjCore ==
  ASSUME NEW h, NEW x, NEW st, Core(h, x, st), NEW k \in CacheIds, x[k] > 0,
         h.caches[k].used # 1, NEW m, m = h.caches[k].owner, NEW g, g = free_obj(h, m, k)
  PROVE  /\ Core(g, [x EXCEPT ![k] = x[k] - 1], st)
         /\ Typed(h, g) /\ SameNext(h, g) /\ g.cell = h.cell /\ SameOwners(h, g)
         /\ SameElsewhere(h, g, m)
<1>0. HeapType(h) /\ Objects(h, x) /\ Homes(h) /\ Counts(h) /\ FreeOK(h) /\ (~st => PartialOK(h))
  BY DEF Core
<1>1. x \in [CacheIds -> Nat] /\ x[k] \in Nat /\ x[k] - 1 \in Nat
  BY <1>0 DEF Objects
<1>2. h.caches[k].used # 0
  <2>1. PICK a \in Nat : a = Cardinality(Holds(h, k))
    BY HoldsNat
  <2>2. h.caches[k].used = x[k] + a
    BY <1>0, <2>1 DEF Objects
  <2>3. x[k] + a # 0
    BY <1>1
  <2> QED BY <2>2, <2>3
<1>3. PICK c \in Classes : c = h.caches[k].class
  BY <1>0, <1>2, OwnerFacts
<1>4. m \in 1..Len(h.mgrs)
  BY <1>0, <1>2, OwnerFacts
<1>5. PICK s \in Slots : SlotOf(h, m, s, k, c)
  BY <1>0, <1>2, <1>3, OwnerFacts
<1>6. PICK a \in Nat, b \in Nat \ {0} : a = h.caches[k].free /\ b = h.caches[k].used
  BY <1>0, <1>2, OwnerFacts
<1>7. PICK f \in Nat \ {0}, u \in Nat \ {0} : f = a + 1 /\ u = b - 1
  BY <1>6
<1>8. PICK count \in Nat : count = h.mgrs[m].partial_counts[c]
  <2>1. h.mgrs[m].partial_counts \in [Classes -> Nat]
    BY <1>0, <1>4, HeapFacts
  <2> QED BY <2>1
<1>9. /\ Typed(h, g) /\ Moved(h, g, k, f, u)
      /\ SameSlots(h, g) /\ SameFree(h, g) /\ SameNext(h, g)
      /\ a # 0 => SameCounts(h, g) /\ SamePartial(h, g)
      /\ a = 0 =>
           /\ Recounted(h, g, m, c, count + 1)
           /\ IF m = First \/ count # 0 THEN SamePartial(h, g) ELSE Pushed(h, g, m, c)
  <2>1. /\ Typed(h, g)
        /\ Moved(h, g, k, h.caches[k].free + 1, h.caches[k].used - 1)
        /\ SameSlots(h, g) /\ SameFree(h, g) /\ SameNext(h, g)
        /\ h.caches[k].free # 0 => SameCounts(h, g) /\ SamePartial(h, g)
        /\ h.caches[k].free = 0 =>
             /\ Recounted(h, g, m, c, count + 1)
             /\ IF m = First \/ count # 0 THEN SamePartial(h, g) ELSE Pushed(h, g, m, c)
    BY ONLY <1>0, <1>2, <1>3, <1>4, <1>8, k \in CacheIds, c \in Classes,
            count \in Nat, g = free_obj(h, m, k), FreeObjFields
  <2> QED BY <1>6, <1>7, <2>1
<1>10. HeapType(g) /\ Len(g.mgrs) = Len(h.mgrs)
  BY <1>9 DEF Typed
<1>11. UsableElsewhere(h, g, m, c) /\ Usable(g, m, c) = Usable(h, m, c) \cup {s}
  <2>1. UsableElsewhere(h, g, m, c) /\ UsableThere(h, g, m, c, s, f)
    BY <1>0, <1>5, <1>9, <1>10, MovedUsable
  <2> QED BY <2>1 DEF UsableThere
<1>12. s \in Usable(h, m, c) <=> a # 0
  <2>1. h.mgrs[m].caches[s] = k /\ k # None
    BY <1>5 DEF SlotOf, CacheIds, None
  <2>2. s \in Usable(h, m, c) <=> h.caches[k].free > 0
    BY <1>3, <2>1, UsableIs
  <2>3. a > 0 <=> a # 0
    OBVIOUS
  <2> QED BY <1>6, <2>2, <2>3
<1>13. Objects(g, [x EXCEPT ![k] = x[k] - 1])
  <2>1. PICK y : y = [x EXCEPT ![k] = x[k] - 1]
    OBVIOUS
  <2>2. Rebased(x, y, k, x[k] - 1)
    BY <1>1, <2>1, RebasedIs
  <2>3. f + u = a + b /\ x[k] + (u - b) = x[k] - 1
    BY <1>1, <1>7
  <2>4. f + u = h.caches[k].free + h.caches[k].used
    BY <1>6, <2>3, Zenon
  <2>5. Rebased(x, y, k, x[k] + (u - h.caches[k].used))
    BY <1>6, <2>2, <2>3
  <2>6. Objects(g, y)
    BY <1>0, <1>2, <1>9, <1>10, <2>4, <2>5, MovedObjects
  <2> QED BY <2>1, <2>6
<1>14. Homes(g)
  BY <1>0, <1>2, <1>9, <1>10, MovedHomes
<1>15. FreeOK(g)
  BY <1>0, <1>9, <1>10, FreeListSame DEF SameSlots
<1>16. Cells[c] > 1 => count = Cardinality(Usable(h, m, c))
  BY <1>0, <1>4, <1>8, HeapFacts DEF Counts
<1>17. Cells[c] > 1 /\ a = 0 => count + 1 = Cardinality(Usable(g, m, c))
  <2> SUFFICES ASSUME Cells[c] > 1, a = 0 PROVE count + 1 = Cardinality(Usable(g, m, c))
    OBVIOUS
  <2>1. PICK U : U = Usable(h, m, c)
    OBVIOUS
  <2>2. IsFiniteSet(U) /\ s \notin U /\ count = Cardinality(U)
    BY <1>12, <1>16, <2>1, CardUsable
  <2>3. Cardinality(U \cup {s}) = Cardinality(U) + 1
    BY <2>2, FS_AddElement
  <2> QED BY <1>11, <2>1, <2>2, <2>3
<1>18. a # 0 => Usable(g, m, c) = Usable(h, m, c)
  BY <1>11, <1>12
<1>19. Counts(g)
  <2>1. ASSUME NEW i \in 1..Len(h.mgrs), NEW d \in Classes, Cells[d] > 1
        PROVE  g.mgrs[i].partial_counts[d] = Cardinality(Usable(g, i, d))
    <3>1. h.mgrs[i].partial_counts[d] = Cardinality(Usable(h, i, d))
      BY <1>0, <2>1, HeapFacts DEF Counts
    <3>2. CASE i # m \/ d # c
      <4>1. g.mgrs[i].partial_counts[d] = h.mgrs[i].partial_counts[d]
        BY <1>9, <3>2 DEF SameCounts, Recounted
      <4> QED BY <1>11, <3>1, <3>2, <4>1 DEF UsableElsewhere
    <3>3. CASE i = m /\ d = c /\ a # 0
      BY <1>9, <1>18, <3>1, <3>3 DEF SameCounts
    <3>4. CASE i = m /\ d = c /\ a = 0
      BY <1>9, <1>17, <2>1, <3>4 DEF Recounted
    <3> QED BY <3>2, <3>3, <3>4
  <2> QED BY <1>0, <1>9, <2>1, CountsKept
<1>20. ~st => PartialOK(g)
  <2> SUFFICES ASSUME ~st PROVE PartialOK(g)
    OBVIOUS
  <2>1. PartialOK(h)
    BY <1>0
  <2>2. \A i \in 1..Len(h.mgrs), d \in Classes : d # c =>
           g.mgrs[i].next_partial_free[d] = h.mgrs[i].next_partial_free[d]
    BY <1>9 DEF SamePartial, Pushed
  <2>3. ASSUME Cells[c] > 1 PROVE PartialListOK(g, c)
    <3>1. PartialListOK(h, c)
      BY <2>1, <2>3 DEF PartialOK
    <3>2. CASE a = 0 /\ count = 0 /\ m # First
      <4>1. Usable(h, m, c) = {} /\ Usable(g, m, c) # {}
        BY <1>11, <1>16, <2>3, <3>2, CardUsable
      <4>2. Pushed(h, g, m, c)
        BY <1>9, <3>2
      <4> QED BY <1>0, <1>4, <1>9, <1>11, <3>1, <3>2, <4>1, <4>2, PartialPush
    <3>3. CASE ~(a = 0 /\ count = 0 /\ m # First)
      <4>1. \A i \in 1..Len(h.mgrs) :
              g.mgrs[i].next_partial_free[c] = h.mgrs[i].next_partial_free[c]
        <5>1. SamePartial(h, g)
          BY <1>9, <3>3
        <5> QED BY <5>1 DEF SamePartial
      <4>2. ASSUME NEW i \in 1..Len(h.mgrs), i # First
            PROVE  Usable(g, i, c) = {} <=> Usable(h, i, c) = {}
        <5>1. CASE i # m
          BY <1>11, <5>1 DEF UsableElsewhere
        <5>2. CASE i = m /\ a # 0
          BY <1>18, <5>2
        <5>3. CASE i = m /\ a = 0
          <6>1. Usable(h, m, c) # {}
            BY <1>16, <2>3, <3>3, <4>2, <5>3, CardUsable
          <6> QED BY <1>11, <5>3, <6>1
        <5> QED BY <5>1, <5>2, <5>3
      <4> QED BY <1>0, <1>10, <3>1, <4>1, <4>2, PartialListSame
    <3> QED BY <3>2, <3>3
  <2> QED BY <1>0, <1>9, <1>11, <2>1, <2>2, <2>3, PartialElsewhere
<1>21. Core(g, [x EXCEPT ![k] = x[k] - 1], st)
  BY <1>10, <1>13, <1>14, <1>15, <1>19, <1>20 DEF Core
<1>22. SameOwners(h, g) /\ g.cell = h.cell
  BY <1>9 DEF Moved, SameOwners
<1>23. SameElsewhere(h, g, m)
  BY <1>9 DEF SameElsewhere, SameSlots, SameCounts, Recounted
<1> QED BY <1>9, <1>21, <1>22, <1>23

-----------------------------------------------------------------------------
(* What NewCache writes: a page for class c with one cell taken goes into   *)
(* the empty slot s of manager m.                                          *)
Page(g, k, f, c, m) ==
    /\ g.caches[k].class = c /\ g.caches[k].free = f /\ g.caches[k].used = 1
    /\ g.caches[k].owner = m

LEMMA MadeFields ==
  ASSUME NEW h, HeapType(h), NEW k \in CacheIds, NEW c \in Classes, NEW m \in 1..Len(h.mgrs),
         NEW g, g = alloc_obj(SetCache(h, k, [class |-> c, free |-> Cells[c], used |-> 0,
                                              owner |-> m]), k)
  PROVE  /\ HeapType(g) /\ SameMgrs(h, g) /\ g.at = k /\ Page(g, k, Cells[c] - 1, c, m)
         /\ \A j \in CacheIds : j # k => g.caches[j] = h.caches[j]
<1> DEFINE page == [class |-> c, free |-> Cells[c], used |-> 0, owner |-> m]
           r == SetCache(h, k, page)
<1>1. Cells[c] \in Nat \ {0} /\ MaxMgrs \in Nat
  BY McacheAssumption
<1>2. m \in 0..MaxMgrs
  BY <1>1, HeapFacts
<1>3. /\ page \in CacheType /\ page.free = Cells[c] /\ page.used = 0 /\ page.class = c
      /\ page.owner = m
  BY <1>1, <1>2 DEF CacheType
<1>4. g = alloc_obj(r, k)
  OBVIOUS
<1> HIDE DEF page
<1>5. /\ HeapType(r) /\ SameMgrs(h, r)
      /\ \A j \in CacheIds : r.caches[j] = IF j = k THEN page ELSE h.caches[j]
  BY <1>3, SetCacheFields
<1> HIDE DEF r
<1>6. /\ r.caches[k].free = Cells[c] /\ r.caches[k].used = 0
      /\ r.caches[k].class = c /\ r.caches[k].owner = m
  BY <1>3, <1>5
<1>7. r.caches[k].free > 0
  BY <1>1, <1>6
<1>8. /\ HeapType(g) /\ SameMgrs(r, g) /\ g.at = k
      /\ g.caches[k].free = r.caches[k].free - 1
      /\ g.caches[k].used = r.caches[k].used + 1
      /\ g.caches[k].class = r.caches[k].class
      /\ g.caches[k].owner = r.caches[k].owner
      /\ \A j \in CacheIds : j # k => g.caches[j] = r.caches[j]
  <2>1. HeapType(r)
    BY <1>5
  <2> QED BY ONLY <1>4, <1>7, <2>1, AllocObjFields, k \in CacheIds
<1>9. g.caches[k].used = 1
  BY <1>6, <1>8
<1>10. Page(g, k, Cells[c] - 1, c, m)
  BY <1>6, <1>8, <1>9 DEF Page
<1>11. SameMgrs(h, g)
  BY <1>5, <1>8 DEF SameMgrs
<1>12. \A j \in CacheIds : j # k => g.caches[j] = h.caches[j]
  BY <1>5, <1>8
<1> QED BY <1>8, <1>10, <1>11, <1>12

(* A manager whose slots are not all taken has an empty one. *)
LEMMA EmptySlot ==
  ASSUME NEW h, HeapType(h), Counts(h), NEW m \in 1..Len(h.mgrs), h.mgrs[m].used_slots # SlotNum
  PROVE  {s \in Slots : h.mgrs[m].caches[s] = None} # {}
<1>1. h.mgrs[m].used_slots = Cardinality(Occupied(h, m))
  BY HeapFacts DEF Counts
<1> SUFFICES ASSUME {s \in Slots : h.mgrs[m].caches[s] = None} = {} PROVE FALSE
  OBVIOUS
<1>2. Occupied(h, m) = Slots
  BY DEF Occupied
<1> QED BY <1>1, <1>2, SlotsFinite

NewCacheIs(h, g, m, c, used, count, k, s) ==
    /\ h.mgrs[m].caches[s] = None
    /\ Typed(h, g) /\ g.at = k /\ g.cell = h.cell /\ Page(g, k, Cells[c] - 1, c, m)
    /\ \A j \in CacheIds : j # k => g.caches[j] = h.caches[j]
    /\ Slotted(h, g, m, s, k, used + 1) /\ Recounted(h, g, m, c, count + 1)
    /\ SameNext(h, g)
    /\ IF m = First \/ count # 0 THEN SamePartial(h, g) ELSE Pushed(h, g, m, c)
    /\ IF used + 1 = SlotNum THEN Freed(h, g, First, h.mgrs[m].next_free)
       ELSE SameFree(h, g)

LEMMA NewCacheFields ==
  ASSUME NEW h, HeapType(h), Counts(h), NEW m \in 1..Len(h.mgrs), NEW c \in Classes,
         Unused(h) # {}, NEW used \in Nat, used = h.mgrs[m].used_slots, used < SlotNum,
         NEW count \in Nat, count = h.mgrs[m].partial_counts[c], NEW g, g = NewCache(h, m, c)
  PROVE  \E k \in Unused(h), s \in Slots : NewCacheIs(h, g, m, c, used, count, k, s)
<1>1. PICK k \in Unused(h) : k = Min(Unused(h))
  <2>1. Unused(h) \subseteq Nat
    BY McacheAssumption DEF Unused, CacheIds
  <2> QED BY <2>1, MinIs
<1>2. k \in CacheIds /\ k \in 0..MaxCaches
  BY <1>1, McacheAssumption DEF Unused, CacheIds
<1> DEFINE a == alloc_obj(SetCache(h, k, [class |-> c, free |-> Cells[c], used |-> 0,
                                          owner |-> m]), k)
           b == PushPartial(a, m, c)
           d == add_cache(b, m, k)
           e == SetCount(d, m, c, d.mgrs[m].partial_counts[c] + 1)
<1>3. g = IF is_slots_full(e, m) THEN SetFree(e, First, e.mgrs[m].next_free) ELSE e
  BY <1>1 DEF NewCache
<1>4. /\ HeapType(a) /\ SameMgrs(h, a) /\ a.at = k /\ Page(a, k, Cells[c] - 1, c, m)
      /\ \A j \in CacheIds : j # k => a.caches[j] = h.caches[j]
  BY <1>2, MadeFields
<1> HIDE DEF a
<1>5. a.mgrs = h.mgrs /\ a.cell = h.cell /\ m \in 1..Len(a.mgrs)
  <2>1. a.mgrs = h.mgrs /\ a.cell = h.cell
    BY <1>4 DEF SameMgrs
  <2> QED BY <2>1
<1>6. /\ Typed(a, b) /\ SameCells(a, b) /\ b.at = a.at
      /\ SameSlots(a, b) /\ SameFree(a, b) /\ SameNext(a, b) /\ SameCounts(a, b)
      /\ IF m = First \/ a.mgrs[m].partial_counts[c] # 0 THEN SamePartial(a, b)
         ELSE Pushed(a, b, m, c)
  BY <1>4, <1>5, PushPartialFields
<1> HIDE DEF b
<1>7. /\ HeapType(b) /\ Len(b.mgrs) = Len(h.mgrs) /\ m \in 1..Len(b.mgrs)
      /\ b.caches = a.caches /\ b.cell = h.cell /\ b.at = k
      /\ SameSlots(h, b) /\ SameFree(h, b) /\ SameNext(h, b) /\ SameCounts(h, b)
  BY <1>4, <1>5, <1>6 DEF Typed, SameCells, SameSlots, SameFree, SameNext, SameCounts
<1>8. IF m = First \/ count # 0 THEN SamePartial(h, b) ELSE Pushed(h, b, m, c)
  <2>1. SamePartial(a, b) => SamePartial(h, b)
    BY <1>5 DEF SamePartial
  <2>2. Pushed(a, b, m, c) => Pushed(h, b, m, c)
    BY <1>5 DEF Pushed
  <2> QED BY <1>5, <1>6, <2>1, <2>2
<1>9. PICK s \in Slots : h.mgrs[m].caches[s] = None /\ d = SetSlot(b, m, s, k, used + 1)
  <2> DEFINE empty == {s \in Slots : h.mgrs[m].caches[s] = None}
  <2>1. empty # {}
    BY EmptySlot
  <2>2. empty \subseteq Nat
    BY McacheAssumption DEF Slots
  <2>3. Min(empty) \in empty
    BY <2>1, <2>2, MinIs
  <2>4. b.mgrs[m].caches = h.mgrs[m].caches /\ b.mgrs[m].used_slots = used
    BY <1>7 DEF SameSlots
  <2>5. {s \in Slots : b.mgrs[m].caches[s] = None} = empty
    BY <2>4
  <2>6. d = SetSlot(b, m, Min(empty), k, used + 1)
    BY <2>1, <2>4, <2>5 DEF add_cache
  <2> QED BY <2>3, <2>6
<1>10. used + 1 \in 0..SlotNum
  BY McacheAssumption
<1>11. /\ Typed(b, d) /\ SameCells(b, d) /\ d.at = b.at
       /\ SameFree(b, d) /\ SameNext(b, d) /\ SameCounts(b, d) /\ SamePartial(b, d)
       /\ Slotted(b, d, m, s, k, used + 1)
  BY <1>2, <1>7, <1>9, <1>10, SetSlotFields
<1> HIDE DEF d
<1>12. /\ HeapType(d) /\ Len(d.mgrs) = Len(h.mgrs) /\ m \in 1..Len(d.mgrs)
       /\ d.caches = a.caches /\ d.cell = h.cell /\ d.at = k
       /\ SameFree(h, d) /\ SameNext(h, d) /\ SameCounts(h, d)
  BY <1>7, <1>11 DEF Typed, SameCells, SameFree, SameNext, SameCounts
<1>13. Slotted(h, d, m, s, k, used + 1)
  BY ONLY <1>7, <1>11, ThenSlotted
<1>14. IF m = First \/ count # 0 THEN SamePartial(h, d) ELSE Pushed(h, d, m, c)
  <2>0. \A i \in 1..Len(h.mgrs), j \in Classes :
          d.mgrs[i].next_partial_free[j] = b.mgrs[i].next_partial_free[j]
    BY <1>7, <1>11 DEF SamePartial
  <2>1. SamePartial(h, b) => SamePartial(h, d)
    BY <2>0 DEF SamePartial
  <2>2. Pushed(h, b, m, c) => Pushed(h, d, m, c)
    BY <2>0 DEF Pushed
  <2> QED BY <1>8, <2>1, <2>2
<1>15. d.mgrs[m].partial_counts[c] = count /\ count + 1 \in Nat
  BY <1>12 DEF SameCounts
<1>16. /\ Typed(d, e) /\ SameCells(d, e) /\ e.at = d.at
       /\ SameSlots(d, e) /\ SameFree(d, e) /\ SameNext(d, e) /\ SamePartial(d, e)
       /\ Recounted(d, e, m, c, count + 1)
  BY <1>12, <1>15, SetCountFields
<1> HIDE DEF e
<1>17. /\ HeapType(e) /\ Len(e.mgrs) = Len(h.mgrs) /\ m \in 1..Len(e.mgrs)
       /\ e.caches = a.caches /\ e.cell = h.cell /\ e.at = k
       /\ SameFree(h, e) /\ SameNext(h, e)
  BY <1>12, <1>16 DEF Typed, SameCells, SameFree, SameNext
<1>18. Slotted(h, e, m, s, k, used + 1)
  BY ONLY <1>12, <1>13, <1>16, SlottedThen
<1>19. Recounted(h, e, m, c, count + 1)
  BY <1>12, <1>16 DEF Recounted, SameCounts
<1>20. IF m = First \/ count # 0 THEN SamePartial(h, e) ELSE Pushed(h, e, m, c)
  <2>0. \A i \in 1..Len(h.mgrs), j \in Classes :
          e.mgrs[i].next_partial_free[j] = d.mgrs[i].next_partial_free[j]
    BY <1>12, <1>16 DEF SamePartial
  <2>1. SamePartial(h, d) => SamePartial(h, e)
    BY <2>0 DEF SamePartial
  <2>2. Pushed(h, d, m, c) => Pushed(h, e, m, c)
    BY <2>0 DEF Pushed
  <2> QED BY <1>14, <2>1, <2>2
<1>21. is_slots_full(e, m) <=> used + 1 = SlotNum
  BY <1>18 DEF is_slots_full, Slotted
<1>22. /\ Page(e, k, Cells[c] - 1, c, m) /\ \A j \in CacheIds : j # k => e.caches[j] = h.caches[j]
  BY <1>4, <1>17 DEF Page
<1>23. CASE used + 1 # SlotNum
  <2>1. g = e
    BY <1>3, <1>21, <1>23
  <2>2. Typed(h, g)
    BY <1>17, <2>1 DEF Typed
  <2>3. NewCacheIs(h, g, m, c, used, count, k, s)
    BY <1>9, <1>17, <1>18, <1>19, <1>20, <1>22, <1>23, <2>1, <2>2 DEF NewCacheIs
  <2> QED BY <2>3
<1>24. CASE used + 1 = SlotNum
  <2>1. PICK p : p = e.mgrs[m].next_free
    OBVIOUS
  <2>2. g = SetFree(e, First, p)
    BY <1>3, <1>21, <1>24, <2>1
  <2>3. p = h.mgrs[m].next_free
    BY <1>17, <2>1 DEF SameFree
  <2>4. p \in 0..Len(e.mgrs) /\ First \in 1..Len(e.mgrs)
    BY <1>17, <2>1, HeapFacts
  <2>5. /\ Typed(e, g) /\ SameCells(e, g) /\ g.at = e.at
        /\ SameSlots(e, g) /\ SameNext(e, g) /\ SameCounts(e, g) /\ SamePartial(e, g)
        /\ Freed(e, g, First, p)
    BY <1>17, <2>2, <2>4, SetFreeFields
  <2>6. Typed(h, g) /\ g.at = k /\ g.cell = h.cell /\ SameNext(h, g) /\ g.caches = e.caches
    BY <1>17, <2>5 DEF Typed, SameCells, SameNext
  <2>7. Slotted(h, g, m, s, k, used + 1)
    BY ONLY <1>17, <1>18, <2>5, SlottedThen
  <2>8. Recounted(h, g, m, c, count + 1)
    BY <1>17, <1>19, <2>5 DEF Recounted, SameCounts
  <2>9. IF m = First \/ count # 0 THEN SamePartial(h, g) ELSE Pushed(h, g, m, c)
    <3>0. \A i \in 1..Len(h.mgrs), j \in Classes :
            g.mgrs[i].next_partial_free[j] = e.mgrs[i].next_partial_free[j]
      BY <1>17, <2>5 DEF SamePartial
    <3>1. SamePartial(h, e) => SamePartial(h, g)
      BY <3>0 DEF SamePartial
    <3>2. Pushed(h, e, m, c) => Pushed(h, g, m, c)
      BY <3>0 DEF Pushed
    <3> QED BY <1>20, <3>1, <3>2
  <2>10. Freed(h, g, First, h.mgrs[m].next_free)
    BY <1>17, <2>3, <2>5 DEF Freed, SameFree
  <2>11. /\ Page(g, k, Cells[c] - 1, c, m)
         /\ \A j \in CacheIds : j # k => g.caches[j] = h.caches[j]
    BY <1>22, <2>6 DEF Page
  <2>12. NewCacheIs(h, g, m, c, used, count, k, s)
    BY <1>9, <1>24, <2>6, <2>7, <2>8, <2>9, <2>10, <2>11 DEF NewCacheIs
  <2> QED BY <2>12
<1> QED BY <1>23, <1>24

(* Slot s of manager m is the only one that changes, or whose cache does. *)
Untouched(h, g, m, s) ==
    \A i \in 1..Len(h.mgrs), t \in Slots : i # m \/ t # s =>
      /\ g.mgrs[i].caches[t] = h.mgrs[i].caches[t]
      /\ h.mgrs[i].caches[t] # None =>
           g.caches[h.mgrs[i].caches[t]] = h.caches[h.mgrs[i].caches[t]]

LEMMA UntouchedUsable ==
  ASSUME NEW h, NEW g, NEW m, NEW s, Untouched(h, g, m, s), NEW i \in 1..Len(h.mgrs),
         NEW t \in Slots, i # m \/ t # s
  PROVE  /\ \A d : t \in Usable(g, i, d) <=> t \in Usable(h, i, d)
         /\ t \in Occupied(g, i) <=> t \in Occupied(h, i)
<1>1. PICK j : j = h.mgrs[i].caches[t]
  OBVIOUS
<1>2. g.mgrs[i].caches[t] = j /\ (j # None => g.caches[j] = h.caches[j])
  BY <1>1 DEF Untouched
<1>3. ASSUME NEW d PROVE t \in Usable(g, i, d) <=> t \in Usable(h, i, d)
  <2>1. t \in Usable(g, i, d) <=> j # None /\ g.caches[j].class = d /\ g.caches[j].free > 0
    BY <1>2, UsableIs
  <2>2. t \in Usable(h, i, d) <=> j # None /\ h.caches[j].class = d /\ h.caches[j].free > 0
    BY <1>1, UsableIs
  <2> QED BY <1>2, <2>1, <2>2
<1> QED BY <1>1, <1>2, <1>3 DEF Occupied

(* The slots of the other managers, and the other slots of m *)
SetsKept(h, g, m, s) ==
    /\ \A i \in 1..Len(h.mgrs), d \in Classes : i # m => Usable(g, i, d) = Usable(h, i, d)
    /\ \A i \in 1..Len(h.mgrs) : i # m => Occupied(g, i) = Occupied(h, i)
    /\ \A d \in Classes : Usable(g, m, d) \ {s} = Usable(h, m, d) \ {s}
    /\ Occupied(g, m) \ {s} = Occupied(h, m) \ {s}

LEMMA UntouchedSets ==
  ASSUME NEW h, NEW g, NEW m \in 1..Len(h.mgrs), NEW s \in Slots, Untouched(h, g, m, s)
  PROVE  SetsKept(h, g, m, s)
<1>1. ASSUME NEW i \in 1..Len(h.mgrs), i # m, NEW d \in Classes
      PROVE  Usable(g, i, d) = Usable(h, i, d)
  <2>1. \A t \in Slots : t \in Usable(g, i, d) <=> t \in Usable(h, i, d)
    BY <1>1, UntouchedUsable
  <2> QED BY <2>1 DEF Usable
<1>2. ASSUME NEW i \in 1..Len(h.mgrs), i # m PROVE Occupied(g, i) = Occupied(h, i)
  <2>1. \A t \in Slots : t \in Occupied(g, i) <=> t \in Occupied(h, i)
    BY <1>2, UntouchedUsable
  <2> QED BY <2>1 DEF Occupied
<1>3. ASSUME NEW d \in Classes PROVE Usable(g, m, d) \ {s} = Usable(h, m, d) \ {s}
  <2>1. \A t \in Slots : t # s => (t \in Usable(g, m, d) <=> t \in Usable(h, m, d))
    BY UntouchedUsable
  <2>2. \A t \in Usable(g, m, d) : t \in Slots
    BY DEF Usable
  <2>3. \A t \in Usable(h, m, d) : t \in Slots
    BY DEF Usable
  <2> QED BY <2>1, <2>2, <2>3
<1>4. Occupied(g, m) \ {s} = Occupied(h, m) \ {s}
  <2>1. \A t \in Slots : t # s => (t \in Occupied(g, m) <=> t \in Occupied(h, m))
    BY UntouchedUsable
  <2> QED BY <2>1 DEF Occupied
<1> QED BY <1>1, <1>2, <1>3, <1>4 DEF SetsKept

LEMMA FreePush ==
  ASSUME NEW h, NEW g, HeapType(h), HeapType(g), FreeOK(h), NEW m, m # First,
         m \in 1..Len(g.mgrs), m \notin Roomy(h), Roomy(g) = Roomy(h) \cup {m},
         Len(g.mgrs) >= Len(h.mgrs), g.mgrs[First].next_free = m,
         g.mgrs[m].next_free = h.mgrs[First].next_free,
         \A i \in 1..Len(h.mgrs) : i # First /\ i # m => g.mgrs[i].next_free = h.mgrs[i].next_free
  PROVE  FreeOK(g)
<1>1. /\ DOMAIN h.mgrs = 1..Len(h.mgrs) /\ DOMAIN g.mgrs = 1..Len(g.mgrs)
      /\ First \in DOMAIN h.mgrs /\ First \in DOMAIN g.mgrs
      /\ Len(h.mgrs) \in Nat /\ Len(g.mgrs) \in Nat
  BY HeapFacts
<1>2a. PICK q : \E l \in Nat : IsList(q, l, FreeNext(h), Roomy(h))
  BY DEF FreeOK
<1>2. PICK l \in Nat : IsList(q, l, FreeNext(h), Roomy(h))
  BY <1>2a
<1>3. First \notin Roomy(h) /\ \A a \in Roomy(h) : a \in 1..Len(h.mgrs) /\ a \in 1..Len(g.mgrs)
  BY <1>1 DEF Roomy
<1>4. PICK next, new, S : next = FreeNext(h) /\ new = FreeNext(g) /\ S = Roomy(h)
  OBVIOUS
<1>5. /\ new[First] = m /\ new[m] = next[First]
  BY <1>1, <1>4 DEF FreeNext
<1>6. \A a \in S : new[a] = next[a]
  BY <1>1, <1>3, <1>4 DEF FreeNext
<1>7. PushedOn(next, new, S, m)
  BY <1>5, <1>6 DEF PushedOn
<1>8. \E r : \E k \in Nat : IsList(r, k, new, S \cup {m})
  BY <1>2, <1>3, <1>4, <1>7, ListPush
<1> QED BY <1>4, <1>8 DEF FreeOK

LEMMA FreePop ==
  ASSUME NEW h, NEW g, HeapType(h), HeapType(g), Len(g.mgrs) = Len(h.mgrs), FreeOK(h),
         NEW m \in 1..Len(h.mgrs), m # First, Roomy(g) = Roomy(h) \ {m},
         h.mgrs[First].next_free = m, Freed(h, g, First, h.mgrs[m].next_free)
  PROVE  FreeOK(g)
<1>1. /\ DOMAIN h.mgrs = 1..Len(h.mgrs) /\ DOMAIN g.mgrs = 1..Len(h.mgrs)
      /\ First \in 1..Len(h.mgrs)
  BY HeapFacts
<1>2a. PICK q : \E l \in Nat : IsList(q, l, FreeNext(h), Roomy(h))
  BY DEF FreeOK
<1>2. PICK l \in Nat : IsList(q, l, FreeNext(h), Roomy(h))
  BY <1>2a
<1>3. First \notin Roomy(h) /\ m # None /\ \A a \in Roomy(h) : a \in 1..Len(h.mgrs)
  BY <1>1 DEF Roomy, None
<1>4. PICK next, new, S : next = FreeNext(h) /\ new = FreeNext(g) /\ S = Roomy(h)
  OBVIOUS
<1>5. m = next[First] /\ new[First] = next[m]
  BY <1>1, <1>4 DEF FreeNext, Freed
<1>6. \A a \in S \ {m} : new[a] = next[a]
  BY <1>1, <1>3, <1>4 DEF FreeNext, Freed
<1>7. PoppedOff(next, new, S, m)
  BY <1>5, <1>6 DEF PoppedOff
<1>8. \E r : \E k \in Nat : IsList(r, k, new, S \ {m})
  <2>1. IsList(q, l, next, S) /\ First \notin S
    BY <1>2, <1>3, <1>4
  <2> QED BY ONLY <1>3, <1>7, <2>1, ListPop, l \in Nat
<1> QED BY <1>4, <1>8 DEF FreeOK

(* NewCache keeps the invariant; its caller holds one object more. *)
LEMMA NewCacheCore ==
  ASSUME NEW h, NEW x, NEW st, Core(h, x, st), NEW m \in 1..Len(h.mgrs), NEW c \in Classes,
         Unused(h) # {}, h.mgrs[m].used_slots < SlotNum,
         \/ m = First \/ m = h.mgrs[First].next_free
         \/ h.mgrs[m].used_slots + 1 < SlotNum,
         NEW g, g = NewCache(h, m, c)
  PROVE  /\ g.at \in Unused(h) /\ Core(g, [x EXCEPT ![g.at] = x[g.at] + 1], st)
         /\ Typed(h, g) /\ SameNext(h, g) /\ g.cell = h.cell
         /\ g.caches[g.at].owner = m
         /\ \A j \in CacheIds : j # g.at => g.caches[j] = h.caches[j]
         /\ SameElsewhere(h, g, m) /\ g.mgrs[m].used_slots = h.mgrs[m].used_slots + 1
         /\ Holds(h, g.at) = {}
<1>0. HeapType(h) /\ Objects(h, x) /\ Homes(h) /\ Counts(h) /\ FreeOK(h) /\ (~st => PartialOK(h))
  BY DEF Core
<1>1. PICK used \in Nat : used = h.mgrs[m].used_slots /\ used < SlotNum
  <2>1. h.mgrs[m].used_slots \in 0..SlotNum
    BY <1>0, HeapFacts
  <2> QED BY <2>1, McacheAssumption
<1>2. PICK count \in Nat : count = h.mgrs[m].partial_counts[c]
  <2>1. h.mgrs[m].partial_counts \in [Classes -> Nat]
    BY <1>0, HeapFacts
  <2> QED BY <2>1
<1>3. PICK k \in Unused(h), s \in Slots :
           /\ h.mgrs[m].caches[s] = None
           /\ Typed(h, g) /\ g.at = k /\ g.cell = h.cell /\ Page(g, k, Cells[c] - 1, c, m)
           /\ \A j \in CacheIds : j # k => g.caches[j] = h.caches[j]
           /\ Slotted(h, g, m, s, k, used + 1) /\ Recounted(h, g, m, c, count + 1)
           /\ SameNext(h, g)
           /\ IF m = First \/ count # 0 THEN SamePartial(h, g) ELSE Pushed(h, g, m, c)
           /\ IF used + 1 = SlotNum THEN Freed(h, g, First, h.mgrs[m].next_free)
              ELSE SameFree(h, g)
  <2>1. PICK k \in Unused(h), s \in Slots : NewCacheIs(h, g, m, c, used, count, k, s)
    BY <1>0, <1>1, <1>2, NewCacheFields
  <2> QED BY <2>1 DEF NewCacheIs
<1>4. /\ HeapType(g) /\ Len(g.mgrs) = Len(h.mgrs)
      /\ DOMAIN h.mgrs = 1..Len(h.mgrs) /\ DOMAIN g.mgrs = 1..Len(h.mgrs)
  BY <1>0, <1>3, HeapFacts DEF Typed
<1>5. k \in CacheIds /\ k # None /\ h.caches[k].used = 0
  BY DEF Unused, NoCache, CacheIds, None
<1>6. PICK f \in Nat : f = Cells[c] - 1 /\ (Cells[c] > 1 => f # 0) /\ f + 1 = Cells[c]
  BY McacheAssumption
<1>7. /\ g.caches[k].class = c /\ g.caches[k].free = f /\ g.caches[k].used = 1
      /\ g.caches[k].owner = m
  BY <1>3, <1>6 DEF Page
<1>8. /\ g.mgrs[m].caches[s] = k /\ g.mgrs[m].used_slots = used + 1
      /\ \A i \in 1..Len(h.mgrs), t \in Slots : i # m \/ t # s =>
           g.mgrs[i].caches[t] = h.mgrs[i].caches[t]
      /\ \A i \in 1..Len(h.mgrs) : i # m => g.mgrs[i].used_slots = h.mgrs[i].used_slots
  BY <1>3 DEF Slotted
<1>9. \A i \in 1..Len(h.mgrs), t \in Slots : h.mgrs[i].caches[t] # None =>
        /\ h.mgrs[i].caches[t] \in CacheIds /\ h.mgrs[i].caches[t] # k
        /\ g.caches[h.mgrs[i].caches[t]] = h.caches[h.mgrs[i].caches[t]]
  <2> SUFFICES ASSUME NEW i \in 1..Len(h.mgrs), NEW t \in Slots, h.mgrs[i].caches[t] # None
               PROVE  /\ h.mgrs[i].caches[t] \in CacheIds /\ h.mgrs[i].caches[t] # k
                      /\ g.caches[h.mgrs[i].caches[t]] = h.caches[h.mgrs[i].caches[t]]
    OBVIOUS
  <2>1. PICK j : j = h.mgrs[i].caches[t]
    OBVIOUS
  <2>2. j \in CacheIds /\ h.caches[j].used # 0
    BY <1>0, <2>1, SlotFacts
  <2> QED BY <1>3, <1>5, <2>1, <2>2
<1>10. Untouched(h, g, m, s)
  BY <1>8, <1>9 DEF Untouched
<1>11. /\ \A i \in 1..Len(h.mgrs), d \in Classes : i # m => Usable(g, i, d) = Usable(h, i, d)
       /\ \A i \in 1..Len(h.mgrs) : i # m => Occupied(g, i) = Occupied(h, i)
       /\ \A d \in Classes : Usable(g, m, d) \ {s} = Usable(h, m, d) \ {s}
       /\ Occupied(g, m) \ {s} = Occupied(h, m) \ {s}
  <2>1. SetsKept(h, g, m, s)
    BY <1>10, UntouchedSets
  <2> QED BY <2>1 DEF SetsKept
<1>12. /\ \A d \in Classes : s \notin Usable(h, m, d)
       /\ s \notin Occupied(h, m) /\ s \in Occupied(g, m)
       /\ \A d \in Classes : s \in Usable(g, m, d) <=> d = c /\ f # 0
  <2>1. \A d \in Classes : s \notin Usable(h, m, d)
    BY <1>3, UsableIs
  <2>2. s \notin Occupied(h, m) /\ s \in Occupied(g, m)
    BY <1>3, <1>5, <1>8 DEF Occupied
  <2>3. f # 0 <=> f > 0
    OBVIOUS
  <2>4. ASSUME NEW d \in Classes PROVE s \in Usable(g, m, d) <=> d = c /\ f # 0
    <3>1. s \in Usable(g, m, d) <=> k # None /\ g.caches[k].class = d /\ g.caches[k].free > 0
      BY <1>8, UsableIs
    <3> QED BY <1>5, <1>7, <2>3, <3>1
  <2> QED BY <2>1, <2>2, <2>4
<1>13. UsableElsewhere(h, g, m, c)
  <2>1. ASSUME NEW d \in Classes, d # c PROVE Usable(g, m, d) = Usable(h, m, d)
    <3>1. PICK A, B : A = Usable(g, m, d) /\ B = Usable(h, m, d)
      OBVIOUS
    <3>2. A \ {s} = B \ {s} /\ s \notin A /\ s \notin B
      BY <1>11, <1>12, <2>1, <3>1
    <3>3. \A t : t \in A <=> t \in B
      BY <3>2
    <3> QED BY <3>1, <3>3, Zenon
  <2> QED BY <1>11, <2>1 DEF UsableElsewhere
<1>14. f # 0 => Usable(g, m, c) = Usable(h, m, c) \cup {s}
  BY <1>11, <1>12
<1>15. Occupied(g, m) = Occupied(h, m) \cup {s}
  BY <1>11, <1>12
<1>16. x \in [CacheIds -> Nat] /\ x[k] = 0 /\ Holds(h, k) = {}
  <2>1. x \in [CacheIds -> Nat] /\ 0 = x[k] + Cardinality(Holds(h, k))
    BY <1>0, <1>5 DEF Objects
  <2>2. x[k] = 0 /\ Cardinality(Holds(h, k)) = 0
    BY <1>5, <2>1, HoldsNat
  <2> QED BY <2>1, <2>2, HoldsNat, FS_EmptySet
<1>17. Objects(g, [x EXCEPT ![k] = x[k] + 1])
  <2>1. PICK y : y = [x EXCEPT ![k] = x[k] + 1]
    OBVIOUS
  <2>2. y \in [CacheIds -> Nat] /\ y[k] = 1 /\ \A j \in CacheIds : j # k => y[j] = x[j]
    BY <1>5, <1>16, <2>1
  <2>3. \A j \in CacheIds : Holds(g, j) = Holds(h, j)
    BY <1>3 DEF Holds
  <2>4. \A j \in CacheIds : j # k =>
          /\ g.caches[j].used = y[j] + Cardinality(Holds(g, j))
          /\ g.caches[j].used = 0 => g.caches[j] = NoCache
          /\ g.caches[j].used # 0 =>
               g.caches[j].free + g.caches[j].used = Cells[g.caches[j].class]
    BY <1>0, <1>3, <2>2, <2>3 DEF Objects
  <2>5. /\ g.caches[k].used = y[k] + Cardinality(Holds(g, k))
        /\ g.caches[k].used # 0
        /\ g.caches[k].free + g.caches[k].used = Cells[g.caches[k].class]
    <3>1. Cardinality(Holds(g, k)) = 0
      BY <1>5, <1>16, <2>3, FS_EmptySet
    <3>2. g.caches[k].used = y[k] + Cardinality(Holds(g, k))
      BY <1>7, <2>2, <3>1
    <3> QED BY <1>6, <1>7, <3>2
  <2>6. Objects(g, y)
    BY <2>2, <2>4, <2>5 DEF Objects
  <2> QED BY <2>1, <2>6
<1>18. Homes(g)
  <2>1. ASSUME NEW i \in DOMAIN g.mgrs, NEW t \in Slots, g.mgrs[i].caches[t] # None
        PROVE  /\ g.caches[g.mgrs[i].caches[t]].owner = i
               /\ g.caches[g.mgrs[i].caches[t]].used # 0
    <3>1. CASE i = m /\ t = s
      BY <1>7, <1>8, <3>1
    <3>2. CASE i # m \/ t # s
      <4>1. PICK j : j = h.mgrs[i].caches[t] /\ j = g.mgrs[i].caches[t]
        BY <1>4, <1>8, <3>2
      <4>2. g.caches[j] = h.caches[j]
        <5>1. i \in 1..Len(h.mgrs) /\ j # None
          BY <1>4, <2>1, <4>1
        <5> QED BY <1>9, <4>1, <5>1
      <4>3. h.caches[j].owner = i /\ h.caches[j].used # 0
        <5>1. i \in 1..Len(h.mgrs) /\ j # None
          BY <1>4, <2>1, <4>1
        <5>2. HeapType(h) /\ Homes(h) /\ j = h.mgrs[i].caches[t] /\ t \in Slots
          BY <1>0, <4>1
        <5> QED BY ONLY <5>1, <5>2, SlotFacts
      <4> QED BY <4>1, <4>2, <4>3
    <3> QED BY <3>1, <3>2
  <2>2. ASSUME NEW i \in DOMAIN g.mgrs, NEW r \in Slots, NEW t \in Slots,
               g.mgrs[i].caches[r] # None, g.mgrs[i].caches[r] = g.mgrs[i].caches[t], r # t
        PROVE  FALSE
    <3>1. CASE i = m /\ (r = s \/ t = s)
      BY <1>4, <1>8, <1>9, <2>2, <3>1
    <3>2. CASE ~(i = m /\ (r = s \/ t = s))
      BY ONLY <1>0, <1>4, <1>8, <2>2, <3>2 DEF Homes
    <3> QED BY <3>1, <3>2
  <2>3. ASSUME NEW j \in CacheIds, g.caches[j].used # 0
        PROVE  /\ g.caches[j].owner \in DOMAIN g.mgrs
               /\ \E t \in Slots : g.mgrs[g.caches[j].owner].caches[t] = j
    <3>1. CASE j = k
      BY <1>4, <1>7, <1>8, <3>1
    <3>2. CASE j # k
      <4>1. g.caches[j] = h.caches[j]
        BY <1>3, <3>2
      <4>2. PICK o \in DOMAIN h.mgrs, t \in Slots : o = h.caches[j].owner /\ h.mgrs[o].caches[t] = j
        BY <1>0, <2>3, <4>1 DEF Homes
      <4>3. j # None
        BY DEF CacheIds, None
      <4>4. o # m \/ t # s
        BY <1>3, <4>2, <4>3
      <4>5. g.mgrs[o].caches[t] = j
        BY <1>4, <1>8, <4>2, <4>4
      <4> QED BY <1>4, <4>1, <4>2, <4>5
    <3> QED BY <3>1, <3>2
  <2> QED BY ONLY <2>1, <2>2, <2>3 DEF Homes
<1>19. Cells[c] > 1 => count = Cardinality(Usable(h, m, c))
  BY <1>0, <1>2, <1>4 DEF Counts
<1>20. Counts(g)
  <2>1. ASSUME NEW i \in 1..Len(h.mgrs)
        PROVE  g.mgrs[i].used_slots = Cardinality(Occupied(g, i))
    <3>1. h.mgrs[i].used_slots = Cardinality(Occupied(h, i))
      BY <1>0, <1>4 DEF Counts
    <3>2. CASE i # m
      BY <1>8, <1>11, <3>1, <3>2
    <3>3. CASE i = m
      <4>1. PICK U : U = Occupied(h, m)
        OBVIOUS
      <4>2. U \in SUBSET Slots
        BY <4>1 DEF Occupied
      <4>3. IsFiniteSet(U) /\ s \notin U
        BY <1>12, <4>1, <4>2, SlotsFinite
      <4>4. Cardinality(U \cup {s}) = Cardinality(U) + 1
        BY <4>3, FS_AddElement
      <4> QED BY <1>1, <1>8, <1>15, <3>1, <3>3, <4>1, <4>4
    <3> QED BY <3>2, <3>3
  <2>2. ASSUME NEW i \in 1..Len(h.mgrs), NEW d \in Classes, Cells[d] > 1
        PROVE  g.mgrs[i].partial_counts[d] = Cardinality(Usable(g, i, d))
    <3>1. h.mgrs[i].partial_counts[d] = Cardinality(Usable(h, i, d))
      BY <1>0, <1>4, <2>2 DEF Counts
    <3>2. CASE i # m \/ d # c
      BY <1>3, <1>13, <3>1, <3>2 DEF Recounted, UsableElsewhere
    <3>3. CASE i = m /\ d = c
      <4>1. PICK U : U = Usable(h, m, c)
        OBVIOUS
      <4>2. IsFiniteSet(U) /\ s \notin U /\ count = Cardinality(U)
        BY <1>12, <1>19, <2>2, <3>3, <4>1, CardUsable
      <4>3. Cardinality(U \cup {s}) = Cardinality(U) + 1
        BY <4>2, FS_AddElement
      <4>4. Usable(g, m, c) = U \cup {s}
        BY <1>6, <1>14, <2>2, <3>3, <4>1
      <4>5. g.mgrs[m].partial_counts[c] = count + 1
        BY <1>3 DEF Recounted
      <4> QED BY <3>3, <4>2, <4>3, <4>4, <4>5
    <3> QED BY <3>2, <3>3
  <2> QED BY <1>4, <2>1, <2>2 DEF Counts
<1>21. FreeOK(g)
  <2>1. CASE m # First /\ used + 1 = SlotNum
    <3>1. m = h.mgrs[First].next_free
      BY <1>1, <2>1, McacheAssumption
    <3>2. Freed(h, g, First, h.mgrs[m].next_free)
      BY <1>3, <2>1
    <3>3. Roomy(g) = Roomy(h) \ {m}
      <4>1. ~(g.mgrs[m].used_slots < SlotNum)
        BY <1>8, <2>1, McacheAssumption
      <4> QED BY <1>4, <1>8, <4>1 DEF Roomy
    <3> QED BY <1>0, <1>4, <2>1, <3>1, <3>2, <3>3, FreePop
  <2>2. CASE m = First \/ used + 1 # SlotNum
    <3>1. SameFree(h, g)
      <4>1. CASE used + 1 # SlotNum
        BY <1>3, <4>1
      <4>2. CASE used + 1 = SlotNum
        <5>1. Freed(h, g, First, h.mgrs[First].next_free)
          BY <1>3, <2>2, <4>2
        <5> QED BY <5>1 DEF Freed, SameFree
      <4> QED BY <4>1, <4>2
    <3>2. ASSUME NEW i \in 1..Len(h.mgrs), i # First
          PROVE  g.mgrs[i].used_slots < SlotNum <=> h.mgrs[i].used_slots < SlotNum
      <4>1. CASE i # m
        BY <1>8, <4>1
      <4>2. CASE i = m
        <5>1. used + 1 < SlotNum
          BY <1>1, <2>2, <3>2, <4>2, McacheAssumption
        <5> QED BY <1>1, <1>8, <4>2, <5>1
      <4> QED BY <4>1, <4>2
    <3> QED BY <1>0, <1>4, <3>1, <3>2, FreeListSame
  <2> QED BY <2>1, <2>2
<1>22. ~st => PartialOK(g)
  <2> SUFFICES ASSUME ~st PROVE PartialOK(g)
    OBVIOUS
  <2>1. PartialOK(h)
    BY <1>0
  <2>2. \A i \in 1..Len(h.mgrs), d \in Classes : d # c =>
           g.mgrs[i].next_partial_free[d] = h.mgrs[i].next_partial_free[d]
    BY <1>3 DEF SamePartial, Pushed
  <2>3. ASSUME Cells[c] > 1 PROVE PartialListOK(g, c)
    <3>1. PartialListOK(h, c)
      BY <2>1, <2>3 DEF PartialOK
    <3>2. Usable(g, m, c) = Usable(h, m, c) \cup {s}
      BY <1>6, <1>14, <2>3
    <3>3. CASE count = 0 /\ m # First
      <4>1. Usable(h, m, c) = {} /\ Usable(g, m, c) # {}
        BY <1>19, <2>3, <3>2, <3>3, CardUsable
      <4>2. Pushed(h, g, m, c)
        BY <1>3, <3>3
      <4> QED BY <1>0, <1>3, <1>13, <3>1, <3>3, <4>1, <4>2, PartialPush
    <3>4. CASE ~(count = 0 /\ m # First)
      <4>1. \A i \in 1..Len(h.mgrs) :
              g.mgrs[i].next_partial_free[c] = h.mgrs[i].next_partial_free[c]
        <5>1. SamePartial(h, g)
          BY <1>3, <3>4
        <5> QED BY <5>1 DEF SamePartial
      <4>2. ASSUME NEW i \in 1..Len(h.mgrs), i # First
            PROVE  Usable(g, i, c) = {} <=> Usable(h, i, c) = {}
        <5>1. CASE i # m
          BY <1>13, <5>1 DEF UsableElsewhere
        <5>2. CASE i = m
          <6>1. Usable(h, m, c) # {}
            BY <1>19, <2>3, <3>4, <4>2, <5>2, CardUsable
          <6> QED BY <3>2, <5>2, <6>1
        <5> QED BY <5>1, <5>2
      <4> QED BY <1>0, <1>4, <3>1, <4>1, <4>2, PartialListSame
    <3> QED BY <3>3, <3>4
  <2> QED BY <1>0, <1>3, <1>13, <2>1, <2>2, <2>3, PartialElsewhere
<1>23. Core(g, [x EXCEPT ![g.at] = x[g.at] + 1], st)
  BY <1>3, <1>4, <1>17, <1>18, <1>20, <1>21, <1>22 DEF Core
<1>24. SameElsewhere(h, g, m)
  BY <1>3, <1>8 DEF SameElsewhere, Recounted
<1>25. g.mgrs[m].used_slots = h.mgrs[m].used_slots + 1
  BY <1>1, <1>8
<1> QED BY <1>3, <1>7, <1>16, <1>23, <1>24, <1>25

-----------------------------------------------------------------------------
(* Only the links between the managers of the chain change. *)
LEMMA CoreSame ==
  ASSUME NEW h, NEW g, NEW x, NEW st, Core(h, x, st), Typed(h, g), SameCells(h, g),
         SameSlots(h, g), SameFree(h, g), SameCounts(h, g), SamePartial(h, g)
  PROVE  Core(g, x, st)
<1>0. HeapType(h) /\ Objects(h, x) /\ Homes(h) /\ Counts(h) /\ FreeOK(h) /\ (~st => PartialOK(h))
  BY DEF Core
<1>1. /\ HeapType(g) /\ Len(g.mgrs) = Len(h.mgrs) /\ g.caches = h.caches /\ g.cell = h.cell
      /\ DOMAIN h.mgrs = 1..Len(h.mgrs) /\ DOMAIN g.mgrs = 1..Len(h.mgrs)
  BY <1>0, HeapFacts DEF Typed, SameCells
<1>2. \A i \in 1..Len(h.mgrs) : /\ g.mgrs[i].caches = h.mgrs[i].caches
                                /\ g.mgrs[i].used_slots = h.mgrs[i].used_slots
  BY DEF SameSlots
<1>3. \A i \in 1..Len(h.mgrs), d \in Classes : Usable(g, i, d) = Usable(h, i, d)
  BY <1>1, <1>2 DEF Usable
<1>4. Objects(g, x)
  <2>1. \A k \in CacheIds : Holds(g, k) = Holds(h, k)
    BY <1>1 DEF Holds
  <2> QED BY <1>0, <1>1, <2>1 DEF Objects
<1>5. Homes(g)
  <2>1. ASSUME NEW i \in DOMAIN g.mgrs, NEW t \in Slots
        PROVE  i \in DOMAIN h.mgrs /\ g.mgrs[i].caches[t] = h.mgrs[i].caches[t]
    BY <1>1, <1>2
  <2>2. DOMAIN g.mgrs = DOMAIN h.mgrs /\ g.caches = h.caches
    BY <1>1
  <2> QED BY ONLY <1>0, <2>1, <2>2 DEF Homes
<1>6. Counts(g)
  <2>1. \A i \in 1..Len(h.mgrs), d \in Classes : Cells[d] > 1 =>
          g.mgrs[i].partial_counts[d] = Cardinality(Usable(g, i, d))
    BY <1>0, <1>1, <1>3 DEF Counts, SameCounts
  <2> QED BY <1>0, <2>1, CountsKept
<1>7. FreeOK(g)
  BY <1>0, <1>1, <1>2, FreeListSame
<1>8. ASSUME ~st PROVE PartialOK(g)
  <2>1. ASSUME NEW d \in Classes, Cells[d] > 1 PROVE PartialListOK(g, d)
    <3>1. PartialListOK(h, d)
      BY <1>0, <1>8, <2>1 DEF PartialOK
    <3>2. /\ \A i \in 1..Len(h.mgrs) : Usable(g, i, d) = Usable(h, i, d)
          /\ \A i \in 1..Len(h.mgrs) :
               g.mgrs[i].next_partial_free[d] = h.mgrs[i].next_partial_free[d]
      BY <1>3 DEF SamePartial
    <3> QED BY <1>0, <1>1, <3>1, <3>2, PartialListSame
  <2> QED BY <2>1 DEF PartialOK
<1> QED BY <1>1, <1>4, <1>5, <1>6, <1>7, <1>8 DEF Core

SetNext(h, m, new) == [h EXCEPT !.mgrs[m].next = new]

LEMMA SetNextFields ==
  ASSUME NEW h, HeapType(h), NEW m \in 1..Len(h.mgrs), NEW new \in 0..MaxMgrs,
         NEW g, g = SetNext(h, m, new)
  PROVE  /\ Typed(h, g) /\ SameCells(h, g) /\ g.at = h.at
         /\ SameSlots(h, g) /\ SameFree(h, g) /\ SameCounts(h, g) /\ SamePartial(h, g)
         /\ \A i \in 1..Len(h.mgrs) : g.mgrs[i].next = IF i = m THEN new ELSE h.mgrs[i].next
<1>1. DOMAIN h = {"mgrs", "caches", "cell", "at"}
  BY DEF HeapType
<1>2a. PICK M : M = h.mgrs
  OBVIOUS
<1>2. PICK n \in Nat : n = Len(h.mgrs) /\ M = h.mgrs /\ M \in Seq(MgrType(n))
  BY <1>2a, HeapFacts
<1>3. m \in 1..Len(M) /\ M[m] \in MgrType(n)
  BY <1>2
<1> DEFINE r == [M[m] EXCEPT !.next = new]
<1>4. /\ r \in MgrType(n) /\ r.next = new /\ r.caches = M[m].caches
      /\ r.next_free = M[m].next_free /\ r.prev = M[m].prev /\ r.used_slots = M[m].used_slots
      /\ r.next_partial_free = M[m].next_partial_free
      /\ r.partial_counts = M[m].partial_counts
  BY <1>3 DEF MgrType
<1>5. /\ DOMAIN g = DOMAIN h /\ g.caches = h.caches /\ g.cell = h.cell /\ g.at = h.at
      /\ g.mgrs = [M EXCEPT ![m] = r]
  BY <1>1, <1>2 DEF SetNext
<1> HIDE DEF r
<1>6. PICK N : N = [M EXCEPT ![m] = r]
  OBVIOUS
<1>7. /\ N \in Seq(MgrType(n)) /\ Len(N) = Len(M) /\ N[m] = r
      /\ \A i \in 1..Len(M) : i # m => N[i] = M[i]
  BY <1>2, <1>3, <1>4, <1>6, ExceptSeq
<1>8. g.mgrs = N
  BY <1>5, <1>6
<1>9. \A i \in 1..n :
        /\ N[i].next = (IF i = m THEN new ELSE M[i].next) /\ N[i].caches = M[i].caches
        /\ N[i].next_free = M[i].next_free /\ N[i].prev = M[i].prev
        /\ N[i].used_slots = M[i].used_slots
        /\ N[i].next_partial_free = M[i].next_partial_free
        /\ N[i].partial_counts = M[i].partial_counts
  BY <1>2, <1>4, <1>7
<1>10. HeapType(g)
  <2>1. h.caches \in [CacheIds -> CacheType] /\ h.cell \in [MgrIds -> 0..MaxCaches]
    BY DEF HeapType
  <2> QED BY <1>2, <1>5, <1>7, <1>8, <1>9, <2>1, HeapTyped
<1> QED BY <1>2, <1>5, <1>7, <1>8, <1>9, <1>10
      DEF Typed, SameCells, SameSlots, SameFree, SameCounts, SamePartial

(* A heap with one more manager, at the end of the chain *)
Grown(h, g, n) ==
    /\ HeapType(g) /\ Len(g.mgrs) = n + 1 /\ g.caches = h.caches
    /\ \A i \in 1..n :
         /\ g.mgrs[i].caches = h.mgrs[i].caches /\ g.mgrs[i].used_slots = h.mgrs[i].used_slots
         /\ g.mgrs[i].next = h.mgrs[i].next
         /\ g.mgrs[i].next_partial_free = h.mgrs[i].next_partial_free
         /\ g.mgrs[i].partial_counts = h.mgrs[i].partial_counts
         /\ g.mgrs[i].next_free = IF i = First THEN n + 1 ELSE h.mgrs[i].next_free
    /\ g.mgrs[n + 1] = NewManager(n, h.mgrs[First].next_free)
    /\ \A i \in MgrIds : g.cell[i] = IF i = n + 1 THEN h.at ELSE h.cell[i]

LEMMA MgrTypeGrows ==
  ASSUME NEW n \in Nat, NEW M \in Seq(MgrType(n))
  PROVE  M \in Seq(MgrType(n + 1))
<1>1. \A p : p \in 0..n => p \in 0..(n + 1)
  OBVIOUS
<1>2. ASSUME NEW r \in MgrType(n) PROVE r \in MgrType(n + 1)
  BY <1>1 DEF MgrType
<1>3. MgrType(n) \subseteq MgrType(n + 1)
  BY <1>2
<1> QED BY <1>3

LEMMA AddManagerFields ==
  ASSUME NEW h, HeapType(h), NEW n \in Nat, n = Len(h.mgrs), n + 1 =< MaxMgrs,
         h.at \in CacheIds, NEW g, g = AddManager(h, n, n + 1)
  PROVE  Grown(h, g, n)
<1>1. DOMAIN h = {"mgrs", "caches", "cell", "at"}
  BY DEF HeapType
<1>2. PICK M : M = h.mgrs /\ M \in Seq(MgrType(n + 1)) /\ Len(M) = n /\ First \in 1..n
  BY HeapFacts, MgrTypeGrows
<1>3. n + 1 \in 0..(n + 1) /\ n + 1 \in MgrIds /\ n + 1 \in Nat /\ n \in 0..(n + 1)
  BY McacheAssumption DEF MgrIds
<1>4. PICK N : N = WithFree(M, First, n + 1)
  OBVIOUS
<1>5. /\ N \in Seq(MgrType(n + 1)) /\ Len(N) = n /\ N[First].next_free = n + 1
      /\ \A i \in 1..n :
           /\ i # First => N[i] = M[i]
           /\ N[i].caches = M[i].caches /\ N[i].next = M[i].next /\ N[i].prev = M[i].prev
           /\ N[i].used_slots = M[i].used_slots
           /\ N[i].next_partial_free = M[i].next_partial_free
           /\ N[i].partial_counts = M[i].partial_counts
  BY <1>2, <1>3, <1>4, FreeWritten
<1> DEFINE new == NewManager(n, h.mgrs[First].next_free)
           f == SetFree(h, First, n + 1)
<1>6. new \in MgrType(n + 1) /\ new.prev = n
  <2>1. h.mgrs[First].next_free \in 0..(n + 1)
    <3>1. M[First] \in MgrType(n + 1)
      BY <1>2
    <3> QED BY <1>2, <3>1 DEF MgrType
  <2>2. 0 \in 0..MaxCaches /\ 0 \in 0..MaxMgrs /\ 0 \in 0..(n + 1) /\ 0 \in 0..SlotNum
    BY McacheAssumption
  <2> QED BY <1>3, <2>1, <2>2 DEF NewManager, MgrType, None
<1> HIDE DEF new
<1>7. /\ DOMAIN f = DOMAIN h /\ f.mgrs = N /\ f.caches = h.caches /\ f.cell = h.cell
  BY <1>1, <1>2, <1>4 DEF SetFree, WithFree
<1>8. g = [f EXCEPT !.mgrs = Append(@, new), !.cell[n + 1] = h.at]
  BY DEF AddManager, new
<1> HIDE DEF f
<1>9. /\ DOMAIN g = DOMAIN h /\ g.mgrs = Append(N, new) /\ g.caches = h.caches
      /\ g.cell = [h.cell EXCEPT ![n + 1] = h.at]
  BY <1>1, <1>7, <1>8
<1>10. /\ g.mgrs \in Seq(MgrType(n + 1)) /\ Len(g.mgrs) = n + 1
       /\ \A i \in 1..n : g.mgrs[i] = N[i]
       /\ g.mgrs[n + 1] = new
  <2>1. PICK A : A = Append(N, new)
    OBVIOUS
  <2>2. /\ A \in Seq(MgrType(n + 1)) /\ Len(A) = Len(N) + 1
        /\ \A i \in 1..Len(N) : A[i] = N[i]
        /\ A[Len(N) + 1] = new
    BY <1>5, <1>6, <2>1, AppendProperties
  <2> QED BY <1>5, <1>9, <2>1, <2>2
<1>11. h.cell \in [MgrIds -> 0..MaxCaches] /\ h.at \in 0..MaxCaches
  BY McacheAssumption DEF HeapType, CacheIds
<1>12. g.cell \in [MgrIds -> 0..MaxCaches]
  BY <1>9, <1>11
<1>13. \A i \in MgrIds : g.cell[i] = IF i = n + 1 THEN h.at ELSE h.cell[i]
  BY <1>3, <1>9, <1>11
<1>14. \A i \in 1..(n + 1) : g.mgrs[i].prev = i - 1
  <2>1. \A i \in 1..n : h.mgrs[i].prev = i - 1
    BY HeapFacts
  <2>2. \A i \in 1..(n + 1) : i = n + 1 \/ i \in 1..n
    OBVIOUS
  <2>3. (n + 1) - 1 = n
    OBVIOUS
  <2> QED BY <1>2, <1>5, <1>6, <1>10, <2>1, <2>2, <2>3
<1>15. HeapType(g)
  <2>1. DOMAIN g.mgrs = 1..(n + 1)
    BY <1>10
  <2>2. h.caches \in [CacheIds -> CacheType]
    BY DEF HeapType
  <2> QED BY <1>1, <1>3, <1>9, <1>10, <1>12, <1>14, <2>1, <2>2 DEF HeapType
<1>16. \A i \in 1..n :
         /\ g.mgrs[i].caches = h.mgrs[i].caches /\ g.mgrs[i].used_slots = h.mgrs[i].used_slots
         /\ g.mgrs[i].next = h.mgrs[i].next
         /\ g.mgrs[i].next_partial_free = h.mgrs[i].next_partial_free
         /\ g.mgrs[i].partial_counts = h.mgrs[i].partial_counts
         /\ g.mgrs[i].next_free = IF i = First THEN n + 1 ELSE h.mgrs[i].next_free
  BY ONLY <1>2, <1>5, <1>10
<1> QED BY <1>9, <1>10, <1>13, <1>15, <1>16 DEF Grown, new

LEMMA AddManagerCore ==
  ASSUME NEW h, NEW x, NEW st, Core(h, x, st), NEW n \in Nat, n = Len(h.mgrs),
         n + 1 =< MaxMgrs, h.cell[n + 1] = None, NEW k \in CacheIds, k = h.at, x[k] > 0,
         NEW g, Grown(h, g, n)
  PROVE  Core(g, [x EXCEPT ![k] = x[k] - 1], st)
<1>0. HeapType(h) /\ Objects(h, x) /\ Homes(h) /\ Counts(h) /\ FreeOK(h) /\ (~st => PartialOK(h))
  BY DEF Core
<1>1. /\ HeapType(g) /\ Len(g.mgrs) = n + 1 /\ g.caches = h.caches
      /\ DOMAIN h.mgrs = 1..n /\ DOMAIN g.mgrs = 1..(n + 1) /\ First \in 1..n
  BY <1>0, HeapFacts DEF Grown
<1>2. \A i \in 1..n :
         /\ g.mgrs[i].caches = h.mgrs[i].caches /\ g.mgrs[i].used_slots = h.mgrs[i].used_slots
         /\ g.mgrs[i].next_partial_free = h.mgrs[i].next_partial_free
         /\ g.mgrs[i].partial_counts = h.mgrs[i].partial_counts
         /\ g.mgrs[i].next_free = IF i = First THEN n + 1 ELSE h.mgrs[i].next_free
  BY DEF Grown
<1>3. /\ \A s \in Slots : g.mgrs[n + 1].caches[s] = None
      /\ g.mgrs[n + 1].used_slots = 0 /\ g.mgrs[n + 1].next_free = h.mgrs[First].next_free
      /\ \A c \in Classes : g.mgrs[n + 1].partial_counts[c] = 0
  BY DEF Grown, NewManager
<1>4. \A i \in 1..(n + 1) : i = n + 1 \/ i \in 1..n
  OBVIOUS
<1>5. n + 1 \in MgrIds /\ n + 1 # First /\ n + 1 \notin 1..n /\ n + 1 \in 1..(n + 1)
  BY <1>1, McacheAssumption DEF MgrIds
<1>6. \A i \in 1..n, d \in Classes : Usable(g, i, d) = Usable(h, i, d)
  BY <1>1, <1>2 DEF Usable
<1>7. \A d \in Classes : Usable(g, n + 1, d) = {}
  BY <1>3 DEF Usable
<1>8. Objects(g, [x EXCEPT ![k] = x[k] - 1])
  <2>1. PICK y : y = [x EXCEPT ![k] = x[k] - 1]
    OBVIOUS
  <2>2. x \in [CacheIds -> Nat]
    BY <1>0 DEF Objects
  <2>3. y \in [CacheIds -> Nat] /\ y[k] = x[k] - 1 /\ \A j \in CacheIds : j # k => y[j] = x[j]
    BY <2>1, <2>2
  <2>4. \A i \in MgrIds : g.cell[i] = IF i = n + 1 THEN k ELSE h.cell[i]
    BY DEF Grown
  <2>5. \A j \in CacheIds : j # k => Holds(g, j) = Holds(h, j)
    <3>1. \A j \in CacheIds : j # None
      BY DEF CacheIds, None
    <3> QED BY <2>4, <3>1 DEF Holds
  <2>6. n + 1 \notin Holds(h, k) /\ Holds(g, k) = Holds(h, k) \cup {n + 1}
    <3>1. k # None
      BY DEF CacheIds, None
    <3> QED BY <1>5, <2>4, <3>1 DEF Holds
  <2>7. PICK a \in Nat : a = Cardinality(Holds(h, k)) /\ Cardinality(Holds(g, k)) = a + 1
    <3>1. PICK U : U = Holds(h, k)
      OBVIOUS
    <3>2. IsFiniteSet(U) /\ n + 1 \notin U /\ Cardinality(U) \in Nat
      BY <2>6, <3>1, HoldsNat
    <3>3. Cardinality(U \cup {n + 1}) = Cardinality(U) + 1
      BY <3>2, FS_AddElement
    <3> QED BY <2>6, <3>1, <3>2, <3>3
  <2>8. g.caches[k].used = y[k] + Cardinality(Holds(g, k))
    <3>1. h.caches[k].used = x[k] + a /\ x[k] \in Nat
      BY <1>0, <2>2, <2>7 DEF Objects
    <3>2. g.caches[k].used = h.caches[k].used /\ y[k] = x[k] - 1
          /\ Cardinality(Holds(g, k)) = a + 1
      BY <1>1, <2>3, <2>7
    <3>3. x[k] + a = (x[k] - 1) + (a + 1)
      BY ONLY <3>1, a \in Nat
    <3> QED BY ONLY <3>1, <3>2, <3>3
  <2>9. \A j \in CacheIds : g.caches[j].used = y[j] + Cardinality(Holds(g, j))
    BY <1>0, <1>1, <2>3, <2>5, <2>8 DEF Objects
  <2>10. Objects(g, y)
    BY <1>0, <1>1, <2>3, <2>9 DEF Objects
  <2> QED BY <2>1, <2>10
<1>9. Homes(g)
  <2>1. \A i \in DOMAIN g.mgrs, s \in Slots : g.mgrs[i].caches[s] # None =>
          /\ g.caches[g.mgrs[i].caches[s]].owner = i
          /\ g.caches[g.mgrs[i].caches[s]].used # 0
    <3> SUFFICES ASSUME NEW i \in DOMAIN g.mgrs, NEW s \in Slots, g.mgrs[i].caches[s] # None
                 PROVE  /\ g.caches[g.mgrs[i].caches[s]].owner = i
                        /\ g.caches[g.mgrs[i].caches[s]].used # 0
      OBVIOUS
    <3>1. i \in 1..n
      BY <1>1, <1>3, <1>4
    <3>2. PICK j : j = h.mgrs[i].caches[s]
      OBVIOUS
    <3>3. j = g.mgrs[i].caches[s] /\ j # None
      BY <1>2, <3>1, <3>2
    <3>4. h.caches[j].owner = i /\ h.caches[j].used # 0
      <4>1. i \in 1..Len(h.mgrs) /\ j # None
        BY <3>1, <3>3
      <4>2. HeapType(h) /\ Homes(h) /\ j = h.mgrs[i].caches[s] /\ s \in Slots
        BY <1>0, <3>2
      <4> QED BY ONLY <4>1, <4>2, SlotFacts
    <3> QED BY <1>1, <3>3, <3>4
  <2>2. \A i \in DOMAIN g.mgrs, s, t \in Slots :
          g.mgrs[i].caches[s] # None /\ g.mgrs[i].caches[s] = g.mgrs[i].caches[t] => s = t
    <3> SUFFICES ASSUME NEW i \in DOMAIN g.mgrs, NEW s \in Slots, NEW t \in Slots,
                        g.mgrs[i].caches[s] # None, g.mgrs[i].caches[s] = g.mgrs[i].caches[t]
                 PROVE  s = t
      OBVIOUS
    <3>1. i \in 1..n
      BY <1>1, <1>3, <1>4
    <3>2. /\ i \in DOMAIN h.mgrs /\ h.mgrs[i].caches[s] # None
          /\ h.mgrs[i].caches[s] = h.mgrs[i].caches[t]
      BY <1>1, <1>2, <3>1
    <3> QED BY ONLY <1>0, <3>2, s \in Slots, t \in Slots DEF Homes
  <2>3. ASSUME NEW j \in CacheIds, g.caches[j].used # 0
        PROVE  /\ g.caches[j].owner \in DOMAIN g.mgrs
               /\ \E s \in Slots : g.mgrs[g.caches[j].owner].caches[s] = j
    <3>1. PICK o \in 1..n : o = h.caches[j].owner /\ \E s \in Slots : h.mgrs[o].caches[s] = j
      BY <1>0, <1>1, <2>3 DEF Homes
    <3>2. PICK s \in Slots : h.mgrs[o].caches[s] = j
      BY <3>1
    <3>3. g.mgrs[o].caches[s] = j /\ o \in 1..(n + 1) /\ g.caches[j].owner = o
      <4>1. g.mgrs[o].caches = h.mgrs[o].caches
        BY <1>2
      <4>2. g.mgrs[o].caches[s] = j
        BY <3>2, <4>1
      <4>3. g.caches[j].owner = o
        BY <1>1, <3>1
      <4> QED BY <4>2, <4>3
    <3> QED BY <1>1, <3>3
  <2> QED BY <2>1, <2>2, <2>3 DEF Homes
<1>10. Counts(g)
  <2>1. \A i \in 1..n : Occupied(g, i) = Occupied(h, i)
    BY <1>2 DEF Occupied
  <2>2. Occupied(g, n + 1) = {}
    BY <1>3 DEF Occupied
  <2>3. \A i \in 1..n :
          /\ g.mgrs[i].used_slots = Cardinality(Occupied(g, i))
          /\ \A c \in Classes : Cells[c] > 1 =>
               g.mgrs[i].partial_counts[c] = Cardinality(Usable(g, i, c))
    <3>1. \A i \in 1..n : g.mgrs[i].used_slots = Cardinality(Occupied(g, i))
      BY <1>0, <1>1, <1>2, <2>1 DEF Counts
    <3>2. ASSUME NEW i \in 1..n, NEW c \in Classes, Cells[c] > 1
          PROVE  g.mgrs[i].partial_counts[c] = Cardinality(Usable(g, i, c))
      <4>1. h.mgrs[i].partial_counts[c] = Cardinality(Usable(h, i, c))
        BY <1>0, <1>1, <3>2 DEF Counts
      <4> QED BY <1>2, <1>6, <4>1
    <3> QED BY <3>1, <3>2
  <2>4. /\ g.mgrs[n + 1].used_slots = Cardinality(Occupied(g, n + 1))
        /\ \A c \in Classes :
             g.mgrs[n + 1].partial_counts[c] = Cardinality(Usable(g, n + 1, c))
    BY <1>3, <1>7, <2>2, FS_EmptySet
  <2> QED BY <1>1, <1>4, <2>3, <2>4 DEF Counts
<1>11. FreeOK(g)
  <2>1. Roomy(g) = Roomy(h) \cup {n + 1} /\ n + 1 \notin Roomy(h)
    <3>1. 0 < SlotNum
      BY McacheAssumption
    <3>2. \A i : i \in Roomy(g) <=> i \in Roomy(h) \/ i = n + 1
      BY <1>1, <1>2, <1>3, <1>4, <1>5, <3>1 DEF Roomy
    <3> QED BY <1>1, <1>5, <3>2 DEF Roomy
  <2>2. g.mgrs[First].next_free = n + 1
    BY <1>1, <1>2
  <2>3. \A i \in 1..Len(h.mgrs) : i # First /\ i # n + 1 =>
          g.mgrs[i].next_free = h.mgrs[i].next_free
    BY <1>2
  <2>4. Len(g.mgrs) >= Len(h.mgrs) /\ n + 1 \in 1..Len(g.mgrs)
    BY <1>1
  <2>5. PICK new : new = n + 1
    OBVIOUS
  <2> QED BY <1>0, <1>1, <1>3, <1>5, <2>1, <2>2, <2>3, <2>4, <2>5, FreePush
<1>12. ASSUME ~st PROVE PartialOK(g)
  <2>1. ASSUME NEW c \in Classes, Cells[c] > 1 PROVE PartialListOK(g, c)
    <3>1a. PICK q : \E l \in Nat : IsList(q, l, PartialNext(h, c), Partial(h, c))
      BY <1>0, <1>12, <2>1 DEF PartialOK, PartialListOK
    <3>1. PICK l \in Nat : IsList(q, l, PartialNext(h, c), Partial(h, c))
      BY <3>1a
    <3>2. Partial(g, c) = Partial(h, c)
      <4>1. \A i : i \in Partial(g, c) <=> i \in Partial(h, c)
        BY <1>1, <1>4, <1>5, <1>6, <1>7 DEF Partial
      <4> QED BY <4>1 DEF Partial
    <3>3. \A i \in Partial(h, c) \cup {First} : PartialNext(g, c)[i] = PartialNext(h, c)[i]
      <4>1. \A i \in 1..n : i \in 1..(n + 1)
        OBVIOUS
      <4>2. \A i \in Partial(h, c) \cup {First} : i \in 1..n
        BY <1>1 DEF Partial
      <4> QED BY <1>1, <1>2, <4>1, <4>2 DEF PartialNext
    <3>4. PICK new : new = PartialNext(g, c)
      OBVIOUS
    <3>5. IsList(q, l, new, Partial(h, c))
      BY <3>1, <3>3, <3>4, ListSame
    <3> QED BY <3>2, <3>4, <3>5 DEF PartialListOK
  <2> QED BY <2>1 DEF PartialOK
<1> QED BY <1>1, <1>8, <1>9, <1>10, <1>11, <1>12 DEF Core

-----------------------------------------------------------------------------
(* The cache that holds a manager is in use. *)
LEMMA CellUsed ==
  ASSUME NEW h, NEW x, HeapType(h), Objects(h, x), NEW i \in MgrIds, h.cell[i] # None
  PROVE  /\ h.cell[i] \in CacheIds /\ h.caches[h.cell[i]].used # 0
         /\ h.cell[i] \notin Unused(h) /\ Holds(h, h.cell[i]) # {}
<1>1. PICK k \in 0..MaxCaches : k = h.cell[i]
  BY DEF HeapType
<1>2. k \in CacheIds
  BY <1>1, McacheAssumption DEF CacheIds, None
<1>3. i \in Holds(h, k)
  BY <1>1 DEF Holds
<1>4. PICK a \in Nat : a = Cardinality(Holds(h, k)) /\ a # 0
  BY <1>3, HoldsNat, FS_EmptySet
<1>5. h.caches[k].used = x[k] + a /\ x[k] \in Nat
  BY <1>2, <1>4 DEF Objects
<1>6. x[k] + a # 0
  BY <1>4, <1>5
<1>7. h.caches[k].used # 0
  BY <1>5, <1>6
<1> QED BY <1>1, <1>2, <1>3, <1>7 DEF Unused, NoCache

(* A step of a manager that is not the last one *)
LEMMA ChainStep ==
  ASSUME NEW h, NEW g, HeapType(h), Chain(h), Typed(h, g), SameNext(h, g), g.cell = h.cell,
         NEW m \in 1..Len(h.mgrs), m # Len(h.mgrs), SameElsewhere(h, g, m),
         \A i \in MgrIds : h.cell[i] # None =>
           g.caches[h.cell[i]].owner = h.caches[h.cell[i]].owner
  PROVE  Chain(g)
<1>1. PICK n \in Nat : n = Len(h.mgrs) /\ Len(g.mgrs) = n /\ n >= 1 /\ n =< MaxMgrs
  BY HeapFacts DEF Typed
<1>2. DOMAIN h.mgrs = 1..n /\ DOMAIN g.mgrs = 1..n
  BY <1>1, HeapFacts DEF Typed
<1>3. n \in 1..n
  BY <1>1
<1>4. \A i \in DOMAIN g.mgrs : g.mgrs[i].next = IF i = Len(g.mgrs) THEN None ELSE i + 1
  BY <1>1, <1>2 DEF Chain, SameNext
<1>5. \A i \in MgrIds : IF i \in 2..Len(g.mgrs)
                        THEN g.cell[i] # None /\ g.caches[g.cell[i]].owner = i - 1
                        ELSE g.cell[i] = None
  BY <1>1 DEF Chain
<1>6. g.mgrs[n].used_slots = h.mgrs[n].used_slots
  BY <1>1, <1>3 DEF SameElsewhere
<1>7. \A d \in Classes : g.mgrs[n].partial_counts[d] = h.mgrs[n].partial_counts[d]
  BY <1>1, <1>3 DEF SameElsewhere
<1>8. h.mgrs[n].used_slots = 0 /\ \A d \in Classes : h.mgrs[n].partial_counts[d] = 0
  BY <1>1 DEF Chain
<1> QED BY <1>1, <1>4, <1>5, <1>6, <1>7, <1>8 DEF Chain

(* NewCache on a manager that has a successor *)
LEMMA NewCacheInv ==
  ASSUME NEW h, NEW x, NEW st, Core(h, x, st), Chain(h), NEW m \in 1..Len(h.mgrs),
         m # Len(h.mgrs), NEW c \in Classes, Unused(h) # {}, h.mgrs[m].used_slots < SlotNum,
         \/ m = First \/ m = h.mgrs[First].next_free
         \/ h.mgrs[m].used_slots + 1 < SlotNum,
         NEW g, g = NewCache(h, m, c)
  PROVE  g.at \in CacheIds /\ Core(g, [x EXCEPT ![g.at] = x[g.at] + 1], st) /\ Chain(g)
<1>0. HeapType(h) /\ Objects(h, x)
  BY DEF Core
<1>1. /\ g.at \in Unused(h) /\ Core(g, [x EXCEPT ![g.at] = x[g.at] + 1], st)
      /\ Typed(h, g) /\ SameNext(h, g) /\ g.cell = h.cell
      /\ \A j \in CacheIds : j # g.at => g.caches[j] = h.caches[j]
      /\ SameElsewhere(h, g, m)
  BY NewCacheCore
<1>2. \A i \in MgrIds : h.cell[i] # None =>
        g.caches[h.cell[i]].owner = h.caches[h.cell[i]].owner
  <2> SUFFICES ASSUME NEW i \in MgrIds, h.cell[i] # None
               PROVE  g.caches[h.cell[i]] = h.caches[h.cell[i]]
    OBVIOUS
  <2>1. h.cell[i] \in CacheIds /\ h.cell[i] \notin Unused(h)
    BY <1>0, CellUsed
  <2> QED BY <1>1, <2>1
<1>3. Chain(g)
  BY <1>0, <1>1, <1>2, ChainStep
<1> QED BY <1>1, <1>3 DEF Unused

(* The last manager makes its successor, in a cache of its own. *)
LEMMA TryInitInv ==
  ASSUME NEW h, NEW x, NEW st, Core(h, x, st), Chain(h), NEW n \in Nat, n = Len(h.mgrs),
         n < MaxMgrs, IsFiniteSet(Unused(h)), Cardinality(Unused(h)) >= 2,
         NEW r, r = try_init_next(h, n)
  PROVE  /\ Core(r, x, st) /\ Chain(r) /\ Len(r.mgrs) = n + 1
         /\ Unused(r) # {} /\ r.mgrs[n].used_slots = 1
<1>0. HeapType(h) /\ Objects(h, x)
  BY DEF Core
<1>1. n \in 1..n /\ n >= 1 /\ DOMAIN h.mgrs = 1..n /\ n + 1 \in 0..MaxMgrs /\ n + 1 =< MaxMgrs
  BY <1>0, HeapFacts, McacheAssumption
<1>2. /\ h.mgrs[n].next = None /\ h.mgrs[n].used_slots = 0
      /\ \A c \in Classes : h.mgrs[n].partial_counts[c] = 0
      /\ \A i \in 1..n : i # n => h.mgrs[i].next = i + 1
  BY <1>1 DEF Chain
<1>3. MgrClass \in Classes /\ SlotNum \in Nat /\ SlotNum >= 3
  BY McacheAssumption
<1> DEFINE b == SetNext(h, n, n + 1)
           a == NewCache(b, n, MgrClass)
<1>4. /\ Typed(h, b) /\ SameCells(h, b)
      /\ SameSlots(h, b) /\ SameFree(h, b) /\ SameCounts(h, b) /\ SamePartial(h, b)
      /\ \A i \in 1..Len(h.mgrs) : b.mgrs[i].next = IF i = n THEN n + 1 ELSE h.mgrs[i].next
  BY <1>0, <1>1, SetNextFields
<1>5. r = AddManager(a, n, n + 1)
  <2>1. ~CanCacheAlloc(b, n, MgrClass)
    <3>1. b.mgrs[n].partial_counts[MgrClass] = 0
      BY <1>1, <1>2, <1>3, <1>4 DEF SameCounts
    <3> QED BY <3>1 DEF CanCacheAlloc
  <2>2. r = AddManager(IF CanCacheAlloc(b, n, MgrClass) THEN cache_alloc(b, n, MgrClass) ELSE a,
                       n, n + 1)
    BY <1>2 DEF try_init_next, SetNext
  <2> QED BY <2>1, <2>2
<1> HIDE DEF b
<1>6. Core(b, x, st)
  BY <1>4, CoreSame
<1>7. HeapType(b) /\ Len(b.mgrs) = n /\ b.caches = h.caches /\ b.cell = h.cell
  BY <1>4 DEF Typed, SameCells
<1>8. Unused(b) = Unused(h) /\ Unused(h) # {}
  BY <1>7, FS_EmptySet DEF Unused
<1>9. b.mgrs[n].used_slots = 0
  BY <1>1, <1>2, <1>4 DEF SameSlots
<1>10. /\ a.at \in Unused(b) /\ Core(a, [x EXCEPT ![a.at] = x[a.at] + 1], st)
       /\ Typed(b, a) /\ SameNext(b, a) /\ a.cell = b.cell
       /\ a.caches[a.at].owner = n
       /\ \A j \in CacheIds : j # a.at => a.caches[j] = b.caches[j]
       /\ SameElsewhere(b, a, n) /\ a.mgrs[n].used_slots = b.mgrs[n].used_slots + 1
  <2>1. b.mgrs[n].used_slots < SlotNum /\ b.mgrs[n].used_slots + 1 < SlotNum
    BY <1>3, <1>9
  <2>2. n \in 1..Len(b.mgrs) /\ Unused(b) # {}
    BY <1>1, <1>7, <1>8
  <2> QED BY <1>3, <1>6, <2>1, <2>2, NewCacheCore
<1> HIDE DEF a
<1>11. PICK k \in CacheIds : k = a.at
  BY <1>10 DEF Unused
<1>12. PICK x1 : x1 = [x EXCEPT ![k] = x[k] + 1]
  OBVIOUS
<1>13. x \in [CacheIds -> Nat]
  BY <1>0 DEF Objects
<1>14. x1[k] = x[k] + 1 /\ x1[k] > 0 /\ x = [x1 EXCEPT ![k] = x1[k] - 1]
  <2>1. x1 \in [CacheIds -> Nat] /\ x1[k] = x[k] + 1 /\ x[k] \in Nat
    BY <1>12, <1>13
  <2>2. x1[k] > 0 /\ x1[k] - 1 = x[k]
    BY <2>1
  <2>3. PICK v : v = x1[k] - 1
    OBVIOUS
  <2>4. v = x[k]
    BY <2>2, <2>3
  <2>5. x = [x1 EXCEPT ![k] = v]
    BY <1>12, <1>13, <2>1, <2>4
  <2> QED BY <2>1, <2>2, <2>3, <2>5
<1>15. Core(a, x1, st) /\ HeapType(a) /\ Len(a.mgrs) = n
  BY <1>7, <1>10, <1>11, <1>12 DEF Typed
<1>16. Grown(a, r, n)
  BY <1>1, <1>5, <1>11, <1>15, AddManagerFields
<1>17. a.cell[n + 1] = None
  <2>1. n + 1 \in MgrIds /\ n + 1 \notin 2..n
    BY <1>1, McacheAssumption DEF MgrIds
  <2>2. h.cell[n + 1] = None
    BY <2>1 DEF Chain
  <2> QED BY <1>7, <1>10, <2>2
<1>18. Core(r, x, st)
  <2>1. Core(r, [x1 EXCEPT ![k] = x1[k] - 1], st)
    BY <1>1, <1>11, <1>14, <1>15, <1>16, <1>17, AddManagerCore
  <2> QED BY <1>14, <2>1
<1>19. /\ HeapType(r) /\ Len(r.mgrs) = n + 1 /\ r.caches = a.caches
       /\ \A i \in 1..n : /\ r.mgrs[i].used_slots = a.mgrs[i].used_slots
                          /\ r.mgrs[i].next = a.mgrs[i].next
       /\ r.mgrs[n + 1] = NewManager(n, a.mgrs[First].next_free)
       /\ \A i \in MgrIds : r.cell[i] = IF i = n + 1 THEN k ELSE h.cell[i]
  BY <1>7, <1>10, <1>11, <1>16 DEF Grown
<1>20. r.mgrs[n].used_slots = 1
  BY <1>1, <1>9, <1>10, <1>19
<1>21. Unused(r) # {}
  <2>1. PICK U : U = Unused(h)
    OBVIOUS
  <2>2. Cardinality({k}) = 1 /\ IsFiniteSet({k})
    BY FS_Singleton
  <2>3. PICK j \in U : j # k
    <3> SUFFICES ASSUME \A j \in U : j = k PROVE FALSE
      OBVIOUS
    <3>1. U \subseteq {k}
      OBVIOUS
    <3>2. Cardinality(U) =< 1 /\ Cardinality(U) \in Nat
      BY <2>1, <2>2, <3>1, FS_Subset, FS_CardinalityType
    <3> QED BY <2>1, <3>2
  <2>4. j \in CacheIds /\ h.caches[j] = NoCache
    BY <2>1 DEF Unused
  <2>5. r.caches[j] = NoCache
    BY <1>7, <1>10, <1>11, <1>19, <2>3, <2>4
  <2> QED BY <2>4, <2>5 DEF Unused
<1>22. Chain(r)
  <2>1. DOMAIN r.mgrs = 1..(n + 1)
    BY <1>19, HeapFacts
  <2>2. \A i \in 1..n : r.mgrs[i].next = i + 1
    <3>1. \A i \in 1..n : r.mgrs[i].next = b.mgrs[i].next
      BY <1>7, <1>10, <1>19 DEF SameNext
    <3> QED BY <1>2, <1>4, <3>1
  <2>3. /\ r.mgrs[n + 1].next = None /\ r.mgrs[n + 1].used_slots = 0
        /\ \A c \in Classes : r.mgrs[n + 1].partial_counts[c] = 0
    BY <1>19 DEF NewManager
  <2>4. \A i \in DOMAIN r.mgrs : r.mgrs[i].next = IF i = n + 1 THEN None ELSE i + 1
    <3>1. \A i \in 1..(n + 1) : i # n + 1 => i \in 1..n
      OBVIOUS
    <3> QED BY <2>1, <2>2, <2>3, <3>1
  <2>5. ASSUME NEW i \in MgrIds
        PROVE  IF i \in 2..(n + 1)
               THEN r.cell[i] # None /\ r.caches[r.cell[i]].owner = i - 1
               ELSE r.cell[i] = None
    <3>1. CASE i = n + 1
      <4>1. r.cell[i] = k /\ k # None
        BY <1>19, <3>1 DEF CacheIds, None
      <4>2. r.caches[k].owner = n /\ i - 1 = n /\ i \in 2..(n + 1)
        BY <1>1, <1>10, <1>11, <1>19, <3>1
      <4> QED BY <4>1, <4>2
    <3>2. CASE i \in 2..n
      <4>1. PICK j : j = h.cell[i]
        OBVIOUS
      <4>2. j # None /\ h.caches[j].owner = i - 1
        BY <3>2, <4>1 DEF Chain
      <4>3. j \in CacheIds /\ j \notin Unused(h)
        BY <1>0, <4>1, <4>2, CellUsed
      <4>4. j # k
        BY <1>8, <1>10, <1>11, <4>3
      <4>5. r.caches[j] = h.caches[j]
        BY <1>7, <1>10, <1>11, <1>19, <4>3, <4>4
      <4>6. i # n + 1 /\ i \in 2..(n + 1)
        BY <3>2
      <4>7. r.cell[i] = j
        BY <1>19, <4>1, <4>6
      <4> QED BY <4>2, <4>5, <4>6, <4>7
    <3>3. CASE i # n + 1 /\ i \notin 2..n
      <4>1. i \notin 2..(n + 1)
        BY <3>3 DEF MgrIds
      <4>2. h.cell[i] = None
        BY <3>3 DEF Chain
      <4> QED BY <1>19, <3>3, <4>1, <4>2
    <3> QED BY <3>1, <3>2, <3>3
  <2> QED BY <1>19, <2>3, <2>4, <2>5 DEF Chain
<1> QED BY <1>18, <1>19, <1>20, <1>21, <1>22

(* new_cache_alloc keeps the invariant; its caller holds one object more. *)
LEMMA NewCacheAllocInv ==
  ASSUME NEW h, NEW x, NEW st, Core(h, x, st), Chain(h), NEW m \in 1..Len(h.mgrs),
         NEW c \in Classes, h.mgrs[m].used_slots < SlotNum,
         m = First \/ m = h.mgrs[First].next_free,
         IsFiniteSet(Unused(h)), Cardinality(Unused(h)) >= 2,
         h.mgrs[m].next # None \/ Len(h.mgrs) < MaxMgrs,
         NEW g, g = new_cache_alloc(h, m, c)
  PROVE  g.at \in CacheIds /\ Core(g, [x EXCEPT ![g.at] = x[g.at] + 1], st) /\ Chain(g)
<1>0. HeapType(h)
  BY DEF Core
<1>1. PICK n \in Nat : n = Len(h.mgrs) /\ n >= 1 /\ DOMAIN h.mgrs = 1..n
  BY <1>0, HeapFacts
<1>2. h.mgrs[m].next = None <=> m = n
  <2>1. h.mgrs[m].next = IF m = n THEN None ELSE m + 1
    BY <1>1 DEF Chain
  <2>2. m + 1 # None
    BY <1>1 DEF None
  <2> QED BY <2>1, <2>2
<1>3. PICK r : r = try_init_next(h, m)
  OBVIOUS
<1>4. g = NewCache(r, m, c)
  BY <1>3 DEF new_cache_alloc
<1>5. CASE m # n
  <2>1. r = h
    BY <1>2, <1>3, <1>5 DEF try_init_next
  <2>2. Unused(h) # {}
    BY FS_EmptySet
  <2>3. g = NewCache(h, m, c) /\ m # Len(h.mgrs)
    BY <1>1, <1>4, <1>5, <2>1
  <2> QED BY <2>2, <2>3, NewCacheInv
<1>6. CASE m = n
  <2>1. /\ Core(r, x, st) /\ Chain(r) /\ Len(r.mgrs) = n + 1
        /\ Unused(r) # {} /\ r.mgrs[n].used_slots = 1
    BY <1>1, <1>2, <1>3, <1>6, TryInitInv
  <2>2. m \in 1..Len(r.mgrs) /\ m # Len(r.mgrs)
    BY <1>1, <1>6, <2>1
  <2>3. r.mgrs[m].used_slots < SlotNum /\ r.mgrs[m].used_slots + 1 < SlotNum
    BY <1>6, <2>1, McacheAssumption
  <2> QED BY <1>4, <2>1, <2>2, <2>3, NewCacheInv
<1> QED BY <1>5, <1>6

-----------------------------------------------------------------------------
(* Manager m becomes the head of the free list. *)
FreePushed(h, g, m) ==
    \A i \in 1..Len(h.mgrs) : g.mgrs[i].next_free =
      IF i = First THEN m
      ELSE IF i = m THEN h.mgrs[First].next_free ELSE h.mgrs[i].next_free

DropIs(h, g, m, s, k, c, used, left) ==
    /\ Typed(h, g) /\ g.cell = h.cell /\ SameNext(h, g) /\ SamePartial(h, g)
    /\ \A j \in CacheIds : g.caches[j] = IF j = k THEN NoCache ELSE h.caches[j]
    /\ Slotted(h, g, m, s, None, used - 1) /\ Recounted(h, g, m, c, left)
    /\ IF m # First /\ used = SlotNum THEN FreePushed(h, g, m) ELSE SameFree(h, g)

LEMMA DropFields ==
  ASSUME NEW h, HeapType(h), NEW m \in 1..Len(h.mgrs), NEW s \in Slots, NEW k \in CacheIds,
         k = h.mgrs[m].caches[s], NEW c \in Classes, c = h.caches[k].class,
         NEW used \in Nat \ {0}, used = h.mgrs[m].used_slots,
         NEW left \in Nat, left = h.mgrs[m].partial_counts[c] - 1,
         NEW g, g = DropCache(h, m, s)
  PROVE  DropIs(h, g, m, s, k, c, used, left)
<1>1. is_global_allocator(h, m) <=> m = First
  BY GlobalIsFirst
<1>2. is_slots_full(h, m) <=> used = SlotNum
  BY DEF is_slots_full
<1> DEFINE a == IF m # First /\ used = SlotNum
                THEN SetFree(SetFree(h, m, h.mgrs[First].next_free), First, m) ELSE h
           b == SetCache(a, k, NoCache)
           d == SetSlot(b, m, s, None, used - 1)
<1>3. g = SetCount(d, m, c, left)
  BY <1>1, <1>2 DEF DropCache
<1>4. /\ Typed(h, a) /\ SameCells(h, a)
      /\ SameSlots(h, a) /\ SameNext(h, a) /\ SameCounts(h, a) /\ SamePartial(h, a)
      /\ IF m # First /\ used = SlotNum THEN FreePushed(h, a, m) ELSE SameFree(h, a)
  <2>1. CASE ~(m # First /\ used = SlotNum)
    <3>1. a = h
      BY <2>1
    <3> QED BY <2>1, <3>1
          DEF Typed, SameCells, SameSlots, SameNext, SameCounts, SamePartial, SameFree
  <2>2. CASE m # First /\ used = SlotNum
    <3>1. PICK p : p = h.mgrs[First].next_free
      OBVIOUS
    <3>2. p \in 0..Len(h.mgrs) /\ First \in 1..Len(h.mgrs) /\ m \in 0..Len(h.mgrs)
      <4>1. Len(h.mgrs) \in Nat /\ First \in 1..Len(h.mgrs)
            /\ \A i \in 1..Len(h.mgrs) : h.mgrs[i].next_free \in 0..Len(h.mgrs)
        BY ONLY HeapType(h), HeapFacts
      <4> QED BY ONLY <3>1, <4>1, m \in 1..Len(h.mgrs)
    <3> DEFINE f == SetFree(h, m, p)
    <3>3. a = SetFree(f, First, m)
      BY <2>2, <3>1
    <3>4. /\ Typed(h, f) /\ SameCells(h, f)
          /\ SameSlots(h, f) /\ SameNext(h, f) /\ SameCounts(h, f) /\ SamePartial(h, f)
          /\ Freed(h, f, m, p)
      BY <3>2, SetFreeFields
    <3> HIDE DEF f, a
    <3>5. HeapType(f) /\ Len(f.mgrs) = Len(h.mgrs)
      BY <3>4 DEF Typed
    <3>6. /\ Typed(f, a) /\ SameCells(f, a)
          /\ SameSlots(f, a) /\ SameNext(f, a) /\ SameCounts(f, a) /\ SamePartial(f, a)
          /\ Freed(f, a, First, m)
      BY <3>2, <3>3, <3>5, SetFreeFields
    <3>7. Typed(h, a) /\ SameCells(h, a) /\ SameSlots(h, a) /\ SameNext(h, a)
      BY <3>4, <3>5, <3>6 DEF Typed, SameCells, SameSlots, SameNext
    <3>8. SameCounts(h, a) /\ SamePartial(h, a)
      BY ONLY <3>4, <3>5, <3>6 DEF SameCounts, SamePartial
    <3>9. FreePushed(h, a, m)
      BY <2>2, <3>1, <3>4, <3>5, <3>6 DEF Freed, FreePushed
    <3> QED BY <2>2, <3>7, <3>8, <3>9
  <2> QED BY <2>1, <2>2
<1> HIDE DEF a
<1>5. HeapType(a) /\ Len(a.mgrs) = Len(h.mgrs) /\ a.caches = h.caches /\ a.cell = h.cell
  BY <1>4 DEF Typed, SameCells
<1>6. NoCache \in CacheType
  BY ONLY McacheAssumption DEF NoCache, CacheType, None
<1>7. /\ HeapType(b) /\ SameMgrs(a, b)
      /\ \A j \in CacheIds : b.caches[j] = IF j = k THEN NoCache ELSE a.caches[j]
  BY ONLY <1>5, <1>6, SetCacheFields
<1> HIDE DEF b
<1>8. b.mgrs = a.mgrs /\ b.cell = h.cell /\ Len(b.mgrs) = Len(h.mgrs)
  BY <1>5, <1>7 DEF SameMgrs
<1>9. used - 1 \in 0..SlotNum /\ None \in 0..MaxCaches
  <2>1. h.mgrs[m].used_slots \in 0..SlotNum
    BY HeapFacts
  <2> QED BY ONLY <2>1, used \in Nat \ {0}, used = h.mgrs[m].used_slots, McacheAssumption
          DEF None
<1>10. /\ Typed(b, d) /\ SameCells(b, d)
       /\ SameFree(b, d) /\ SameNext(b, d) /\ SameCounts(b, d) /\ SamePartial(b, d)
       /\ Slotted(b, d, m, s, None, used - 1)
  <2>1. HeapType(b) /\ m \in 1..Len(b.mgrs) /\ s \in Slots
    BY <1>7, <1>8
  <2> QED BY ONLY <1>9, <2>1, SetSlotFields DEF d
<1> HIDE DEF d
<1>11. HeapType(d) /\ Len(d.mgrs) = Len(h.mgrs) /\ d.caches = b.caches /\ d.cell = h.cell
  BY <1>8, <1>10 DEF Typed, SameCells
<1>13. /\ Typed(d, g) /\ SameCells(d, g)
       /\ SameSlots(d, g) /\ SameFree(d, g) /\ SameNext(d, g) /\ SamePartial(d, g)
       /\ Recounted(d, g, m, c, left)
  <2>1. HeapType(d) /\ m \in 1..Len(d.mgrs) /\ g = SetCount(d, m, c, left)
    BY <1>3, <1>11
  <2> QED BY ONLY <2>1, left \in Nat, c \in Classes, SetCountFields
<1>14. Typed(h, g) /\ g.cell = h.cell /\ g.caches = b.caches
  BY <1>11, <1>13 DEF Typed, SameCells
<1>15. SameNext(h, g)
  BY <1>4, <1>5, <1>8, <1>10, <1>11, <1>13 DEF SameNext
<1>16. \A i \in 1..Len(h.mgrs), j \in Classes :
         /\ d.mgrs[i].next_partial_free[j] = b.mgrs[i].next_partial_free[j]
         /\ g.mgrs[i].next_partial_free[j] = d.mgrs[i].next_partial_free[j]
  BY <1>8, <1>10, <1>11, <1>13 DEF SamePartial
<1>17. SamePartial(h, g)
  BY ONLY <1>4, <1>8, <1>16 DEF SamePartial
<1>18. Slotted(h, d, m, s, None, used - 1)
  <2>1. SameSlots(h, b)
    BY ONLY <1>4, <1>8 DEF SameSlots
  <2> QED BY ONLY <1>8, <1>10, <2>1, ThenSlotted
<1>19. Slotted(h, g, m, s, None, used - 1)
  BY ONLY <1>11, <1>13, <1>18, SlottedThen
<1>20. \A i \in 1..Len(h.mgrs), j \in Classes :
         d.mgrs[i].partial_counts[j] = h.mgrs[i].partial_counts[j]
  <2>1. \A i \in 1..Len(h.mgrs), j \in Classes :
          a.mgrs[i].partial_counts[j] = h.mgrs[i].partial_counts[j]
    BY <1>4 DEF SameCounts
  <2>2. \A i \in 1..Len(h.mgrs), j \in Classes :
          d.mgrs[i].partial_counts[j] = b.mgrs[i].partial_counts[j]
    BY <1>8, <1>10 DEF SameCounts
  <2>3. b.mgrs = a.mgrs
    BY <1>8
  <2>4. \A i \in 1..Len(h.mgrs), j \in Classes :
          d.mgrs[i].partial_counts[j] = a.mgrs[i].partial_counts[j]
    BY ONLY <2>2, <2>3
  <2> QED BY ONLY <2>1, <2>4
<1>21. Recounted(h, g, m, c, left)
  <2>1. \A i \in 1..Len(h.mgrs), j \in Classes : g.mgrs[i].partial_counts[j] =
          IF i = m /\ j = c THEN left ELSE d.mgrs[i].partial_counts[j]
    BY <1>11, <1>13 DEF Recounted
  <2> QED BY ONLY <1>20, <2>1 DEF Recounted
<1>22. \A i \in 1..Len(h.mgrs) : g.mgrs[i].next_free = a.mgrs[i].next_free
  BY <1>8, <1>10, <1>11, <1>13 DEF SameFree
<1>23. IF m # First /\ used = SlotNum THEN FreePushed(h, g, m) ELSE SameFree(h, g)
  <2>1. FreePushed(h, a, m) => FreePushed(h, g, m)
    BY <1>22 DEF FreePushed
  <2>2. SameFree(h, a) => SameFree(h, g)
    BY <1>22 DEF SameFree
  <2> QED BY <1>4, <2>1, <2>2
<1>24. \A j \in CacheIds : g.caches[j] = IF j = k THEN NoCache ELSE h.caches[j]
  BY <1>5, <1>7, <1>14
<1> QED BY <1>14, <1>15, <1>17, <1>19, <1>21, <1>23, <1>24 DEF DropIs

(* The last object of cache k goes, and the cache with it.  A cache of a     *)
(* class with one cell was full and is counted once more before it goes.    *)
GoneIs(h, g, m, s, k, c, used, left) ==
    /\ Typed(h, g) /\ g.cell = h.cell /\ SameNext(h, g)
    /\ \A j \in CacheIds : g.caches[j] = IF j = k THEN NoCache ELSE h.caches[j]
    /\ Slotted(h, g, m, s, None, used - 1) /\ Recounted(h, g, m, c, left)
    /\ IF m # First /\ used = SlotNum THEN FreePushed(h, g, m) ELSE SameFree(h, g)
    /\ h.caches[k].free # 0 => SamePartial(h, g)
    /\ \A i \in 1..Len(h.mgrs), d \in Classes : d # c =>
         g.mgrs[i].next_partial_free[d] = h.mgrs[i].next_partial_free[d]

LEMMA GoneFields ==
  ASSUME NEW h, HeapType(h), NEW m \in 1..Len(h.mgrs), NEW s \in Slots, NEW k \in CacheIds,
         k = h.mgrs[m].caches[s], NEW c \in Classes, c = h.caches[k].class,
         NEW free \in Nat, free = h.caches[k].free, h.caches[k].used # 0,
         NEW used \in Nat \ {0}, used = h.mgrs[m].used_slots,
         NEW count \in Nat, count = h.mgrs[m].partial_counts[c], free # 0 => count # 0,
         NEW left \in Nat, left = IF free = 0 THEN count ELSE count - 1,
         NEW f, f = free_obj(h, m, k), NEW g, g = DropCache(f, m, s)
  PROVE  GoneIs(h, g, m, s, k, c, used, left)
<1>1. /\ Typed(h, f) /\ Moved(h, f, k, h.caches[k].free + 1, h.caches[k].used - 1)
      /\ SameSlots(h, f) /\ SameFree(h, f) /\ SameNext(h, f)
      /\ h.caches[k].free # 0 => SameCounts(h, f) /\ SamePartial(h, f)
      /\ h.caches[k].free = 0 =>
           /\ Recounted(h, f, m, c, count + 1)
           /\ IF m = First \/ count # 0 THEN SamePartial(h, f) ELSE Pushed(h, f, m, c)
  BY ONLY HeapType(h), k \in CacheIds, m \in 1..Len(h.mgrs), c \in Classes,
          c = h.caches[k].class, h.caches[k].used # 0, count \in Nat,
          count = h.mgrs[m].partial_counts[c], f = free_obj(h, m, k), FreeObjFields
<1>2. HeapType(f) /\ Len(f.mgrs) = Len(h.mgrs)
  BY <1>1 DEF Typed
<1>3. /\ f.mgrs[m].caches = h.mgrs[m].caches /\ f.mgrs[m].used_slots = used
      /\ f.caches[k].class = c /\ f.cell = h.cell
      /\ \A j \in CacheIds : j # k => f.caches[j] = h.caches[j]
  BY <1>1 DEF SameSlots, Moved
<1>4. left = f.mgrs[m].partial_counts[c] - 1
  <2>1. CASE free = 0
    <3>1. f.mgrs[m].partial_counts[c] = count + 1
      BY <1>1, <2>1 DEF Recounted
    <3>2. left = count /\ count = (count + 1) - 1
      BY ONLY <2>1, count \in Nat, left = IF free = 0 THEN count ELSE count - 1
    <3> QED BY ONLY <3>1, <3>2
  <2>2. CASE free # 0
    <3>1. f.mgrs[m].partial_counts[c] = count
      BY <1>1, <2>2 DEF SameCounts
    <3> QED BY <2>2, <3>1
  <2> QED BY <2>1, <2>2
<1>5. DropIs(f, g, m, s, k, c, used, left)
  <2>1. /\ HeapType(f) /\ m \in 1..Len(f.mgrs) /\ k = f.mgrs[m].caches[s]
        /\ c = f.caches[k].class /\ used = f.mgrs[m].used_slots
    BY <1>2, <1>3
  <2> QED BY ONLY <1>4, <2>1, s \in Slots, k \in CacheIds, c \in Classes, used \in Nat \ {0},
                  left \in Nat, g = DropCache(f, m, s), DropFields
<1>6. /\ Typed(f, g) /\ g.cell = f.cell /\ SameNext(f, g) /\ SamePartial(f, g)
      /\ \A j \in CacheIds : g.caches[j] = IF j = k THEN NoCache ELSE f.caches[j]
      /\ Slotted(f, g, m, s, None, used - 1) /\ Recounted(f, g, m, c, left)
      /\ IF m # First /\ used = SlotNum THEN FreePushed(f, g, m) ELSE SameFree(f, g)
  BY <1>5 DEF DropIs
<1>7. Typed(h, g) /\ g.cell = h.cell
  BY <1>2, <1>3, <1>6 DEF Typed
<1>8. SameNext(h, g)
  BY ONLY <1>1, <1>2, <1>6 DEF SameNext
<1>9. \A j \in CacheIds : g.caches[j] = IF j = k THEN NoCache ELSE h.caches[j]
  BY <1>3, <1>6
<1>10. Slotted(h, g, m, s, None, used - 1)
  <2>1. SameSlots(h, f) /\ Slotted(f, g, m, s, None, used - 1)
    BY <1>1, <1>6
  <2> QED BY ONLY <1>2, <2>1, ThenSlotted
<1>11. Recounted(h, g, m, c, left)
  <2>1. \A i \in 1..Len(h.mgrs), d \in Classes : i # m \/ d # c =>
          f.mgrs[i].partial_counts[d] = h.mgrs[i].partial_counts[d]
    BY <1>1 DEF SameCounts, Recounted
  <2>2. \A i \in 1..Len(h.mgrs), d \in Classes : g.mgrs[i].partial_counts[d] =
          IF i = m /\ d = c THEN left ELSE f.mgrs[i].partial_counts[d]
    BY ONLY <1>2, <1>6 DEF Recounted
  <2> QED BY ONLY <2>1, <2>2 DEF Recounted
<1>12. IF m # First /\ used = SlotNum THEN FreePushed(h, g, m) ELSE SameFree(h, g)
  <2>1. \A i \in 1..Len(h.mgrs) : f.mgrs[i].next_free = h.mgrs[i].next_free
    BY <1>1 DEF SameFree
  <2>2. First \in 1..Len(h.mgrs)
    BY HeapFacts
  <2>3. FreePushed(f, g, m) => FreePushed(h, g, m)
    BY <1>2, <2>1, <2>2 DEF FreePushed
  <2>4. SameFree(f, g) => SameFree(h, g)
    BY <1>2, <2>1 DEF SameFree
  <2> QED BY <1>6, <2>3, <2>4
<1>13. \A i \in 1..Len(h.mgrs), d \in Classes :
         g.mgrs[i].next_partial_free[d] = f.mgrs[i].next_partial_free[d]
  BY ONLY <1>2, <1>6 DEF SamePartial
<1>14. h.caches[k].free # 0 => SamePartial(h, g)
  BY ONLY <1>1, <1>13 DEF SamePartial
<1>15. \A i \in 1..Len(h.mgrs), d \in Classes : d # c =>
         g.mgrs[i].next_partial_free[d] = h.mgrs[i].next_partial_free[d]
  <2>1. \A i \in 1..Len(h.mgrs), d \in Classes : d # c =>
          f.mgrs[i].next_partial_free[d] = h.mgrs[i].next_partial_free[d]
    BY <1>1 DEF SamePartial, Pushed
  <2> QED BY ONLY <1>13, <2>1
<1> QED BY <1>7, <1>8, <1>9, <1>10, <1>11, <1>12, <1>14, <1>15 DEF GoneIs

Dropped(h, g, m, k) ==
    /\ Typed(h, g) /\ SameNext(h, g) /\ g.cell = h.cell /\ Holds(h, k) = {}
    /\ \A j \in CacheIds : j # k => g.caches[j] = h.caches[j]
    /\ SameElsewhere(h, g, m)

(* st2 tells whether a later manager lost its last partial cache. *)
Staled(g, m, c, st, st2) == ~st2 => ~st /\ (m = First \/ g.mgrs[m].partial_counts[c] # 0)

(* dealloc of the last object of a cache keeps the invariant; the partial   *)
(* lists stay exact unless a later manager loses its last partial cache.    *)
LEMMA DropCore ==
  ASSUME NEW h, NEW x, NEW st, Core(h, x, st), NEW k \in CacheIds, x[k] > 0,
         h.caches[k].used = 1, NEW m, m = h.caches[k].owner, NEW s \in Slots,
         NEW c, SlotOf(h, m, s, k, c),
         NEW g, g = DropCache(free_obj(h, m, k), m, s), NEW st2,
         Staled(g, m, c, st, st2)
  PROVE  Core(g, [x EXCEPT ![k] = x[k] - 1], st2) /\ Dropped(h, g, m, k)
<1>0. HeapType(h) /\ Objects(h, x) /\ Homes(h) /\ Counts(h) /\ FreeOK(h) /\ (~st => PartialOK(h))
  BY DEF Core
<1>1. /\ m \in 1..Len(h.mgrs) /\ c \in Classes /\ h.mgrs[m].caches[s] = k
      /\ c = h.caches[k].class /\ k # None
  BY DEF SlotOf, CacheIds, None
<1>2. x \in [CacheIds -> Nat] /\ x[k] = 1 /\ Holds(h, k) = {}
  <2>1. PICK a \in Nat : a = Cardinality(Holds(h, k))
    BY HoldsNat
  <2>2. x \in [CacheIds -> Nat] /\ 1 = x[k] + a
    BY <1>0, <2>1 DEF Objects
  <2>3. x[k] = 1 /\ a = 0
    BY <2>2
  <2> QED BY <2>1, <2>2, <2>3, HoldsNat, FS_EmptySet
<1>3. PICK free \in Nat : free = h.caches[k].free /\ (Cells[c] > 1 <=> free # 0)
  <2>1. h.caches[k].free \in Nat /\ h.caches[k].free + 1 = Cells[c]
    BY <1>0, <1>1, OwnerFacts DEF Objects
  <2> QED BY <2>1
<1>4. s \in Occupied(h, m) /\ (s \in Usable(h, m, c) <=> free # 0)
  <2>1. s \in Occupied(h, m)
    BY <1>1 DEF Occupied
  <2>2. s \in Usable(h, m, c) <=> h.caches[k].free > 0
    BY <1>1, UsableIs
  <2>3. free > 0 <=> free # 0
    OBVIOUS
  <2> QED BY <1>3, <2>1, <2>2, <2>3
<1>5. PICK O : O = Occupied(h, m) /\ IsFiniteSet(O) /\ s \in O
  <2>1. Occupied(h, m) \in SUBSET Slots
    BY DEF Occupied
  <2> QED BY <1>4, <2>1, SlotsFinite
<1>6. PICK used \in Nat \ {0} : used = h.mgrs[m].used_slots /\ used - 1 = Cardinality(O \ {s})
  <2>1. h.mgrs[m].used_slots = Cardinality(O)
    BY <1>0, <1>1, <1>5, HeapFacts DEF Counts
  <2>2. Cardinality(O) \in Nat /\ O # {} /\ Cardinality(O \ {s}) = Cardinality(O) - 1
    BY <1>5, FS_CardinalityType, FS_RemoveElement
  <2>3. Cardinality(O) # 0
    BY <1>5, <2>2, FS_EmptySet
  <2> QED BY <2>1, <2>2, <2>3
<1>7. PICK count \in Nat : count = h.mgrs[m].partial_counts[c]
  <2>1. h.mgrs[m].partial_counts \in [Classes -> Nat]
    BY <1>0, <1>1, HeapFacts
  <2> QED BY <1>1, <2>1
<1>8. PICK U : U = Usable(h, m, c) /\ IsFiniteSet(U)
  BY CardUsable
<1>9. free # 0 => count = Cardinality(U) /\ s \in U /\ count # 0
                  /\ Cardinality(U \ {s}) = count - 1
  <2> SUFFICES ASSUME free # 0
               PROVE  count = Cardinality(U) /\ s \in U /\ count # 0
                      /\ Cardinality(U \ {s}) = count - 1
    OBVIOUS
  <2>1. count = Cardinality(U) /\ s \in U
    BY <1>0, <1>1, <1>3, <1>4, <1>7, <1>8, HeapFacts DEF Counts
  <2>2. Cardinality(U) # 0
    BY <1>8, <2>1, FS_EmptySet
  <2>3. Cardinality(U \ {s}) = Cardinality(U) - 1
    BY <1>8, <2>1, FS_RemoveElement
  <2> QED BY <2>1, <2>2, <2>3
<1>10. PICK left \in Nat : left = IF free = 0 THEN count ELSE count - 1
  <2>1. free # 0 => count - 1 \in Nat
    BY <1>9
  <2> QED BY <2>1
<1>11. GoneIs(h, g, m, s, k, c, used, left)
  <2>1. PICK f : f = free_obj(h, m, k) /\ g = DropCache(f, m, s)
    OBVIOUS
  <2>2. HeapType(h) /\ h.caches[k].used # 0 /\ (free # 0 => count # 0)
    BY <1>0, <1>9
  <2> QED BY ONLY <1>1, <1>3, <1>6, <1>7, <1>10, <2>1, <2>2, GoneFields, s \in Slots,
                  k \in CacheIds, free \in Nat, used \in Nat \ {0}, count \in Nat, left \in Nat
<1>12. /\ Typed(h, g) /\ g.cell = h.cell /\ SameNext(h, g)
       /\ \A j \in CacheIds : g.caches[j] = IF j = k THEN NoCache ELSE h.caches[j]
       /\ Slotted(h, g, m, s, None, used - 1) /\ Recounted(h, g, m, c, left)
       /\ IF m # First /\ used = SlotNum THEN FreePushed(h, g, m) ELSE SameFree(h, g)
       /\ free # 0 => SamePartial(h, g)
       /\ \A i \in 1..Len(h.mgrs), d \in Classes : d # c =>
            g.mgrs[i].next_partial_free[d] = h.mgrs[i].next_partial_free[d]
  BY ONLY <1>3, <1>11 DEF GoneIs
<1>13. /\ HeapType(g) /\ Len(g.mgrs) = Len(h.mgrs)
       /\ DOMAIN h.mgrs = 1..Len(h.mgrs) /\ DOMAIN g.mgrs = 1..Len(h.mgrs)
  <2>1. HeapType(g) /\ Len(g.mgrs) = Len(h.mgrs)
    BY ONLY <1>12 DEF Typed
  <2> QED BY ONLY <1>0, <2>1, HeapFacts
<1>14. /\ g.mgrs[m].caches[s] = None /\ g.mgrs[m].used_slots = used - 1
       /\ \A i \in 1..Len(h.mgrs), t \in Slots : i # m \/ t # s =>
            g.mgrs[i].caches[t] = h.mgrs[i].caches[t]
       /\ \A i \in 1..Len(h.mgrs) : i # m => g.mgrs[i].used_slots = h.mgrs[i].used_slots
  BY ONLY <1>1, <1>12, s \in Slots DEF Slotted
<1>15. g.caches[k] = NoCache /\ \A j \in CacheIds : j # k => g.caches[j] = h.caches[j]
  BY ONLY <1>12, k \in CacheIds
<1>16. \A i \in 1..Len(h.mgrs), t \in Slots : (i # m \/ t # s) /\ h.mgrs[i].caches[t] # None =>
         /\ h.mgrs[i].caches[t] \in CacheIds /\ h.mgrs[i].caches[t] # k
         /\ g.caches[h.mgrs[i].caches[t]] = h.caches[h.mgrs[i].caches[t]]
  <2> SUFFICES ASSUME NEW i \in 1..Len(h.mgrs), NEW t \in Slots, i # m \/ t # s,
                      h.mgrs[i].caches[t] # None
               PROVE  /\ h.mgrs[i].caches[t] \in CacheIds /\ h.mgrs[i].caches[t] # k
                      /\ g.caches[h.mgrs[i].caches[t]] = h.caches[h.mgrs[i].caches[t]]
    OBVIOUS
  <2>1. PICK j : j = h.mgrs[i].caches[t]
    OBVIOUS
  <2>2. j \in CacheIds /\ h.caches[j].owner = i
    BY <1>0, <2>1, SlotFacts
  <2>3. j # k
    <3> SUFFICES ASSUME j = k PROVE FALSE
      OBVIOUS
    <3>1. i = m
      BY <2>2
    <3>2. t = s
      <4>1. h.mgrs[m].caches[t] = k /\ m \in DOMAIN h.mgrs
        BY <1>1, <1>13, <2>1, <3>1
      <4>2. \A a, b \in Slots : h.mgrs[m].caches[a] # None
              /\ h.mgrs[m].caches[a] = h.mgrs[m].caches[b] => a = b
        BY ONLY <1>0, <4>1 DEF Homes
      <4> QED BY ONLY <1>1, <4>1, <4>2, s \in Slots, t \in Slots
    <3> QED BY <3>1, <3>2
  <2> QED BY <1>15, <2>1, <2>2, <2>3
<1>17. Untouched(h, g, m, s)
  BY ONLY <1>14, <1>16 DEF Untouched
<1>18. /\ \A i \in 1..Len(h.mgrs), d \in Classes : i # m => Usable(g, i, d) = Usable(h, i, d)
       /\ \A i \in 1..Len(h.mgrs) : i # m => Occupied(g, i) = Occupied(h, i)
       /\ \A d \in Classes : Usable(g, m, d) \ {s} = Usable(h, m, d) \ {s}
       /\ Occupied(g, m) \ {s} = Occupied(h, m) \ {s}
  <2>1. SetsKept(h, g, m, s)
    BY <1>1, <1>17, UntouchedSets
  <2> QED BY <2>1 DEF SetsKept
<1>19. /\ \A d \in Classes : s \notin Usable(g, m, d)
       /\ s \notin Occupied(g, m)
       /\ \A d \in Classes : d # c => s \notin Usable(h, m, d)
  <2>1. \A d \in Classes : s \notin Usable(g, m, d)
    BY ONLY <1>14, UsableIs, s \in Slots
  <2>2. s \notin Occupied(g, m)
    BY ONLY <1>14 DEF Occupied
  <2>3. \A d \in Classes : d # c => s \notin Usable(h, m, d)
    BY ONLY <1>1, UsableIs, s \in Slots
  <2> QED BY <2>1, <2>2, <2>3
<1>20. Occupied(g, m) = O \ {s}
  BY <1>5, <1>18, <1>19
<1>21. Usable(g, m, c) = U \ {s}
  BY <1>1, <1>8, <1>18, <1>19
<1>22. UsableElsewhere(h, g, m, c)
  <2>1. ASSUME NEW d \in Classes, d # c PROVE Usable(g, m, d) = Usable(h, m, d)
    <3>1. PICK A, B : A = Usable(g, m, d) /\ B = Usable(h, m, d)
      OBVIOUS
    <3>2. A \ {s} = B \ {s} /\ s \notin A /\ s \notin B
      BY <1>18, <1>19, <2>1, <3>1
    <3>3. \A t : t \in A <=> t \in B
      BY ONLY <3>2
    <3> QED BY <3>1, <3>3, Zenon
  <2> QED BY <1>18, <2>1 DEF UsableElsewhere
<1>23. Objects(g, [x EXCEPT ![k] = x[k] - 1])
  <2>1. PICK y : y = [x EXCEPT ![k] = x[k] - 1]
    OBVIOUS
  <2>2. y \in [CacheIds -> Nat] /\ y[k] = 0 /\ \A j \in CacheIds : j # k => y[j] = x[j]
    BY <1>2, <2>1
  <2>3. \A j \in CacheIds : Holds(g, j) = Holds(h, j)
    BY <1>12 DEF Holds
  <2>4. \A j \in CacheIds : j # k =>
          /\ g.caches[j].used = y[j] + Cardinality(Holds(g, j))
          /\ g.caches[j].used = 0 => g.caches[j] = NoCache
          /\ g.caches[j].used # 0 =>
               g.caches[j].free + g.caches[j].used = Cells[g.caches[j].class]
    BY ONLY <1>0, <1>15, <2>2, <2>3 DEF Objects
  <2>5. Cardinality(Holds(g, k)) = 0
    BY <1>2, <2>3, FS_EmptySet
  <2>6. g.caches[k] = NoCache /\ g.caches[k].used = 0
    BY <1>15 DEF NoCache
  <2>7. g.caches[k].used = y[k] + Cardinality(Holds(g, k))
    BY <2>2, <2>5, <2>6
  <2>8. Objects(g, y)
    BY <2>2, <2>4, <2>6, <2>7 DEF Objects
  <2> QED BY <2>1, <2>8
<1>24. Homes(g)
  <2>1. ASSUME NEW i \in DOMAIN g.mgrs, NEW t \in Slots, g.mgrs[i].caches[t] # None
        PROVE  /\ g.caches[g.mgrs[i].caches[t]].owner = i
               /\ g.caches[g.mgrs[i].caches[t]].used # 0
    <3>1. i # m \/ t # s
      BY <1>14, <2>1
    <3>2. PICK j : j = h.mgrs[i].caches[t] /\ j = g.mgrs[i].caches[t]
      BY <1>13, <1>14, <3>1
    <3>3. g.caches[j] = h.caches[j]
      <4>1. i \in 1..Len(h.mgrs) /\ h.mgrs[i].caches[t] # None
        BY <1>13, <2>1, <3>2
      <4>2. g.caches[h.mgrs[i].caches[t]] = h.caches[h.mgrs[i].caches[t]]
        BY ONLY <1>16, <3>1, <4>1, t \in Slots
      <4> QED BY <3>2, <4>2
    <3>4. h.caches[j].owner = i /\ h.caches[j].used # 0
      <4>1. i \in 1..Len(h.mgrs) /\ j # None
        BY <1>13, <2>1, <3>2
      <4>2. HeapType(h) /\ Homes(h) /\ j = h.mgrs[i].caches[t] /\ t \in Slots
        BY <1>0, <3>2
      <4> QED BY ONLY <4>1, <4>2, SlotFacts
    <3> QED BY <3>2, <3>3, <3>4
  <2>2. ASSUME NEW i \in DOMAIN g.mgrs, NEW r \in Slots, NEW t \in Slots,
               g.mgrs[i].caches[r] # None, g.mgrs[i].caches[r] = g.mgrs[i].caches[t]
        PROVE  r = t
    <3>1. (i # m \/ r # s) /\ (i # m \/ t # s)
      BY <1>14, <2>2
    <3>2. g.mgrs[i].caches[r] = h.mgrs[i].caches[r] /\ g.mgrs[i].caches[t] = h.mgrs[i].caches[t]
      BY <1>13, <1>14, <3>1
    <3>3. i \in DOMAIN h.mgrs
      BY <1>13
    <3>4. \A a, b \in Slots : h.mgrs[i].caches[a] # None
            /\ h.mgrs[i].caches[a] = h.mgrs[i].caches[b] => a = b
      BY ONLY <1>0, <3>3 DEF Homes
    <3>5. h.mgrs[i].caches[r] # None /\ h.mgrs[i].caches[r] = h.mgrs[i].caches[t]
      BY <2>2, <3>2
    <3> QED BY ONLY <3>4, <3>5, r \in Slots, t \in Slots
  <2>3. ASSUME NEW j \in CacheIds, g.caches[j].used # 0
        PROVE  /\ g.caches[j].owner \in DOMAIN g.mgrs
               /\ \E t \in Slots : g.mgrs[g.caches[j].owner].caches[t] = j
    <3>1. j # k
      BY <1>15, <2>3 DEF NoCache
    <3>2. g.caches[j] = h.caches[j]
      BY <1>15, <3>1
    <3>3. PICK o \in DOMAIN h.mgrs, t \in Slots : o = h.caches[j].owner /\ h.mgrs[o].caches[t] = j
      BY ONLY <1>0, <2>3, <3>2 DEF Homes
    <3>4. o # m \/ t # s
      BY <1>1, <3>1, <3>3
    <3>5. g.mgrs[o].caches[t] = j
      BY <1>13, <1>14, <3>3, <3>4
    <3>6. g.caches[j].owner = o
      BY <3>2, <3>3
    <3> QED BY ONLY <1>13, <3>3, <3>5, <3>6
  <2> QED BY ONLY <2>1, <2>2, <2>3 DEF Homes
<1>25. Counts(g)
  <2>1. ASSUME NEW i \in 1..Len(h.mgrs)
        PROVE  g.mgrs[i].used_slots = Cardinality(Occupied(g, i))
    <3>1. h.mgrs[i].used_slots = Cardinality(Occupied(h, i))
      BY <1>0, <1>13 DEF Counts
    <3>2. CASE i # m
      BY <1>14, <1>18, <3>1, <3>2
    <3>3. CASE i = m
      BY <1>6, <1>14, <1>20, <3>3
    <3> QED BY <3>2, <3>3
  <2>2. ASSUME NEW i \in 1..Len(h.mgrs), NEW d \in Classes, Cells[d] > 1
        PROVE  g.mgrs[i].partial_counts[d] = Cardinality(Usable(g, i, d))
    <3>1. h.mgrs[i].partial_counts[d] = Cardinality(Usable(h, i, d))
      BY <1>0, <1>13, <2>2 DEF Counts
    <3>2. CASE i # m \/ d # c
      BY <1>12, <1>22, <3>1, <3>2 DEF Recounted, UsableElsewhere
    <3>3. CASE i = m /\ d = c
      <4>1. free # 0
        BY <1>3, <2>2, <3>3
      <4>2. left = count - 1 /\ Cardinality(U \ {s}) = count - 1
        BY <1>9, <1>10, <4>1
      <4>3. g.mgrs[m].partial_counts[c] = left
        BY <1>1, <1>12 DEF Recounted
      <4> QED BY <1>21, <3>3, <4>2, <4>3
    <3> QED BY <3>2, <3>3
  <2> QED BY <1>13, <2>1, <2>2 DEF Counts
<1>26. FreeOK(g)
  <2>0. SlotNum \in Nat /\ used =< SlotNum
    <3>1. h.mgrs[m].used_slots \in 0..SlotNum
      BY <1>0, <1>1, HeapFacts
    <3> QED BY <1>6, <3>1, McacheAssumption
  <2>1. CASE m # First /\ used = SlotNum
    <3>1. FreePushed(h, g, m)
      BY <1>12, <2>1
    <3>2. First \in 1..Len(h.mgrs) /\ Len(g.mgrs) >= Len(h.mgrs)
      BY <1>0, <1>13, HeapFacts
    <3>3. /\ g.mgrs[First].next_free = m /\ g.mgrs[m].next_free = h.mgrs[First].next_free
          /\ \A i \in 1..Len(h.mgrs) : i # First /\ i # m =>
               g.mgrs[i].next_free = h.mgrs[i].next_free
      BY ONLY <1>1, <2>1, <3>1, <3>2 DEF FreePushed
    <3>4. ~(h.mgrs[m].used_slots < SlotNum) /\ g.mgrs[m].used_slots < SlotNum
      <4>1. ~(used < SlotNum) /\ used - 1 < SlotNum
        BY ONLY <2>0, <2>1, used \in Nat \ {0}
      <4> QED BY ONLY <1>6, <1>14, <4>1
    <3>5. m \notin Roomy(h) /\ Roomy(g) = Roomy(h) \cup {m}
      BY ONLY <1>1, <1>13, <1>14, <2>1, <3>4 DEF Roomy
    <3> QED BY <1>0, <1>1, <1>13, <2>1, <3>2, <3>3, <3>5, FreePush
  <2>2. CASE m = First \/ used # SlotNum
    <3>1. SameFree(h, g)
      BY <1>12, <2>2
    <3>2. ASSUME NEW i \in 1..Len(h.mgrs), i # First
          PROVE  g.mgrs[i].used_slots < SlotNum <=> h.mgrs[i].used_slots < SlotNum
      <4>1. CASE i # m
        BY <1>14, <4>1
      <4>2. CASE i = m
        <5>1. used < SlotNum /\ used - 1 < SlotNum
          BY <2>0, <2>2, <3>2, <4>2
        <5> QED BY <1>6, <1>14, <4>2, <5>1
      <4> QED BY <4>1, <4>2
    <3> QED BY <1>0, <1>13, <3>1, <3>2, FreeListSame
  <2> QED BY <2>1, <2>2
<1>27. ~st2 => PartialOK(g)
  <2> SUFFICES ASSUME ~st2 PROVE PartialOK(g)
    OBVIOUS
  <2>1. PartialOK(h) /\ (m = First \/ left # 0)
    <3>1. g.mgrs[m].partial_counts[c] = left
      BY <1>1, <1>12 DEF Recounted
    <3> QED BY <1>0, <3>1 DEF Staled
  <2>2. ASSUME Cells[c] > 1 PROVE PartialListOK(g, c)
    <3>1. PartialListOK(h, c)
      BY <1>1, <2>1, <2>2 DEF PartialOK
    <3>2. free # 0
      BY <1>3, <2>2
    <3>3. \A i \in 1..Len(h.mgrs) :
            g.mgrs[i].next_partial_free[c] = h.mgrs[i].next_partial_free[c]
      BY <1>1, <1>12, <3>2 DEF SamePartial
    <3>4. left = Cardinality(U \ {s}) /\ s \in U
      BY <1>9, <1>10, <3>2
    <3>5. ASSUME NEW i \in 1..Len(h.mgrs), i # First
          PROVE  Usable(g, i, c) = {} <=> Usable(h, i, c) = {}
      <4>1. CASE i # m
        BY <1>1, <1>22, <4>1 DEF UsableElsewhere
      <4>2. CASE i = m
        <5>1. Cardinality(Usable(g, m, c)) # 0
          BY <1>21, <2>1, <3>4, <3>5, <4>2
        <5>2. Usable(g, m, c) # {}
          BY <5>1, CardUsable
        <5> QED BY <1>8, <3>4, <4>2, <5>2
      <4> QED BY <4>1, <4>2
    <3> QED BY ONLY <1>0, <1>1, <1>13, <3>1, <3>3, <3>5, PartialListSame
  <2>3. \A i \in 1..Len(h.mgrs), d \in Classes : d # c =>
           g.mgrs[i].next_partial_free[d] = h.mgrs[i].next_partial_free[d]
    BY <1>12
  <2>4. HeapType(h) /\ Typed(h, g) /\ c \in Classes /\ PartialOK(h)
    BY <1>0, <1>1, <1>12, <2>1
  <2> QED BY ONLY <1>22, <2>2, <2>3, <2>4, PartialElsewhere
<1>28. Core(g, [x EXCEPT ![k] = x[k] - 1], st2)
  BY <1>13, <1>23, <1>24, <1>25, <1>26, <1>27 DEF Core
<1>29. SameElsewhere(h, g, m)
  BY <1>12, <1>14 DEF SameElsewhere, Recounted
<1> QED BY ONLY <1>2, <1>12, <1>15, <1>28, <1>29 DEF Dropped

-----------------------------------------------------------------------------
(* The invariant holds initially. *)
LEMMA HeapIs ==
  /\ Heap.mgrs = mgrs /\ Heap.caches = caches /\ Heap.cell = cell /\ Heap.at = None
  /\ DOMAIN Heap = {"mgrs", "caches", "cell", "at"}
BY DEF Heap

(* A list without managers *)
LEMMA ListEmpty ==
  ASSUME NEW next, next[First] = None
  PROVE  \E q : \E l \in Nat : IsList(q, l, next, {})
<1> DEFINE q == [i \in 0..(0 - 1) |-> None]
<1>1. \A i \in 0..(0 - 1) : FALSE
  OBVIOUS
<1>2. q \in [0..(0 - 1) -> {}]
  BY <1>1
<1> HIDE DEF q
<1>3. IsList(q, 0, next, {})
  BY <1>1, <1>2 DEF IsList
<1> QED BY <1>3

LEMMA InitMcache == Init => McacheInv
<1> SUFFICES ASSUME Init PROVE McacheInv
  OBVIOUS
<1>0. /\ mgrs = <<NewManager(None, None)>> /\ caches = [k \in CacheIds |-> NoCache]
      /\ cell = [m \in MgrIds |-> None] /\ live = [k \in CacheIds |-> 0]
      /\ status = "ok" /\ stale = FALSE
  BY DEF Init
<1>1. PICK h : h = Heap
  OBVIOUS
<1>2. PICK w : w = NewManager(None, None)
  OBVIOUS
<1>3. /\ w.caches = [s \in Slots |-> None] /\ w.next = None /\ w.prev = None
      /\ w.next_partial_free = [c \in Classes |-> None]
      /\ w.partial_counts = [c \in Classes |-> 0] /\ w.next_free = None /\ w.used_slots = 0
  BY <1>2 DEF NewManager
<1>4. w \in MgrType(1)
  <2>1. None \in 0..MaxCaches /\ None \in 0..MaxMgrs /\ None \in 0..1 /\ 0 \in 0..SlotNum
    BY McacheAssumption DEF None
  <2> QED BY <1>2, <2>1 DEF NewManager, MgrType
<1>5. /\ Len(h.mgrs) = 1 /\ h.mgrs[1] = w /\ DOMAIN h.mgrs = {1} /\ h.mgrs \in Seq(MgrType(1))
  <2>1. h.mgrs = <<w>>
    BY <1>0, <1>1, <1>2, HeapIs
  <2> QED BY <1>4, <2>1
<1>6. /\ h.caches = [k \in CacheIds |-> NoCache] /\ h.cell = [m \in MgrIds |-> None]
      /\ DOMAIN h = {"mgrs", "caches", "cell", "at"}
  BY <1>0, <1>1, HeapIs
<1>7. HeapType(h)
  <2>1. NoCache \in CacheType
    BY McacheAssumption DEF NoCache, CacheType, None
  <2>2. None \in 0..MaxCaches /\ 1 \in MgrIds
    BY McacheAssumption DEF None, MgrIds
  <2>3. h.caches \in [CacheIds -> CacheType] /\ h.cell \in [MgrIds -> 0..MaxCaches]
    BY <1>6, <2>1, <2>2
  <2>4. \A m \in DOMAIN h.mgrs : h.mgrs[m].prev = m - 1
    BY <1>3, <1>5 DEF None
  <2> QED BY <1>5, <1>6, <2>2, <2>3, <2>4 DEF HeapType
<1>8. Objects(h, live)
  <2>1. live \in [CacheIds -> Nat]
    BY <1>0
  <2>2. ASSUME NEW k \in CacheIds
        PROVE  /\ h.caches[k].used = live[k] + Cardinality(Holds(h, k))
               /\ h.caches[k].used = 0 /\ h.caches[k] = NoCache
    <3>1. k # None
      BY DEF CacheIds, None
    <3>2. Holds(h, k) = {}
      BY <1>6, <3>1 DEF Holds
    <3>3. Cardinality(Holds(h, k)) = 0
      BY <3>2, FS_EmptySet
    <3>4. h.caches[k] = NoCache /\ h.caches[k].used = 0 /\ live[k] = 0
      BY <1>0, <1>6 DEF NoCache
    <3> QED BY <3>3, <3>4
  <2> QED BY <2>1, <2>2 DEF Objects
<1>9. Homes(h)
  <2>1. \A m \in DOMAIN h.mgrs, s \in Slots : h.mgrs[m].caches[s] = None
    BY <1>3, <1>5
  <2>2. \A k \in CacheIds : h.caches[k].used = 0
    BY <1>6 DEF NoCache
  <2> QED BY <2>1, <2>2 DEF Homes
<1>10. \A c \in Classes : Usable(h, 1, c) = {}
  BY <1>3, <1>5 DEF Usable
<1>11. Counts(h)
  <2>1. Occupied(h, 1) = {}
    BY <1>3, <1>5 DEF Occupied
  <2>2. Cardinality({}) = 0
    BY FS_EmptySet
  <2>3. h.mgrs[1].used_slots = Cardinality(Occupied(h, 1))
    BY <1>3, <1>5, <2>1, <2>2
  <2>4. \A c \in Classes : h.mgrs[1].partial_counts[c] = Cardinality(Usable(h, 1, c))
    BY <1>3, <1>5, <1>10, <2>2
  <2> QED BY <1>5, <2>3, <2>4 DEF Counts
<1>12. FreeOK(h)
  <2>1. Roomy(h) = {} /\ FreeNext(h)[First] = None
    BY <1>3, <1>5 DEF Roomy, FreeNext, First
  <2> QED BY <2>1, ListEmpty DEF FreeOK
<1>13. PartialOK(h)
  <2>1. ASSUME NEW c \in Classes PROVE PartialListOK(h, c)
    <3>1. Partial(h, c) = {} /\ PartialNext(h, c)[First] = None
      BY <1>3, <1>5 DEF Partial, PartialNext, First
    <3> QED BY <3>1, ListEmpty DEF PartialListOK
  <2> QED BY <2>1 DEF PartialOK
<1>14. Chain(h)
  <2>1. \A m \in DOMAIN h.mgrs : h.mgrs[m].next = IF m = Len(h.mgrs) THEN None ELSE m + 1
    BY <1>3, <1>5
  <2>2. \A m \in MgrIds : m \notin 2..Len(h.mgrs) /\ h.cell[m] = None
    BY <1>5, <1>6
  <2>3. /\ h.mgrs[Len(h.mgrs)].used_slots = 0
        /\ \A c \in Classes : h.mgrs[Len(h.mgrs)].partial_counts[c] = 0
    BY <1>3, <1>5
  <2> QED BY <2>1, <2>2, <2>3 DEF Chain
<1>15. Core(Heap, live, stale) /\ Chain(Heap)
  BY <1>1, <1>7, <1>8, <1>9, <1>11, <1>12, <1>13, <1>14 DEF Core
<1> QED BY <1>0, <1>15 DEF McacheInv

-----------------------------------------------------------------------------
(* The invariant does not speak of the cache a call took its object from:   *)
(* a heap that a call returns keeps it when its caller has it.              *)
LEMMA Committed ==
  ASSUME NEW g, NEW x, NEW st, Core(g, x, st), Chain(g),
         mgrs' = g.mgrs, caches' = g.caches, cell' = g.cell
  PROVE  Core(Heap', x, st) /\ Chain(Heap')
<1>1. PICK H : H = Heap'
  OBVIOUS
<1>2. /\ H.mgrs = g.mgrs /\ H.caches = g.caches /\ H.cell = g.cell
      /\ DOMAIN H = {"mgrs", "caches", "cell", "at"}
  BY <1>1 DEF Heap
<1>3. HeapType(g)
  BY DEF Core
<1>4. Typed(g, H) /\ SameCells(g, H)
  BY <1>2, <1>3 DEF HeapType, Typed, SameCells
<1>5. SameSlots(g, H) /\ SameFree(g, H) /\ SameCounts(g, H) /\ SamePartial(g, H)
  BY <1>2 DEF SameSlots, SameFree, SameCounts, SamePartial
<1>6. Core(H, x, st)
  BY ONLY Core(g, x, st), <1>4, <1>5, CoreSame
<1>7. Chain(H)
  BY <1>2 DEF Chain
<1> QED BY <1>1, <1>6, <1>7

LEMMA AllocatedInv ==
  ASSUME McacheInv, NEW g, Allocated(g), Chain(g),
         Core(g, [live EXCEPT ![g.at] = live[g.at] + 1], stale)
  PROVE  McacheInv'
<1>1. /\ mgrs' = g.mgrs /\ caches' = g.caches /\ cell' = g.cell
      /\ live' = [live EXCEPT ![g.at] = live[g.at] + 1] /\ status' = status /\ stale' = stale
  BY DEF Allocated, Commit
<1>2. Core(Heap', live', stale') /\ Chain(Heap')
  BY <1>1, Committed
<1> QED BY <1>1, <1>2 DEF McacheInv

(* A cell from a partial cache of a manager that is not the last *)
LEMMA CacheAllocInv ==
  ASSUME NEW h, NEW x, NEW st, Core(h, x, st), Chain(h), NEW m \in 1..Len(h.mgrs),
         NEW c \in Classes, CanCacheAlloc(h, m, c),
         m = First \/ m = h.mgrs[First].next_partial_free[c],
         NEW g, g = cache_alloc(h, m, c)
  PROVE  Core(g, [x EXCEPT ![g.at] = x[g.at] + 1], st) /\ Chain(g)
<1>0. HeapType(h) /\ Objects(h, x)
  BY DEF Core
<1>1. /\ Core(g, [x EXCEPT ![g.at] = x[g.at] + 1], st)
      /\ Typed(h, g) /\ SameNext(h, g) /\ g.cell = h.cell /\ SameOwners(h, g)
      /\ SameElsewhere(h, g, m)
  BY CacheAllocCore
<1>2. m # Len(h.mgrs)
  BY DEF CanCacheAlloc, Chain
<1>3. \A i \in MgrIds : h.cell[i] # None =>
        g.caches[h.cell[i]].owner = h.caches[h.cell[i]].owner
  BY <1>0, <1>1, CellUsed DEF SameOwners
<1>4. Chain(g)
  BY <1>0, <1>1, <1>2, <1>3, ChainStep
<1> QED BY <1>1, <1>4

(* The head of a list *)
LEMMA ListHead ==
  ASSUME NEW l \in Nat, NEW q, NEW next, NEW S, IsList(q, l, next, S), None \notin S
  PROVE  /\ next[First] # None => next[First] \in S
         /\ S # {} => next[First] # None
<1>1. l # 0 => q[l - 1] \in S /\ next[First] = q[l - 1]
  <2>1. l # 0 => l - 1 \in 0..(l - 1)
    OBVIOUS
  <2> QED BY <2>1 DEF IsList
<1>2. l = 0 => next[First] = None /\ S = {}
  BY DEF IsList
<1> QED BY <1>1, <1>2

LEMMA FreeHead ==
  ASSUME NEW h, HeapType(h), FreeOK(h), NEW m, m = h.mgrs[First].next_free
  PROVE  /\ m # None => m \in Roomy(h)
         /\ Roomy(h) # {} => m # None
<1>1. /\ DOMAIN h.mgrs = 1..Len(h.mgrs) /\ First \in 1..Len(h.mgrs)
  BY HeapFacts
<1>2a. PICK q : \E l \in Nat : IsList(q, l, FreeNext(h), Roomy(h))
  BY DEF FreeOK
<1>2. PICK l \in Nat : IsList(q, l, FreeNext(h), Roomy(h))
  BY <1>2a
<1>3. None \notin Roomy(h) /\ FreeNext(h)[First] = m
  BY <1>1 DEF Roomy, FreeNext, None
<1> QED BY <1>2, <1>3, ListHead

LEMMA PartialHead ==
  ASSUME NEW h, HeapType(h), NEW c \in Classes, PartialListOK(h, c),
         NEW m, m = h.mgrs[First].next_partial_free[c], m # None
  PROVE  m \in 1..Len(h.mgrs) /\ Usable(h, m, c) # {}
<1>1. /\ DOMAIN h.mgrs = 1..Len(h.mgrs) /\ First \in 1..Len(h.mgrs)
  BY HeapFacts
<1>2a. PICK q : \E l \in Nat : IsList(q, l, PartialNext(h, c), Partial(h, c))
  BY DEF PartialListOK
<1>2. PICK l \in Nat : IsList(q, l, PartialNext(h, c), Partial(h, c))
  BY <1>2a
<1>3. None \notin Partial(h, c) /\ PartialNext(h, c)[First] = m
  BY <1>1 DEF Partial, PartialNext, None
<1>4. m \in Partial(h, c)
  BY <1>2, <1>3, ListHead
<1> QED BY <1>1, <1>4 DEF Partial

LEMMA UnusedFinite ==
  ASSUME NEW h
  PROVE  IsFiniteSet(Unused(h))
<1>1. IsFiniteSet(CacheIds)
  BY McacheAssumption, FS_Interval DEF CacheIds
<1> QED BY <1>1, FS_Subset DEF Unused

-----------------------------------------------------------------------------
(* Every step keeps the invariant. *)
LEMMA AllocCachedStep ==
  ASSUME McacheInv, NEW c \in Classes, alloc_cached(c)
  PROVE  McacheInv'
<1>1. PICK h : h = Heap
  OBVIOUS
<1>2. Core(h, live, stale) /\ Chain(h) /\ CanCacheAlloc(h, First, c)
  BY <1>1 DEF McacheInv, alloc_cached
<1>3. First \in 1..Len(h.mgrs)
  BY <1>2, HeapFacts DEF Core
<1>4. PICK g : g = cache_alloc(h, First, c) /\ Allocated(g)
  BY <1>1 DEF alloc_cached
<1>5. Core(g, [live EXCEPT ![g.at] = live[g.at] + 1], stale) /\ Chain(g)
  BY ONLY <1>2, <1>3, <1>4, c \in Classes, CacheAllocInv
<1> QED BY <1>4, <1>5, AllocatedInv

LEMMA AllocNewCacheStep ==
  ASSUME McacheInv, NEW c \in Classes, alloc_new_cache(c)
  PROVE  McacheInv'
<1>1. PICK h : h = Heap
  OBVIOUS
<1>2. Core(h, live, stale) /\ Chain(h) /\ ~is_slots_full(h, First) /\ InBounds(First)
  BY <1>1 DEF McacheInv, alloc_new_cache
<1>3. First \in 1..Len(h.mgrs) /\ h.mgrs[First].used_slots < SlotNum
  <2>1. First \in 1..Len(h.mgrs) /\ h.mgrs[First].used_slots \in 0..SlotNum
    BY <1>2, HeapFacts DEF Core
  <2> QED BY <1>2, <2>1, McacheAssumption DEF is_slots_full
<1>4. PICK g : g = new_cache_alloc(h, First, c) /\ Allocated(g)
  BY <1>1 DEF alloc_new_cache
<1>5. /\ IsFiniteSet(Unused(h)) /\ Cardinality(Unused(h)) >= 2
      /\ h.mgrs[First].next # None \/ Len(h.mgrs) < MaxMgrs
  BY <1>1, <1>2, UnusedFinite, HeapIs DEF InBounds
<1>6. Core(g, [live EXCEPT ![g.at] = live[g.at] + 1], stale) /\ Chain(g)
  BY ONLY <1>2, <1>3, <1>4, <1>5, c \in Classes, NewCacheAllocInv
<1> QED BY <1>4, <1>6, AllocatedInv

LEMMA AllocPartialStep ==
  ASSUME McacheInv, NEW c \in Classes, alloc_partial(c)
  PROVE  McacheInv'
<1>1. PICK h : h = Heap
  OBVIOUS
<1>2. Core(h, live, stale) /\ Chain(h)
  BY <1>1 DEF McacheInv
<1>3. HeapType(h) /\ Counts(h) /\ (~stale => PartialOK(h))
  BY <1>2 DEF Core
<1>4. PICK m : m = h.mgrs[First].next_partial_free[c]
  OBVIOUS
<1>5. /\ m # None
      /\ IF CanCacheAlloc(h, m, c) THEN Allocated(cache_alloc(h, m, c)) ELSE Stop("no_partial")
  BY <1>1, <1>4, HeapIs DEF alloc_partial
<1>6. m \in 1..Len(h.mgrs)
  <2>1. h.mgrs[First].next_partial_free \in [Classes -> 0..Len(h.mgrs)] /\ Len(h.mgrs) \in Nat
    BY <1>3, HeapFacts
  <2>2. m \in 0..Len(h.mgrs)
    BY <1>4, <2>1
  <2> QED BY <1>5, <2>1, <2>2 DEF None
<1>7. CASE CanCacheAlloc(h, m, c)
  <2>1. PICK g : g = cache_alloc(h, m, c) /\ Allocated(g)
    BY <1>5, <1>7
  <2>2. Core(g, [live EXCEPT ![g.at] = live[g.at] + 1], stale) /\ Chain(g)
    BY ONLY <1>2, <1>4, <1>6, <1>7, <2>1, c \in Classes, CacheAllocInv
  <2> QED BY <2>1, <2>2, AllocatedInv
<1>8. CASE ~CanCacheAlloc(h, m, c)
  <2>1. status' = "no_partial" /\ UNCHANGED <<mgrs, caches, cell, live, stale>>
    BY <1>5, <1>8 DEF Stop
  <2>2. ~(~stale /\ \A d \in Classes : Cells[d] > 1)
    <3> SUFFICES ASSUME ~stale, \A d \in Classes : Cells[d] > 1 PROVE FALSE
      OBVIOUS
    <3>1. Usable(h, m, c) # {}
      BY <1>3, <1>4, <1>5, PartialHead DEF PartialOK
    <3>2. h.mgrs[m].partial_counts[c] = Cardinality(Usable(h, m, c))
      BY <1>3, <1>6, HeapFacts DEF Counts
    <3>3. h.mgrs[m].partial_counts[c] # 0
      BY <3>1, <3>2, CardUsable
    <3> QED BY <1>8, <3>1, <3>3 DEF CanCacheAlloc
  <2>3. Heap' = Heap
    BY <2>1 DEF Heap
  <2> QED BY <2>1, <2>2, <2>3 DEF McacheInv
<1> QED BY <1>7, <1>8

LEMMA AllocFreeSlotStep ==
  ASSUME McacheInv, NEW c \in Classes, alloc_free_slot(c)
  PROVE  McacheInv'
<1>1. PICK h : h = Heap
  OBVIOUS
<1>2. Core(h, live, stale) /\ Chain(h)
  BY <1>1 DEF McacheInv
<1>3. HeapType(h) /\ FreeOK(h)
  BY <1>2 DEF Core
<1>4. PICK m : m = h.mgrs[First].next_free
  OBVIOUS
<1>5. /\ is_slots_full(h, First)
      /\ m # None => InBounds(m) /\ Allocated(new_cache_alloc(h, m, c))
  BY <1>1, <1>4, HeapIs DEF alloc_free_slot
<1>6. PICK n \in Nat : /\ n = Len(h.mgrs) /\ n >= 1 /\ DOMAIN h.mgrs = 1..n
                       /\ SlotNum \in Nat /\ SlotNum >= 3
  BY <1>3, HeapFacts, McacheAssumption
<1>7. n \in Roomy(h)
  <2>1. h.mgrs[n].used_slots = 0 /\ h.mgrs[First].used_slots = SlotNum
    BY <1>2, <1>5, <1>6 DEF Chain, is_slots_full
  <2>2. n # First /\ 0 < SlotNum /\ n \in 1..n
    BY <1>6, <2>1
  <2> QED BY <1>6, <2>1, <2>2 DEF Roomy
<1>8. m # None /\ m \in Roomy(h)
  BY <1>3, <1>4, <1>7, FreeHead
<1>9. m \in 1..Len(h.mgrs) /\ h.mgrs[m].used_slots < SlotNum
  BY <1>6, <1>8 DEF Roomy
<1>10. PICK g : g = new_cache_alloc(h, m, c) /\ Allocated(g)
  BY <1>5, <1>8
<1>11. /\ IsFiniteSet(Unused(h)) /\ Cardinality(Unused(h)) >= 2
       /\ h.mgrs[m].next # None \/ Len(h.mgrs) < MaxMgrs
  BY <1>1, <1>5, <1>8, UnusedFinite, HeapIs DEF InBounds
<1>12. Core(g, [live EXCEPT ![g.at] = live[g.at] + 1], stale) /\ Chain(g)
  BY ONLY <1>2, <1>4, <1>9, <1>10, <1>11, c \in Classes, NewCacheAllocInv
<1> QED BY <1>10, <1>12, AllocatedInv

(* A manager that still has an object outside cache k, its successor, has   *)
(* a cache left when k goes.                                               *)
LEMMA SuccessorStays ==
  ASSUME NEW h, NEW x, HeapType(h), Objects(h, x), Chain(h), NEW k \in CacheIds,
         Holds(h, k) = {}, NEW m \in 1..Len(h.mgrs), m # Len(h.mgrs),
         NEW g, HeapType(g), Len(g.mgrs) = Len(h.mgrs), Homes(g), Counts(g),
         \A j \in CacheIds : j # k => g.caches[j] = h.caches[j]
  PROVE  g.mgrs[m].used_slots # 0
<1>1. PICK n \in Nat : n = Len(h.mgrs) /\ n =< MaxMgrs /\ DOMAIN g.mgrs = 1..n
  BY HeapFacts
<1>2. m + 1 \in 2..n /\ m + 1 \in MgrIds /\ (m + 1) - 1 = m
  BY <1>1, McacheAssumption DEF MgrIds
<1>3. PICK j : j = h.cell[m + 1]
  OBVIOUS
<1>4. j # None /\ h.caches[j].owner = m
  BY <1>1, <1>2, <1>3 DEF Chain
<1>5. j \in CacheIds /\ h.caches[j].used # 0 /\ Holds(h, j) # {}
  BY <1>2, <1>3, <1>4, CellUsed
<1>6. g.caches[j] = h.caches[j]
  BY <1>5
<1>7. PICK t \in Slots : g.mgrs[m].caches[t] = j
  BY <1>4, <1>5, <1>6 DEF Homes
<1>8. Occupied(g, m) # {} /\ Occupied(g, m) \in SUBSET Slots
  BY <1>4, <1>7 DEF Occupied
<1>9. Cardinality(Occupied(g, m)) # 0
  BY <1>8, SlotsFinite, FS_EmptySet
<1> QED BY <1>1, <1>9 DEF Counts

(* A manager with a cache is not the last one. *)
LEMMA NotLast ==
  ASSUME NEW h, HeapType(h), Counts(h), Chain(h), NEW m \in 1..Len(h.mgrs),
         NEW s \in Slots, h.mgrs[m].caches[s] # None
  PROVE  m # Len(h.mgrs)
<1>1. Occupied(h, m) # {} /\ Occupied(h, m) \in SUBSET Slots
  BY DEF Occupied
<1>2. Cardinality(Occupied(h, m)) # 0
  BY <1>1, SlotsFinite, FS_EmptySet
<1>3. h.mgrs[m].used_slots # 0
  BY <1>2, HeapFacts DEF Counts
<1> QED BY <1>3 DEF Chain

LEMMA MinOne ==
  ASSUME NEW s \in Slots
  PROVE  Min({s}) = s
<1>1. {s} \subseteq Nat /\ {s} # {}
  BY McacheAssumption DEF Slots
<1>2. Min({s}) \in {s}
  BY ONLY <1>1, MinIs
<1> QED BY <1>2

(* What dealloc does once it has found the slot: f is the heap with the      *)
(* object put back, g the one without its cache.                            *)
DeallocEnds(f, g, m, k, c) ==
    IF ~Emptied(f, k) THEN Commit(f) /\ UNCHANGED <<status, stale>>
    ELSE /\ Commit(g)
         /\ stale' = \/ stale
                     \/ /\ ~is_global_allocator(g, m)
                        /\ g.mgrs[m].partial_counts[c] = 0
         /\ status' = IF g.mgrs[m].used_slots = 0 /\ ~is_global_allocator(g, m)
                      THEN "mgr_freed" ELSE status

LEMMA DeallocStep ==
  ASSUME McacheInv, NEW k \in CacheIds, dealloc(k)
  PROVE  McacheInv'
<1>1. PICK h : h = Heap
  OBVIOUS
<1>2. Core(h, live, stale) /\ Chain(h) /\ stale \in BOOLEAN
  BY <1>1 DEF McacheInv
<1>3. HeapType(h) /\ Objects(h, live) /\ Homes(h) /\ Counts(h)
  BY <1>2 DEF Core
<1>4. live[k] > 0 /\ live' = [live EXCEPT ![k] = live[k] - 1]
  BY DEF dealloc
<1>5. h.caches[k].used # 0
  <2>1. PICK a \in Nat : a = Cardinality(Holds(h, k))
    BY HoldsNat
  <2>2. h.caches[k].used = live[k] + a /\ live[k] \in Nat
    BY <1>3, <2>1 DEF Objects
  <2>3. live[k] + a # 0
    BY <1>4, <2>2
  <2> QED BY <2>2, <2>3
<1>6. PICK m, c, b : m = h.caches[k].owner /\ c = h.caches[k].class /\ b = h.caches[k].used
  OBVIOUS
<1>7. m \in 1..Len(h.mgrs) /\ c \in Classes /\ b \in Nat \ {0}
  BY <1>3, <1>5, <1>6, OwnerFacts
<1>8. PICK s \in Slots : SlotOf(h, m, s, k, c) /\ {t \in Slots : h.mgrs[m].caches[t] = k} = {s}
  BY <1>3, <1>5, <1>6, OwnerFacts
<1>9. PICK f : f = free_obj(h, m, k)
  OBVIOUS
<1>10. PICK g : g = DropCache(f, m, s)
  OBVIOUS
<1>11. IF f.caches[k].used # 0
       THEN /\ mgrs' = f.mgrs /\ caches' = f.caches /\ cell' = f.cell
            /\ status' = status /\ stale' = stale
       ELSE /\ mgrs' = g.mgrs /\ caches' = g.caches /\ cell' = g.cell
            /\ stale' = (stale \/ /\ ~is_global_allocator(g, m)
                                  /\ g.mgrs[m].partial_counts[c] = 0)
            /\ status' = IF g.mgrs[m].used_slots = 0 /\ ~is_global_allocator(g, m)
                         THEN "mgr_freed" ELSE status
  <2>1. m = caches[k].owner /\ c = caches[k].class /\ h.mgrs = mgrs
    BY <1>1, <1>6, HeapIs
  <2>2. PICK at : at = {t \in Slots : mgrs[m].caches[t] = k} /\ at = {s} /\ Min(at) = s
    BY <1>8, <2>1, MinOne
  <2>3. f = free_obj(Heap, m, k) /\ g = DropCache(f, m, Min(at)) /\ at # {}
    BY <1>1, <1>9, <1>10, <2>2
  <2>4. DeallocEnds(f, g, m, k, c)
    <3>1. LET o == caches[k].owner
              a == {t \in Slots : mgrs[o].caches[t] = k}
          IN  a # {} => DeallocEnds(free_obj(Heap, o, k),
                                    DropCache(free_obj(Heap, o, k), o, Min(a)),
                                    o, k, caches[k].class)
      BY DEF dealloc, DeallocEnds
    <3>2. LET a == {t \in Slots : mgrs[m].caches[t] = k}
          IN  a # {} => DeallocEnds(free_obj(Heap, m, k),
                                    DropCache(free_obj(Heap, m, k), m, Min(a)), m, k, c)
      BY ONLY <2>1, <3>1
    <3>3. DeallocEnds(free_obj(Heap, m, k), DropCache(free_obj(Heap, m, k), m, Min(at)), m, k, c)
      BY ONLY <2>2, <2>3, <3>2
    <3> QED BY ONLY <2>3, <3>3
  <2> QED BY ONLY <2>4 DEF DeallocEnds, Emptied, Commit
<1>12. f.caches[k].used = b - 1
  <2>1. PICK count \in Nat : count = h.mgrs[m].partial_counts[c]
    <3>1. h.mgrs[m].partial_counts \in [Classes -> Nat]
      BY <1>3, <1>7, HeapFacts
    <3> QED BY <1>7, <3>1
  <2>2. Moved(h, f, k, h.caches[k].free + 1, h.caches[k].used - 1)
    BY <1>3, <1>5, <1>6, <1>7, <1>9, <2>1, FreeObjFields
  <2> QED BY <1>6, <2>2 DEF Moved
<1>13. m # Len(h.mgrs) /\ k # None /\ h.mgrs[m].caches[s] = k
  <2>1. k # None /\ h.mgrs[m].caches[s] = k
    BY <1>8 DEF SlotOf, CacheIds, None
  <2> QED BY <1>2, <1>3, <1>7, <2>1, NotLast
<1>14. status \in {"ok", "no_partial"} /\ status = "ok"
  BY DEF McacheInv, dealloc
<1>15. CASE b # 1
  <2>1. f.caches[k].used # 0
    BY <1>7, <1>12, <1>15
  <2>2. /\ mgrs' = f.mgrs /\ caches' = f.caches /\ cell' = f.cell
        /\ status' = status /\ stale' = stale
    BY <1>11, <2>1
  <2>3. /\ Core(f, [live EXCEPT ![k] = live[k] - 1], stale)
        /\ Typed(h, f) /\ SameNext(h, f) /\ f.cell = h.cell /\ SameOwners(h, f)
        /\ SameElsewhere(h, f, m)
    <3>1. PICK x : x = live
      OBVIOUS
    <3>2. Core(h, x, stale) /\ x[k] > 0 /\ h.caches[k].used # 1
      BY <1>2, <1>4, <1>6, <1>15, <3>1
    <3>3. /\ Core(f, [x EXCEPT ![k] = x[k] - 1], stale)
          /\ Typed(h, f) /\ SameNext(h, f) /\ f.cell = h.cell /\ SameOwners(h, f)
          /\ SameElsewhere(h, f, m)
      BY ONLY <1>6, <1>9, <3>2, k \in CacheIds, FreeObjCore
    <3> QED BY ONLY <3>1, <3>3
  <2>4. \A i \in MgrIds : h.cell[i] # None =>
          f.caches[h.cell[i]].owner = h.caches[h.cell[i]].owner
    BY ONLY <1>3, <2>3, CellUsed DEF SameOwners
  <2>5. Chain(f)
    BY ONLY <1>2, <1>3, <1>7, <1>13, <2>3, <2>4, ChainStep
  <2>6. Core(Heap', live', stale') /\ Chain(Heap')
    BY <1>4, <2>2, <2>3, <2>5, Committed
  <2> QED BY <1>2, <1>14, <2>2, <2>6 DEF McacheInv
<1>16. CASE b = 1
  <2>1. f.caches[k].used = 0
    BY <1>12, <1>16
  <2>2. /\ mgrs' = g.mgrs /\ caches' = g.caches /\ cell' = g.cell
        /\ stale' = (stale \/ /\ ~is_global_allocator(g, m)
                              /\ g.mgrs[m].partial_counts[c] = 0)
        /\ status' = IF g.mgrs[m].used_slots = 0 /\ ~is_global_allocator(g, m)
                     THEN "mgr_freed" ELSE status
    BY ONLY <1>11, <2>1
  <2>3. h.caches[k].used = 1 /\ g = DropCache(free_obj(h, m, k), m, s) /\ SlotOf(h, m, s, k, c)
    BY <1>6, <1>8, <1>9, <1>10, <1>16
  <2>4. /\ Core(g, [live EXCEPT ![k] = live[k] - 1], TRUE)
        /\ Typed(h, g) /\ SameNext(h, g) /\ g.cell = h.cell /\ Holds(h, k) = {}
        /\ \A j \in CacheIds : j # k => g.caches[j] = h.caches[j]
        /\ SameElsewhere(h, g, m)
    <3>1. PICK x, st : x = live /\ st = TRUE
      OBVIOUS
    <3>2. Core(h, x, stale) /\ x[k] > 0 /\ m = h.caches[k].owner
      BY <1>2, <1>4, <1>6, <3>1
    <3>3. Staled(g, m, c, stale, st)
      BY <3>1 DEF Staled
    <3>4. Core(g, [x EXCEPT ![k] = x[k] - 1], st) /\ Dropped(h, g, m, k)
      BY ONLY <2>3, <3>2, <3>3, k \in CacheIds, s \in Slots, DropCore
    <3> QED BY ONLY <3>1, <3>4 DEF Dropped
  <2>5. HeapType(g) /\ Len(g.mgrs) = Len(h.mgrs) /\ Homes(g) /\ Counts(g)
    BY ONLY <2>4 DEF Typed, Core
  <2>6. is_global_allocator(g, m) <=> m = First
    BY <1>7, <2>5, GlobalIsFirst
  <2>7. stale' \in BOOLEAN /\ (~stale' => ~stale /\ (m = First \/ g.mgrs[m].partial_counts[c] # 0))
    BY ONLY <1>2, <2>2, <2>6
  <2>8. Core(g, [live EXCEPT ![k] = live[k] - 1], stale')
    <3>1. PICK st : st = stale' /\ st \in BOOLEAN
      BY <2>7
    <3>2. Staled(g, m, c, stale, st)
      BY ONLY <2>7, <3>1 DEF Staled
    <3>3. PICK x : x = live
      OBVIOUS
    <3>4. Core(h, x, stale) /\ x[k] > 0 /\ m = h.caches[k].owner
      BY <1>2, <1>4, <1>6, <3>3
    <3>5. Core(g, [x EXCEPT ![k] = x[k] - 1], st)
      BY ONLY <2>3, <3>1, <3>2, <3>4, k \in CacheIds, s \in Slots, DropCore
    <3> QED BY ONLY <3>1, <3>3, <3>5
  <2>9. \A i \in MgrIds : h.cell[i] # None =>
          g.caches[h.cell[i]].owner = h.caches[h.cell[i]].owner
    <3> SUFFICES ASSUME NEW i \in MgrIds, h.cell[i] # None
                 PROVE  g.caches[h.cell[i]] = h.caches[h.cell[i]]
      OBVIOUS
    <3>1. h.cell[i] \in CacheIds /\ h.cell[i] # k
      BY <1>3, <2>4, CellUsed
    <3> QED BY <2>4, <3>1
  <2>10. Chain(g)
    BY ONLY <1>2, <1>3, <1>7, <1>13, <2>4, <2>9, ChainStep
  <2>11. g.mgrs[m].used_slots # 0
    BY ONLY <1>2, <1>3, <1>7, <1>13, <2>4, <2>5, k \in CacheIds, SuccessorStays
  <2>12. status' = status
    BY ONLY <2>2, <2>11
  <2>13. Core(Heap', live', stale') /\ Chain(Heap')
    BY ONLY <1>4, <2>2, <2>8, <2>10, Committed
  <2> QED BY <1>14, <2>7, <2>12, <2>13 DEF McacheInv
<1> QED BY <1>15, <1>16

LEMMA McacheStep == McacheInv /\ [Next]_vars => McacheInv'
<1> SUFFICES ASSUME McacheInv, [Next]_vars PROVE McacheInv'
  OBVIOUS
<1>1. ASSUME NEW c \in Classes, alloc_cached(c) PROVE McacheInv'
  BY <1>1, AllocCachedStep
<1>2. ASSUME NEW c \in Classes, alloc_new_cache(c) PROVE McacheInv'
  BY <1>2, AllocNewCacheStep
<1>3. ASSUME NEW c \in Classes, alloc_partial(c) PROVE McacheInv'
  BY <1>3, AllocPartialStep
<1>4. ASSUME NEW c \in Classes, alloc_free_slot(c) PROVE McacheInv'
  BY <1>4, AllocFreeSlotStep
<1>5. ASSUME NEW k \in CacheIds, dealloc(k) PROVE McacheInv'
  BY <1>5, DeallocStep
<1>6. CASE UNCHANGED vars
  <2>1. UNCHANGED <<mgrs, caches, cell, live, status, stale>>
    BY <1>6 DEF vars
  <2>2. Heap' = Heap
    BY <2>1 DEF Heap
  <2> QED BY <2>1, <2>2 DEF McacheInv
<1> QED BY <1>1, <1>2, <1>3, <1>4, <1>5, <1>6 DEF Next

-----------------------------------------------------------------------------
(* McacheInvariant: McacheInv is inductive.  It gives every cache in use    *)
(* one slot of its owner, every counter its meaning, and each list the      *)
(* managers it is to hold, without repetition, after every alloc (with the  *)
(* one nested in try_init_next) and dealloc.                                *)
THEOREM McacheInvariant == Spec => []McacheInv
<1>1. Init => McacheInv
  BY InitMcache
<1>2. McacheInv /\ [Next]_vars => McacheInv'
  BY McacheStep
<1> QED BY <1>1, <1>2, PTL DEF Spec

LEMMA HomedNow == McacheInv => ObjectsHomed
<1> SUFFICES ASSUME McacheInv, NEW k \in CacheIds
             PROVE  LET objects == live[k] + Cardinality({m \in MgrIds : cell[m] = k})
                    IN  /\ caches[k].used = objects
                        /\ objects > 0 => \E s \in Slots : Home(k) = {<<caches[k].owner, s>>}
                        /\ objects = 0 => caches[k] = NoCache /\ Home(k) = {}
  BY DEF ObjectsHomed
<1>1. PICK h : h = Heap
  OBVIOUS
<1>2. HeapType(h) /\ Objects(h, live) /\ Homes(h)
  BY <1>1 DEF McacheInv, Core
<1>3. h.mgrs = mgrs /\ h.caches = caches /\ h.cell = cell
  BY <1>1, HeapIs
<1>4. DOMAIN mgrs = 1..Len(h.mgrs) /\ k # None
  BY <1>2, <1>3, HeapFacts DEF CacheIds, None
<1>5. PICK objects : objects = live[k] + Cardinality({m \in MgrIds : cell[m] = k})
  OBVIOUS
<1>6. h.caches[k].used = objects /\ objects \in Nat
  <2>1. Holds(h, k) = {m \in MgrIds : cell[m] = k}
    BY <1>3 DEF Holds
  <2>2. h.caches[k].used = live[k] + Cardinality(Holds(h, k))
    BY <1>2 DEF Objects
  <2>3. h.caches[k].used \in Nat
    BY <1>2, HeapFacts DEF CacheType
  <2> QED BY <1>5, <2>1, <2>2, <2>3
<1>7. \A m \in MgrSet, s \in Slots : mgrs[m].caches[s] = k =>
        m = h.caches[k].owner /\ h.caches[k].used # 0
  BY <1>2, <1>3, <1>4 DEF MgrSet, Homes
<1>8. objects > 0 => \E s \in Slots : Home(k) = {<<caches[k].owner, s>>}
  <2> SUFFICES ASSUME objects > 0 PROVE \E s \in Slots : Home(k) = {<<caches[k].owner, s>>}
    OBVIOUS
  <2>1. h.caches[k].used # 0
    BY <1>6
  <2>2. PICK o : o = h.caches[k].owner /\ o \in 1..Len(h.mgrs)
    BY <1>2, <2>1, OwnerFacts
  <2>3. PICK s \in Slots : {t \in Slots : h.mgrs[o].caches[t] = k} = {s}
    BY <1>2, <2>1, <2>2, OwnerFacts
  <2>4. o \in MgrSet /\ o = caches[k].owner
    BY <1>3, <1>4, <2>2 DEF MgrSet
  <2>5. \A t \in Slots : mgrs[o].caches[t] = k <=> t = s
    BY <1>3, <2>3
  <2>6. ASSUME NEW ms \in MgrSet \X Slots
        PROVE  mgrs[ms[1]].caches[ms[2]] = k <=> ms = <<o, s>>
    <3>1. PICK a \in MgrSet, t \in Slots : ms = <<a, t>>
      OBVIOUS
    <3>2. mgrs[a].caches[t] = k => a = o
      BY <1>7, <2>2
    <3>3. mgrs[a].caches[t] = k <=> a = o /\ t = s
      BY <2>5, <3>2
    <3> QED BY <3>1, <3>3
  <2>7. <<o, s>> \in MgrSet \X Slots
    BY <2>4
  <2>8. Home(k) = {<<o, s>>}
    BY <2>6, <2>7 DEF Home
  <2> QED BY <2>4, <2>8
<1>9. objects = 0 => caches[k] = NoCache /\ Home(k) = {}
  <2> SUFFICES ASSUME objects = 0 PROVE caches[k] = NoCache /\ Home(k) = {}
    OBVIOUS
  <2>1. h.caches[k].used = 0
    BY <1>6
  <2>2. caches[k] = NoCache
    BY <1>2, <1>3, <2>1 DEF Objects
  <2>3. \A ms \in MgrSet \X Slots : mgrs[ms[1]].caches[ms[2]] # k
    BY <1>7, <2>1
  <2> QED BY <2>2, <2>3 DEF Home
<1> QED BY <1>3, <1>5, <1>6, <1>8, <1>9

(* ObjectsCorrect: dealloc finds the cache of every live object, in one slot *)
(* of the manager its header names, and used_count is the number of live     *)
(* objects, so pages go back with the last object of a cache and not before: *)
(* for any number of classes, slots, managers and caches.                    *)
THEOREM ObjectsCorrect == Spec => []ObjectsHomed
BY McacheInvariant, HomedNow, PTL

LEMMA TypesNow == McacheInv => TypeOK
<1> SUFFICES ASSUME McacheInv PROVE TypeOK
  OBVIOUS
<1>1. PICK h : h = Heap
  OBVIOUS
<1>2. HeapType(h) /\ Objects(h, live) /\ Homes(h)
  BY <1>1 DEF McacheInv, Core
<1>3. h.mgrs = mgrs /\ h.caches = caches /\ h.cell = cell
  BY <1>1, HeapIs
<1>4. PICK n \in Nat : n = Len(h.mgrs) /\ n =< MaxMgrs /\ DOMAIN mgrs = 1..n
  BY <1>2, <1>3, HeapFacts
<1>5. /\ \A i \in 0..n : i \in MgrIds \cup {None}
      /\ \A i \in 0..MaxMgrs : i \in MgrIds \cup {None}
      /\ 0..MaxCaches = CacheIds \cup {None}
  BY <1>4, McacheAssumption DEF MgrIds, CacheIds, None
<1>6. ASSUME NEW m \in MgrSet
      PROVE  /\ mgrs[m].caches \in [Slots -> CacheIds \cup {None}]
             /\ {mgrs[m].next, mgrs[m].prev, mgrs[m].next_free} \subseteq MgrIds \cup {None}
             /\ mgrs[m].next_partial_free \in [Classes -> MgrIds \cup {None}]
             /\ mgrs[m].partial_counts \in [Classes -> Nat]
             /\ mgrs[m].used_slots \in 0..SlotNum
  <2>1. mgrs[m] \in MgrType(n)
    BY <1>2, <1>3, <1>4, HeapFacts DEF MgrSet
  <2>2. /\ mgrs[m].caches \in [Slots -> 0..MaxCaches] /\ mgrs[m].next \in 0..MaxMgrs
        /\ mgrs[m].prev \in 0..n /\ mgrs[m].next_free \in 0..n
        /\ mgrs[m].next_partial_free \in [Classes -> 0..n]
        /\ mgrs[m].partial_counts \in [Classes -> Nat] /\ mgrs[m].used_slots \in 0..SlotNum
    BY <2>1 DEF MgrType
  <2>3. mgrs[m].next_partial_free \in [Classes -> MgrIds \cup {None}]
    BY <1>5, <2>2
  <2> QED BY <1>5, <2>2, <2>3
<1>7. ASSUME NEW k \in CacheIds
      PROVE  /\ caches[k].class \in Classes /\ caches[k].owner \in MgrSet \cup {None}
             /\ caches[k].free \in 0..Cells[caches[k].class]
             /\ caches[k].used \in 0..Cells[caches[k].class]
  <2>1. PICK p \in CacheType : p = h.caches[k] /\ p = caches[k]
    BY <1>2, <1>3, HeapFacts
  <2>2. PICK N \in Nat : N = Cells[p.class]
    BY McacheAssumption DEF CacheType
  <2>3. p.class \in Classes /\ p.free \in Nat /\ p.used \in Nat
    BY DEF CacheType
  <2>4. CASE p.used = 0
    <3>1. p = NoCache
      BY <1>2, <2>1, <2>4 DEF Objects
    <3>2. p.owner = None /\ p.free = 0
      BY <3>1 DEF NoCache
    <3> QED BY <2>1, <2>2, <2>3, <2>4, <3>2
  <2>5. CASE p.used # 0
    <3>1. p.free + p.used = N
      BY <1>2, <2>1, <2>2, <2>5 DEF Objects
    <3>2. p.owner \in MgrSet
      BY <1>2, <1>3, <2>1, <2>5 DEF Homes, MgrSet
    <3>3. p.free \in 0..N /\ p.used \in 0..N
      BY <2>3, <3>1
    <3> QED BY <2>1, <2>2, <2>3, <3>2, <3>3
  <2> QED BY <2>4, <2>5
<1>8. /\ cell \in [MgrIds -> CacheIds \cup {None}] /\ live \in [CacheIds -> Nat]
      /\ status \in {"ok", "no_partial", "no_slot", "mgr_freed"} /\ stale \in BOOLEAN
  <2>1. cell \in [MgrIds -> 0..MaxCaches] /\ live \in [CacheIds -> Nat]
    BY <1>2, <1>3 DEF HeapType, Objects
  <2>2. status \in {"ok", "no_partial"} /\ stale \in BOOLEAN
    BY DEF McacheInv
  <2> QED BY <1>5, <2>1, <2>2
<1> QED BY <1>6, <1>7, <1>8 DEF TypeOK

LEMMA ListsNow == McacheInv => PartialCounts /\ FreeSlotsListed /\ PartialLists
<1> SUFFICES ASSUME McacheInv PROVE PartialCounts /\ FreeSlotsListed /\ PartialLists
  OBVIOUS
<1>1. PICK h : h = Heap
  OBVIOUS
<1>2. HeapType(h) /\ Counts(h) /\ FreeOK(h) /\ (~stale => PartialOK(h))
  BY <1>1 DEF McacheInv, Core
<1>3. h.mgrs = mgrs
  BY <1>1, HeapIs
<1>4. PICK n \in Nat : n =< MaxMgrs /\ DOMAIN mgrs = 1..n
  BY <1>2, <1>3, HeapFacts
<1>5. MgrSet \ {First} \subseteq MgrIds \ {First}
  BY <1>4, McacheAssumption DEF MgrSet, MgrIds
<1>6. PartialCounts
  BY <1>1, <1>2, <1>3 DEF PartialCounts, Counts, MgrSet
<1>7. FreeSlotsListed
  <2>1. PICK next, S : next = FreeNext(h) /\ S = Roomy(h)
    OBVIOUS
  <2>2a. PICK q : \E l \in Nat : IsList(q, l, next, S)
    BY <1>2, <2>1 DEF FreeOK
  <2>2. PICK l \in Nat : IsList(q, l, next, S)
    BY <2>2a
  <2>3. S = {m \in MgrSet \ {First} : mgrs[m].used_slots < SlotNum}
    BY <1>3, <2>1 DEF Roomy, MgrSet
  <2>4. S \subseteq MgrIds \ {First}
    BY <1>5, <2>3
  <2>5. /\ Listed(next) = S
        /\ \A a, b \in S \cup {First} : a # b /\ next[a] # None => next[a] # next[b]
    BY ONLY <2>2, <2>4, l \in Nat, ListHolds
  <2>6. next = [m \in MgrSet |-> mgrs[m].next_free]
    BY <1>3, <2>1 DEF FreeNext, MgrSet
  <2>7. FreeList = S
    BY <2>5, <2>6 DEF FreeList
  <2>8. \A a \in S \cup {First} : next[a] = mgrs[a].next_free
    <3>1. First \in MgrSet
      BY <1>2, <1>3, HeapFacts DEF MgrSet
    <3> QED BY <2>3, <2>6, <3>1
  <2> QED BY <2>3, <2>5, <2>7, <2>8 DEF FreeSlotsListed
<1>8. PartialLists
  <2> SUFFICES ASSUME ~stale
               PROVE  /\ \A c \in Classes : Cells[c] > 1 =>
                           PartialList(c) = {m \in MgrSet \ {First} : Usable(Heap, m, c) # {}}
                      /\ (\A c \in Classes : Cells[c] > 1) => status # "no_partial"
    BY DEF PartialLists
  <2>1. ASSUME NEW c \in Classes, Cells[c] > 1
        PROVE  PartialList(c) = {m \in MgrSet \ {First} : Usable(Heap, m, c) # {}}
    <3>1. PICK next, S : next = PartialNext(h, c) /\ S = Partial(h, c)
      OBVIOUS
    <3>2a. PICK q : \E l \in Nat : IsList(q, l, next, S)
      BY <1>2, <2>1, <3>1 DEF PartialOK, PartialListOK
    <3>2. PICK l \in Nat : IsList(q, l, next, S)
      BY <3>2a
    <3>3. S = {m \in MgrSet \ {First} : Usable(h, m, c) # {}}
      BY <1>3, <3>1 DEF Partial, MgrSet
    <3>4. S \subseteq MgrIds \ {First}
      BY <1>5, <3>3
    <3>5. Listed(next) = S
      BY ONLY <3>2, <3>4, l \in Nat, ListHolds
    <3>6. next = [m \in MgrSet |-> mgrs[m].next_partial_free[c]]
      BY <1>3, <3>1 DEF PartialNext, MgrSet
    <3> QED BY <1>1, <3>3, <3>5, <3>6 DEF PartialList
  <2>2. (\A c \in Classes : Cells[c] > 1) => status # "no_partial"
    BY DEF McacheInv
  <2> QED BY <2>1, <2>2
<1> QED BY <1>6, <1>7, <1>8

(* ListsCorrect: what the managers say twice agrees after every call: the    *)
(* counters and both lists with the caches in the slots, so alloc passes     *)
(* over no free slot and, until a listed manager loses its last partial      *)
(* cache by dealloc, no free cell.                                           *)
THEOREM ListsCorrect == Spec => []ListsAgree
<1>1. McacheInv => ListsAgree
  BY TypesNow, ListsNow DEF ListsAgree
<1> QED BY <1>1, McacheInvariant, PTL

(* ChainCorrect: the unwrap() of next_free in alloc never fails, and dealloc *)
(* never frees a manager: every manager but the last has its successor in a  *)
(* cache of its own.                                                         *)
THEOREM ChainCorrect == Spec => []ChainServes
<1>1. McacheInv => ChainServes
  BY DEF McacheInv, ChainServes, SlotAvailable, KeepsManagers
<1> QED BY <1>1, McacheInvariant, PTL
=============================================================================
