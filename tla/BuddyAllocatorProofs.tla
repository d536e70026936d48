------------------------ MODULE BuddyAllocatorProofs ------------------------
(***************************************************************************)
(* Proofs about BuddyAllocator for every size of the lists, of the pools   *)
(* and of the zones: its types, the tiling of the zones by the free and    *)
(* the owned blocks, that it implements PageAllocator, that its counters   *)
(* agree with the free lists and that no room is lost.                     *)
(***************************************************************************)
EXTENDS BuddyAllocator, FiniteSetTheorems, WellFoundedInduction, TLAPS

USE DEF Pows

-----------------------------------------------------------------------------
(* Sets of naturals have a least element. *)
LEMMA LeastNat ==
  ASSUME NEW T, T \subseteq Nat, T # {}
  PROVE  \E x \in T : \A y \in T : x =< y
<1> DEFINE R == {ss \in Nat \X Nat : ss[1] < ss[2]}
<1>1. IsWellFoundedOn(R, Nat)
  BY NatLessThanWellFounded, Zenon DEF OpToRel
<1> HIDE DEF R
<1>2. PICK x \in T : \A y \in T : ~(<<y, x>> \in R)
  BY <1>1, WFMin, Zenon
<1>3. ASSUME NEW y \in T PROVE x =< y
  <2>1. y \in Nat /\ x \in Nat
    OBVIOUS
  <2>2. y < x => <<y, x>> \in R
    BY <2>1 DEF R
  <2> QED BY <2>1, <2>2, <1>2
<1> QED BY <1>3

(* Min of FiniteSetsExt is that element. *)
LEMMA MinNat ==
  ASSUME NEW T, T \subseteq Nat, T # {}
  PROVE  Min(T) \in T /\ \A y \in T : Min(T) =< y
BY LeastNat DEF Min

(* Shl grows with the power. *)
LEMMA ShlPositive == \A p \in 0..MaxPow : Shl[p] \in Nat /\ Shl[p] >= 1
<1> DEFINE Bad == {p \in 0..MaxPow : ~(Shl[p] >= 1)}
<1> SUFFICES ASSUME Bad # {} PROVE FALSE
  BY ShlAssumption
<1>0. Bad \subseteq Nat
  BY ShlAssumption
<1>1. PICK m \in Bad : \A y \in Bad : m =< y
  <2> HIDE DEF Bad
  <2> QED BY <1>0, LeastNat
<1>2. m # 0
  BY ShlAssumption
<1>3. m - 1 \in Pows /\ m - 1 \notin Bad /\ m = (m - 1) + 1
  BY <1>1, <1>2, ShlAssumption
<1>4. Shl[m] = 2 * Shl[m - 1]
  BY <1>3, ShlAssumption
<1> QED BY <1>1, <1>3, <1>4, ShlAssumption

LEMMA ShlMonotone ==
  \A p, q \in 0..MaxPow : p =< q => Shl[p] =< Shl[q]
<1> SUFFICES ASSUME NEW p \in 0..MaxPow
             PROVE  \A q \in 0..MaxPow : p =< q => Shl[p] =< Shl[q]
  OBVIOUS
<1> DEFINE Bad == {q \in 0..MaxPow : p =< q /\ ~(Shl[p] =< Shl[q])}
<1> SUFFICES ASSUME Bad # {} PROVE FALSE
  OBVIOUS
<1>0. Bad \subseteq Nat
  BY ShlAssumption
<1>1. PICK m \in Bad : \A y \in Bad : m =< y
  <2> HIDE DEF Bad
  <2> QED BY <1>0, LeastNat
<1>2. m # p
  BY <1>1, ShlAssumption
<1>3. m - 1 \in Pows /\ m - 1 \notin Bad /\ m = (m - 1) + 1 /\ p =< m - 1
  BY <1>1, <1>2, ShlAssumption
<1>4. Shl[m] = 2 * Shl[m - 1]
  BY <1>3, ShlAssumption
<1> QED BY <1>1, <1>3, <1>4, ShlAssumption, ShlPositive

(* A page offset between two block sizes lies in one of the splits. *)
LEMMA ShlFloor ==
  ASSUME NEW r \in 0..MaxPow, NEW p \in 0..MaxPow, NEW x \in Nat,
         Shl[r] =< x, x < Shl[p]
  PROVE  \E k \in r..(p - 1) : Shl[k] =< x /\ x < Shl[k + 1]
<1> DEFINE Above == {k \in r..p : x < Shl[k]}
<1>0. r =< p
  BY ShlMonotone, ShlAssumption
<1>1. Above \subseteq Nat /\ Above # {}
  <2>1. p \in Above
    BY <1>0
  <2>2. Above \subseteq Nat
    BY ShlAssumption
  <2> HIDE DEF Above
  <2> QED BY <2>1, <2>2
<1>2. PICK m \in Above : \A y \in Above : m =< y
  <2> HIDE DEF Above
  <2> QED BY <1>1, LeastNat
<1>3. m # r /\ m - 1 \in r..(p - 1) /\ m - 1 \notin Above
  BY <1>2, ShlAssumption
<1>4. Shl[m - 1] =< x
  BY <1>3, ShlAssumption
<1> QED BY <1>2, <1>3, <1>4

(* Max of FiniteSetsExt is the greatest element of a nonempty set of powers. *)
LEMMA MaxPows ==
  ASSUME NEW T, T \subseteq Pows, T # {}
  PROVE  Max(T) \in T /\ \A p \in T : Max(T) >= p
<1> DEFINE D == {d \in Nat : MaxPow - d \in T}
<1>1. D # {}
  <2>1. PICK p \in T : TRUE
    OBVIOUS
  <2>2. MaxPow - p \in Nat /\ MaxPow - (MaxPow - p) = p
    BY ShlAssumption
  <2> QED BY <2>1, <2>2
<1>2. PICK m \in D : \A y \in D : m =< y
  <2>1. D \subseteq Nat
    OBVIOUS
  <2> HIDE DEF D
  <2> QED BY <1>1, <2>1, LeastNat
<1>3. ASSUME NEW p \in T PROVE MaxPow - m >= p
  <2>1. MaxPow - p \in Nat /\ MaxPow - (MaxPow - p) = p
    BY ShlAssumption
  <2>2. MaxPow - p \in D
    BY <2>1
  <2>3. m \in Nat /\ MaxPow \in Nat /\ p \in Nat
    BY ShlAssumption
  <2> HIDE DEF D
  <2>4. m =< MaxPow - p
    BY <1>2, <2>2
  <2> QED BY <2>3, <2>4
<1> QED BY <1>2, <1>3 DEF Max

(* ceil_to_power_2 of a request is one of the powers. *)
LEMMA CeilPowType == \A n \in Requests : CeilPow(n) \in 0..MaxPow
<1> SUFFICES ASSUME NEW n \in Requests PROVE CeilPow(n) \in 0..MaxPow
  OBVIOUS
<1> DEFINE T == {p \in 0..MaxPow : Shl[p] >= n}
<1>1. T \subseteq Nat /\ T # {} /\ T \subseteq 0..MaxPow
  BY ShlAssumption, RequestsAssumption
<1>2. Min(T) \in T
  <2> HIDE DEF T
  <2> QED BY <1>1, MinNat
<1> QED BY <1>1, <1>2 DEF CeilPow

-----------------------------------------------------------------------------
(* Lists.  Push and RemoveAt, element by element. *)
LEMMA PushProperties ==
  ASSUME NEW s \in Seq(Nat), NEW x \in Nat
  PROVE  /\ <<x>> \o s \in Seq(Nat)
         /\ Len(<<x>> \o s) = Len(s) + 1
         /\ DOMAIN (<<x>> \o s) = 1..(Len(s) + 1)
         /\ \A j \in 1..(Len(s) + 1) :
               (<<x>> \o s)[j] = IF j = 1 THEN x ELSE s[j - 1]
OBVIOUS

LEMMA TailProperties ==
  ASSUME NEW s \in Seq(Nat), s # << >>
  PROVE  /\ Len(s) >= 1
         /\ Head(s) = s[1] /\ s[1] \in Nat
         /\ Tail(s) \in Seq(Nat)
         /\ DOMAIN Tail(s) = 1..(Len(s) - 1)
         /\ \A j \in 1..(Len(s) - 1) : Tail(s)[j] = s[j + 1]
OBVIOUS

LEMMA ConcatElements ==
  ASSUME NEW a \in Seq(Nat), NEW b \in Seq(Nat)
  PROVE  /\ a \o b \in Seq(Nat)
         /\ Len(a \o b) = Len(a) + Len(b)
         /\ \A j \in 1..(Len(a) + Len(b)) :
               (a \o b)[j] = IF j =< Len(a) THEN a[j] ELSE b[j - Len(a)]
OBVIOUS

LEMMA RemoveAtProperties ==
  ASSUME NEW s \in Seq(Nat), NEW i \in 1..Len(s)
  PROVE  /\ RemoveAt(s, i) \in Seq(Nat)
         /\ DOMAIN RemoveAt(s, i) = 1..(Len(s) - 1)
         /\ \A j \in 1..(Len(s) - 1) :
               RemoveAt(s, i)[j] = IF j < i THEN s[j] ELSE s[j + 1]
<1> DEFINE a == SubSeq(s, 1, i - 1)
           b == SubSeq(s, i + 1, Len(s))
<1>1. a \in Seq(Nat) /\ Len(a) = i - 1 /\ \A j \in 1..(i - 1) : a[j] = s[j]
  OBVIOUS
<1>2. /\ b \in Seq(Nat) /\ Len(b) = Len(s) - i
      /\ \A j \in 1..(Len(s) - i) : b[j] = s[i + j]
  OBVIOUS
<1> HIDE DEF a, b
<1>3. RemoveAt(s, i) = a \o b
  BY DEF RemoveAt, a, b
<1>4. /\ a \o b \in Seq(Nat) /\ Len(a \o b) = Len(s) - 1
      /\ \A j \in 1..(Len(s) - 1) :
            (a \o b)[j] = IF j =< i - 1 THEN a[j] ELSE b[j - (i - 1)]
  <2>1. Len(a) + Len(b) = Len(s) - 1
    BY <1>1, <1>2
  <2>2. /\ a \o b \in Seq(Nat) /\ Len(a \o b) = Len(a) + Len(b)
        /\ \A j \in 1..(Len(a) + Len(b)) :
              (a \o b)[j] = IF j =< Len(a) THEN a[j] ELSE b[j - Len(a)]
    BY <1>1, <1>2, ConcatElements
  <2> QED BY <1>1, <2>1, <2>2
<1>5. ASSUME NEW j \in 1..(Len(s) - 1)
      PROVE  (a \o b)[j] = IF j < i THEN s[j] ELSE s[j + 1]
  <2>1. CASE j < i
    BY <2>1, <1>1, <1>4
  <2>2. CASE j >= i
    <3>1. j - (i - 1) \in 1..(Len(s) - i) /\ i + (j - (i - 1)) = j + 1
      BY <2>2
    <3>2. (a \o b)[j] = b[j - (i - 1)]
      BY <2>2, <1>4
    <3>3. b[j - (i - 1)] = s[j + 1]
      BY <3>1, <1>2
    <3> QED BY <2>2, <3>2, <3>3
  <2>3. j < i \/ j >= i
    OBVIOUS
  <2> QED BY <2>1, <2>2, <2>3
<1>6. DOMAIN (a \o b) = 1..(Len(s) - 1)
  BY <1>4
<1> QED BY <1>3, <1>4, <1>5, <1>6

-----------------------------------------------------------------------------
(* Type correctness.  freenode_remain is the length of the pool up to a     *)
(* panic, and the block being merged is never larger than the list it is    *)
(* compared with; without them the counters and page_relative could go      *)
(* below zero.                                                             *)
TypeInv ==
    /\ TypeOK
    /\ ~Panicked => freenode_remain = free_nodes
    /\ op.pc = "merge" => op.final =< op.pow
    /\ op.pc = "zone" => op.page =< Zones[op.zone].pages

LEMMA ZoneType ==
  ASSUME NEW z \in DOMAIN Zones
  PROVE  Zones[z].base \in Nat /\ Zones[z].pages \in Nat
<1> DEFINE S == [base : Nat, pages : Nat]
<1>1. Zones \in Seq(S)
  BY ZonesAssumption
<1>2. Zones[z] \in S
  <2> HIDE DEF S
  <2> QED BY <1>1
<1> QED BY <1>2

(* What serving a request of power req takes from the lists. *)
LEMMA ServeFacts ==
  ASSUME TypeOK, NEW req \in 0..MaxPow, ServingZones(req) # {}
  PROVE  /\ ServingZone(req) \in 1..zone_num
         /\ ServingZone(req) \in DOMAIN Zones
         /\ ServingPow(req) \in Pows
         /\ req =< ServingPow(req)
         /\ pows[ServingZone(req)][ServingPow(req)] # << >>
<1>1. ServingZones(req) \subseteq Nat
  BY DEF ServingZones, TypeOK
<1>2. ServingZone(req) \in ServingZones(req)
  BY <1>1, MinNat DEF ServingZone
<1>3. /\ ServingZone(req) \in 1..zone_num
      /\ ServingPows(ServingZone(req), req) # {}
  BY <1>2 DEF ServingZones
<1>4. ServingZone(req) \in DOMAIN Zones
  BY <1>3, ZonesAssumption DEF TypeOK
<1>5. ServingPows(ServingZone(req), req) \subseteq Nat
  BY ShlAssumption DEF ServingPows
<1>6. ServingPow(req) \in ServingPows(ServingZone(req), req)
  BY <1>3, <1>5, MinNat DEF ServingPow
<1> QED BY <1>3, <1>4, <1>6 DEF ServingPows

LEMMA ServeType ==
  ASSUME TypeOK, freenode_remain = free_nodes,
         NEW req \in 0..MaxPow, NEW extra \in Nat, Serve(req, extra)
  PROVE  /\ pows' \in [DOMAIN Zones -> [Pows -> Seq(Nat)]]
         /\ free' \in Int
         /\ free_nodes' \in Nat
         /\ freenode_remain' = free_nodes'
         /\ ServedBlock(req) \in Block
<1> DEFINE z == ServingZone(req)
           p == ServingPow(req)
<1>1. /\ z \in DOMAIN Zones /\ p \in Pows /\ req =< p
      /\ pows[z][p] # << >>
  BY ServeFacts DEF Serve, CanServe
<1>2. /\ Zones[z].base \in Nat
      /\ pows[z] \in [Pows -> Seq(Nat)] /\ pows[z][p] \in Seq(Nat)
  <2> HIDE DEF z, p
  <2> QED BY <1>1, ZoneType DEF TypeOK
<1>3. Head(pows[z][p]) \in Nat /\ Tail(pows[z][p]) \in Seq(Nat)
  BY <1>1, <1>2, TailProperties
<1>4. SplitLists(z, p, req) \in [Pows -> Seq(Nat)]
  <2> HIDE DEF z, p
  <2>1. ASSUME NEW k \in Pows
        PROVE  << Head(pows[z][p]) + Shl[k] >> \o pows[z][k] \in Seq(Nat)
    <3>1. Shl[k] \in Nat
      BY ShlPositive, ShlAssumption
    <3>2. Head(pows[z][p]) + Shl[k] \in Nat
      BY <1>3, <3>1
    <3>3. pows[z][k] \in Seq(Nat)
      BY <1>2
    <3> QED BY <3>2, <3>3, PushProperties
  <2> QED BY <1>2, <1>3, <2>1 DEF SplitLists
<1>5. pows' \in [DOMAIN Zones -> [Pows -> Seq(Nat)]]
  BY <1>4 DEF Serve, TypeOK
<1>6. free' \in Int
  BY ShlAssumption DEF Serve, TypeOK
<1>7. free_nodes' \in Nat /\ freenode_remain' = free_nodes'
  <2>1. p - req =< free_nodes + 1 /\ p \in Nat /\ req \in Nat
    BY <1>1, ShlAssumption DEF Serve, CanServe
  <2>2. /\ free_nodes' = free_nodes + 1 - (p - req) + extra
        /\ freenode_remain' = freenode_remain + 1 - (p - req) + extra
    BY DEF Serve
  <2> HIDE DEF z, p
  <2> QED BY <2>1, <2>2 DEF TypeOK
<1>8. ServedBlock(req) \in Block
  <2>1. Zones[z].base + Head(pows[z][p]) \in Nat /\ req \in Pows
    <3> HIDE DEF z, p
    <3>1. Zones[z].base + Head(pows[z][p]) \in Nat
      BY <1>2, <1>3
    <3> QED BY <1>1, <3>1, ShlAssumption
  <2> QED BY <2>1 DEF ServedBlock, Block
<1> QED BY <1>5, <1>6, <1>7, <1>8

LEMMA PanicType ==
  ASSUME NEW why \in {"oom", "no_node", "no_list"}, NEW req \in 0..MaxPow
  PROVE  /\ Panic(why, req) \in Op
         /\ Panic(why, req).pc = why
BY ShlAssumption DEF Panic, Call, Op

LEMMA TypeInit == Init => TypeInv
<1> SUFFICES ASSUME Init PROVE TypeInv
  OBVIOUS
<1>1. Idle \in Op /\ Idle.pc = "idle"
  BY ShlAssumption DEF Idle, Call, Op
<1>2. pows \in [DOMAIN Zones -> [Pows -> Seq(Nat)]]
  BY DEF Init
<1>3. 0 \in 0..Len(Zones)
  BY ZonesAssumption
<1>4. misMerged \in BOOLEAN
  BY Zenon DEF Init
<1>5. op \in Op /\ op.pc = "idle"
  BY <1>1 DEF Init
<1> QED BY <1>2, <1>3, <1>4, <1>5, PoolAssumption DEF Init, TypeInv, TypeOK, Panicked

(* add_node on a list of a zone. *)
LEMMA AddNodeType ==
  ASSUME TypeOK, NEW z \in DOMAIN Zones, NEW p \in Pows, NEW page \in Nat,
         ~NoNode, freenode_remain = free_nodes, add_node(z, p, page)
  PROVE  /\ pows' \in [DOMAIN Zones -> [Pows -> Seq(Nat)]]
         /\ free_nodes' \in Nat
         /\ freenode_remain' = free_nodes'
<1>1. pows[z] \in [Pows -> Seq(Nat)] /\ pows[z][p] \in Seq(Nat)
  BY DEF TypeOK
<1>2. <<page>> \o pows[z][p] \in Seq(Nat)
  BY <1>1, PushProperties
<1>3. pows' \in [DOMAIN Zones -> [Pows -> Seq(Nat)]]
  BY <1>1, <1>2 DEF add_node, TypeOK
<1> QED BY <1>3 DEF add_node, NoNode, TypeOK

LEMMA TypeNewZoneNode == TypeInv /\ new_zone_node => TypeInv'
<1> SUFFICES ASSUME TypeInv, new_zone_node PROVE TypeInv'
  OBVIOUS
<1> DEFINE left == Zones[op.zone].pages - op.page
           fit == {p \in Pows : Shl[p] =< left}
           pow == Max(fit)
<1>1. /\ op.zone \in DOMAIN Zones /\ op.page \in Nat
      /\ Zones[op.zone].pages \in Nat
  BY ZoneType DEF TypeInv, TypeOK, new_zone_node, Op
<1>2. pow \in Pows /\ Shl[pow] =< left
  <2>1. 0 \in fit
    BY <1>1, ShlAssumption DEF new_zone_node
  <2>2. fit \subseteq Pows /\ fit # {}
    BY <2>1
  <2>3. pow \in fit
    <3> HIDE DEF fit
    <3> QED BY <2>2, MaxPows
  <2> QED BY <2>3
<1>3. CASE NoNode
  <2>1. op'.pc = "no_node" /\ op' \in Op
    BY <1>3, PanicType, ShlAssumption DEF new_zone_node
  <2> QED BY <1>3, <2>1 DEF new_zone_node, TypeInv, TypeOK, Panicked
<1>4. CASE ~NoNode
  <2>1. /\ add_node(op.zone, pow, op.page)
        /\ op' = [op EXCEPT !.page = @ + Shl[pow]]
        /\ UNCHANGED <<zone_num, free, extended_pools, held, misMerged>>
    BY <1>4 DEF new_zone_node
  <2> HIDE DEF pow, fit
  <2>2. /\ pows' \in [DOMAIN Zones -> [Pows -> Seq(Nat)]]
        /\ free_nodes' \in Nat
        /\ freenode_remain' = free_nodes'
    BY <1>1, <1>2, <1>4, <2>1, AddNodeType DEF TypeInv, Panicked, new_zone_node
  <2>3. op.page + Shl[pow] \in Nat /\ op.page + Shl[pow] =< Zones[op.zone].pages
    BY <1>1, <1>2, ShlPositive, ShlAssumption
  <2>4. op' \in Op /\ op'.pc = op.pc /\ op'.zone = op.zone
        /\ op'.page = op.page + Shl[pow]
    BY <2>1, <2>3 DEF TypeInv, TypeOK, Op
  <2> QED BY <2>1, <2>2, <2>3, <2>4 DEF TypeInv, TypeOK, new_zone_node
<1> QED BY <1>3, <1>4

LEMMA TypeGrant ==
  ASSUME TypeInv, NEW req \in 0..MaxPow, Grant(req), ~Panicked,
         UNCHANGED <<zone_num, misMerged>>
  PROVE  TypeInv'
<1>1. CASE Refuse(req, 0)
  <2>1. op' \in Op /\ op'.pc \in {"oom", "no_node"}
    BY <1>1, PanicType DEF Refuse
  <2> QED BY <1>1, <2>1 DEF Refuse, TypeInv, TypeOK, Panicked
<1>2. CASE ~Refuse(req, 0)
  <2>1. /\ Serve(req, 0) /\ op' = Idle /\ UNCHANGED extended_pools
        /\ held' = held \cup {ServedBlock(req)}
    BY <1>2 DEF Grant
  <2>2. Idle \in Op /\ Idle.pc = "idle"
    BY ShlAssumption DEF Idle, Call, Op
  <2>3. /\ pows' \in [DOMAIN Zones -> [Pows -> Seq(Nat)]]
        /\ free' \in Int /\ free_nodes' \in Nat /\ freenode_remain' = free_nodes'
        /\ ServedBlock(req) \in Block
    BY <2>1, ServeType DEF TypeInv
  <2> QED BY <2>1, <2>2, <2>3 DEF TypeInv, TypeOK, Panicked
<1> QED BY <1>1, <1>2

LEMMA TypeExtend ==
  ASSUME TypeInv, NEW n \in Requests, new_extended_pool(n)
  PROVE  TypeInv'
<1>1. CASE Refuse(ExtPow, ExtCap)
  <2>1. op' \in Op /\ op'.pc \in {"oom", "no_node"}
    BY <1>1, PanicType, PoolAssumption, ShlAssumption DEF Refuse
  <2>2. freenode_remain' \in Nat
    BY <1>1, PoolAssumption DEF Refuse, TypeInv, TypeOK
  <2> QED BY <1>1, <2>1, <2>2 DEF new_extended_pool, Refuse, TypeInv, TypeOK, Panicked
<1>2. CASE ~Refuse(ExtPow, ExtCap)
  <2>1. /\ Serve(ExtPow, ExtCap) /\ op' = Call("alloc", CeilPow(n), 0)
        /\ extended_pools' = extended_pools \cup {ServedBlock(ExtPow)}
        /\ UNCHANGED <<held, zone_num, misMerged>>
    BY <1>2 DEF new_extended_pool
  <2>2. op' \in Op /\ op'.pc = "alloc"
    BY <2>1, CeilPowType, ShlAssumption DEF Call, Op
  <2>3. ExtPow \in 0..MaxPow /\ ExtCap \in Nat
    BY PoolAssumption, ShlAssumption
  <2>4. /\ pows' \in [DOMAIN Zones -> [Pows -> Seq(Nat)]]
        /\ free' \in Int /\ free_nodes' \in Nat /\ freenode_remain' = free_nodes'
        /\ ServedBlock(ExtPow) \in Block
    <3>1. ~Panicked
      BY DEF new_extended_pool, Ready, Idle, Call, Panicked
    <3> QED BY <2>1, <2>3, <3>1, ServeType DEF TypeInv
  <2> QED BY <2>1, <2>2, <2>4 DEF TypeInv, TypeOK, Panicked
<1> QED BY <1>1, <1>2

LEMMA TypeFree ==
  ASSUME TypeInv, NEW b \in held, free_pages(b)
  PROVE  TypeInv'
<1>1. b \in Block
  BY DEF TypeInv, TypeOK
<1>2. PICK z \in 1..zone_num :
        /\ b.page \in Zones[z].base .. (Zones[z].base + Zones[z].pages - 1)
        /\ op' = MergeCall(b.pow, z, b.pow, b.page - Zones[z].base, b.pow)
  BY DEF free_pages
<1>3. z \in DOMAIN Zones /\ z \in Nat
  BY ZonesAssumption DEF TypeInv, TypeOK
<1>4. Zones[z].base \in Nat /\ Zones[z].pages \in Nat
  BY <1>3, ZoneType
<1>5. b.page - Zones[z].base \in Nat /\ b.pow \in 0..MaxPow
  <2>1. b.page \in Nat /\ b.pow \in Pows
    BY <1>1 DEF Block
  <2>2. b.page >= Zones[z].base
    BY <1>2, <1>4
  <2>3. b.page - Zones[z].base \in Nat
    BY <2>1, <2>2, <1>4
  <2> QED BY <2>1, <2>3, ShlAssumption
<1>6. /\ op' \in Op /\ op'.pc = "merge" /\ op'.zone = z
      /\ op'.final = op'.pow /\ op'.pow \in Nat
  BY <1>2, <1>3, <1>5 DEF MergeCall, Op
<1>7. ~Panicked /\ held' \subseteq held
  BY DEF free_pages, Ready, Idle, Call, Panicked
<1> QED BY <1>6, <1>7 DEF free_pages, TypeInv, TypeOK, Panicked

LEMMA MergeFacts ==
  ASSUME TypeInv, op.pc = "merge"
  PROVE  /\ op.zone \in 1..zone_num /\ op.zone \in DOMAIN Zones
         /\ op.page \in Nat /\ op.pow \in 0..MaxPow /\ op.final \in 0..MaxPow
         /\ op.req \in 0..MaxPow /\ op.final =< op.pow
         /\ op.pow < MaxPow => op.pow \in Pows /\ MergeList \in Seq(Nat)
<1>1. op.zone \in 1..zone_num /\ op.zone \in DOMAIN Zones
  BY ZonesAssumption DEF TypeInv, TypeOK
<1>2. /\ op.page \in Nat /\ op.pow \in 0..MaxPow /\ op.final \in 0..MaxPow
      /\ op.req \in 0..MaxPow /\ op.final =< op.pow
  BY DEF TypeInv, TypeOK, Op
<1>3. ASSUME op.pow < MaxPow PROVE op.pow \in Pows /\ MergeList \in Seq(Nat)
  <2>1. op.pow \in Pows
    BY <1>2, <1>3, ShlAssumption
  <2> QED BY <1>1, <2>1 DEF MergeList, TypeInv, TypeOK
<1> QED BY <1>1, <1>2, <1>3

(* The right partner found in the list starts at or after page zero. *)
LEMMA MergePage ==
  ASSUME TypeInv, Merging, NEW i \in DOMAIN MergeList, MergeList[i] = Partner
  PROVE  /\ Shl[op.final] \in Nat /\ Shl[op.pow] \in Nat
         /\ ~IsLeft => op.page >= Shl[op.pow] /\ op.page - Shl[op.final] \in Nat
<1>1. op.pc = "merge" /\ op.pow < MaxPow
  BY DEF Merging
<1>2. /\ op.page \in Nat /\ op.pow \in 0..MaxPow /\ op.final \in 0..MaxPow
      /\ op.final =< op.pow /\ MergeList \in Seq(Nat)
  BY <1>1, MergeFacts
<1>3. MergeList[i] \in Nat
  BY <1>2
<1>4. Shl[op.final] \in Nat /\ Shl[op.pow] \in Nat /\ Shl[op.final] =< Shl[op.pow]
  BY <1>2, ShlMonotone, ShlPositive
<1>5. ~IsLeft => op.page - Shl[op.pow] \in Nat
  BY <1>3 DEF Partner
<1> QED BY <1>2, <1>4, <1>5

LEMMA TypeMergeFound == TypeInv /\ merge_found => TypeInv'
<1> SUFFICES ASSUME TypeInv, merge_found PROVE TypeInv'
  OBVIOUS
<1>1. Merging /\ op.pc = "merge" /\ op.pow < MaxPow
  BY DEF merge_found, Merging
<1>2. PICK i \in DOMAIN MergeList :
        /\ MergeList[i] = Partner
        /\ pows' = [pows EXCEPT ![op.zone][op.pow] = RemoveAt(@, i)]
  BY DEF merge_found
<1>3. /\ op.zone \in DOMAIN Zones /\ op.pow \in Pows /\ op.final \in 0..MaxPow
      /\ op.page \in Nat /\ op.final =< op.pow /\ MergeList \in Seq(Nat)
  BY <1>1, MergeFacts
<1>4. RemoveAt(MergeList, i) \in Seq(Nat)
  BY <1>3, RemoveAtProperties
<1>5. pows' \in [DOMAIN Zones -> [Pows -> Seq(Nat)]]
  BY <1>2, <1>3, <1>4 DEF MergeList, TypeInv, TypeOK
<1>6. /\ Shl[op.final] \in Nat
      /\ ~IsLeft => op.page - Shl[op.final] \in Nat
  BY <1>1, <1>2, MergePage
<1>7. op' = MergeCall(op.req, op.zone, op.pow + 1,
                      IF IsLeft THEN op.page ELSE op.page - Shl[op.final],
                      op.final + 1)
  BY DEF merge_found
<1>8. op.pow + 1 \in 0..MaxPow /\ op.final + 1 \in 0..MaxPow
  <2>1. op.pow \in Pows /\ op.final \in 0..MaxPow /\ op.final =< op.pow
    BY <1>3
  <2>2. MaxPow \in Nat
    BY ShlAssumption
  <2> QED BY <2>1, <2>2
<1>9. /\ op' \in Op /\ op'.pc = "merge" /\ op'.zone = op.zone
      /\ op'.final =< op'.pow
  <2>1. /\ op.req \in 0..MaxPow /\ op.zone \in Nat /\ op.final =< op.pow
        /\ op.final \in Nat /\ op.pow \in Nat
    BY <1>1, <1>3 DEF TypeInv, TypeOK, Op
  <2>2. (IF IsLeft THEN op.page ELSE op.page - Shl[op.final]) \in Nat
    BY <1>3, <1>6
  <2> QED BY <2>1, <2>2, <1>7, <1>8 DEF MergeCall, Op
<1>10. misMerged' \in BOOLEAN
  BY Zenon DEF merge_found
<1> QED BY <1>5, <1>9, <1>10, <1>1 DEF merge_found, TypeInv, TypeOK, Panicked

LEMMA TypeMergeMiss == TypeInv /\ merge_miss => TypeInv'
<1> SUFFICES ASSUME TypeInv, merge_miss PROVE TypeInv'
  OBVIOUS
<1>1. /\ op.pc = "merge" /\ op.pow < MaxPow
      /\ op' = [op EXCEPT !.pow = @ + 1]
  BY DEF merge_miss, Merging
<1>2. op.pow \in Nat /\ op.final \in Nat /\ op.final =< op.pow /\ MaxPow \in Nat
  BY <1>1, MergeFacts, ShlAssumption
<1>3. op.pow + 1 \in 0..MaxPow
  BY <1>1, <1>2
<1>4. /\ op' \in Op /\ op'.pc = op.pc /\ op'.zone = op.zone
      /\ op'.final = op.final /\ op'.pow = op.pow + 1
  BY <1>1, <1>3 DEF TypeInv, TypeOK, Op
<1> QED BY <1>1, <1>2, <1>4 DEF merge_miss, TypeInv, TypeOK, Panicked

LEMMA TypeMergeEnd == TypeInv /\ merge_end => TypeInv'
<1> SUFFICES ASSUME TypeInv, merge_end PROVE TypeInv'
  OBVIOUS
<1>1. op.pc = "merge"
  BY DEF merge_end
<1>2. /\ op.zone \in DOMAIN Zones /\ op.page \in Nat
      /\ op.final \in 0..MaxPow /\ op.req \in 0..MaxPow
  BY <1>1, MergeFacts
<1>3. CASE NoNode \/ op.final = MaxPow
  <2>1. op' \in Op /\ op'.pc \in {"no_node", "no_list"}
    BY <1>2, <1>3, PanicType DEF merge_end
  <2> QED BY <1>3, <2>1 DEF merge_end, TypeInv, TypeOK, Panicked
<1>4. CASE ~(NoNode \/ op.final = MaxPow)
  <2>1. op.final \in Pows
    <3>1. op.final \in 0..MaxPow /\ op.final # MaxPow /\ MaxPow \in Nat
      BY <1>2, <1>4, ShlAssumption
    <3> QED BY <3>1
  <2>2. add_node(op.zone, op.final, op.page)
    BY <1>4 DEF merge_end
  <2>3. /\ pows' \in [DOMAIN Zones -> [Pows -> Seq(Nat)]]
        /\ free_nodes' \in Nat /\ freenode_remain' = free_nodes'
    BY <1>1, <1>2, <1>4, <2>1, <2>2, AddNodeType DEF TypeInv, Panicked
  <2>4. op' \in Op /\ op'.pc = "idle"
    BY <1>4, ShlAssumption DEF merge_end, Idle, Call, Op
  <2>5. free' \in Int
    BY <1>2, <1>4, ShlAssumption DEF merge_end, TypeInv, TypeOK
  <2> QED BY <2>3, <2>4, <2>5 DEF merge_end, TypeInv, TypeOK, Panicked
<1> QED BY <1>3, <1>4

LEMMA TypeNext == TypeInv /\ [Next]_vars => TypeInv'
<1> SUFFICES ASSUME TypeInv, [Next]_vars PROVE TypeInv'
  OBVIOUS
<1>1. CASE add_zone
  <2>1. zone_num + 1 \in DOMAIN Zones /\ zone_num + 1 \in Nat
    BY <1>1, ZonesAssumption DEF add_zone, TypeInv, TypeOK
  <2>2. /\ op' \in Op /\ op'.pc = "zone" /\ op'.zone = zone_num + 1
        /\ op'.page = 0
    BY <1>1, <2>1, ShlAssumption DEF add_zone, Call, Op
  <2>3. 0 =< Zones[zone_num + 1].pages
    BY <2>1, ZoneType
  <2>4. ~Panicked
    BY <1>1 DEF add_zone, Ready, Idle, Call, Panicked
  <2> QED BY <1>1, <2>1, <2>2, <2>3, <2>4 DEF add_zone, TypeInv, TypeOK
<1>2. CASE new_zone_node
  BY <1>2, TypeNewZoneNode
<1>3. CASE add_zone_done
  <2>1. op.zone \in DOMAIN Zones /\ op.zone \in 0..Len(Zones)
    BY <1>3, ZonesAssumption DEF add_zone_done, TypeInv, TypeOK
  <2>2. Zones[op.zone].pages \in Nat
    BY <2>1, ZoneType
  <2>3. op' \in Op /\ op'.pc = "idle"
    BY <1>3, ShlAssumption DEF add_zone_done, Idle, Call, Op
  <2> QED BY <1>3, <2>1, <2>2, <2>3 DEF add_zone_done, TypeInv, TypeOK, Panicked
<1>4. ASSUME NEW n \in Requests, alloc_pages(n) PROVE TypeInv'
  <2>1. ~Panicked
    BY <1>4 DEF alloc_pages, Ready, Idle, Call, Panicked
  <2> QED BY <1>4, <2>1, CeilPowType, TypeGrant DEF alloc_pages
<1>5. ASSUME NEW n \in Requests, new_extended_pool(n) PROVE TypeInv'
  BY <1>5, TypeExtend
<1>6. CASE alloc_pages_extended
  <2>1. op.req \in 0..MaxPow
    BY DEF TypeInv, TypeOK, Op
  <2>2. ~Panicked
    BY <1>6 DEF alloc_pages_extended, Panicked
  <2> QED BY <1>6, <2>1, <2>2, TypeGrant DEF alloc_pages_extended
<1>7. ASSUME NEW b \in held, free_pages(b) PROVE TypeInv'
  BY <1>7, TypeFree
<1>8. CASE merge_found
  BY <1>8, TypeMergeFound
<1>9. CASE merge_miss
  BY <1>9, TypeMergeMiss
<1>10. CASE merge_end
  BY <1>10, TypeMergeEnd
<1>11. CASE UNCHANGED vars
  BY <1>11 DEF vars, TypeInv, TypeOK, Panicked
<1> QED
  BY <1>1, <1>2, <1>3, <1>4, <1>5, <1>6, <1>7, <1>8, <1>9, <1>10, <1>11
  DEF Next

(* Every reachable state is well typed: no node count, free list length or  *)
(* page number of the allocator ever goes below zero.                      *)
THEOREM TypeCorrect == Spec => []TypeOK
<1>1. TypeInv => TypeOK
  BY DEF TypeInv
<1> QED BY TypeInit, TypeNext, <1>1, PTL DEF Spec

-----------------------------------------------------------------------------
(* A split takes fewer nodes than there are lists, and alloc_pages begins   *)
(* with more than that in the pool.                                        *)
LEMMA EnoughNodes ==
  ASSUME TypeInv, NEW n \in Requests, alloc_pages(n)
  PROVE  op'.pc # "no_node"
<1> DEFINE req == CeilPow(n)
<1>1. req \in 0..MaxPow /\ Grant(req) /\ free_nodes > MaxPow /\ free_nodes \in Nat
  BY CeilPowType DEF alloc_pages, TypeInv, TypeOK, MinPoolRemain, Panicked, Ready, Idle, Call
<1> HIDE DEF req
<1>2. ASSUME ServingZones(req) # {} PROVE CanServe(req)
  <2>1. ServingPow(req) \in Pows
    BY <1>1, <1>2, ServeFacts DEF TypeInv
  <2>2. ServingPow(req) - req =< free_nodes + 1
    BY <1>1, <2>1, ShlAssumption
  <2> QED BY <1>2, <2>2 DEF CanServe
<1>3. CASE Refuse(req, 0)
  <2>1. op' = Panic("oom", req)
    BY <1>2, <1>3 DEF Refuse
  <2> QED BY <2>1 DEF Panic, Call
<1>4. CASE ~Refuse(req, 0)
  BY <1>1, <1>4 DEF Grant, Idle, Call
<1> QED BY <1>3, <1>4

(* With more than MIN_POOL_REMAIN nodes in the pool alloc_pages never finds *)
(* it empty in the middle of a split, whatever the number of powers.       *)
THEOREM NodesKept == Spec => AllocKeepsNodes
<1>1. TypeInv /\ [Next]_vars => [\A n \in Requests : alloc_pages(n) => op'.pc # "no_node"]_vars
  BY EnoughNodes
<1> QED BY TypeInit, TypeNext, <1>1, PTL DEF Spec, AllocKeepsNodes

HIDE DEF Pows

-----------------------------------------------------------------------------
(***************************************************************************)
(* The free blocks and the owned blocks tile the zones as long as          *)
(* free_pages merges blocks of one power.                                  *)
(*                                                                         *)
(* The argument is about sets of blocks: each step takes some blocks D out *)
(* of the set Blocks and puts blocks C with exactly the same pages in      *)
(* (Retile), or appends a block behind the built part of a zone.           *)
(***************************************************************************)
LEMMA PowType ==
  ASSUME NEW k \in Pows
  PROVE  /\ k \in Nat /\ k < MaxPow /\ k \in 0..MaxPow /\ k + 1 \in 0..MaxPow
         /\ Shl[k] \in Nat /\ Shl[k] >= 1
         /\ Shl[k + 1] \in Nat /\ Shl[k + 1] = Shl[k] + Shl[k]
<1>0. MaxPow \in Nat
  BY ShlAssumption
<1>1. MaxPow \in Nat /\ k \in Nat /\ k < MaxPow
  BY <1>0 DEF Pows
<1>2. k \in 0..MaxPow /\ k + 1 \in 0..MaxPow
  BY <1>1
<1>3. Shl[k] \in Nat /\ Shl[k] >= 1 /\ Shl[k + 1] \in Nat
  BY <1>2, ShlPositive
<1>4. Shl[k + 1] = 2 * Shl[k]
  BY ShlAssumption
<1> QED BY <1>1, <1>2, <1>3, <1>4

(* What the list operations do to the set of blocks in the lists f. *)
Lists == [Pows -> Seq(Nat)]

AllInjective(f) == \A k \in Pows : IsInjective(f[k])

LEMMA ListElem ==
  ASSUME NEW base, NEW f, NEW b
  PROVE  b \in ListBlocks(base, f) <=>
           \E k \in Pows : \E i \in DOMAIN f[k] :
             b = [page |-> base + f[k][i], pow |-> k]
BY DEF ListBlocks

LEMMA ListMember ==
  ASSUME NEW base, NEW f, NEW b \in ListBlocks(base, f)
  PROVE  \E k \in Pows : \E i \in DOMAIN f[k] :
           b = [page |-> base + f[k][i], pow |-> k]
BY ListElem

(* g is f with x pushed on list p. *)
Pushed(f, g, p, x) ==
    g[p] = <<x>> \o f[p] /\ \A k \in Pows : k # p => g[k] = f[k]

LEMMA ListPush ==
  ASSUME NEW base \in Nat, NEW f \in Lists, NEW p \in Pows, NEW x \in Nat,
         NEW g, Pushed(f, g, p, x)
  PROVE  /\ ListBlocks(base, g) =
              ListBlocks(base, f) \cup {[page |-> base + x, pow |-> p]}
         /\ AllInjective(f) /\ [page |-> base + x, pow |-> p] \notin ListBlocks(base, f)
              => AllInjective(g)
<1> DEFINE new == [page |-> base + x, pow |-> p]
<1>1. f[p] \in Seq(Nat) /\ \A k \in Pows : f[k] \in Seq(Nat)
  BY DEF Lists
<1>2. /\ DOMAIN g[p] = 1..(Len(f[p]) + 1)
      /\ \A j \in 1..(Len(f[p]) + 1) : g[p][j] = IF j = 1 THEN x ELSE f[p][j - 1]
  BY <1>1, PushProperties DEF Pushed
<1>3. \A k \in Pows : k # p => g[k] = f[k]
  BY DEF Pushed
<1>4. Len(f[p]) \in Nat /\ DOMAIN f[p] = 1..Len(f[p])
  BY <1>1
<1>5. ASSUME NEW b
      PROVE  b \in ListBlocks(base, g) <=> b \in ListBlocks(base, f) \/ b = new
  <2>1. ASSUME b \in ListBlocks(base, g), b # new PROVE b \in ListBlocks(base, f)
    <3>1. PICK k \in Pows : \E j \in DOMAIN g[k] :
            b = [page |-> base + g[k][j], pow |-> k]
      BY <2>1, ListMember
    <3>2. PICK j \in DOMAIN g[k] : b = [page |-> base + g[k][j], pow |-> k]
      BY <3>1
    <3>3. CASE k # p
      BY <3>2, <3>3, <1>3, ListElem
    <3>4. CASE k = p
      <4>1. j # 1
        BY <3>2, <3>4, <2>1, <1>2
      <4>2. j - 1 \in DOMAIN f[p] /\ g[p][j] = f[p][j - 1]
        BY <4>1, <3>4, <1>2, <1>4
      <4> QED BY <3>2, <3>4, <4>2, ListElem
    <3> QED BY <3>3, <3>4
  <2>2. ASSUME b \in ListBlocks(base, f) PROVE b \in ListBlocks(base, g)
    <3>1. PICK k \in Pows : \E j \in DOMAIN f[k] :
            b = [page |-> base + f[k][j], pow |-> k]
      BY <2>2, ListElem
    <3>2. PICK j \in DOMAIN f[k] : b = [page |-> base + f[k][j], pow |-> k]
      BY <3>1
    <3>3. CASE k # p
      BY <3>2, <3>3, <1>3, ListElem
    <3>4. CASE k = p
      <4>1. j + 1 \in DOMAIN g[p] /\ g[p][j + 1] = f[p][j]
        BY <3>4, <1>2, <1>4
      <4> QED BY <3>2, <3>4, <4>1, ListElem
    <3> QED BY <3>3, <3>4
  <2>3. new \in ListBlocks(base, g)
    <3>1. 1 \in DOMAIN g[p] /\ g[p][1] = x
      BY <1>2, <1>4
    <3> QED BY <3>1, ListElem
  <2> QED BY <2>1, <2>2, <2>3
<1>6. ASSUME AllInjective(f), new \notin ListBlocks(base, f) PROVE AllInjective(g)
  <2>1. \A j \in DOMAIN f[p] : f[p][j] # x
    BY <1>6, ListElem
  <2>2. IsInjective(f[p])
    BY <1>6 DEF AllInjective
  <2>3. ASSUME NEW i \in DOMAIN g[p], NEW j \in DOMAIN g[p], g[p][i] = g[p][j]
        PROVE  i = j
    <3>0. \A m \in DOMAIN g[p] : g[p][m] = x => m = 1
      <4>1. ASSUME NEW m \in DOMAIN g[p], m # 1 PROVE g[p][m] # x
        <5>1. m - 1 \in DOMAIN f[p] /\ g[p][m] = f[p][m - 1]
          BY <4>1, <1>2, <1>4
        <5> QED BY <5>1, <2>1
      <4> QED BY <4>1
    <3>1. CASE i = 1 \/ j = 1
      <4>1. g[p][1] = x
        BY <1>2, <1>4
      <4> QED BY <3>0, <3>1, <4>1, <2>3
    <3>2. CASE i # 1 /\ j # 1
      <4>1. i - 1 \in DOMAIN f[p] /\ j - 1 \in DOMAIN f[p]
        BY <3>2, <1>2, <1>4
      <4>2. f[p][i - 1] = f[p][j - 1]
        BY <3>2, <2>3, <1>2
      <4>3. i - 1 = j - 1
        BY <4>1, <4>2, <2>2 DEF IsInjective
      <4> QED BY <4>3, <1>2, <1>4
    <3> QED BY <3>1, <3>2
  <2>4. IsInjective(g[p])
    BY <2>3 DEF IsInjective
  <2> QED BY <1>3, <1>6, <2>4 DEF AllInjective
<1> QED BY <1>5, <1>6

(* g is f with position i of list p taken out. *)
Removed(f, g, p, i) ==
    /\ \A k \in Pows : k # p => g[k] = f[k]
    /\ DOMAIN g[p] = 1..(Len(f[p]) - 1)
    /\ \A j \in 1..(Len(f[p]) - 1) :
          g[p][j] = IF j < i THEN f[p][j] ELSE f[p][j + 1]

LEMMA ListRemove ==
  ASSUME NEW base \in Nat, NEW f \in Lists, NEW p \in Pows,
         NEW i \in DOMAIN f[p], AllInjective(f),
         NEW g, Removed(f, g, p, i)
  PROVE  /\ ListBlocks(base, g) =
              ListBlocks(base, f) \ {[page |-> base + f[p][i], pow |-> p]}
         /\ AllInjective(g)
<1> DEFINE old == [page |-> base + f[p][i], pow |-> p]
<1>1. f[p] \in Seq(Nat)
  BY DEF Lists
<1>2. Len(f[p]) \in Nat /\ DOMAIN f[p] = 1..Len(f[p]) /\ i \in 1..Len(f[p])
  BY <1>1
<1>3. /\ DOMAIN g[p] = 1..(Len(f[p]) - 1)
      /\ \A j \in 1..(Len(f[p]) - 1) :
            g[p][j] = IF j < i THEN f[p][j] ELSE f[p][j + 1]
  BY DEF Removed
<1>4. \A k \in Pows : k # p => g[k] = f[k]
  BY DEF Removed
<1>5. IsInjective(f[p]) /\ \A j \in DOMAIN f[p] : f[p][j] \in Nat
  BY <1>1 DEF AllInjective
<1>6. ASSUME NEW b \in ListBlocks(base, g) PROVE b \in ListBlocks(base, f) /\ b # old
  <2>1. PICK k \in Pows : \E j \in DOMAIN g[k] :
          b = [page |-> base + g[k][j], pow |-> k]
    BY ListMember
  <2>2. PICK j \in DOMAIN g[k] : b = [page |-> base + g[k][j], pow |-> k]
    BY <2>1
  <2>3. CASE k # p
    BY <2>2, <2>3, <1>4, ListElem
  <2>4. CASE k = p
    <3>1. PICK m \in DOMAIN f[p] : m # i /\ g[p][j] = f[p][m]
      <4>1. CASE j < i
        <5>1. j \in DOMAIN f[p] /\ j # i /\ g[p][j] = f[p][j]
          BY <4>1, <2>4, <1>2, <1>3
        <5> QED BY <5>1
      <4>2. CASE ~(j < i)
        <5>1. j + 1 \in DOMAIN f[p] /\ j + 1 # i
          BY <4>2, <2>4, <1>2, <1>3
        <5> QED BY <4>2, <5>1, <2>4, <1>3
      <4> QED BY <4>1, <4>2
    <3>2. f[p][m] # f[p][i]
      BY <3>1, <1>5 DEF IsInjective
    <3>3. b = [page |-> base + f[p][m], pow |-> p]
      BY <2>2, <2>4, <3>1
    <3>4. b \in ListBlocks(base, f)
      BY <3>3, ListElem
    <3> QED BY <3>2, <3>3, <3>4, <1>5
  <2> QED BY <2>3, <2>4
<1>7. ASSUME NEW b \in ListBlocks(base, f), b # old PROVE b \in ListBlocks(base, g)
  <2>1. PICK k \in Pows : \E j \in DOMAIN f[k] :
          b = [page |-> base + f[k][j], pow |-> k]
    BY ListMember
  <2>2. PICK j \in DOMAIN f[k] : b = [page |-> base + f[k][j], pow |-> k]
    BY <2>1
  <2>3. CASE k # p
    BY <2>2, <2>3, <1>4, ListElem
  <2>4. CASE k = p
    <3>1. j # i
      BY <1>7, <2>2, <2>4
    <3>2. PICK m \in DOMAIN g[p] : g[p][m] = f[p][j]
      <4>1. CASE j < i
        <5>1. j \in DOMAIN g[p] /\ g[p][j] = f[p][j]
          BY <4>1, <2>4, <1>2, <1>3
        <5> QED BY <5>1
      <4>2. CASE j > i
        <5>0. j \in 1..Len(f[p]) /\ j - 1 \in 1..(Len(f[p]) - 1) /\ ~(j - 1 < i)
              /\ (j - 1) + 1 = j
          BY <4>2, <2>4, <1>2
        <5>1. j - 1 \in DOMAIN g[p] /\ g[p][j - 1] = f[p][j]
          BY <5>0, <1>3
        <5> QED BY <5>1
      <4> QED BY <3>1, <4>1, <4>2, <2>4, <1>2
    <3>3. b = [page |-> base + g[p][m], pow |-> p]
      BY <2>2, <2>4, <3>2
    <3> QED BY <3>3, ListElem
  <2> QED BY <2>3, <2>4
<1>8. AllInjective(g)
  <2>1. ASSUME NEW a \in DOMAIN g[p], NEW c \in DOMAIN g[p], g[p][a] = g[p][c]
        PROVE  a = c
    <3> DEFINE Src(m) == IF m < i THEN m ELSE m + 1
    <3>1. Src(a) \in DOMAIN f[p] /\ Src(c) \in DOMAIN f[p]
      BY <1>2, <1>3
    <3>2. g[p][a] = f[p][Src(a)] /\ g[p][c] = f[p][Src(c)]
      BY <1>3
    <3>3. Src(a) = Src(c)
      <4> HIDE DEF Src
      <4> QED BY <2>1, <3>1, <3>2, <1>5 DEF IsInjective
    <3>4. a \in Nat /\ c \in Nat
      BY <1>2, <1>3
    <3> QED BY <3>3, <3>4, <1>2
  <2>2. IsInjective(g[p])
    BY <2>1 DEF IsInjective
  <2> QED BY <1>4, <2>2 DEF AllInjective
<1>9. old \notin ListBlocks(base, g)
  BY <1>6
<1> QED BY <1>6, <1>7, <1>8, <1>9

(* The right halves that splitting a block of power p at page x leaves.     *)
Rights(x, req, p) == {[page |-> x + Shl[k], pow |-> k] : k \in req..(p - 1)}

LEMMA ListSplit ==
  ASSUME NEW base \in Nat, NEW f \in Lists, AllInjective(f),
         NEW p \in Pows, NEW req \in 0..p, f[p] # << >>,
         \A k \in Pows : req =< k /\ k < p => f[k] = << >>,
         NEW g, g[p] = Tail(f[p]),
         \A k \in Pows : req =< k /\ k < p => g[k] = << Head(f[p]) + Shl[k] >> \o f[k],
         \A k \in Pows : k # p /\ ~(req =< k /\ k < p) => g[k] = f[k]
  PROVE  /\ ListBlocks(base, g) =
              (ListBlocks(base, f) \ {[page |-> base + Head(f[p]), pow |-> p]})
                 \cup Rights(base + Head(f[p]), req, p)
         /\ AllInjective(g)
<1> DEFINE x == Head(f[p])
           h == [f EXCEPT ![p] = Tail(f[p])]
           In(k) == req =< k /\ k < p
<1>1. /\ f[p] \in Seq(Nat) /\ Len(f[p]) \in Nat /\ Len(f[p]) >= 1
      /\ x = f[p][1] /\ x \in Nat
      /\ Tail(f[p]) \in Seq(Nat) /\ DOMAIN Tail(f[p]) = 1..(Len(f[p]) - 1)
      /\ \A j \in 1..(Len(f[p]) - 1) : Tail(f[p])[j] = f[p][j + 1]
  BY TailProperties DEF Lists
<1>2. h[p] = Tail(f[p]) /\ \A k \in Pows : k # p => h[k] = f[k]
  BY DEF Lists
<1>3. g[p] = h[p] /\ \A k \in Pows : ~In(k) => g[k] = h[k]
  BY <1>2
<1>4. ASSUME NEW k \in Pows, In(k)
      PROVE  h[k] = << >> /\ g[k] = << x + Shl[k] >> /\ x + Shl[k] \in Nat
  <2>1. k # p /\ f[k] = << >>
    BY <1>4, ShlAssumption
  <2>2. g[k] = << x + Shl[k] >> \o << >>
    BY <2>1, <1>4
  <2>3. x + Shl[k] \in Nat
    <3>1. x \in Nat /\ Shl[k] \in Nat
      BY <1>1, PowType
    <3> HIDE DEF x
    <3> QED BY <3>1
  <2> HIDE DEF x
  <2>4. << x + Shl[k] >> \o << >> = << x + Shl[k] >>
    BY <2>3
  <2> QED BY <2>1, <2>2, <2>3, <2>4, <1>2
<1> HIDE DEF x, h, In
<1>5. 1 \in DOMAIN f[p]
  BY <1>1
<1>6. Removed(f, h, p, 1)
  BY <1>1, <1>2 DEF Removed
<1>7. /\ ListBlocks(base, h) = ListBlocks(base, f) \ {[page |-> base + x, pow |-> p]}
      /\ AllInjective(h)
  <2>1. ListBlocks(base, h) = ListBlocks(base, f) \ {[page |-> base + f[p][1], pow |-> p]}
    BY <1>5, <1>6, ListRemove
  <2>2. AllInjective(h)
    BY <1>5, <1>6, ListRemove
  <2> QED BY <1>1, <2>1, <2>2
<1>8. ASSUME NEW b \in ListBlocks(base, g)
      PROVE  b \in ListBlocks(base, h) \cup Rights(base + x, req, p)
  <2>1. PICK k \in Pows : \E j \in DOMAIN g[k] :
          b = [page |-> base + g[k][j], pow |-> k]
    BY ListMember
  <2>2. PICK j \in DOMAIN g[k] : b = [page |-> base + g[k][j], pow |-> k]
    BY <2>1
  <2>3. CASE ~In(k)
    <3>1. j \in DOMAIN h[k] /\ b = [page |-> base + h[k][j], pow |-> k]
      BY <2>2, <2>3, <1>3
    <3> QED BY <3>1, ListElem
  <2>4. CASE In(k)
    <3>1. j = 1 /\ g[k][j] = x + Shl[k]
      BY <2>4, <1>4
    <3>0. x \in Nat /\ Shl[k] \in Nat /\ k \in Nat /\ p \in Nat /\ req \in Nat
      BY <1>1, PowType
    <3>2. base + (x + Shl[k]) = (base + x) + Shl[k] /\ k \in req..(p - 1)
      BY <2>4, <3>0 DEF In
    <3>3. b = [page |-> (base + x) + Shl[k], pow |-> k]
      BY <2>2, <3>1, <3>2
    <3> QED BY <3>2, <3>3 DEF Rights
  <2> QED BY <2>3, <2>4
<1>9. ASSUME NEW b \in ListBlocks(base, h) PROVE b \in ListBlocks(base, g)
  <2>1. PICK k \in Pows : \E j \in DOMAIN h[k] :
          b = [page |-> base + h[k][j], pow |-> k]
    BY ListMember
  <2>2. PICK j \in DOMAIN h[k] : b = [page |-> base + h[k][j], pow |-> k]
    BY <2>1
  <2>3. ~In(k)
    BY <2>2, <1>4
  <2>4. j \in DOMAIN g[k] /\ b = [page |-> base + g[k][j], pow |-> k]
    BY <2>2, <2>3, <1>3
  <2> QED BY <2>4, ListElem
<1>10. ASSUME NEW b \in Rights(base + x, req, p) PROVE b \in ListBlocks(base, g)
  <2>1. PICK k \in req..(p - 1) : b = [page |-> (base + x) + Shl[k], pow |-> k]
    BY DEF Rights
  <2>0. p \in Nat /\ p < MaxPow /\ MaxPow \in Nat
    BY PowType, ShlAssumption
  <2>a. k \in Nat /\ req =< k /\ k < p
    BY <2>0
  <2>2. k \in Pows /\ In(k)
    BY <2>0, <2>a DEF In, Pows
  <2>3. 1 \in DOMAIN g[k] /\ g[k][1] = x + Shl[k]
    BY <2>2, <1>4
  <2>4. base + (x + Shl[k]) = (base + x) + Shl[k]
    <3>1. x \in Nat /\ Shl[k] \in Nat
      BY <1>1, <2>2, PowType
    <3> QED BY <3>1
  <2>5. b = [page |-> base + g[k][1], pow |-> k]
    BY <2>1, <2>3, <2>4
  <2> QED BY <2>2, <2>3, <2>5, ListElem
<1>11. AllInjective(g)
  <2>1. ASSUME NEW k \in Pows PROVE IsInjective(g[k])
    <3>1. CASE In(k)
      BY <3>1, <1>4 DEF IsInjective
    <3>2. CASE ~In(k)
      BY <3>2, <1>3, <1>7 DEF AllInjective
    <3> QED BY <3>1, <3>2
  <2> QED BY <2>1 DEF AllInjective
<1>12. ListBlocks(base, g) = ListBlocks(base, h) \cup Rights(base + x, req, p)
  BY <1>8, <1>9, <1>10
<1> QED BY <1>7, <1>11, <1>12 DEF x

-----------------------------------------------------------------------------
(* Sets of blocks and the pages they cover. *)
Covers(B, x) == \E b \in B : x \in Pages(b)

LEMMA PagesOf ==
  ASSUME NEW b \in Block, NEW x
  PROVE  /\ x \in Pages(b) <=> x \in Int /\ b.page =< x /\ x < b.page + Shl[b.pow]
         /\ b.page \in Pages(b)
<1>1. b.page \in Nat /\ b.pow \in Pows
  BY DEF Block
<1>2. Shl[b.pow] \in Nat /\ Shl[b.pow] >= 1
  BY <1>1, PowType
<1> QED BY <1>1, <1>2 DEF Pages

(* Blocks D of a tiling may be replaced by blocks C with the same pages. *)
LEMMA Retile ==
  ASSUME NEW A, NEW D, NEW C, Apart(A), D \subseteq A, Apart(C), C \subseteq Block,
         \A x : Covers(C, x) <=> Covers(D, x)
  PROVE  /\ Apart((A \ D) \cup C)
         /\ (A \ D) \cap C = {}
         /\ \A x : Covers((A \ D) \cup C, x) <=> Covers(A, x)
<1>1. ASSUME NEW a \in A \ D, NEW c \in C PROVE Pages(a) \cap Pages(c) = {}
  <2> SUFFICES ASSUME NEW x, x \in Pages(a), x \in Pages(c) PROVE FALSE
    OBVIOUS
  <2>1. Covers(D, x)
    BY DEF Covers
  <2>2. PICK d \in D : x \in Pages(d)
    BY <2>1 DEF Covers
  <2> QED BY <2>2 DEF Apart
<1>2. Apart((A \ D) \cup C)
  <2> SUFFICES ASSUME NEW b \in (A \ D) \cup C, NEW c \in (A \ D) \cup C, b # c
               PROVE  Pages(b) \cap Pages(c) = {}
    BY DEF Apart
  <2>1. CASE b \in A \ D /\ c \in A \ D
    BY <2>1 DEF Apart
  <2>2. CASE b \in C /\ c \in C
    BY <2>2 DEF Apart
  <2> QED BY <2>1, <2>2, <1>1
<1>3. (A \ D) \cap C = {}
  <2> SUFFICES ASSUME NEW c \in C, c \in A \ D PROVE FALSE
    OBVIOUS
  <2>1. c.page \in Pages(c)
    BY PagesOf
  <2> QED BY <1>1, <2>1
<1>4. \A x : Covers((A \ D) \cup C, x) <=> Covers(A, x)
  BY DEF Covers
<1> QED BY <1>2, <1>3, <1>4

(* What a split leaves has the pages of the block that was split. *)
LEMMA SplitCover ==
  ASSUME NEW x \in Nat, NEW p \in Pows, NEW req \in 0..p
  PROVE  LET left == [page |-> x, pow |-> req]
             C == {left} \cup Rights(x, req, p)
         IN  /\ C \subseteq Block
             /\ left \notin Rights(x, req, p)
             /\ Apart(C)
             /\ \A y : Covers(C, y) <=> Covers({[page |-> x, pow |-> p]}, y)
<1> DEFINE left == [page |-> x, pow |-> req]
           whole == [page |-> x, pow |-> p]
           right(k) == [page |-> x + Shl[k], pow |-> k]
           C == {left} \cup Rights(x, req, p)
<1>0. p \in Nat /\ MaxPow \in Nat /\ p < MaxPow /\ req \in Nat /\ req =< p
  BY PowType, ShlAssumption
<1>1. req \in Pows /\ \A k \in req..(p - 1) : k \in Pows /\ k + 1 \in 0..p /\ k \in Nat
  BY <1>0 DEF Pows
<1>2. left \in Block /\ whole \in Block
  BY <1>1 DEF Block
<1>3. ASSUME NEW k \in req..(p - 1) PROVE right(k) \in Block
  <2>1. x + Shl[k] \in Nat /\ k \in Pows
    BY <1>1, PowType
  <2> QED BY <2>1 DEF Block
<1>4. ASSUME NEW y PROVE y \in Pages(left) <=> y \in Int /\ x =< y /\ y < x + Shl[req]
  BY <1>2, PagesOf
<1>5. ASSUME NEW y PROVE y \in Pages(whole) <=> y \in Int /\ x =< y /\ y < x + Shl[p]
  BY <1>2, PagesOf
<1>6. ASSUME NEW k \in req..(p - 1), NEW y
      PROVE  y \in Pages(right(k)) <=>
               y \in Int /\ x + Shl[k] =< y /\ y < x + Shl[k + 1]
  <2>1. /\ Shl[k] \in Nat /\ Shl[k + 1] = Shl[k] + Shl[k]
    BY <1>1, PowType
  <2>2. y \in Pages(right(k)) <=>
          y \in Int /\ x + Shl[k] =< y /\ y < (x + Shl[k]) + Shl[k]
    BY <1>3, PagesOf
  <2>3. (x + Shl[k]) + Shl[k] = x + Shl[k + 1]
    BY <2>1
  <2> QED BY <2>2, <2>3
<1>7. ASSUME NEW c \in Rights(x, req, p)
      PROVE  \E k \in req..(p - 1) : c = right(k)
  BY DEF Rights
<1>8. ASSUME NEW k \in req..(p - 1) PROVE right(k) \in Rights(x, req, p)
  BY DEF Rights
<1>9. ASSUME NEW k \in 0..p PROVE Shl[k] \in Nat /\ Shl[k] >= 1
  BY <1>0, ShlPositive
<1>10. ASSUME NEW k \in 0..p, NEW m \in 0..p, k =< m PROVE Shl[k] =< Shl[m]
  BY <1>0, <1>10, ShlMonotone
<1>11. p \in 0..p /\ req \in 0..p /\ \A k \in req..(p - 1) : k \in 0..p
  BY <1>0
<1> HIDE DEF left, whole, right
<1>12. left \notin Rights(x, req, p)
  <2> SUFFICES ASSUME NEW k \in req..(p - 1), left = right(k) PROVE FALSE
    BY <1>7
  <2>1. x = x + Shl[k]
    BY DEF left, right
  <2> QED BY <2>1, <1>9, <1>11
<1>13. ASSUME NEW y PROVE Covers(C, y) <=> Covers({whole}, y)
  <2>1. ASSUME Covers(C, y) PROVE y \in Pages(whole)
    <3>1. CASE y \in Pages(left)
      <4>1. Shl[req] =< Shl[p] /\ Shl[p] \in Nat /\ Shl[req] \in Nat
        BY <1>0, <1>9, <1>10, <1>11
      <4> QED BY <3>1, <4>1, <1>4, <1>5
    <3>2. ASSUME NEW k \in req..(p - 1), y \in Pages(right(k)) PROVE y \in Pages(whole)
      <4>1. k + 1 \in 0..p /\ k + 1 =< p /\ k \in 0..p
        BY <1>0, <1>1, <1>11
      <4>2. Shl[k + 1] =< Shl[p] /\ Shl[p] \in Nat /\ Shl[k + 1] \in Nat /\ Shl[k] \in Nat
        BY <4>1, <1>9, <1>10, <1>11
      <4>3. y \in Int /\ x + Shl[k] =< y /\ y < x + Shl[k + 1]
        BY <3>2, <1>6
      <4>4. y \in Int /\ x =< y /\ y < x + Shl[p]
        BY <4>2, <4>3
      <4> QED BY <4>4, <1>5
    <3>3. PICK c \in C : y \in Pages(c)
      BY <2>1 DEF Covers
    <3> QED BY <3>1, <3>2, <3>3, <1>7
  <2>2. ASSUME y \in Pages(whole) PROVE Covers(C, y)
    <3>1. y \in Int /\ x =< y /\ y < x + Shl[p]
      BY <2>2, <1>5
    <3>2. CASE y < x + Shl[req]
      <4>1. y \in Pages(left)
        BY <3>1, <3>2, <1>4
      <4> QED BY <4>1 DEF Covers
    <3>3. CASE ~(y < x + Shl[req])
      <4>1. Shl[req] \in Nat /\ Shl[p] \in Nat
        BY <1>9, <1>11
      <4>2. y - x \in Nat /\ Shl[req] =< y - x /\ y - x < Shl[p]
        BY <3>1, <3>3, <4>1
      <4>3. req \in 0..MaxPow /\ p \in 0..MaxPow
        BY <1>0
      <4>4. PICK k \in req..(p - 1) : Shl[k] =< y - x /\ y - x < Shl[k + 1]
        BY <4>2, <4>3, ShlFloor
      <4>5. Shl[k] \in Nat /\ Shl[k + 1] \in Nat
        BY <1>1, <1>9, <1>11
      <4>6. x + Shl[k] =< y /\ y < x + Shl[k + 1]
        BY <3>1, <4>4, <4>5
      <4>7. y \in Pages(right(k))
        BY <3>1, <4>6, <1>6
      <4> QED BY <4>7, <1>8 DEF Covers
    <3> QED BY <3>2, <3>3
  <2> QED BY <2>1, <2>2 DEF Covers
<1>14. Apart(C)
  <2>1. ASSUME NEW k \in req..(p - 1) PROVE Pages(left) \cap Pages(right(k)) = {}
    <3> SUFFICES ASSUME NEW y, y \in Pages(left), y \in Pages(right(k)) PROVE FALSE
      OBVIOUS
    <3>1. Shl[req] =< Shl[k] /\ Shl[req] \in Nat /\ Shl[k] \in Nat
      BY <1>0, <1>9, <1>10, <1>11
    <3>2. y \in Int /\ y < x + Shl[req] /\ x + Shl[k] =< y
      BY <1>4, <1>6
    <3> QED BY <3>1, <3>2
  <2>2. ASSUME NEW k \in req..(p - 1), NEW m \in req..(p - 1), k < m
        PROVE  Pages(right(k)) \cap Pages(right(m)) = {}
    <3> SUFFICES ASSUME NEW y, y \in Pages(right(k)), y \in Pages(right(m)) PROVE FALSE
      OBVIOUS
    <3>0. k + 1 \in 0..p /\ m \in 0..p /\ k + 1 =< m
      BY <2>2, <1>0, <1>1, <1>11
    <3>1. Shl[k + 1] =< Shl[m] /\ Shl[k + 1] \in Nat /\ Shl[m] \in Nat
      BY <3>0, <1>9, <1>10
    <3>2. y \in Int /\ y < x + Shl[k + 1] /\ x + Shl[m] =< y
      BY <1>6
    <3> QED BY <3>1, <3>2
  <2>3. ASSUME NEW k \in req..(p - 1), NEW m \in req..(p - 1), k # m
        PROVE  Pages(right(k)) \cap Pages(right(m)) = {}
    <3>1. k < m \/ m < k
      BY <2>3, <1>0
    <3> QED BY <3>1, <2>2
  <2>4. ASSUME NEW b \in C, NEW c \in C, b # c PROVE Pages(b) \cap Pages(c) = {}
    <3>1. b = left \/ \E k \in req..(p - 1) : b = right(k)
      BY <1>7
    <3>2. c = left \/ \E k \in req..(p - 1) : c = right(k)
      BY <1>7
    <3> QED BY <2>4, <3>1, <3>2, <2>1, <2>3
  <2> QED BY <2>4 DEF Apart
<1>15. C \subseteq Block
  BY <1>2, <1>3, <1>7
<1> QED BY <1>12, <1>13, <1>14, <1>15 DEF left, whole

(* Two neighbouring blocks of one power are a block of the next power.      *)
LEMMA MergeCover ==
  ASSUME NEW x \in Nat, NEW p \in Pows, p + 1 \in Pows
  PROVE  /\ [page |-> x, pow |-> p + 1] \in Block
         /\ \A y : Covers({[page |-> x, pow |-> p + 1]}, y) <=>
                   Covers({[page |-> x, pow |-> p], [page |-> x + Shl[p], pow |-> p]}, y)
<1> DEFINE whole == [page |-> x, pow |-> p + 1]
           left == [page |-> x, pow |-> p]
           right == [page |-> x + Shl[p], pow |-> p]
<1>1. Shl[p] \in Nat /\ Shl[p] >= 1 /\ Shl[p + 1] = Shl[p] + Shl[p]
  BY PowType
<1>2. x + Shl[p] \in Nat
  BY <1>1
<1>3. whole \in Block /\ left \in Block /\ right \in Block
  BY <1>2 DEF Block
<1>4. ASSUME NEW y
      PROVE  y \in Pages(whole) <=> y \in Pages(left) \/ y \in Pages(right)
  <2>1. y \in Pages(whole) <=> y \in Int /\ x =< y /\ y < x + Shl[p + 1]
    BY <1>3, PagesOf
  <2>2. y \in Pages(left) <=> y \in Int /\ x =< y /\ y < x + Shl[p]
    BY <1>3, PagesOf
  <2>3. y \in Pages(right) <=> y \in Int /\ x + Shl[p] =< y /\ y < (x + Shl[p]) + Shl[p]
    BY <1>3, PagesOf
  <2>4. (x + Shl[p]) + Shl[p] = x + Shl[p + 1]
    BY <1>1
  <2> HIDE DEF whole, left, right
  <2> QED BY <2>1, <2>2, <2>3, <2>4, <1>1
<1> HIDE DEF whole, left, right
<1>5. \A y : Covers({whole}, y) <=> Covers({left, right}, y)
  BY <1>4 DEF Covers
<1> QED BY <1>3, <1>5 DEF whole, left, right

-----------------------------------------------------------------------------
(* The zones. *)
LEMMA BuiltPart ==
  ASSUME TypeInv, NEW z \in DOMAIN Zones
  PROVE  /\ Built(z) \in Nat /\ Built(z) =< Zones[z].pages
         /\ \A x : x \in ZonePages(z) <=>
              x \in Int /\ Zones[z].base =< x /\ x < Zones[z].base + Built(z)
<1>1. Zones[z].pages \in Nat /\ Zones[z].base \in Nat
  BY ZoneType
<1>2. CASE z =< zone_num
  BY <1>1, <1>2 DEF Built, ZonePages
<1>3. CASE ~(z =< zone_num) /\ op.pc = "zone" /\ z = op.zone
  <2>1. op.page \in Nat /\ op.page =< Zones[z].pages
    BY <1>3 DEF TypeInv, TypeOK, Op
  <2> QED BY <1>1, <1>3, <2>1 DEF Built, ZonePages
<1>4. CASE ~(z =< zone_num) /\ ~(op.pc = "zone" /\ z = op.zone)
  <2>1. Built(z) = 0
    BY <1>4 DEF Built
  <2> QED BY <1>1, <2>1 DEF ZonePages
<1> QED BY <1>2, <1>3, <1>4

LEMMA ZonesApart ==
  ASSUME TypeInv, NEW y \in DOMAIN Zones, NEW z \in DOMAIN Zones, y # z
  PROVE  ZonePages(y) \cap ZonePages(z) = {}
<1> SUFFICES ASSUME NEW x, x \in ZonePages(y), x \in ZonePages(z) PROVE FALSE
  OBVIOUS
<1>1. /\ Zones[y].base \in Nat /\ Zones[y].pages \in Nat
      /\ Zones[z].base \in Nat /\ Zones[z].pages \in Nat
  BY ZoneType
<1>2. /\ x \in Int
      /\ Zones[y].base =< x /\ x < Zones[y].base + Built(y)
      /\ Zones[z].base =< x /\ x < Zones[z].base + Built(z)
      /\ Built(y) \in Nat /\ Built(z) \in Nat
      /\ Built(y) =< Zones[y].pages /\ Built(z) =< Zones[z].pages
  BY BuiltPart
<1>3. \/ Zones[y].base + Zones[y].pages =< Zones[z].base
      \/ Zones[z].base + Zones[z].pages =< Zones[y].base
  BY ZonesAssumption
<1> QED BY <1>1, <1>2, <1>3

LEMMA FreeInType ==
  ASSUME TypeInv, NEW z \in DOMAIN Zones
  PROVE  /\ pows[z] \in Lists
         /\ FreeIn(z) \subseteq Block
<1>1. pows[z] \in Lists
  BY DEF TypeInv, TypeOK, Lists
<1>2. Zones[z].base \in Nat
  BY ZoneType
<1>3. ASSUME NEW b \in FreeIn(z) PROVE b \in Block
  <2>1. PICK k \in Pows : \E i \in DOMAIN pows[z][k] :
          b = [page |-> Zones[z].base + pows[z][k][i], pow |-> k]
    BY <1>3, ListMember DEF FreeIn
  <2>2. PICK i \in DOMAIN pows[z][k] :
          b = [page |-> Zones[z].base + pows[z][k][i], pow |-> k]
    BY <2>1
  <2>3. pows[z][k] \in Seq(Nat)
    BY <1>1 DEF Lists
  <2>4. pows[z][k][i] \in Nat
    BY <2>3
  <2>5. Zones[z].base + pows[z][k][i] \in Nat
    BY <1>2, <2>4
  <2> QED BY <2>2, <2>5 DEF Block
<1> QED BY <1>1, <1>3

LEMMA FreeInApart ==
  ASSUME TypeInv, BlocksInZone, NEW y \in DOMAIN Zones, NEW z \in DOMAIN Zones, y # z
  PROVE  FreeIn(y) \cap FreeIn(z) = {}
<1> SUFFICES ASSUME NEW b \in FreeIn(y), b \in FreeIn(z) PROVE FALSE
  OBVIOUS
<1>1. b.page \in Pages(b)
  BY FreeInType, PagesOf
<1>2. Pages(b) \subseteq ZonePages(y) /\ Pages(b) \subseteq ZonePages(z)
  BY DEF BlocksInZone
<1> QED BY <1>1, <1>2, ZonesApart

(* A step that changes the lists of one zone. *)
LEMMA FreeReplace ==
  ASSUME TypeInv, BlocksInZone, NEW z \in DOMAIN Zones,
         \A y \in DOMAIN Zones : y # z => pows'[y] = pows[y],
         NEW D, D \subseteq FreeIn(z), NEW C, FreeIn(z)' = (FreeIn(z) \ D) \cup C
  PROVE  FreeBlocks' = (FreeBlocks \ D) \cup C
<1>1. ASSUME NEW y \in DOMAIN Zones, y # z PROVE FreeIn(y)' = FreeIn(y)
  BY <1>1 DEF FreeIn
<1>2. \A b : b \in FreeBlocks <=> \E y \in DOMAIN Zones : b \in FreeIn(y)
  BY DEF FreeBlocks
<1>3. \A b : b \in FreeBlocks' <=> \E y \in DOMAIN Zones : b \in FreeIn(y)'
  BY DEF FreeBlocks
<1>4. ASSUME NEW y \in DOMAIN Zones, y # z PROVE FreeIn(y) \cap D = {}
  BY <1>4, FreeInApart
<1>5. ASSUME NEW b \in FreeBlocks' PROVE b \in (FreeBlocks \ D) \cup C
  <2>1. PICK y \in DOMAIN Zones : b \in FreeIn(y)'
    BY <1>3
  <2>2. CASE y = z
    BY <2>1, <2>2, <1>2
  <2>3. CASE y # z
    BY <2>1, <2>3, <1>1, <1>2, <1>4
  <2> QED BY <2>2, <2>3
<1>6. ASSUME NEW b \in (FreeBlocks \ D) \cup C PROVE b \in FreeBlocks'
  <2>1. CASE b \in C
    BY <2>1, <1>3
  <2>2. CASE b \in FreeBlocks \ D
    <3>1. PICK y \in DOMAIN Zones : b \in FreeIn(y)
      BY <2>2, <1>2
    <3>2. CASE y = z
      BY <2>2, <3>1, <3>2, <1>3
    <3>3. CASE y # z
      BY <3>1, <3>3, <1>1, <1>3
    <3> QED BY <3>2, <3>3
  <2> QED BY <2>1, <2>2
<1> QED BY <1>5, <1>6

-----------------------------------------------------------------------------
TileInv == PagesDisjoint /\ PagesKept /\ BlocksInZone

(* The block in the merge loop is in the zone whose lists the loop searches. *)
HandInZone == \A h \in InHand : Pages(h) \subseteq ZonePages(op.zone)

(* A step inside zone z takes Fd out of its lists and Od away from their    *)
(* owners, puts Fc and Oc there, and both have the same pages.             *)
TileChange(z, Fd, Fc, Od, Oc) ==
    /\ z \in 1..zone_num /\ z \in DOMAIN Zones
    /\ zone_num' = zone_num /\ op.pc # "zone" /\ op'.pc # "zone"
    /\ \A y \in DOMAIN Zones : y # z => pows'[y] = pows[y]
    /\ AllInjective(pows'[z])
    /\ Fd \subseteq FreeIn(z) /\ FreeIn(z)' = (FreeIn(z) \ Fd) \cup Fc
    /\ Od \subseteq Owned /\ Owned' = (Owned \ Od) \cup Oc
    /\ held' \cap extended_pools' = {}
    /\ InHand' \cap (held' \cup extended_pools') = {}
    /\ Fc \cap Oc = {} /\ Fc \cup Oc \subseteq Block /\ Apart(Fc \cup Oc)
    /\ \A x : Covers(Fc \cup Oc, x) <=> Covers(Fd \cup Od, x)
    /\ \A c \in Fc \cup Oc : Pages(c) \subseteq ZonePages(z)

LEMMA TileStep ==
  ASSUME TypeInv, TypeInv', TileInv, NEW z, NEW Fd, NEW Fc, NEW Od, NEW Oc,
         TileChange(z, Fd, Fc, Od, Oc)
  PROVE  TileInv'
<1> USE DEF TileChange
<1> DEFINE D == Fd \cup Od
           C == Fc \cup Oc
<1>1. /\ OneHome /\ Apart(Blocks) /\ PagesKept /\ BlocksInZone
      /\ FreeBlocks \cap Owned = {}
  BY DEF TileInv, PagesDisjoint, OneHome
<1>2. FreeBlocks' = (FreeBlocks \ Fd) \cup Fc
  BY <1>1, FreeReplace
<1>3. Fd \subseteq FreeBlocks
  BY DEF FreeBlocks
<1>4. Blocks' = (Blocks \ D) \cup C /\ D \subseteq Blocks
  BY <1>1, <1>2, <1>3 DEF Blocks
<1>5. /\ Apart(Blocks')
      /\ (Blocks \ D) \cap C = {}
      /\ \A x : Covers(Blocks', x) <=> Covers(Blocks, x)
  <2>1. Apart(Blocks)
    BY <1>1
  <2> HIDE DEF D, C
  <2>2. C \subseteq Block /\ Apart(C) /\ \A x : Covers(C, x) <=> Covers(D, x)
    BY DEF C, D
  <2>3. /\ Apart((Blocks \ D) \cup C)
        /\ (Blocks \ D) \cap C = {}
        /\ \A x : Covers((Blocks \ D) \cup C, x) <=> Covers(Blocks, x)
    BY <1>4, <2>1, <2>2, Retile
  <2> QED BY <1>4, <2>3
<1>6. FreeBlocks' \cap Owned' = {}
  <2>1. Fc \cap (Owned \ Od) = {}
    BY <1>1, <1>3, <1>5 DEF Blocks
  <2>2. Oc \cap (FreeBlocks \ Fd) = {}
    BY <1>1, <1>5 DEF Blocks
  <2>3. (FreeBlocks \ Fd) \cap (Owned \ Od) = {}
    BY <1>1
  <2> QED BY <1>2, <2>1, <2>2, <2>3
<1>7. ASSUME NEW y \in DOMAIN Zones PROVE ZonePages(y)' = ZonePages(y)
  BY DEF ZonePages, Built
<1>8. OneHome'
  <2>1. ASSUME NEW y \in DOMAIN Zones, NEW k \in Pows PROVE IsInjective(pows'[y][k])
    <3>1. CASE y = z
      BY <3>1 DEF AllInjective
    <3>2. CASE y # z
      BY <3>2, <1>1 DEF OneHome
    <3> QED BY <3>1, <3>2
  <2> QED BY <2>1, <1>6 DEF OneHome
<1>9. PagesDisjoint'
  <2>1. Apart(Blocks)'
    BY <1>5 DEF Apart, Pages
  <2> QED BY <1>8, <2>1 DEF PagesDisjoint
<1>10. PagesKept'
  <2>1. ASSUME NEW y \in DOMAIN Zones, NEW x \in ZonePages(y)
        PROVE  \E b \in Blocks' : x \in Pages(b)
    <3>1. Covers(Blocks, x)
      BY <1>1 DEF PagesKept, Covers
    <3> QED BY <3>1, <1>5 DEF Covers
  <2> QED BY <2>1, <1>7 DEF PagesKept, Pages
<1>11. BlocksInZone'
  <2>1. ASSUME NEW y \in DOMAIN Zones, NEW b \in FreeIn(y)'
        PROVE  Pages(b) \subseteq ZonePages(y)
    <3>1. CASE y # z
      <4>1. FreeIn(y)' = FreeIn(y)
        BY <3>1 DEF FreeIn
      <4> QED BY <4>1, <1>1 DEF BlocksInZone
    <3>2. CASE y = z /\ b \in Fc
      BY <3>2
    <3>3. CASE y = z /\ b \in FreeIn(z)
      BY <3>3, <1>1 DEF BlocksInZone
    <3> QED BY <3>1, <3>2, <3>3
  <2>2. ASSUME NEW b \in Owned'
        PROVE  \E y \in 1..zone_num : Pages(b) \subseteq ZonePages(y)
    <3>1. CASE b \in Oc
      BY <3>1
    <3>2. CASE b \in Owned
      BY <3>2, <1>1 DEF BlocksInZone
    <3> QED BY <3>1, <3>2
  <2>3. 1..zone_num \subseteq DOMAIN Zones
    BY ZonesAssumption DEF TypeInv, TypeOK
  <2>4. \A y \in DOMAIN Zones : \A b \in FreeIn(y)' : Pages(b) \subseteq ZonePages(y)'
    BY <2>1, <1>7
  <2>5. \A b \in Owned' : \E y \in 1..zone_num' : Pages(b) \subseteq ZonePages(y)'
    BY <2>2, <2>3, <1>7
  <2> QED BY <2>4, <2>5 DEF BlocksInZone, Pages
<1> QED BY <1>9, <1>10, <1>11 DEF TileInv

-----------------------------------------------------------------------------
(* The zone that serves a request, and what it does to its lists. *)
LEMMA ServeLowest ==
  ASSUME TypeOK, NEW req \in 0..MaxPow, ServingZones(req) # {},
         NEW k \in Pows, req =< k, k < ServingPow(req)
  PROVE  pows[ServingZone(req)][k] = << >>
<1> DEFINE S == ServingPows(ServingZone(req), req)
<1>1. S \subseteq Nat
  BY ShlAssumption DEF ServingPows, Pows
<1>2. ASSUME k \in S PROVE FALSE
  <2>1. S # {}
    BY <1>2
  <2>2. Min(S) =< k /\ Min(S) \in S
    <3> HIDE DEF S
    <3> QED BY <1>1, <1>2, <2>1, MinNat
  <2>3. ServingPow(req) = Min(S)
    BY DEF ServingPow
  <2>4. Min(S) \in Nat /\ k \in Nat
    <3> HIDE DEF S
    <3> QED BY <1>1, <1>2, <2>2
  <2> HIDE DEF S
  <2> QED BY <2>2, <2>3, <2>4
<1>3. req =< k /\ pows[ServingZone(req)][k] # << >> => k \in S
  BY DEF ServingPows
<1> QED BY <1>2, <1>3

LEMMA ServeLists ==
  ASSUME TypeInv, TileInv, NEW req \in 0..MaxPow, NEW extra, Serve(req, extra)
  PROVE  \E z \in 1..zone_num, p \in Pows : \E x \in Nat :
           /\ z \in DOMAIN Zones /\ req \in 0..p
           /\ ServedBlock(req) = [page |-> x, pow |-> req]
           /\ [page |-> x, pow |-> p] \in FreeIn(z)
           /\ FreeIn(z)' = (FreeIn(z) \ {[page |-> x, pow |-> p]}) \cup Rights(x, req, p)
           /\ AllInjective(pows'[z])
           /\ \A y \in DOMAIN Zones : y # z => pows'[y] = pows[y]
<1>0. PICK z \in 1..zone_num, p \in Pows :
        /\ z = ServingZone(req) /\ p = ServingPow(req)
        /\ z \in DOMAIN Zones /\ req =< p /\ pows[z][p] # << >>
  BY ServeFacts DEF Serve, CanServe, TypeInv
<1> DEFINE f == pows[z]
           g == SplitLists(z, p, req)
           base == Zones[z].base
           x == base + Head(f[p])
<1>1. /\ z \in 1..zone_num /\ z \in DOMAIN Zones /\ p \in Pows
      /\ req =< p /\ f[p] # << >>
  BY <1>0
<1>2. ASSUME NEW k \in Pows, req =< k, k < p PROVE f[k] = << >>
  BY <1>0, <1>2, ServeLowest DEF Serve, CanServe, TypeInv
<1>3. pows' = [pows EXCEPT ![z] = g]
  BY <1>0 DEF Serve
<1>4. /\ g[p] = Tail(f[p])
      /\ \A k \in Pows : req =< k /\ k < p => g[k] = << Head(f[p]) + Shl[k] >> \o f[k]
      /\ \A k \in Pows : k # p /\ ~(req =< k /\ k < p) => g[k] = f[k]
  <2>1. p \in Nat
    BY <1>1, PowType
  <2> QED BY <1>1, <2>1 DEF SplitLists
<1>5. ServedBlock(req) = [page |-> x, pow |-> req]
  BY <1>0 DEF ServedBlock
<1> HIDE DEF g
<1>6. f \in Lists /\ base \in Nat /\ AllInjective(f)
  BY <1>1, FreeInType, ZoneType DEF TileInv, PagesDisjoint, OneHome, AllInjective
<1>7. req \in 0..p
  BY <1>1, PowType
<1>8. /\ ListBlocks(base, g) =
           (ListBlocks(base, f) \ {[page |-> x, pow |-> p]}) \cup Rights(x, req, p)
      /\ AllInjective(g)
  <2> HIDE DEF f, base
  <2> QED BY <1>1, <1>2, <1>4, <1>6, <1>7, ListSplit
<1>9. pows'[z] = g /\ \A y \in DOMAIN Zones : y # z => pows'[y] = pows[y]
  BY <1>1, <1>3 DEF TypeInv, TypeOK
<1>10. x \in Nat /\ [page |-> x, pow |-> p] \in FreeIn(z)
  <2>1. f[p] \in Seq(Nat)
    BY <1>1, <1>6 DEF Lists
  <2>2. Head(f[p]) = f[p][1] /\ 1 \in DOMAIN f[p] /\ f[p][1] \in Nat
    BY <1>1, <2>1
  <2>3. [page |-> base + f[p][1], pow |-> p] \in ListBlocks(base, f)
    BY <1>1, <2>2, ListElem
  <2> QED BY <1>6, <2>2, <2>3 DEF FreeIn
<1>11. FreeIn(z)' = (FreeIn(z) \ {[page |-> x, pow |-> p]}) \cup Rights(x, req, p)
  BY <1>8, <1>9 DEF FreeIn
<1>12. AllInjective(pows'[z])
  BY <1>8, <1>9
<1> HIDE DEF x
<1> QED BY <1>1, <1>5, <1>7, <1>9, <1>10, <1>11, <1>12

(* Serving a request: the block leaves the lists, its left end goes to the  *)
(* caller or becomes a pool.                                               *)
LEMMA TileServe ==
  ASSUME TypeInv, TypeInv', TileInv, NEW req \in 0..MaxPow, NEW extra,
         Serve(req, extra), op.pc # "zone", op.pc # "merge",
         op'.pc # "zone", op'.pc # "merge", zone_num' = zone_num,
         \/ held' = held \cup {ServedBlock(req)} /\ extended_pools' = extended_pools
         \/ extended_pools' = extended_pools \cup {ServedBlock(req)} /\ held' = held
  PROVE  TileInv' /\ \A b \in held : Pages(b) \cap Pages(ServedBlock(req)) = {}
<1>1. PICK z \in 1..zone_num, p \in Pows : \E x \in Nat :
           /\ z \in DOMAIN Zones /\ req \in 0..p
           /\ ServedBlock(req) = [page |-> x, pow |-> req]
           /\ [page |-> x, pow |-> p] \in FreeIn(z)
           /\ FreeIn(z)' = (FreeIn(z) \ {[page |-> x, pow |-> p]}) \cup Rights(x, req, p)
           /\ AllInjective(pows'[z])
           /\ \A y \in DOMAIN Zones : y # z => pows'[y] = pows[y]
  BY ServeLists
<1>2. PICK x \in Nat :
           /\ z \in DOMAIN Zones /\ req \in 0..p
           /\ ServedBlock(req) = [page |-> x, pow |-> req]
           /\ [page |-> x, pow |-> p] \in FreeIn(z)
           /\ FreeIn(z)' = (FreeIn(z) \ {[page |-> x, pow |-> p]}) \cup Rights(x, req, p)
           /\ AllInjective(pows'[z])
           /\ \A y \in DOMAIN Zones : y # z => pows'[y] = pows[y]
  BY <1>1
<1> DEFINE whole == [page |-> x, pow |-> p]
           s == ServedBlock(req)
           R == Rights(x, req, p)
<1>3. /\ {s} \cup R \subseteq Block /\ s \notin R /\ Apart({s} \cup R)
      /\ \A y : Covers({s} \cup R, y) <=> Covers({whole}, y)
  BY <1>2, SplitCover
<1>4. InHand = {} /\ InHand' = {}
  BY DEF InHand
<1>5. held \cap extended_pools = {} /\ FreeBlocks \cap Owned = {} /\ Apart(Blocks)
  BY DEF TileInv, PagesDisjoint, OneHome
<1>6. Owned' = Owned \cup {s}
  BY <1>4 DEF Owned
<1>7. whole \in FreeBlocks
  BY <1>2 DEF FreeBlocks
<1>8. \A c \in {s} \cup R : Pages(c) \subseteq Pages(whole)
  BY <1>3 DEF Covers
<1>9. Pages(whole) \subseteq ZonePages(z)
  BY <1>2 DEF TileInv, BlocksInZone
<1> HIDE DEF whole, s, R
<1>10. ASSUME NEW b \in Owned PROVE Pages(b) \cap Pages(s) = {}
  <2>1. b # whole
    BY <1>5, <1>7
  <2>2. Pages(b) \cap Pages(whole) = {}
    BY <1>5, <1>7, <2>1 DEF Apart, Blocks
  <2> QED BY <2>2, <1>8
<1>11. s \notin Owned
  <2>1. s.page \in Pages(s)
    BY <1>3, PagesOf
  <2> QED BY <2>1, <1>10
<1>12. held' \cap extended_pools' = {}
  BY <1>5, <1>11 DEF Owned, s
<1>13. TileInv'
  <2>1. FreeIn(z)' = (FreeIn(z) \ {whole}) \cup R
    BY <1>2 DEF whole, R
  <2>2. Owned' = (Owned \ {}) \cup {s}
    BY <1>6
  <2>3. R \cup {s} \subseteq Block /\ R \cap {s} = {} /\ Apart(R \cup {s})
    <3>1. R \cup {s} = {s} \cup R
      OBVIOUS
    <3> QED BY <1>3, <3>1
  <2>4. \A y : Covers(R \cup {s}, y) <=> Covers({whole} \cup {}, y)
    <3>1. R \cup {s} = {s} \cup R /\ {whole} \cup {} = {whole}
      OBVIOUS
    <3> QED BY <1>3, <3>1
  <2>5. \A c \in R \cup {s} : Pages(c) \subseteq ZonePages(z)
    BY <1>8, <1>9
  <2>6. {whole} \subseteq FreeIn(z) /\ {} \subseteq Owned
    BY <1>2 DEF whole
  <2>7. InHand' \cap (held' \cup extended_pools') = {}
    BY <1>4
  <2>8. TileChange(z, {whole}, R, {}, {s})
    BY <1>2, <1>12, <2>1, <2>2, <2>3, <2>4, <2>5, <2>6, <2>7 DEF TileChange
  <2> QED BY <2>8, TileStep
<1>14. \A b \in held : Pages(b) \cap Pages(s) = {}
  BY <1>10 DEF Owned
<1> QED BY <1>13, <1>14 DEF s

-----------------------------------------------------------------------------
(* A step that moves no block and builds no page. *)
LEMMA TileSame ==
  ASSUME TileInv, UNCHANGED pows, InHand' \cap (held' \cup extended_pools') = {},
         held' \cap extended_pools' = {}, Owned' = Owned,
         \A z \in DOMAIN Zones : ZonePages(z)' = ZonePages(z),
         1..zone_num \subseteq 1..zone_num', 1..zone_num' \subseteq DOMAIN Zones
  PROVE  TileInv'
<1>1. FreeBlocks' = FreeBlocks /\ \A z \in DOMAIN Zones : FreeIn(z)' = FreeIn(z)
  BY DEF FreeBlocks, FreeIn
<1>2. Blocks' = Blocks
  BY <1>1 DEF Blocks
<1>3. PagesDisjoint'
  BY <1>1, <1>2 DEF TileInv, PagesDisjoint, OneHome, Apart, Pages
<1>4. PagesKept'
  BY <1>2 DEF TileInv, PagesKept, Pages
<1>5. BlocksInZone'
  <2>1. \A z \in DOMAIN Zones : \A b \in FreeIn(z)' : Pages(b) \subseteq ZonePages(z)'
    BY <1>1 DEF TileInv, BlocksInZone
  <2>2. \A b \in Owned' : \E z \in 1..zone_num' : Pages(b) \subseteq ZonePages(z)'
    BY DEF TileInv, BlocksInZone
  <2> QED BY <2>1, <2>2 DEF BlocksInZone, Pages
<1> QED BY <1>3, <1>4, <1>5 DEF TileInv

LEMMA TileFree ==
  ASSUME TypeInv, TypeInv', TileInv, NEW b \in held, free_pages(b), ~misMerged
  PROVE  TileInv' /\ HandInZone'
<1>1. PICK z \in 1..zone_num :
        /\ b.page \in Zones[z].base .. (Zones[z].base + Zones[z].pages - 1)
        /\ op' = MergeCall(b.pow, z, b.pow, b.page - Zones[z].base, b.pow)
  BY DEF free_pages
<1>2. z \in DOMAIN Zones
  BY ZonesAssumption DEF TypeInv, TypeOK
<1>3. b \in Block /\ b.page \in Nat /\ Zones[z].base \in Nat
  BY <1>2, ZoneType DEF TypeInv, TypeOK, Block
<1>4. InHand' = {b}
  <2>1. InHand' = {[page |-> Zones[z].base + (b.page - Zones[z].base), pow |-> b.pow]}
    BY <1>1 DEF InHand, MergeCall
  <2>2. Zones[z].base + (b.page - Zones[z].base) = b.page
    BY <1>3
  <2>3. b = [page |-> b.page, pow |-> b.pow]
    BY <1>3 DEF Block
  <2> QED BY <2>1, <2>2, <2>3
<1>5. InHand = {} /\ op.pc = "idle" /\ op'.pc = "merge"
  BY <1>1 DEF free_pages, Ready, Idle, Call, InHand, MergeCall
<1>6. /\ held' = held \ {b}
      /\ UNCHANGED <<zone_num, pows, extended_pools>>
  BY Zenon DEF free_pages
<1>7. held \cap extended_pools = {}
  BY DEF TileInv, PagesDisjoint, OneHome
<1>8. Owned' = Owned
  BY <1>4, <1>5, <1>6 DEF Owned
<1>9. \A y \in DOMAIN Zones : ZonePages(y)' = ZonePages(y)
  BY <1>5, <1>6 DEF ZonePages, Built
<1>10. InHand' \cap (held' \cup extended_pools') = {} /\ held' \cap extended_pools' = {}
  BY <1>4, <1>6, <1>7
<1>11. 1..zone_num \subseteq 1..zone_num' /\ 1..zone_num' \subseteq DOMAIN Zones
  BY <1>6, ZonesAssumption DEF TypeInv, TypeOK
<1>12. TileInv'
  BY <1>6, <1>8, <1>9, <1>10, <1>11, TileSame
<1>13. Pages(b) \subseteq ZonePages(z)
  <2>1. PICK y \in 1..zone_num : Pages(b) \subseteq ZonePages(y)
    BY DEF TileInv, BlocksInZone, Owned
  <2>2. b.page \in ZonePages(y)
    BY <2>1, <1>3, PagesOf
  <2>3. b.page \in ZonePages(z)
    <3>1. Built(z) = Zones[z].pages
      BY <1>1 DEF Built, TypeInv, TypeOK
    <3> QED BY <3>1, <1>1 DEF ZonePages
  <2>4. y \in DOMAIN Zones
    BY <1>11, <1>6
  <2> QED BY <2>1, <2>2, <2>3, <2>4, <1>2, ZonesApart
<1>14. HandInZone'
  <2>1. op'.zone = z
    BY <1>1 DEF MergeCall
  <2>2. \A h \in InHand' : Pages(h) \subseteq ZonePages(z)'
    BY <1>2, <1>4, <1>9, <1>13
  <2>3. ZonePages(op.zone)' = ZonePages(z)'
    BY <2>1 DEF ZonePages, Built
  <2> QED BY <2>2, <2>3 DEF HandInZone, Pages
<1> QED BY <1>12, <1>14

(* The block in the merge loop. *)
LEMMA HandFacts ==
  ASSUME TypeInv, TileInv, HandInZone, op.pc = "merge"
  PROVE  LET h == [page |-> Zones[op.zone].base + op.page, pow |-> op.final]
         IN  /\ InHand = {h} /\ h \in Owned
             /\ held \cap extended_pools = {} /\ h \notin held \cup extended_pools
             /\ Owned \ {h} = held \cup extended_pools
             /\ Pages(h) \subseteq ZonePages(op.zone)
<1> DEFINE h == [page |-> Zones[op.zone].base + op.page, pow |-> op.final]
<1>1. InHand = {h}
  BY DEF InHand
<1>2. h \in Owned /\ Owned = (held \cup extended_pools) \cup {h}
  BY <1>1 DEF Owned
<1>3. held \cap extended_pools = {} /\ h \notin held \cup extended_pools
  BY <1>1 DEF TileInv, PagesDisjoint, OneHome
<1>4. Pages(h) \subseteq ZonePages(op.zone)
  BY <1>1 DEF HandInZone
<1> QED BY <1>1, <1>2, <1>3, <1>4

LEMMA TileMergeEnd ==
  ASSUME TypeInv, TypeInv', TileInv, HandInZone, merge_end, ~Panicked'
  PROVE  TileInv' /\ HandInZone'
<1>1. op.pc = "merge"
  BY DEF merge_end
<1>2. PICK z \in 1..zone_num : z = op.zone /\ z \in DOMAIN Zones
  BY <1>1, MergeFacts
<1>3. PICK x \in Nat, k \in 0..MaxPow : x = op.page /\ k = op.final
  BY <1>1, MergeFacts
<1> DEFINE h == [page |-> Zones[z].base + x, pow |-> k]
<1>4. ~(NoNode \/ k = MaxPow)
  BY <1>3 DEF merge_end, Panicked, Panic, Call
<1>5. /\ add_node(z, k, x) /\ op' = Idle
      /\ UNCHANGED <<zone_num, extended_pools, held>>
  BY <1>2, <1>3, <1>4 DEF merge_end
<1>6. k \in Pows
  BY <1>4, ShlAssumption DEF Pows
<1>7. Zones[z].base \in Nat /\ pows[z] \in Lists /\ h \in Block
  <2>1. Zones[z].base \in Nat /\ pows[z] \in Lists
    BY <1>2, ZoneType, FreeInType
  <2>2. Zones[z].base + x \in Nat
    BY <2>1
  <2> QED BY <2>1, <2>2, <1>6 DEF Block
<1>8. /\ InHand = {h} /\ h \in Owned
      /\ held \cap extended_pools = {} /\ h \notin held \cup extended_pools
      /\ Owned \ {h} = held \cup extended_pools
      /\ Pages(h) \subseteq ZonePages(z)
  BY <1>1, <1>2, <1>3, HandFacts
<1>9. op'.pc = "idle" /\ InHand' = {}
  BY <1>5 DEF Idle, Call, InHand
<1>10. h \notin FreeBlocks /\ \A y \in DOMAIN Zones : AllInjective(pows[y])
  BY <1>8 DEF TileInv, PagesDisjoint, OneHome, AllInjective
<1>11. h \notin FreeIn(z)
  BY <1>2, <1>10 DEF FreeBlocks
<1>12. /\ Pushed(pows[z], pows'[z], k, x)
       /\ \A y \in DOMAIN Zones : y # z => pows'[y] = pows[y]
  <2>1. pows' = [pows EXCEPT ![z][k] = <<x>> \o @]
    BY <1>5 DEF add_node
  <2>2. pows \in [DOMAIN Zones -> [Pows -> Seq(Nat)]]
    BY DEF TypeInv, TypeOK
  <2> QED BY <1>2, <1>6, <2>1, <2>2 DEF Pushed
<1>13. FreeIn(z)' = FreeIn(z) \cup {h} /\ AllInjective(pows'[z])
  <2>1. ListBlocks(Zones[z].base, pows'[z]) = ListBlocks(Zones[z].base, pows[z]) \cup {h}
    BY <1>6, <1>7, <1>12, ListPush
  <2>2. AllInjective(pows'[z])
    BY <1>2, <1>6, <1>7, <1>10, <1>11, <1>12, ListPush DEF FreeIn
  <2> QED BY <2>1, <2>2 DEF FreeIn
<1>14. Owned' = Owned \ {h}
  BY <1>5, <1>8, <1>9 DEF Owned
<1> HIDE DEF h
<1>15. TileChange(z, {}, {h}, {h}, {})
  <2>1. FreeIn(z)' = (FreeIn(z) \ {}) \cup {h} /\ Owned' = (Owned \ {h}) \cup {}
    BY <1>13, <1>14
  <2>2. {h} \cup {} = {h} /\ {} \cup {h} = {h}
    OBVIOUS
  <2>3. Apart({h} \cup {})
    BY DEF Apart
  <2>4. InHand' \cap (held' \cup extended_pools') = {} /\ held' \cap extended_pools' = {}
    BY <1>5, <1>8, <1>9
  <2> QED BY <1>1, <1>2, <1>5, <1>7, <1>8, <1>9, <1>12, <1>13, <2>1, <2>2, <2>3, <2>4
          DEF TileChange
<1>16. TileInv'
  BY <1>15, TileStep
<1>17. HandInZone'
  BY <1>9 DEF HandInZone
<1> QED BY <1>16, <1>17

LEMMA TileMergeFound ==
  ASSUME TypeInv, TypeInv', TileInv, HandInZone, merge_found, ~misMerged'
  PROVE  TileInv' /\ HandInZone'
<1>1. Merging /\ op.pc = "merge" /\ op.pow < MaxPow /\ op.pow = op.final
  <2>1. Merging /\ misMerged' = (misMerged \/ op.pow # op.final)
    BY DEF merge_found
  <2>2. op.pow = op.final
    BY <2>1, Zenon
  <2> QED BY <2>1, <2>2 DEF Merging
<1>2. PICK z \in 1..zone_num : z = op.zone /\ z \in DOMAIN Zones
  BY <1>1, MergeFacts
<1>3. PICK x \in Nat, k \in Pows : x = op.page /\ k = op.final /\ k = op.pow
  BY <1>1, MergeFacts
<1>4. PICK i \in DOMAIN pows[z][k] :
        /\ pows[z][k][i] = Partner
        /\ pows' = [pows EXCEPT ![z][k] = RemoveAt(@, i)]
  BY <1>2, <1>3 DEF merge_found, MergeList
<1>5. PICK base \in Nat : base = Zones[z].base
  BY <1>2, ZoneType
<1>6. PICK q \in Nat : q = pows[z][k][i]
  <2>1. pows[z][k] \in Seq(Nat)
    BY <1>2 DEF TypeInv, TypeOK
  <2> QED BY <2>1
<1>7. PICK w \in Nat :
        /\ w = IF IsLeft THEN op.page ELSE op.page - Shl[op.final]
        /\ w = IF IsLeft THEN x ELSE q
        /\ w + Shl[k] = IF IsLeft THEN q ELSE x
  <2>1. Shl[k] \in Nat
    BY PowType
  <2>2. q = IF IsLeft THEN x + Shl[k] ELSE x - Shl[k]
    BY <1>3, <1>4, <1>6 DEF Partner
  <2>3. CASE IsLeft
    BY <2>1, <2>2, <2>3, <1>3
  <2>4. CASE ~IsLeft
    <3>1. q = x - Shl[k] /\ q + Shl[k] = x
      BY <2>1, <2>2, <2>4
    <3> QED BY <2>4, <3>1, <1>3
  <2> QED BY <2>3, <2>4
<1> DEFINE h == [page |-> base + x, pow |-> k]
           partner == [page |-> base + q, pow |-> k]
           left == [page |-> base + w, pow |-> k]
           right == [page |-> (base + w) + Shl[k], pow |-> k]
           merged == [page |-> base + w, pow |-> k + 1]
<1>8. {h, partner} = {left, right}
  <2>1. Shl[k] \in Nat /\ (base + w) + Shl[k] = base + (w + Shl[k])
    <3>1. Shl[k] \in Nat
      BY PowType
    <3> QED BY <3>1
  <2>2. CASE IsLeft
    BY <1>7, <2>1, <2>2
  <2>3. CASE ~IsLeft
    BY <1>7, <2>1, <2>3
  <2> QED BY <2>2, <2>3
<1>9. /\ InHand = {h} /\ h \in Owned
      /\ held \cap extended_pools = {} /\ h \notin held \cup extended_pools
      /\ Owned \ {h} = held \cup extended_pools
      /\ Pages(h) \subseteq ZonePages(z)
  BY <1>1, <1>2, <1>3, <1>5, HandFacts
<1>10. /\ op'.pc = "merge" /\ op'.zone = z /\ op'.page = w /\ op'.final = k + 1
       /\ UNCHANGED <<zone_num, extended_pools, held>>
  BY <1>2, <1>3, <1>7 DEF merge_found, MergeCall
<1>11. InHand' = {merged}
  BY <1>5, <1>10 DEF InHand
<1>12. pows[z] \in Lists /\ AllInjective(pows[z]) /\ FreeBlocks \cap Owned = {}
  BY <1>2, FreeInType DEF TileInv, PagesDisjoint, OneHome, AllInjective
<1>13. /\ Removed(pows[z], pows'[z], k, i)
       /\ \A y \in DOMAIN Zones : y # z => pows'[y] = pows[y]
  <2>1. pows \in [DOMAIN Zones -> [Pows -> Seq(Nat)]]
    BY DEF TypeInv, TypeOK
  <2>2. pows[z][k] \in Seq(Nat)
    BY <1>2, <2>1
  <2>3. i \in 1..Len(pows[z][k])
    BY <2>2
  <2>4. /\ DOMAIN RemoveAt(pows[z][k], i) = 1..(Len(pows[z][k]) - 1)
        /\ \A j \in 1..(Len(pows[z][k]) - 1) :
             RemoveAt(pows[z][k], i)[j] = IF j < i THEN pows[z][k][j] ELSE pows[z][k][j + 1]
    BY <2>2, <2>3, RemoveAtProperties
  <2>5. /\ pows'[z][k] = RemoveAt(pows[z][k], i)
        /\ \A m \in Pows : m # k => pows'[z][m] = pows[z][m]
        /\ \A y \in DOMAIN Zones : y # z => pows'[y] = pows[y]
    BY <1>2, <1>4, <2>1
  <2> QED BY <2>4, <2>5 DEF Removed
<1>14. FreeIn(z)' = FreeIn(z) \ {partner} /\ AllInjective(pows'[z])
  <2>1. ListBlocks(base, pows'[z]) = ListBlocks(base, pows[z]) \ {partner}
    <3>1. partner = [page |-> base + pows[z][k][i], pow |-> k]
      BY <1>6
    <3> HIDE DEF partner
    <3> QED BY <3>1, <1>12, <1>13, ListRemove
  <2>2. AllInjective(pows'[z])
    BY <1>12, <1>13, ListRemove
  <2> QED BY <2>1, <2>2, <1>5 DEF FreeIn
<1>15. partner \in FreeIn(z) /\ Pages(partner) \subseteq ZonePages(z)
  <2>1. partner \in FreeIn(z)
    BY <1>5, <1>6, ListElem DEF FreeIn
  <2> QED BY <2>1, <1>2 DEF TileInv, BlocksInZone
<1>16. k + 1 \in Pows
  <2>1. left \in Block /\ right \in Block /\ base + w \in Nat /\ Shl[k] \in Nat
        /\ Shl[k] >= 1 /\ Shl[k + 1] = Shl[k] + Shl[k] /\ k \in Nat /\ k < MaxPow
    <3>1. Shl[k] \in Nat /\ Shl[k] >= 1 /\ Shl[k + 1] = Shl[k] + Shl[k]
          /\ k \in Nat /\ k < MaxPow
      BY PowType
    <3>2. base + w \in Nat /\ (base + w) + Shl[k] \in Nat
      BY <3>1
    <3> QED BY <3>1, <3>2 DEF Block
  <2>2. base + w \in Pages(left) /\ (base + w) + Shl[k] + (Shl[k] - 1) \in Pages(right)
    BY <2>1, PagesOf
  <2>3. /\ base + w \in ZonePages(z)
        /\ (base + w) + Shl[k] + (Shl[k] - 1) \in ZonePages(z)
    BY <2>2, <1>8, <1>9, <1>15
  <2>4. /\ base =< base + w /\ (base + w) + Shl[k] + (Shl[k] - 1) < base + Built(z)
        /\ Built(z) =< Zones[z].pages /\ Built(z) \in Nat
    BY <2>3, <1>2, <1>5, BuiltPart
  <2>5. Zones[z].pages < Shl[MaxPow] /\ Zones[z].pages \in Nat /\ MaxPow \in Nat
    BY <1>2, ZonesAssumption, ZoneType, ShlAssumption
  <2>6. Shl[MaxPow] \in Nat
    BY <2>5, ShlPositive
  <2>7. Shl[k + 1] < Shl[MaxPow]
    BY <2>1, <2>4, <2>5, <2>6
  <2>8. k + 1 # MaxPow
    BY <2>6, <2>7
  <2> QED BY <2>1, <2>5, <2>8 DEF Pows
<1>17. /\ merged \in Block
       /\ \A y : Covers({merged}, y) <=> Covers({left, right}, y)
  <2>1. base + w \in Nat
    OBVIOUS
  <2> QED BY <2>1, <1>16, MergeCover
<1> HIDE DEF h, partner, left, right, merged
<1>18. Pages(merged) \subseteq ZonePages(z)
  <2>1. \A y \in Pages(merged) : y \in Pages(left) \/ y \in Pages(right)
    BY <1>17 DEF Covers
  <2>2. Pages(left) \subseteq ZonePages(z) /\ Pages(right) \subseteq ZonePages(z)
    BY <1>8, <1>9, <1>15
  <2> QED BY <2>1, <2>2
<1>19. Owned' = (Owned \ {h}) \cup {merged}
  BY <1>9, <1>10, <1>11 DEF Owned
<1>20. merged \notin held \cup extended_pools
  <2>1. partner \in FreeBlocks
    BY <1>2, <1>15 DEF FreeBlocks
  <2>2. Apart(Blocks) /\ {h, partner} \subseteq Blocks
    BY <1>9, <2>1 DEF TileInv, PagesDisjoint, Blocks
  <2>3. Apart({merged})
    BY DEF Apart
  <2>4. (Blocks \ {h, partner}) \cap {merged} = {}
    <3> DEFINE D == {h, partner}
               C == {merged}
    <3>1. C \subseteq Block /\ \A y : Covers(C, y) <=> Covers(D, y)
      BY <1>8, <1>17
    <3>2. Apart(Blocks) /\ D \subseteq Blocks /\ Apart(C)
      BY <2>2, <2>3
    <3> HIDE DEF D, C
    <3>3. (Blocks \ D) \cap C = {}
      BY <3>1, <3>2, Retile
    <3> QED BY <3>3 DEF D, C
  <2>5. partner \notin held \cup extended_pools
    BY <1>12, <2>1 DEF Owned
  <2> QED BY <1>9, <2>4, <2>5 DEF Blocks, Owned
<1>21. TileChange(z, {partner}, {}, {h}, {merged})
  <2>1. FreeIn(z)' = (FreeIn(z) \ {partner}) \cup {}
    BY <1>14
  <2>2. {} \cup {merged} = {merged} /\ {partner} \cup {h} = {left, right}
    BY <1>8
  <2>3. Apart({} \cup {merged})
    BY DEF Apart
  <2>4. InHand' \cap (held' \cup extended_pools') = {} /\ held' \cap extended_pools' = {}
    BY <1>9, <1>10, <1>11, <1>20
  <2>5. \A y : Covers({} \cup {merged}, y) <=> Covers({partner} \cup {h}, y)
    BY <1>17, <2>2
  <2>6. /\ {} \cap {merged} = {} /\ {} \cup {merged} \subseteq Block
        /\ \A c \in {} \cup {merged} : Pages(c) \subseteq ZonePages(z)
    BY <1>17, <1>18
  <2>7. {partner} \subseteq FreeIn(z) /\ {h} \subseteq Owned
    BY <1>9, <1>15
  <2>8. z \in 1..zone_num /\ zone_num' = zone_num /\ op.pc # "zone" /\ op'.pc # "zone"
    BY <1>1, <1>10
  <2> QED BY <1>2, <1>13, <1>14, <1>19, <2>1, <2>3, <2>4, <2>5, <2>6, <2>7, <2>8
          DEF TileChange
<1>22. TileInv'
  BY <1>21, TileStep
<1>23. HandInZone'
  <2>1. ZonePages(op.zone)' = ZonePages(z)
    BY <1>1, <1>10 DEF ZonePages, Built
  <2> QED BY <2>1, <1>11, <1>18 DEF HandInZone, Pages
<1> QED BY <1>22, <1>23

(* MemoryZone::new puts the next block behind the built part of the zone.   *)
LEMMA TileNewZoneNode ==
  ASSUME TypeInv, TypeInv', TileInv, new_zone_node, ~Panicked'
  PROVE  TileInv' /\ HandInZone'
<1> DEFINE free1 == Zones[op.zone].pages - op.page
           fit == {p \in Pows : Shl[p] =< free1}
<1>1. PICK z \in DOMAIN Zones : z = op.zone /\ z = zone_num + 1
  BY DEF new_zone_node, TypeInv, TypeOK
<1>2. PICK x \in Nat : x = op.page /\ x < Zones[z].pages
  <2>1. op.page \in Nat /\ Zones[z].pages \in Nat
    BY ZoneType DEF TypeInv, TypeOK, Op
  <2> QED BY <1>1, <2>1 DEF new_zone_node
<1>3. PICK k \in Pows : k = Max(fit) /\ Shl[k] =< Zones[z].pages - x
  <2>0. Zones[z].pages \in Nat /\ free1 = Zones[z].pages - x
    BY <1>1, <1>2, ZoneType
  <2>1. 0 \in fit
    BY <1>2, <2>0, ShlAssumption DEF Pows
  <2>2. fit \subseteq Pows /\ fit # {}
    BY <2>1
  <2>3. Max(fit) \in fit
    <3> HIDE DEF fit
    <3> QED BY <2>2, MaxPows
  <2> QED BY <2>0, <2>3
<1>4. /\ add_node(z, k, x) /\ op'.page = x + Shl[k]
      /\ op.pc = "zone" /\ op'.pc = "zone" /\ op'.zone = z
      /\ UNCHANGED <<zone_num, extended_pools, held>>
  <2>1. ~NoNode
    BY DEF new_zone_node, Panicked, Panic, Call
  <2>2. add_node(z, k, x) /\ op' = [op EXCEPT !.page = @ + Shl[k]]
    BY <1>1, <1>2, <1>3, <2>1 DEF new_zone_node
  <2>3. /\ op'.page = x + Shl[k] /\ op'.pc = op.pc /\ op'.zone = op.zone
    BY <1>2, <2>2 DEF TypeInv, TypeOK, Op
  <2> QED BY <1>1, <2>2, <2>3 DEF new_zone_node
<1> HIDE DEF free1, fit
<1>5. PICK base \in Nat : base = Zones[z].base
  BY ZoneType
<1> DEFINE b == [page |-> base + x, pow |-> k]
<1>6. pows[z] \in Lists /\ base + x \in Nat /\ b \in Block
  <2>1. pows[z] \in Lists /\ base + x \in Nat
    BY FreeInType
  <2> QED BY <2>1 DEF Block
<1>7. zone_num \in Nat /\ z \in Nat /\ Shl[k] \in Nat
  <2>1. zone_num \in Nat
    BY DEF TypeInv, TypeOK
  <2>2. Shl[k] \in Nat
    BY PowType
  <2> QED BY <1>1, <2>1, <2>2
<1>8. Built(z) = x /\ Built(z)' = x + Shl[k]
  <2>1. ~(z =< zone_num)
    BY <1>1, <1>7
  <2> QED BY <2>1, <1>1, <1>2, <1>4 DEF Built
<1>9. ASSUME NEW y \in DOMAIN Zones, y # z PROVE ZonePages(y)' = ZonePages(y)
  BY <1>1, <1>4, <1>9 DEF ZonePages, Built
<1>10. /\ \A v : v \in ZonePages(z) <=> v \in Int /\ base =< v /\ v < base + x
       /\ \A v : v \in ZonePages(z)' <=> v \in Int /\ base =< v /\ v < base + (x + Shl[k])
  BY <1>5, <1>7, <1>8 DEF ZonePages
<1>11. \A v : v \in Pages(b) <=> v \in Int /\ base + x =< v /\ v < (base + x) + Shl[k]
  BY <1>6, PagesOf
<1> HIDE DEF b
<1>12. /\ Pages(b) \cap ZonePages(z) = {} /\ Pages(b) \subseteq ZonePages(z)'
       /\ ZonePages(z) \subseteq ZonePages(z)'
       /\ \A v \in ZonePages(z)' : v \in ZonePages(z) \/ v \in Pages(b)
  BY <1>7, <1>10, <1>11
<1>13. ASSUME NEW y \in DOMAIN Zones PROVE Pages(b) \cap ZonePages(y) = {}
  <2>1. CASE y = z
    BY <2>1, <1>12
  <2>2. CASE y # z
    <3> SUFFICES ASSUME NEW v \in Pages(b), v \in ZonePages(y) PROVE FALSE
      OBVIOUS
    <3>1. /\ Zones[y].base \in Nat /\ Zones[y].pages \in Nat /\ Zones[z].pages \in Nat
          /\ Built(y) \in Nat /\ Built(y) =< Zones[y].pages
      BY ZoneType, BuiltPart
    <3>2. v \in Int /\ Zones[y].base =< v /\ v < Zones[y].base + Built(y)
      BY BuiltPart
    <3>3. base =< v /\ v < base + Zones[z].pages
      BY <3>1, <3>2, <1>3, <1>7, <1>11
    <3>4. \/ Zones[y].base + Zones[y].pages =< base
          \/ base + Zones[z].pages =< Zones[y].base
      BY <2>2, <1>5, ZonesAssumption
    <3> QED BY <3>1, <3>2, <3>3, <3>4
  <2> QED BY <2>1, <2>2
<1>14. 1..zone_num \subseteq DOMAIN Zones
  BY ZonesAssumption DEF TypeInv, TypeOK
<1>15. ASSUME NEW c \in Blocks PROVE Pages(b) \cap Pages(c) = {}
  <2>1. CASE c \in Owned
    BY <2>1, <1>13, <1>14 DEF TileInv, BlocksInZone
  <2>2. CASE c \in FreeBlocks
    <3>1. PICK y \in DOMAIN Zones : c \in FreeIn(y)
      BY <2>2 DEF FreeBlocks
    <3>2. Pages(c) \subseteq ZonePages(y)
      BY <3>1 DEF TileInv, BlocksInZone
    <3> QED BY <3>2, <1>13
  <2> QED BY <2>1, <2>2 DEF Blocks
<1>16. b \notin Blocks
  <2>1. b.page \in Pages(b)
    BY <1>6, PagesOf
  <2> QED BY <2>1, <1>15
<1>17. /\ Pushed(pows[z], pows'[z], k, x)
       /\ \A y \in DOMAIN Zones : y # z => pows'[y] = pows[y]
  <2>1. pows' = [pows EXCEPT ![z][k] = <<x>> \o @]
    BY <1>4 DEF add_node
  <2>2. pows \in [DOMAIN Zones -> [Pows -> Seq(Nat)]]
    BY DEF TypeInv, TypeOK
  <2> QED BY <2>1, <2>2 DEF Pushed
<1>18. \A y \in DOMAIN Zones : AllInjective(pows[y])
  BY DEF TileInv, PagesDisjoint, OneHome, AllInjective
<1>19. FreeIn(z)' = FreeIn(z) \cup {b} /\ AllInjective(pows'[z])
  <2>0. b = [page |-> base + x, pow |-> k] /\ pows[z] \in Lists
    BY <1>6 DEF b
  <2>1. ListBlocks(base, pows'[z]) = ListBlocks(base, pows[z]) \cup {b}
    <3>1. Pushed(pows[z], pows'[z], k, x)
      BY <1>17
    <3>2. ListBlocks(base, pows'[z]) =
            ListBlocks(base, pows[z]) \cup {[page |-> base + x, pow |-> k]}
      BY <2>0, <3>1, ListPush
    <3> QED BY <2>0, <3>2
  <2>2. b \notin ListBlocks(base, pows[z])
    BY <1>5, <1>16 DEF Blocks, FreeBlocks, FreeIn
  <2>3. AllInjective(pows'[z])
    BY <2>0, <1>17, <1>18, <2>2, ListPush
  <2> QED BY <2>1, <2>3, <1>5 DEF FreeIn
<1>20. FreeBlocks' = FreeBlocks \cup {b}
  <2>1. FreeIn(z)' = (FreeIn(z) \ {}) \cup {b} /\ {} \subseteq FreeIn(z)
    BY <1>19
  <2>2. FreeBlocks' = (FreeBlocks \ {}) \cup {b}
    BY <2>1, <1>17, FreeReplace DEF TileInv
  <2> QED BY <2>2
<1>21. InHand = {} /\ InHand' = {}
  BY <1>4 DEF InHand
<1>22. Owned' = Owned /\ Blocks' = Blocks \cup {b}
  BY <1>4, <1>20, <1>21 DEF Owned, Blocks
<1>23. PagesDisjoint'
  <2>1. \A y \in DOMAIN Zones : AllInjective(pows'[y])
    BY <1>17, <1>18, <1>19
  <2>2. FreeBlocks' \cap Owned' = {}
    BY <1>16, <1>20, <1>22 DEF TileInv, PagesDisjoint, OneHome, Blocks
  <2>3. OneHome'
    BY <2>1, <2>2, <1>4, <1>21 DEF TileInv, PagesDisjoint, OneHome, AllInjective
  <2>4. Apart(Blocks \cup {b})
    BY <1>15 DEF TileInv, PagesDisjoint, Apart
  <2>5. Apart(Blocks)'
    BY <2>4, <1>22 DEF Apart, Pages
  <2> QED BY <2>3, <2>5 DEF PagesDisjoint
<1>24. PagesKept'
  <2>1. ASSUME NEW y \in DOMAIN Zones, NEW v \in ZonePages(y)'
        PROVE  \E c \in Blocks' : v \in Pages(c)
    <3>1. v \in ZonePages(y) \/ v \in Pages(b)
      BY <1>9, <1>12
    <3> QED BY <3>1, <1>22 DEF TileInv, PagesKept
  <2> QED BY <2>1 DEF PagesKept, Pages
<1>25. BlocksInZone'
  <2>1. ASSUME NEW y \in DOMAIN Zones, NEW c \in FreeIn(y)'
        PROVE  Pages(c) \subseteq ZonePages(y)'
    <3>1. CASE y # z
      <4>1. FreeIn(y)' = FreeIn(y)
        BY <3>1, <1>17 DEF FreeIn
      <4> QED BY <3>1, <4>1, <1>9 DEF TileInv, BlocksInZone
    <3>2. CASE y = z /\ c = b
      BY <3>2, <1>12
    <3>3. CASE y = z /\ c \in FreeIn(z)
      BY <3>3, <1>12 DEF TileInv, BlocksInZone
    <3> QED BY <3>1, <3>2, <3>3, <1>19
  <2>2. ASSUME NEW c \in Owned'
        PROVE  \E y \in 1..zone_num' : Pages(c) \subseteq ZonePages(y)'
    <3>1. PICK y \in 1..zone_num : Pages(c) \subseteq ZonePages(y)
      BY <1>22 DEF TileInv, BlocksInZone
    <3>2. y \in DOMAIN Zones /\ y # z
      BY <1>1, <1>7, <1>14
    <3> QED BY <3>1, <3>2, <1>4, <1>9
  <2> QED BY <2>1, <2>2 DEF BlocksInZone, Pages
<1>26. HandInZone'
  BY <1>21 DEF HandInZone
<1> QED BY <1>23, <1>24, <1>25, <1>26 DEF TileInv

-----------------------------------------------------------------------------
(* The inductive invariant. *)
Safe == ~misMerged /\ ~Panicked

TilingInv == TypeInv /\ (Safe => TileInv /\ HandInZone)

LEMMA TileInit == Init => TilingInv
<1> SUFFICES ASSUME Init PROVE TilingInv
  OBVIOUS
<1>1. TypeInv
  BY TypeInit
<1>2. /\ op.pc = "idle" /\ held = {} /\ extended_pools = {} /\ zone_num = 0
      /\ \A z \in DOMAIN Zones : \A k \in Pows : pows[z][k] = << >>
  BY DEF Init, Idle, Call
<1>3. InHand = {} /\ Owned = {}
  BY <1>2 DEF InHand, Owned
<1>4. ASSUME NEW z \in DOMAIN Zones PROVE FreeIn(z) = {}
  <2> SUFFICES ASSUME NEW b \in FreeIn(z) PROVE FALSE
    OBVIOUS
  <2>1. PICK k \in Pows : \E i \in DOMAIN pows[z][k] :
          b = [page |-> Zones[z].base + pows[z][k][i], pow |-> k]
    BY ListMember DEF FreeIn
  <2> QED BY <2>1, <1>2
<1>5. FreeBlocks = {} /\ Blocks = {}
  BY <1>3, <1>4 DEF FreeBlocks, Blocks
<1>6. PagesDisjoint
  BY <1>2, <1>3, <1>5 DEF PagesDisjoint, OneHome, Apart, IsInjective
<1>7. ASSUME NEW z \in DOMAIN Zones PROVE ZonePages(z) = {}
  <2>1. z \in Nat /\ z >= 1
    BY ZonesAssumption
  <2>2. Built(z) = 0
    BY <1>2, <2>1 DEF Built
  <2>3. Zones[z].base \in Nat
    BY ZoneType
  <2> QED BY <2>2, <2>3 DEF ZonePages
<1>8. PagesKept
  BY <1>7 DEF PagesKept
<1>9. BlocksInZone
  BY <1>3, <1>4 DEF BlocksInZone
<1> QED BY <1>1, <1>3, <1>6, <1>8, <1>9 DEF TilingInv, TileInv, HandInZone

(* A request leaves the tiling intact, and what it hands out overlaps no    *)
(* block a caller holds.                                                   *)
LEMMA TileGrant ==
  ASSUME TypeInv, TypeInv', TileInv, NEW req \in 0..MaxPow, Grant(req),
         zone_num' = zone_num, op.pc \in {"idle", "alloc"}, ~Panicked'
  PROVE  /\ TileInv' /\ HandInZone'
         /\ ServedBlock(req) \in Block
         /\ held' = held \cup {ServedBlock(req)}
         /\ \E z \in 1..zone_num : Pages(ServedBlock(req)) \subseteq ZonePages(z)
         /\ \A b \in held : Pages(b) \cap Pages(ServedBlock(req)) = {}
<1>1. /\ Serve(req, 0) /\ op' = Idle /\ extended_pools' = extended_pools
      /\ held' = held \cup {ServedBlock(req)}
  BY DEF Grant, Refuse, Panicked, Panic, Call
<1>2. op'.pc = "idle" /\ InHand' = {}
  BY <1>1 DEF Idle, Call, InHand
<1>3. TileInv' /\ \A b \in held : Pages(b) \cap Pages(ServedBlock(req)) = {}
  BY <1>1, <1>2, TileServe
<1>4. HandInZone'
  BY <1>2 DEF HandInZone
<1>5. ServedBlock(req) \in Block
  BY <1>1, ServeType DEF TypeInv, Panicked
<1>6. ASSUME NEW b \in Owned' PROVE \E z \in 1..zone_num : Pages(b) \subseteq ZonePages(z)
  <2>1. PICK z \in 1..zone_num' : Pages(b) \subseteq ZonePages(z)'
    BY <1>3 DEF TileInv, BlocksInZone, Pages
  <2>2. ZonePages(z)' = ZonePages(z)
    BY <1>2 DEF ZonePages, Built
  <2> QED BY <2>1, <2>2
<1>7. ServedBlock(req) \in Owned'
  BY <1>1 DEF Owned
<1> QED BY <1>1, <1>3, <1>4, <1>5, <1>6, <1>7

LEMMA TileNext == TilingInv /\ [Next]_vars => TilingInv'
<1> SUFFICES ASSUME TilingInv, [Next]_vars, Safe' PROVE TileInv' /\ HandInZone'
  BY TypeNext DEF TilingInv
<1>1. TypeInv /\ TypeInv'
  BY TypeNext DEF TilingInv
<1>2. CASE UNCHANGED vars
  <2>1. Safe
    BY <1>2 DEF Safe, vars, Panicked
  <2>2. TileInv /\ HandInZone
    BY <2>1 DEF TilingInv
  <2> QED
    BY <1>2, <2>2
    DEF vars, TileInv, HandInZone, PagesDisjoint, OneHome, PagesKept, BlocksInZone,
        Blocks, FreeBlocks, FreeIn, Owned, InHand, ZonePages, Built, Apart, Pages
<1>3. CASE Next
  <2>1. Safe
    <3>1. ~misMerged
      BY <1>3, Zenon DEF Safe, Next, add_zone, new_zone_node, add_zone_done, alloc_pages,
         new_extended_pool, alloc_pages_extended, free_pages, merge_found, merge_miss,
         merge_end
    <3>2. op.pc \in {"idle", "zone", "alloc", "merge"}
      BY <1>3 DEF Next, add_zone, new_zone_node, add_zone_done, alloc_pages,
         new_extended_pool, alloc_pages_extended, free_pages, merge_found, merge_miss,
         merge_end, Ready, Idle, Call, Merging
    <3> QED BY <3>1, <3>2 DEF Safe, Panicked
  <2>2. TileInv /\ HandInZone
    BY <2>1 DEF TilingInv
  <2>3. ~Panicked' /\ ~misMerged'
    BY DEF Safe
  <2>0. 1..zone_num \subseteq DOMAIN Zones /\ 1..zone_num' \subseteq DOMAIN Zones
    BY <1>1, ZonesAssumption DEF TypeInv, TypeOK
  <2>4. CASE add_zone
    <3>1. /\ op.pc = "idle" /\ op'.pc = "zone" /\ op'.zone = zone_num + 1 /\ op'.page = 0
          /\ UNCHANGED <<zone_num, pows, extended_pools, held>>
      BY <2>4 DEF add_zone, Ready, Idle, Call
    <3>2. InHand = {} /\ InHand' = {} /\ Owned' = Owned
      BY <3>1 DEF InHand, Owned
    <3>3. \A z \in DOMAIN Zones : ZonePages(z)' = ZonePages(z)
      BY <3>1 DEF ZonePages, Built
    <3>4. held' \cap extended_pools' = {}
      BY <2>2, <3>1 DEF TileInv, PagesDisjoint, OneHome
    <3>5. TileInv'
      BY <2>0, <2>2, <3>1, <3>2, <3>3, <3>4, TileSame
    <3> QED BY <3>2, <3>5 DEF HandInZone
  <2>5. CASE new_zone_node
    BY <1>1, <2>2, <2>3, <2>5, TileNewZoneNode
  <2>6. CASE add_zone_done
    <3>1. /\ op.pc = "zone" /\ op'.pc = "idle" /\ op.page = Zones[op.zone].pages
          /\ zone_num' = op.zone /\ op.zone = zone_num + 1 /\ zone_num \in Nat
          /\ UNCHANGED <<pows, extended_pools, held>>
      BY <1>1, <2>6 DEF add_zone_done, Idle, Call, TypeInv, TypeOK
    <3>2. InHand = {} /\ InHand' = {} /\ Owned' = Owned
      BY <3>1 DEF InHand, Owned
    <3>3. ASSUME NEW z \in DOMAIN Zones PROVE ZonePages(z)' = ZonePages(z)
      <4>1. z \in Nat
        BY ZonesAssumption
      <4>2. Built(z)' = Built(z)
        BY <3>1, <4>1 DEF Built
      <4> QED BY <4>2 DEF ZonePages
    <3>4. held' \cap extended_pools' = {} /\ 1..zone_num \subseteq 1..zone_num'
      BY <2>2, <3>1 DEF TileInv, PagesDisjoint, OneHome
    <3>5. TileInv'
      BY <2>0, <2>2, <3>1, <3>2, <3>3, <3>4, TileSame
    <3> QED BY <3>2, <3>5 DEF HandInZone
  <2>7. ASSUME NEW n \in Requests, alloc_pages(n) PROVE TileInv' /\ HandInZone'
    <3>1. /\ Grant(CeilPow(n)) /\ zone_num' = zone_num /\ op.pc = "idle"
          /\ CeilPow(n) \in 0..MaxPow
      BY <2>7, CeilPowType DEF alloc_pages, Ready, Idle, Call
    <3> QED BY <1>1, <2>2, <2>3, <3>1, TileGrant
  <2>8. ASSUME NEW n \in Requests, new_extended_pool(n) PROVE TileInv' /\ HandInZone'
    <3>1. /\ Serve(ExtPow, ExtCap) /\ op' = Call("alloc", CeilPow(n), 0)
          /\ extended_pools' = extended_pools \cup {ServedBlock(ExtPow)}
          /\ held' = held /\ zone_num' = zone_num /\ op.pc = "idle"
      BY <2>3, <2>8 DEF new_extended_pool, Refuse, Panicked, Panic, Call, Ready, Idle
    <3>2. op'.pc = "alloc" /\ InHand' = {}
      BY <3>1 DEF Call, InHand
    <3>3. ExtPow \in 0..MaxPow
      BY PoolAssumption, PowType
    <3>4. TileInv'
      BY <1>1, <2>2, <3>1, <3>2, <3>3, TileServe
    <3> QED BY <3>2, <3>4 DEF HandInZone
  <2>9. CASE alloc_pages_extended
    <3>1. /\ Grant(op.req) /\ zone_num' = zone_num /\ op.pc = "alloc"
      BY <2>9 DEF alloc_pages_extended
    <3>2. op.req \in 0..MaxPow
      BY <1>1 DEF TypeInv, TypeOK, Op
    <3> QED BY <1>1, <2>2, <2>3, <3>1, <3>2, TileGrant
  <2>10. ASSUME NEW b \in held, free_pages(b) PROVE TileInv' /\ HandInZone'
    <3>1. ~misMerged
      BY <2>1 DEF Safe
    <3> QED BY <1>1, <2>2, <2>10, <3>1, TileFree
  <2>11. CASE merge_found
    BY <1>1, <2>2, <2>3, <2>11, TileMergeFound
  <2>12. CASE merge_miss
    <3>1. /\ op.pc = "merge" /\ op'.pc = "merge" /\ op'.zone = op.zone
          /\ op'.page = op.page /\ op'.final = op.final
          /\ UNCHANGED <<zone_num, pows, extended_pools, held>>
      BY <1>1, <2>12 DEF merge_miss, Merging, TypeInv, TypeOK, Op
    <3>2. InHand' = InHand /\ Owned' = Owned
      BY <3>1 DEF InHand, Owned
    <3>3. /\ \A z \in DOMAIN Zones : ZonePages(z)' = ZonePages(z)
          /\ ZonePages(op.zone)' = ZonePages(op.zone)
      BY <3>1 DEF ZonePages, Built
    <3>4. /\ held' \cap extended_pools' = {}
          /\ InHand' \cap (held' \cup extended_pools') = {}
      BY <2>2, <3>1, <3>2 DEF TileInv, PagesDisjoint, OneHome
    <3>5. TileInv'
      BY <2>0, <2>2, <3>1, <3>2, <3>3, <3>4, TileSame
    <3> QED BY <2>2, <3>2, <3>3, <3>5 DEF HandInZone, Pages
  <2>13. CASE merge_end
    BY <1>1, <2>2, <2>3, <2>13, TileMergeEnd
  <2> QED
    BY <1>3, <2>4, <2>5, <2>6, <2>7, <2>8, <2>9, <2>10, <2>11, <2>12, <2>13
    DEF Next
<1> QED BY <1>2, <1>3

(* As long as free_pages merges only blocks of one power, no page is in two *)
(* blocks and no page is lost, for every number and size of zones, every    *)
(* pool and every sequence of calls.                                       *)
THEOREM Tiled == Spec => []Tiling
<1>1. TilingInv => Tiling
  BY DEF TilingInv, Safe, Tiling, TileInv
<1> QED BY TileInit, TileNext, <1>1, PTL DEF Spec

-----------------------------------------------------------------------------
(***************************************************************************)
(* BuddyAllocator implements PageAllocator.  The tiling shows that a block *)
(* that is handed out overlaps no block in use.                            *)
(***************************************************************************)
(* A wrong merge is not forgotten. *)
LEMMA Sticky == [Next]_vars /\ ~misMerged' => ~misMerged
<1> SUFFICES ASSUME [Next]_vars, misMerged PROVE misMerged'
  BY Zenon
<1> QED
  BY Zenon
  DEF Next, vars, add_zone, new_zone_node, add_zone_done, alloc_pages, new_extended_pool,
      alloc_pages_extended, free_pages, merge_found, merge_miss, merge_end

(* A block of a tiled zone lies in the zone, and blocks without a common    *)
(* page do not overlap.                                                    *)
LEMMA InAbstractZone ==
  ASSUME TypeInv, NEW b \in Block, NEW z \in DOMAIN Zones, Pages(b) \subseteq ZonePages(z)
  PROVE  Abstract!InZone(b, z)
<1>1. b.page \in Nat /\ Shl[b.pow] \in Nat /\ Shl[b.pow] >= 1
  BY PowType DEF Block
<1>2. b.page \in Pages(b) /\ b.page + Shl[b.pow] - 1 \in Pages(b)
  BY <1>1, PagesOf
<1>3. /\ Zones[z].base =< b.page /\ b.page + Shl[b.pow] - 1 < Zones[z].base + Built(z)
      /\ Built(z) \in Nat /\ Built(z) =< Zones[z].pages
  BY <1>2, BuiltPart
<1>4. Zones[z].base \in Nat /\ Zones[z].pages \in Nat
  BY ZoneType
<1> QED BY <1>1, <1>3, <1>4 DEF Abstract!InZone

LEMMA NoOverlap ==
  ASSUME NEW b \in Block, NEW c \in Block, Pages(c) \cap Pages(b) = {}
  PROVE  ~Abstract!Overlap(b, c)
<1> SUFFICES ASSUME b.page < c.page + Shl[c.pow], c.page < b.page + Shl[b.pow]
             PROVE  FALSE
  BY DEF Abstract!Overlap
<1>1. /\ b.page \in Nat /\ Shl[b.pow] \in Nat /\ Shl[b.pow] >= 1
      /\ c.page \in Nat /\ Shl[c.pow] \in Nat /\ Shl[c.pow] >= 1
  BY PowType DEF Block
<1>2. CASE b.page >= c.page
  <2>1. b.page \in Pages(b) /\ b.page \in Pages(c)
    BY <1>1, <1>2, PagesOf
  <2> QED BY <2>1
<1>3. CASE c.page >= b.page
  <2>1. c.page \in Pages(b) /\ c.page \in Pages(c)
    BY <1>1, <1>3, PagesOf
  <2> QED BY <2>1
<1> QED BY <1>1, <1>2, <1>3

(* A request is answered with a block the abstract allocator may hand out. *)
LEMMA RefineGrant ==
  ASSUME TilingInv, TypeInv', NEW req \in 0..MaxPow, Grant(req),
         zone_num' = zone_num, op.pc \in {"idle", "alloc"}, ~misMerged
  PROVE  held' = held \/ Abstract!Next
<1>1. CASE Panicked'
  <2>1. op'.pc # "idle"
    BY <1>1 DEF Panicked
  <2> QED BY <2>1 DEF Grant, Refuse, Idle, Call
<1>2. CASE ~Panicked'
  <2>1. TypeInv /\ TileInv
    BY DEF TilingInv, Safe, Panicked
  <2> DEFINE s == ServedBlock(req)
  <2>2. /\ s \in Block /\ held' = held \cup {s}
        /\ \E z \in 1..zone_num : Pages(s) \subseteq ZonePages(z)
        /\ \A b \in held : Pages(b) \cap Pages(s) = {}
    BY <1>2, <2>1, TileGrant
  <2> HIDE DEF s
  <2>3. \A c \in held : ~Abstract!Overlap(s, c)
    BY <2>1, <2>2, NoOverlap DEF TypeInv, TypeOK
  <2>4. \E z \in DOMAIN Zones : Abstract!InZone(s, z)
    <3>1. 1..zone_num \subseteq DOMAIN Zones
      BY <2>1, ZonesAssumption DEF TypeInv, TypeOK
    <3> QED BY <2>1, <2>2, <3>1, InAbstractZone
  <2>5. s.pow \in 0..(MaxPow - 1)
    BY <2>2 DEF Block, Pows
  <2>6. s \notin held
    <3>1. s.page \in Pages(s)
      BY <2>2, PagesOf
    <3> QED BY <2>2, <3>1
  <2>7. Abstract!alloc_pages(s)
    BY <2>2, <2>3, <2>4, <2>5 DEF Abstract!alloc_pages
  <2> QED BY <2>2, <2>6, <2>7 DEF Abstract!Next
<1> QED BY <1>1, <1>2

LEMMA RefineStep == TilingInv /\ [Next]_vars => [misMerged \/ Abstract!Next]_held
<1> SUFFICES ASSUME TilingInv, [Next]_vars, ~misMerged PROVE held' = held \/ Abstract!Next
  BY Zenon
<1>1. TypeInv /\ TypeInv'
  BY TypeNext DEF TilingInv
<1>2. ASSUME NEW n \in Requests, alloc_pages(n) PROVE held' = held \/ Abstract!Next
  <2>2. /\ Grant(CeilPow(n)) /\ zone_num' = zone_num /\ op.pc = "idle"
        /\ CeilPow(n) \in 0..MaxPow
    BY <1>2, CeilPowType DEF alloc_pages, Ready, Idle, Call
  <2> QED BY <1>1, <2>2, RefineGrant
<1>3. CASE alloc_pages_extended
  <2>1. /\ Grant(op.req) /\ zone_num' = zone_num /\ op.pc = "alloc"
    BY <1>3 DEF alloc_pages_extended
  <2>2. op.req \in 0..MaxPow
    BY <1>1 DEF TypeInv, TypeOK, Op
  <2> QED BY <1>1, <2>1, <2>2, RefineGrant
<1>4. ASSUME NEW b \in held, free_pages(b) PROVE Abstract!Next
  <2>1. held' = held \ {b}
    BY <1>4, Zenon DEF free_pages
  <2> QED BY <2>1 DEF Abstract!Next, Abstract!free_pages
<1>5. ASSUME NEW n \in Requests, new_extended_pool(n) PROVE held' = held
  BY <1>5 DEF new_extended_pool, Refuse
<1>6. CASE add_zone \/ new_zone_node \/ add_zone_done \/ merge_found \/ merge_miss
           \/ merge_end
  BY <1>6 DEF add_zone, new_zone_node, add_zone_done, merge_found, merge_miss, merge_end
<1>7. CASE UNCHANGED vars
  BY <1>7 DEF vars
<1> QED BY <1>2, <1>3, <1>4, <1>5, <1>6, <1>7 DEF Next

(* Until a wrong merge, the detailed allocator implements the contract of   *)
(* the trait PageAllocator: no step hands out a block that overlaps one in  *)
(* use.                                                                    *)
THEOREM Refinement == Spec => Implements
<1>1. Init => Abstract!Init
  BY DEF Init, Abstract!Init
<1> QED BY TileInit, TileNext, RefineStep, <1>1, PTL DEF Spec, Implements

-----------------------------------------------------------------------------
(***************************************************************************)
(* What the free lists hold: the counters agree with them, and no room is  *)
(* lost, since buddies are merged and a request is refused only if no      *)
(* aligned run of free pages of its size is left.                          *)
(***************************************************************************)

(* Induction up to N, with the numbers that have the property as a set. *)
LEMMA PowInd ==
  ASSUME NEW N \in Nat, NEW P, 0 \in P,
         \A k \in 0..(N - 1) : k \in P => k + 1 \in P
  PROVE  \A k \in 0..N : k \in P
<1> DEFINE T == {k \in 0..N : k \notin P}
<1> SUFFICES ASSUME T # {} PROVE FALSE
  OBVIOUS
<1>1. PICK x \in T : \A y \in T : x =< y
  <2>1. T \subseteq Nat
    OBVIOUS
  <2> HIDE DEF T
  <2> QED BY <2>1, LeastNat
<1>2. x # 0 /\ x \in 1..N
  BY <1>1
<1>3. x - 1 \in 0..(N - 1) /\ x - 1 \notin T
  BY <1>1, <1>2
<1>4. x - 1 \in P
  BY <1>3
<1> QED BY <1>1, <1>3, <1>4, (x - 1) + 1 = x

-----------------------------------------------------------------------------
(* Sums over a finite set, as the folds of FiniteSetsExt compute them. *)
Pick1(s) == CHOOSE x \in s : TRUE

SumBody(F, g, s) == IF s = {} THEN 0 ELSE F[Pick1(s)] + g[s \ {Pick1(s)}]

SumDef(F, S, g) == g = [s \in SUBSET S |-> SumBody(F, g, s)]

LEMMA Pick1In ==
  ASSUME NEW s, s # {}
  PROVE  Pick1(s) \in s
BY DEF Pick1

LEMMA SumExists ==
  ASSUME NEW S, IsFiniteSet(S), NEW F
  PROVE  \E g : SumDef(F, S, g)
<1> DEFINE N == Cardinality(S)
           Def(n, g) == \A s \in SUBSET S : Cardinality(s) =< n => g[s] = SumBody(F, g, s)
           P == {n \in 0..N : \E g : Def(n, g)}
<1>0. N \in Nat /\ \A s \in SUBSET S : /\ IsFiniteSet(s) /\ Cardinality(s) \in Nat
                                       /\ Cardinality(s) =< N
  BY FS_Subset, FS_CardinalityType
<1>1. 0 \in P
  <2> DEFINE g == [s \in SUBSET S |-> 0]
  <2>1. ASSUME NEW s \in SUBSET S, Cardinality(s) =< 0 PROVE g[s] = SumBody(F, g, s)
    <3>1. Cardinality(s) = 0
      BY <2>1, <1>0
    <3>2. s = {}
      BY <3>1, <1>0, FS_EmptySet
    <3> QED BY <3>2 DEF SumBody
  <2>2. Def(0, g)
    BY <2>1
  <2> HIDE DEF Def, g
  <2> QED BY <1>0, <2>2
<1>2. ASSUME NEW n \in 0..(N - 1), n \in P PROVE n + 1 \in P
  <2>1. PICK g : Def(n, g)
    BY <1>2
  <2> DEFINE h == [s \in SUBSET S |-> IF Cardinality(s) =< n THEN g[s] ELSE SumBody(F, g, s)]
  <2>2. ASSUME NEW s \in SUBSET S, Cardinality(s) =< n + 1 PROVE h[s] = SumBody(F, h, s)
    <3>1. h[s] = SumBody(F, g, s)
      BY <2>1
    <3>2. CASE s = {}
      BY <3>1, <3>2 DEF SumBody
    <3>3. CASE s # {}
      <4> DEFINE r == s \ {Pick1(s)}
      <4>1. Pick1(s) \in s /\ r \in SUBSET S
        BY <3>3, Pick1In
      <4>2. Cardinality(r) = Cardinality(s) - 1
        BY <4>1, <1>0, FS_RemoveElement
      <4>3. Cardinality(r) =< n
        BY <4>2, <2>2, <1>0, n \in Nat
      <4>4. h[r] = g[r]
        BY <4>1, <4>3
      <4> QED BY <3>1, <3>3, <4>4 DEF SumBody
    <3> QED BY <3>2, <3>3
  <2>3. Def(n + 1, h)
    BY <2>2
  <2>4. n + 1 \in 0..N
    BY <1>0
  <2> HIDE DEF Def, h
  <2> QED BY <2>3, <2>4
<1>3. \A n \in 0..N : n \in P
  <2> HIDE DEF P, N
  <2> QED BY <1>0, <1>1, <1>2, PowInd
<1>4. PICK g : Def(N, g)
  BY <1>3, <1>0
<1> DEFINE h == [s \in SUBSET S |-> g[s]]
<1>5. ASSUME NEW s \in SUBSET S PROVE h[s] = SumBody(F, h, s)
  <2>1. g[s] = SumBody(F, g, s)
    BY <1>0, <1>4
  <2>2. s # {} => h[s \ {Pick1(s)}] = g[s \ {Pick1(s)}]
    OBVIOUS
  <2> QED BY <2>1, <2>2 DEF SumBody
<1>6. h = [s \in SUBSET S |-> SumBody(F, h, s)]
  BY <1>5
<1>7. SumDef(F, S, h)
  BY <1>6 DEF SumDef
<1> QED BY <1>7

(* Any element may be taken out of a sum first. *)
SumTakes(F, S, g) ==
    /\ \A s \in SUBSET S : g[s] \in Int
    /\ \A s \in SUBSET S : \A x \in s : g[s] = F[x] + g[s \ {x}]

LEMMA SumTake ==
  ASSUME NEW S, IsFiniteSet(S), NEW F \in [S -> Int], NEW g, SumDef(F, S, g)
  PROVE  SumTakes(F, S, g)
<1> DEFINE N == Cardinality(S)
           Good(s) == g[s] \in Int /\ \A x \in s : g[s] = F[x] + g[s \ {x}]
           P == {n \in 0..N : \A s \in SUBSET S : Cardinality(s) =< n => Good(s)}
<1>0. N \in Nat /\ \A s \in SUBSET S : /\ IsFiniteSet(s) /\ Cardinality(s) \in Nat
                                       /\ Cardinality(s) =< N
  BY FS_Subset, FS_CardinalityType
<1>1. ASSUME NEW s \in SUBSET S PROVE g[s] = SumBody(F, g, s)
  BY DEF SumDef
<1>2. g[{}] = 0
  BY <1>1 DEF SumBody
<1>3. 0 \in P
  <2>1. ASSUME NEW s \in SUBSET S, Cardinality(s) =< 0 PROVE s = {}
    BY <2>1, <1>0, FS_EmptySet
  <2>2. Good({})
    BY <1>2
  <2> HIDE DEF Good
  <2> QED BY <1>0, <2>1, <2>2
<1>4. ASSUME NEW n \in 0..(N - 1), n \in P PROVE n + 1 \in P
  <2>1. ASSUME NEW s \in SUBSET S, Cardinality(s) =< n + 1 PROVE Good(s)
    <3>1. CASE s = {}
      BY <3>1, <1>2
    <3>2. CASE s # {}
      <4>1. PICK c \in s : c = Pick1(s)
        BY <3>2, Pick1In
      <4>2. g[s] = F[c] + g[s \ {c}]
        BY <3>2, <4>1, <1>1 DEF SumBody
      <4>3. ASSUME NEW x \in s PROVE s \ {x} \in SUBSET S /\ Good(s \ {x})
        <5>1. Cardinality(s \ {x}) = Cardinality(s) - 1
          BY <1>0, FS_RemoveElement
        <5>2. Cardinality(s \ {x}) =< n
          BY <5>1, <2>1, <1>0, n \in Nat
        <5>3. s \ {x} \in SUBSET S
          OBVIOUS
        <5> HIDE DEF Good
        <5> QED BY <5>2, <5>3, <1>4
      <4>4. \A x \in s : F[x] \in Int /\ g[s \ {x}] \in Int
        BY <4>3
      <4>5. g[s] \in Int
        BY <4>2, <4>4
      <4>6. ASSUME NEW x \in s, x # c PROVE g[s] = F[x] + g[s \ {x}]
        <5>1. x \in s \ {c} /\ c \in s \ {x}
          BY <4>6
        <5>2. g[s \ {c}] = F[x] + g[(s \ {c}) \ {x}]
          BY <5>1, <4>3
        <5>3. g[s \ {x}] = F[c] + g[(s \ {x}) \ {c}]
          BY <5>1, <4>3
        <5>4. PICK r \in SUBSET S : r = (s \ {c}) \ {x} /\ r = (s \ {x}) \ {c}
          OBVIOUS
        <5>5. g[r] \in Int
          <6>1. Cardinality(s \ {c}) = Cardinality(s) - 1
            BY <1>0, FS_RemoveElement
          <6>2. IsFiniteSet(s \ {c})
            BY <1>0, FS_RemoveElement
          <6>3. Cardinality((s \ {c}) \ {x}) = Cardinality(s \ {c}) - 1
            BY <6>2, <5>1, FS_RemoveElement
          <6>5. Cardinality(s) \in Nat
            BY <1>0
          <6>4. Cardinality(r) =< n
            BY ONLY <5>4, <6>1, <6>3, <6>5, <2>1, n \in 0..(N - 1)
          <6> QED BY <6>4, <1>4
        <5>6. F[x] \in Int /\ F[c] \in Int
          OBVIOUS
        <5>7. g[s] = F[c] + (F[x] + g[r]) /\ g[s \ {x}] = F[c] + g[r]
          BY ONLY <4>2, <5>2, <5>3, <5>4
        <5> QED BY ONLY <5>5, <5>6, <5>7
      <4> QED BY <4>2, <4>5, <4>6
    <3> QED BY <3>1, <3>2
  <2>2. n + 1 \in 0..N
    BY <1>0
  <2> HIDE DEF Good
  <2> QED BY <2>1, <2>2
<1>5. \A n \in 0..N : n \in P
  <2> HIDE DEF P, N
  <2> QED BY <1>0, <1>3, <1>4, PowInd
<1>6. \A s \in SUBSET S : Good(s)
  <2> HIDE DEF Good
  <2> QED BY <1>5, <1>0
<1> QED BY <1>6 DEF SumTakes

(* Two sums of the same terms are equal. *)
LEMMA SumSame ==
  ASSUME NEW S, IsFiniteSet(S), NEW F \in [S -> Int], NEW G \in [S -> Int],
         NEW g, SumDef(F, S, g), NEW h, SumDef(G, S, h),
         NEW T \in SUBSET S, \A x \in T : F[x] = G[x]
  PROVE  g[T] = h[T]
<1> DEFINE N == Cardinality(S)
           P == {n \in 0..N : \A s \in SUBSET T : Cardinality(s) =< n => g[s] = h[s]}
<1>0. N \in Nat /\ \A s \in SUBSET S : /\ IsFiniteSet(s) /\ Cardinality(s) \in Nat
                                       /\ Cardinality(s) =< N
  BY FS_Subset, FS_CardinalityType
<1>1. ASSUME NEW s \in SUBSET T PROVE g[s] = SumBody(F, g, s) /\ h[s] = SumBody(G, h, s)
  BY DEF SumDef
<1>2. ASSUME NEW s \in SUBSET T, s = {} PROVE g[s] = h[s]
  BY <1>1, <1>2 DEF SumBody
<1>3. 0 \in P
  <2>1. ASSUME NEW s \in SUBSET T, Cardinality(s) =< 0 PROVE s = {}
    <3>1. s \in SUBSET S
      OBVIOUS
    <3> QED BY <2>1, <3>1, <1>0, FS_EmptySet
  <2> QED BY <1>0, <1>2, <2>1
<1>4. ASSUME NEW n \in 0..(N - 1), n \in P PROVE n + 1 \in P
  <2>1. ASSUME NEW s \in SUBSET T, Cardinality(s) =< n + 1, s # {} PROVE g[s] = h[s]
    <3>1. PICK c \in s : c = Pick1(s)
      BY <2>1, Pick1In
    <3>2. g[s] = F[c] + g[s \ {c}] /\ h[s] = G[c] + h[s \ {c}]
      BY <2>1, <3>1, <1>1 DEF SumBody
    <3>3. Cardinality(s \ {c}) = Cardinality(s) - 1
      BY <1>0, FS_RemoveElement
    <3>4. Cardinality(s \ {c}) =< n
      BY <3>3, <2>1, <1>0, n \in Nat
    <3>5. s \ {c} \in SUBSET T
      OBVIOUS
    <3>6. g[s \ {c}] = h[s \ {c}] /\ F[c] = G[c]
      BY <3>4, <3>5, <1>4
    <3> QED BY <3>2, <3>6
  <2>2. n + 1 \in 0..N
    BY <1>0
  <2> QED BY <1>2, <2>1, <2>2
<1>5. \A n \in 0..N : n \in P
  <2> HIDE DEF P, N
  <2> QED BY <1>0, <1>3, <1>4, PowInd
<1> QED BY <1>5, <1>0

(* t is the sum of F over S. *)
IsSum(F, S, t) == \E g : SumDef(F, S, g) /\ t = g[S]

LEMMA SumUnique ==
  ASSUME NEW S, IsFiniteSet(S), NEW F \in [S -> Int], NEW t, NEW u,
         IsSum(F, S, t), IsSum(F, S, u)
  PROVE  t = u /\ t \in Int
<1>1. PICK g : SumDef(F, S, g) /\ t = g[S]
  BY DEF IsSum
<1>2. PICK h : SumDef(F, S, h) /\ u = h[S]
  BY DEF IsSum
<1>3. S \in SUBSET S
  OBVIOUS
<1>4. g[S] = h[S]
  BY <1>1, <1>2, <1>3, SumSame
<1>5. g[S] \in Int
  BY <1>1, <1>3, SumTake DEF SumTakes
<1> QED BY <1>1, <1>2, <1>4, <1>5

(* When one term changes, the sum changes by as much. *)
LEMMA SumUpdate ==
  ASSUME NEW S, IsFiniteSet(S), NEW F \in [S -> Int], NEW G \in [S -> Int],
         NEW t, NEW u, IsSum(F, S, t), IsSum(G, S, u), NEW x \in S,
         \A y \in S : y # x => G[y] = F[y]
  PROVE  t \in Int /\ u = t - F[x] + G[x]
<1>1. PICK g : SumDef(F, S, g) /\ t = g[S]
  BY DEF IsSum
<1>2. PICK h : SumDef(G, S, h) /\ u = h[S]
  BY DEF IsSum
<1>3. PICK r \in SUBSET S : r = S \ {x}
  OBVIOUS
<1>4. g[S] \in Int /\ g[r] \in Int /\ g[S] = F[x] + g[r]
  <2>1. S \in SUBSET S
    OBVIOUS
  <2>2. SumTakes(F, S, g)
    BY <1>1, SumTake
  <2> QED BY <2>1, <2>2, <1>3 DEF SumTakes
<1>5. h[S] = G[x] + h[r]
  <2>1. S \in SUBSET S
    OBVIOUS
  <2>2. SumTakes(G, S, h)
    BY <1>2, SumTake
  <2> QED BY <2>1, <2>2, <1>3 DEF SumTakes
<1>6. g[r] = h[r]
  BY <1>1, <1>2, <1>3, SumSame
<1>7. F[x] \in Int /\ G[x] \in Int
  OBVIOUS
<1> QED BY ONLY <1>1, <1>2, <1>4, <1>5, <1>6, <1>7

-----------------------------------------------------------------------------
(* The sums over all lists. *)
Cells == (DOMAIN Zones) \X Pows

AllLists == [DOMAIN Zones -> Lists]

NodesOf(f) == MapThenSumSet(LAMBDA zp : Len(f[zp[1]][zp[2]]), (DOMAIN Zones) \X Pows)

PagesIn(f) ==
    MapThenSumSet(LAMBDA zp : Len(f[zp[1]][zp[2]]) * Shl[zp[2]], (DOMAIN Zones) \X Pows)

LEMMA CellsFinite == IsFiniteSet(Cells)
<1>1. IsFiniteSet(DOMAIN Zones)
  BY ZonesAssumption, FS_Interval
<1>2. IsFiniteSet(Pows)
  <2>1. PICK n \in Int : n = MaxPow - 1
    BY ShlAssumption
  <2>2. IsFiniteSet(0..n)
    BY FS_Interval, 0 \in Int
  <2>3. Pows = 0..n
    BY <2>1 DEF Pows
  <2> HIDE DEF Pows
  <2> QED BY <2>2, <2>3
<1> QED BY <1>1, <1>2, FS_Product DEF Cells

LEMMA NodesAre ==
  ASSUME NEW f
  PROVE  IsSum([c \in Cells |-> Len(f[c[1]][c[2]])], Cells, NodesOf(f))
<1> DEFINE F == [c \in Cells |-> Len(f[c[1]][c[2]])]
           Body(g, s) == IF s = {} THEN 0
                         ELSE Len(f[Pick1(s)[1]][Pick1(s)[2]]) + g[s \ {Pick1(s)}]
           Def(g) == g = [s \in SUBSET Cells |-> Body(g, s)]
           h == CHOOSE g : Def(g)
<1>1. ASSUME NEW g, NEW s \in SUBSET Cells PROVE Body(g, s) = SumBody(F, g, s)
  <2>1. s # {} => Pick1(s) \in Cells
    BY Pick1In
  <2>2. s # {} => F[Pick1(s)] = Len(f[Pick1(s)[1]][Pick1(s)[2]])
    BY <2>1
  <2> HIDE DEF F
  <2> QED BY <2>2 DEF SumBody
<1>2. ASSUME NEW g PROVE Def(g) <=> SumDef(F, Cells, g)
  <2> HIDE DEF Body, F
  <2> QED BY <1>1 DEF SumDef
<1>3. \E g : Def(g)
  <2> HIDE DEF Def, F
  <2> QED BY <1>2, CellsFinite, SumExists
<1>4. Def(h)
  BY <1>3, Zenon
<1>5. NodesOf(f) = h[Cells]
  BY Zenon DEF NodesOf, MapThenSumSet, MapThenFoldSet, Cells, Pick1
<1>6. SumDef(F, Cells, h)
  <2> HIDE DEF Def, F, h
  <2> QED BY <1>2, <1>4
<1> HIDE DEF h, Def, F
<1>7. IsSum(F, Cells, NodesOf(f))
  BY <1>5, <1>6 DEF IsSum
<1> QED BY <1>7 DEF F

LEMMA PagesAre ==
  ASSUME NEW f
  PROVE  IsSum([c \in Cells |-> Len(f[c[1]][c[2]]) * Shl[c[2]]], Cells, PagesIn(f))
<1> DEFINE F == [c \in Cells |-> Len(f[c[1]][c[2]]) * Shl[c[2]]]
           Body(g, s) == IF s = {} THEN 0
                         ELSE Len(f[Pick1(s)[1]][Pick1(s)[2]]) * Shl[Pick1(s)[2]]
                                + g[s \ {Pick1(s)}]
           Def(g) == g = [s \in SUBSET Cells |-> Body(g, s)]
           h == CHOOSE g : Def(g)
<1>1. ASSUME NEW g, NEW s \in SUBSET Cells PROVE Body(g, s) = SumBody(F, g, s)
  <2>1. s # {} => Pick1(s) \in Cells
    BY Pick1In
  <2>2. s # {} => F[Pick1(s)] = Len(f[Pick1(s)[1]][Pick1(s)[2]]) * Shl[Pick1(s)[2]]
    BY <2>1
  <2> HIDE DEF F
  <2> QED BY <2>2 DEF SumBody
<1>2. ASSUME NEW g PROVE Def(g) <=> SumDef(F, Cells, g)
  <2> HIDE DEF Body, F
  <2> QED BY <1>1 DEF SumDef
<1>3. \E g : Def(g)
  <2> HIDE DEF Def, F
  <2> QED BY <1>2, CellsFinite, SumExists
<1>4. Def(h)
  BY <1>3, Zenon
<1>5. PagesIn(f) = h[Cells]
  BY Zenon DEF PagesIn, MapThenSumSet, MapThenFoldSet, Cells, Pick1
<1>6. SumDef(F, Cells, h)
  <2> HIDE DEF Def, F, h
  <2> QED BY <1>2, <1>4
<1> HIDE DEF h, Def, F
<1>7. IsSum(F, Cells, PagesIn(f))
  BY <1>5, <1>6 DEF IsSum
<1> QED BY <1>7 DEF F

(* Both are weighted sums of the lengths: a node weighs one, a block as     *)
(* many pages as it has.                                                   *)
Weights == [0..MaxPow -> Int]

One == [k \in 0..MaxPow |-> 1]

Weigh(f, w) == [c \in Cells |-> Len(f[c[1]][c[2]]) * w[c[2]]]

LEMMA CellType ==
  ASSUME NEW f \in AllLists, NEW w \in Weights, NEW c \in Cells
  PROVE  /\ c[1] \in DOMAIN Zones /\ c[2] \in Pows /\ c = <<c[1], c[2]>>
         /\ Len(f[c[1]][c[2]]) \in Nat /\ w[c[2]] \in Int
         /\ Weigh(f, w)[c] = Len(f[c[1]][c[2]]) * w[c[2]]
         /\ Weigh(f, w)[c] \in Int
<1>1. c[1] \in DOMAIN Zones /\ c[2] \in Pows /\ c = <<c[1], c[2]>>
  BY DEF Cells
<1>2. f[c[1]] \in Lists
  BY <1>1 DEF AllLists
<1>3. f[c[1]][c[2]] \in Seq(Nat)
  BY <1>1, <1>2 DEF Lists
<1>4. Len(f[c[1]][c[2]]) \in Nat
  BY <1>3
<1>5. w[c[2]] \in Int
  BY <1>1, PowType DEF Weights
<1>6. Weigh(f, w)[c] = Len(f[c[1]][c[2]]) * w[c[2]]
  BY DEF Weigh
<1> QED BY <1>1, <1>4, <1>5, <1>6

LEMMA WeighType ==
  ASSUME NEW f \in AllLists, NEW w \in Weights
  PROVE  Weigh(f, w) \in [Cells -> Int]
<1>1. \A c \in Cells : Weigh(f, w)[c] \in Int
  BY CellType
<1> QED BY <1>1 DEF Weigh

LEMMA TotalsAre ==
  ASSUME NEW f \in AllLists
  PROVE  /\ IsSum(Weigh(f, One), Cells, NodesOf(f)) /\ One \in Weights
         /\ IsSum(Weigh(f, Shl), Cells, PagesIn(f)) /\ Shl \in Weights
<1>1. One \in Weights /\ Shl \in Weights
  BY ShlAssumption DEF One, Weights
<1>2. ASSUME NEW c \in Cells PROVE Len(f[c[1]][c[2]]) = Len(f[c[1]][c[2]]) * One[c[2]]
  <2>1. Len(f[c[1]][c[2]]) \in Nat /\ c[2] \in 0..MaxPow
    BY <1>1, CellType, PowType
  <2>2. One[c[2]] = 1
    BY <2>1 DEF One
  <2> QED BY <2>1, <2>2
<1>3. [c \in Cells |-> Len(f[c[1]][c[2]])] = Weigh(f, One)
  BY <1>2 DEF Weigh
<1>4. IsSum(Weigh(f, One), Cells, NodesOf(f))
  BY <1>3, NodesAre
<1>5. IsSum(Weigh(f, Shl), Cells, PagesIn(f))
  BY PagesAre DEF Weigh
<1> QED BY <1>1, <1>4, <1>5

(* One list grows or shrinks by d entries. *)
OnlyList(f, g, z, p) ==
    \A y \in DOMAIN Zones, k \in Pows : <<y, k>> # <<z, p>> => g[y][k] = f[y][k]

LongerBy(f, g, z, p, d) == Len(g[z][p]) = Len(f[z][p]) + d /\ OnlyList(f, g, z, p)

Grows(t, u, d, v) == t \in Int /\ u = t + d * v

LEMMA SumList ==
  ASSUME NEW f \in AllLists, NEW g \in AllLists, NEW w \in Weights,
         NEW z \in DOMAIN Zones, NEW p \in Pows, NEW d \in Int,
         LongerBy(f, g, z, p, d),
         NEW t, NEW u, IsSum(Weigh(f, w), Cells, t), IsSum(Weigh(g, w), Cells, u)
  PROVE  Grows(t, u, d, w[p])
<1> USE DEF LongerBy
<1>1. PICK x \in Cells : x = <<z, p>>
  BY DEF Cells
<1>2. ASSUME NEW c \in Cells, c # x PROVE Weigh(g, w)[c] = Weigh(f, w)[c]
  <2>1. c[1] \in DOMAIN Zones /\ c[2] \in Pows /\ c = <<c[1], c[2]>>
    BY CellType
  <2>2. g[c[1]][c[2]] = f[c[1]][c[2]]
    BY <2>1, <1>1, <1>2 DEF OnlyList
  <2> QED BY <2>2, CellType
<1>3. t \in Int /\ u = t - Weigh(f, w)[x] + Weigh(g, w)[x]
  <2>1. PICK F \in [Cells -> Int], G \in [Cells -> Int] :
          F = Weigh(f, w) /\ G = Weigh(g, w)
    BY WeighType
  <2>2. \A c \in Cells : c # x => G[c] = F[c]
    BY <1>2, <2>1
  <2>3. IsSum(F, Cells, t) /\ IsSum(G, Cells, u)
    BY <2>1
  <2>4. t \in Int /\ u = t - F[x] + G[x]
    BY ONLY <2>2, <2>3, CellsFinite, SumUpdate, F \in [Cells -> Int],
       G \in [Cells -> Int], x \in Cells
  <2> QED BY <2>1, <2>4
<1>4. /\ Weigh(f, w)[x] = Len(f[z][p]) * w[p] /\ Weigh(g, w)[x] = Len(g[z][p]) * w[p]
      /\ w[p] \in Int /\ Len(f[z][p]) \in Nat
  BY <1>1, CellType
<1>5. Weigh(g, w)[x] = Weigh(f, w)[x] + d * w[p]
  <2>1. ASSUME NEW l \in Int, NEW v \in Int PROVE (l + d) * v = l * v + d * v
    OBVIOUS
  <2> QED BY <1>4, <2>1
<1>6. Weigh(f, w)[x] \in Int /\ d * w[p] \in Int
  BY <1>4, CellType
<1> QED BY ONLY <1>3, <1>5, <1>6 DEF Grows

(* A split takes one entry from list p of a zone and puts one on each list  *)
(* of the powers from req up to p.                                         *)
SplitLens(f, g, z, p, req) ==
    /\ \A y \in DOMAIN Zones : y # z => g[y] = f[y]
    /\ Len(g[z][p]) = Len(f[z][p]) - 1
    /\ \A k \in Pows : req =< k /\ k < p => Len(g[z][k]) = Len(f[z][k]) + 1
    /\ \A k \in Pows : k # p /\ ~(req =< k /\ k < p) => Len(g[z][k]) = Len(f[z][k])

LEMMA SumSplit ==
  ASSUME NEW f \in AllLists, NEW g \in AllLists, NEW w \in Weights, NEW W \in Weights,
         \A k \in Pows : W[k + 1] = W[k] + w[k],
         NEW z \in DOMAIN Zones, NEW p \in Pows, NEW req \in 0..p,
         SplitLens(f, g, z, p, req),
         NEW t, NEW u, IsSum(Weigh(f, w), Cells, t), IsSum(Weigh(g, w), Cells, u)
  PROVE  t \in Int /\ u = t - w[p] + (W[p] - W[req])
<1> DEFINE H(j) == [y \in DOMAIN Zones |->
                      IF y = z THEN [k \in Pows |-> IF k < j THEN g[z][k] ELSE f[z][k]]
                      ELSE f[y]]
           C(j) == IF j =< req THEN 0
                   ELSE IF j =< p THEN W[j] - W[req] ELSE W[p] - W[req] - w[p]
           P == {j \in 0..MaxPow : \A v : IsSum(Weigh(H(j), w), Cells, v) => v = t + C(j)}
<1>0. MaxPow \in Nat /\ p \in Nat /\ req \in Nat /\ req =< p /\ p < MaxPow
  <2>1. MaxPow \in Nat /\ p \in Nat /\ p < MaxPow
    BY PowType, ShlAssumption
  <2> QED BY <2>1
<1>1. /\ f[z] \in Lists /\ g[z] \in Lists
      /\ \A k \in Pows : f[z][k] \in Seq(Nat) /\ g[z][k] \in Seq(Nat)
      /\ \A k \in Pows : Len(f[z][k]) \in Nat
  BY DEF AllLists, Lists
<1>2. ASSUME NEW j \in 0..MaxPow PROVE H(j) \in AllLists
  <2>1. [k \in Pows |-> IF k < j THEN g[z][k] ELSE f[z][k]] \in Lists
    BY <1>1 DEF Lists
  <2> QED BY <2>1 DEF AllLists
<1>3. \A k \in 0..MaxPow : W[k] \in Int /\ w[k] \in Int
  BY DEF Weights
<1>4. t \in Int
  BY WeighType, CellsFinite, SumUnique
<1>5. H(0) = f
  <2>1. \A k \in Pows : ~(k < 0)
    BY PowType
  <2>2. [k \in Pows |-> IF k < 0 THEN g[z][k] ELSE f[z][k]] = f[z]
    BY <2>1, <1>1 DEF Lists
  <2> QED BY <2>2 DEF AllLists
<1>6. H(MaxPow) = g
  <2>1. \A k \in Pows : k < MaxPow
    BY PowType
  <2>2. [k \in Pows |-> IF k < MaxPow THEN g[z][k] ELSE f[z][k]] = g[z]
    BY <2>1, <1>1 DEF Lists
  <2> QED BY <2>2 DEF AllLists, SplitLens
<1>7. 0 \in P
  <2>1. ASSUME NEW v, IsSum(Weigh(H(0), w), Cells, v) PROVE v = t + C(0)
    <3>1. IsSum(Weigh(f, w), Cells, v)
      BY <2>1, <1>5
    <3>2. v = t
      BY <3>1, WeighType, CellsFinite, SumUnique
    <3>3. C(0) = 0
      BY <1>0
    <3> QED BY <3>2, <3>3, <1>4
  <2>2. 0 \in 0..MaxPow
    BY <1>0
  <2> HIDE DEF H, C
  <2> QED BY <2>1, <2>2
<1>8. ASSUME NEW j \in 0..(MaxPow - 1), j \in P PROVE j + 1 \in P
  <2>1. j \in Pows /\ j \in Nat /\ j \in 0..MaxPow /\ j + 1 \in 0..MaxPow
    BY <1>0 DEF Pows
  <2> DEFINE d == IF j = p THEN 0 - 1 ELSE IF req =< j /\ j < p THEN 1 ELSE 0
  <2>2. H(j)[z][j] = f[z][j] /\ H(j + 1)[z][j] = g[z][j]
    BY <2>1
  <2>3. Len(g[z][j]) = Len(f[z][j]) + d /\ d \in Int
    <3>1. CASE j = p
      <4>1. Len(g[z][j]) = Len(f[z][j]) - 1 /\ Len(f[z][j]) \in Nat /\ d = 0 - 1
        BY <3>1, <1>1 DEF SplitLens
      <4> HIDE DEF d
      <4> QED BY ONLY <4>1
    <3>2. CASE j # p /\ req =< j /\ j < p
      <4>1. Len(g[z][j]) = Len(f[z][j]) + 1 /\ Len(f[z][j]) \in Nat /\ d = 1
        BY <2>1, <3>2, <1>1 DEF SplitLens
      <4> HIDE DEF d
      <4> QED BY ONLY <4>1
    <3>3. CASE j # p /\ ~(req =< j /\ j < p)
      <4>1. Len(g[z][j]) = Len(f[z][j]) /\ Len(f[z][j]) \in Nat /\ d = 0
        BY <2>1, <3>3, <1>1 DEF SplitLens
      <4> HIDE DEF d
      <4> QED BY ONLY <4>1
    <3> HIDE DEF d
    <3> QED BY <3>1, <3>2, <3>3
  <2>4. ASSUME NEW y \in DOMAIN Zones, NEW k \in Pows, <<y, k>> # <<z, j>>
        PROVE  H(j + 1)[y][k] = H(j)[y][k]
    <3>1. CASE y # z
      BY <3>1
    <3>2. CASE y = z
      <4>1. k # j /\ k \in Nat
        BY <2>4, <3>2, PowType
      <4>2. k < j <=> k < j + 1
        BY <4>1, <2>1
      <4> QED BY <3>2, <4>2
    <3> QED BY <3>1, <3>2
  <2>5. ASSUME NEW v, IsSum(Weigh(H(j + 1), w), Cells, v) PROVE v = t + C(j + 1)
    <3>1. PICK q : IsSum(Weigh(H(j), w), Cells, q)
      <4>1. PICK h : SumDef(Weigh(H(j), w), Cells, h)
        BY CellsFinite, SumExists
      <4> QED BY <4>1 DEF IsSum
    <3>2. PICK a \in AllLists, b \in AllLists : a = H(j) /\ b = H(j + 1)
      BY <2>1, <1>2
    <3>3. q = t + C(j)
      BY <1>8, <3>1
    <3>4. PICK e \in Int : e = d
      BY <2>3
    <3> HIDE DEF H, C, d
    <3>5. q \in Int /\ v = q + e * w[j]
      <4>1. Len(b[z][j]) = Len(a[z][j]) + e
        BY <2>2, <2>3, <3>2, <3>4
      <4>2. LongerBy(a, b, z, j, e)
        BY <2>4, <3>2, <4>1 DEF OnlyList, LongerBy
      <4>3. IsSum(Weigh(a, w), Cells, q) /\ IsSum(Weigh(b, w), Cells, v)
        BY <2>5, <3>1, <3>2
      <4>4. Grows(q, v, e, w[j])
        BY <2>1, <4>2, <4>3, SumList
      <4> QED BY <4>4 DEF Grows
    <3>6. C(j + 1) = C(j) + e * w[j] /\ C(j) \in Int /\ e * w[j] \in Int
      <4>1. W[j + 1] = W[j] + w[j]
        BY <2>1
      <4>2. W[j] \in Int /\ w[j] \in Int /\ W[req] \in Int /\ W[p] \in Int /\ w[p] \in Int
            /\ W[j + 1] \in Int
        BY <2>1, <1>0, <1>3
      <4>3. CASE j = p
        <5>1. e = 0 - 1 /\ C(j) = W[p] - W[req] /\ C(j + 1) = W[p] - W[req] - w[p]
          BY <4>2, <4>3, <3>4, <1>0 DEF C, d
        <5> QED BY ONLY <5>1, <4>2, <4>3
      <4>4. CASE j # p /\ req =< j /\ j < p
        <5>1. e = 1 /\ C(j) = W[j] - W[req] /\ C(j + 1) = W[j + 1] - W[req]
          BY <4>2, <4>4, <3>4, <1>0, <2>1 DEF C, d
        <5> QED BY ONLY <5>1, <4>1, <4>2
      <4>5. CASE j # p /\ ~(req =< j /\ j < p)
        <5>1. e = 0 /\ C(j + 1) = C(j) /\ C(j) \in Int
          BY <4>2, <4>5, <3>4, <1>0, <2>1 DEF C, d
        <5> QED BY ONLY <5>1, <4>2
      <4> QED BY <4>3, <4>4, <4>5
    <3> QED BY ONLY <3>3, <3>5, <3>6, <1>4
  <2> HIDE DEF H, C
  <2> QED BY <2>1, <2>5
<1>9. \A j \in 0..MaxPow : j \in P
  <2> HIDE DEF P
  <2> QED BY <1>0, <1>7, <1>8, PowInd
<1>10. u = t + C(MaxPow)
  <2>1. MaxPow \in P
    BY <1>9, <1>0
  <2>2. IsSum(Weigh(H(MaxPow), w), Cells, u)
    BY <1>6
  <2> HIDE DEF H, C
  <2> QED BY <2>1, <2>2
<1>11. C(MaxPow) = W[p] - W[req] - w[p] /\ W[p] \in Int /\ W[req] \in Int /\ w[p] \in Int
  BY <1>0, <1>3
<1> QED BY ONLY <1>4, <1>10, <1>11

-----------------------------------------------------------------------------
(* What the operations on the lists do to both totals. *)
LEMMA ListsType == TypeOK => pows \in AllLists
BY DEF TypeOK, AllLists, Lists

LEMMA TotalsOneList ==
  ASSUME NEW f \in AllLists, NEW g \in AllLists, NEW z \in DOMAIN Zones,
         NEW p \in Pows, NEW d \in Int, LongerBy(f, g, z, p, d)
  PROVE  /\ NodesOf(f) \in Int /\ NodesOf(g) = NodesOf(f) + d
         /\ PagesIn(f) \in Int /\ PagesIn(g) = PagesIn(f) + d * Shl[p]
<1>1. Grows(NodesOf(f), NodesOf(g), d, One[p])
  BY TotalsAre, SumList
<1>2. Grows(PagesIn(f), PagesIn(g), d, Shl[p])
  BY TotalsAre, SumList
<1>3. One[p] = 1
  BY PowType DEF One
<1> QED BY <1>1, <1>2, <1>3 DEF Grows

Push(f, g, z, p, x) == g = [f EXCEPT ![z][p] = <<x>> \o @]

Unlink(f, g, z, p, i) == g = [f EXCEPT ![z][p] = RemoveAt(@, i)]

LEMMA TotalsPush ==
  ASSUME NEW f \in AllLists, NEW z \in DOMAIN Zones, NEW p \in Pows, NEW x \in Nat,
         NEW g \in AllLists, Push(f, g, z, p, x)
  PROVE  /\ NodesOf(f) \in Int /\ NodesOf(g) = NodesOf(f) + 1
         /\ PagesIn(f) \in Int /\ PagesIn(g) = PagesIn(f) + Shl[p]
<1>1. f[z] \in Lists /\ f[z][p] \in Seq(Nat)
  BY DEF AllLists, Lists
<1>2. g[z][p] = <<x>> \o f[z][p] /\ OnlyList(f, g, z, p)
  BY <1>1 DEF AllLists, Lists, OnlyList, Push
<1>3. LongerBy(f, g, z, p, 1)
  BY <1>1, <1>2, PushProperties DEF LongerBy
<1>4. Shl[p] \in Nat
  BY PowType
<1> QED BY <1>3, <1>4, TotalsOneList

LEMMA TotalsRemove ==
  ASSUME NEW f \in AllLists, NEW z \in DOMAIN Zones, NEW p \in Pows,
         NEW i \in DOMAIN f[z][p],
         NEW g \in AllLists, Unlink(f, g, z, p, i)
  PROVE  /\ NodesOf(f) \in Int /\ NodesOf(g) = NodesOf(f) - 1
         /\ PagesIn(f) \in Int /\ PagesIn(g) = PagesIn(f) - Shl[p]
<1>1. f[z] \in Lists /\ f[z][p] \in Seq(Nat) /\ g[z] \in Lists /\ g[z][p] \in Seq(Nat)
  BY DEF AllLists, Lists
<1>2. g[z][p] = RemoveAt(f[z][p], i) /\ OnlyList(f, g, z, p)
  BY <1>1 DEF AllLists, Lists, OnlyList, Unlink
<1>3. Len(g[z][p]) = Len(f[z][p]) - 1
  <2>1. PICK a \in Seq(Nat), b \in Seq(Nat) : a = f[z][p] /\ b = g[z][p]
    BY <1>1
  <2>2. i \in 1..Len(a) /\ Len(a) \in Nat
    BY <2>1
  <2>3. b = RemoveAt(a, i)
    BY <1>2, <2>1
  <2>4. DOMAIN b = 1..(Len(a) - 1)
    BY <2>2, <2>3, RemoveAtProperties
  <2>5. Len(b) = Len(a) - 1
    BY ONLY <2>2, <2>4, b \in Seq(Nat)
  <2> QED BY <2>1, <2>5
<1>4. LongerBy(f, g, z, p, 0 - 1)
  BY <1>1, <1>2, <1>3 DEF LongerBy
<1>5. Shl[p] \in Nat
  BY PowType
<1>6. /\ NodesOf(f) \in Int /\ NodesOf(g) = NodesOf(f) + (0 - 1)
      /\ PagesIn(f) \in Int /\ PagesIn(g) = PagesIn(f) + (0 - 1) * Shl[p]
  BY <1>4, TotalsOneList
<1> QED BY ONLY <1>5, <1>6

LEMMA TotalsServe ==
  ASSUME TypeInv, pows' \in AllLists, NEW req \in 0..MaxPow, NEW extra, Serve(req, extra)
  PROVE  /\ NodesOf(pows) \in Int /\ PagesIn(pows) \in Int
         /\ NodesOf(pows') = NodesOf(pows) - 1 + (ServingPow(req) - req)
         /\ PagesIn(pows') = PagesIn(pows) - Shl[req]
         /\ ServingPow(req) \in Int
<1>1. PICK z \in DOMAIN Zones, p \in Pows :
        /\ z = ServingZone(req) /\ p = ServingPow(req) /\ req =< p /\ pows[z][p] # << >>
  BY ServeFacts DEF Serve, CanServe, TypeInv
<1>2. PICK f \in AllLists, g \in AllLists : f = pows /\ g = pows'
  BY ListsType DEF TypeInv
<1>3. /\ p \in Nat /\ req \in 0..p /\ p \in 0..MaxPow /\ req \in Int
      /\ Shl[p] \in Nat /\ Shl[req] \in Nat
  BY <1>1, PowType, ShlAssumption
<1>4. /\ f[z] \in Lists /\ f[z][p] # << >>
      /\ \A k \in Pows : f[z][k] \in Seq(Nat)
  BY <1>1, <1>2 DEF AllLists, Lists
<1>5. Head(f[z][p]) \in Nat /\ Tail(f[z][p]) \in Seq(Nat)
      /\ Len(Tail(f[z][p])) = Len(f[z][p]) - 1
  BY <1>4
<1>6. /\ \A y \in DOMAIN Zones : y # z => g[y] = f[y]
      /\ g[z][p] = Tail(f[z][p])
      /\ \A k \in Pows : req =< k /\ k < p => g[z][k] = << Head(f[z][p]) + Shl[k] >> \o f[z][k]
      /\ \A k \in Pows : k # p /\ ~(req =< k /\ k < p) => g[z][k] = f[z][k]
  <2>1. g = [f EXCEPT ![z] = SplitLists(z, p, req)]
    BY <1>1, <1>2 DEF Serve
  <2>2. g[z] = SplitLists(z, p, req) /\ \A y \in DOMAIN Zones : y # z => g[y] = f[y]
    BY <2>1 DEF AllLists
  <2> QED BY <1>2, <1>3, <2>2 DEF SplitLists
<1>7. SplitLens(f, g, z, p, req)
  <2>1. ASSUME NEW k \in Pows, req =< k, k < p PROVE Len(g[z][k]) = Len(f[z][k]) + 1
    <3>1. Shl[k] \in Nat /\ Head(f[z][p]) \in Nat
      BY <1>5, PowType
    <3>2. PICK a \in Nat, l \in Seq(Nat) : a = Head(f[z][p]) + Shl[k] /\ l = f[z][k]
      BY <1>4, <3>1
    <3>3. g[z][k] = <<a>> \o l
      BY <1>6, <2>1, <3>2
    <3>4. Len(<<a>> \o l) = Len(l) + 1
      BY PushProperties
    <3> QED BY <3>2, <3>3, <3>4
  <2> QED BY <1>5, <1>6, <2>1 DEF SplitLens
<1>8. NodesOf(f) \in Int /\ NodesOf(g) = NodesOf(f) - 1 + (p - req)
  <2> DEFINE W == [k \in 0..MaxPow |-> k]
  <2>1. W \in Weights /\ One \in Weights
    BY TotalsAre, ShlAssumption DEF Weights
  <2>2. \A k \in Pows : W[k + 1] = W[k] + One[k]
    BY PowType DEF One
  <2>3. One[p] = 1 /\ W[p] = p /\ W[req] = req
    BY <1>3 DEF One
  <2> HIDE DEF W
  <2>4. IsSum(Weigh(f, One), Cells, NodesOf(f)) /\ IsSum(Weigh(g, One), Cells, NodesOf(g))
    BY TotalsAre
  <2>5. NodesOf(f) \in Int /\ NodesOf(g) = NodesOf(f) - One[p] + (W[p] - W[req])
    BY <1>3, <1>7, <2>1, <2>2, <2>4, SumSplit
  <2> QED BY <2>3, <2>5
<1>9. PagesIn(f) \in Int /\ PagesIn(g) = PagesIn(f) - Shl[req]
  <2>1. Shl \in Weights /\ \A k \in Pows : Shl[k + 1] = Shl[k] + Shl[k]
    BY TotalsAre, PowType
  <2>2. IsSum(Weigh(f, Shl), Cells, PagesIn(f)) /\ IsSum(Weigh(g, Shl), Cells, PagesIn(g))
    BY TotalsAre
  <2>3. PagesIn(f) \in Int /\ PagesIn(g) = PagesIn(f) - Shl[p] + (Shl[p] - Shl[req])
    BY <1>3, <1>7, <2>1, <2>2, SumSplit
  <2> QED BY ONLY <1>3, <2>3
<1> QED BY <1>1, <1>2, <1>3, <1>8, <1>9

(* A block that is served was in a list, so nobody owned it. *)
LEMMA ServedFresh ==
  ASSUME TypeInv, TileInv, NEW req \in 0..MaxPow, NEW extra, Serve(req, extra)
  PROVE  ServedBlock(req) \notin Owned
<1>1. PICK z \in 1..zone_num, p \in Pows : \E x \in Nat :
        /\ z \in DOMAIN Zones /\ req \in 0..p
        /\ ServedBlock(req) = [page |-> x, pow |-> req]
        /\ [page |-> x, pow |-> p] \in FreeIn(z)
  BY ServeLists
<1>2. PICK x \in Nat :
        /\ z \in DOMAIN Zones /\ req \in 0..p
        /\ ServedBlock(req) = [page |-> x, pow |-> req]
        /\ [page |-> x, pow |-> p] \in FreeIn(z)
  BY <1>1
<1>3. PICK whole \in FreeBlocks : whole = [page |-> x, pow |-> p] /\ whole \in Block
  BY <1>2, FreeInType DEF FreeBlocks
<1>4. SUFFICES ASSUME ServedBlock(req) \in Owned PROVE FALSE
  OBVIOUS
<1>5. PICK s \in Owned : s = [page |-> x, pow |-> req]
  BY <1>2, <1>4
<1>6. req \in Pows
  <2>1. p \in Nat /\ p < MaxPow /\ MaxPow \in Nat /\ req \in 0..p
    BY <1>2, PowType, ShlAssumption
  <2> QED BY ONLY <2>1 DEF Pows
<1>7. s \in Block /\ s # whole /\ s \in Blocks /\ whole \in Blocks
  BY <1>3, <1>5, <1>6 DEF Block, Blocks, TileInv, PagesDisjoint, OneHome
<1>8. x \in Pages(s) /\ x \in Pages(whole)
  BY <1>3, <1>5, <1>7, PagesOf
<1> QED BY <1>7, <1>8 DEF TileInv, PagesDisjoint, Apart

-----------------------------------------------------------------------------
(* The inductive invariant.  In the middle of a call the counter of pages   *)
(* is behind the lists: add_zone counts a zone when it is built, free_pages *)
(* counts the block when it is inserted, grown by the blocks it took out of *)
(* the lists.                                                              *)
Uncounted ==
    CASE op.pc = "zone" -> op.page
      [] op.pc = "merge" -> Shl[op.req] - Shl[op.final]
      [] OTHER -> 0

CountInv ==
    /\ TilingInv
    /\ IsFiniteSet(extended_pools)
    /\ free_nodes + NodesOf(pows) = NodeCap + ExtCap * Cardinality(extended_pools)
    /\ Safe => free + Uncounted = PagesIn(pows)

LEMMA TotalsType == TypeInv => NodesOf(pows) \in Int /\ PagesIn(pows) \in Int
<1> SUFFICES ASSUME TypeInv PROVE NodesOf(pows) \in Int /\ PagesIn(pows) \in Int
  OBVIOUS
<1>1. PICK f \in AllLists : f = pows
  BY ListsType DEF TypeInv
<1>2. Weigh(f, One) \in [Cells -> Int] /\ Weigh(f, Shl) \in [Cells -> Int]
  BY TotalsAre, WeighType
<1>3. NodesOf(f) \in Int /\ PagesIn(f) \in Int
  BY <1>2, TotalsAre, CellsFinite, SumUnique
<1> QED BY <1>1, <1>3

LEMMA CountInit == Init => CountInv
<1> SUFFICES ASSUME Init PROVE CountInv
  OBVIOUS
<1>1. TilingInv /\ TypeInv
  BY TileInit DEF TilingInv
<1>2. /\ pows = [z \in DOMAIN Zones |-> [p \in Pows |-> << >>]]
      /\ free = 0 /\ free_nodes = NodeCap /\ extended_pools = {} /\ op.pc = "idle"
  BY DEF Init, Idle, Call
<1>3. PICK f \in AllLists : f = pows
  BY <1>1, ListsType DEF TypeInv
<1>4. ASSUME NEW w \in Weights, NEW t, IsSum(Weigh(f, w), Cells, t) PROVE t = 0
  <2>1. \A c \in Cells : Weigh(f, w)[c] = 0
    <3>1. ASSUME NEW c \in Cells PROVE Weigh(f, w)[c] = 0
      <4>1. /\ c[1] \in DOMAIN Zones /\ c[2] \in Pows /\ w[c[2]] \in Int
            /\ Weigh(f, w)[c] = Len(f[c[1]][c[2]]) * w[c[2]]
        BY CellType
      <4>2. Len(f[c[1]][c[2]]) = 0
        BY <1>2, <1>3, <4>1
      <4> QED BY <4>1, <4>2
    <3> QED BY <3>1
  <2>2. PICK g : SumDef(Weigh(f, w), Cells, g) /\ t = g[Cells]
    BY <1>4 DEF IsSum
  <2> DEFINE Z == [c \in Cells |-> 0]
             h == [r \in SUBSET Cells |-> 0]
  <2>3. SumDef(Z, Cells, h)
    <3>1. ASSUME NEW r \in SUBSET Cells PROVE h[r] = SumBody(Z, h, r)
      <4>1. r # {} => Pick1(r) \in Cells /\ r \ {Pick1(r)} \in SUBSET Cells
        BY Pick1In
      <4> QED BY <4>1 DEF SumBody
    <3>2. h = [r \in SUBSET Cells |-> SumBody(Z, h, r)]
      BY <3>1
    <3> QED BY <3>2 DEF SumDef
  <2>4. Z \in [Cells -> Int] /\ \A c \in Cells : Weigh(f, w)[c] = Z[c]
    BY <2>1
  <2>5. h[Cells] = 0
    OBVIOUS
  <2> HIDE DEF Z, h
  <2>6. PICK F \in [Cells -> Int] : F = Weigh(f, w)
    BY WeighType
  <2>7. g[Cells] = h[Cells]
    <3>1. Cells \in SUBSET Cells
      OBVIOUS
    <3>2. SumDef(F, Cells, g) /\ \A c \in Cells : F[c] = Z[c]
      BY <2>2, <2>4, <2>6
    <3> QED BY <2>3, <2>4, <3>1, <3>2, CellsFinite, SumSame
  <2> QED BY <2>2, <2>5, <2>7
<1>5. NodesOf(f) = 0 /\ PagesIn(f) = 0
  BY <1>4, TotalsAre
<1>6. IsFiniteSet({}) /\ Cardinality({}) = 0
  BY FS_EmptySet
<1>7. free_nodes + NodesOf(pows) = NodeCap + ExtCap * Cardinality(extended_pools)
  BY <1>2, <1>3, <1>5, <1>6, PoolAssumption
<1>8. free + Uncounted = PagesIn(pows)
  BY <1>2, <1>3, <1>5 DEF Uncounted
<1> QED BY <1>1, <1>2, <1>6, <1>7, <1>8 DEF CountInv

(* Serving a request, for a caller or for a pool of extra nodes. *)
LEMMA CountServe ==
  ASSUME CountInv, TypeInv', NEW req \in 0..MaxPow, NEW extra \in Nat, Serve(req, extra),
         op.pc \in {"idle", "alloc"}
  PROVE  /\ free_nodes' + NodesOf(pows') =
               NodeCap + ExtCap * Cardinality(extended_pools) + extra
         /\ Safe => free' = PagesIn(pows')
<1>1. pows' \in AllLists
  BY DEF TypeInv, TypeOK, AllLists, Lists
<1>2. TypeInv
  BY DEF CountInv, TilingInv
<1>3. /\ NodesOf(pows) \in Int /\ PagesIn(pows) \in Int
      /\ NodesOf(pows') = NodesOf(pows) - 1 + (ServingPow(req) - req)
      /\ PagesIn(pows') = PagesIn(pows) - Shl[req]
      /\ ServingPow(req) \in Int
  BY <1>1, <1>2, TotalsServe
<1>4. /\ free_nodes' = free_nodes + 1 - (ServingPow(req) - req) + extra
      /\ free' = free - Shl[req] /\ free_nodes \in Nat /\ free \in Int
      /\ Shl[req] \in Nat /\ req \in Int
  BY <1>2, ShlAssumption DEF Serve, TypeInv, TypeOK
<1>5. PICK total \in Int : /\ total = NodeCap + ExtCap * Cardinality(extended_pools)
                           /\ free_nodes + NodesOf(pows) = total
  <2>1. Cardinality(extended_pools) \in Nat
    BY FS_CardinalityType DEF CountInv
  <2>2. ExtCap * Cardinality(extended_pools) \in Int
    BY <2>1, PoolAssumption
  <2> QED BY <2>2, PoolAssumption DEF CountInv
<1>6. free_nodes' + NodesOf(pows') = total + extra
  BY ONLY <1>3, <1>4, <1>5, extra \in Nat
<1>7. ASSUME Safe PROVE free' = PagesIn(pows')
  <2>1. Uncounted = 0
    BY DEF Uncounted
  <2>2. free + 0 = PagesIn(pows)
    BY <1>7, <2>1 DEF CountInv
  <2> QED BY ONLY <1>3, <1>4, <2>2
<1> QED BY <1>5, <1>6, <1>7

LEMMA CountGrant ==
  ASSUME CountInv, TilingInv', NEW req \in 0..MaxPow, Grant(req),
         UNCHANGED misMerged, op.pc \in {"idle", "alloc"}
  PROVE  CountInv'
<1>1. TypeInv'
  BY DEF TilingInv
<1>2. CASE Refuse(req, 0)
  <2>1. Panicked' /\ UNCHANGED <<pows, free_nodes, extended_pools>>
    BY <1>2 DEF Refuse, Panicked, Panic, Call
  <2> QED BY <2>1 DEF CountInv, Safe
<1>3. CASE ~Refuse(req, 0)
  <2>1. Serve(req, 0) /\ op' = Idle /\ UNCHANGED extended_pools
    BY <1>3 DEF Grant
  <2>2. /\ free_nodes' + NodesOf(pows') =
               NodeCap + ExtCap * Cardinality(extended_pools) + 0
        /\ Safe => free' = PagesIn(pows')
    BY <1>1, <2>1, CountServe
  <2>3. Safe' => Safe
    BY DEF Safe, Panicked
  <2>4. Uncounted' = 0
    BY <2>1 DEF Uncounted, Idle, Call
  <2>5. free' \in Int
    BY <1>1 DEF TypeInv, TypeOK
  <2>6. NodeCap + ExtCap * Cardinality(extended_pools) \in Int
    <3>1. Cardinality(extended_pools) \in Nat
      BY FS_CardinalityType DEF CountInv
    <3> QED BY <3>1, PoolAssumption
  <2>7. free_nodes' + NodesOf(pows') = NodeCap + ExtCap * Cardinality(extended_pools')
    BY <2>1, <2>2, <2>6
  <2> QED BY <2>1, <2>2, <2>3, <2>4, <2>5, <2>7 DEF CountInv
<1> QED BY <1>2, <1>3

LEMMA CountExtend ==
  ASSUME CountInv, TilingInv', NEW n \in Requests, new_extended_pool(n), ~misMerged
  PROVE  CountInv'
<1>1. TypeInv' /\ TypeInv
  BY DEF CountInv, TilingInv
<1>2. CASE Refuse(ExtPow, ExtCap)
  <2>1. Panicked' /\ UNCHANGED <<pows, free_nodes, extended_pools>>
    BY <1>2 DEF Refuse, Panicked, Panic, Call
  <2> QED BY <2>1 DEF CountInv, Safe
<1>3. CASE ~Refuse(ExtPow, ExtCap)
  <2>1. /\ Serve(ExtPow, ExtCap) /\ op' = Call("alloc", CeilPow(n), 0)
        /\ extended_pools' = extended_pools \cup {ServedBlock(ExtPow)}
        /\ op.pc = "idle"
    BY <1>3 DEF new_extended_pool, Ready, Idle, Call
  <2>2. ExtPow \in 0..MaxPow /\ ExtCap \in Nat
    BY PoolAssumption, PowType
  <2>3. /\ free_nodes' + NodesOf(pows') =
               NodeCap + ExtCap * Cardinality(extended_pools) + ExtCap
        /\ Safe => free' = PagesIn(pows')
    BY <1>1, <2>1, <2>2, CountServe
  <2>4. Safe
    BY <2>1 DEF Safe, Panicked
  <2>5. ServedBlock(ExtPow) \notin extended_pools
    <3>1. TileInv
      BY <2>4 DEF CountInv, TilingInv
    <3> QED BY <1>1, <2>1, <2>2, <3>1, ServedFresh DEF Owned
  <2>6. /\ IsFiniteSet(extended_pools')
        /\ Cardinality(extended_pools') = Cardinality(extended_pools) + 1
        /\ Cardinality(extended_pools) \in Nat
    BY <2>1, <2>5, FS_AddElement, FS_CardinalityType DEF CountInv
  <2>7. free_nodes' + NodesOf(pows') = NodeCap + ExtCap * Cardinality(extended_pools')
    <3>1. ASSUME NEW c \in Nat, NEW e \in Nat, NEW m \in Nat
          PROVE  m + e * c + e = m + e * (c + 1)
      OBVIOUS
    <3> QED BY <2>3, <2>6, <3>1, PoolAssumption
  <2>8. Uncounted' = 0
    BY <2>1 DEF Uncounted, Call
  <2>9. free' \in Int
    BY <1>1 DEF TypeInv, TypeOK
  <2> QED BY <2>3, <2>4, <2>6, <2>7, <2>8, <2>9 DEF CountInv
<1> QED BY <1>2, <1>3

(* A step that pushes a block of power p on a list of zone z. *)
LEMMA CountPush ==
  ASSUME CountInv, TypeInv', NEW z \in DOMAIN Zones, NEW p \in Pows, NEW x \in Nat,
         add_node(z, p, x), UNCHANGED extended_pools
  PROVE  /\ IsFiniteSet(extended_pools')
         /\ free_nodes' + NodesOf(pows') = NodeCap + ExtCap * Cardinality(extended_pools')
         /\ PagesIn(pows) \in Int /\ PagesIn(pows') = PagesIn(pows) + Shl[p]
<1>1. PICK f \in AllLists, g \in AllLists : f = pows /\ g = pows'
  BY ListsType DEF CountInv, TilingInv, TypeInv, TypeOK, AllLists, Lists
<1>2. Push(f, g, z, p, x)
  BY <1>1 DEF add_node, Push
<1>3. /\ NodesOf(f) \in Int /\ NodesOf(g) = NodesOf(f) + 1
      /\ PagesIn(f) \in Int /\ PagesIn(g) = PagesIn(f) + Shl[p]
  BY <1>2, TotalsPush
<1>4. free_nodes' = free_nodes - 1 /\ free_nodes \in Nat
  BY DEF add_node, CountInv, TilingInv, TypeInv, TypeOK
<1>5. free_nodes' + NodesOf(g) = free_nodes + NodesOf(f)
  BY ONLY <1>3, <1>4
<1> QED BY <1>1, <1>3, <1>5 DEF CountInv

LEMMA CountNewZoneNode ==
  ASSUME CountInv, TilingInv', new_zone_node
  PROVE  CountInv'
<1>1. TypeInv /\ TypeInv'
  BY DEF CountInv, TilingInv
<1>2. CASE NoNode
  <2>1. Panicked' /\ UNCHANGED <<pows, free_nodes, extended_pools>>
    BY <1>2 DEF new_zone_node, Panicked, Panic, Call
  <2> QED BY <2>1 DEF CountInv, Safe
<1>3. CASE ~NoNode
  <2> DEFINE fit == {p \in Pows : Shl[p] =< Zones[op.zone].pages - op.page}
  <2>1. /\ op.zone \in DOMAIN Zones /\ op.page \in Nat /\ op.pc = "zone"
        /\ Zones[op.zone].pages \in Nat /\ op \in Op
    BY <1>1, ZoneType DEF TypeInv, TypeOK, new_zone_node, Op
  <2>2. PICK p \in Pows : p = Max(fit)
    <3>1. 0 \in Pows
      BY ShlAssumption DEF Pows
    <3>2. 0 \in fit
      BY <2>1, <3>1, ShlAssumption DEF new_zone_node
    <3>3. fit \subseteq Pows /\ fit # {}
      BY <3>2
    <3> HIDE DEF fit
    <3>4. Max(fit) \in fit
      BY <3>3, MaxPows
    <3> QED BY <3>3, <3>4
  <2>3. /\ add_node(op.zone, p, op.page) /\ op' = [op EXCEPT !.page = @ + Shl[p]]
        /\ UNCHANGED <<zone_num, free, extended_pools, held, misMerged>>
    BY <1>3, <2>2 DEF new_zone_node
  <2>4. /\ IsFiniteSet(extended_pools')
        /\ free_nodes' + NodesOf(pows') = NodeCap + ExtCap * Cardinality(extended_pools')
        /\ PagesIn(pows) \in Int /\ PagesIn(pows') = PagesIn(pows) + Shl[p]
    BY <1>1, <2>1, <2>3, CountPush
  <2>5. op'.pc = "zone" /\ op'.page = op.page + Shl[p]
    BY <2>1, <2>3 DEF Op
  <2>6. ASSUME Safe' PROVE free' + Uncounted' = PagesIn(pows')
    <3>1. Safe
      BY <2>1, <2>3, <2>6, Zenon DEF Safe, Panicked
    <3>2. Uncounted = op.page /\ Uncounted' = op.page + Shl[p]
      BY <2>1, <2>5 DEF Uncounted
    <3>3. free + op.page = PagesIn(pows)
      BY <3>1, <3>2 DEF CountInv
    <3>4. free' = free /\ free \in Int /\ Shl[p] \in Nat
      BY <1>1, <2>3, PowType DEF TypeInv, TypeOK
    <3> QED BY ONLY <2>1, <2>4, <3>2, <3>3, <3>4
  <2> QED BY <2>4, <2>6 DEF CountInv
<1> QED BY <1>2, <1>3

LEMMA CountMergeFound ==
  ASSUME CountInv, TilingInv', merge_found
  PROVE  CountInv'
<1>1. TypeInv /\ TypeInv'
  BY DEF CountInv, TilingInv
<1>2. Merging /\ op.pc = "merge" /\ op.pow < MaxPow
  BY DEF merge_found, Merging
<1>3. /\ op.zone \in DOMAIN Zones /\ op.pow \in Pows /\ op.final \in 0..MaxPow
      /\ op.req \in 0..MaxPow
  BY <1>1, <1>2, MergeFacts
<1>4. PICK f \in AllLists, g \in AllLists : f = pows /\ g = pows'
  BY <1>1, ListsType DEF TypeInv, TypeOK, AllLists, Lists
<1>5. PICK i \in DOMAIN f[op.zone][op.pow] :
        Unlink(f, g, op.zone, op.pow, i)
  BY <1>4 DEF merge_found, MergeList, Unlink
<1>6. /\ NodesOf(f) \in Int /\ NodesOf(g) = NodesOf(f) - 1
      /\ PagesIn(f) \in Int /\ PagesIn(g) = PagesIn(f) - Shl[op.pow]
  BY <1>3, <1>5, TotalsRemove
<1>7. free_nodes' = free_nodes + 1 /\ free_nodes \in Nat /\ free' = free /\ free \in Int
  BY <1>1 DEF merge_found, TypeInv, TypeOK
<1>8. free_nodes' + NodesOf(g) = free_nodes + NodesOf(f)
  BY ONLY <1>6, <1>7
<1>9. free_nodes' + NodesOf(pows') = NodeCap + ExtCap * Cardinality(extended_pools')
  BY <1>4, <1>8 DEF CountInv, merge_found
<1>10. ASSUME Safe' PROVE free' + Uncounted' = PagesIn(pows')
  <2>1. ~misMerged /\ op.pow = op.final
    BY <1>10, Zenon DEF Safe, merge_found
  <2>2. op'.pc = "merge" /\ op'.req = op.req /\ op'.final = op.final + 1
    BY DEF merge_found, MergeCall
  <2>3. Safe
    BY <1>2, <2>1 DEF Safe, Panicked
  <2>4. Uncounted = Shl[op.req] - Shl[op.final] /\ Uncounted' = Shl[op.req] - Shl[op.final + 1]
    BY <1>2, <2>2 DEF Uncounted
  <2>5. /\ Shl[op.final + 1] = Shl[op.final] + Shl[op.final]
        /\ Shl[op.final] \in Nat /\ Shl[op.req] \in Nat
    BY <1>3, <2>1, PowType, ShlPositive
  <2>6. free + (Shl[op.req] - Shl[op.final]) = PagesIn(f)
    BY <1>4, <2>3, <2>4 DEF CountInv
  <2>7. PagesIn(g) = PagesIn(f) - Shl[op.final]
    BY <1>6, <2>1
  <2>8. free + (Shl[op.req] - Shl[op.final + 1]) = PagesIn(g)
    BY ONLY <1>6, <1>7, <2>5, <2>6, <2>7
  <2> QED BY <1>4, <1>7, <2>4, <2>8
<1> QED BY <1>9, <1>10 DEF CountInv, merge_found

LEMMA CountMergeEnd ==
  ASSUME CountInv, TilingInv', merge_end
  PROVE  CountInv'
<1>1. TypeInv /\ TypeInv' /\ op.pc = "merge"
  BY DEF CountInv, TilingInv, merge_end
<1>2. CASE NoNode \/ op.final = MaxPow
  <2>1. Panicked' /\ UNCHANGED <<pows, free_nodes, extended_pools>>
    BY <1>2 DEF merge_end, Panicked, Panic, Call
  <2> QED BY <2>1 DEF CountInv, Safe
<1>3. CASE ~(NoNode \/ op.final = MaxPow)
  <2>1. /\ op.zone \in DOMAIN Zones /\ op.page \in Nat /\ op.final \in 0..MaxPow
        /\ op.req \in 0..MaxPow /\ MaxPow \in Nat
    BY <1>1, MergeFacts, ShlAssumption
  <2>2. op.final \in Pows
    BY <1>3, <2>1 DEF Pows
  <2>3. /\ add_node(op.zone, op.final, op.page) /\ free' = free + Shl[op.req]
        /\ op' = Idle /\ UNCHANGED <<extended_pools, misMerged>>
    BY <1>3 DEF merge_end
  <2>4. /\ IsFiniteSet(extended_pools')
        /\ free_nodes' + NodesOf(pows') = NodeCap + ExtCap * Cardinality(extended_pools')
        /\ PagesIn(pows) \in Int /\ PagesIn(pows') = PagesIn(pows) + Shl[op.final]
    BY <1>1, <2>1, <2>2, <2>3, CountPush
  <2>5. ASSUME Safe' PROVE free' + Uncounted' = PagesIn(pows')
    <3>1. Safe
      BY <1>1, <2>3, <2>5, Zenon DEF Safe, Panicked
    <3>2. Uncounted = Shl[op.req] - Shl[op.final] /\ Uncounted' = 0
      BY <1>1, <2>3 DEF Uncounted, Idle, Call
    <3>3. free + (Shl[op.req] - Shl[op.final]) = PagesIn(pows)
      BY <3>1, <3>2 DEF CountInv
    <3>4. free \in Int /\ Shl[op.final] \in Nat /\ Shl[op.req] \in Nat
      BY <1>1, <2>1, ShlPositive DEF TypeInv, TypeOK
    <3> QED BY ONLY <2>3, <2>4, <3>2, <3>3, <3>4
  <2> QED BY <2>4, <2>5 DEF CountInv
<1> QED BY <1>2, <1>3

(* A step that leaves the lists and the pools alone. *)
LEMMA CountSame ==
  ASSUME CountInv, TilingInv', UNCHANGED <<pows, free_nodes, extended_pools, misMerged>>,
         ~Panicked, free' + Uncounted' = free + Uncounted
  PROVE  CountInv'
<1>1. Safe' => Safe
  BY Zenon DEF Safe
<1> QED BY <1>1 DEF CountInv

LEMMA CountNext == CountInv /\ [Next]_vars /\ ~misMerged => CountInv'
<1> SUFFICES ASSUME CountInv, [Next]_vars, ~misMerged PROVE CountInv'
  BY Zenon
<1>1. TilingInv /\ TilingInv' /\ TypeInv /\ TypeInv'
  BY TileNext DEF CountInv, TilingInv
<1>2. CASE UNCHANGED vars
  BY <1>1, <1>2 DEF vars, CountInv, Safe, Panicked, Uncounted
<1>3. CASE add_zone
  <2>1. Uncounted = 0 /\ Uncounted' = 0 /\ ~Panicked /\ free' = free
    BY <1>3 DEF add_zone, Ready, Idle, Call, Uncounted, Panicked
  <2> QED BY <1>1, <1>3, <2>1, CountSame DEF add_zone
<1>4. CASE new_zone_node
  BY <1>1, <1>4, CountNewZoneNode
<1>5. CASE add_zone_done
  <2>1. op.zone \in DOMAIN Zones /\ Zones[op.zone].pages \in Nat /\ free \in Int
    BY <1>1, <1>5, ZoneType DEF add_zone_done, TypeInv, TypeOK
  <2>2. /\ Uncounted = Zones[op.zone].pages /\ Uncounted' = 0 /\ ~Panicked
        /\ free' = free + Zones[op.zone].pages
    BY <1>5 DEF add_zone_done, Idle, Call, Uncounted, Panicked
  <2>3. free' + Uncounted' = free + Uncounted
    BY <2>1, <2>2
  <2> QED BY <1>1, <1>5, <2>2, <2>3, CountSame DEF add_zone_done
<1>6. ASSUME NEW n \in Requests, alloc_pages(n) PROVE CountInv'
  <2>1. /\ Grant(CeilPow(n)) /\ UNCHANGED misMerged /\ op.pc = "idle"
        /\ CeilPow(n) \in 0..MaxPow
    BY <1>6, CeilPowType DEF alloc_pages, Ready, Idle, Call
  <2> QED BY <1>1, <2>1, CountGrant
<1>7. ASSUME NEW n \in Requests, new_extended_pool(n) PROVE CountInv'
  BY <1>1, <1>7, CountExtend
<1>8. CASE alloc_pages_extended
  <2>1. Grant(op.req) /\ UNCHANGED misMerged /\ op.pc = "alloc" /\ op.req \in 0..MaxPow
    BY <1>1, <1>8 DEF alloc_pages_extended, TypeInv, TypeOK, Op
  <2> QED BY <1>1, <2>1, CountGrant
<1>9. ASSUME NEW b \in held, free_pages(b) PROVE CountInv'
  <2>1. /\ op.pc = "idle" /\ op'.pc = "merge" /\ op'.req = b.pow /\ op'.final = b.pow
        /\ free' = free
    BY <1>9 DEF free_pages, Ready, Idle, Call, MergeCall
  <2>2. Shl[b.pow] \in Nat
    BY <1>1, PowType DEF TypeInv, TypeOK, Block
  <2>3. Uncounted = 0 /\ Uncounted' = 0 /\ ~Panicked
    BY <2>1, <2>2 DEF Uncounted, Panicked
  <2> QED BY <1>1, <1>9, <2>1, <2>3, CountSame DEF free_pages
<1>10. CASE merge_found
  BY <1>1, <1>10, CountMergeFound
<1>11. CASE merge_miss
  <2>1. /\ op.pc = "merge" /\ op'.pc = "merge" /\ op'.req = op.req
        /\ op'.final = op.final /\ free' = free
    BY <1>1, <1>11 DEF merge_miss, Merging, TypeInv, TypeOK, Op
  <2>2. Uncounted' = Uncounted /\ ~Panicked
    BY <2>1 DEF Uncounted, Panicked
  <2> QED BY <1>1, <1>11, <2>1, <2>2, CountSame DEF merge_miss
<1>12. CASE merge_end
  BY <1>1, <1>12, CountMergeEnd
<1> QED
  BY <1>2, <1>3, <1>4, <1>5, <1>6, <1>7, <1>8, <1>9, <1>10, <1>11, <1>12 DEF Next

(* Up to a wrong merge the counters tell the truth for every size of the    *)
(* lists, of the pools and of the zones: no FreeNode is lost or doubled by  *)
(* a split, a merge or an extension of the pool in the middle of a call,    *)
(* and "Total free pages." is what the lists hold between calls.           *)
THEOREM Counted == Spec => []Accounting
<1> DEFINE Inv == TilingInv /\ (misMerged \/ CountInv)
<1>1. Inv => Accounting
  <2> SUFFICES ASSUME Inv PROVE Accounting
    OBVIOUS
  <2>1. ListNodes = NodesOf(pows) /\ ListPages = PagesIn(pows)
    BY Zenon DEF ListNodes, ListPages, NodesOf, PagesIn
  <2>2. free \in Int /\ (~Panicked => freenode_remain = free_nodes)
    BY DEF TilingInv, TypeInv, TypeOK
  <2>3. ASSUME ~misMerged PROVE CountInv
    BY <2>3, Zenon
  <2>4. ASSUME ~misMerged
        PROVE  free_nodes + ListNodes = NodeCap + ExtCap * Cardinality(extended_pools)
    BY <2>1, <2>3, <2>4 DEF CountInv
  <2>5. ASSUME op = Idle, ~misMerged PROVE free = ListPages
    <3>1. Safe /\ Uncounted = 0
      BY <2>5 DEF Safe, Panicked, Idle, Call, Uncounted
    <3> QED BY <2>1, <2>2, <2>3, <2>5, <3>1 DEF CountInv
  <2>6. NodeAccounting
    BY <2>2, <2>4, Zenon DEF NodeAccounting
  <2>7. FreeCounter
    BY <2>5, Zenon DEF FreeCounter
  <2> QED BY <2>6, <2>7 DEF Accounting
<1>2. Init => Inv
  BY TileInit, CountInit, Zenon
<1>3. Inv /\ [Next]_vars => Inv'
  BY TileNext, CountNext, Sticky, Zenon
<1> HIDE DEF Inv
<1> QED BY <1>1, <1>2, <1>3, PTL DEF Spec

-----------------------------------------------------------------------------
(***************************************************************************)
(* No room is lost.                                                        *)
(***************************************************************************)
LEMMA MulMono ==
  ASSUME NEW a \in Int, NEW b \in Int, NEW n \in Nat, a =< b
  PROVE  a * n =< b * n
OBVIOUS

LEMMA MulLess ==
  ASSUME NEW a \in Int, NEW b \in Int, NEW n \in Nat, a * n < b * n
  PROVE  a < b
OBVIOUS

LEMMA MulCancel ==
  ASSUME NEW a \in Int, NEW b \in Int, NEW n \in Nat, n >= 1, a * n = b * n
  PROVE  a = b
OBVIOUS

LEMMA MulAdd ==
  ASSUME NEW a \in Int, NEW b \in Int, NEW n \in Int
  PROVE  (a + b) * n = a * n + b * n
OBVIOUS

LEMMA MulTwice ==
  ASSUME NEW a \in Int, NEW n \in Int
  PROVE  a * (n + n) = (a + a) * n
OBVIOUS

LEMMA ModZero ==
  ASSUME NEW x \in Nat, NEW n \in Nat, n >= 1, x % n = 0
  PROVE  \E q \in Nat : x = q * n
OBVIOUS

LEMMA ModTimes ==
  ASSUME NEW q \in Nat, NEW n \in Nat, n >= 1
  PROVE  (q * n) % n = 0
OBVIOUS

LEMMA Parity ==
  ASSUME NEW q \in Nat
  PROVE  \E a \in Nat : q = a + a \/ q = (a + a) + 1
<1>1. q \div 2 \in Nat /\ (q = (q \div 2) + (q \div 2) \/ q = ((q \div 2) + (q \div 2)) + 1)
  OBVIOUS
<1> QED BY <1>1

-----------------------------------------------------------------------------
(* Page x starts a block of power k. *)
Aligned(x, k) == \E q \in Nat : x = q * Shl[k]

LEMMA AlignedMod ==
  ASSUME NEW x \in Nat, NEW k \in 0..MaxPow
  PROVE  x % Shl[k] = 0 <=> Aligned(x, k)
<1>1. PICK n \in Nat : n = Shl[k] /\ n >= 1
  BY ShlPositive
<1>2. x % n = 0 => \E q \in Nat : x = q * n
  BY <1>1, ModZero
<1>3. ASSUME NEW q \in Nat, x = q * n PROVE x % n = 0
  BY <1>1, <1>3, ModTimes
<1> QED BY <1>1, <1>2, <1>3 DEF Aligned

LEMMA AlignedZero ==
  ASSUME NEW k \in 0..MaxPow
  PROVE  Aligned(0, k)
<1>1. Shl[k] \in Nat
  BY ShlPositive
<1>2. 0 = 0 * Shl[k]
  BY <1>1
<1> QED BY <1>2 DEF Aligned

(* The next block of the same power. *)
LEMMA AlignedNext ==
  ASSUME NEW x \in Nat, NEW k \in 0..MaxPow, Aligned(x, k)
  PROVE  x + Shl[k] \in Nat /\ Aligned(x + Shl[k], k)
<1>1. PICK n \in Nat : n = Shl[k]
  BY ShlPositive
<1>2. PICK q \in Nat : x = q * n
  BY <1>1 DEF Aligned
<1>3. x + n = (q + 1) * n
  BY <1>2, MulAdd
<1> QED BY <1>1, <1>3, q + 1 \in Nat DEF Aligned

(* A block that starts a block of a higher power. *)
LEMMA AlignedDown ==
  ASSUME NEW x \in Nat, NEW k \in Pows, Aligned(x, k + 1)
  PROVE  Aligned(x, k)
<1>1. PICK n \in Nat : n = Shl[k] /\ Shl[k + 1] = n + n
  BY PowType
<1>2. PICK q \in Nat : x = q * (n + n)
  BY <1>1 DEF Aligned
<1>3. x = (q + q) * n
  BY <1>2, MulTwice
<1> QED BY <1>1, <1>3, q + q \in Nat DEF Aligned

LEMMA AlignedLower ==
  ASSUME NEW x \in Nat, NEW j \in 0..MaxPow, Aligned(x, j), NEW k \in 0..j
  PROVE  Aligned(x, k)
<1> DEFINE Bad == {d \in 0..j : ~Aligned(x, j - d)}
<1>0. j \in Nat /\ j =< MaxPow /\ MaxPow \in Nat
  BY ShlAssumption
<1>1. ASSUME Bad # {} PROVE FALSE
  <2>1. PICK d \in Bad : \A e \in Bad : d =< e
    <3>1. Bad \subseteq Nat
      BY <1>0
    <3> HIDE DEF Bad
    <3> QED BY <1>1, <3>1, LeastNat
  <2>2. d \in 0..j /\ ~Aligned(x, j - d)
    BY <2>1
  <2>3. d # 0
    <3>1. j - 0 = j
      BY <1>0
    <3> QED BY <2>2, <3>1
  <2>4. d - 1 \in 0..j /\ d - 1 \notin Bad
    <3>1. d - 1 \in 0..j /\ ~(d =< d - 1)
      BY <2>2, <2>3, <1>0
    <3> HIDE DEF Bad
    <3> QED BY <2>1, <3>1
  <2>5. Aligned(x, j - (d - 1))
    BY <2>4
  <2>6. PICK i \in Pows : i = j - d /\ i + 1 = j - (d - 1)
    BY <2>2, <2>3, <1>0 DEF Pows
  <2> QED BY <2>2, <2>5, <2>6, AlignedDown
<1>2. PICK d \in 0..j : k = j - d
  BY <1>0
<1>3. d \notin Bad
  BY <1>1
<1> QED BY <1>2, <1>3

(* The right one of two buddies. *)
LEMMA AlignedRight ==
  ASSUME NEW x \in Nat, NEW k \in Pows, Aligned(x, k), ~Aligned(x, k + 1)
  PROVE  x - Shl[k] \in Nat /\ Aligned(x - Shl[k], k + 1)
<1>1. PICK n \in Nat : n = Shl[k] /\ Shl[k + 1] = n + n
  BY PowType
<1>2. PICK q \in Nat : x = q * n
  BY <1>1 DEF Aligned
<1>3. PICK a \in Nat : q = a + a \/ q = (a + a) + 1
  BY Parity
<1>4. q # a + a
  <2> SUFFICES ASSUME q = a + a PROVE FALSE
    OBVIOUS
  <2>1. x = a * (n + n)
    BY <1>2, MulTwice
  <2> QED BY <1>1, <2>1 DEF Aligned
<1>5. x = a * (n + n) + n
  <2>1. ((a + a) + 1) * n = (a + a) * n + 1 * n
    BY MulAdd, a + a \in Int
  <2>2. (a + a) * n = a * (n + n)
    BY MulTwice
  <2>3. a * (n + n) \in Nat
    OBVIOUS
  <2> QED BY <1>2, <1>3, <1>4, <2>1, <2>2, <2>3
<1>6. a * (n + n) \in Nat
  OBVIOUS
<1>7. x - n = a * (n + n)
  BY <1>5, <1>6
<1> QED BY <1>1, <1>6, <1>7 DEF Aligned

LEMMA AlignedLeft ==
  ASSUME NEW x \in Nat, NEW k \in Pows, Aligned(x, k + 1)
  PROVE  ~Aligned(x + Shl[k], k + 1)
<1>1. PICK n \in Nat : n = Shl[k] /\ Shl[k + 1] = n + n /\ n >= 1
  BY PowType
<1>2. PICK a \in Nat : x = a * (n + n)
  BY <1>1 DEF Aligned
<1> SUFFICES ASSUME NEW b \in Nat, x + n = b * (n + n) PROVE FALSE
  BY <1>1 DEF Aligned
<1>3. a * (n + n) = (a + a) * n /\ b * (n + n) = (b + b) * n
  BY MulTwice
<1>4. ((a + a) + 1) * n = (a + a) * n + n
  <2>1. ((a + a) + 1) * n = (a + a) * n + 1 * n
    BY MulAdd, a + a \in Int
  <2> QED BY <2>1
<1>5. ((a + a) + 1) * n = (b + b) * n
  BY <1>2, <1>3, <1>4
<1>6. (a + a) + 1 = b + b
  BY <1>1, <1>5, MulCancel, (a + a) + 1 \in Int, b + b \in Int
<1> QED BY <1>6

(* Two blocks of one power overlap only if they are the same. *)
LEMMA AlignedApart ==
  ASSUME NEW x \in Nat, NEW y \in Nat, NEW k \in 0..MaxPow,
         Aligned(x, k), Aligned(y, k), x < y + Shl[k]
  PROVE  x =< y
<1>1. PICK n \in Nat : n = Shl[k]
  BY ShlPositive
<1>2. PICK a \in Nat : x = a * n
  BY <1>1 DEF Aligned
<1>3. PICK b \in Nat : y = b * n
  BY <1>1 DEF Aligned
<1>4. (b + 1) * n = b * n + n
  <2>1. (b + 1) * n = b * n + 1 * n
    BY MulAdd
  <2> QED BY <2>1
<1>5. a * n < (b + 1) * n
  BY <1>1, <1>2, <1>3, <1>4
<1>6. a < b + 1
  BY <1>5, MulLess, b + 1 \in Int
<1>7. a =< b
  BY <1>6
<1>8. a * n =< b * n
  BY <1>7, MulMono
<1> QED BY <1>2, <1>3, <1>8

-----------------------------------------------------------------------------
(* The lists of a zone: every block starts at a multiple of its size, and   *)
(* no two buddies are both there.                                          *)
ListsAligned(f) == \A k \in Pows : \A i \in DOMAIN f[k] : Aligned(f[k][i], k)

NoBuddies(f) ==
    \A k \in Pows : \A i, j \in DOMAIN f[k] :
      ~(Aligned(f[k][i], k + 1) /\ f[k][j] = f[k][i] + Shl[k])

ListsTidy(f) == ListsAligned(f) /\ NoBuddies(f)

(* The other half of the block of twice the size. *)
Buddy(x, k) == IF Aligned(x, k + 1) THEN x + Shl[k] ELSE x - Shl[k]

(* A block pushed on a list that does not hold its buddy. *)
LEMMA TidyPush ==
  ASSUME NEW f \in Lists, ListsTidy(f), NEW p \in Pows, NEW x \in Nat, Aligned(x, p),
         \A i \in DOMAIN f[p] : f[p][i] # Buddy(x, p),
         NEW g, Pushed(f, g, p, x)
  PROVE  ListsTidy(g)
<1>1. /\ g[p] = <<x>> \o f[p] /\ f[p] \in Seq(Nat)
      /\ \A k \in Pows : k # p => g[k] = f[k]
  BY DEF Pushed, Lists
<1>2. /\ DOMAIN g[p] = 1..(Len(f[p]) + 1) /\ DOMAIN f[p] = 1..Len(f[p]) /\ Len(f[p]) \in Nat
      /\ \A j \in 1..(Len(f[p]) + 1) : g[p][j] = IF j = 1 THEN x ELSE f[p][j - 1]
  BY <1>1, PushProperties
<1>3. ASSUME NEW j \in DOMAIN g[p] PROVE g[p][j] = x \/ \E i \in DOMAIN f[p] : g[p][j] = f[p][i]
  <2>1. j # 1 => j - 1 \in DOMAIN f[p]
    BY <1>2
  <2> QED BY <1>2, <2>1
<1>4. Shl[p] \in Nat /\ Shl[p] >= 1 /\ \A i \in DOMAIN f[p] : f[p][i] \in Nat
  BY <1>1, PowType
<1>5. ListsAligned(g)
  <2>1. ASSUME NEW k \in Pows, NEW i \in DOMAIN g[k] PROVE Aligned(g[k][i], k)
    <3>1. CASE k # p
      BY <1>1, <3>1 DEF ListsTidy, ListsAligned
    <3>2. CASE k = p
      BY <1>3, <3>2 DEF ListsTidy, ListsAligned
    <3> QED BY <3>1, <3>2
  <2> QED BY <2>1 DEF ListsAligned
<1>6. ASSUME NEW i \in DOMAIN g[p], NEW j \in DOMAIN g[p],
             Aligned(g[p][i], p + 1), g[p][j] = g[p][i] + Shl[p]
      PROVE  FALSE
  <2>1. CASE g[p][i] = x /\ g[p][j] = x
    BY <1>4, <1>6, <2>1
  <2>2. ASSUME NEW l \in DOMAIN f[p], g[p][i] = x, g[p][j] = f[p][l] PROVE FALSE
    BY <1>6, <2>2 DEF Buddy
  <2>3. ASSUME NEW l \in DOMAIN f[p], g[p][i] = f[p][l], g[p][j] = x PROVE FALSE
    <3>1. PICK y \in Nat : y = f[p][l] /\ Aligned(y, p + 1) /\ x = y + Shl[p]
      BY <1>4, <1>6, <2>3
    <3>2. ~Aligned(x, p + 1)
      BY <3>1, AlignedLeft
    <3>3. x - Shl[p] = y
      BY <1>4, <3>1
    <3> QED BY <3>1, <3>2, <3>3 DEF Buddy
  <2>4. ASSUME NEW l \in DOMAIN f[p], NEW m \in DOMAIN f[p],
               g[p][i] = f[p][l], g[p][j] = f[p][m] PROVE FALSE
    BY <1>6, <2>4 DEF ListsTidy, NoBuddies
  <2> QED BY <1>3, <2>1, <2>2, <2>3, <2>4
<1>7. NoBuddies(g)
  <2>1. ASSUME NEW k \in Pows, NEW i \in DOMAIN g[k], NEW j \in DOMAIN g[k],
               Aligned(g[k][i], k + 1), g[k][j] = g[k][i] + Shl[k]
        PROVE  FALSE
    <3>1. CASE k # p
      BY <1>1, <2>1, <3>1 DEF ListsTidy, NoBuddies
    <3>2. CASE k = p
      BY <1>6, <2>1, <3>2
    <3> QED BY <3>1, <3>2
  <2> QED BY <2>1 DEF NoBuddies
<1> QED BY <1>5, <1>7 DEF ListsTidy

(* Every block of the lists g is one of the lists f. *)
Fewer(f, g) ==
  \A k \in Pows : \A j \in DOMAIN g[k] : \E i \in DOMAIN f[k] : g[k][j] = f[k][i]

(* Lists that hold no more than other tidy lists are tidy. *)
LEMMA TidyFewer ==
  ASSUME NEW f, ListsTidy(f), NEW g, Fewer(f, g)
  PROVE  ListsTidy(g)
<1>1. ListsAligned(g)
  BY DEF ListsTidy, ListsAligned, Fewer
<1>2. NoBuddies(g)
  <2>1. ASSUME NEW k \in Pows, NEW i \in DOMAIN g[k], NEW j \in DOMAIN g[k],
               Aligned(g[k][i], k + 1), g[k][j] = g[k][i] + Shl[k]
        PROVE  FALSE
    <3>1. PICK l \in DOMAIN f[k] : g[k][i] = f[k][l]
      BY DEF Fewer
    <3>2. PICK m \in DOMAIN f[k] : g[k][j] = f[k][m]
      BY DEF Fewer
    <3> QED BY <2>1, <3>1, <3>2 DEF ListsTidy, NoBuddies
  <2> QED BY <2>1 DEF NoBuddies
<1> QED BY <1>1, <1>2 DEF ListsTidy

(* A split: the lists between req and p were empty and get one block each.  *)
LEMMA TidySplit ==
  ASSUME NEW f \in Lists, ListsTidy(f), NEW p \in Pows, NEW req \in 0..p, f[p] # << >>,
         \A k \in Pows : req =< k /\ k < p => f[k] = << >>,
         NEW g, g[p] = Tail(f[p]),
         \A k \in Pows : req =< k /\ k < p => g[k] = << Head(f[p]) + Shl[k] >> \o f[k],
         \A k \in Pows : k # p /\ ~(req =< k /\ k < p) => g[k] = f[k]
  PROVE  /\ ListsTidy(g)
         /\ Head(f[p]) \in Nat /\ Aligned(Head(f[p]), req)
<1>1. f[p] \in Seq(Nat)
  BY DEF Lists
<1>2. PICK x \in Nat : x = Head(f[p]) /\ x = f[p][1] /\ 1 \in DOMAIN f[p]
  BY <1>1
<1>3. Aligned(x, p)
  BY <1>2 DEF ListsTidy, ListsAligned
<1>4. p \in 0..MaxPow /\ p \in Nat /\ MaxPow \in Nat
  BY PowType, ShlAssumption
<1>5. ASSUME NEW k \in 0..p PROVE Aligned(x, k)
  BY <1>3, <1>4, AlignedLower
<1>6. ASSUME NEW k \in Pows, req =< k, k < p
      PROVE  DOMAIN g[k] = {1} /\ g[k][1] = x + Shl[k]
  <2>1. g[k] = << x + Shl[k] >> \o << >>
    BY <1>2, <1>6
  <2> QED BY <2>1
<1>7. ASSUME NEW j \in DOMAIN g[p] PROVE \E i \in DOMAIN f[p] : g[p][j] = f[p][i]
  <2>1. /\ DOMAIN g[p] = 1..(Len(f[p]) - 1) /\ Len(f[p]) \in Nat
        /\ \A l \in 1..(Len(f[p]) - 1) : g[p][l] = f[p][l + 1]
        /\ DOMAIN f[p] = 1..Len(f[p])
    BY <1>1, TailProperties
  <2>2. j + 1 \in DOMAIN f[p] /\ g[p][j] = f[p][j + 1]
    BY <2>1
  <2> QED BY <2>2
<1>8. ListsAligned(g)
  <2>1. ASSUME NEW k \in Pows, NEW i \in DOMAIN g[k] PROVE Aligned(g[k][i], k)
    <3>1. CASE k = p
      BY <1>7, <3>1 DEF ListsTidy, ListsAligned
    <3>2. CASE req =< k /\ k < p
      <4>1. k \in 0..p /\ k \in 0..MaxPow
        BY <3>2, <1>4, PowType
      <4>2. Aligned(x + Shl[k], k)
        BY <4>1, <1>5, AlignedNext
      <4>3. g[k][i] = x + Shl[k]
        BY <1>6, <3>2
      <4> QED BY <4>2, <4>3
    <3>3. CASE k # p /\ ~(req =< k /\ k < p)
      BY <3>3 DEF ListsTidy, ListsAligned
    <3> QED BY <3>1, <3>2, <3>3
  <2> QED BY <2>1 DEF ListsAligned
<1>9. NoBuddies(g)
  <2>1. ASSUME NEW k \in Pows, NEW i \in DOMAIN g[k], NEW j \in DOMAIN g[k],
               Aligned(g[k][i], k + 1), g[k][j] = g[k][i] + Shl[k]
        PROVE  FALSE
    <3>1. CASE k = p
      <4>1. PICK l \in DOMAIN f[p] : g[p][i] = f[p][l]
        BY <1>7, <3>1
      <4>2. PICK m \in DOMAIN f[p] : g[p][j] = f[p][m]
        BY <1>7, <3>1
      <4> QED BY <2>1, <3>1, <4>1, <4>2 DEF ListsTidy, NoBuddies
    <3>2. CASE req =< k /\ k < p
      <4>1. g[k][i] = x + Shl[k] /\ g[k][j] = x + Shl[k] /\ Shl[k] \in Nat /\ Shl[k] >= 1
        BY <1>6, <3>2, PowType
      <4> QED BY <2>1, <4>1
    <3>3. CASE k # p /\ ~(req =< k /\ k < p)
      BY <2>1, <3>3 DEF ListsTidy, NoBuddies
    <3> QED BY <3>1, <3>2, <3>3
  <2> QED BY <2>1 DEF NoBuddies
<1> QED BY <1>2, <1>5, <1>8, <1>9 DEF ListsTidy

-----------------------------------------------------------------------------
(* In tidy lists free pages are found: an aligned run of free pages is part *)
(* of one block.                                                           *)
FreeAt(f, x) ==
    \E k \in Pows : \E i \in DOMAIN f[k] : f[k][i] =< x /\ x < f[k][i] + Shl[k]

(* Page s lies in a block of power k or higher. *)
InBlock(f, s, k) ==
    \E j \in Pows : j >= k /\ \E i \in DOMAIN f[j] : f[j][i] =< s /\ s < f[j][i] + Shl[j]

LEMMA RunInBlock ==
  ASSUME NEW f \in Lists, ListsTidy(f), NEW s \in Nat, NEW k \in Pows, k + 1 \in Pows,
         Aligned(s, k + 1), InBlock(f, s, k), InBlock(f, s + Shl[k], k)
  PROVE  InBlock(f, s, k + 1)
<1>0. k \in Nat /\ Shl[k] \in Nat /\ Shl[k] >= 1 /\ Shl[k + 1] = Shl[k] + Shl[k]
      /\ k \in 0..MaxPow /\ k + 1 \in 0..MaxPow
  BY PowType
<1>1. PICK a \in Pows : a >= k /\ \E i \in DOMAIN f[a] : f[a][i] =< s /\ s < f[a][i] + Shl[a]
  BY DEF InBlock
<1>2. PICK i \in DOMAIN f[a] : f[a][i] =< s /\ s < f[a][i] + Shl[a]
  BY <1>1
<1>3. PICK b \in Pows : b >= k /\ \E j \in DOMAIN f[b] :
         f[b][j] =< s + Shl[k] /\ s + Shl[k] < f[b][j] + Shl[b]
  BY DEF InBlock
<1>4. PICK j \in DOMAIN f[b] : f[b][j] =< s + Shl[k] /\ s + Shl[k] < f[b][j] + Shl[b]
  BY <1>3
<1>5. PICK x \in Nat, y \in Nat : x = f[a][i] /\ y = f[b][j]
  BY DEF Lists
<1>6. Aligned(x, a) /\ Aligned(y, b)
  BY <1>5 DEF ListsTidy, ListsAligned
<1>7. a \in Nat /\ b \in Nat /\ a \in 0..MaxPow /\ b \in 0..MaxPow /\ Shl[b] \in Nat
  BY PowType
<1>8. CASE a # k
  <2>1. a >= k + 1
    BY <1>0, <1>1, <1>7, <1>8
  <2> QED BY <1>2, <2>1 DEF InBlock
<1>9. CASE b # k
  <2>1. b >= k + 1 /\ k + 1 \in 0..b
    BY <1>0, <1>3, <1>7, <1>9
  <2>2. Aligned(y, k + 1)
    BY <1>6, <1>7, <2>1, AlignedLower
  <2>3. y < s + Shl[k + 1]
    BY <1>0, <1>4, <1>5
  <2>4. y =< s
    BY <1>0, <2>2, <2>3, AlignedApart
  <2>5. s < y + Shl[b]
    BY <1>0, <1>4, <1>5, <1>7
  <2> QED BY <1>5, <2>1, <2>4, <2>5 DEF InBlock
<1>10. CASE a = k /\ b = k
  <2>1. Aligned(s, k)
    BY AlignedDown
  <2>2. s + Shl[k] \in Nat /\ Aligned(s + Shl[k], k)
    BY <1>0, <2>1, AlignedNext
  <2>3. s =< x /\ s + Shl[k] =< y
    <3>1. s < x + Shl[k] /\ Aligned(x, k)
      BY <1>2, <1>5, <1>6, <1>10
    <3>2. s =< x
      BY <1>0, <2>1, <3>1, AlignedApart
    <3>3. s + Shl[k] < y + Shl[k] /\ Aligned(y, k)
      BY <1>4, <1>5, <1>6, <1>10
    <3>4. s + Shl[k] =< y
      BY <1>0, <2>2, <3>3, AlignedApart
    <3> QED BY <3>2, <3>4
  <2>4. x = s /\ y = s + Shl[k]
    BY <1>0, <1>2, <1>4, <1>5, <2>3
  <2> QED BY <1>5, <1>10, <2>4 DEF ListsTidy, NoBuddies
<1> QED BY <1>8, <1>9, <1>10

LEMMA RunsAreBlocks ==
  ASSUME NEW f \in Lists, ListsTidy(f), NEW r \in Pows, NEW s \in Nat, Aligned(s, r),
         \A x \in s..(s + Shl[r] - 1) : FreeAt(f, x)
  PROVE  InBlock(f, s, r)
<1> DEFINE All(t, k) == \A x \in t..(t + Shl[k] - 1) : FreeAt(f, x)
           Good(k) == \A t \in Nat : Aligned(t, k) /\ All(t, k) => InBlock(f, t, k)
           P == {k \in 0..r : Good(k)}
<1>0. r \in Nat /\ r < MaxPow /\ MaxPow \in Nat
  BY PowType, ShlAssumption
<1>1. 0 \in P
  <2>1. ASSUME NEW t \in Nat, All(t, 0) PROVE InBlock(f, t, 0)
    <3>1. t \in t..(t + Shl[0] - 1)
      BY ShlAssumption
    <3>2. FreeAt(f, t)
      BY <2>1, <3>1
    <3>3. \A j \in Pows : j >= 0
      BY PowType
    <3> QED BY <3>2, <3>3 DEF FreeAt, InBlock
  <2>2. 0 \in 0..r
    BY <1>0
  <2> QED BY <2>1, <2>2
<1>2. ASSUME NEW k \in 0..(r - 1), k \in P PROVE k + 1 \in P
  <2>1. k \in Pows /\ k + 1 \in Pows /\ k + 1 \in 0..r
    BY <1>0 DEF Pows
  <2>2. Shl[k] \in Nat /\ Shl[k] >= 1 /\ Shl[k + 1] = Shl[k] + Shl[k] /\ k \in 0..MaxPow
    BY <2>1, PowType
  <2>3. ASSUME NEW t \in Nat, Aligned(t, k + 1), All(t, k + 1) PROVE InBlock(f, t, k + 1)
    <3>1. Aligned(t, k)
      BY <2>1, <2>3, AlignedDown
    <3>2. t + Shl[k] \in Nat /\ Aligned(t + Shl[k], k)
      BY <2>2, <3>1, AlignedNext
    <3>3. All(t, k) /\ All(t + Shl[k], k)
      <4>1. \A x \in t..(t + Shl[k] - 1) : x \in t..(t + Shl[k + 1] - 1)
        BY <2>2
      <4>2. \A x \in (t + Shl[k])..(t + Shl[k] + Shl[k] - 1) : x \in t..(t + Shl[k + 1] - 1)
        BY <2>2
      <4> QED BY <2>3, <4>1, <4>2
    <3> HIDE DEF All
    <3>4. InBlock(f, t, k) /\ InBlock(f, t + Shl[k], k)
      BY <1>2, <3>1, <3>2, <3>3
    <3> QED BY <2>1, <2>3, <3>4, RunInBlock
  <2> HIDE DEF All
  <2> QED BY <2>1, <2>3
<1>3. \A k \in 0..r : k \in P
  <2> HIDE DEF P
  <2> QED BY <1>0, <1>1, <1>2, PowInd
<1>4. Good(r)
  BY <1>0, <1>3
<1> QED BY <1>4

-----------------------------------------------------------------------------
(* The inductive invariant.  Besides the lists, the blocks that callers     *)
(* hold and the block that free_pages is merging start at multiples of      *)
(* their size; a block that the loop has passed by at its own power has no  *)
(* buddy in the list of that power; and the loop of MemoryZone::new has     *)
(* less left to do than any block it has added.                            *)
AllTidy == \A z \in DOMAIN Zones : ListsTidy(pows[z])

InRange(x, z) == Zones[z].base =< x /\ x < Zones[z].base + Zones[z].pages

Placed(b, z) == InRange(b.page, z) /\ Aligned(b.page - Zones[z].base, b.pow)

HeldAligned == \A b \in held : \E z \in 1..zone_num : Placed(b, z)

NoBuddyOf(x, f, k) == \A i \in DOMAIN f[k] : f[k][i] # Buddy(x, k)

HandAligned ==
    op.pc = "merge" =>
      /\ Aligned(op.page, op.final)
      /\ op.final < op.pow => NoBuddyOf(op.page, pows[op.zone], op.final)

Fits(K) ==
    /\ Aligned(op.page, K)
    /\ Zones[op.zone].pages - op.page < Shl[K]
    /\ \A k \in Pows : k < K => pows[op.zone][k] = << >>

ZoneFits == op.pc = "zone" => \E K \in 0..MaxPow : Fits(K)

TidyInv == AllTidy /\ HeldAligned /\ HandAligned /\ ZoneFits

NoList(req) == \A z \in 1..zone_num : \A k \in Pows : req =< k => pows[z][k] = << >>

OomEmpty == op.pc = "oom" => ~misMerged /\ NoList(op.req)

RoomInv == TilingInv /\ (~misMerged => TidyInv) /\ OomEmpty

LEMMA RoomInit == Init => RoomInv
<1> SUFFICES ASSUME Init PROVE RoomInv
  OBVIOUS
<1>1. TilingInv /\ op.pc = "idle" /\ held = {}
  BY TileInit DEF Init, Idle, Call
<1>2. AllTidy
  <2>1. \A z \in DOMAIN Zones : \A k \in Pows : pows[z][k] = << >>
    BY DEF Init
  <2>2. \A z \in DOMAIN Zones : \A k \in Pows : DOMAIN pows[z][k] = {}
    BY <2>1
  <2> QED BY <2>2 DEF AllTidy, ListsTidy, ListsAligned, NoBuddies
<1> QED BY <1>1, <1>2 DEF RoomInv, TidyInv, HeldAligned, HandAligned, ZoneFits, OomEmpty

(* The zone of a page is unique. *)
LEMMA OneZone ==
  ASSUME TypeInv, NEW y \in 1..zone_num, NEW z \in 1..zone_num, NEW x \in Nat,
         InRange(x, y), InRange(x, z)
  PROVE  y = z /\ z \in DOMAIN Zones
<1>1. y \in DOMAIN Zones /\ z \in DOMAIN Zones
  BY ZonesAssumption DEF TypeInv, TypeOK
<1>2. /\ Zones[y].base \in Nat /\ Zones[y].pages \in Nat
      /\ Zones[z].base \in Nat /\ Zones[z].pages \in Nat
  BY <1>1, ZoneType
<1>3. y # z => \/ Zones[y].base + Zones[y].pages =< Zones[z].base
               \/ Zones[z].base + Zones[z].pages =< Zones[y].base
  BY <1>1, ZonesAssumption
<1> QED BY <1>1, <1>2, <1>3 DEF InRange

(* Serving a request keeps the lists tidy and hands out an aligned block. *)
LEMMA RoomServe ==
  ASSUME TypeInv, TileInv, AllTidy, NEW req \in 0..MaxPow, NEW extra, Serve(req, extra)
  PROVE  AllTidy' /\ \E z \in 1..zone_num : Placed(ServedBlock(req), z)
<1>1. PICK z \in 1..zone_num, p \in Pows :
        /\ z = ServingZone(req) /\ p = ServingPow(req)
        /\ z \in DOMAIN Zones /\ req =< p /\ pows[z][p] # << >>
  BY ServeFacts DEF Serve, CanServe, TypeInv
<1>2. PICK f \in Lists : f = pows[z] /\ ListsTidy(f)
  BY <1>1, FreeInType DEF AllTidy
<1>3. \A k \in Pows : req =< k /\ k < p => f[k] = << >>
  <2>1. ASSUME NEW k \in Pows, req =< k, k < p PROVE pows[z][k] = << >>
    BY <1>1, <2>1, ServeLowest DEF Serve, CanServe, TypeInv
  <2> QED BY <1>2, <2>1
<1>4. PICK g : g = SplitLists(z, p, req)
  OBVIOUS
<1>5. /\ g[p] = Tail(f[p])
      /\ \A k \in Pows : req =< k /\ k < p => g[k] = << Head(f[p]) + Shl[k] >> \o f[k]
      /\ \A k \in Pows : k # p /\ ~(req =< k /\ k < p) => g[k] = f[k]
  <2>1. p \in Nat
    BY PowType
  <2> QED BY <1>1, <1>2, <1>4, <2>1 DEF SplitLists
<1>6. req \in 0..p /\ f[p] # << >>
  BY <1>1, <1>2, PowType
<1>7. ListsTidy(g) /\ Head(f[p]) \in Nat /\ Aligned(Head(f[p]), req)
  BY <1>2, <1>3, <1>5, <1>6, TidySplit
<1>8. pows'[z] = g /\ \A y \in DOMAIN Zones : y # z => pows'[y] = pows[y]
  BY <1>1, <1>4 DEF Serve, TypeInv, TypeOK
<1>9. AllTidy'
  BY <1>7, <1>8 DEF AllTidy
<1>10. PICK x \in Nat, base \in Nat : x = Head(f[p]) /\ base = Zones[z].base
  BY <1>1, <1>7, ZoneType
<1>11. ServedBlock(req) = [page |-> base + x, pow |-> req]
  BY <1>1, <1>2, <1>10 DEF ServedBlock
<1>12. InRange(base + x, z)
  <2>1. f[p] \in Seq(Nat)
    BY DEF Lists
  <2>2. Head(f[p]) = f[p][1] /\ 1 \in DOMAIN f[p]
    BY <1>6, <2>1
  <2>3. PICK b \in FreeIn(z) : b = [page |-> base + x, pow |-> p]
    BY <1>2, <1>10, <2>2, ListElem DEF FreeIn
  <2>4. b \in Block /\ Pages(b) \subseteq ZonePages(z)
    BY <1>1, FreeInType DEF TileInv, BlocksInZone
  <2>5. base + x \in ZonePages(z)
    BY <2>3, <2>4, PagesOf
  <2>6. Zones[z].pages \in Nat /\ Built(z) =< Zones[z].pages /\ Built(z) \in Nat
        /\ Zones[z].base =< base + x /\ base + x < Zones[z].base + Built(z)
    BY <1>1, <2>5, ZoneType, BuiltPart
  <2> QED BY <1>10, <2>6 DEF InRange
<1>13. (base + x) - Zones[z].base = x
  BY <1>10
<1>14. Placed(ServedBlock(req), z)
  BY <1>7, <1>10, <1>11, <1>12, <1>13 DEF Placed
<1> QED BY <1>9, <1>14

(* A request that finds no list is refused. *)
LEMMA RoomRefuse ==
  ASSUME TypeInv, NEW req \in 0..MaxPow, NEW extra, Refuse(req, extra), ~misMerged,
         UNCHANGED <<zone_num, misMerged>>
  PROVE  OomEmpty' /\ op'.pc \in {"oom", "no_node"}
<1>1. op'.pc \in {"oom", "no_node"} /\ op'.req = req
  BY DEF Refuse, Panic, Call
<1>2. ASSUME op'.pc = "oom" PROVE NoList(req)'
  <2>1. ServingZones(req) = {}
    BY <1>2 DEF Refuse, Panic, Call
  <2>2. \A z \in 1..zone_num : ServingPows(z, req) = {}
    BY <2>1 DEF ServingZones
  <2>3. NoList(req)
    BY <2>2 DEF NoList, ServingPows
  <2> QED BY <2>3 DEF NoList, Refuse
<1>3. ~misMerged'
  BY Zenon
<1> QED BY <1>1, <1>2, <1>3 DEF OomEmpty

LEMMA RoomGrant ==
  ASSUME RoomInv, TilingInv', NEW req \in 0..MaxPow, Grant(req), ~misMerged,
         UNCHANGED <<zone_num, misMerged>>, op.pc \in {"idle", "alloc"}
  PROVE  RoomInv'
<1>1. TypeInv /\ TileInv /\ TidyInv
  BY DEF RoomInv, TilingInv, Safe, Panicked
<1>2. CASE Refuse(req, 0)
  <2>1. OomEmpty' /\ op'.pc \in {"oom", "no_node"}
    BY <1>1, <1>2, RoomRefuse
  <2>2. UNCHANGED <<pows, held>>
    BY <1>2 DEF Refuse
  <2>3. AllTidy' /\ HeldAligned'
    BY <1>1, <2>2 DEF TidyInv, AllTidy, HeldAligned, Placed, InRange
  <2> QED BY <2>1, <2>3 DEF RoomInv, TidyInv, HandAligned, ZoneFits
<1>3. CASE ~Refuse(req, 0)
  <2>1. Serve(req, 0) /\ op' = Idle /\ held' = held \cup {ServedBlock(req)}
    BY <1>3 DEF Grant
  <2>2. AllTidy' /\ \E z \in 1..zone_num : Placed(ServedBlock(req), z)
    BY <1>1, <2>1, RoomServe DEF TidyInv
  <2>3. HeldAligned'
    BY <1>1, <2>1, <2>2 DEF TidyInv, HeldAligned, Placed, InRange
  <2>4. op'.pc = "idle"
    BY <2>1 DEF Idle, Call
  <2> QED BY <2>2, <2>3, <2>4 DEF RoomInv, TidyInv, HandAligned, ZoneFits, OomEmpty
<1> QED BY <1>2, <1>3

LEMMA RoomExtend ==
  ASSUME RoomInv, TilingInv', NEW n \in Requests, new_extended_pool(n),
         ~misMerged
  PROVE  RoomInv'
<1>1. op.pc = "idle" /\ UNCHANGED <<zone_num, misMerged>>
  BY DEF new_extended_pool, Ready, Idle, Call
<1>2. TypeInv /\ TileInv /\ TidyInv
  BY <1>1 DEF RoomInv, TilingInv, Safe, Panicked
<1>3. ExtPow \in 0..MaxPow
  BY PoolAssumption, PowType
<1>4. CASE Refuse(ExtPow, ExtCap)
  <2>1. OomEmpty' /\ op'.pc \in {"oom", "no_node"}
    BY <1>1, <1>2, <1>3, <1>4, RoomRefuse
  <2>2. UNCHANGED <<pows, held>>
    BY <1>4 DEF Refuse
  <2>3. AllTidy' /\ HeldAligned'
    BY <1>1, <1>2, <2>2 DEF TidyInv, AllTidy, HeldAligned, Placed, InRange
  <2> QED BY <2>1, <2>3 DEF RoomInv, TidyInv, HandAligned, ZoneFits
<1>5. CASE ~Refuse(ExtPow, ExtCap)
  <2>1. Serve(ExtPow, ExtCap) /\ op' = Call("alloc", CeilPow(n), 0) /\ held' = held
    BY <1>5 DEF new_extended_pool
  <2>2. AllTidy'
    BY <1>2, <1>3, <2>1, RoomServe DEF TidyInv
  <2>3. HeldAligned'
    BY <1>1, <1>2, <2>1 DEF TidyInv, HeldAligned, Placed, InRange
  <2>4. op'.pc = "alloc"
    BY <2>1 DEF Call
  <2> QED BY <2>2, <2>3, <2>4 DEF RoomInv, TidyInv, HandAligned, ZoneFits, OomEmpty
<1> QED BY <1>4, <1>5

(* The loop of MemoryZone::new. *)
LEMMA RoomAddZone ==
  ASSUME RoomInv, TilingInv', add_zone, ~misMerged
  PROVE  RoomInv'
<1>1. /\ op.pc = "idle" /\ op'.pc = "zone" /\ op'.zone = zone_num + 1 /\ op'.page = 0
      /\ UNCHANGED <<zone_num, pows, held>>
  BY DEF add_zone, Ready, Idle, Call
<1>2. TypeInv /\ TileInv /\ TidyInv
  BY <1>1 DEF RoomInv, TilingInv, Safe, Panicked
<1>3. PICK z \in DOMAIN Zones : z = zone_num + 1 /\ ~(z =< zone_num)
  BY <1>2, ZonesAssumption DEF add_zone, TypeInv, TypeOK
<1>4. ASSUME NEW k \in Pows PROVE pows[z][k] = << >>
  <2> SUFFICES ASSUME pows[z][k] # << >> PROVE FALSE
    OBVIOUS
  <2>1. pows[z] \in Lists /\ pows[z][k] \in Seq(Nat)
    BY <1>2, FreeInType DEF Lists
  <2>2. 1 \in DOMAIN pows[z][k]
    BY <2>1
  <2>3. PICK b \in FreeIn(z) : b = [page |-> Zones[z].base + pows[z][k][1], pow |-> k]
    BY <2>2, ListElem DEF FreeIn
  <2>4. b \in Block /\ Pages(b) \subseteq ZonePages(z)
    BY <1>2, FreeInType DEF TileInv, BlocksInZone
  <2>5. b.page \in ZonePages(z)
    BY <2>4, PagesOf
  <2>6. Built(z) = 0 /\ Zones[z].base \in Nat
    BY <1>1, <1>3, ZoneType DEF Built
  <2>7. Zones[z].base =< b.page /\ b.page < Zones[z].base + 0 /\ b.page \in Nat
    BY <1>2, <2>4, <2>5, <2>6, BuiltPart DEF Block
  <2> QED BY <2>6, <2>7
<1>5. Fits(MaxPow)'
  <2>1. Aligned(0, MaxPow) /\ MaxPow \in Nat
    BY AlignedZero, ShlAssumption
  <2>2. Zones[z].pages - 0 < Shl[MaxPow]
    BY ZonesAssumption, ZoneType
  <2> QED BY <1>1, <1>3, <1>4, <2>1, <2>2 DEF Fits
<1>6. ZoneFits'
  BY <1>5, ShlAssumption DEF ZoneFits
<1>7. AllTidy' /\ HeldAligned'
  BY <1>1, <1>2 DEF TidyInv, AllTidy, HeldAligned, Placed, InRange
<1> QED BY <1>1, <1>6, <1>7 DEF RoomInv, TidyInv, HandAligned, OomEmpty

LEMMA RoomNewZoneNode ==
  ASSUME RoomInv, TilingInv', new_zone_node
  PROVE  RoomInv'
<1>1. TypeInv /\ op.pc = "zone" /\ op \in Op
  BY DEF RoomInv, TilingInv, new_zone_node, TypeInv, TypeOK
<1>2. UNCHANGED <<zone_num, held, misMerged>>
  BY DEF new_zone_node
<1>3. HeldAligned => HeldAligned'
  BY <1>2 DEF HeldAligned, Placed, InRange
<1>4. CASE NoNode
  <2>1. op'.pc = "no_node" /\ UNCHANGED pows
    BY <1>4 DEF new_zone_node, Panic, Call
  <2>2. AllTidy => AllTidy'
    BY <2>1 DEF AllTidy
  <2> QED BY <1>2, <1>3, <2>1, <2>2 DEF RoomInv, TidyInv, HandAligned, ZoneFits, OomEmpty
<1>5. CASE ~NoNode
  <2>1. PICK z \in DOMAIN Zones, x \in Nat, pages \in Nat :
          /\ z = op.zone /\ x = op.page /\ pages = Zones[op.zone].pages /\ pages - x > 0
    BY <1>1, ZoneType DEF new_zone_node, TypeInv, TypeOK, Op
  <2> DEFINE fit == {p \in Pows : Shl[p] =< pages - x}
  <2>2. PICK p \in Pows : p = Max(fit) /\ Shl[p] =< pages - x /\ \A q \in fit : p >= q
    <3>1. 0 \in Pows
      BY ShlAssumption DEF Pows
    <3>2. 0 \in fit
      BY <2>1, <3>1, ShlAssumption
    <3>3. fit \subseteq Pows /\ fit # {}
      BY <3>2
    <3>4. Max(fit) \in fit /\ \A q \in fit : Max(fit) >= q
      <4> HIDE DEF fit
      <4> QED BY <3>3, MaxPows
    <3> QED BY <3>4
  <2>3. add_node(z, p, x) /\ op' = [op EXCEPT !.page = @ + Shl[p]]
    BY <1>5, <2>1, <2>2 DEF new_zone_node
  <2>4. op'.pc = "zone" /\ op'.page = x + Shl[p] /\ op'.zone = z
    BY <1>1, <2>1, <2>3 DEF Op
  <2>5. ASSUME ~misMerged PROVE TidyInv'
    <3>1. TidyInv
      BY <2>5 DEF RoomInv
    <3>2. PICK K \in 0..MaxPow : Fits(K)
      BY <1>1, <3>1 DEF TidyInv, ZoneFits
    <3>3. /\ Aligned(x, K) /\ pages - x < Shl[K]
          /\ \A k \in Pows : k < K => pows[z][k] = << >>
      BY <2>1, <3>2 DEF Fits
    <3>4. /\ p \in Nat /\ p < MaxPow /\ p \in 0..MaxPow /\ Shl[p] \in Nat
          /\ Shl[p + 1] = Shl[p] + Shl[p] /\ p + 1 \in 0..MaxPow /\ K \in Nat
          /\ MaxPow \in Nat /\ Shl[K] \in Nat /\ K =< MaxPow
      BY PowType, ShlPositive, ShlAssumption
    <3>5. p < K
      <4>1. K =< p => Shl[K] =< Shl[p]
        BY <3>4, ShlMonotone
      <4> QED BY <2>2, <3>3, <3>4, <4>1
    <3>6. Aligned(x, p)
      <4>1. p \in 0..K
        BY ONLY <3>4, <3>5
      <4> QED BY ONLY <3>3, <4>1, x \in Nat, K \in 0..MaxPow, AlignedLower
    <3>7. pages - (x + Shl[p]) < Shl[p]
      <4>1. CASE p + 1 = MaxPow
        <5>1. pages < Shl[p] + Shl[p]
          BY <2>1, <3>4, <4>1, ZonesAssumption
        <5> QED BY <3>4, <5>1
      <4>2. CASE p + 1 # MaxPow
        <5>1. p + 1 \in Pows
          BY <3>4, <4>2 DEF Pows
        <5>2. p + 1 \notin fit
          BY <2>2, <3>4
        <5>3. ~(Shl[p + 1] =< pages - x)
          BY <5>1, <5>2
        <5> QED BY <3>4, <5>3
      <4> QED BY <4>1, <4>2
    <3>8. pows[z][p] = << >> /\ pows[z] \in Lists
      BY <1>1, <3>3, <3>5, FreeInType
    <3>9. /\ Pushed(pows[z], pows'[z], p, x)
          /\ \A y \in DOMAIN Zones : y # z => pows'[y] = pows[y]
      <4>1. pows' = [pows EXCEPT ![z][p] = <<x>> \o @]
        BY <2>3 DEF add_node
      <4>2. pows \in [DOMAIN Zones -> [Pows -> Seq(Nat)]]
        BY <1>1 DEF TypeInv, TypeOK
      <4> QED BY <4>1, <4>2 DEF Pushed
    <3>10. ListsTidy(pows'[z])
      <4>0. PICK g : g = pows'[z]
        OBVIOUS
      <4>1. PICK f \in Lists : f = pows[z] /\ g = pows'[z]
        BY <3>8, <4>0
      <4>2. ListsTidy(f) /\ Pushed(f, g, p, x)
        BY <3>1, <3>9, <4>1 DEF TidyInv, AllTidy
      <4>3. \A i \in DOMAIN f[p] : f[p][i] # Buddy(x, p)
        BY <3>8, <4>1
      <4>4. ListsTidy(g)
        BY <3>6, <4>2, <4>3, TidyPush
      <4> QED BY <4>1, <4>4
    <3>11. AllTidy'
      BY <3>1, <3>9, <3>10 DEF TidyInv, AllTidy
    <3>12. Aligned(x + Shl[p], p)
      BY <3>4, <3>6, AlignedNext
    <3>13. ASSUME NEW k \in Pows, k < p PROVE pows'[z][k] = << >>
      <4>1. k # p /\ k < K
        BY <3>4, <3>5, <3>13, PowType
      <4> QED BY <3>3, <3>9, <4>1 DEF Pushed
    <3>14. Fits(p)'
      BY <2>1, <2>4, <3>7, <3>12, <3>13 DEF Fits
    <3>15. ZoneFits'
      BY <3>4, <3>14 DEF ZoneFits
    <3> QED BY <1>3, <2>4, <3>1, <3>11, <3>15 DEF TidyInv, HandAligned
  <2> QED BY <1>2, <2>4, <2>5 DEF RoomInv, OomEmpty
<1> QED BY <1>4, <1>5

(* free_pages and the steps of its loop. *)
LEMMA RoomFree ==
  ASSUME RoomInv, TilingInv', NEW b \in held, free_pages(b), ~misMerged
  PROVE  RoomInv'
<1>1. TypeInv /\ TidyInv
  BY DEF RoomInv, TilingInv
<1>2. PICK z \in 1..zone_num :
        /\ b.page \in Zones[z].base .. (Zones[z].base + Zones[z].pages - 1)
        /\ op' = MergeCall(b.pow, z, b.pow, b.page - Zones[z].base, b.pow)
  BY DEF free_pages
<1>3. UNCHANGED <<zone_num, pows, misMerged>> /\ held' = held \ {b}
  BY Zenon DEF free_pages
<1>4. PICK y \in 1..zone_num : Placed(b, y)
  BY <1>1 DEF TidyInv, HeldAligned
<1>5. b.page \in Nat /\ b.pow \in Nat
  BY <1>1, PowType DEF TypeInv, TypeOK, Block
<1>6. y = z
  <2>1. z \in DOMAIN Zones
    BY <1>1, ZonesAssumption DEF TypeInv, TypeOK
  <2>2. Zones[z].base \in Nat /\ Zones[z].pages \in Nat
    BY <2>1, ZoneType
  <2>3. InRange(b.page, z) /\ InRange(b.page, y)
    BY <1>2, <1>4, <1>5, <2>2 DEF InRange, Placed
  <2> QED BY <1>1, <1>5, <2>3, OneZone
<1>7. /\ op'.pc = "merge" /\ op'.final = b.pow /\ op'.pow = b.pow
      /\ op'.page = b.page - Zones[z].base
  BY <1>2 DEF MergeCall
<1>8. HandAligned'
  BY <1>4, <1>5, <1>6, <1>7 DEF HandAligned, Placed
<1>9. AllTidy' /\ HeldAligned'
  BY <1>1, <1>3 DEF TidyInv, AllTidy, HeldAligned, Placed, InRange
<1> QED BY <1>7, <1>8, <1>9 DEF RoomInv, TidyInv, ZoneFits, OomEmpty

(* The partner the loop looks for is the buddy of the block at op.pow. *)
LEMMA PartnerIs ==
  ASSUME TypeInv, op.pc = "merge", op.pow < MaxPow
  PROVE  /\ IsLeft <=> Aligned(op.page, op.pow + 1)
         /\ Partner = Buddy(op.page, op.pow)
<1>1. op.page \in Nat /\ op.pow + 1 \in 0..MaxPow
  BY MergeFacts, PowType
<1>2. IsLeft <=> Aligned(op.page, op.pow + 1)
  BY <1>1, AlignedMod DEF IsLeft
<1> QED BY <1>2 DEF Partner, Buddy

LEMMA RoomMergeFound ==
  ASSUME RoomInv, TilingInv', merge_found
  PROVE  RoomInv'
<1>1. TypeInv /\ Merging /\ op.pc = "merge" /\ op.pow < MaxPow /\ op \in Op
  BY DEF RoomInv, TilingInv, merge_found, Merging, TypeInv, TypeOK
<1>2. /\ op'.pc = "merge" /\ op'.final = op.final + 1 /\ op'.pow = op.pow + 1
      /\ op'.page = (IF IsLeft THEN op.page ELSE op.page - Shl[op.final])
      /\ UNCHANGED <<zone_num, held>>
  BY DEF merge_found, MergeCall
<1>3. ASSUME ~misMerged' PROVE TidyInv'
  <2>1. ~misMerged /\ op.pow = op.final
    BY <1>3, Zenon DEF merge_found
  <2>2. TidyInv
    BY <2>1 DEF RoomInv
  <2>3. PICK z \in DOMAIN Zones, k \in Pows, x \in Nat :
          z = op.zone /\ k = op.pow /\ x = op.page
    BY <1>1, MergeFacts
  <2>4. Aligned(x, k) /\ k \in Nat
    BY <1>1, <2>1, <2>2, <2>3, PowType DEF TidyInv, HandAligned
  <2>5. PICK i \in DOMAIN pows[z][k] : pows' = [pows EXCEPT ![z][k] = RemoveAt(@, i)]
    BY <2>3 DEF merge_found, MergeList
  <2>6. pows \in [DOMAIN Zones -> [Pows -> Seq(Nat)]] /\ pows[z][k] \in Seq(Nat)
    BY <1>1 DEF TypeInv, TypeOK
  <2>70. PICK l \in Seq(Nat) : l = pows[z][k]
    BY <2>6
  <2>71. i \in 1..Len(l)
    BY ONLY <2>70, i \in DOMAIN pows[z][k], l \in Seq(Nat)
  <2>72. PICK r : r = RemoveAt(l, i)
    OBVIOUS
  <2>73. pows'[z][k] = RemoveAt(pows[z][k], i)
    BY ONLY <2>5, <2>6, z \in DOMAIN Zones, k \in Pows
  <2>7. l = pows[z][k] /\ pows'[z][k] = r
    BY <2>70, <2>72, <2>73
  <2>8. /\ \A y \in DOMAIN Zones : y # z => pows'[y] = pows[y]
        /\ \A j \in Pows : j # k => pows'[z][j] = pows[z][j]
    BY ONLY <2>5, <2>6, z \in DOMAIN Zones, k \in Pows
  <2>9. ASSUME NEW j \in DOMAIN r PROVE \E m \in DOMAIN l : r[j] = l[m]
    <3>1. /\ DOMAIN r = 1..(Len(l) - 1) /\ DOMAIN l = 1..Len(l) /\ Len(l) \in Nat
          /\ \A a \in 1..(Len(l) - 1) : r[a] = IF a < i THEN l[a] ELSE l[a + 1]
      <4>1. /\ DOMAIN RemoveAt(l, i) = 1..(Len(l) - 1)
            /\ \A m \in 1..(Len(l) - 1) :
                  RemoveAt(l, i)[m] = IF m < i THEN l[m] ELSE l[m + 1]
        BY ONLY <2>71, l \in Seq(Nat), RemoveAtProperties
      <4>2. DOMAIN l = 1..Len(l) /\ Len(l) \in Nat
        BY ONLY l \in Seq(Nat)
      <4> QED BY ONLY <2>72, <4>1, <4>2
    <3>2. j \in DOMAIN l /\ j + 1 \in DOMAIN l
      BY <3>1
    <3> QED BY <3>1, <3>2
  <2>10. ListsTidy(pows'[z])
    <3>1. PICK f, g : f = pows[z] /\ g = pows'[z]
      OBVIOUS
    <3>2. ListsTidy(f)
      BY <2>2, <3>1 DEF TidyInv, AllTidy
    <3>3. Fewer(f, g)
      BY <2>7, <2>8, <2>9, <3>1 DEF Fewer
    <3>4. ListsTidy(g)
      BY <3>2, <3>3, TidyFewer
    <3> QED BY <3>1, <3>4
  <2>11. AllTidy'
    BY <2>2, <2>8, <2>10 DEF TidyInv, AllTidy
  <2>12. Aligned(op'.page, k + 1)
    <3>1. IsLeft <=> Aligned(x, k + 1)
      BY <1>1, <2>3, PartnerIs
    <3>2. CASE IsLeft
      BY <1>2, <2>3, <3>1, <3>2
    <3>3. CASE ~IsLeft
      BY <1>2, <2>1, <2>3, <2>4, <3>1, <3>3, AlignedRight
    <3> QED BY <3>2, <3>3
  <2>13. HandAligned'
    BY <1>2, <2>1, <2>3, <2>4, <2>12 DEF HandAligned
  <2>14. HeldAligned'
    BY <1>2, <2>2 DEF TidyInv, HeldAligned, Placed, InRange
  <2> QED BY <1>2, <2>11, <2>13, <2>14 DEF TidyInv, ZoneFits
<1> QED BY <1>2, <1>3 DEF RoomInv, OomEmpty

LEMMA RoomMergeMiss ==
  ASSUME RoomInv, TilingInv', merge_miss
  PROVE  RoomInv'
<1>1. TypeInv /\ op.pc = "merge" /\ op.pow < MaxPow /\ op \in Op
  BY DEF RoomInv, TilingInv, merge_miss, Merging, TypeInv, TypeOK
<1>2. /\ op'.pc = "merge" /\ op'.final = op.final /\ op'.page = op.page
      /\ op'.zone = op.zone /\ UNCHANGED <<zone_num, pows, held, misMerged>>
  BY <1>1 DEF merge_miss, Op
<1>3. ASSUME ~misMerged PROVE TidyInv'
  <2>1. TidyInv
    BY <1>3 DEF RoomInv
  <2>2. NoBuddyOf(op.page, pows[op.zone], op.final)
    <3>1. CASE op.final < op.pow
      BY <1>1, <2>1, <3>1 DEF TidyInv, HandAligned
    <3>2. CASE ~(op.final < op.pow)
      <4>1. op.final = op.pow
        BY <1>1, <3>2, MergeFacts
      <4>2. \A i \in DOMAIN pows[op.zone][op.pow] : pows[op.zone][op.pow][i] # Partner
        BY DEF merge_miss, MergeList
      <4>3. Partner = Buddy(op.page, op.pow)
        BY <1>1, PartnerIs
      <4> QED BY <4>1, <4>2, <4>3 DEF NoBuddyOf
    <3> QED BY <3>1, <3>2
  <2>3. HandAligned'
    BY <1>1, <1>2, <2>1, <2>2 DEF TidyInv, HandAligned
  <2>4. AllTidy' /\ HeldAligned'
    BY <1>2, <2>1 DEF TidyInv, AllTidy, HeldAligned, Placed, InRange
  <2> QED BY <1>2, <2>3, <2>4 DEF TidyInv, ZoneFits
<1> QED BY <1>2, <1>3 DEF RoomInv, OomEmpty

LEMMA RoomMergeEnd ==
  ASSUME RoomInv, TilingInv', merge_end
  PROVE  RoomInv'
<1>1. TypeInv /\ op.pc = "merge" /\ UNCHANGED <<zone_num, held, misMerged>>
  BY DEF RoomInv, TilingInv, merge_end
<1>2. HeldAligned => HeldAligned'
  BY <1>1 DEF HeldAligned, Placed, InRange
<1>3. CASE NoNode \/ op.final = MaxPow
  <2>1. op'.pc \in {"no_node", "no_list"} /\ UNCHANGED pows
    BY <1>3 DEF merge_end, Panic, Call
  <2>2. AllTidy => AllTidy'
    BY <2>1 DEF AllTidy
  <2> QED BY <1>1, <1>2, <2>1, <2>2 DEF RoomInv, TidyInv, HandAligned, ZoneFits, OomEmpty
<1>4. CASE ~(NoNode \/ op.final = MaxPow)
  <2>1. op'.pc = "idle"
    BY <1>4 DEF merge_end, Idle, Call
  <2>2. PICK z \in DOMAIN Zones, k \in 0..MaxPow, x \in Nat :
          z = op.zone /\ k = op.final /\ x = op.page
    BY <1>1, MergeFacts
  <2>3. k \in Pows /\ k \in Nat
    BY <1>4, <2>2, ShlAssumption DEF Pows
  <2>4. add_node(z, k, x)
    BY <1>4, <2>2 DEF merge_end
  <2>5. ASSUME ~misMerged PROVE TidyInv'
    <3>1. TidyInv
      BY <2>5 DEF RoomInv
    <3>2. Aligned(x, k)
      BY <1>1, <2>2, <3>1 DEF TidyInv, HandAligned
    <3>3. NoBuddyOf(x, pows[z], k)
      <4>1. CASE op.final < op.pow
        BY <1>1, <2>2, <3>1, <4>1 DEF TidyInv, HandAligned
      <4>2. CASE ~(op.final < op.pow)
        <5>1. op.final = op.pow /\ op.pow < MaxPow
          BY <1>1, <2>2, <2>3, <4>2, MergeFacts, PowType
        <5>2. pows[z][k] = << >>
          BY <2>2, <5>1 DEF merge_end, MergeList
        <5> QED BY <5>2 DEF NoBuddyOf
      <4> QED BY <4>1, <4>2
    <3>4. pows[z] \in Lists
      BY <1>1, FreeInType
    <3>5. /\ Pushed(pows[z], pows'[z], k, x)
          /\ \A y \in DOMAIN Zones : y # z => pows'[y] = pows[y]
      <4>1. pows' = [pows EXCEPT ![z][k] = <<x>> \o @]
        BY <2>4 DEF add_node
      <4>2. pows \in [DOMAIN Zones -> [Pows -> Seq(Nat)]]
        BY <1>1 DEF TypeInv, TypeOK
      <4> QED BY <2>3, <4>1, <4>2 DEF Pushed
    <3>6. ListsTidy(pows'[z])
      <4>0. PICK g : g = pows'[z]
        OBVIOUS
      <4>1. PICK f \in Lists : f = pows[z] /\ g = pows'[z]
        BY <3>4, <4>0
      <4>2. ListsTidy(f) /\ Pushed(f, g, k, x)
        BY <3>1, <3>5, <4>1 DEF TidyInv, AllTidy
      <4>3. \A i \in DOMAIN f[k] : f[k][i] # Buddy(x, k)
        BY <3>3, <4>1 DEF NoBuddyOf
      <4>4. ListsTidy(g)
        BY <2>3, <3>2, <4>2, <4>3, TidyPush
      <4> QED BY <4>1, <4>4
    <3>7. AllTidy'
      BY <3>1, <3>5, <3>6 DEF TidyInv, AllTidy
    <3> QED BY <1>2, <2>1, <3>1, <3>7 DEF TidyInv, HandAligned, ZoneFits
  <2> QED BY <1>1, <2>1, <2>5 DEF RoomInv, OomEmpty
<1> QED BY <1>3, <1>4

LEMMA RoomNext == RoomInv /\ [Next]_vars /\ ~misMerged => RoomInv'
<1> SUFFICES ASSUME RoomInv, [Next]_vars, ~misMerged PROVE RoomInv'
  BY Zenon
<1>1. TilingInv' /\ TypeInv /\ TilingInv
  BY TileNext DEF RoomInv, TilingInv
<1>2. CASE UNCHANGED vars
  BY <1>1, <1>2
  DEF vars, RoomInv, OomEmpty, NoList, TidyInv, AllTidy, HeldAligned, Placed, InRange,
      HandAligned, ZoneFits, Fits
<1>3. CASE add_zone
  BY <1>1, <1>3, RoomAddZone
<1>4. CASE new_zone_node
  BY <1>1, <1>4, RoomNewZoneNode
<1>5. CASE add_zone_done
  <2>1. /\ op'.pc = "idle" /\ zone_num' = zone_num + 1 /\ zone_num \in Nat
        /\ UNCHANGED <<pows, held, misMerged>>
    BY <1>1, <1>5 DEF add_zone_done, Idle, Call, TypeInv, TypeOK
  <2>2. \A z \in 1..zone_num : z \in 1..zone_num'
    BY <2>1
  <2>3. HeldAligned => HeldAligned'
    BY <2>1, <2>2 DEF HeldAligned, Placed, InRange
  <2>4. AllTidy => AllTidy'
    BY <2>1 DEF AllTidy
  <2> QED BY <1>1, <2>1, <2>3, <2>4 DEF RoomInv, TidyInv, HandAligned, ZoneFits, OomEmpty
<1>6. ASSUME NEW n \in Requests, alloc_pages(n) PROVE RoomInv'
  <2>2. /\ Grant(CeilPow(n)) /\ UNCHANGED <<zone_num, misMerged>> /\ op.pc = "idle"
        /\ CeilPow(n) \in 0..MaxPow
    BY <1>6, CeilPowType DEF alloc_pages, Ready, Idle, Call
  <2> QED BY <1>1, <2>2, RoomGrant
<1>7. ASSUME NEW n \in Requests, new_extended_pool(n) PROVE RoomInv'
  BY <1>1, <1>7, RoomExtend
<1>8. CASE alloc_pages_extended
  <2>1. /\ Grant(op.req) /\ UNCHANGED <<zone_num, misMerged>> /\ op.pc = "alloc"
        /\ op.req \in 0..MaxPow
    BY <1>1, <1>8 DEF alloc_pages_extended, TypeInv, TypeOK, Op
  <2> QED BY <1>1, <2>1, RoomGrant
<1>9. ASSUME NEW b \in held, free_pages(b) PROVE RoomInv'
  BY <1>1, <1>9, RoomFree
<1>10. CASE merge_found
  BY <1>1, <1>10, RoomMergeFound
<1>11. CASE merge_miss
  BY <1>1, <1>11, RoomMergeMiss
<1>12. CASE merge_end
  BY <1>1, <1>12, RoomMergeEnd
<1> QED
  BY <1>2, <1>3, <1>4, <1>5, <1>6, <1>7, <1>8, <1>9, <1>10, <1>11, <1>12 DEF Next

LEMMA RoomCoalesced == RoomInv => Coalesced
<1> SUFFICES ASSUME RoomInv, ~misMerged, NEW z \in 1..zone_num, NEW k \in Pows,
                    NEW i \in DOMAIN pows[z][k], NEW j \in DOMAIN pows[z][k],
                    pows[z][k][i] % Shl[k + 1] = 0, pows[z][k][j] = pows[z][k][i] + Shl[k]
             PROVE  FALSE
  BY DEF Coalesced
<1>1. z \in DOMAIN Zones /\ pows[z][k] \in Seq(Nat)
  BY ZonesAssumption DEF RoomInv, TilingInv, TypeInv, TypeOK
<1>2. PICK l \in Seq(Nat) : l = pows[z][k]
  BY <1>1
<1>20. l[i] \in Nat
  BY ONLY <1>2, i \in DOMAIN pows[z][k], l \in Seq(Nat)
<1>21. k + 1 \in 0..MaxPow
  BY PowType
<1>3. Aligned(pows[z][k][i], k + 1)
  BY <1>2, <1>20, <1>21, AlignedMod
<1>4. NoBuddies(pows[z])
  BY <1>1 DEF RoomInv, TidyInv, AllTidy, ListsTidy
<1> QED BY <1>3, <1>4 DEF NoBuddies

LEMMA RoomOom == RoomInv => OomIsReal
<1> SUFFICES ASSUME RoomInv, op.pc = "oom", op.req < MaxPow, ~misMerged,
                    NEW z \in 1..zone_num, NEW s \in 0..Shl[MaxPow],
                    s % Shl[op.req] = 0,
                    \A x \in s..(s + Shl[op.req] - 1) : PageIsFree(z, x)
             PROVE  FALSE
  BY DEF OomIsReal
<1>1. TypeInv /\ TidyInv /\ NoList(op.req)
  BY DEF RoomInv, TilingInv, OomEmpty
<1>2. PICK r \in Pows : r = op.req /\ r \in 0..MaxPow
  BY <1>1, ShlAssumption DEF TypeInv, TypeOK, Op, Pows
<1>3. z \in DOMAIN Zones /\ s \in Nat
  BY <1>1, ZonesAssumption, ShlAssumption DEF TypeInv, TypeOK
<1>4. PICK f \in Lists : f = pows[z] /\ ListsTidy(f)
  BY <1>1, <1>3, FreeInType DEF TidyInv, AllTidy
<1>5. Aligned(s, r)
  BY <1>2, <1>3, AlignedMod
<1>6. \A x \in s..(s + Shl[r] - 1) : FreeAt(f, x)
  BY <1>2, <1>4 DEF PageIsFree, FreeAt
<1>7. InBlock(f, s, r)
  BY <1>3, <1>4, <1>5, <1>6, RunsAreBlocks
<1>8. PICK j \in Pows : j >= r /\ \E i \in DOMAIN f[j] : TRUE
  BY <1>7 DEF InBlock
<1>9. f[j] = << >>
  BY <1>1, <1>2, <1>4, <1>8, PowType DEF NoList
<1> QED BY <1>8, <1>9

(* Up to a wrong merge no room is lost, for every number of powers, every   *)
(* zone and every sequence of calls: between calls no two buddies are both  *)
(* free, and alloc_pages gives up only if no aligned run of free pages of   *)
(* the size it looked for is left.                                         *)
THEOREM RoomKept == Spec => []NoRoomLost
<1> DEFINE Inv == misMerged \/ RoomInv
<1>1. Inv => NoRoomLost
  <2>1. misMerged => Coalesced /\ OomIsReal
    BY Zenon DEF Coalesced, OomIsReal
  <2> QED BY <2>1, RoomCoalesced, RoomOom, Zenon DEF NoRoomLost
<1>2. Init => Inv
  BY RoomInit, Zenon
<1>3. Inv /\ [Next]_vars => Inv'
  BY RoomNext, Sticky, Zenon
<1> HIDE DEF Inv
<1> QED BY <1>1, <1>2, <1>3, PTL DEF Spec
=============================================================================
