-------------------------- MODULE PageTableProofs --------------------------
(***************************************************************************)
(* Proofs about PageTable for every number of levels, entries per table,   *)
(* pages and mappers: what the tables translate, that trees stay apart,    *)
(* and what destroy frees and leaks.                                       *)
(***************************************************************************)
EXTENDS PageTable, FiniteSetTheorems, WellFoundedInduction, TLAPS

(* Induction over the levels, from the root's downwards.  The property is   *)
(* given as the set of the levels that have it.                            *)
LEMMA NatMin ==
  ASSUME NEW T, T \subseteq Nat, T # {}
  PROVE  \E x \in T : \A y \in T : x =< y
<1> DEFINE R == {ss \in Nat \X Nat : ss[1] < ss[2]}
<1>0. IsWellFoundedOn(R, Nat)
  BY NatLessThanWellFounded DEF OpToRel
<1> HIDE DEF R
<1>1. PICK x \in T : \A y \in T : ~(<<y, x>> \in R)
  BY <1>0, WFMin, Zenon
<1>2. \A y \in T : ~(y < x)
  BY <1>1 DEF R
<1> QED BY <1>2

LEMMA LevelsAre ==
  /\ Level \in Nat /\ Level >= 3
  /\ \A k : k \in Levels <=> k \in Nat /\ k < Level
  /\ Level - 1 \in Levels /\ 0 \in Levels /\ 1 \in Levels /\ 2 \in Levels
  /\ \A k \in Levels : k # Level - 1 => k + 1 \in Levels
  /\ \A k \in Levels : k # 0 => k - 1 \in Levels /\ k - 1 # Level - 1 /\ (k - 1) + 1 = k
BY PageTableAssumption DEF Levels

LEMMA DownInd ==
  ASSUME NEW P, Level - 1 \in P,
         \A k \in Levels : k # Level - 1 /\ k + 1 \in P => k \in P
  PROVE  \A k \in Levels : k \in P
<1> DEFINE T == {n \in Nat : Level - 1 - n \in Levels /\ Level - 1 - n \notin P}
<1> SUFFICES ASSUME T # {} PROVE FALSE
  <2>1. ASSUME NEW k \in Levels, k \notin P PROVE Level - 1 - k \in T
    <3>1. /\ Level - 1 - k \in Nat /\ Level - 1 - (Level - 1 - k) = k
      BY LevelsAre
    <3> QED BY <2>1, <3>1
  <2> QED BY <2>1
<1>1. PICK x \in T : \A y \in T : x =< y
  <2>1. T \subseteq Nat
    OBVIOUS
  <2> HIDE DEF T
  <2> QED BY <2>1, NatMin
<1>2. x \in Nat /\ Level - 1 - x \in Levels /\ Level - 1 - x \notin P
  BY <1>1
<1>3. x # 0
  BY <1>2, LevelsAre
<1>4. x - 1 \notin T
  BY <1>1, <1>2
<1>5. /\ x - 1 \in Nat /\ Level - 1 - (x - 1) = (Level - 1 - x) + 1
      /\ (Level - 1 - x) + 1 \in Levels /\ Level - 1 - x # Level - 1
  BY <1>2, <1>3, LevelsAre
<1>6. (Level - 1 - x) + 1 \in P
  BY <1>4, <1>5
<1> QED BY <1>2, <1>5, <1>6

-----------------------------------------------------------------------------
(* The tables that the entries of T lead to, in the memory M *)
Kids(M, T) ==
    {M[ti[1]][ti[2]].page : ti \in {x \in T \X Indexes : is_valid(M[x[1]][x[2]])}}

(* f has the tables of the tree with root r, level by level. *)
RootSet(r) == IF r = None THEN {} ELSE {r}

TreeDef(M, r, f) ==
    f = [k \in Levels |-> IF k = Level - 1 THEN RootSet(r) ELSE Kids(M, f[k + 1])]

Tree(M, r) == CHOOSE f : TreeDef(M, r, f)

LEMMA TablesAtTree ==
  ASSUME NEW m, NEW l
  PROVE  TablesAt(m, l) = Tree(mem, root[m])[l]
BY Zenon DEF TablesAt, Tree, TreeDef, Kids, Children, RootSet

LEMMA KidsAre ==
  ASSUME NEW M, NEW T, NEW p
  PROVE  p \in Kids(M, T) <=>
           \E t \in T, i \in Indexes : is_valid(M[t][i]) /\ p = M[t][i].page
<1>1. ASSUME NEW t \in T, NEW i \in Indexes, is_valid(M[t][i]), p = M[t][i].page
      PROVE  p \in Kids(M, T)
  <2>1. <<t, i>> \in {x \in T \X Indexes : is_valid(M[x[1]][x[2]])}
    BY <1>1
  <2> QED BY <1>1, <2>1 DEF Kids
<1>2. ASSUME p \in Kids(M, T)
      PROVE  \E t \in T, i \in Indexes : is_valid(M[t][i]) /\ p = M[t][i].page
  BY <1>2 DEF Kids
<1> QED BY <1>1, <1>2

(* Two memories that agree on T have the same tables below T. *)
LEMMA KidsSame ==
  ASSUME NEW M, NEW N, NEW T, \A t \in T : M[t] = N[t]
  PROVE  Kids(M, T) = Kids(N, T)
<1>1. \A p : p \in Kids(M, T) <=> p \in Kids(N, T)
  BY KidsAre
<1> QED BY <1>1

LEMMA TreeUnique ==
  ASSUME NEW M, NEW r, NEW f, NEW g, TreeDef(M, r, f), TreeDef(M, r, g)
  PROVE  f = g
<1> DEFINE P == {k \in Levels : f[k] = g[k]}
<1>1. /\ \A k \in Levels : f[k] = IF k = Level - 1 THEN RootSet(r) ELSE Kids(M, f[k + 1])
      /\ \A k \in Levels : g[k] = IF k = Level - 1 THEN RootSet(r) ELSE Kids(M, g[k + 1])
  BY DEF TreeDef
<1>2. Level - 1 \in P
  BY <1>1, LevelsAre
<1>3. \A k \in Levels : k # Level - 1 /\ k + 1 \in P => k \in P
  BY <1>1
<1>4. \A k \in Levels : k \in P
  <2> HIDE DEF P
  <2> QED BY <1>2, <1>3, DownInd
<1>5. f = [k \in Levels |-> f[k]] /\ g = [k \in Levels |-> g[k]]
  BY DEF TreeDef
<1> QED BY <1>4, <1>5

LEMMA TreeExists ==
  ASSUME NEW M, NEW r
  PROVE  \E f : TreeDef(M, r, f)
<1> DEFINE Body(f, k) == IF k = Level - 1 THEN RootSet(r) ELSE Kids(M, f[k + 1])
           From(l) == {k \in Levels : l =< k}
           Def(l, f) == \A k \in From(l) : f[k] = Body(f, k)
           P == {l \in Levels : \E f : Def(l, f)}
<1>1. Level - 1 \in P
  <2> DEFINE f == [k \in Levels |-> RootSet(r)]
  <2>1. Def(Level - 1, f)
    BY LevelsAre
  <2> QED BY <2>1, LevelsAre
<1>2. ASSUME NEW l \in Levels, l # Level - 1, l + 1 \in P PROVE l \in P
  <2>1. PICK f : Def(l + 1, f)
    BY <1>2
  <2> DEFINE g == [k \in Levels |-> IF k = l THEN Kids(M, f[l + 1]) ELSE f[k]]
  <2>2. ASSUME NEW k \in From(l) PROVE g[k] = Body(g, k)
    <3>1. k # Level - 1 => k + 1 \in Levels /\ k + 1 # l
      BY LevelsAre
    <3>2. CASE k = l
      <4>1. g[k] = Kids(M, f[k + 1]) /\ g[k + 1] = f[k + 1]
        BY <1>2, <3>1, <3>2
      <4> QED BY <1>2, <3>2, <4>1
    <3>3. CASE k # l
      <4>1. k \in From(l + 1) /\ k \in Levels
        BY <1>2, <3>3, LevelsAre
      <4>2. f[k] = Body(f, k)
        BY <2>1, <4>1
      <4>3. g[k] = f[k] /\ (k # Level - 1 => g[k + 1] = f[k + 1])
        BY <3>1, <3>3, <4>1
      <4> QED BY <4>2, <4>3
    <3> QED BY <3>2, <3>3
  <2> HIDE DEF g, Body, From
  <2>3. Def(l, g)
    BY <2>2
  <2> HIDE DEF Def
  <2> QED BY <2>3
<1>3. 0 \in P
  <2> HIDE DEF P
  <2> QED BY <1>1, <1>2, DownInd, LevelsAre
<1>4. PICK f : Def(0, f)
  BY <1>3
<1>5. \A k \in Levels : f[k] = Body(f, k)
  BY <1>4, LevelsAre
<1> DEFINE h == [k \in Levels |-> f[k]]
<1>6. \A k \in Levels : h[k] = Body(h, k)
  BY <1>5, LevelsAre
<1>7. TreeDef(M, r, h)
  BY <1>6 DEF TreeDef
<1> QED BY <1>7

(* Whatever satisfies the equation is the tree. *)
LEMMA TreeIs ==
  ASSUME NEW M, NEW r, NEW f, TreeDef(M, r, f)
  PROVE  Tree(M, r) = f
<1>1. TreeDef(M, r, Tree(M, r))
  BY TreeExists, Zenon DEF Tree
<1> QED BY <1>1, TreeUnique

-----------------------------------------------------------------------------
(* F has the trees of all mappers.  In a forest an entry of an upper table  *)
(* is empty or leads to a table, a page is a table of one mapper and of one *)
(* level only, and one entry leads to it.                                  *)
Memory == [Pages -> [Indexes -> Entries]]

Forest(M, R, F) ==
    /\ M \in Memory /\ R \in [Mappers -> Pages \cup {None}]
    /\ F \in [Mappers -> [Levels -> SUBSET Pages]]
    /\ \A m \in Mappers : TreeDef(M, R[m], F[m])
    /\ \A m \in Mappers, l \in Levels \ {0} : \A t \in F[m][l], i \in Indexes :
         is_valid(M[t][i]) => M[t][i].page \in Pages /\ M[t][i].mode = {}
    /\ \A m, n \in Mappers, l, k \in Levels : \A p \in F[m][l] :
         p \in F[n][k] => m = n /\ l = k
    /\ \A m, n \in Mappers, l, k \in Levels \ {0} : \A t \in F[m][l], u \in F[n][k] :
         \A i, j \in Indexes :
           is_valid(M[t][i]) /\ M[t][i].page = M[u][j].page => t = u /\ i = j

Fresh(F, p) == p \in Pages /\ \A m \in Mappers, l \in Levels : p \notin F[m][l]

LEMMA NoneNoPage == None \notin Pages /\ Data \cap Pages = {} /\ None \notin Data
BY PageTableAssumption

LEMMA EmptyIs ==
  /\ Empty.page = None /\ Empty.mode = {} /\ Empty \in Entries /\ ~is_valid(Empty)
  /\ NoEntries \in [Indexes -> Entries] /\ \A i \in Indexes : NoEntries[i] = Empty
  /\ \A p \in Pages : /\ Entry(p, {}) \in Entries /\ Entry(p, {}).page = p
                      /\ Entry(p, {}).mode = {} /\ is_valid(Entry(p, {}))
<1>1. Empty.page = None /\ Empty.mode = {} /\ Empty \in Entries /\ ~is_valid(Empty)
  BY DEF Empty, Entry, Entries, is_valid
<1>2. NoEntries \in [Indexes -> Entries] /\ \A i \in Indexes : NoEntries[i] = Empty
  BY <1>1 DEF NoEntries
<1>3. ASSUME NEW p \in Pages
      PROVE  /\ Entry(p, {}) \in Entries /\ Entry(p, {}).page = p
             /\ Entry(p, {}).mode = {}
  BY DEF Entry, Entries
<1>4. \A p \in Pages : is_valid(Entry(p, {}))
  BY <1>1, <1>3, NoneNoPage DEF is_valid
<1> QED BY <1>1, <1>2, <1>3, <1>4

(* The tree of one mapper, as its equations *)
LEMMA ForestTree ==
  ASSUME NEW M, NEW R, NEW F, Forest(M, R, F), NEW m \in Mappers
  PROVE  /\ F[m][Level - 1] = RootSet(R[m])
         /\ \A k \in Levels : k # Level - 1 => F[m][k] = Kids(M, F[m][k + 1])
         /\ \A k \in Levels : F[m][k] \subseteq Pages
<1>1. TreeDef(M, R[m], F[m]) /\ F[m] \in [Levels -> SUBSET Pages]
  BY DEF Forest
<1>2. \A k \in Levels :
        F[m][k] = IF k = Level - 1 THEN RootSet(R[m]) ELSE Kids(M, F[m][k + 1])
  BY <1>1 DEF TreeDef
<1> QED BY <1>1, <1>2, LevelsAre

(* The equations make a tree. *)
LEMMA TreeFrom ==
  ASSUME NEW M, NEW r, NEW f \in [Levels -> SUBSET Pages], f[Level - 1] = RootSet(r),
         \A k \in Levels : k # Level - 1 => f[k] = Kids(M, f[k + 1])
  PROVE  TreeDef(M, r, f)
<1>1. f = [k \in Levels |-> f[k]]
  OBVIOUS
<1>2. \A k \in Levels : f[k] = IF k = Level - 1 THEN RootSet(r) ELSE Kids(M, f[k + 1])
  OBVIOUS
<1> HIDE DEF TreeDef
<1>3. [k \in Levels |-> f[k]] =
      [k \in Levels |-> IF k = Level - 1 THEN RootSet(r) ELSE Kids(M, f[k + 1])]
  BY <1>2
<1> QED BY <1>1, <1>3 DEF TreeDef

(* An entry of an upper table leads to a table of the level below. *)
LEMMA ChildIn ==
  ASSUME NEW M, NEW R, NEW F, Forest(M, R, F), NEW m \in Mappers,
         NEW l \in Levels, l # 0, NEW t \in F[m][l], NEW i \in Indexes, is_valid(M[t][i])
  PROVE  M[t][i].page \in F[m][l - 1] /\ M[t][i].page \in Pages /\ M[t][i].mode = {}
<1>1. l - 1 \in Levels /\ l - 1 # Level - 1 /\ (l - 1) + 1 = l
  BY LevelsAre
<1>2. F[m][l - 1] = Kids(M, F[m][l])
  BY <1>1, ForestTree
<1>3. M[t][i].page \in F[m][l - 1]
  BY <1>2, KidsAre
<1>4. l \in Levels \ {0}
  OBVIOUS
<1> QED BY <1>3, <1>4 DEF Forest

(* A forest with a memory that differs only in tables of level 0, and in    *)
(* pages that are no tables, is the same forest.                           *)
LEMMA ForestSame ==
  ASSUME NEW M, NEW N, NEW R, NEW F, Forest(M, R, F), N \in Memory,
         \A m \in Mappers, l \in Levels \ {0} : \A t \in F[m][l] : N[t] = M[t]
  PROVE  Forest(N, R, F)
<1>1. ASSUME NEW m \in Mappers PROVE TreeDef(N, R[m], F[m])
  <2>1. /\ F[m][Level - 1] = RootSet(R[m])
        /\ \A k \in Levels : k # Level - 1 => F[m][k] = Kids(M, F[m][k + 1])
    BY ForestTree
  <2>0. F[m] \in [Levels -> SUBSET Pages]
    BY DEF Forest
  <2>2. ASSUME NEW k \in Levels, k # Level - 1 PROVE F[m][k] = Kids(N, F[m][k + 1])
    <3>1. k + 1 \in Levels \ {0}
      BY <2>2, LevelsAre
    <3>2. Kids(M, F[m][k + 1]) = Kids(N, F[m][k + 1])
      BY <3>1, KidsSame
    <3> QED BY <2>1, <2>2, <3>2
  <2> QED BY <2>0, <2>1, <2>2, TreeFrom
<1>2. \A m \in Mappers, l \in Levels \ {0} : \A t \in F[m][l], i \in Indexes :
        is_valid(N[t][i]) => N[t][i].page \in Pages /\ N[t][i].mode = {}
  BY DEF Forest
<1>3. ASSUME NEW m \in Mappers, NEW n \in Mappers, NEW l \in Levels \ {0},
             NEW k \in Levels \ {0}, NEW t \in F[m][l], NEW u \in F[n][k],
             NEW i \in Indexes, NEW j \in Indexes,
             is_valid(N[t][i]), N[t][i].page = N[u][j].page
      PROVE  t = u /\ i = j
  <2>1. N[t] = M[t] /\ N[u] = M[u]
    OBVIOUS
  <2> QED BY <1>3, <2>1 DEF Forest
<1> QED BY <1>1, <1>2, <1>3 DEF Forest

(* A leaf is written: no tree changes. *)
LEMMA WriteLeaf ==
  ASSUME NEW M, NEW R, NEW F, Forest(M, R, F), NEW m \in Mappers,
         NEW t \in F[m][0], NEW i \in Indexes, NEW e \in Entries
  PROVE  Forest([M EXCEPT ![t][i] = e], R, F)
<1> DEFINE N == [M EXCEPT ![t][i] = e]
<1>1. t \in Pages /\ M \in Memory
  BY ForestTree, LevelsAre DEF Forest
<1>2. N \in Memory /\ \A u \in Pages : u # t => N[u] = M[u]
  BY <1>1 DEF Memory
<1>3. ASSUME NEW n \in Mappers, NEW l \in Levels \ {0}, NEW u \in F[n][l]
      PROVE  N[u] = M[u]
  <2>1. u \in Pages
    BY ForestTree
  <2>2. u # t
    BY LevelsAre DEF Forest
  <2> QED BY <1>2, <2>1, <2>2
<1> HIDE DEF N
<1>4. Forest(N, R, F)
  BY <1>2, <1>3, ForestSame
<1> QED BY <1>4 DEF N

(* destroy ends: the tree of m is gone, the others stay. *)
LEMMA CutRoot ==
  ASSUME NEW M, NEW R, NEW F, Forest(M, R, F), NEW m \in Mappers
  PROVE  Forest(M, [R EXCEPT ![m] = None], [F EXCEPT ![m] = [k \in Levels |-> {}]])
<1> DEFINE S == [R EXCEPT ![m] = None]
           G == [F EXCEPT ![m] = [k \in Levels |-> {}]]
           none == [k \in Levels |-> {}]
<1>1. /\ S \in [Mappers -> Pages \cup {None}] /\ S[m] = None
      /\ \A n \in Mappers : n # m => S[n] = R[n]
  BY DEF Forest
<1>2. /\ G \in [Mappers -> [Levels -> SUBSET Pages]] /\ G[m] = none
      /\ \A n \in Mappers : n # m => G[n] = F[n]
  BY DEF Forest
<1>3. none \in [Levels -> SUBSET Pages] /\ \A k \in Levels : none[k] = {}
  OBVIOUS
<1> HIDE DEF S, G, none
<1>4. TreeDef(M, S[m], G[m])
  <2>1. Kids(M, {}) = {}
    BY KidsAre
  <2>2. \A k \in Levels : k # Level - 1 => none[k] = Kids(M, none[k + 1])
    BY <1>3, <2>1, LevelsAre
  <2>3. none[Level - 1] = RootSet(None)
    BY <1>3, LevelsAre DEF RootSet
  <2> QED BY <1>1, <1>2, <1>3, <2>2, <2>3, TreeFrom
<1>5. \A n \in Mappers, l \in Levels : G[n][l] \subseteq F[n][l]
  BY <1>2, <1>3
<1>6. \A n \in Mappers : TreeDef(M, S[n], G[n])
  BY <1>1, <1>2, <1>4 DEF Forest
<1>7. Forest(M, S, G)
  BY <1>1, <1>2, <1>5, <1>6 DEF Forest
<1> QED BY <1>7 DEF S, G

(* Mapper::new: the tree of m is its root. *)
LEMMA GrowRoot ==
  ASSUME NEW M, NEW R, NEW F, Forest(M, R, F), NEW m \in Mappers, R[m] = None,
         NEW p, Fresh(F, p)
  PROVE  Forest([M EXCEPT ![p] = NoEntries], [R EXCEPT ![m] = p],
                [F EXCEPT ![m][Level - 1] = {p}])
<1> DEFINE N == [M EXCEPT ![p] = NoEntries]
           S == [R EXCEPT ![m] = p]
           G == [F EXCEPT ![m][Level - 1] = {p}]
<1>0. p \in Pages /\ p # None /\ \A n \in Mappers, l \in Levels : p \notin F[n][l]
  BY NoneNoPage DEF Fresh
<1>1. /\ N \in Memory /\ N[p] = NoEntries /\ \A u \in Pages : u # p => N[u] = M[u]
  BY <1>0, EmptyIs DEF Forest, Memory
<1>2. /\ S \in [Mappers -> Pages \cup {None}] /\ S[m] = p
      /\ \A n \in Mappers : n # m => S[n] = R[n]
  BY <1>0 DEF Forest
<1>3. /\ G \in [Mappers -> [Levels -> SUBSET Pages]] /\ G[m][Level - 1] = {p}
      /\ \A k \in Levels : k # Level - 1 => G[m][k] = F[m][k]
      /\ \A n \in Mappers : n # m => G[n] = F[n]
  BY <1>0, LevelsAre DEF Forest
<1> HIDE DEF N, S, G
<1>4. \A n \in Mappers, k \in Levels : \A u \in F[n][k] : u \in Pages /\ u # p /\ N[u] = M[u]
  BY <1>0, <1>1, ForestTree
<1>5. Forest(N, R, F)
  BY <1>1, <1>4, ForestSame
<1>6. \A i \in Indexes : ~is_valid(N[p][i]) /\ N[p][i].page = None
  BY <1>1, EmptyIs
<1>7. F[m][Level - 1] = {}
  BY ForestTree DEF RootSet
<1>8. ASSUME NEW n \in Mappers PROVE TreeDef(N, S[n], G[n])
  <2>0. G[n] \in [Levels -> SUBSET Pages]
    BY <1>3
  <2>1. CASE n # m
    BY <1>2, <1>3, <1>5, <2>1 DEF Forest
  <2>2. CASE n = m
    <3>1. G[m][Level - 1] = RootSet(S[m])
      BY <1>0, <1>2, <1>3 DEF RootSet
    <3>2. ASSUME NEW k \in Levels, k # Level - 1 PROVE G[m][k] = Kids(N, G[m][k + 1])
      <4>1. G[m][k] = F[m][k] /\ F[m][k] = Kids(N, F[m][k + 1]) /\ k + 1 \in Levels
        BY <1>3, <1>5, <3>2, ForestTree, LevelsAre
      <4>2. CASE k + 1 # Level - 1
        BY <1>3, <4>1, <4>2
      <4>3. CASE k + 1 = Level - 1
        <5>1. Kids(N, {p}) = {} /\ Kids(N, {}) = {}
          BY <1>6, KidsAre
        <5> QED BY <1>3, <1>7, <4>1, <4>3, <5>1
      <4> QED BY <4>2, <4>3
    <3> QED BY <2>0, <2>2, <3>1, <3>2, TreeFrom
  <2> QED BY <2>1, <2>2
<1>9. \A n \in Mappers, k \in Levels : \A u \in G[n][k] :
        u \in F[n][k] \/ (u = p /\ n = m /\ k = Level - 1)
  BY <1>3
<1>10. ASSUME NEW n \in Mappers, NEW k \in Levels \ {0}, NEW u \in G[n][k], NEW i \in Indexes,
              is_valid(N[u][i])
       PROVE  u \in F[n][k]
  BY <1>6, <1>9, <1>10
<1>11. \A n \in Mappers, k \in Levels \ {0} : \A u \in G[n][k], i \in Indexes :
         is_valid(N[u][i]) => N[u][i].page \in Pages /\ N[u][i].mode = {}
  BY <1>5, <1>10 DEF Forest
<1>12. \A n, o \in Mappers, l, k \in Levels : \A q \in G[n][l] :
         q \in G[o][k] => n = o /\ l = k
  BY <1>0, <1>5, <1>9 DEF Forest
<1>13. ASSUME NEW n \in Mappers, NEW o \in Mappers, NEW l \in Levels \ {0},
              NEW k \in Levels \ {0}, NEW t \in G[n][l], NEW u \in G[o][k],
              NEW i \in Indexes, NEW j \in Indexes,
              is_valid(N[t][i]), N[t][i].page = N[u][j].page
       PROVE  t = u /\ i = j
  <2>1. t \in F[n][l] /\ N[t][i].page \in Pages
    BY <1>10, <1>11, <1>13
  <2>2. u \in F[o][k]
    BY <1>6, <1>9, <1>13, <2>1, NoneNoPage
  <2> QED BY <1>5, <1>13, <2>1, <2>2 DEF Forest
<1>14. Forest(N, S, G)
  BY <1>1, <1>2, <1>3, <1>8, <1>11, <1>12, <1>13 DEF Forest
<1> QED BY <1>14 DEF N, S, G

(* map_4k enters a new table p below the table t of level l. *)
Grown(M, t, i, p) == [M EXCEPT ![p] = NoEntries, ![t][i] = Entry(p, {})]

LEMMA GrownIs ==
  ASSUME NEW M \in Memory, NEW t \in Pages, NEW i \in Indexes, NEW p \in Pages, p # t
  PROVE  /\ Grown(M, t, i, p) \in Memory /\ Grown(M, t, i, p)[p] = NoEntries
         /\ Grown(M, t, i, p)[t][i] = Entry(p, {})
         /\ \A j \in Indexes : j # i => Grown(M, t, i, p)[t][j] = M[t][j]
         /\ \A u \in Pages : u # p /\ u # t => Grown(M, t, i, p)[u] = M[u]
<1> DEFINE K == [M EXCEPT ![p] = NoEntries]
           e == Entry(p, {})
<1>1. /\ K \in Memory /\ K[p] = NoEntries /\ \A u \in Pages : u # p => K[u] = M[u]
  BY EmptyIs DEF Memory
<1>2. e \in Entries
  BY EmptyIs
<1> HIDE DEF K, e
<1>3. Grown(M, t, i, p) = [K EXCEPT ![t][i] = e]
  BY DEF Grown, K, e
<1>4. /\ [K EXCEPT ![t][i] = e] \in Memory /\ [K EXCEPT ![t][i] = e][t][i] = e
      /\ \A j \in Indexes : j # i => [K EXCEPT ![t][i] = e][t][j] = K[t][j]
      /\ \A u \in Pages : u # t => [K EXCEPT ![t][i] = e][u] = K[u]
  BY <1>1, <1>2 DEF Memory
<1> QED BY <1>1, <1>3, <1>4 DEF e

LEMMA GrowTable ==
  ASSUME NEW M, NEW R, NEW F, Forest(M, R, F), NEW m \in Mappers,
         NEW l \in Levels, l # 0, NEW t \in F[m][l], NEW i \in Indexes,
         ~is_valid(M[t][i]), NEW p, Fresh(F, p)
  PROVE  Forest(Grown(M, t, i, p), R, [F EXCEPT ![m][l - 1] = @ \cup {p}])
<1> DEFINE N == Grown(M, t, i, p)
           G == [F EXCEPT ![m][l - 1] = @ \cup {p}]
<1>0. /\ p \in Pages /\ p # None /\ \A n \in Mappers, k \in Levels : p \notin F[n][k]
      /\ t \in Pages /\ p # t /\ M \in Memory
      /\ l - 1 \in Levels /\ l - 1 # Level - 1 /\ (l - 1) + 1 = l /\ l - 1 # l
  BY NoneNoPage, ForestTree, LevelsAre DEF Fresh, Forest
<1>1. /\ N \in Memory /\ N[p] = NoEntries /\ N[t][i] = Entry(p, {})
      /\ \A j \in Indexes : j # i => N[t][j] = M[t][j]
      /\ \A u \in Pages : u # p /\ u # t => N[u] = M[u]
  BY <1>0, GrownIs
<1>3. /\ G \in [Mappers -> [Levels -> SUBSET Pages]] /\ G[m][l - 1] = F[m][l - 1] \cup {p}
      /\ \A k \in Levels : k # l - 1 => G[m][k] = F[m][k]
      /\ \A n \in Mappers : n # m => G[n] = F[n]
  BY <1>0 DEF Forest
<1> HIDE DEF N, G
<1>2. /\ is_valid(N[t][i]) /\ N[t][i].page = p /\ N[t][i].mode = {}
      /\ \A j \in Indexes : ~is_valid(N[p][j]) /\ N[p][j].page = None
  BY <1>0, <1>1, EmptyIs
<1>4. \A n \in Mappers, k \in Levels : \A u \in F[n][k] : u \in Pages /\ u # p
  BY <1>0, ForestTree
<1>5. ASSUME NEW n \in Mappers, NEW k \in Levels, n # m \/ k # l, NEW u \in F[n][k]
      PROVE  N[u] = M[u] /\ u # t
  <2>1. u # t
    BY <1>5 DEF Forest
  <2> QED BY <1>1, <1>4, <2>1
<1>6. \A n \in Mappers, k \in Levels : \A u \in F[n][k], j \in Indexes :
        <<u, j>> # <<t, i>> => N[u][j] = M[u][j]
  BY <1>1, <1>4
<1>7. ASSUME NEW n \in Mappers PROVE TreeDef(N, R[n], G[n])
  <2>0. G[n] \in [Levels -> SUBSET Pages]
    BY <1>3
  <2>1. F[n][Level - 1] = RootSet(R[n]) /\
        \A k \in Levels : k # Level - 1 => F[n][k] = Kids(M, F[n][k + 1])
    BY ForestTree
  <2>2. G[n][Level - 1] = RootSet(R[n])
    BY <1>0, <1>3, <2>1, LevelsAre
  <2>3. ASSUME NEW k \in Levels, k # Level - 1 PROVE G[n][k] = Kids(N, G[n][k + 1])
    <3>0. k + 1 \in Levels /\ F[n][k] = Kids(M, F[n][k + 1])
      BY <2>1, <2>3, LevelsAre
    <3>1. CASE n = m /\ k = l - 1
      <4>1. G[n][k] = F[n][k] \cup {p} /\ G[n][k + 1] = F[n][l] /\ k + 1 = l
        BY <1>0, <1>3, <3>1
      <4>2. ASSUME NEW q PROVE q \in F[n][k] \cup {p} <=> q \in Kids(N, F[n][l])
        <5>1. p \in Kids(N, F[n][l])
          BY <1>2, <3>1, KidsAre
        <5>2. ASSUME q \in F[n][k] PROVE q \in Kids(N, F[n][l])
          <6>1. PICK u \in F[n][l], j \in Indexes : is_valid(M[u][j]) /\ q = M[u][j].page
            BY <3>0, <4>1, <5>2, KidsAre
          <6>2. <<u, j>> # <<t, i>>
            BY <6>1
          <6>3. N[u][j] = M[u][j]
            BY <1>6, <6>2
          <6> QED BY <6>1, <6>3, KidsAre
        <5>3. ASSUME q \in Kids(N, F[n][l]), q # p PROVE q \in F[n][k]
          <6>1. PICK u \in F[n][l], j \in Indexes : is_valid(N[u][j]) /\ q = N[u][j].page
            BY <5>3, KidsAre
          <6>2. <<u, j>> # <<t, i>>
            BY <1>2, <5>3, <6>1
          <6>3. N[u][j] = M[u][j]
            BY <1>6, <6>2
          <6> QED BY <3>0, <4>1, <6>1, <6>3, KidsAre
        <5> QED BY <5>1, <5>2, <5>3
      <4> QED BY <4>1, <4>2
    <3>2. CASE n = m /\ k + 1 = l - 1
      <4>1. G[n][k] = F[n][k] /\ G[n][k + 1] = F[n][l - 1] \cup {p}
        BY <1>0, <1>3, <3>2, LevelsAre
      <4>2. \A u \in F[n][l - 1] : N[u] = M[u]
        BY <1>0, <1>5
      <4>3. Kids(N, F[n][l - 1]) = Kids(M, F[n][l - 1])
        BY <4>2, KidsSame
      <4>4. Kids(N, F[n][l - 1] \cup {p}) = Kids(N, F[n][l - 1])
        <5> DEFINE T == F[n][l - 1]
        <5>1. \A j \in Indexes : ~is_valid(N[p][j])
          BY <1>2
        <5> HIDE DEF T
        <5>2. \A q : q \in Kids(N, T \cup {p}) <=> q \in Kids(N, T)
          BY <5>1, KidsAre
        <5> QED BY <5>2 DEF T
      <4> QED BY <3>0, <3>2, <4>1, <4>3, <4>4
    <3>3. CASE n # m \/ (k # l - 1 /\ k + 1 # l - 1)
      <4>1. G[n][k] = F[n][k] /\ G[n][k + 1] = F[n][k + 1]
        BY <1>3, <3>0, <3>3
      <4>2. n # m \/ k + 1 # l
        BY <3>3, LevelsAre
      <4>3. Kids(N, F[n][k + 1]) = Kids(M, F[n][k + 1])
        BY <1>5, <3>0, <4>2, KidsSame
      <4> QED BY <3>0, <4>1, <4>3
    <3> QED BY <3>1, <3>2, <3>3
  <2> QED BY <2>0, <2>2, <2>3, TreeFrom
<1>8. \A n \in Mappers, k \in Levels : \A u \in G[n][k] :
        u \in F[n][k] \/ (u = p /\ n = m /\ k = l - 1)
  BY <1>3
<1>9. ASSUME NEW n \in Mappers, NEW k \in Levels \ {0}, NEW u \in G[n][k],
             NEW j \in Indexes, is_valid(N[u][j])
      PROVE  /\ N[u][j].page \in Pages /\ N[u][j].mode = {}
             /\ u \in F[n][k]
             /\ \/ u = t /\ j = i /\ N[u][j].page = p
                \/ N[u][j] = M[u][j] /\ <<u, j>> # <<t, i>>
  <2>1. u \in F[n][k]
    BY <1>2, <1>8, <1>9
  <2>2. CASE <<u, j>> = <<t, i>>
    BY <1>0, <1>2, <2>1, <2>2
  <2>3. CASE <<u, j>> # <<t, i>>
    <3>1. N[u][j] = M[u][j]
      BY <1>6, <2>1, <2>3
    <3> QED BY <1>9, <2>1, <2>3, <3>1 DEF Forest
  <2> QED BY <2>2, <2>3
<1>10. \A n, o \in Mappers, h, k \in Levels : \A q \in G[n][h] :
         q \in G[o][k] => n = o /\ h = k
  BY <1>0, <1>8 DEF Forest
<1>11. ASSUME NEW n \in Mappers, NEW o \in Mappers, NEW h \in Levels \ {0},
              NEW k \in Levels \ {0}, NEW a \in G[n][h], NEW b \in G[o][k],
              NEW j \in Indexes, NEW c \in Indexes,
              is_valid(N[a][j]), N[a][j].page = N[b][c].page
       PROVE  a = b /\ j = c
  <2>0. N[b][c].page \in Pages /\ a \in F[n][h]
    BY <1>9, <1>11
  <2>1. is_valid(N[b][c])
    BY <2>0, EmptyIs, NoneNoPage DEF is_valid
  <2>2. b \in F[o][k]
    BY <1>9, <2>1
  <2>3. ASSUME NEW x \in Mappers, NEW y \in Levels \ {0}, NEW u \in F[x][y],
               NEW d \in Indexes, is_valid(M[u][d])
        PROVE  M[u][d].page # p
    <3>1. M[u][d].page \in F[x][y - 1] /\ y - 1 \in Levels
      BY <2>3, ChildIn, LevelsAre
    <3> QED BY <1>0, <3>1
  <2>4. CASE <<a, j>> = <<t, i>>
    BY <1>2, <1>9, <1>11, <2>1, <2>2, <2>3, <2>4
  <2>5. CASE <<b, c>> = <<t, i>>
    BY <1>2, <1>9, <1>11, <2>0, <2>1, <2>3, <2>5
  <2>6. CASE <<a, j>> # <<t, i>> /\ <<b, c>> # <<t, i>>
    <3>1. N[a][j] = M[a][j] /\ N[b][c] = M[b][c]
      BY <1>6, <2>0, <2>2, <2>6
    <3> QED BY <1>11, <2>0, <2>2, <3>1 DEF Forest
  <2> QED BY <2>4, <2>5, <2>6
<1>12. Forest(N, R, G)
  <2>1. R \in [Mappers -> Pages \cup {None}]
    BY DEF Forest
  <2> QED BY <1>1, <1>3, <1>7, <1>9, <1>10, <1>11, <2>1 DEF Forest
<1> QED BY <1>12 DEF N, G

-----------------------------------------------------------------------------
(* The way from the root r to the virtual page v: the tables it passes *)
Step(M, t, i) ==
    IF t = None THEN None
    ELSE IF is_valid(M[t][i]) /\ M[t][i].mode = {} THEN M[t][i].page ELSE None

WayDef(M, r, v, w) ==
    w = [k \in Levels |-> IF k = Level - 1 THEN r ELSE Step(M, w[k + 1], index(v, k + 1))]

Way(M, r, v) == CHOOSE w : WayDef(M, r, v, w)

Look(M, t, i) == IF t = None THEN Empty ELSE M[t][i]

LEMMA TableOfWay ==
  ASSUME NEW m, NEW v, NEW l
  PROVE  TableOf(m, v, l) = Way(mem, root[m], v)[l]
BY Zenon DEF TableOf, Way, WayDef, Step

LEMMA WalkWay ==
  ASSUME NEW m, NEW v
  PROVE  Walk(m, v) = Look(mem, Way(mem, root[m], v)[0], index(v, 0))
BY TableOfWay, Zenon DEF Walk, Look

LEMMA WayEqs ==
  ASSUME NEW M, NEW r, NEW v, NEW w, WayDef(M, r, v, w)
  PROVE  /\ w[Level - 1] = r
         /\ \A k \in Levels : k # Level - 1 => w[k] = Step(M, w[k + 1], index(v, k + 1))
<1>1. \A k \in Levels :
        w[k] = IF k = Level - 1 THEN r ELSE Step(M, w[k + 1], index(v, k + 1))
  BY DEF WayDef
<1> QED BY <1>1, LevelsAre

LEMMA WayFrom ==
  ASSUME NEW M, NEW r, NEW v, NEW w, w = [k \in Levels |-> w[k]], w[Level - 1] = r,
         \A k \in Levels : k # Level - 1 => w[k] = Step(M, w[k + 1], index(v, k + 1))
  PROVE  WayDef(M, r, v, w)
<1>1. \A k \in Levels :
        w[k] = IF k = Level - 1 THEN r ELSE Step(M, w[k + 1], index(v, k + 1))
  OBVIOUS
<1>2. [k \in Levels |-> w[k]] =
      [k \in Levels |-> IF k = Level - 1 THEN r ELSE Step(M, w[k + 1], index(v, k + 1))]
  BY <1>1
<1> QED BY <1>2 DEF WayDef

LEMMA WayUnique ==
  ASSUME NEW M, NEW r, NEW v, NEW f, NEW g, WayDef(M, r, v, f), WayDef(M, r, v, g)
  PROVE  f = g
<1> DEFINE P == {k \in Levels : f[k] = g[k]}
<1>1. Level - 1 \in P
  BY WayEqs, LevelsAre
<1>2. \A k \in Levels : k # Level - 1 /\ k + 1 \in P => k \in P
  BY WayEqs
<1>3. \A k \in Levels : k \in P
  <2> HIDE DEF P
  <2> QED BY <1>1, <1>2, DownInd
<1>4. f = [k \in Levels |-> f[k]] /\ g = [k \in Levels |-> g[k]]
  BY DEF WayDef
<1> QED BY <1>3, <1>4

LEMMA WayExists ==
  ASSUME NEW M, NEW r, NEW v
  PROVE  \E w : WayDef(M, r, v, w)
<1> DEFINE Body(f, k) == IF k = Level - 1 THEN r ELSE Step(M, f[k + 1], index(v, k + 1))
           From(l) == {k \in Levels : l =< k}
           Def(l, f) == \A k \in From(l) : f[k] = Body(f, k)
           P == {l \in Levels : \E f : Def(l, f)}
<1>1. Level - 1 \in P
  <2> DEFINE f == [k \in Levels |-> r]
  <2>1. Def(Level - 1, f)
    BY LevelsAre
  <2> QED BY <2>1, LevelsAre
<1>2. ASSUME NEW l \in Levels, l # Level - 1, l + 1 \in P PROVE l \in P
  <2>1. PICK f : Def(l + 1, f)
    BY <1>2
  <2> DEFINE g == [k \in Levels |-> IF k = l THEN Step(M, f[l + 1], index(v, l + 1)) ELSE f[k]]
  <2>2. ASSUME NEW k \in From(l) PROVE g[k] = Body(g, k)
    <3>1. k # Level - 1 => k + 1 \in Levels /\ k + 1 # l
      BY LevelsAre
    <3>2. CASE k = l
      <4>1. g[k] = Step(M, f[k + 1], index(v, k + 1)) /\ g[k + 1] = f[k + 1]
        BY <1>2, <3>1, <3>2
      <4> QED BY <1>2, <3>2, <4>1
    <3>3. CASE k # l
      <4>1. k \in From(l + 1) /\ k \in Levels
        BY <1>2, <3>3, LevelsAre
      <4>2. f[k] = Body(f, k)
        BY <2>1, <4>1
      <4>3. g[k] = f[k] /\ (k # Level - 1 => g[k + 1] = f[k + 1])
        BY <3>1, <3>3, <4>1
      <4> QED BY <4>2, <4>3
    <3> QED BY <3>2, <3>3
  <2> HIDE DEF g, Body, From
  <2>3. Def(l, g)
    BY <2>2
  <2> HIDE DEF Def
  <2> QED BY <2>3
<1>3. 0 \in P
  <2> HIDE DEF P
  <2> QED BY <1>1, <1>2, DownInd, LevelsAre
<1>4. PICK f : Def(0, f)
  BY <1>3
<1>5. \A k \in Levels : f[k] = Body(f, k)
  BY <1>4, LevelsAre
<1> DEFINE h == [k \in Levels |-> f[k]]
<1>6. \A k \in Levels : h[k] = Body(h, k)
  BY <1>5, LevelsAre
<1>7. WayDef(M, r, v, h)
  BY <1>6 DEF WayDef
<1> QED BY <1>7

LEMMA WayIs ==
  ASSUME NEW M, NEW r, NEW v
  PROVE  /\ WayDef(M, r, v, Way(M, r, v))
         /\ \A w : WayDef(M, r, v, w) => Way(M, r, v) = w
<1>1. WayDef(M, r, v, Way(M, r, v))
  BY WayExists, Zenon DEF Way
<1> QED BY <1>1, WayUnique

(* From no root there is no way. *)
LEMMA WayNone ==
  ASSUME NEW M, NEW v, NEW w, WayDef(M, None, v, w), NEW k \in Levels
  PROVE  w[k] = None
<1> DEFINE P == {l \in Levels : w[l] = None}
<1>1. Level - 1 \in P
  BY WayEqs, LevelsAre
<1>2. \A l \in Levels : l # Level - 1 /\ l + 1 \in P => l \in P
  BY WayEqs DEF Step
<1>3. \A l \in Levels : l \in P
  <2> HIDE DEF P
  <2> QED BY <1>1, <1>2, DownInd
<1> QED BY <1>3

LEMMA IndexIn ==
  ASSUME NEW v \in Vpns, NEW l \in Levels
  PROVE  index(v, l) \in Indexes
<1>1. v \in Nat /\ PtesPerDir \in Nat \ {0} /\ PtesPerDir ^ l \in Nat \ {0}
  BY PageTableAssumption
<1> DEFINE b == PtesPerDir ^ l
           q == v \div b
<1>2. b \in Nat /\ b > 0
  BY <1>1
<1> HIDE DEF b
<1>3. q \in Int
  BY <1>1, <1>2
<1> HIDE DEF q
<1>4. q % PtesPerDir \in 0..(PtesPerDir - 1)
  BY <1>1, <1>3
<1> QED BY <1>4 DEF index, Indexes, q, b

(* A way passes tables of its mapper. *)
LEMMA WayIn ==
  ASSUME NEW M, NEW R, NEW F, Forest(M, R, F), NEW m \in Mappers, NEW v \in Vpns,
         NEW w, WayDef(M, R[m], v, w)
  PROVE  \A k \in Levels : w[k] = None \/ w[k] \in F[m][k]
<1> DEFINE P == {l \in Levels : w[l] = None \/ w[l] \in F[m][l]}
<1>1. Level - 1 \in P
  <2>1. w[Level - 1] = R[m]
    BY WayEqs
  <2>2. F[m][Level - 1] = RootSet(R[m])
    BY ForestTree
  <2> QED BY <2>1, <2>2, LevelsAre DEF RootSet
<1>2. ASSUME NEW k \in Levels, k # Level - 1, k + 1 \in P PROVE k \in P
  <2>1. w[k] = Step(M, w[k + 1], index(v, k + 1)) /\ k + 1 \in Levels /\ k + 1 # 0
        /\ (k + 1) - 1 = k
    BY <1>2, WayEqs, LevelsAre
  <2>2. index(v, k + 1) \in Indexes
    BY <2>1, IndexIn
  <2>3. w[k + 1] = None \/ w[k + 1] \in F[m][k + 1]
    BY <1>2
  <2> QED BY <2>1, <2>2, <2>3, ChildIn DEF Step
<1>3. \A l \in Levels : l \in P
  <2> HIDE DEF P
  <2> QED BY <1>1, <1>2, DownInd
<1> QED BY <1>3

(* Two ways that end in the same table are the same way. *)
LEMMA WaysMeet ==
  ASSUME NEW M, NEW R, NEW F, Forest(M, R, F), NEW m \in Mappers, NEW n \in Mappers,
         NEW v \in Vpns, NEW u \in Vpns, NEW w, WayDef(M, R[m], v, w),
         NEW x, WayDef(M, R[n], u, x), w[0] = x[0], w[0] # None,
         index(v, 0) = index(u, 0)
  PROVE  m = n /\ v = u
<1> DEFINE Same(k) == \A l \in Levels : k < l => index(v, l) = index(u, l)
           P == {k \in Levels : w[k] = x[k] /\ w[k] # None => m = n /\ Same(k)}
<1>0. \A k \in Levels : (w[k] = None \/ w[k] \in F[m][k]) /\ (x[k] = None \/ x[k] \in F[n][k])
  BY WayIn
<1>1. Level - 1 \in P
  <2>1. ASSUME w[Level - 1] = x[Level - 1], w[Level - 1] # None PROVE m = n
    BY <1>0, <2>1, LevelsAre DEF Forest
  <2>2. Same(Level - 1)
    BY LevelsAre
  <2> QED BY <2>1, <2>2, LevelsAre
<1>2. ASSUME NEW k \in Levels, k # Level - 1, k + 1 \in P PROVE k \in P
  <2> SUFFICES ASSUME w[k] = x[k], w[k] # None PROVE m = n /\ Same(k)
    OBVIOUS
  <2> DEFINE i == index(v, k + 1)
             j == index(u, k + 1)
             t == w[k + 1]
             s == x[k + 1]
  <2>1. w[k] = Step(M, t, i) /\ x[k] = Step(M, s, j) /\ k + 1 \in Levels \ {0}
    BY <1>2, WayEqs, LevelsAre
  <2>2. i \in Indexes /\ j \in Indexes
    BY <2>1, IndexIn
  <2>3. t # None /\ s # None /\ is_valid(M[t][i]) /\ M[t][i].page = M[s][j].page
    BY <2>1 DEF Step
  <2>4. t \in F[m][k + 1] /\ s \in F[n][k + 1]
    BY <1>0, <2>1, <2>3
  <2>5. t = s /\ i = j
    <3> HIDE DEF t, s, i, j
    <3> QED BY <2>1, <2>2, <2>3, <2>4 DEF Forest
  <2>6. m = n /\ Same(k + 1)
    BY <1>2, <2>3, <2>5
  <2>7. Same(k)
    <3> SUFFICES ASSUME NEW l \in Levels, k < l PROVE index(v, l) = index(u, l)
      OBVIOUS
    <3>1. l = k + 1 \/ k + 1 < l
      BY LevelsAre
    <3> QED BY <2>5, <2>6, <3>1
  <2> QED BY <2>6, <2>7
<1>3. 0 \in P
  <2> HIDE DEF P
  <2> QED BY <1>1, <1>2, DownInd, LevelsAre
<1>4. m = n /\ \A l \in Levels : 0 < l => index(v, l) = index(u, l)
  BY <1>3
<1>5. \A l \in Levels : index(v, l) = index(u, l)
  BY <1>4, LevelsAre
<1> QED BY <1>4, <1>5, PageTableAssumption

(* A memory with the same upper tables has the same ways. *)
LEMMA WaySame ==
  ASSUME NEW M, NEW N, NEW R, NEW F, Forest(M, R, F), NEW m \in Mappers, NEW v \in Vpns,
         NEW w, WayDef(M, R[m], v, w),
         \A l \in Levels \ {0} : \A t \in F[m][l] : N[t] = M[t]
  PROVE  WayDef(N, R[m], v, w)
<1>1. w = [k \in Levels |-> w[k]]
  BY DEF WayDef
<1>2. w[Level - 1] = R[m]
  BY WayEqs
<1>3. ASSUME NEW k \in Levels, k # Level - 1
      PROVE  w[k] = Step(N, w[k + 1], index(v, k + 1))
  <2>1. w[k] = Step(M, w[k + 1], index(v, k + 1)) /\ k + 1 \in Levels \ {0}
    BY <1>3, WayEqs, LevelsAre
  <2>2. w[k + 1] = None \/ w[k + 1] \in F[m][k + 1]
    BY <2>1, WayIn
  <2>3. w[k + 1] # None => N[w[k + 1]] = M[w[k + 1]]
    BY <2>1, <2>2
  <2> QED BY <2>1, <2>3 DEF Step
<1> QED BY <1>1, <1>2, <1>3, WayFrom

(* Mapper::new: the ways of m end at the root. *)
LEMMA WayOfRoot ==
  ASSUME NEW N, NEW p, p # None, \A i \in Indexes : ~is_valid(N[p][i]), NEW v \in Vpns
  PROVE  WayDef(N, p, v, [k \in Levels |-> IF k = Level - 1 THEN p ELSE None])
<1> DEFINE w == [k \in Levels |-> IF k = Level - 1 THEN p ELSE None]
<1>1. w = [k \in Levels |-> w[k]] /\ w[Level - 1] = p
  BY LevelsAre
<1>2. ASSUME NEW k \in Levels, k # Level - 1
      PROVE  w[k] = Step(N, w[k + 1], index(v, k + 1))
  <2>1. k + 1 \in Levels /\ index(v, k + 1) \in Indexes
    BY <1>2, LevelsAre, IndexIn
  <2> QED BY <1>2, <2>1 DEF Step
<1> HIDE DEF w
<1>3. WayDef(N, p, v, w)
  BY <1>1, <1>2, WayFrom
<1> QED BY <1>3 DEF w

(* A new table lengthens the ways that ended at its entry by itself. *)
Longer(w, l, p) == [w EXCEPT ![l - 1] = p]

LEMMA WayGrown ==
  ASSUME NEW M, NEW R, NEW F, Forest(M, R, F), NEW m \in Mappers,
         NEW l \in Levels, l # 0, NEW t \in F[m][l], NEW i \in Indexes,
         M[t][i] = Empty, NEW p, Fresh(F, p),
         NEW n \in Mappers, NEW v \in Vpns, NEW w, WayDef(M, R[n], v, w)
  PROVE  IF n = m /\ w[l] = t /\ index(v, l) = i
         THEN WayDef(Grown(M, t, i, p), R[n], v, Longer(w, l, p)) /\ w[l - 1] = None
         ELSE WayDef(Grown(M, t, i, p), R[n], v, w)
<1> DEFINE N == Grown(M, t, i, p)
<1>0. /\ p \in Pages /\ p # None /\ \A o \in Mappers, k \in Levels : p \notin F[o][k]
      /\ t \in Pages /\ p # t /\ M \in Memory /\ t # None
      /\ l - 1 \in Levels /\ l - 1 # Level - 1 /\ (l - 1) + 1 = l /\ l - 1 # l
  BY NoneNoPage, ForestTree, LevelsAre DEF Fresh, Forest
<1>1. /\ N[p] = NoEntries /\ N[t][i] = Entry(p, {})
      /\ \A j \in Indexes : j # i => N[t][j] = M[t][j]
      /\ \A u \in Pages : u # p /\ u # t => N[u] = M[u]
  BY <1>0, GrownIs
<1> HIDE DEF N
<1>2. /\ is_valid(N[t][i]) /\ N[t][i].page = p /\ N[t][i].mode = {}
      /\ \A j \in Indexes : ~is_valid(N[p][j])
  BY <1>0, <1>1, EmptyIs
<1>3. w = [k \in Levels |-> w[k]] /\ w[Level - 1] = R[n]
  <2>1. w[Level - 1] = R[n]
    BY WayEqs
  <2> QED BY <2>1 DEF WayDef
<1>4. \A k \in Levels : k # Level - 1 =>
        /\ w[k] = Step(M, w[k + 1], index(v, k + 1)) /\ k + 1 \in Levels
        /\ index(v, k + 1) \in Indexes
  BY WayEqs, LevelsAre, IndexIn
<1>5. \A k \in Levels : w[k] = None \/ w[k] \in F[n][k]
  BY WayIn
<1>6. ASSUME NEW k \in Levels, k # Level - 1, ~(w[k + 1] = t /\ index(v, k + 1) = i)
      PROVE  w[k] = Step(N, w[k + 1], index(v, k + 1))
  <2>1. w[k] = Step(M, w[k + 1], index(v, k + 1)) /\ k + 1 \in Levels
        /\ index(v, k + 1) \in Indexes
    BY <1>4, <1>6
  <2>2. CASE w[k + 1] = None
    BY <2>1, <2>2 DEF Step
  <2>3. CASE w[k + 1] # None
    <3>1. w[k + 1] \in F[n][k + 1] /\ w[k + 1] \in Pages /\ w[k + 1] # p
      BY <1>0, <1>5, <2>1, <2>3, ForestTree
    <3>2. N[w[k + 1]][index(v, k + 1)] = M[w[k + 1]][index(v, k + 1)]
      BY <1>1, <1>6, <2>1, <3>1
    <3> QED BY <2>1, <3>2 DEF Step
  <2> QED BY <2>2, <2>3
<1>7. ASSUME NEW k \in Levels, w[k] = t PROVE k = l /\ n = m
  BY <1>0, <1>5, <1>7 DEF Forest
<1>8. CASE ~(n = m /\ w[l] = t /\ index(v, l) = i)
  <2>1. \A k \in Levels : k # Level - 1 => w[k] = Step(N, w[k + 1], index(v, k + 1))
    BY <1>4, <1>6, <1>7, <1>8
  <2>2. WayDef(N, R[n], v, w)
    BY <1>3, <2>1, WayFrom
  <2> QED BY <1>8, <2>2 DEF N
<1>9. CASE n = m /\ w[l] = t /\ index(v, l) = i
  <2> DEFINE x == Longer(w, l, p)
  <2>1. w[l - 1] = None
    <3>1. w[l - 1] = Step(M, t, i)
      BY <1>0, <1>4, <1>9
    <3> QED BY <1>0, <3>1, EmptyIs DEF Step
  <2>2. /\ x = [k \in Levels |-> x[k]] /\ x[l - 1] = p
        /\ \A k \in Levels : k # l - 1 => x[k] = w[k]
    BY <1>0, <1>3 DEF Longer
  <2> HIDE DEF x
  <2>3. x[Level - 1] = R[n]
    BY <1>0, <1>3, <2>2, LevelsAre
  <2>4. ASSUME NEW k \in Levels, k # Level - 1
        PROVE  x[k] = Step(N, x[k + 1], index(v, k + 1))
    <3>0. k + 1 \in Levels /\ index(v, k + 1) \in Indexes
      BY <1>4, <2>4
    <3>1. CASE k = l - 1
      BY <1>0, <1>2, <1>9, <2>2, <3>0, <3>1 DEF Step
    <3>2. CASE k + 1 = l - 1
      <4>1. x[k] = w[k] /\ x[k + 1] = p /\ w[k + 1] = None
        BY <1>0, <2>1, <2>2, <3>2, LevelsAre
      <4>2. w[k] = Step(M, None, index(v, k + 1))
        BY <1>4, <2>4, <4>1
      <4> QED BY <1>2, <3>0, <4>1, <4>2 DEF Step
    <3>3. CASE k # l - 1 /\ k + 1 # l - 1
      <4>1. x[k] = w[k] /\ x[k + 1] = w[k + 1]
        BY <2>2, <3>0, <3>3
      <4>2. w[k + 1] # t
        BY <1>0, <1>7, <3>0, <3>3, LevelsAre
      <4> QED BY <1>6, <2>4, <4>1, <4>2
    <3> QED BY <3>1, <3>2, <3>3
  <2>5. WayDef(N, R[n], v, x)
    BY <2>2, <2>3, <2>4, WayFrom
  <2> QED BY <1>9, <2>1, <2>5 DEF N, x
<1> QED BY <1>8, <1>9

-----------------------------------------------------------------------------
(* Types, with all fields of the operation in progress *)
OpType ==
    [pc : {"idle", "map", "destroy", "oom"}, m : Mappers \cup {None}, level : Levels,
     tables : [Levels -> Pages \cup {None}], indexes : [Levels -> 0..PtesPerDir],
     vpn : Vpns \cup {0}, leaf : Entries]

TypeInv == TypeOK /\ op \in OpType

LEMMA NoOpType ==
  /\ NoOp \in OpType /\ NoOp.pc = "idle" /\ NoOp.level = 0
  /\ NoOp.tables = [l \in Levels |-> None] /\ NoOp.indexes = [l \in Levels |-> 0]
  /\ [NoOp EXCEPT !.pc = "oom"] \in OpType /\ [NoOp EXCEPT !.pc = "oom"].pc = "oom"
<1>1. PtesPerDir \in Nat
  BY PageTableAssumption
<1> QED BY <1>1, EmptyIs, LevelsAre DEF NoOp, OpType

(* An operation on m begins at its root. *)
LEMMA BeginType ==
  ASSUME TypeInv, NEW m \in Mappers, NEW c \in {"map", "destroy"}
  PROVE  /\ Begin(c, m) \in OpType /\ Begin(c, m).pc = c /\ Begin(c, m).m = m
         /\ Begin(c, m).level = Level - 1 /\ Begin(c, m).tables[Level - 1] = root[m]
         /\ Begin(c, m).indexes = [l \in Levels |-> 0]
<1>1. root[m] \in Pages \cup {None} /\ Level - 1 \in Levels
  BY LevelsAre DEF TypeInv, TypeOK
<1>2. /\ NoOp \in OpType /\ NoOp.tables = [l \in Levels |-> None]
      /\ NoOp.indexes = [l \in Levels |-> 0]
  BY NoOpType
<1> QED BY <1>1, <1>2 DEF Begin, OpType

MapOp(m, x) == [Begin("map", m) EXCEPT !.vpn = x.vpn, !.leaf = Entry(x.ppn, x.mode)]

LEMMA MapBeginType ==
  ASSUME TypeInv, NEW m \in Mappers, NEW x \in Maps, NEW o, o = MapOp(m, x)
  PROVE  /\ o \in OpType /\ o.pc = "map" /\ o.m = m /\ o.level = Level - 1
         /\ o.tables[Level - 1] = root[m] /\ o.vpn = x.vpn /\ x.vpn \in Vpns
<1> DEFINE b == Begin("map", m)
           e == Entry(x.ppn, x.mode)
<1>1. /\ b \in OpType /\ b.pc = "map" /\ b.m = m /\ b.level = Level - 1
      /\ b.tables[Level - 1] = root[m]
  BY BeginType
<1>2. x.vpn \in Vpns /\ e \in Entries
  BY DEF Vpns, Entries
<1>3. o = [b EXCEPT !.vpn = x.vpn, !.leaf = e]
  BY DEF MapOp
<1> HIDE DEF b, e
<1> QED BY <1>1, <1>2, <1>3 DEF OpType

LEMMA DescendType ==
  ASSUME op \in OpType, op.level # 0, NEW p \in Pages \cup {None}
  PROVE  /\ Descend(p) \in OpType /\ Descend(p).pc = op.pc /\ Descend(p).m = op.m
         /\ Descend(p).level = op.level - 1 /\ Descend(p).vpn = op.vpn
         /\ Descend(p).leaf = op.leaf /\ Descend(p).indexes = op.indexes
         /\ Descend(p).tables[op.level - 1] = p
         /\ \A k \in Levels : k # op.level - 1 => Descend(p).tables[k] = op.tables[k]
<1>1. op.level - 1 \in Levels /\ op.tables \in [Levels -> Pages \cup {None}]
  BY LevelsAre DEF OpType
<1> DEFINE ts == [op.tables EXCEPT ![op.level - 1] = p]
<1>2. /\ ts \in [Levels -> Pages \cup {None}] /\ ts[op.level - 1] = p
      /\ \A k \in Levels : k # op.level - 1 => ts[k] = op.tables[k]
  BY <1>1
<1>3. Descend(p) = [op EXCEPT !.level = op.level - 1, !.tables = ts]
  BY DEF Descend, OpType
<1> HIDE DEF ts
<1> QED BY <1>1, <1>2, <1>3 DEF OpType

LEMMA NextIndexType ==
  ASSUME NEW o \in OpType, o.indexes[o.level] # PtesPerDir
  PROVE  /\ NextIndex(o) \in OpType /\ NextIndex(o).pc = o.pc /\ NextIndex(o).m = o.m
         /\ NextIndex(o).level = o.level /\ NextIndex(o).tables = o.tables
         /\ NextIndex(o).indexes[o.level] = o.indexes[o.level] + 1
         /\ \A k \in Levels : k # o.level => NextIndex(o).indexes[k] = o.indexes[k]
<1>1. o.level \in Levels /\ o.indexes \in [Levels -> 0..PtesPerDir]
  BY DEF OpType
<1>2. PtesPerDir \in Nat
  BY PageTableAssumption
<1> DEFINE ix == [o.indexes EXCEPT ![o.level] = o.indexes[o.level] + 1]
<1>3. /\ ix \in [Levels -> 0..PtesPerDir] /\ ix[o.level] = o.indexes[o.level] + 1
      /\ \A k \in Levels : k # o.level => ix[k] = o.indexes[k]
  BY <1>1, <1>2
<1>4. NextIndex(o) = [o EXCEPT !.indexes = ix]
  BY DEF NextIndex, OpType
<1> HIDE DEF ix
<1> QED BY <1>1, <1>3, <1>4 DEF OpType

Above == [op EXCEPT !.indexes[op.level] = 0, !.level = @ + 1]

(* Going up from level op.level to lev *)
LEMMA UpType ==
  ASSUME op \in OpType, NEW lev \in Levels, NEW o,
         \/ o = [op EXCEPT !.level = lev] /\ lev = 2 /\ op.level = 1 /\ op.indexes[1] = 0
         \/ o = Above /\ lev = op.level + 1,
         op.indexes[lev] # PtesPerDir, lev # op.level
  PROVE  /\ NextIndex(o) \in OpType /\ NextIndex(o).pc = op.pc /\ NextIndex(o).m = op.m
         /\ NextIndex(o).level = lev /\ NextIndex(o).tables = op.tables
         /\ NextIndex(o).indexes[lev] = op.indexes[lev] + 1
         /\ NextIndex(o).indexes[op.level] = 0
         /\ \A k \in Levels : k # lev /\ k # op.level =>
              NextIndex(o).indexes[k] = op.indexes[k]
<1>1. op.level \in Levels /\ op.indexes \in [Levels -> 0..PtesPerDir] /\ PtesPerDir \in Nat
  BY PageTableAssumption DEF OpType
<1>2. /\ o \in OpType /\ o.pc = op.pc /\ o.m = op.m /\ o.level = lev /\ o.tables = op.tables
      /\ o.indexes[op.level] = 0
      /\ \A k \in Levels : k # op.level => o.indexes[k] = op.indexes[k]
  <2>1. CASE o = [op EXCEPT !.level = lev] /\ lev = 2 /\ op.level = 1 /\ op.indexes[1] = 0
    BY <1>1, <2>1 DEF OpType
  <2>2. CASE o = Above /\ lev = op.level + 1
    <3> DEFINE ix == [op.indexes EXCEPT ![op.level] = 0]
    <3>1. /\ ix \in [Levels -> 0..PtesPerDir] /\ ix[op.level] = 0
          /\ \A k \in Levels : k # op.level => ix[k] = op.indexes[k]
      BY <1>1
    <3>2. o = [op EXCEPT !.indexes = ix, !.level = lev]
      BY <2>2 DEF OpType, Above
    <3> HIDE DEF ix
    <3> QED BY <1>1, <3>1, <3>2 DEF OpType
  <2> QED BY <2>1, <2>2
<1>3. o.indexes[o.level] # PtesPerDir
  BY <1>2
<1> QED BY <1>1, <1>2, <1>3, NextIndexType

-----------------------------------------------------------------------------
(* The mappers in Ms translate what T says. *)
Told(M, R, T, Ms) ==
    \A n \in Ms, v \in Vpns : Look(M, Way(M, R[n], v)[0], index(v, 0)) = T[n][v]

LEMMA ToldRoot ==
  ASSUME NEW M, NEW R, NEW F, Forest(M, R, F), NEW m \in Mappers, R[m] = None,
         NEW p, Fresh(F, p), NEW T, Told(M, R, T, Mappers)
  PROVE  Told([M EXCEPT ![p] = NoEntries], [R EXCEPT ![m] = p], T, Mappers)
<1> DEFINE N == [M EXCEPT ![p] = NoEntries]
           S == [R EXCEPT ![m] = p]
<1>0. p \in Pages /\ p # None /\ \A n \in Mappers, l \in Levels : p \notin F[n][l]
  BY NoneNoPage DEF Fresh
<1>1. /\ N[p] = NoEntries /\ \A u \in Pages : u # p => N[u] = M[u]
      /\ S[m] = p /\ \A n \in Mappers : n # m => S[n] = R[n]
  BY <1>0 DEF Forest, Memory
<1> HIDE DEF N, S
<1>2. \A n \in Mappers, k \in Levels : \A u \in F[n][k] : N[u] = M[u]
  BY <1>0, <1>1, ForestTree
<1>3. ASSUME NEW n \in Mappers, NEW v \in Vpns
      PROVE  Look(N, Way(N, S[n], v)[0], index(v, 0)) = T[n][v]
  <2> DEFINE w == Way(M, R[n], v)
  <2>0. Look(M, w[0], index(v, 0)) = T[n][v]
    BY DEF Told
  <2>1. WayDef(M, R[n], v, w)
    BY WayIs
  <2> HIDE DEF w
  <2>2. CASE n # m
    <3>0. \A l \in Levels \ {0} : \A u \in F[n][l] : N[u] = M[u]
      BY <1>2
    <3>1. WayDef(N, R[n], v, w)
      BY <2>1, <3>0, WaySame
    <3>2. Way(N, S[n], v) = w
      BY <1>1, <2>2, <3>1, WayIs
    <3>3. w[0] = None \/ w[0] \in F[n][0]
      BY <2>1, WayIn, LevelsAre
    <3>4. w[0] # None => N[w[0]] = M[w[0]]
      BY <1>2, <3>3, LevelsAre
    <3> QED BY <2>0, <3>2, <3>4 DEF Look
  <2>3. CASE n = m
    <3> DEFINE x == [k \in Levels |-> IF k = Level - 1 THEN p ELSE None]
    <3>1. w[0] = None
      <4>1. WayDef(M, None, v, w)
        BY <2>1, <2>3
      <4> QED BY <4>1, WayNone, LevelsAre
    <3>2. \A i \in Indexes : ~is_valid(N[p][i])
      BY <1>1, EmptyIs
    <3>3. WayDef(N, p, v, x)
      BY <1>0, <3>2, WayOfRoot
    <3>4. x[0] = None
      BY LevelsAre
    <3> HIDE DEF x
    <3>5. Way(N, S[n], v) = x
      BY <1>1, <2>3, <3>3, WayIs
    <3> QED BY <2>0, <3>1, <3>4, <3>5 DEF Look
  <2> QED BY <2>2, <2>3
<1>4. Told(N, S, T, Mappers)
  BY <1>3 DEF Told
<1> QED BY <1>4 DEF N, S

LEMMA ToldGrown ==
  ASSUME NEW M, NEW R, NEW F, Forest(M, R, F), NEW m \in Mappers,
         NEW l \in Levels, l # 0, NEW t \in F[m][l], NEW i \in Indexes,
         M[t][i] = Empty, NEW p, Fresh(F, p), NEW T, Told(M, R, T, Mappers)
  PROVE  Told(Grown(M, t, i, p), R, T, Mappers)
<1> DEFINE N == Grown(M, t, i, p)
<1>0. /\ p \in Pages /\ p # None /\ \A n \in Mappers, k \in Levels : p \notin F[n][k]
      /\ t \in Pages /\ p # t /\ M \in Memory /\ l - 1 \in Levels
  BY NoneNoPage, ForestTree, LevelsAre DEF Fresh, Forest
<1>1. N[p] = NoEntries /\ \A u \in Pages : u # p /\ u # t => N[u] = M[u]
  BY <1>0, GrownIs
<1>2. ASSUME NEW n \in Mappers, NEW u \in F[n][0] PROVE N[u] = M[u]
  <2>1. u \in Pages /\ u # p /\ u # t
    BY <1>0, ForestTree, LevelsAre DEF Forest
  <2> HIDE DEF N
  <2> QED BY <1>1, <2>1
<1>3. ASSUME NEW n \in Mappers, NEW v \in Vpns
      PROVE  Look(N, Way(N, R[n], v)[0], index(v, 0)) = T[n][v]
  <2> DEFINE w == Way(M, R[n], v)
  <2>0. Look(M, w[0], index(v, 0)) = T[n][v] /\ index(v, 0) \in Indexes
    BY IndexIn, LevelsAre DEF Told
  <2>1. WayDef(M, R[n], v, w)
    BY WayIs
  <2> HIDE DEF w
  <2>2. w[0] = None \/ w[0] \in F[n][0]
    BY <2>1, WayIn, LevelsAre
  <2>3. w = [k \in Levels |-> w[k]]
    BY <2>1 DEF WayDef
  <2>4. CASE ~(n = m /\ w[l] = t /\ index(v, l) = i)
    <3>1. WayDef(N, R[n], v, w)
      BY <2>1, <2>4, WayGrown
    <3> HIDE DEF N
    <3>2. Way(N, R[n], v) = w
      BY <3>1, WayIs
    <3> QED BY <1>2, <2>0, <2>2, <3>2 DEF Look
  <2>5. CASE n = m /\ w[l] = t /\ index(v, l) = i
    <3>1. WayDef(N, R[n], v, Longer(w, l, p)) /\ w[l - 1] = None
      BY <2>1, <2>5, WayGrown
    <3> HIDE DEF N
    <3>2. Way(N, R[n], v) = Longer(w, l, p)
      BY <3>1, WayIs
    <3>3. CASE l - 1 = 0
      <4>1. Longer(w, l, p)[0] = p /\ w[0] = None
        BY <1>0, <2>3, <3>1, <3>3 DEF Longer
      <4>2. Look(N, p, index(v, 0)) = Empty
        BY <1>0, <1>1, <2>0, EmptyIs DEF Look
      <4> QED BY <2>0, <3>2, <4>1, <4>2 DEF Look
    <3>4. CASE l - 1 # 0
      <4>1. Longer(w, l, p)[0] = w[0]
        BY <2>3, <3>4, LevelsAre DEF Longer
      <4> QED BY <1>2, <2>0, <2>2, <3>2, <4>1 DEF Look
    <3> QED BY <3>3, <3>4
  <2> QED BY <2>4, <2>5
<1> QED BY <1>3 DEF Told

LEMMA ToldLeaf ==
  ASSUME NEW M, NEW R, NEW F, Forest(M, R, F), NEW m \in Mappers, NEW v \in Vpns,
         NEW t, t = Way(M, R[m], v)[0], t # None, NEW e \in Entries,
         NEW T \in [Mappers -> [Vpns -> Entries]], Told(M, R, T, Mappers)
  PROVE  /\ t \in F[m][0] /\ index(v, 0) \in Indexes
         /\ Told([M EXCEPT ![t][index(v, 0)] = e], R, [T EXCEPT ![m][v] = e], Mappers)
<1> DEFINE i == index(v, 0)
           N == [M EXCEPT ![t][i] = e]
           U == [T EXCEPT ![m][v] = e]
           y == Way(M, R[m], v)
<1>0. WayDef(M, R[m], v, y) /\ y[0] = t
  BY WayIs
<1> HIDE DEF y
<1>1. t \in F[m][0] /\ i \in Indexes
  BY <1>0, WayIn, IndexIn, LevelsAre
<1>2. t \in Pages /\ M \in Memory
  BY <1>1, ForestTree, LevelsAre DEF Forest
<1> HIDE DEF i
<1>3. /\ N[t][i] = e /\ \A j \in Indexes : j # i => N[t][j] = M[t][j]
      /\ \A u \in Pages : u # t => N[u] = M[u]
  BY <1>1, <1>2 DEF Memory
<1>4. /\ U[m][v] = e
      /\ \A n \in Mappers, u \in Vpns : <<n, u>> # <<m, v>> => U[n][u] = T[n][u]
  OBVIOUS
<1> HIDE DEF N, U
<1>5. ASSUME NEW n \in Mappers, NEW l \in Levels \ {0}, NEW u \in F[n][l] PROVE N[u] = M[u]
  <2>1. u \in Pages /\ u # t
    BY <1>1, ForestTree, LevelsAre DEF Forest
  <2> QED BY <1>3, <2>1
<1>6. ASSUME NEW n \in Mappers, NEW u \in Vpns
      PROVE  Look(N, Way(N, R[n], u)[0], index(u, 0)) = U[n][u]
  <2> DEFINE w == Way(M, R[n], u)
  <2>0. Look(M, w[0], index(u, 0)) = T[n][u] /\ index(u, 0) \in Indexes
    BY IndexIn, LevelsAre DEF Told
  <2>1. WayDef(M, R[n], u, w)
    BY WayIs
  <2> HIDE DEF w
  <2>2. WayDef(N, R[n], u, w)
    BY <1>5, <2>1, WaySame
  <2>3. Way(N, R[n], u) = w
    BY <2>2, WayIs
  <2>4. w[0] = None \/ w[0] \in Pages
    BY <2>1, WayIn, ForestTree, LevelsAre
  <2>5. CASE w[0] = t /\ index(u, 0) = i
    <3>1. n = m /\ u = v
      BY <1>0, <2>1, <2>5, WaysMeet DEF i
    <3> QED BY <1>3, <1>4, <2>3, <2>5, <3>1 DEF Look
  <2>6. CASE ~(w[0] = t /\ index(u, 0) = i)
    <3>1. <<n, u>> # <<m, v>>
      <4>1. ASSUME n = m, u = v PROVE FALSE
        <5>1. w = y
          BY <4>1, <1>0, <2>1, WayUnique
        <5> QED BY <1>0, <2>6, <4>1, <5>1 DEF i
      <4> QED BY <4>1
    <3>2. w[0] # None => N[w[0]][index(u, 0)] = M[w[0]][index(u, 0)]
      BY <1>3, <2>0, <2>4, <2>6
    <3> QED BY <1>4, <2>0, <2>3, <3>1, <3>2 DEF Look
  <2> QED BY <2>5, <2>6
<1>7. Told(N, R, U, Mappers)
  BY <1>6 DEF Told
<1> QED BY <1>1, <1>7 DEF N, U, i

LEMMA ToldCut ==
  ASSUME NEW M, NEW R \in [Mappers -> Pages \cup {None}], NEW m \in Mappers,
         NEW T \in [Mappers -> [Vpns -> Entries]], Told(M, R, T, Mappers \ {m})
  PROVE  Told(M, [R EXCEPT ![m] = None], [T EXCEPT ![m] = [v \in Vpns |-> Empty]], Mappers)
<1> DEFINE S == [R EXCEPT ![m] = None]
           U == [T EXCEPT ![m] = [v \in Vpns |-> Empty]]
<1>1. /\ S[m] = None /\ \A n \in Mappers : n # m => S[n] = R[n] /\ U[n] = T[n]
      /\ \A v \in Vpns : U[m][v] = Empty
  OBVIOUS
<1> HIDE DEF S, U
<1>2. ASSUME NEW v \in Vpns PROVE Way(M, None, v)[0] = None
  BY WayIs, WayNone, LevelsAre
<1>3. Told(M, S, U, Mappers)
  BY <1>1, <1>2 DEF Told, Look
<1> QED BY <1>3 DEF S, U

-----------------------------------------------------------------------------
(* The state of destroy.  L has, level by level, the tables that destroy    *)
(* has still to pass: the way from the root to the current table, and what  *)
(* is below an entry that the loop has not reached.                        *)
Seen(t, k, i) == k >= op.level /\ t = op.tables[k] /\ i < op.indexes[k]

Path ==
    /\ op.m \in Mappers /\ root[op.m] # None /\ op.level \in Levels \ {0}
    /\ op.tables[Level - 1] = root[op.m]
    /\ \A k \in Levels : k >= op.level /\ k # Level - 1 =>
         /\ op.indexes[k + 1] \in Indexes
         /\ is_valid(mem[op.tables[k + 1]][op.indexes[k + 1]])
         /\ op.tables[k] = mem[op.tables[k + 1]][op.indexes[k + 1]].page
    /\ \A k \in Levels : k < op.level \/ k = 1 => op.indexes[k] = 0

Below(L, k, p) ==
    \E t \in L[k + 1], i \in Indexes :
      is_valid(mem[t][i]) /\ ~Seen(t, k + 1, i) /\ p = mem[t][i].page

(* What destroy does not free *)
Spared(F, p) ==
    p \in Data \cup leaked \/ \E n \in Mappers \ {op.m}, l \in Levels : p \in F[n][l]

Ahead(F, L) ==
    /\ L \in [Levels -> SUBSET Pages]
    /\ \A k \in Levels : L[k] \subseteq F[op.m][k]
    /\ \A k \in Levels : k >= op.level => op.tables[k] \in L[k]
    /\ L[Level - 1] = {root[op.m]}
    /\ \A k \in Levels : k # Level - 1 => \A p : p \in L[k] <=> Below(L, k, p)
    /\ F[op.m][1] \subseteq leaked
    /\ \A p : p \in used <=> Spared(F, p) \/ \E l \in Levels : p \in L[l]

Dying == IF op.pc = "destroy" THEN {op.m} ELSE {}

MapOK ==
    /\ op.m \in Mappers /\ op.vpn \in Vpns /\ op.tables[op.level] # None
    /\ op.tables[op.level] = Way(mem, root[op.m], op.vpn)[op.level]

UsedOK(F) ==
    \A p : p \in used <=>
      p \in Data \cup leaked \/ \E n \in Mappers, l \in Levels : p \in F[n][l]

Good(F) ==
    /\ Forest(mem, root, F)
    /\ Told(mem, root, told, Mappers \ Dying)
    /\ \A m \in Mappers, l \in Levels : (m \in Dying => l # 1) => leaked \cap F[m][l] = {}
    /\ op.pc = "map" => MapOK
    /\ op.pc = "destroy" => Path /\ \E L : Ahead(F, L)
    /\ op.pc # "destroy" => UsedOK(F)

(* The inductive invariant *)
TableInv ==
    /\ TypeInv
    /\ dangling => op.pc = "idle"
    /\ ~dangling => \E F : Good(F)

(* What a step must keep for the types *)
LEMMA TypedNext ==
  ASSUME used' \subseteq Pages \cup Data, mem' \in Memory,
         root' \in [Mappers -> Pages \cup {None}], op' \in OpType,
         told' \in [Mappers -> [Vpns -> Entries]], leaked' \subseteq Pages,
         dangling' \in BOOLEAN
  PROVE  TypeInv'
BY DEF TypeInv, TypeOK, OpType, Memory

LEMMA TypedNow ==
  ASSUME TypeInv
  PROVE  /\ used \subseteq Pages \cup Data /\ mem \in Memory
         /\ root \in [Mappers -> Pages \cup {None}] /\ op \in OpType
         /\ told \in [Mappers -> [Vpns -> Entries]] /\ leaked \subseteq Pages
         /\ dangling \in BOOLEAN
BY DEF TypeInv, TypeOK, Memory

LEMMA TableInit == Init => TableInv
<1> SUFFICES ASSUME Init PROVE TableInv
  OBVIOUS
<1> DEFINE none == [k \in Levels |-> {}]
           F == [m \in Mappers |-> none]
<1>1. /\ used = Data /\ leaked = {} /\ op = NoOp /\ dangling = FALSE
      /\ mem = [p \in Pages |-> NoEntries] /\ root = [m \in Mappers |-> None]
      /\ told = [m \in Mappers |-> [v \in Vpns |-> Empty]]
  BY DEF Init
<1>2. NoOp \in OpType /\ NoOp.pc = "idle" /\ Empty \in Entries
      /\ NoEntries \in [Indexes -> Entries]
  BY NoOpType, EmptyIs
<1>3. mem \in Memory /\ root \in [Mappers -> Pages \cup {None}]
      /\ told \in [Mappers -> [Vpns -> Entries]]
  BY <1>1, <1>2 DEF Memory
<1>4. TypeInv
  BY <1>1, <1>2, <1>3 DEF TypeInv, TypeOK, OpType, Memory
<1>5. /\ F \in [Mappers -> [Levels -> SUBSET Pages]]
      /\ \A m \in Mappers : F[m] = none
      /\ none \in [Levels -> SUBSET Pages] /\ \A k \in Levels : none[k] = {}
  OBVIOUS
<1> HIDE DEF F, none
<1>6. TreeDef(mem, None, none)
  <2>1. Kids(mem, {}) = {}
    BY KidsAre
  <2>2. \A k \in Levels : k # Level - 1 => none[k] = Kids(mem, none[k + 1])
    BY <1>5, <2>1, LevelsAre
  <2>3. none[Level - 1] = RootSet(None)
    BY <1>5, LevelsAre DEF RootSet
  <2> QED BY <1>5, <2>2, <2>3, TreeFrom
<1>7. \A m \in Mappers, k \in Levels : F[m][k] = {}
  BY <1>5
<1>8. \A m \in Mappers : TreeDef(mem, root[m], F[m])
  BY <1>1, <1>5, <1>6
<1>9. Forest(mem, root, F)
  BY <1>3, <1>5, <1>7, <1>8 DEF Forest
<1>10. Told(mem, root, told, Mappers)
  <2>1. ASSUME NEW v \in Vpns PROVE Way(mem, None, v)[0] = None
    BY WayIs, WayNone, LevelsAre
  <2> QED BY <1>1, <2>1 DEF Told, Look
<1>11. Good(F)
  BY <1>1, <1>2, <1>7, <1>9, <1>10 DEF Good, Dying, UsedOK
<1> QED BY <1>1, <1>4, <1>11 DEF TableInv

-----------------------------------------------------------------------------
(* A step that only moves on in new or map_4k *)
LEMMA KeptGood ==
  ASSUME NEW F, Good(F), op.pc # "destroy", op'.pc # "destroy",
         UNCHANGED <<used, mem, root, told, leaked>>, op'.pc = "map" => MapOK'
  PROVE  Good(F)'
<1>1. Dying = {} /\ Dying' = {}
  BY DEF Dying
<1>2. UsedOK(F)'
  BY DEF Good, UsedOK
<1> QED BY <1>1, <1>2 DEF Good

(* A step that adds the page p to the trees, as a table of level l of m *)
Grew(F, G, m, l, p) ==
    \A n \in Mappers, k \in Levels :
      G[n][k] = IF n = m /\ k = l THEN F[n][k] \cup {p} ELSE F[n][k]

LEMMA GrownGood ==
  ASSUME NEW F, Good(F), NEW G, NEW m \in Mappers, NEW l \in Levels, NEW p \in Pages,
         p \notin used, used' = used \cup {p}, leaked' = leaked, Grew(F, G, m, l, p),
         Forest(mem', root', G), Told(mem', root', told', Mappers),
         op.pc # "destroy", op'.pc # "destroy", op'.pc = "map" => MapOK'
  PROVE  Good(G)'
<1>1. Dying = {} /\ Dying' = {}
  BY DEF Dying
<1>2. \A q : q \in used <=>
        q \in Data \cup leaked \/ \E n \in Mappers, k \in Levels : q \in F[n][k]
  BY DEF Good, UsedOK
<1>3. \A q : q \in used' <=>
        q \in Data \cup leaked \/ \E n \in Mappers, k \in Levels : q \in G[n][k]
  <2>1. p \in G[m][l] /\ \A n \in Mappers, k \in Levels : F[n][k] \subseteq G[n][k]
    BY DEF Grew
  <2>2. \A n \in Mappers, k \in Levels : \A q \in G[n][k] : q = p \/ q \in F[n][k]
    BY DEF Grew
  <2> QED BY <1>2, <2>1, <2>2
<1>4. UsedOK(G)'
  BY <1>3 DEF UsedOK
<1>5. p \notin leaked
  BY <1>2
<1>6. \A n \in Mappers, k \in Levels : leaked' \cap G[n][k] = {}
  BY <1>1, <1>5 DEF Good, Grew
<1> QED BY <1>1, <1>4, <1>6 DEF Good

LEMMA FreshPage ==
  ASSUME NEW F, Good(F), op.pc # "destroy", NEW p \in Pages \ used
  PROVE  Fresh(F, p)
BY DEF Good, UsedOK, Fresh

LEMMA NewStep ==
  ASSUME TypeInv, NEW F, Good(F), ~dangling, NEW m \in Mappers, new(m)
  PROVE  TableInv'
<1> USE TypedNow
<1>0. /\ op = NoOp /\ root[m] = None /\ UNCHANGED <<told, leaked, dangling>>
      /\ op.pc = "idle"
  BY NoOpType DEF new, Ready
<1>1. CASE Oom /\ op' = [NoOp EXCEPT !.pc = "oom"] /\ UNCHANGED <<used, mem, root>>
  <2>1. op' \in OpType /\ op'.pc = "oom"
    BY <1>1, NoOpType
  <2>2. TypeInv'
    BY <1>0, <1>1, <2>1, TypedNext
  <2>3. Good(F)'
    BY <1>0, <1>1, <2>1, KeptGood
  <2> QED BY <1>0, <2>2, <2>3 DEF TableInv
<1>2. ASSUME NEW p \in Pages \ used, used' = used \cup {p},
             mem' = [mem EXCEPT ![p] = NewTable(p)], root' = [root EXCEPT ![m] = p], op' = op
      PROVE  TableInv'
  <2> DEFINE G == [F EXCEPT ![m][Level - 1] = {p}]
  <2>1. Forest(mem, root, F) /\ Told(mem, root, told, Mappers) /\ Fresh(F, p)
    BY <1>0, FreshPage DEF Good, Dying
  <2>2. mem' = [mem EXCEPT ![p] = NoEntries]
    BY <1>2 DEF NewTable
  <2>3. Forest(mem', root', G)
    <3>1. Forest([mem EXCEPT ![p] = NoEntries], [root EXCEPT ![m] = p], G)
      BY <1>0, <2>1, GrowRoot
    <3> HIDE DEF G
    <3> QED BY <1>2, <2>2, <3>1
  <2>4. Told(mem', root', told', Mappers)
    <3>1. Told([mem EXCEPT ![p] = NoEntries], [root EXCEPT ![m] = p], told, Mappers)
      BY <1>0, <2>1, ToldRoot
    <3> QED BY <1>0, <1>2, <2>2, <3>1
  <2>5. Grew(F, G, m, Level - 1, p)
    <3>1. F[m][Level - 1] = {}
      BY <1>0, <2>1, ForestTree DEF RootSet
    <3>2. F \in [Mappers -> [Levels -> SUBSET Pages]] /\ Level - 1 \in Levels
      BY <2>1, LevelsAre DEF Forest
    <3> QED BY <3>1, <3>2 DEF Grew
  <2> HIDE DEF G
  <2>6. Good(G)'
    <3>1. /\ op.pc # "destroy" /\ op'.pc # "destroy" /\ op'.pc # "map"
          /\ p \in Pages /\ p \notin used /\ Level - 1 \in Levels
      BY <1>0, <1>2, LevelsAre
    <3> QED BY <1>0, <1>2, <2>3, <2>4, <2>5, <3>1, GrownGood
  <2>7. TypeInv'
    BY <1>0, <1>2, <2>3, TypedNext DEF Forest
  <2> QED BY <1>0, <2>6, <2>7 DEF TableInv
<1> QED BY <1>1, <1>2 DEF new

LEMMA MapStep ==
  ASSUME TypeInv, NEW F, Good(F), ~dangling, NEW m \in Mappers, NEW x \in Maps,
         map_4k(m, x)
  PROVE  TableInv'
<1> USE TypedNow
<1>0. /\ op.pc = "idle" /\ root[m] # None
      /\ UNCHANGED <<used, mem, root, told, leaked, dangling>>
  BY NoOpType DEF map_4k, Ready
<1>1. /\ op' \in OpType /\ op'.pc = "map" /\ op'.m = m /\ op'.level = Level - 1
      /\ op'.tables[Level - 1] = root[m] /\ op'.vpn = x.vpn /\ x.vpn \in Vpns
  <2>1. op' = MapOp(m, x)
    BY DEF map_4k, MapOp
  <2> QED BY <2>1, MapBeginType
<1>2. Way(mem, root[m], x.vpn)[Level - 1] = root[m]
  BY WayIs, WayEqs
<1>3. MapOK'
  BY <1>0, <1>1, <1>2 DEF MapOK
<1>4. Good(F)'
  BY <1>0, <1>1, <1>3, KeptGood
<1>5. TypeInv'
  BY <1>0, <1>1, TypedNext
<1> QED BY <1>0, <1>4, <1>5 DEF TableInv

(* Where map_4k is *)
LEMMA MapAt ==
  ASSUME TypeInv, NEW F, Good(F), op.pc = "map"
  PROVE  /\ op.m \in Mappers /\ op.vpn \in Vpns /\ op.level \in Levels
         /\ MapTable \in F[op.m][op.level] /\ MapTable \in Pages /\ MapTable # None
         /\ MapIndex \in Indexes /\ MapIndex = index(op.vpn, op.level)
         /\ MapTable = Way(mem, root[op.m], op.vpn)[op.level]
         /\ Forest(mem, root, F) /\ Told(mem, root, told, Mappers)
<1>1. /\ op.m \in Mappers /\ op.vpn \in Vpns /\ op.level \in Levels /\ MapTable # None
      /\ MapTable = Way(mem, root[op.m], op.vpn)[op.level]
      /\ Forest(mem, root, F) /\ Told(mem, root, told, Mappers)
  BY TypedNow DEF Good, MapOK, MapTable, OpType, Dying
<1>2. WayDef(mem, root[op.m], op.vpn, Way(mem, root[op.m], op.vpn))
  BY WayIs
<1>3. MapTable \in F[op.m][op.level]
  BY <1>1, <1>2, WayIn
<1>4. MapTable \in Pages
  BY <1>1, <1>3, ForestTree
<1>5. MapIndex \in Indexes
  BY <1>1, IndexIn DEF MapIndex
<1> QED BY <1>1, <1>3, <1>4, <1>5 DEF MapIndex

LEMMA FollowStep ==
  ASSUME TypeInv, NEW F, Good(F), ~dangling, map_follow
  PROVE  TableInv'
<1> USE TypedNow
<1> DEFINE q == mem[MapTable][MapIndex].page
           w == Way(mem, root[op.m], op.vpn)
<1>0. /\ op.pc = "map" /\ op.level # 0 /\ is_valid(mem[MapTable][MapIndex])
      /\ op' = Descend(q) /\ UNCHANGED <<used, mem, root, told, leaked, dangling>>
  BY LevelsAre DEF map_follow, OpType
<1>1. /\ op.m \in Mappers /\ op.vpn \in Vpns /\ op.level \in Levels
      /\ MapTable \in F[op.m][op.level] /\ MapTable # None
      /\ MapIndex \in Indexes /\ MapIndex = index(op.vpn, op.level)
      /\ MapTable = w[op.level] /\ Forest(mem, root, F)
  BY <1>0, MapAt
<1>2. q \in Pages /\ mem[MapTable][MapIndex].mode = {}
  <2> DEFINE m == op.m
             l == op.level
             t == MapTable
             i == MapIndex
  <2>1. /\ m \in Mappers /\ l \in Levels /\ l # 0 /\ t \in F[m][l] /\ i \in Indexes
        /\ is_valid(mem[t][i]) /\ Forest(mem, root, F)
    BY <1>0, <1>1
  <2> HIDE DEF m, l, t, i
  <2>2. mem[t][i].page \in Pages /\ mem[t][i].mode = {}
    BY <2>1, ChildIn
  <2> QED BY <2>2 DEF t, i
<1>3. w[op.level - 1] = q
  <2>1. /\ op.level - 1 \in Levels /\ op.level - 1 # Level - 1
        /\ (op.level - 1) + 1 = op.level
    BY <1>0, <1>1, LevelsAre
  <2>2. w[op.level - 1] = Step(mem, w[op.level], index(op.vpn, op.level))
    BY <2>1, WayIs, WayEqs
  <2> QED BY <1>0, <1>1, <1>2, <2>2 DEF Step
<1>4. /\ op' \in OpType /\ op'.pc = "map" /\ op'.m = op.m /\ op'.vpn = op.vpn
      /\ op'.level = op.level - 1 /\ op'.tables[op'.level] = q
  BY <1>0, <1>2, DescendType
<1>5. MapOK'
  BY <1>0, <1>1, <1>2, <1>3, <1>4, NoneNoPage DEF MapOK
<1>6. Good(F)'
  BY <1>0, <1>4, <1>5, KeptGood
<1>7. TypeInv'
  BY <1>0, <1>4, TypedNext
<1> QED BY <1>0, <1>6, <1>7 DEF TableInv

LEMMA NewTableStep ==
  ASSUME TypeInv, NEW F, Good(F), ~dangling, map_new_table
  PROVE  TableInv'
<1> USE TypedNow
<1>0. PICK m, l, t, i, v :
        m = op.m /\ l = op.level /\ t = MapTable /\ i = MapIndex /\ v = op.vpn
  OBVIOUS
<1>1. /\ op.pc = "map" /\ l # 0 /\ l \in Levels /\ mem[t][i] = Empty
      /\ UNCHANGED <<root, told, leaked, dangling>>
  BY <1>0, LevelsAre DEF map_new_table, OpType, is_valid
<1>2. /\ m \in Mappers /\ v \in Vpns /\ t \in F[m][l] /\ i \in Indexes
      /\ i = index(v, l) /\ t = Way(mem, root[m], v)[l]
      /\ Forest(mem, root, F) /\ Told(mem, root, told, Mappers) /\ t \in Pages
  BY <1>0, <1>1, MapAt
<1>3. CASE Oom /\ op' = [NoOp EXCEPT !.pc = "oom"] /\ UNCHANGED <<used, mem>>
  <2>1. op' \in OpType /\ op'.pc = "oom"
    BY <1>3, NoOpType
  <2>2. TypeInv'
    BY <1>1, <1>3, <2>1, TypedNext
  <2>3. Good(F)'
    BY <1>1, <1>3, <2>1, KeptGood
  <2> QED BY <1>1, <2>2, <2>3 DEF TableInv
<1>4. ASSUME NEW p \in Pages \ used, used' = used \cup {p}, mem' = WithSubTable(p),
             op' = Descend(p)
      PROVE  TableInv'
  <2> DEFINE G == [F EXCEPT ![m][l - 1] = @ \cup {p}]
             w == Way(mem, root[m], v)
  <2>1. Fresh(F, p) /\ p \in Pages /\ p \notin used
    BY <1>1, FreshPage
  <2>2. mem' = Grown(mem, t, i, p)
    BY <1>0, <1>4 DEF WithSubTable, Grown, NewTable
  <2>3. ~is_valid(mem[t][i])
    BY <1>1, EmptyIs
  <2>4. Forest(mem', root', G)
    <3>1. Forest(Grown(mem, t, i, p), root, G)
      BY <1>1, <1>2, <2>1, <2>3, GrowTable
    <3> HIDE DEF G
    <3> QED BY <1>1, <2>2, <3>1
  <2>5. Told(mem', root', told', Mappers)
    <3>1. Told(Grown(mem, t, i, p), root, told, Mappers)
      BY <1>1, <1>2, <2>1, ToldGrown
    <3> QED BY <1>1, <2>2, <3>1
  <2>6. Grew(F, G, m, l - 1, p) /\ l - 1 \in Levels
    <3>1. F \in [Mappers -> [Levels -> SUBSET Pages]] /\ l - 1 \in Levels
      BY <1>1, <1>2, LevelsAre DEF Forest
    <3> QED BY <1>2, <3>1 DEF Grew
  <2> HIDE DEF G
  <2>7. /\ op' \in OpType /\ op'.pc = "map" /\ op'.m = m /\ op'.vpn = v
        /\ op'.level = l - 1 /\ op'.tables[l - 1] = p
    BY <1>0, <1>1, <1>4, DescendType
  <2>8. WayDef(mem, root[m], v, w) /\ w[l] = t
    BY <1>2, WayIs
  <2> HIDE DEF w
  <2>9. WayDef(Grown(mem, t, i, p), root[m], v, Longer(w, l, p))
    BY <1>1, <1>2, <2>1, <2>8, WayGrown
  <2>10. Way(mem', root'[m], v) = Longer(w, l, p)
    BY <1>1, <2>2, <2>9, WayIs
  <2>11. Longer(w, l, p)[l - 1] = p
    <3>1. w = [k \in Levels |-> w[k]]
      BY <2>8 DEF WayDef
    <3> QED BY <2>6, <3>1 DEF Longer
  <2>12. MapOK'
    BY <1>2, <2>1, <2>7, <2>10, <2>11, NoneNoPage DEF MapOK
  <2>13. Good(G)'
    <3>1. op.pc # "destroy" /\ op'.pc # "destroy" /\ leaked' = leaked
      BY <1>1, <2>7
    <3> QED BY <1>2, <1>4, <2>1, <2>4, <2>5, <2>6, <2>12, <3>1, GrownGood
  <2>14. TypeInv'
    BY <1>1, <1>4, <2>4, <2>7, TypedNext DEF Forest
  <2> QED BY <1>1, <2>13, <2>14 DEF TableInv
<1> QED BY <1>3, <1>4 DEF map_new_table

(* A leaf entry of (m, v) becomes e, in map_4k or in unmap_4k *)
LEMMA LeafGood ==
  ASSUME TypeInv, NEW F, Good(F), op.pc # "destroy", NEW m \in Mappers, NEW v \in Vpns,
         NEW t, t = Way(mem, root[m], v)[0], t # None, NEW e \in Entries,
         mem' = [mem EXCEPT ![t][index(v, 0)] = e],
         told' = [told EXCEPT ![m][v] = e],
         UNCHANGED <<used, root, leaked>>, op'.pc = "idle"
  PROVE  Good(F)'
<1> USE TypedNow
<1>1. Forest(mem, root, F) /\ Told(mem, root, told, Mappers)
  BY DEF Good, Dying
<1>2. /\ t \in F[m][0] /\ index(v, 0) \in Indexes
      /\ Told([mem EXCEPT ![t][index(v, 0)] = e], root, [told EXCEPT ![m][v] = e], Mappers)
  BY <1>1, ToldLeaf
<1>3. Told(mem', root', told', Mappers)
  BY <1>2
<1>4. Forest(mem', root', F)
  <2> DEFINE i == index(v, 0)
  <2>1. i \in Indexes /\ mem' = [mem EXCEPT ![t][i] = e]
    BY <1>2
  <2> HIDE DEF i
  <2>2. Forest([mem EXCEPT ![t][i] = e], root, F)
    BY <1>1, <1>2, <2>1, WriteLeaf
  <2> QED BY <2>1, <2>2
<1>5. Dying = {} /\ Dying' = {}
  BY DEF Dying
<1>6. UsedOK(F)'
  BY DEF Good, UsedOK
<1> QED BY <1>3, <1>4, <1>5, <1>6 DEF Good

LEMMA LeafStep ==
  ASSUME TypeInv, NEW F, Good(F), ~dangling, map_leaf
  PROVE  TableInv'
<1> USE TypedNow
<1>0. PICK m, t, v, e : m = op.m /\ t = MapTable /\ v = op.vpn /\ e = op.leaf
  OBVIOUS
<1>1. /\ op.pc = "map" /\ op.level = 0 /\ op' = NoOp /\ e \in Entries
      /\ UNCHANGED <<used, root, leaked, dangling>>
      /\ told' = [told EXCEPT ![m][v] = e]
  BY <1>0 DEF map_leaf, OpType
<1>2. /\ m \in Mappers /\ v \in Vpns /\ MapIndex = index(v, 0) /\ t # None
      /\ t = Way(mem, root[m], v)[0]
  BY <1>0, <1>1, MapAt
<1>3. mem' = [mem EXCEPT ![t][index(v, 0)] = e]
  BY <1>0, <1>2 DEF map_leaf
<1>4. op' \in OpType /\ op'.pc = "idle"
  BY <1>1, NoOpType
<1>5. Good(F)'
  BY <1>1, <1>2, <1>3, <1>4, LeafGood
<1>6. TypeInv'
  <2>1. mem' \in Memory
    BY <1>5 DEF Good, Forest
  <2>2. told' \in [Mappers -> [Vpns -> Entries]]
    BY <1>1, <1>2
  <2> QED BY <1>1, <1>4, <2>1, <2>2, TypedNext
<1> QED BY <1>1, <1>5, <1>6 DEF TableInv

LEMMA UnmapStep ==
  ASSUME TypeInv, NEW F, Good(F), ~dangling, NEW m \in Mappers, NEW v \in Vpns,
         unmap_4k(m, v)
  PROVE  TableInv'
<1> USE TypedNow
<1>0. PICK t : t = Way(mem, root[m], v)[0]
  OBVIOUS
<1>1. /\ op = NoOp /\ told[m][v] # Empty /\ UNCHANGED <<root, op, leaked>>
      /\ told' = [told EXCEPT ![m][v] = Empty] /\ op' = op
  BY DEF unmap_4k, Ready
<1>2. mem' = [mem EXCEPT ![t][index(v, 0)] = Empty]
  BY <1>0, TableOfWay DEF unmap_4k
<1>3. PICK freed : /\ used' = used \ {TableOf(m, v, l) : l \in freed}
                   /\ dangling' = (freed # {})
  BY Zenon DEF unmap_4k
<1>4. op.pc = "idle" /\ Empty \in Entries
  BY <1>1, NoOpType, EmptyIs
<1>5. t # None
  <2>1. Told(mem, root, told, Mappers)
    BY <1>4 DEF Good, Dying
  <2>2. Look(mem, t, index(v, 0)) = told[m][v]
    BY <1>0, <2>1 DEF Told
  <2> QED BY <1>1, <2>2 DEF Look
<1>6. TypeInv'
  <2>1. Forest(mem, root, F) /\ Told(mem, root, told, Mappers)
    BY <1>4 DEF Good, Dying
  <2>2. t \in F[m][0] /\ index(v, 0) \in Indexes
    BY <1>0, <1>4, <1>5, <2>1, ToldLeaf
  <2>3. t \in Pages
    BY <2>1, <2>2, ForestTree, LevelsAre
  <2> DEFINE i == index(v, 0)
  <2>4. i \in Indexes /\ mem' = [mem EXCEPT ![t][i] = Empty]
    BY <1>2, <2>2
  <2> HIDE DEF i
  <2>5. mem' \in Memory
    BY <1>4, <2>3, <2>4 DEF Memory
  <2>6. told' \in [Mappers -> [Vpns -> Entries]]
    BY <1>1, <1>4
  <2> QED BY <1>1, <1>3, <2>5, <2>6, TypedNext
<1>7. ASSUME ~dangling' PROVE Good(F)'
  <2>1. used' = used
    BY <1>3, <1>7
  <2> QED BY <1>0, <1>1, <1>2, <1>4, <1>5, <2>1, LeafGood
<1> QED BY <1>1, <1>4, <1>6, <1>7 DEF TableInv

-----------------------------------------------------------------------------
(* destroy *)
LEMMA DestroyBegins ==
  ASSUME TypeInv, NEW F, Good(F), ~dangling, NEW m \in Mappers, destroy(m)
  PROVE  TableInv'
<1> USE TypedNow
<1>0. /\ op.pc = "idle" /\ root[m] # None /\ op' = Begin("destroy", m)
      /\ leaked' = leaked \cup TablesAt(m, 1)
      /\ UNCHANGED <<used, mem, root, told, dangling>>
  BY NoOpType DEF destroy, Ready
<1>1. /\ Forest(mem, root, F) /\ Told(mem, root, told, Mappers) /\ Dying = {}
      /\ \A n \in Mappers, l \in Levels : leaked \cap F[n][l] = {}
  BY <1>0 DEF Good, Dying
<1>2. leaked' = leaked \cup F[m][1]
  <2>1. Tree(mem, root[m]) = F[m]
    BY <1>1, TreeIs DEF Forest
  <2> QED BY <1>0, <2>1, TablesAtTree
<1>3. /\ op' \in OpType /\ op'.pc = "destroy" /\ op'.m = m /\ op'.level = Level - 1
      /\ op'.tables[Level - 1] = root[m] /\ \A k \in Levels : op'.indexes[k] = 0
  BY <1>0, BeginType
<1>4. /\ F[m][Level - 1] = {root[m]} /\ F[m][1] \subseteq Pages
      /\ \A k \in Levels : k # Level - 1 => F[m][k] = Kids(mem, F[m][k + 1])
      /\ F[m] \in [Levels -> SUBSET Pages]
  <2>1. F[m][Level - 1] = RootSet(root[m])
    BY <1>1, ForestTree
  <2>2. F[m][Level - 1] = {root[m]}
    BY <1>0, <2>1 DEF RootSet
  <2>3. F[m] \in [Levels -> SUBSET Pages]
    BY <1>1 DEF Forest
  <2>4. \A k \in Levels : k # Level - 1 => F[m][k] = Kids(mem, F[m][k + 1])
    BY <1>1, ForestTree
  <2> QED BY <2>2, <2>3, <2>4, LevelsAre
<1>5. Path'
  BY <1>0, <1>3, LevelsAre DEF Path
<1>6. ASSUME NEW k \in Levels, k # Level - 1, NEW p
      PROVE  p \in F[m][k] <=> Below(F[m], k, p)'
  <2>1. \A t, i : i \in Indexes => ~Seen(t, k + 1, i)'
    <3>1. op'.indexes[k + 1] = 0 /\ \A i \in Indexes : ~(i < 0)
      BY <1>3, <1>6, LevelsAre, PageTableAssumption DEF Indexes
    <3> QED BY <3>1 DEF Seen
  <2>2. F[m][k] = Kids(mem, F[m][k + 1])
    BY <1>4, <1>6
  <2>3. p \in F[m][k] <=> \E t \in F[m][k + 1], i \in Indexes :
          is_valid(mem[t][i]) /\ p = mem[t][i].page
    BY <2>2, KidsAre
  <2> QED BY <1>0, <2>1, <2>3 DEF Below
<1>7. ASSUME NEW p
      PROVE  p \in used <=> Spared(F, p)' \/ \E l \in Levels : p \in F[m][l]
  <2>1. p \in used <=>
          p \in Data \cup leaked \/ \E n \in Mappers, l \in Levels : p \in F[n][l]
    BY <1>0 DEF Good, UsedOK
  <2>2. (\E n \in Mappers, l \in Levels : p \in F[n][l]) <=>
          \/ \E n \in Mappers \ {m}, l \in Levels : p \in F[n][l]
          \/ \E l \in Levels : p \in F[m][l]
    OBVIOUS
  <2>3. p \in F[m][1] => \E l \in Levels : p \in F[m][l]
    BY LevelsAre
  <2> QED BY <1>2, <1>3, <2>1, <2>2, <2>3 DEF Spared
<1>8. Ahead(F, F[m])'
  <2>1. \A k \in Levels : k >= op'.level => op'.tables[k] \in F[m][k]
    BY <1>3, <1>4, LevelsAre
  <2>2. F[m][1] \subseteq leaked'
    BY <1>2
  <2> QED BY <1>0, <1>3, <1>4, <1>6, <1>7, <2>1, <2>2 DEF Ahead
<1>9. ASSUME NEW n \in Mappers, NEW l \in Levels, n = m => l # 1
      PROVE  leaked' \cap F[n][l] = {}
  <2>1. F[m][1] \cap F[n][l] = {}
    BY <1>1, <1>9, LevelsAre DEF Forest
  <2> QED BY <1>1, <1>2, <2>1
<1>10. Dying' = {m} /\ Told(mem', root', told', Mappers \ {m})
  BY <1>0, <1>1, <1>3 DEF Dying, Told
<1>11. Good(F)'
  BY <1>0, <1>1, <1>3, <1>5, <1>8, <1>9, <1>10 DEF Good
<1>12. TypeInv'
  BY <1>0, <1>2, <1>3, <1>4, TypedNext
<1> QED BY <1>0, <1>11, <1>12 DEF TableInv

(* A step of the loop of destroy *)
LEMMA DestroyGood ==
  ASSUME TypeInv, NEW F, Good(F), ~dangling, op.pc = "destroy", op' \in OpType,
         op'.pc = "destroy", op'.m = op.m, UNCHANGED <<mem, root, told, leaked, dangling>>,
         used' \subseteq used, Path', NEW L, Ahead(F, L)'
  PROVE  TableInv'
<1> USE TypedNow
<1>1. Dying' = Dying
  BY DEF Dying
<1>2. Good(F)'
  BY <1>1 DEF Good
<1>3. TypeInv'
  BY TypedNext
<1> QED BY <1>2, <1>3 DEF TableInv

(* The loop goes on to another index or table, with the same tables ahead. *)
LEMMA SameAhead ==
  ASSUME TypeInv, NEW F, Good(F), ~dangling, op.pc = "destroy", op' \in OpType,
         op'.pc = "destroy", op'.m = op.m,
         UNCHANGED <<used, mem, root, told, leaked, dangling>>, Path',
         NEW L, Ahead(F, L), \A k \in Levels : k >= op'.level => op'.tables[k] \in L[k],
         \A k \in Levels : \A t, i : i \in Indexes /\ is_valid(mem[t][i]) =>
            (Seen(t, k, i)' <=> Seen(t, k, i))
  PROVE  TableInv'
<1>1. ASSUME NEW k \in Levels, k # Level - 1, NEW p
      PROVE  p \in L[k] <=> Below(L, k, p)'
  <2>1. p \in L[k] <=> Below(L, k, p)
    BY <1>1 DEF Ahead
  <2>2. k + 1 \in Levels
    BY <1>1, LevelsAre
  <2> QED BY <2>1, <2>2 DEF Below
<1>2. \A p : Spared(F, p)' <=> Spared(F, p)
  BY DEF Spared
<1>3. Ahead(F, L)'
  BY <1>1, <1>2 DEF Ahead
<1> QED BY <1>3, DestroyGood

LEMMA SkipStep ==
  ASSUME TypeInv, NEW F, Good(F), ~dangling, destroy_skip
  PROVE  TableInv'
<1> USE TypedNow
<1>0. PICK l, i, u : l = op.level /\ i = op.indexes[l] /\ u = op.tables[l]
  OBVIOUS
<1>a. /\ op.pc = "destroy" /\ l # 1 /\ i # PtesPerDir /\ ~is_valid(mem[u][i])
      /\ op' = NextIndex(op) /\ UNCHANGED <<used, mem, root, told, leaked, dangling>>
  BY <1>0 DEF destroy_skip, DestroyEntry, DestroyTable
<1>1. /\ op' \in OpType /\ op'.pc = op.pc /\ op'.m = op.m /\ op'.level = l
      /\ op'.tables = op.tables /\ op'.indexes[l] = i + 1
      /\ \A k \in Levels : k # l => op'.indexes[k] = op.indexes[k]
  BY <1>0, <1>a, NextIndexType
<1>2. Path /\ l \in Levels /\ i \in Nat
  BY <1>0, <1>a, PageTableAssumption DEF Good, OpType
<1>3. PICK L : Ahead(F, L)
  BY <1>a DEF Good
<1>4. Path'
  <2>1. \A k \in Levels : k >= l /\ k # Level - 1 => k + 1 \in Levels /\ k + 1 # l
    BY <1>2, LevelsAre
  <2>2. \A k \in Levels : k < l \/ k = 1 => k # l
    BY <1>a, <1>2, LevelsAre
  <2> QED BY <1>0, <1>a, <1>1, <1>2, <2>1, <2>2 DEF Path
<1>5. ASSUME NEW k \in Levels, NEW t, NEW j \in Indexes, is_valid(mem[t][j])
      PROVE  Seen(t, k, j)' <=> Seen(t, k, j)
  <2>1. CASE k # l
    BY <1>0, <1>1, <2>1 DEF Seen
  <2>2. CASE k = l
    <3>1. t = u => j # i
      BY <1>a, <1>5
    <3>2. j \in Int
      BY PageTableAssumption DEF Indexes
    <3>3. j # i => (j < i + 1 <=> j < i)
      BY <1>2, <3>2
    <3>4. Seen(t, k, j) <=> k >= l /\ t = u /\ j < i
      BY <1>0, <2>2 DEF Seen
    <3>5. Seen(t, k, j)' <=> k >= l /\ t = u /\ j < i + 1
      BY <1>0, <1>1, <2>2 DEF Seen
    <3> QED BY <3>1, <3>3, <3>4, <3>5
  <2> QED BY <2>1, <2>2
<1>6. \A k \in Levels : k >= op'.level => op'.tables[k] \in L[k]
  BY <1>0, <1>1, <1>3 DEF Ahead
<1> QED BY <1>a, <1>1, <1>3, <1>4, <1>5, <1>6, SameAhead

LEMMA DownStep ==
  ASSUME TypeInv, NEW F, Good(F), ~dangling, destroy_down
  PROVE  TableInv'
<1> USE TypedNow
<1>0. PICK m, l, t, i, q :
        /\ m = op.m /\ l = op.level /\ t = op.tables[l] /\ i = op.indexes[l]
        /\ q = mem[t][i].page
  OBVIOUS
<1>1. /\ op.pc = "destroy" /\ l # 1 /\ i # PtesPerDir /\ is_valid(mem[t][i])
      /\ op' = Descend(q) /\ UNCHANGED <<used, mem, root, told, leaked, dangling>>
  BY <1>0 DEF destroy_down, DestroyEntry, DestroyTable
<1>2. Path /\ l \in Levels \ {0} /\ i \in Indexes /\ m \in Mappers /\ Forest(mem, root, F)
  <2>1. Path /\ l \in Levels \ {0} /\ m \in Mappers /\ Forest(mem, root, F)
    BY <1>0, <1>1 DEF Good, Path
  <2>2. i \in 0..PtesPerDir
    BY <1>0, <2>1 DEF OpType
  <2> QED BY <1>1, <2>1, <2>2, PageTableAssumption DEF Indexes
<1>3. PICK L : Ahead(F, L)
  BY <1>1 DEF Good
<1>4. t \in L[l] /\ t \in F[m][l]
  BY <1>0, <1>2, <1>3, LevelsAre DEF Ahead
<1>5. q \in Pages
  BY <1>0, <1>1, <1>2, <1>4, ChildIn
<1>6. l - 1 \in Levels \ {0} /\ l - 1 # Level - 1 /\ (l - 1) + 1 = l
  BY <1>1, <1>2, LevelsAre
<1>7. /\ op' \in OpType /\ op'.pc = op.pc /\ op'.m = m /\ op'.level = l - 1
      /\ op'.indexes = op.indexes /\ op'.tables[l - 1] = q
      /\ \A k \in Levels : k # l - 1 => op'.tables[k] = op.tables[k]
  <2> DEFINE d == Descend(q)
  <2>1. op.level # 0 /\ q \in Pages \cup {None} /\ op \in OpType
    BY <1>0, <1>2, <1>5
  <2>2. /\ d \in OpType /\ d.pc = op.pc /\ d.m = op.m /\ d.level = op.level - 1
        /\ d.indexes = op.indexes /\ d.tables[op.level - 1] = q
        /\ \A k \in Levels : k # op.level - 1 => d.tables[k] = op.tables[k]
    BY <2>1, DescendType
  <2>3. op' = d
    BY <1>1
  <2> HIDE DEF d
  <2> QED BY <1>0, <2>2, <2>3
<1>8. Path'
  <2>1. \A k \in Levels : k >= l - 1 => k = l - 1 \/ k >= l
    BY <1>2, LevelsAre
  <2>2. \A k \in Levels : k # Level - 1 => k + 1 \in Levels /\ (k >= l => k + 1 # l - 1)
    BY <1>2, LevelsAre
  <2>3. \A k \in Levels : k < l - 1 => k < l
    BY <1>2, LevelsAre
  <2>4. ASSUME NEW k \in Levels, k >= l - 1, k # Level - 1
        PROVE  /\ op'.indexes[k + 1] \in Indexes
               /\ is_valid(mem[op'.tables[k + 1]][op'.indexes[k + 1]])
               /\ op'.tables[k] = mem[op'.tables[k + 1]][op'.indexes[k + 1]].page
    <3>1. CASE k = l - 1
      <4>1. l # l - 1 /\ l \in Levels
        BY <1>2, LevelsAre
      <4>2. op'.tables[k + 1] = t /\ op'.indexes[k + 1] = i /\ op'.tables[k] = q
        BY <1>0, <1>6, <1>7, <3>1, <4>1
      <4> QED BY <1>0, <1>1, <1>2, <4>2
    <3>2. CASE k >= l /\ k # l - 1
      <4>1. op'.tables[k + 1] = op.tables[k + 1] /\ op'.tables[k] = op.tables[k]
        BY <1>7, <2>2, <2>4, <3>2
      <4> QED BY <1>0, <1>2, <1>7, <2>4, <3>2, <4>1 DEF Path
    <3> QED BY <2>1, <2>4, <3>1, <3>2
  <2>5. op'.tables[Level - 1] = root[m] /\ root[m] # None
    BY <1>0, <1>2, <1>6, <1>7, LevelsAre DEF Path
  <2>6. \A k \in Levels : k < l - 1 \/ k = 1 => op'.indexes[k] = 0
    BY <1>0, <1>2, <1>7, <2>3 DEF Path
  <2> QED BY <1>1, <1>2, <1>6, <1>7, <2>4, <2>5, <2>6 DEF Path
<1>a. \A k \in Levels : k # l - 1 => (k >= l - 1 <=> k >= l)
  <2>1. l \in Int /\ \A k \in Levels : k \in Int
    BY <1>2, LevelsAre
  <2> QED BY <2>1
<1>9. ASSUME NEW k \in Levels, NEW u, NEW j \in Indexes
      PROVE  Seen(u, k, j)' <=> Seen(u, k, j)
  <2>1. CASE k = l - 1
    <3>1. op.indexes[k] = 0 /\ ~(k >= l) /\ ~(j < 0)
      <4>1. k < l
        BY <1>2, <2>1, LevelsAre
      <4>2. j \in Nat
        BY PageTableAssumption DEF Indexes
      <4> QED BY <1>0, <1>2, <4>1, <4>2, LevelsAre DEF Path
    <3> QED BY <1>0, <1>7, <3>1 DEF Seen
  <2>2. CASE k # l - 1
    BY <1>0, <1>7, <1>a, <2>2 DEF Seen
  <2> QED BY <2>1, <2>2
<1>10. ASSUME NEW k \in Levels, k >= op'.level PROVE op'.tables[k] \in L[k]
  <2>1. CASE k = l - 1
    <3>1. ~Seen(t, l, i)
      <4>1. i \in Int
        BY <1>2, PageTableAssumption DEF Indexes
      <4> QED BY <1>0, <4>1 DEF Seen
    <3>2. Below(L, k, q)
      BY <1>0, <1>1, <1>2, <1>4, <1>6, <2>1, <3>1 DEF Below
    <3>3. q \in L[k]
      BY <1>3, <1>6, <2>1, <3>2 DEF Ahead
    <3> QED BY <1>7, <2>1, <3>3
  <2>2. CASE k # l - 1
    <3>1. k >= l
      BY <1>7, <1>10, <1>a, <2>2
    <3> QED BY <1>0, <1>3, <1>7, <2>2, <3>1 DEF Ahead
  <2> QED BY <2>1, <2>2
<1> QED BY <1>0, <1>1, <1>3, <1>7, <1>8, <1>9, <1>10, SameAhead

(* The loop goes up from level l, and leaves its table t. *)
Rises(l) ==
    /\ op' \in OpType /\ op'.pc = op.pc /\ op'.m = op.m /\ op'.level = l + 1
    /\ op'.tables = op.tables /\ op'.indexes[l + 1] = op.indexes[l + 1] + 1
    /\ op'.indexes[l] = 0
    /\ \A k \in Levels : k # l + 1 /\ k # l => op'.indexes[k] = op.indexes[k]

LEMMA RisePath ==
  ASSUME TypeInv, Path, NEW l, l = op.level, l # Level - 1, Rises(l),
         UNCHANGED <<mem, root>>
  PROVE  Path'
<1>0. l \in Levels \ {0} /\ l + 1 \in Levels \ {0} /\ l + 1 # 1
  BY LevelsAre DEF Path
<1>1. ASSUME NEW k \in Levels, k >= l + 1, k # Level - 1
      PROVE  k >= l /\ k + 1 \in Levels /\ k + 1 # l + 1 /\ k + 1 # l
  BY <1>0, <1>1, LevelsAre
<1>2. ASSUME NEW k \in Levels, k >= l + 1, k # Level - 1
      PROVE  op'.indexes[k + 1] = op.indexes[k + 1]
  BY <1>1, <1>2 DEF Rises
<1>3. ASSUME NEW k \in Levels, k < l + 1 \/ k = 1 PROVE op'.indexes[k] = 0
  <2>1. k # l + 1 /\ (k = l \/ k < l \/ k = 1)
    BY <1>0, <1>3, LevelsAre
  <2>2. CASE k = l
    BY <2>2 DEF Rises
  <2>3. CASE k # l
    BY <2>1, <2>3 DEF Rises, Path
  <2> QED BY <2>2, <2>3
<1>4. /\ op'.m = op.m /\ op'.level = l + 1 /\ op'.tables = op.tables
  BY DEF Rises
<1> QED BY <1>0, <1>1, <1>2, <1>3, <1>4 DEF Path

(* The entries that destroy has seen, after it has gone up *)
LEMMA RiseSeen ==
  ASSUME TypeInv, Path, NEW l, l = op.level, l # Level - 1, Rises(l),
         NEW k \in Levels, NEW u, NEW j \in Indexes
  PROVE  /\ k < l => ~Seen(u, k, j) /\ ~Seen(u, k, j)'
         /\ k = l => ~Seen(u, k, j)'
         /\ k = l + 1 => (Seen(u, k, j)' <=>
              Seen(u, k, j) \/ (u = op.tables[k] /\ j = op.indexes[k]))
         /\ k > l + 1 => (Seen(u, k, j)' <=> Seen(u, k, j))
<1>0. l \in Int /\ k \in Int /\ j \in Int /\ l + 1 \in Levels
  BY LevelsAre, PageTableAssumption DEF Path, Indexes
<1>1. /\ op'.level = l + 1 /\ op'.tables = op.tables
  BY DEF Rises
<1>2. k < l => ~(k >= l) /\ ~(k >= l + 1)
  BY <1>0
<1>3. k = l => ~(k >= l + 1)
  BY <1>0
<1>4. ASSUME k = l + 1
      PROVE  Seen(u, k, j)' <=>
               Seen(u, k, j) \/ (u = op.tables[k] /\ j = op.indexes[k])
  <2> DEFINE x == op.indexes[l + 1]
  <2>1. x \in Int /\ op'.indexes[k] = x + 1 /\ op.indexes[k] = x
    BY <1>0, <1>4, TypedNow, PageTableAssumption DEF Rises, OpType
  <2> HIDE DEF x
  <2>2. (j < x + 1 <=> j < x \/ j = x) /\ k >= l /\ k >= l + 1
    BY <1>0, <1>4, <2>1
  <2>3. Seen(u, k, j) <=> u = op.tables[k] /\ j < x
    BY <2>1, <2>2 DEF Seen
  <2>4. Seen(u, k, j)' <=> u = op.tables[k] /\ j < x + 1
    BY <1>1, <2>1, <2>2 DEF Seen
  <2> QED BY <2>1, <2>2, <2>3, <2>4
<1>5. ASSUME k > l + 1 PROVE Seen(u, k, j)' <=> Seen(u, k, j)
  <2>1. k # l + 1 /\ k # l /\ k >= l /\ k >= l + 1
    BY <1>0, <1>5
  <2>2. op'.indexes[k] = op.indexes[k]
    BY <2>1 DEF Rises
  <2> QED BY <1>1, <2>1, <2>2 DEF Seen
<1> QED BY <1>1, <1>2, <1>3, <1>4, <1>5 DEF Seen

(* Two entries of tables of one mapper do not lead to the same table. *)
LEMMA OneEntry ==
  ASSUME NEW M, NEW R, NEW F, Forest(M, R, F), NEW m \in Mappers,
         NEW l \in Levels, l # 0, NEW t \in F[m][l], NEW u \in F[m][l],
         NEW i \in Indexes, NEW j \in Indexes, is_valid(M[t][i]),
         M[t][i].page = M[u][j].page
  PROVE  t = u /\ i = j
<1>1. l \in Levels \ {0}
  OBVIOUS
<1> QED BY <1>1 DEF Forest

Without(L, l, t) ==
    [k \in Levels |-> IF k = l THEN L[k] \ {t}
                      ELSE IF k = l - 1 THEN L[k] \ Kids(mem, {t}) ELSE L[k]]

LEMMA RiseBelow ==
  ASSUME TypeInv, Path, NEW F, Forest(mem, root, F), NEW l, l = op.level,
         l # Level - 1, Rises(l), mem' = mem, NEW t, t = op.tables[l],
         NEW L, Ahead(F, L), l = 1 \/ L[l - 1] \cap Kids(mem, {t}) = {},
         NEW N, N = Without(L, l, t),
         NEW k \in Levels, k # Level - 1, NEW p
  PROVE  p \in N[k] <=> Below(N, k, p)'
<1>0. PICK m : m = op.m
  OBVIOUS
<1>1. /\ l \in Levels /\ l # 0 /\ l + 1 \in Levels /\ l - 1 \in Levels /\ m \in Mappers
      /\ k + 1 \in Levels /\ k + 1 # 0
  BY <1>0, LevelsAre DEF Path
<1>2. /\ N[l] = L[l] \ {t} /\ N[l - 1] = L[l - 1] \ Kids(mem, {t})
      /\ \A n \in Levels : n # l /\ n # l - 1 => N[n] = L[n]
  BY <1>1, LevelsAre DEF Without
<1>3. /\ p \in L[k] <=> Below(L, k, p)
      /\ \A n \in Levels : L[n] \subseteq F[m][n]
  BY <1>0 DEF Ahead
<1>4. CASE k = l
  <2>1. PICK u, i : u = op.tables[l + 1] /\ i = op.indexes[l + 1]
    OBVIOUS
  <2>2. u \in L[l + 1] /\ i \in Indexes /\ is_valid(mem[u][i]) /\ t = mem[u][i].page
    <3>1. l >= op.level /\ l + 1 >= op.level
      BY <1>1, LevelsAre
    <3>2. op.tables[l + 1] \in L[l + 1]
      BY <1>1, <3>1 DEF Ahead
    <3> QED BY <1>1, <2>1, <3>1, <3>2 DEF Path
  <2>3. ASSUME NEW v \in L[l + 1], NEW j \in Indexes, is_valid(mem[v][j])
        PROVE  Seen(v, l + 1, j)' <=> Seen(v, l + 1, j) \/ mem[v][j].page = t
    <3>1. Seen(v, l + 1, j)' <=> Seen(v, l + 1, j) \/ (v = u /\ j = i)
      BY <1>1, <2>1, RiseSeen
    <3>2. l + 1 # 0 /\ v \in F[m][l + 1] /\ u \in F[m][l + 1]
      BY <1>1, <1>3, <1>4, <2>2
    <3>3. mem[v][j].page = t => v = u /\ j = i
      BY <1>1, <2>2, <2>3, <3>2, OneEntry
    <3> QED BY <2>2, <3>1, <3>3
  <2>4. N[l] = L[l] \ {t} /\ N[l + 1] = L[l + 1]
    BY <1>1, <1>2, LevelsAre
  <2>5. p \in L[l] <=> \E v \in L[l + 1], j \in Indexes :
          is_valid(mem[v][j]) /\ ~Seen(v, l + 1, j) /\ p = mem[v][j].page
    BY <1>3, <1>4 DEF Below
  <2>6. Below(N, k, p)' <=> \E v \in L[l + 1], j \in Indexes :
          is_valid(mem[v][j]) /\ ~Seen(v, l + 1, j)' /\ p = mem[v][j].page
    BY <1>4, <2>4 DEF Below
  <2> QED BY <1>4, <2>3, <2>4, <2>5, <2>6
<1>5. CASE k = l - 1
  <2>0. k + 1 = l /\ l >= op.level
    BY <1>1, <1>5, LevelsAre
  <2>1. t \in L[l] /\ t \in F[m][l]
    BY <1>1, <1>3, <2>0 DEF Ahead
  <2>2. \A v, j : j \in Indexes => ~Seen(v, l, j)' /\ (v # t => ~Seen(v, l, j))
    <3>1. \A v, j : j \in Indexes => ~Seen(v, l, j)'
      BY <1>1, RiseSeen
    <3> QED BY <3>1 DEF Seen
  <2>3. ASSUME NEW v \in L[l], NEW j \in Indexes, is_valid(mem[v][j])
        PROVE  mem[v][j].page \in Kids(mem, {t}) <=> v = t
    <3>1. ASSUME v # t, mem[v][j].page \in Kids(mem, {t}) PROVE FALSE
      <4>1. PICK i \in Indexes : is_valid(mem[t][i]) /\ mem[v][j].page = mem[t][i].page
        BY <3>1, KidsAre
      <4>2. v \in F[m][l]
        BY <1>1, <1>3
      <4> QED BY <1>1, <2>1, <2>3, <3>1, <4>1, <4>2, OneEntry
    <3>2. v = t => mem[v][j].page \in Kids(mem, {t})
      BY <2>3, KidsAre
    <3> QED BY <3>1, <3>2
  <2>4. p \in L[k] <=> \E v \in L[l], j \in Indexes :
          is_valid(mem[v][j]) /\ ~Seen(v, l, j) /\ p = mem[v][j].page
    BY <1>3, <2>0 DEF Below
  <2>5. Below(N, k, p)' <=> \E v \in L[l] \ {t}, j \in Indexes :
          is_valid(mem[v][j]) /\ p = mem[v][j].page
    BY <1>2, <2>0, <2>2 DEF Below
  <2>6. p \in N[k] <=> p \in L[k] /\ p \notin Kids(mem, {t})
    BY <1>2, <1>5
  <2>7. ASSUME p \in N[k] PROVE Below(N, k, p)'
    <3>1. PICK v \in L[l], j \in Indexes : is_valid(mem[v][j]) /\ p = mem[v][j].page
      BY <2>4, <2>6, <2>7
    <3>2. v # t
      BY <2>3, <2>6, <2>7, <3>1
    <3> QED BY <2>5, <3>1, <3>2
  <2>8. ASSUME Below(N, k, p)' PROVE p \in N[k]
    <3>1. PICK v \in L[l] \ {t}, j \in Indexes : is_valid(mem[v][j]) /\ p = mem[v][j].page
      BY <2>5, <2>8
    <3>2. p \notin Kids(mem, {t})
      BY <2>3, <3>1
    <3>3. ~Seen(v, l, j)
      BY <2>2, <3>1
    <3> QED BY <2>4, <2>6, <3>1, <3>2, <3>3
  <2> QED BY <2>7, <2>8
<1>6. CASE k # l /\ k # l - 1
  <2>1. N[k] = L[k]
    BY <1>2, <1>6
  <2>2. N[k + 1] = L[k + 1]
    <3>1. k + 1 # l
      BY <1>1, <1>6, LevelsAre
    <3>2. CASE k + 1 = l - 1
      <4>1. l # 1
        BY <1>1, <3>2, LevelsAre
      <4> QED BY <1>2, <3>2, <4>1
    <3>3. CASE k + 1 # l - 1
      BY <1>1, <1>2, <3>1, <3>3
    <3> QED BY <3>2, <3>3
  <2>3. k + 1 < l \/ k + 1 > l + 1
    BY <1>1, <1>6, LevelsAre
  <2>4. \A v, j : j \in Indexes => (Seen(v, k + 1, j)' <=> Seen(v, k + 1, j))
    BY <1>1, <2>3, RiseSeen
  <2> QED BY <1>3, <2>1, <2>2, <2>4 DEF Below
<1> QED BY <1>4, <1>5, <1>6

(* The loop goes up: t is given back, and at level 1 what is below t. *)
LEMMA RiseStep ==
  ASSUME TypeInv, NEW F, Good(F), ~dangling, op.pc = "destroy",
         NEW l, l = op.level, l # Level - 1, Rises(l),
         UNCHANGED <<mem, root, told, leaked, dangling>>, NEW t, t = op.tables[l],
         NEW L, Ahead(F, L),
         \/ l = 1 /\ used' = used \ Kids(mem, {t})
         \/ l # 1 /\ used' = used \ {t} /\ L[l - 1] \cap Kids(mem, {t}) = {}
  PROVE  TableInv'
<1>0. PICK m, N : m = op.m /\ N = Without(L, l, t)
  OBVIOUS
<1>1. Path /\ Forest(mem, root, F) /\ op.m \in Mappers
  BY DEF Good, Path
<1>2. /\ l \in Levels /\ l # 0 /\ l + 1 \in Levels /\ l - 1 \in Levels /\ m \in Mappers
  BY <1>0, <1>1, LevelsAre DEF Path
<1>3. /\ N[l] = L[l] \ {t} /\ N[l - 1] = L[l - 1] \ Kids(mem, {t})
      /\ \A n \in Levels : n # l /\ n # l - 1 => N[n] = L[n]
      /\ N \in [Levels -> SUBSET Pages] /\ \A n \in Levels : N[n] \subseteq L[n]
  <2>1. L \in [Levels -> SUBSET Pages]
    BY DEF Ahead
  <2> QED BY <1>0, <1>2, <2>1, LevelsAre DEF Without
<1>4. Path'
  BY <1>1, RisePath
<1>5. /\ \A n \in Levels : L[n] \subseteq F[m][n]
      /\ t \in L[l] /\ F[m][1] \subseteq leaked /\ L[Level - 1] = {root[m]}
  <2>1. l >= op.level
    BY <1>2, LevelsAre
  <2> QED BY <1>0, <1>2, <2>1 DEF Ahead
<1>6. ASSUME NEW k \in Levels, k >= l + 1 PROVE op.tables[k] \in N[k]
  <2>1. k >= op.level /\ k # l /\ k # l - 1
    BY <1>2, <1>6, LevelsAre
  <2> QED BY <1>3, <2>1 DEF Ahead
<1>7. N[Level - 1] = {root[m]}
  BY <1>2, <1>3, <1>5, LevelsAre
<1>8. ASSUME NEW k \in Levels, k # Level - 1, NEW p PROVE p \in N[k] <=> Below(N, k, p)'
  <2>1. l = 1 \/ L[l - 1] \cap Kids(mem, {t}) = {}
    OBVIOUS
  <2> QED BY <1>0, <1>1, <1>8, <2>1, RiseBelow
<1>9. \A p : Spared(F, p)' <=> Spared(F, p)
  BY DEF Spared, Rises
<1>a. \A k \in Levels : \A p \in F[m][k] : k # 1 => ~Spared(F, p)
  <2>1. ASSUME NEW k \in Levels, NEW p \in F[m][k], k # 1 PROVE ~Spared(F, p)
    <3>1. p \notin leaked
      BY <1>0, <1>2, <2>1 DEF Good, Dying
    <3>2. p \notin Data
      BY <1>1, <1>2, ForestTree, NoneNoPage
    <3>3. \A n \in Mappers \ {m}, j \in Levels : p \notin F[n][j]
      BY <1>1, <1>2 DEF Forest
    <3> QED BY <1>0, <3>1, <3>2, <3>3 DEF Spared
  <2> QED BY <2>1
<1>b. ASSUME NEW p PROVE p \in used' <=> Spared(F, p) \/ \E j \in Levels : p \in N[j]
  <2>1. p \in used <=> Spared(F, p) \/ \E j \in Levels : p \in L[j]
    BY DEF Ahead
  <2>2. \A j, k \in Levels : p \in L[j] /\ p \in F[m][k] => j = k
    BY <1>1, <1>2, <1>5 DEF Forest
  <2>3. CASE l = 1 /\ used' = used \ Kids(mem, {t})
    <3>1. l - 1 = 0 /\ 0 # 1 /\ l # 0
      BY <2>3
    <3>2. Kids(mem, {t}) \subseteq F[m][0]
      <4>1. ASSUME NEW q \in Kids(mem, {t}) PROVE q \in F[m][0]
        <5>1. PICK i \in Indexes : is_valid(mem[t][i]) /\ q = mem[t][i].page
          BY KidsAre
        <5>2. t \in F[m][l]
          BY <1>2, <1>5
        <5> QED BY <1>1, <1>2, <3>1, <5>1, <5>2, ChildIn
      <4> QED BY <4>1
    <3>3. CASE p \in Kids(mem, {t})
      <4>1. ~Spared(F, p) /\ p \in F[m][0] /\ p \notin N[0]
        BY <1>a, <1>3, <3>1, <3>2, <3>3, LevelsAre
      <4>2. \A j \in Levels : p \notin N[j]
        BY <1>3, <2>2, <4>1, LevelsAre
      <4> QED BY <2>3, <3>3, <4>1, <4>2
    <3>4. CASE p \notin Kids(mem, {t})
      <4>1. p = t => Spared(F, p)
        BY <1>2, <1>5, <2>3 DEF Spared
      <4>2. \A j \in Levels : p # t => (p \in N[j] <=> p \in L[j])
        BY <1>3, <3>1, <3>4
      <4>3. \A j \in Levels : p \in N[j] => p \in L[j]
        BY <1>3
      <4> QED BY <2>1, <2>3, <3>4, <4>1, <4>2, <4>3
    <3> QED BY <3>3, <3>4
  <2>4. CASE l # 1 /\ used' = used \ {t} /\ L[l - 1] \cap Kids(mem, {t}) = {}
    <3>1. \A j \in Levels : p # t => (p \in N[j] <=> p \in L[j])
      BY <1>3, <2>4
    <3>2. ASSUME p = t PROVE ~Spared(F, p) /\ \A j \in Levels : p \notin N[j]
      <4>1. p \in F[m][l] /\ p \notin N[l]
        BY <1>2, <1>3, <1>5, <3>2
      <4> QED BY <1>a, <1>2, <1>3, <2>2, <2>4, <4>1
    <3> QED BY <2>1, <2>4, <3>1, <3>2
  <2> QED BY <2>3, <2>4
<1>c. Ahead(F, N)'
  <2>1. op'.m = m /\ op'.level = l + 1 /\ op'.tables = op.tables
    BY <1>0 DEF Rises
  <2>2. \A k \in Levels : N[k] \subseteq F[m][k]
    BY <1>3, <1>5
  <2>3. \A p : p \in used' <=> Spared(F, p)' \/ \E j \in Levels : p \in N[j]
    BY <1>9, <1>b
  <2> QED BY <1>3, <1>5, <1>6, <1>7, <1>8, <2>1, <2>2, <2>3 DEF Ahead
<1> QED BY <1>4, <1>c, DestroyGood DEF Rises

LEMMA LevelOneStep ==
  ASSUME TypeInv, NEW F, Good(F), ~dangling, destroy_level1
  PROVE  TableInv'
<1> USE TypedNow
<1>0. PICK t : t = op.tables[1]
  OBVIOUS
<1>1. /\ op.pc = "destroy" /\ op.level = 1 /\ used' = used \ Kids(mem, {t})
      /\ op' = NextIndex([op EXCEPT !.level = 2])
      /\ UNCHANGED <<mem, root, told, leaked, dangling>>
  BY <1>0 DEF destroy_level1, DestroyTable, Children, Kids
<1>2. Path
  BY <1>1 DEF Good
<1>3. PICK L : Ahead(F, L)
  BY <1>1 DEF Good
<1>4. 1 # Level - 1 /\ 1 + 1 = 2 /\ 2 \in Levels /\ 1 \in Levels
  BY LevelsAre
<1>5. op.indexes[2] # PtesPerDir /\ op.indexes[1] = 0
  <2>0. \A k \in Levels : k >= op.level /\ k # Level - 1 => op.indexes[k + 1] \in Indexes
    BY <1>2 DEF Path
  <2>1. \A k \in Levels : k < op.level \/ k = 1 => op.indexes[k] = 0
    BY <1>2 DEF Path
  <2>2. 1 >= op.level
    BY <1>1
  <2>3. op.indexes[1 + 1] \in Indexes
    BY <1>4, <2>0, <2>2
  <2> QED BY <1>4, <2>1, <2>3, PageTableAssumption DEF Indexes
<1>6. Rises(1)
  <2>1. PICK o : o = [op EXCEPT !.level = 2]
    OBVIOUS
  <2>2. op' = NextIndex(o)
    BY <1>1, <2>1
  <2>3. /\ NextIndex(o) \in OpType /\ NextIndex(o).pc = op.pc /\ NextIndex(o).m = op.m
        /\ NextIndex(o).level = 2 /\ NextIndex(o).tables = op.tables
        /\ NextIndex(o).indexes[2] = op.indexes[2] + 1
        /\ NextIndex(o).indexes[op.level] = 0
        /\ \A k \in Levels : k # 2 /\ k # op.level =>
             NextIndex(o).indexes[k] = op.indexes[k]
    BY <1>1, <1>4, <1>5, <2>1, UpType
  <2> QED BY <1>1, <1>4, <2>2, <2>3 DEF Rises
<1> QED BY <1>0, <1>1, <1>3, <1>4, <1>6, RiseStep

(* All entries of t are done: nothing below t is ahead. *)
LEMMA AllSeen ==
  ASSUME NEW F, Forest(mem, root, F), Path, NEW L, Ahead(F, L), NEW l, l = op.level,
         NEW t, t = op.tables[l], op.indexes[l] = PtesPerDir
  PROVE  L[l - 1] \cap Kids(mem, {t}) = {}
<1> SUFFICES ASSUME NEW p, p \in L[l - 1], p \in Kids(mem, {t}) PROVE FALSE
  OBVIOUS
<1>0. PICK m : m = op.m
  OBVIOUS
<1>1. /\ l \in Levels /\ l # 0 /\ l - 1 \in Levels /\ l - 1 # Level - 1
      /\ (l - 1) + 1 = l /\ l >= op.level /\ m \in Mappers
  BY <1>0, LevelsAre DEF Path
<1>2. t \in L[l] /\ \A u \in L[l] : u \in F[m][l]
  BY <1>0, <1>1 DEF Ahead
<1>3. Below(L, l - 1, p)
  BY <1>1 DEF Ahead
<1>4. PICK u \in L[l], j \in Indexes :
        is_valid(mem[u][j]) /\ ~Seen(u, l, j) /\ p = mem[u][j].page
  BY <1>1, <1>3 DEF Below
<1>5. PICK i \in Indexes : is_valid(mem[t][i]) /\ p = mem[t][i].page
  BY KidsAre
<1>6. t = u
  <2>1. t \in F[m][l] /\ u \in F[m][l] /\ mem[t][i].page = mem[u][j].page
    BY <1>2, <1>4, <1>5
  <2>2. \A x, y \in F[m][l] : \A a, b \in Indexes :
          is_valid(mem[x][a]) /\ mem[x][a].page = mem[y][b].page => x = y
    BY <1>1, OneEntry
  <2> QED BY <1>5, <2>1, <2>2
<1>7. j < PtesPerDir
  BY PageTableAssumption DEF Indexes
<1> QED BY <1>1, <1>4, <1>6, <1>7 DEF Seen

LEMMA UpStep ==
  ASSUME TypeInv, NEW F, Good(F), ~dangling, destroy_up, op.level # Level - 1
  PROVE  TableInv'
<1> USE TypedNow
<1>0. PICK l, t : l = op.level /\ t = op.tables[l]
  OBVIOUS
<1>1. /\ op.pc = "destroy" /\ l # 1 /\ used' = used \ {t} /\ op' = Up(op)
      /\ op.indexes[l] = PtesPerDir /\ UNCHANGED <<mem, root, told, leaked, dangling>>
  BY <1>0 DEF destroy_up, DestroyTable
<1>2. Path
  BY <1>1 DEF Good
<1>3. PICK L : Ahead(F, L)
  BY <1>1 DEF Good
<1>4. l \in Levels \ {0} /\ l + 1 \in Levels /\ l + 1 # l /\ l >= l
  BY <1>0, <1>2, LevelsAre DEF Path
<1>5. op.indexes[l + 1] # PtesPerDir
  <2>1. op.indexes[l + 1] \in Indexes
    BY <1>0, <1>2, <1>4 DEF Path
  <2> QED BY <2>1, PageTableAssumption DEF Indexes
<1>6. Rises(l)
  <2>1. PICK o, k : o = Above /\ k = l + 1
    OBVIOUS
  <2>2. op' = NextIndex(o)
    BY <1>1, <2>1 DEF Up, Above
  <2>3. /\ NextIndex(o) \in OpType /\ NextIndex(o).pc = op.pc /\ NextIndex(o).m = op.m
        /\ NextIndex(o).level = k /\ NextIndex(o).tables = op.tables
        /\ NextIndex(o).indexes[k] = op.indexes[k] + 1
        /\ NextIndex(o).indexes[op.level] = 0
        /\ \A j \in Levels : j # k /\ j # op.level =>
             NextIndex(o).indexes[j] = op.indexes[j]
    <3>1. /\ k \in Levels /\ op.indexes[k] # PtesPerDir /\ k # op.level
          /\ o = Above /\ k = op.level + 1
      BY <1>0, <1>4, <1>5, <2>1
    <3> QED BY <3>1, UpType
  <2> QED BY <1>0, <2>1, <2>2, <2>3 DEF Rises
<1>7. L[l - 1] \cap Kids(mem, {t}) = {}
  <2>1. Forest(mem, root, F)
    BY DEF Good
  <2> QED BY <1>0, <1>1, <1>2, <1>3, <2>1, AllSeen
<1> QED BY <1>0, <1>1, <1>3, <1>6, <1>7, RiseStep

(* The root is done: it is the last table ahead. *)
LEMMA LastStep ==
  ASSUME TypeInv, NEW F, Good(F), ~dangling, destroy_up, op.level = Level - 1
  PROVE  TableInv'
<1> USE TypedNow
<1>0. PICK m, r, G : m = op.m /\ r = root[m] /\ G = [F EXCEPT ![m] = [k \in Levels |-> {}]]
  OBVIOUS
<1>1. /\ op.pc = "destroy" /\ op.indexes[Level - 1] = PtesPerDir
      /\ used' = used \ {op.tables[Level - 1]} /\ op' = NoOp
      /\ root' = [root EXCEPT ![m] = None]
      /\ told' = [told EXCEPT ![m] = [v \in Vpns |-> Empty]]
      /\ UNCHANGED <<mem, leaked, dangling>>
  BY <1>0 DEF destroy_up, DestroyTable
<1>2. Path /\ m \in Mappers /\ r # None /\ op.tables[Level - 1] = r /\ Forest(mem, root, F)
  BY <1>0, <1>1 DEF Good, Path
<1>3. PICK L : Ahead(F, L)
  BY <1>1 DEF Good
<1>4. L[Level - 1] = {r} /\ F[m][1] \subseteq leaked
  BY <1>0, <1>3 DEF Ahead
<1>5. \A k \in Levels : k # Level - 1 => L[k] = {}
  <2> DEFINE P == {k \in Levels : k # Level - 1 => L[k] = {}}
  <2>1. Level - 1 \in P
    BY LevelsAre
  <2>2. ASSUME NEW k \in Levels, k # Level - 1, k + 1 \in P PROVE k \in P
    <3>1. \A p : p \in L[k] <=> Below(L, k, p)
      BY <1>3, <2>2 DEF Ahead
    <3>2. CASE k + 1 # Level - 1
      BY <2>2, <3>1, <3>2 DEF Below
    <3>3. CASE k + 1 = Level - 1
      <4>1. k = (Level - 1) - 1
        BY <3>3, LevelsAre
      <4>2. L[k] \cap Kids(mem, {r}) = {}
        BY <1>1, <1>2, <1>3, <4>1, AllSeen
      <4>3. \A p : Below(L, k, p) => p \in Kids(mem, {r})
        BY <1>4, <3>3, KidsAre DEF Below
      <4> QED BY <3>1, <4>2, <4>3
    <3> QED BY <3>2, <3>3
  <2> HIDE DEF P
  <2>3. \A k \in Levels : k \in P
    BY <2>1, <2>2, DownInd
  <2> QED BY <2>3 DEF P
<1>6. Forest(mem', root', G)
  <2>1. Forest(mem, [root EXCEPT ![m] = None], G)
    BY <1>0, <1>2, CutRoot
  <2> QED BY <1>1, <2>1
<1>7. Told(mem', root', told', Mappers)
  <2>1. Told(mem, root, told, Mappers \ {m})
    BY <1>0, <1>1 DEF Good, Dying
  <2>2. Told(mem, [root EXCEPT ![m] = None], [told EXCEPT ![m] = [v \in Vpns |-> Empty]],
             Mappers)
    BY <1>2, <2>1, ToldCut
  <2> QED BY <1>1, <2>2
<1>8. /\ \A k \in Levels : G[m][k] = {}
      /\ \A n \in Mappers, k \in Levels : n # m => G[n][k] = F[n][k]
  BY <1>0, <1>2 DEF Forest
<1>9. Dying = {m} /\ Dying' = {} /\ op'.pc = "idle" /\ op' \in OpType
  BY <1>0, <1>1, NoOpType DEF Dying
<1>10. ASSUME NEW n \in Mappers, NEW k \in Levels PROVE leaked' \cap G[n][k] = {}
  BY <1>1, <1>8, <1>9 DEF Good
<1>11. ~Spared(F, r)
  <2>1. r \in F[m][Level - 1]
    BY <1>0, <1>3, <1>4, LevelsAre DEF Ahead
  <2>2. Level - 1 # 1 /\ Level - 1 \in Levels
    BY LevelsAre
  <2>3. r \notin leaked
    BY <1>2, <1>9, <2>1, <2>2 DEF Good
  <2>4. r \notin Data
    BY <1>2, <2>1, <2>2, ForestTree, NoneNoPage
  <2>5. \A n \in Mappers \ {m}, j \in Levels : r \notin F[n][j]
    BY <1>2, <2>1, <2>2 DEF Forest
  <2> QED BY <1>0, <2>3, <2>4, <2>5 DEF Spared
<1>12. ASSUME NEW p
       PROVE  p \in used' <=>
                p \in Data \cup leaked \/ \E n \in Mappers, l \in Levels : p \in G[n][l]
  <2>1. p \in used <=> Spared(F, p) \/ \E l \in Levels : p \in L[l]
    BY <1>3 DEF Ahead
  <2>2. (\E l \in Levels : p \in L[l]) <=> p = r
    BY <1>4, <1>5, LevelsAre
  <2>3. Spared(F, p) <=>
          p \in Data \cup leaked \/ \E n \in Mappers, l \in Levels : p \in G[n][l]
    BY <1>0, <1>8 DEF Spared
  <2> QED BY <1>1, <1>2, <1>11, <2>1, <2>2, <2>3
<1>13. Good(G)'
  <2>1. UsedOK(G)'
    BY <1>1, <1>12 DEF UsedOK
  <2> QED BY <1>6, <1>7, <1>9, <1>10, <2>1 DEF Good
<1>14. TypeInv'
  <2>1. root' \in [Mappers -> Pages \cup {None}]
    BY <1>1
  <2>2. told' \in [Mappers -> [Vpns -> Entries]]
    BY <1>1, EmptyIs
  <2> QED BY <1>1, <1>9, <2>1, <2>2, TypedNext
<1> QED BY <1>1, <1>13, <1>14 DEF TableInv

-----------------------------------------------------------------------------
LEMMA TableStep == TableInv /\ [Next]_vars => TableInv'
<1> SUFFICES ASSUME TableInv, [Next]_vars PROVE TableInv'
  OBVIOUS
<1>0. TypeInv
  BY DEF TableInv
<1>1. CASE UNCHANGED vars
  <2>1. TypeInv' /\ (dangling' => op'.pc = "idle")
    BY <1>1 DEF vars, TableInv, TypeInv, TypeOK
  <2>2. ASSUME NEW F, Good(F) PROVE Good(F)'
    BY <1>1, <2>2 DEF vars, Good, Dying, UsedOK, Path, Ahead, Below, Spared, Seen, MapOK
  <2> QED BY <1>1, <2>1, <2>2 DEF TableInv, vars
<1>2. CASE Next
  <2>1. ~dangling
    <3>1. op.pc \in {"map", "destroy"} => ~dangling
      BY DEF TableInv
    <3> QED BY <1>2, <3>1 DEF Next, new, destroy, map_4k, unmap_4k, Ready, map_follow,
                map_new_table, map_leaf, destroy_level1, destroy_up, destroy_skip,
                destroy_down
  <2>2. PICK F : Good(F)
    BY <2>1 DEF TableInv
  <2>3. ASSUME NEW m \in Mappers, new(m) PROVE TableInv'
    BY <1>0, <2>1, <2>2, <2>3, NewStep
  <2>4. ASSUME NEW m \in Mappers, destroy(m) PROVE TableInv'
    BY <1>0, <2>1, <2>2, <2>4, DestroyBegins
  <2>5. ASSUME NEW m \in Mappers, NEW x \in Maps, map_4k(m, x) PROVE TableInv'
    BY <1>0, <2>1, <2>2, <2>5, MapStep
  <2>6. CASE map_follow
    BY <1>0, <2>1, <2>2, <2>6, FollowStep
  <2>7. CASE map_new_table
    BY <1>0, <2>1, <2>2, <2>7, NewTableStep
  <2>8. CASE map_leaf
    BY <1>0, <2>1, <2>2, <2>8, LeafStep
  <2>9. ASSUME NEW m \in Mappers, NEW v \in Vpns, unmap_4k(m, v) PROVE TableInv'
    BY <1>0, <2>1, <2>2, <2>9, UnmapStep
  <2>10. CASE destroy_level1
    BY <1>0, <2>1, <2>2, <2>10, LevelOneStep
  <2>11. CASE destroy_up
    BY <1>0, <2>1, <2>2, <2>11, UpStep, LastStep
  <2>12. CASE destroy_skip
    BY <1>0, <2>1, <2>2, <2>12, SkipStep
  <2>13. CASE destroy_down
    BY <1>0, <2>1, <2>2, <2>13, DownStep
  <2> QED BY <1>2, <2>3, <2>4, <2>5, <2>6, <2>7, <2>8, <2>9, <2>10, <2>11, <2>12, <2>13
          DEF Next
<1> QED BY <1>1, <1>2

(* TableInv is an invariant of every run of every set of mappers. *)
THEOREM TableInvariant == Spec => []TableInv
BY TableInit, TableStep, PTL DEF Spec

-----------------------------------------------------------------------------
(* What follows from the invariant *)
LEMMA TablesAre ==
  ASSUME NEW F, Forest(mem, root, F), NEW m \in Mappers
  PROVE  /\ \A l \in Levels : TablesAt(m, l) = F[m][l]
         /\ \A p : p \in TablesOf(m) <=> \E l \in Levels : p \in F[m][l]
         /\ \A p : p \in UpperTables(m) <=> \E l \in Levels : l # 0 /\ p \in F[m][l]
<1>1. Tree(mem, root[m]) = F[m]
  BY TreeIs DEF Forest
<1>2. \A l : TablesAt(m, l) = F[m][l]
  BY <1>1, TablesAtTree
<1>3. \A l : l \in 1..(Level - 1) <=> l \in Levels /\ l # 0
  BY LevelsAre
<1>4. \A p : p \in TablesOf(m) <=> \E l \in Levels : p \in F[m][l]
  BY <1>2 DEF TablesOf
<1>5. \A p : p \in UpperTables(m) <=> \E l \in 1..(Level - 1) : p \in F[m][l]
  BY <1>2 DEF UpperTables
<1> QED BY <1>2, <1>3, <1>4, <1>5

LEMMA TranslatesNow == TableInv => Translates
<1> SUFFICES ASSUME TableInv, ~dangling, NEW m \in Mappers, ~Destroying(m), NEW v \in Vpns
             PROVE  Walk(m, v) = told[m][v]
  BY DEF Translates
<1>1. PICK F : Good(F)
  BY DEF TableInv
<1>2. m \in Mappers \ Dying
  BY DEF Dying, Destroying
<1>3. Told(mem, root, told, Mappers \ Dying)
  BY <1>1 DEF Good
<1> QED BY <1>2, <1>3, WalkWay DEF Told

LEMMA LeaksNow == TableInv => LeaksLevelOne
<1> SUFFICES ASSUME TableInv, Ready
             PROVE  used = Data \cup leaked \cup UNION {TablesOf(m) : m \in Mappers}
  BY DEF LeaksLevelOne
<1>1. op.pc = "idle" /\ ~dangling
  BY NoOpType DEF Ready
<1>2. PICK F : Good(F)
  BY <1>1 DEF TableInv
<1>3. Forest(mem, root, F) /\ UsedOK(F)
  BY <1>1, <1>2 DEF Good
<1>4. \A m \in Mappers : \A p : p \in TablesOf(m) <=> \E l \in Levels : p \in F[m][l]
  BY <1>3, TablesAre
<1>5. \A p : p \in used <=> p \in Data \cup leaked \cup UNION {TablesOf(m) : m \in Mappers}
  BY <1>3, <1>4 DEF UsedOK
<1> QED BY <1>5

(* The references to a table of m *)
LEMMA ReferencesAre ==
  ASSUME NEW F, Forest(mem, root, F), NEW p, NEW x
  PROVE  x \in References(p) <=>
           \E n \in Mappers, l \in Levels, t \in Pages, i \in Indexes :
             l # 0 /\ t \in F[n][l] /\ x = <<n, t, i>> /\ mem[t][i].page = p
<1>1. \A n \in Mappers : \A t : t \in UpperTables(n) <=>
        \E l \in Levels : l # 0 /\ t \in F[n][l]
  BY TablesAre
<1>2. \A n \in Mappers, l \in Levels : F[n][l] \subseteq Pages
  BY ForestTree
<1>3. x \in References(p) <=>
        \E n \in Mappers : \E t \in UpperTables(n), i \in Indexes :
          x = <<n, t, i>> /\ mem[t][i].page = p
  <2>1. ASSUME NEW n \in Mappers, NEW t \in UpperTables(n), NEW i \in Indexes,
               x = <<n, t, i>>, mem[t][i].page = p
        PROVE  x \in References(p)
    <3>1. x \in {n} \X UpperTables(n) \X Indexes /\ x[2] = t /\ x[3] = i
      BY <2>1
    <3> QED BY <2>1, <3>1 DEF References
  <2>2. ASSUME x \in References(p)
        PROVE  \E n \in Mappers : \E t \in UpperTables(n), i \in Indexes :
                 x = <<n, t, i>> /\ mem[t][i].page = p
    <3>1. PICK n \in Mappers : x \in {n} \X UpperTables(n) \X Indexes
      BY <2>2 DEF References
    <3>2. /\ x = <<n, x[2], x[3]>> /\ x[2] \in UpperTables(n) /\ x[3] \in Indexes
          /\ mem[x[2]][x[3]].page = p
      BY <2>2, <3>1 DEF References
    <3> QED BY <3>2
  <2> QED BY <2>1, <2>2
<1>4. ASSUME x \in References(p)
      PROVE  \E n \in Mappers, l \in Levels, t \in Pages, i \in Indexes :
               l # 0 /\ t \in F[n][l] /\ x = <<n, t, i>> /\ mem[t][i].page = p
  <2>1. PICK n \in Mappers : \E t \in UpperTables(n), i \in Indexes :
          x = <<n, t, i>> /\ mem[t][i].page = p
    BY <1>3, <1>4
  <2>2. PICK t \in UpperTables(n), i \in Indexes : x = <<n, t, i>> /\ mem[t][i].page = p
    BY <2>1
  <2>3. PICK l \in Levels : l # 0 /\ t \in F[n][l]
    BY <1>1
  <2> QED BY <1>2, <2>2, <2>3
<1>5. ASSUME NEW n \in Mappers, NEW l \in Levels, NEW t \in Pages, NEW i \in Indexes,
             l # 0, t \in F[n][l], x = <<n, t, i>>, mem[t][i].page = p
      PROVE  x \in References(p)
  BY <1>1, <1>3, <1>5
<1> QED BY <1>4, <1>5

LEMMA OneReference ==
  ASSUME NEW F, Forest(mem, root, F), NEW m \in Mappers, NEW h \in Levels, NEW p \in F[m][h]
  PROVE  Cardinality(References(p)) = IF p = root[m] THEN 0 ELSE 1
<1>0. p \in Pages /\ p # None
  BY ForestTree, NoneNoPage
<1>1. ASSUME NEW n \in Mappers, NEW l \in Levels, l # 0, NEW t \in F[n][l], NEW i \in Indexes,
             mem[t][i].page = p
      PROVE  is_valid(mem[t][i]) /\ n = m /\ l - 1 = h
  <2>1. is_valid(mem[t][i])
    BY <1>0, <1>1, EmptyIs DEF is_valid
  <2>2. p \in F[n][l - 1] /\ l - 1 \in Levels
    BY <1>1, <2>1, ChildIn, LevelsAre
  <2> QED BY <2>1, <2>2 DEF Forest
<1>2. F[m][Level - 1] = RootSet(root[m]) /\ Level - 1 \in Levels
  BY ForestTree, LevelsAre
<1>3. CASE p = root[m]
  <2>1. p \in F[m][Level - 1]
    BY <1>0, <1>2, <1>3 DEF RootSet
  <2>2. h = Level - 1
    BY <1>2, <2>1 DEF Forest
  <2>3. \A l \in Levels : l # 0 => l - 1 # h
    BY <2>2, LevelsAre
  <2>4. \A x : x \notin References(p)
    BY <1>1, <2>3, ReferencesAre
  <2>5. References(p) = {}
    BY <2>4
  <2> QED BY <1>3, <2>5, FS_EmptySet
<1>4. CASE p # root[m]
  <2>1. h # Level - 1
    BY <1>2, <1>4 DEF RootSet
  <2>2. h + 1 \in Levels /\ h + 1 # 0
    BY <2>1, LevelsAre
  <2>3. p \in Kids(mem, F[m][h + 1])
    BY <2>1, ForestTree
  <2>4. PICK t \in F[m][h + 1], i \in Indexes : is_valid(mem[t][i]) /\ p = mem[t][i].page
    BY <2>3, KidsAre
  <2>5. t \in Pages
    BY <2>2, ForestTree
  <2>6. <<m, t, i>> \in References(p)
    BY <2>2, <2>4, <2>5, ReferencesAre
  <2>7. ASSUME NEW x \in References(p) PROVE x = <<m, t, i>>
    <3>1. PICK n \in Mappers, l \in Levels, u \in Pages, j \in Indexes :
            l # 0 /\ u \in F[n][l] /\ x = <<n, u, j>> /\ mem[u][j].page = p
      BY ReferencesAre
    <3>2. n = m /\ is_valid(mem[u][j]) /\ l = h + 1
      <4>1. n = m /\ is_valid(mem[u][j]) /\ l - 1 = h
        BY <1>1, <3>1
      <4> QED BY <4>1, LevelsAre
    <3>3. u \in F[m][h + 1] /\ mem[u][j].page = mem[t][i].page
      BY <2>4, <3>1, <3>2
    <3>4. u = t /\ j = i
      BY <2>2, <3>2, <3>3, OneEntry
    <3> QED BY <3>1, <3>2, <3>4
  <2>8. References(p) = {<<m, t, i>>}
    BY <2>6, <2>7
  <2> QED BY <1>4, <2>8, FS_Singleton
<1> QED BY <1>3, <1>4

LEMMA ApartNow == TableInv => TreesApart
<1> SUFFICES ASSUME TableInv PROVE TreesApart
  OBVIOUS
<1>1. ASSUME ~dangling, NEW m \in Mappers, ~Destroying(m)
      PROVE  /\ TablesOf(m) \subseteq used \ Data
             /\ \A n \in Mappers \ {m} : TablesOf(m) \cap TablesOf(n) = {}
             /\ \A p \in TablesOf(m) :
                  Cardinality(References(p)) = IF p = root[m] THEN 0 ELSE 1
  <2>1. PICK F : Good(F)
    BY <1>1 DEF TableInv
  <2>2. Forest(mem, root, F)
    BY <2>1 DEF Good
  <2>3. \A n \in Mappers : \A p : p \in TablesOf(n) <=> \E l \in Levels : p \in F[n][l]
    BY <2>2, TablesAre
  <2>4. ASSUME NEW l \in Levels, NEW p \in F[m][l] PROVE p \in used /\ p \notin Data
    <3>1. p \notin Data
      BY <2>2, ForestTree, NoneNoPage
    <3>2. CASE op.pc # "destroy"
      <4>1. UsedOK(F)
        BY <2>1, <3>2 DEF Good
      <4> QED BY <3>1, <4>1 DEF UsedOK
    <3>3. CASE op.pc = "destroy"
      <4>1. PICK L : Ahead(F, L)
        BY <2>1, <3>3 DEF Good
      <4>2. m # op.m
        BY <1>1, <3>3 DEF Destroying
      <4>3. Spared(F, p)
        BY <4>2 DEF Spared
      <4> QED BY <3>1, <4>1, <4>3 DEF Ahead
    <3> QED BY <3>2, <3>3
  <2>5. TablesOf(m) \subseteq used \ Data
    BY <2>3, <2>4
  <2>6. \A n \in Mappers \ {m} : TablesOf(m) \cap TablesOf(n) = {}
    BY <2>2, <2>3 DEF Forest
  <2>7. \A p \in TablesOf(m) : Cardinality(References(p)) = IF p = root[m] THEN 0 ELSE 1
    BY <2>2, <2>3, OneReference
  <2> QED BY <2>5, <2>6, <2>7
<1>2. TypeOK
  BY DEF TableInv, TypeInv
<1> QED BY <1>1, <1>2 DEF TreesApart

(* A step of destroy frees tables of its mapper that are allocated. *)
LEMMA FreesNow ==
  ASSUME TableInv, [Next]_vars, Destroying(op.m), ~dangling
  PROVE  /\ used \ used' \subseteq TablesOf(op.m)
         /\ destroy_up => DestroyTable \in used
         /\ destroy_level1 => Children({DestroyTable}) \subseteq used
<1>0. PICK m, l, t : m = op.m /\ l = op.level /\ t = op.tables[l]
  OBVIOUS
<1>1. op.pc = "destroy" /\ t = DestroyTable
  BY <1>0 DEF Destroying, DestroyTable
<1>2. PICK F : Good(F)
  BY DEF TableInv
<1>3. PICK L : Ahead(F, L)
  BY <1>1, <1>2 DEF Good
<1>4. Path /\ Forest(mem, root, F) /\ m \in Mappers
  BY <1>0, <1>1, <1>2 DEF Good, Path
<1>5. l \in Levels /\ l # 0 /\ l >= op.level
  BY <1>0, <1>4, LevelsAre DEF Path
<1>6. t \in L[l] /\ \A k \in Levels : L[k] \subseteq F[m][k] /\ L[k] \subseteq used
  BY <1>0, <1>3, <1>5 DEF Ahead
<1>7. \A k \in Levels : L[k] \subseteq TablesOf(m)
  BY <1>4, <1>6, TablesAre
<1>8. ASSUME destroy_level1
      PROVE  Children({t}) \subseteq used /\ Children({t}) \subseteq TablesOf(m)
             /\ used' = used \ Children({t})
  <2>1. l = 1 /\ used' = used \ Children({t})
    BY <1>0, <1>1, <1>8 DEF destroy_level1
  <2>2. op.indexes[1] = 0
    BY <1>4, LevelsAre DEF Path
  <2>3. ASSUME NEW p \in Kids(mem, {t}) PROVE p \in L[0]
    <3>1. PICK i \in Indexes : is_valid(mem[t][i]) /\ p = mem[t][i].page
      BY KidsAre
    <3>2. ~Seen(t, 1, i)
      <4>1. ~(i < 0)
        BY PageTableAssumption DEF Indexes
      <4> QED BY <2>2, <4>1 DEF Seen
    <3>3. 0 + 1 = 1 /\ 0 # Level - 1 /\ 0 \in Levels
      BY LevelsAre
    <3>4. Below(L, 0, p)
      BY <1>6, <2>1, <3>1, <3>2, <3>3 DEF Below
    <3> QED BY <1>3, <3>3, <3>4 DEF Ahead
  <2>4. Children({t}) = Kids(mem, {t})
    BY DEF Children, Kids
  <2>5. Children({t}) \subseteq L[0]
    BY <2>3, <2>4
  <2> QED BY <1>6, <1>7, <2>1, <2>5, LevelsAre
<1>9. ASSUME destroy_up PROVE t \in used /\ t \in TablesOf(m) /\ used' = used \ {t}
  <2>1. used' = used \ {t}
    BY <1>1, <1>9 DEF destroy_up
  <2> QED BY <1>5, <1>6, <1>7, <2>1
<1>10. used' = used \/ destroy_level1 \/ destroy_up
  BY <1>1, NoOpType DEF Next, vars, new, destroy, map_4k, unmap_4k, Ready, map_follow,
      map_new_table, map_leaf, destroy_skip, destroy_down
<1>11. used \ used' \subseteq TablesOf(op.m)
  <2>1. CASE used' = used
    BY <2>1
  <2>2. CASE destroy_level1
    BY <1>0, <1>8, <2>2
  <2>3. CASE destroy_up
    BY <1>0, <1>9, <2>3
  <2> QED BY <1>10, <2>1, <2>2, <2>3
<1> QED BY <1>1, <1>8, <1>9, <1>11

(* Translates, for every run: between the steps of map_4k, unmap_4k and     *)
(* destroy, a mapper that is not being destroyed translates what it was     *)
(* last told.                                                              *)
THEOREM TranslationCorrect == Spec => []Translates
BY TableInvariant, TranslatesNow, PTL

(* TreesApart: the types, and that no table is shared or owned by nobody. *)
THEOREM TreesCorrect == Spec => []TreesApart
BY TableInvariant, ApartNow, PTL

(* LeaksLevelOne: destroy gives back all tables but those of level 1. *)
THEOREM LeakCorrect == Spec => []LeaksLevelOne
BY TableInvariant, LeaksNow, PTL

(* FreesItsOwn: each step of destroy frees what its mapper owns, once. *)
THEOREM DestroyCorrect == Spec => FreesItsOwn
<1>1. TableInv /\ [Next]_vars =>
        [Destroying(op.m) /\ ~dangling =>
           /\ used \ used' \subseteq TablesOf(op.m)
           /\ destroy_up => DestroyTable \in used
           /\ destroy_level1 => Children({DestroyTable}) \subseteq used]_vars
  BY FreesNow
<1> QED BY <1>1, TableInvariant, PTL DEF Spec, FreesItsOwn
=============================================================================
