---------------------------- MODULE FilesProofs ----------------------------
(***************************************************************************)
(* Proofs about Files for every number of tasks, descriptors and messages: *)
(* what a descriptor stands for, what the ring of messages holds and what  *)
(* a program reads from /dev/kmsg.                                         *)
(***************************************************************************)
EXTENDS Files, SequenceTheorems, FiniteSetTheorems, WellFoundedInduction, TLAPS

(* Induction over the natural numbers, for a property given as a set: a set *)
(* of natural numbers has a least element.                                 *)
LEMMA NatMin ==
  ASSUME NEW T, T \subseteq Nat, T # {}
  PROVE  \E x \in T : \A y \in T : x =< y
<1> DEFINE R == {ss \in Nat \X Nat : ss[1] < ss[2]}
<1>0. IsWellFoundedOn(R, Nat)
  BY NatLessThanWellFounded DEF OpToRel
<1> HIDE DEF R
<1>1. PICK x \in T : \A y \in T : ~(<<y, x>> \in R)
  BY <1>0, WFMin, Zenon
<1>2. \A y \in T : ~(y < x)
  BY <1>1 DEF R
<1> QED BY <1>2

LEMMA NatInd ==
  ASSUME NEW N \in Nat, NEW P, 0 \in P,
         \A k \in 0..(N - 1) : k \in P => k + 1 \in P
  PROVE  \A k \in 0..N : k \in P
<1> DEFINE T == {k \in 0..N : k \notin P}
<1> SUFFICES ASSUME T # {} PROVE FALSE
  OBVIOUS
<1>1. PICK x \in T : \A y \in T : x =< y
  <2>1. T \subseteq Nat
    OBVIOUS
  <2> HIDE DEF T
  <2> QED BY <2>1, NatMin
<1>2. x # 0 /\ x \in 1..N
  BY <1>1
<1>3. x - 1 \in 0..(N - 1) /\ x - 1 \notin T
  BY <1>1, <1>2
<1>4. x - 1 \in P
  BY <1>3
<1> QED BY <1>1, <1>3, <1>4, (x - 1) + 1 = x

Base(o) == [buf |-> << >>, offset |-> o]

(* The steps of the loop over the messages. *)
KmsgSteps(o, n, st) ==
    /\ st[0] = Base(o)
    /\ \A k \in 1..Len(msgs) : st[k] = KmsgStep(st[k - 1], msgs[k], n)

LEMMA MaxOf ==
  ASSUME NEW s, NEW x \in s, s \subseteq Nat, \A y \in s : y =< x
  PROVE  Max(s) = x
<1>1. \E z \in s : \A y \in s : z >= y
  OBVIOUS
<1>2. Max(s) \in s /\ \A y \in s : Max(s) >= y
  BY <1>1, Zenon DEF Max
<1> HIDE DEF Max
<1>3. Max(s) \in Nat /\ x \in Nat /\ Max(s) >= x /\ Max(s) =< x
  BY <1>2
<1> QED BY <1>3

LEMMA Interval ==
  ASSUME NEW m \in Nat, NEW k \in 1..m
  PROVE  /\ 1..k \in SUBSET (1..m) /\ 1..k # {}
         /\ Max(1..k) = k /\ (1..k) \ {k} = 1..(k - 1)
         /\ k \in 0..m /\ k - 1 \in 0..m
<1>1. k \in 1..k /\ 1..k \subseteq Nat /\ \A y \in 1..k : y =< k
  OBVIOUS
<1>2. Max(1..k) = k
  BY <1>1, MaxOf
<1>3. \A y \in 1..k : y \in 1..m
  OBVIOUS
<1>4. 1..k \subseteq 1..m
  BY <1>3
<1>5. \A y : y \in (1..k) \ {k} <=> y \in 1..(k - 1)
  OBVIOUS
<1>6. (1..k) \ {k} = 1..(k - 1)
  BY <1>5
<1> QED BY <1>1, <1>2, <1>4, <1>6

LEMMA KmsgLoop ==
  ASSUME NEW o, NEW n, Len(msgs) \in Nat, DOMAIN msgs = 1..Len(msgs)
  PROVE  \E st : KmsgSteps(o, n, st) /\ ReadKmsg(o, n) = st[Len(msgs)].buf
<1> DEFINE N == Len(msgs)
           Body(g, s) == IF s = {} THEN Base(o)
                         ELSE KmsgStep(g[s \ {Max(s)}], msgs[Max(s)], n)
           Def(k, g) == g = [s \in SUBSET (1..k) |-> Body(g, s)]
           P == {k \in Nat : \E g : Def(k, g)}
<1>1. 0 \in P
  <2> DEFINE g == [s \in SUBSET (1..0) |-> Base(o)]
  <2>1. \A s \in SUBSET (1..0) : s = {}
    OBVIOUS
  <2>2. Def(0, g)
    BY <2>1
  <2> QED BY <2>2
<1>2. ASSUME NEW k \in 0..(N - 1), k \in P PROVE k + 1 \in P
  <2>1. PICK g : Def(k, g)
    BY <1>2
  <2> DEFINE h == [s \in SUBSET (1..(k + 1)) |->
                     IF k + 1 \in s THEN KmsgStep(g[s \ {k + 1}], msgs[k + 1], n) ELSE g[s]]
  <2>2. ASSUME NEW s \in SUBSET (1..(k + 1)) PROVE h[s] = Body(h, s)
    <3>1. CASE k + 1 \in s
      <4>1. Max(s) = k + 1
        <5>1. s \subseteq Nat /\ \A y \in s : y =< k + 1
          OBVIOUS
        <5> QED BY <3>1, <5>1, MaxOf
      <4>2. s \ {k + 1} \in SUBSET (1..k) /\ s \ {k + 1} \in SUBSET (1..(k + 1))
        OBVIOUS
      <4>3. h[s \ {k + 1}] = g[s \ {k + 1}]
        BY <4>2
      <4> QED BY <3>1, <4>1, <4>3
    <3>2. CASE k + 1 \notin s
      <4>1. s \in SUBSET (1..k)
        BY <3>2
      <4>2. h[s] = g[s] /\ g[s] = Body(g, s)
        BY <2>1, <3>2, <4>1
      <4>3. s # {} => h[s \ {Max(s)}] = g[s \ {Max(s)}]
        BY <4>1, <3>2
      <4> QED BY <4>2, <4>3
    <3> QED BY <3>1, <3>2
  <2>3. Def(k + 1, h)
    <3> HIDE DEF Body
    <3>1. h = [s \in SUBSET (1..(k + 1)) |-> h[s]]
      OBVIOUS
    <3> HIDE DEF h
    <3> QED BY <2>2, <3>1
  <2> HIDE DEF Def
  <2> QED BY <2>3
<1>3. \E g : Def(N, g)
  <2> HIDE DEF Def
  <2>1. N \in Nat /\ \A k \in 0..N : k \in P
    BY <1>1, <1>2, NatInd
  <2> QED BY <2>1
<1> DEFINE iter == CHOOSE g : Def(N, g)
<1>4. Def(N, iter)
  <2> HIDE DEF Def
  <2> QED BY <1>3
<1>5. ReadKmsg(o, n) = iter[1..N].buf
  BY DEF ReadKmsg, FoldLeft, MapThenFoldSet, Base
<1> HIDE DEF iter
<1> DEFINE st == [k \in 0..N |-> iter[1..k]]
<1>6. st[0] = Base(o)
  BY <1>4, 1..0 = {}, {} \in SUBSET (1..N)
<1>7. ASSUME NEW k \in 1..N PROVE st[k] = KmsgStep(st[k - 1], msgs[k], n)
  <2>1. /\ 1..k \in SUBSET (1..N) /\ 1..k # {}
        /\ Max(1..k) = k /\ (1..k) \ {k} = 1..(k - 1)
        /\ k \in 0..N /\ k - 1 \in 0..N
    <3>1. N \in Nat
      OBVIOUS
    <3> HIDE DEF N, st
    <3> QED BY <3>1, Interval
  <2>5. iter[1..k] = Body(iter, 1..k)
    BY <1>4, <2>1
  <2> QED BY <2>1, <2>5
<1>8. ReadKmsg(o, n) = st[N].buf
  BY <1>5
<1> QED BY <1>6, <1>7, <1>8 DEF KmsgSteps

-----------------------------------------------------------------------------
(* Sequences, element by element. *)
LEMMA CatFacts ==
  ASSUME NEW S, NEW s \in Seq(S), NEW t \in Seq(S)
  PROVE  /\ s \o t \in Seq(S)
         /\ Len(s) \in Nat /\ Len(t) \in Nat
         /\ Len(s \o t) = Len(s) + Len(t)
         /\ \A i \in 1..(Len(s) + Len(t)) :
              (s \o t)[i] = IF i =< Len(s) THEN s[i] ELSE t[i - Len(s)]
BY ConcatProperties, LenProperties

(* The part of a sequence between two positions. *)
LEMMA SubFacts ==
  ASSUME NEW S, NEW s \in Seq(S), NEW a \in Nat \ {0}, NEW b \in Nat, a > b \/ b =< Len(s)
  PROVE  /\ SubSeq(s, a, b) \in Seq(S)
         /\ Len(SubSeq(s, a, b)) = IF a =< b THEN b - a + 1 ELSE 0
         /\ \A i \in 1..(b - a + 1) : SubSeq(s, a, b)[i] = s[a + i - 1]
<1>1. \A i \in a..b : s[i] \in S
  <2> SUFFICES ASSUME NEW i \in a..b PROVE s[i] \in S
    OBVIOUS
  <2>1. i \in 1..Len(s)
    BY LenProperties
  <2> QED BY <2>1, ElementOfSeq
<1>2. a \in Int /\ b \in Int
  OBVIOUS
<1> QED BY <1>1, <1>2, SubSeqProperties

LEMMA MinOf ==
  ASSUME NEW a \in Nat, NEW b \in Nat
  PROVE  Min({a, b}) = IF a =< b THEN a ELSE b
<1> DEFINE x == IF a =< b THEN a ELSE b
<1>1. x \in {a, b} /\ \A y \in {a, b} : x =< y
  OBVIOUS
<1>2. Min({a, b}) \in {a, b} /\ \A y \in {a, b} : Min({a, b}) =< y
  <2> HIDE DEF x
  <2> QED BY <1>1, Zenon DEF Min
<1> QED BY <1>1, <1>2

(* What a read of n bytes at offset o returns of a text, and what is left   *)
(* of the offset.                                                          *)
Least(a, b) == IF a =< b THEN a ELSE b
Window(text, o, n) == SubSeq(text, o + 1, Least(o + n, Len(text)))
Left(text, o, n) == IF n = 0 THEN o ELSE IF o >= Len(text) THEN o - Len(text) ELSE 0

LEMMA WindowFacts ==
  ASSUME NEW S, NEW text \in Seq(S), NEW o \in Nat, NEW n \in Nat
  PROVE  /\ Window(text, o, n) \in Seq(S)
         /\ Len(text) \in Nat
         /\ Len(Window(text, o, n)) = IF o + n =< Len(text) THEN n
                                      ELSE IF o =< Len(text) THEN Len(text) - o ELSE 0
         /\ \A i \in 1..Len(Window(text, o, n)) : Window(text, o, n)[i] = text[o + i]
<1> DEFINE L == Len(text)
           b == Least(o + n, L)
<1>1. L \in Nat
  BY LenProperties
<1> HIDE DEF L
<1>2. /\ b \in Nat /\ o + 1 \in Nat \ {0} /\ b =< L
      /\ (IF o + 1 =< b THEN b - (o + 1) + 1 ELSE 0)
            = IF o + n =< L THEN n ELSE IF o =< L THEN L - o ELSE 0
  BY <1>1 DEF Least
<1> HIDE DEF b
<1>3. /\ SubSeq(text, o + 1, b) \in Seq(S)
      /\ Len(SubSeq(text, o + 1, b)) = IF o + 1 =< b THEN b - (o + 1) + 1 ELSE 0
      /\ \A i \in 1..(b - (o + 1) + 1) : SubSeq(text, o + 1, b)[i] = text[(o + 1) + i - 1]
  BY <1>2, SubFacts DEF L
<1>4. Window(text, o, n) = SubSeq(text, o + 1, b)
  BY DEF Window, b, L
<1> DEFINE w == Window(text, o, n)
           k == Len(w)
<1>5. k = (IF o + 1 =< b THEN b - (o + 1) + 1 ELSE 0) /\ w \in Seq(S)
      /\ \A i \in 1..(b - (o + 1) + 1) : w[i] = text[(o + 1) + i - 1]
  BY <1>3, <1>4
<1> HIDE DEF w, k
<1>6. \A i \in 1..k : i \in 1..(b - (o + 1) + 1) /\ (o + 1) + i - 1 = o + i
  BY <1>2, <1>5
<1>7. \A i \in 1..k : w[i] = text[o + i]
  BY <1>5, <1>6
<1> QED BY <1>1, <1>2, <1>5, <1>7 DEF w, k, L

(* One message: the loop goes on with the text that the message extends. *)
LEMMA StepWindow ==
  ASSUME NEW S, NEW text \in Seq(S), NEW msg \in Seq(S), NEW o \in Nat, NEW n \in Nat
  PROVE  KmsgStep([buf |-> Window(text, o, n), offset |-> Left(text, o, n)], msg, n)
           = [buf |-> Window(text \o msg, o, n), offset |-> Left(text \o msg, o, n)]
<1> DEFINE w == Window(text, o, n)
           off == Left(text, o, n)
           L == Len(text)
           K == Len(msg)
           all == text \o msg
           v == Window(all, o, n)
           st == [buf |-> w, offset |-> off]
<1>1. /\ L \in Nat /\ K \in Nat /\ all \in Seq(S) /\ Len(all) = L + K
      /\ \A i \in 1..(L + K) : all[i] = IF i =< L THEN text[i] ELSE msg[i - L]
  BY CatFacts
<1>2. /\ w \in Seq(S) /\ Len(w) = IF o + n =< L THEN n ELSE IF o =< L THEN L - o ELSE 0
      /\ \A i \in 1..Len(w) : w[i] = text[o + i]
  BY WindowFacts
<1>3. /\ v \in Seq(S)
      /\ Len(v) = IF o + n =< L + K THEN n ELSE IF o =< L + K THEN L + K - o ELSE 0
      /\ \A i \in 1..Len(v) : v[i] = all[o + i]
  <2>1. /\ v \in Seq(S)
        /\ Len(v) = IF o + n =< Len(all) THEN n
                    ELSE IF o =< Len(all) THEN Len(all) - o ELSE 0
        /\ \A i \in 1..Len(v) : v[i] = all[o + i]
    <3>1. all \in Seq(S)
      BY <1>1
    <3> HIDE DEF all, L, K
    <3> QED BY <3>1, WindowFacts
  <2> HIDE DEF all, L, K, v
  <2> QED BY <1>1, <2>1
<1>4. /\ off = IF n = 0 THEN o ELSE IF o >= L THEN o - L ELSE 0
      /\ Left(all, o, n) = IF n = 0 THEN o ELSE IF o >= L + K THEN o - (L + K) ELSE 0
  BY <1>1 DEF Left
<1>5. st.buf = w /\ st.offset = off
  OBVIOUS
<1>6. CASE Len(w) = n
  <2>1. KmsgStep(st, msg, n) = st
    BY <1>5, <1>6 DEF KmsgStep
  <2>2. Len(v) = n /\ Left(all, o, n) = off
    <3> HIDE DEF w, off, L, K, all, v
    <3> QED BY <1>1, <1>2, <1>3, <1>4, <1>6
  <2>3. \A i \in 1..Len(w) : w[i] = v[i]
    <3> SUFFICES ASSUME NEW i \in 1..Len(w) PROVE w[i] = v[i]
      OBVIOUS
    <3> HIDE DEF w, off, L, K, all, v
    <3>1. n # 0 /\ o + n =< L
      BY <1>1, <1>2, <1>6
    <3>2. o + i \in 1..(L + K) /\ o + i =< L /\ i \in 1..Len(v)
      BY <1>1, <1>6, <2>2, <3>1
    <3> QED BY <1>1, <1>2, <1>3, <3>2
  <2>4. w = v
    <3> HIDE DEF w, v
    <3> QED BY <1>2, <1>3, <1>6, <2>2, <2>3, SeqEqual
  <2> QED BY <2>1, <2>2, <2>4
<1>7. CASE Len(w) # n /\ off >= K
  <2>1. KmsgStep(st, msg, n) = [buf |-> w, offset |-> off - K]
    BY <1>7, <1>5 DEF KmsgStep
  <2>2. Len(v) = Len(w) /\ Left(all, o, n) = off - K
    <3> HIDE DEF w, off, L, K, all, v
    <3> QED BY <1>1, <1>2, <1>3, <1>4, <1>7
  <2>3. \A i \in 1..Len(w) : w[i] = v[i]
    <3> SUFFICES ASSUME NEW i \in 1..Len(w) PROVE w[i] = v[i]
      OBVIOUS
    <3> HIDE DEF w, off, L, K, all, v
    <3>1. o + i \in 1..(L + K) /\ o + i =< L /\ i \in 1..Len(v)
      BY <1>1, <1>2, <2>2
    <3> QED BY <1>1, <1>2, <1>3, <3>1
  <2>4. w = v
    <3> HIDE DEF w, v
    <3> QED BY <1>2, <1>3, <2>2, <2>3, SeqEqual
  <2> QED BY <2>1, <2>2, <2>4
<1>8. CASE Len(w) # n /\ ~(off >= K)
  <2> DEFINE size == Min({n - Len(w), K - off})
             sub == SubSeq(msg, off + 1, off + size)
  <2>1. KmsgStep(st, msg, n) = [buf |-> w \o sub, offset |-> 0]
    BY <1>8, <1>5 DEF KmsgStep
  <2>2. n - Len(w) \in Nat /\ K - off \in Nat /\ off \in Nat /\ Len(w) \in Nat
    <3> HIDE DEF w, off, L, K, all, v
    <3> QED BY <1>1, <1>2, <1>4, <1>8
  <2>3. size = IF n - Len(w) =< K - off THEN n - Len(w) ELSE K - off
    <3> HIDE DEF w, off, L, K, all, v
    <3> QED BY <2>2, MinOf
  <2>4. size \in Nat /\ off + size =< K /\ off + 1 \in Nat \ {0} /\ off + size \in Nat
    <3> HIDE DEF w, off, L, K, all, v, size
    <3> QED BY <1>1, <2>2, <2>3
  <2>5. /\ sub \in Seq(S) /\ Len(sub) = size
        /\ \A i \in 1..size : sub[i] = msg[off + i]
    <3>1. /\ sub \in Seq(S)
          /\ Len(sub) = IF off + 1 =< off + size THEN (off + size) - (off + 1) + 1 ELSE 0
          /\ \A i \in 1..((off + size) - (off + 1) + 1) : sub[i] = msg[(off + 1) + i - 1]
      <4> HIDE DEF w, off, size
      <4> QED BY <2>4, SubFacts
    <3> HIDE DEF w, off, L, K, all, v, size, sub
    <3>2. \A i \in 1..size : /\ i \in 1..((off + size) - (off + 1) + 1)
                              /\ (off + 1) + i - 1 = off + i
      BY <2>2, <2>4
    <3>3. (IF off + 1 =< off + size THEN (off + size) - (off + 1) + 1 ELSE 0) = size
      BY <2>2, <2>4
    <3> QED BY <3>1, <3>2, <3>3
  <2>6. /\ w \o sub \in Seq(S) /\ Len(w \o sub) = Len(w) + size
        /\ \A i \in 1..(Len(w) + size) :
             (w \o sub)[i] = IF i =< Len(w) THEN w[i] ELSE sub[i - Len(w)]
    <3> HIDE DEF w, sub, size
    <3> QED BY <1>2, <2>5, CatFacts
  <2>7. Len(v) = Len(w) + size /\ Left(all, o, n) = 0
    <3> HIDE DEF w, off, L, K, all, v, size, sub
    <3> QED BY <1>1, <1>2, <1>3, <1>4, <1>8, <2>2, <2>3
  <2>8. ASSUME NEW i \in 1..(Len(w) + size) PROVE (w \o sub)[i] = v[i]
    <3>0. o + i \in 1..(L + K) /\ i \in 1..Len(v)
      <4> DEFINE b == Len(v)
      <4>1. i \in 1..b
        BY <2>7
      <4>2. b = IF o + n =< L + K THEN n ELSE IF o =< L + K THEN L + K - o ELSE 0
        BY <1>3
      <4> HIDE DEF w, off, L, K, all, v, size, sub, b
      <4>3. o + i \in 1..(L + K)
        BY <1>1, <4>1, <4>2
      <4> QED BY <4>1, <4>3 DEF b
    <3>1. CASE i =< Len(w)
      <4> HIDE DEF w, off, L, K, all, v, size, sub
      <4>1. i \in 1..Len(w) /\ o + i =< L
        BY <1>1, <1>2, <2>2, <2>4, <3>1
      <4>2. v[i] = text[o + i] /\ w[i] = text[o + i]
        BY <1>1, <1>2, <1>3, <3>0, <4>1
      <4> QED BY <2>6, <3>1, <4>2
    <3>2. CASE ~(i =< Len(w))
      <4> HIDE DEF w, off, L, K, all, v, size, sub
      <4>1. /\ ~(o + i =< L) /\ i - Len(w) \in 1..size
            /\ (o + i) - L = off + (i - Len(w))
        BY <1>1, <1>2, <1>4, <1>8, <2>2, <2>3, <2>4, <3>2
      <4> QED BY <1>1, <1>3, <2>5, <2>6, <3>0, <3>2, <4>1
    <3> QED BY <3>1, <3>2
  <2>9. w \o sub = v
    <3> HIDE DEF w, sub, v, size
    <3> QED BY <1>3, <2>6, <2>7, <2>8, SeqEqual
  <2> QED BY <2>1, <2>7, <2>9
<1> QED BY <1>6, <1>7, <1>8

-----------------------------------------------------------------------------
(* The text of the first k messages. *)
TextSteps(ms, tx) ==
    /\ tx[0] = << >>
    /\ \A k \in 1..Len(ms) : tx[k] = tx[k - 1] \o ms[k]

LEMMA FlattenExists ==
  ASSUME NEW ms, NEW N \in Nat
  PROVE  \E g : g = [i \in 1..N |-> IF i = 1 THEN ms[i] ELSE g[i - 1] \o ms[i]]
<1> DEFINE Body(g, i) == IF i = 1 THEN ms[i] ELSE g[i - 1] \o ms[i]
           Def(k, g) == g = [i \in 1..k |-> Body(g, i)]
           P == {k \in Nat : \E g : Def(k, g)}
<1>1. 0 \in P
  <2> DEFINE g == [i \in 1..0 |-> << >>]
  <2>1. Def(0, g)
    OBVIOUS
  <2> QED BY <2>1
<1>2. ASSUME NEW k \in 0..(N - 1), k \in P PROVE k + 1 \in P
  <2>1. PICK g : Def(k, g)
    BY <1>2
  <2> DEFINE h == [i \in 1..(k + 1) |-> IF i =< k THEN g[i] ELSE Body(g, i)]
  <2>2. ASSUME NEW i \in 1..(k + 1) PROVE h[i] = Body(h, i)
    <3>1. i # 1 => i - 1 \in 1..k /\ i - 1 \in 1..(k + 1) /\ h[i - 1] = g[i - 1]
      OBVIOUS
    <3>2. i =< k => g[i] = Body(g, i)
      <4>1. i =< k => i \in 1..k
        OBVIOUS
      <4> HIDE DEF Body, h
      <4> QED BY <2>1, <4>1
    <3> QED BY <3>1, <3>2
  <2>3. Def(k + 1, h)
    <3> HIDE DEF Body
    <3>1. h = [i \in 1..(k + 1) |-> h[i]]
      OBVIOUS
    <3> HIDE DEF h
    <3> QED BY <2>2, <3>1
  <2> HIDE DEF Def
  <2> QED BY <2>3
<1> HIDE DEF Def
<1>3. N \in P
  <2>1. N \in 0..N
    OBVIOUS
  <2> HIDE DEF P
  <2> QED BY <1>1, <1>2, <2>1, NatInd
<1> QED BY <1>3 DEF Def

LEMMA TextLoop ==
  ASSUME NEW S, NEW ms \in Seq(Seq(S))
  PROVE  \E tx \in [0..Len(ms) -> Seq(S)] : TextSteps(ms, tx) /\ Text(ms) = tx[Len(ms)]
<1> DEFINE N == Len(ms)
           E == Seq(S)
<1>1. N \in Nat /\ \A i \in 1..N : ms[i] \in E
  <2>1. ms \in Seq(E)
    OBVIOUS
  <2> HIDE DEF E
  <2> QED BY <2>1, LenProperties, ElementOfSeq
<1>2. CASE N = 0
  <2> DEFINE tx == [k \in 0..0 |-> << >>]
  <2>1. Text(ms) = << >>
    <3>1. ms = << >>
      <4> HIDE DEF E
      <4> QED BY <1>2, EmptySeq
    <3> QED BY <1>2, <3>1 DEF Text, FlattenSeq
  <2>2. tx \in [0..N -> E] /\ TextSteps(ms, tx) /\ Text(ms) = tx[N]
    BY <1>2, <2>1 DEF TextSteps
  <2> QED BY <2>2
<1>3. CASE N # 0
  <2> DEFINE Body(g, i) == IF i = 1 THEN ms[i] ELSE g[i - 1] \o ms[i]
             Def(g) == g = [i \in 1..N |-> Body(g, i)]
             fl == CHOOSE g : Def(g)
             tx == [k \in 0..N |-> IF k = 0 THEN << >> ELSE fl[k]]
             P == {k \in 0..N : tx[k] \in E}
  <2>1. Def(fl)
    <3>1. \E g : Def(g)
      BY <1>1, FlattenExists
    <3> HIDE DEF Def
    <3> QED BY <3>1
  <2>2. Text(ms) = fl[N]
    BY <1>3 DEF Text, FlattenSeq
  <2> HIDE DEF fl
  <2>10. \A k \in 1..N : fl[k] = Body(fl, k)
    <3> HIDE DEF Body
    <3> QED BY <2>1
  <2>3. ASSUME NEW k \in 1..N, tx[k - 1] \in E
        PROVE  tx[k] = tx[k - 1] \o ms[k] /\ tx[k] \in E
    <3>1. ms[k] \in E /\ k \in 0..N /\ k - 1 \in 0..N
      BY <1>1
    <3>2. tx[k] = IF k = 1 THEN ms[k] ELSE fl[k - 1] \o ms[k]
      <4>1. tx[k] = fl[k]
        BY <3>1
      <4> HIDE DEF tx, N
      <4> QED BY <2>10, <4>1
    <3>3. tx[k] = tx[k - 1] \o ms[k]
      <4>1. CASE k = 1
        <5>1. tx[k - 1] = << >>
          BY <4>1
        <5>2. << >> \o ms[k] = ms[k]
          <6> HIDE DEF N, tx
          <6> QED BY <3>1, ConcatEmptySeq
        <5> HIDE DEF tx
        <5> QED BY <3>2, <4>1, <5>1, <5>2
      <4>2. CASE k # 1
        <5>1. tx[k - 1] = fl[k - 1]
          BY <3>1, <4>2
        <5> HIDE DEF tx
        <5> QED BY <3>2, <4>2, <5>1
      <4> QED BY <4>1, <4>2
    <3>4. tx[k - 1] \o ms[k] \in E
      <4> HIDE DEF N, tx
      <4> QED BY <2>3, <3>1, ConcatProperties
    <3> QED BY <3>3, <3>4
  <2>4. 0 \in P
    <3>1. tx[0] = << >>
      BY <1>1
    <3>2. << >> \in E
      BY EmptySeq
    <3> QED BY <1>1, <3>1, <3>2
  <2>5. ASSUME NEW k \in 0..(N - 1), k \in P PROVE k + 1 \in P
    <3>1. k + 1 \in 1..N /\ (k + 1) - 1 = k /\ tx[k] \in E
      BY <1>1, <2>5
    <3>2. tx[k + 1] \in E
      <4> HIDE DEF tx, E, N
      <4> QED BY <2>3, <3>1
    <3> QED BY <3>1, <3>2
  <2>6. \A k \in 0..N : tx[k] \in E
    <3>1. \A k \in 0..N : k \in P
      <4> HIDE DEF P, N
      <4> QED BY <1>1, <2>4, <2>5, NatInd
    <3> QED BY <3>1
  <2>7. tx \in [0..N -> E]
    <3>1. tx = [k \in 0..N |-> tx[k]]
      OBVIOUS
    <3> HIDE DEF tx, N, E
    <3> QED BY <2>6, <3>1
  <2>8. TextSteps(ms, tx)
    <3>1. tx[0] = << >>
      BY <1>1
    <3>2. ASSUME NEW k \in 1..N PROVE tx[k] = tx[k - 1] \o ms[k]
      <4>1. k - 1 \in 0..N
        BY <1>1
      <4> HIDE DEF tx, N, E
      <4> QED BY <2>3, <2>6, <4>1
    <3> HIDE DEF tx
    <3> QED BY <3>1, <3>2 DEF TextSteps
  <2>9. Text(ms) = tx[N]
    BY <1>1, <1>3, <2>2
  <2> HIDE DEF tx
  <2> QED BY <2>7, <2>8, <2>9
<1> QED BY <1>2, <1>3

(* What a read of /dev/kmsg returns. *)
LEMMA ReadWindow ==
  ASSUME NEW S, msgs \in Seq(Seq(S)), NEW o \in Nat, NEW n \in Nat
  PROVE  ReadKmsg(o, n) = Window(Text(msgs), o, n) /\ Text(msgs) \in Seq(S)
<1> DEFINE N == Len(msgs)
           E == Seq(S)
<1>1. N \in Nat /\ DOMAIN msgs = 1..N /\ \A i \in 1..N : msgs[i] \in E
  <2>1. msgs \in Seq(E)
    OBVIOUS
  <2> HIDE DEF E
  <2> QED BY <2>1, LenProperties, ElementOfSeq
<1>2. PICK tx \in [0..N -> E] : TextSteps(msgs, tx) /\ Text(msgs) = tx[N]
  BY TextLoop
<1>3. PICK st : KmsgSteps(o, n, st) /\ ReadKmsg(o, n) = st[N].buf
  BY <1>1, KmsgLoop
<1> DEFINE At(k) == [buf |-> Window(tx[k], o, n), offset |-> Left(tx[k], o, n)]
           P == {k \in 0..N : st[k] = At(k)}
<1>4. 0 \in P
  <2>1. tx[0] = << >> /\ st[0] = [buf |-> << >>, offset |-> o]
    BY <1>2, <1>3 DEF TextSteps, KmsgSteps, Base
  <2>2. << >> \in Seq(S) /\ Len(<< >>) = 0
    BY EmptySeq
  <2>3. Window(<< >>, o, n) = << >>
    <3>1. Least(o + n, 0) \in Int /\ o + 1 \in Int /\ Least(o + n, 0) < o + 1
      BY DEF Least
    <3> QED BY <2>2, <3>1, SubSeqEmpty DEF Window
  <2>4. Left(<< >>, o, n) = o
    BY <2>2 DEF Left
  <2> QED BY <1>1, <2>1, <2>3, <2>4
<1>5. ASSUME NEW k \in 0..(N - 1), k \in P PROVE k + 1 \in P
  <2>1. k + 1 \in 1..N /\ (k + 1) - 1 = k /\ k \in 0..N /\ k + 1 \in 0..N
    BY <1>1
  <2>2. tx[k + 1] = tx[k] \o msgs[k + 1] /\ st[k + 1] = KmsgStep(st[k], msgs[k + 1], n)
    BY <1>2, <1>3, <2>1 DEF TextSteps, KmsgSteps
  <2>3. tx[k] \in Seq(S) /\ msgs[k + 1] \in Seq(S)
    BY <1>1, <2>1
  <2>4. st[k] = At(k)
    BY <1>5
  <2>5. KmsgStep(At(k), msgs[k + 1], n)
          = [buf |-> Window(tx[k] \o msgs[k + 1], o, n),
             offset |-> Left(tx[k] \o msgs[k + 1], o, n)]
    BY <2>3, StepWindow
  <2>6. st[k + 1] = At(k + 1)
    <3>1. st[k + 1] = KmsgStep(At(k), msgs[k + 1], n)
      BY <2>2, <2>4
    <3> QED BY <2>2, <2>5, <3>1
  <2> QED BY <2>1, <2>6
<1>6. st[N] = At(N)
  <2>1. N \in P
    <3> HIDE DEF P, N
    <3>1. N \in 0..N
      BY <1>1
    <3> QED BY <1>1, <1>4, <1>5, <3>1, NatInd
  <2> QED BY <2>1
<1>7. tx[N] \in E
  BY <1>1
<1> QED BY <1>2, <1>3, <1>6, <1>7

(* A message extends the text. *)
LEMMA TextAppend ==
  ASSUME NEW S, NEW ms \in Seq(Seq(S)), NEW m \in Seq(S)
  PROVE  Text(Append(ms, m)) = Text(ms) \o m
<1> DEFINE N == Len(ms)
           E == Seq(S)
           all == Append(ms, m)
<1>1. /\ N \in Nat /\ all \in Seq(E) /\ Len(all) = N + 1
      /\ \A i \in 1..N : all[i] = ms[i]
      /\ all[N + 1] = m
  <2> HIDE DEF E
  <2>1. m \in E /\ ms \in Seq(E)
    BY DEF E
  <2> QED BY <2>1, AppendProperties, LenProperties
<1>2. PICK tx \in [0..N -> E] : TextSteps(ms, tx) /\ Text(ms) = tx[N]
  BY TextLoop
<1>3. PICK ty \in [0..Len(all) -> E] : TextSteps(all, ty) /\ Text(all) = ty[Len(all)]
  <2> HIDE DEF all
  <2> QED BY <1>1, TextLoop
<1> HIDE DEF all
<1> DEFINE P == {k \in 0..N : tx[k] = ty[k]}
<1>4. 0 \in P
  BY <1>1, <1>2, <1>3 DEF TextSteps
<1>5. ASSUME NEW k \in 0..(N - 1), k \in P PROVE k + 1 \in P
  <2>1. k + 1 \in 1..N /\ k + 1 \in 1..(N + 1) /\ (k + 1) - 1 = k /\ k + 1 \in 0..N
    BY <1>1
  <2>2. tx[k + 1] = tx[k] \o ms[k + 1] /\ ty[k + 1] = ty[k] \o all[k + 1]
    BY <1>1, <1>2, <1>3, <2>1 DEF TextSteps
  <2>3. all[k + 1] = ms[k + 1] /\ tx[k] = ty[k]
    BY <1>1, <1>5, <2>1
  <2> QED BY <2>1, <2>2, <2>3
<1>6. tx[N] = ty[N]
  <2>1. N \in P
    <3> HIDE DEF P, N
    <3>1. N \in 0..N
      BY <1>1
    <3> QED BY <1>1, <1>4, <1>5, <3>1, NatInd
  <2> QED BY <2>1
<1>7. ty[N + 1] = ty[N] \o m
  <2>1. N + 1 \in 1..Len(all) /\ (N + 1) - 1 = N
    BY <1>1
  <2>2. ty[N + 1] = ty[(N + 1) - 1] \o all[N + 1]
    <3> HIDE DEF N
    <3> QED BY <1>3, <2>1 DEF TextSteps
  <2> QED BY <1>1, <2>1, <2>2
<1> QED BY <1>1, <1>2, <1>3, <1>6, <1>7 DEF all
-----------------------------------------------------------------------------
(* The types that TypeOK leaves open. *)
Bytes == Nat \X Nat
Names == DEVFS_FILES \cup Devices
SeenType == [name : Names, open : BOOLEAN, base : Int, got : Seq(Bytes)]

TypeInv ==
    /\ TypeOK
    /\ IsFiniteSet(DOMAIN fds)
    /\ DOMAIN tables = Tasks /\ DOMAIN seen = Tasks
    /\ \A t \in Tasks : /\ DOMAIN tables[t] = {"max_fd", "fds"}
                        /\ \A f \in Opened(t) : seen[t][f] \in SeenType
    /\ msgs \in Seq(Seq(Bytes)) /\ log \in Seq(Seq(Bytes))

(* The numbers in devfs and the descriptors of the tasks. *)
Owned ==
    /\ DescriptorsOwn
    /\ \A t, u \in Tasks : \A f \in Opened(t), g \in Opened(u) :
         File(t, f).fd = File(u, g).fd => t = u /\ f = g
    /\ \A t \in Tasks : \A f \in Opened(t) : Known(t, f) => seen[t][f].open

(* The ring is the end of the log. *)
RingInv == RingKeepsNewest /\ Len(msgs) =< Len(log)

(* Only open descriptors of /dev/kmsg are followed, from no later message   *)
(* on than the ring's first.                                               *)
Followed ==
    \A t \in Tasks : \A f \in Opened(t) :
      LET s == seen[t][f]
      IN  s.base # -1 => s.name = "kmsg" /\ s.open /\ s.base \in 0..Dropped

(* A descriptor that is followed has read the text up to its offset. *)
Streamed ==
    \A t \in Tasks : \A f \in Opened(t) :
      seen[t][f].base = Dropped =>
        /\ File(t, f).offset =< Len(Text(msgs))
        /\ seen[t][f].got = SubSeq(Text(msgs), 1, File(t, f).offset)

FilesInv == TypeInv /\ RingInv /\ Followed /\ (~aliased => Owned /\ Streamed)

-----------------------------------------------------------------------------
FileType == [fd : Nat, offset : 0..OffMax]

LEMMA TypeFacts ==
  ASSUME TypeInv
  PROVE  /\ IsFiniteSet(DOMAIN fds) /\ NextNumber \in Nat
         /\ \A n \in DOMAIN fds : n \in Nat /\ fds[n] \in Names
         /\ DOMAIN tables = Tasks /\ DOMAIN seen = Tasks
         /\ \A t \in Tasks :
              /\ DOMAIN tables[t] = {"max_fd", "fds"}
              /\ tables[t].max_fd \in 0..MaxFd
              /\ DOMAIN tables[t].fds = 0..(tables[t].max_fd - 1)
              /\ DOMAIN seen[t] = DOMAIN tables[t].fds
              /\ \A f \in DOMAIN seen[t] : /\ tables[t].fds[f] \in FileType
                                           /\ seen[t][f] \in SeenType
         /\ OffMax \in Nat /\ MaxFd \in Nat
<1>1. NextNumber \in Nat
  BY FS_CardinalityType DEF TypeInv, NextNumber
<1> QED BY <1>1, FilesAssumption DEF TypeInv, TypeOK, Opened, File, FileType, Names

(* A descriptor gets a new offset. *)
WithOffset(t, f, o) == [tables EXCEPT ![t].fds[f].offset = o]

LEMMA OffsetSet ==
  ASSUME TypeInv, NEW t \in Tasks, NEW f \in DOMAIN tables[t].fds, NEW o \in 0..OffMax,
         tables' = WithOffset(t, f, o)
  PROVE  /\ DOMAIN tables' = Tasks
         /\ \A u \in Tasks :
              /\ DOMAIN tables'[u] = {"max_fd", "fds"}
              /\ tables'[u].max_fd = tables[u].max_fd
              /\ DOMAIN tables'[u].fds = DOMAIN tables[u].fds
              /\ \A g \in DOMAIN tables[u].fds :
                   /\ tables'[u].fds[g] \in FileType
                   /\ tables'[u].fds[g].fd = tables[u].fds[g].fd
                   /\ u # t \/ g # f => tables'[u].fds[g] = tables[u].fds[g]
         /\ tables'[t].fds[f].offset = o
<1> DEFINE file == [tables[t].fds[f] EXCEPT !.offset = o]
           map == [tables[t].fds EXCEPT ![f] = file]
           table == [tables[t] EXCEPT !.fds = map]
<1>1. /\ DOMAIN tables = Tasks
      /\ \A u \in Tasks :
              /\ DOMAIN tables[u] = {"max_fd", "fds"}
              /\ \A g \in DOMAIN tables[u].fds : tables[u].fds[g] \in FileType
  BY TypeFacts
<1>2. file \in FileType /\ file.fd = tables[t].fds[f].fd /\ file.offset = o
  <2>1. tables[t].fds[f] \in FileType
    BY <1>1
  <2> QED BY <2>1 DEF FileType
<1>3. tables' = [tables EXCEPT ![t] = table]
  BY DEF WithOffset
<1> HIDE DEF file
<1>4. /\ DOMAIN map = DOMAIN tables[t].fds /\ map[f] = file
      /\ \A g \in DOMAIN tables[t].fds : g # f => map[g] = tables[t].fds[g]
  OBVIOUS
<1> HIDE DEF map
<1>5. /\ DOMAIN table = {"max_fd", "fds"} /\ table.fds = map
      /\ table.max_fd = tables[t].max_fd
  BY <1>1
<1> HIDE DEF table
<1>6. DOMAIN tables' = Tasks /\ tables'[t] = table /\ \A u \in Tasks \ {t} : tables'[u] = tables[u]
  BY <1>1, <1>3
<1> QED BY <1>1, <1>2, <1>4, <1>5, <1>6

(* What is known of a descriptor changes. *)
WithSeen(t, f, s) == [seen EXCEPT ![t] = [seen[t] EXCEPT ![f] = s]]

LEMMA SeenSet ==
  ASSUME TypeInv, NEW t \in Tasks, NEW f \in DOMAIN seen[t], NEW s \in SeenType,
         seen' = WithSeen(t, f, s)
  PROVE  /\ DOMAIN seen' = Tasks
         /\ \A u \in Tasks :
              /\ DOMAIN seen'[u] = DOMAIN seen[u]
              /\ \A g \in DOMAIN seen[u] :
                   /\ seen'[u][g] \in SeenType
                   /\ u # t \/ g # f => seen'[u][g] = seen[u][g]
         /\ seen'[t][f] = s
<1> DEFINE map == [seen[t] EXCEPT ![f] = s]
<1>1. DOMAIN seen = Tasks /\ \A u \in Tasks : \A g \in DOMAIN seen[u] : seen[u][g] \in SeenType
  BY TypeFacts
<1>2. DOMAIN map = DOMAIN seen[t] /\ map[f] = s /\ \A g \in DOMAIN seen[t] : g # f => map[g] = seen[t][g]
  OBVIOUS
<1> HIDE DEF map
<1>3. DOMAIN seen' = Tasks /\ seen'[t] = map /\ \A u \in Tasks \ {t} : seen'[u] = seen[u]
  BY <1>1 DEF map, WithSeen
<1> QED BY <1>1, <1>2, <1>3

(* The ring, and that its text grows while it drops nothing. *)
LEMMA RingFacts ==
  ASSUME TypeInv, RingInv
  PROVE  /\ Len(msgs) \in Nat /\ Len(log) \in Nat /\ Dropped \in Nat
         /\ Text(msgs) \in Seq(Bytes) /\ Len(Text(msgs)) \in Nat
<1> DEFINE E == Seq(Bytes)
<1>1. msgs \in Seq(E) /\ log \in Seq(E)
  BY DEF TypeInv
<1>2. Len(msgs) \in Nat /\ Len(log) \in Nat
  <2> HIDE DEF E
  <2> QED BY <1>1, LenProperties
<1>3. Text(msgs) \in Seq(Bytes)
  BY <1>1, ReadWindow
<1>4. Len(Text(msgs)) \in Nat
  BY <1>3, LenProperties
<1> QED BY <1>2, <1>3, <1>4 DEF RingInv, Dropped

LEMMA TypeStep ==
  ASSUME IsFiniteSet(DOMAIN fds'),
         \A n \in DOMAIN fds' : n \in Nat /\ fds'[n] \in Names,
         DOMAIN tables' = Tasks, DOMAIN seen' = Tasks,
         \A t \in Tasks :
           /\ DOMAIN tables'[t] = {"max_fd", "fds"}
           /\ tables'[t].max_fd \in 0..MaxFd
           /\ DOMAIN tables'[t].fds = 0..(tables'[t].max_fd - 1)
           /\ DOMAIN seen'[t] = DOMAIN tables'[t].fds
           /\ \A f \in DOMAIN seen'[t] : /\ tables'[t].fds[f] \in FileType
                                         /\ seen'[t][f] \in SeenType,
         max_log' \in Nat, panic' \in BOOLEAN, aliased' \in BOOLEAN,
         msgs' \in Seq(Seq(Bytes)), log' \in Seq(Seq(Bytes))
  PROVE  TypeInv'
<1>1. TypeOK'
  BY DEF TypeOK, Opened, File, FileType, Names
<1> QED BY <1>1 DEF TypeInv, Opened

(* The state of the ring is left alone by system calls. *)
LEMMA RingSame ==
  ASSUME UNCHANGED <<msgs, max_log, log>>
  PROVE  /\ RingInv => RingInv'
         /\ Dropped' = Dropped /\ Text(msgs)' = Text(msgs)
BY DEF RingInv, RingKeepsNewest, Dropped

LEMMA ReceivedFacts ==
  ASSUME NEW s \in SeenType, NEW bytes \in Seq(Bytes)
  PROVE  /\ Received(s, bytes) \in SeenType
         /\ Received(s, bytes).name = s.name /\ Received(s, bytes).open = s.open
         /\ s.base = Dropped => /\ Received(s, bytes).base = s.base
                                /\ Received(s, bytes).got = s.got \o bytes
         /\ s.base # Dropped => Received(s, bytes).base = -1
<1>1. CASE s.base = Dropped
  <2>1. Received(s, bytes) = [s EXCEPT !.got = s.got \o bytes]
    BY <1>1 DEF Received
  <2>2. s.got \o bytes \in Seq(Bytes)
    <3>1. s.got \in Seq(Bytes)
      BY DEF SeenType
    <3> QED BY <3>1, ConcatProperties
  <2> DEFINE got == s.got \o bytes
  <2> HIDE DEF got
  <2>3. /\ [s EXCEPT !.got = got].name = s.name /\ [s EXCEPT !.got = got].open = s.open
        /\ [s EXCEPT !.got = got].base = s.base /\ [s EXCEPT !.got = got].got = got
    BY DEF SeenType
  <2>4. [s EXCEPT !.got = got] \in SeenType
    BY <2>2 DEF SeenType, got
  <2> QED BY <1>1, <2>1, <2>3, <2>4 DEF got
<1>2. CASE s.base # Dropped
  <2>1. Received(s, bytes) = [s EXCEPT !.base = -1, !.got = << >>]
    BY <1>2 DEF Received
  <2>2. << >> \in Seq(Bytes)
    BY EmptySeq
  <2> DEFINE r == [s EXCEPT !.base = -1, !.got = << >>]
  <2>3. r.name = s.name /\ r.open = s.open /\ r.base = -1
    BY DEF SeenType
  <2>4. r \in SeenType
    <3> DEFINE e == << >>
    <3>1. e \in Seq(Bytes) /\ -1 \in Int
      BY <2>2
    <3> HIDE DEF e
    <3> QED BY <3>1 DEF SeenType, e
  <2> HIDE DEF r
  <2> QED BY <1>2, <2>1, <2>3, <2>4 DEF r
<1> QED BY <1>1, <1>2

(* read and write: the offset moves by what was read or written, and what a *)
(* followed descriptor has read grows by the text between the offsets.     *)
LEMMA AdvanceFiles ==
  ASSUME FilesInv, NEW t \in Tasks, NEW f \in DOMAIN tables[t].fds,
         NEW size \in Nat, NEW bytes \in Seq(Bytes), Advance(t, f, size, bytes),
         UNCHANGED <<fds, msgs, max_log, log, aliased>>,
         ~aliased /\ seen[t][f].base = Dropped =>
           /\ File(t, f).offset + size =< Len(Text(msgs))
           /\ bytes = SubSeq(Text(msgs), File(t, f).offset + 1, File(t, f).offset + size)
  PROVE  FilesInv'
<1> DEFINE off == File(t, f).offset
<1>1. /\ TypeInv /\ RingInv /\ Followed /\ (~aliased => Owned /\ Streamed)
      /\ panic \in BOOLEAN /\ aliased \in BOOLEAN /\ max_log \in Nat
      /\ msgs \in Seq(Seq(Bytes)) /\ log \in Seq(Seq(Bytes))
  BY DEF FilesInv, TypeInv, TypeOK
<1>2. RingInv' /\ Dropped' = Dropped /\ Text(msgs)' = Text(msgs)
  BY <1>1, RingSame
<1>3. /\ f \in DOMAIN seen[t] /\ off \in 0..OffMax /\ OffMax \in Nat
      /\ seen[t][f] \in SeenType
  BY <1>1, TypeFacts DEF File, FileType
<1>4. CASE off + size > OffMax
  <2>1. panic' = TRUE /\ UNCHANGED <<tables, seen>>
    BY <1>4 DEF Advance
  <2>2. TypeInv'
    BY <1>1, <2>1 DEF TypeInv, TypeOK, Opened, File
  <2>3. Followed'
    BY <1>1, <1>2, <2>1 DEF Followed, Opened
  <2>4. aliased' = aliased /\ (Owned => Owned')
    BY <2>1 DEF Owned, DescriptorsOwn, Opened, File, Known, Held, Name
  <2>5. Streamed => Streamed'
    BY <1>2, <2>1 DEF Streamed, Opened, File
  <2> QED BY <1>1, <1>2, <2>2, <2>3, <2>4, <2>5 DEF FilesInv
<1>5. CASE ~(off + size > OffMax)
  <2> DEFINE s == Received(seen[t][f], bytes)
             o == off + size
  <2>1. tables' = WithOffset(t, f, o) /\ seen' = WithSeen(t, f, s) /\ panic' = panic
    BY <1>5 DEF Advance, File, WithOffset, WithSeen
  <2>2. o \in 0..OffMax /\ o \in Nat
    <3> HIDE DEF off
    <3> QED BY <1>3, <1>5
  <2>3. /\ s \in SeenType /\ s.name = seen[t][f].name /\ s.open = seen[t][f].open
        /\ seen[t][f].base = Dropped => /\ s.base = seen[t][f].base
                                        /\ s.got = seen[t][f].got \o bytes
        /\ seen[t][f].base # Dropped => s.base = -1
    BY <1>3, ReceivedFacts
  <2> HIDE DEF s, o
  <2>4. /\ DOMAIN tables' = Tasks
        /\ \A u \in Tasks :
             /\ DOMAIN tables'[u] = {"max_fd", "fds"}
             /\ tables'[u].max_fd = tables[u].max_fd
             /\ DOMAIN tables'[u].fds = DOMAIN tables[u].fds
             /\ \A g \in DOMAIN tables[u].fds :
                  /\ tables'[u].fds[g] \in FileType
                  /\ tables'[u].fds[g].fd = tables[u].fds[g].fd
                  /\ u # t \/ g # f => tables'[u].fds[g] = tables[u].fds[g]
        /\ tables'[t].fds[f].offset = o
    BY <1>1, <2>1, <2>2, OffsetSet
  <2>5. /\ DOMAIN seen' = Tasks
        /\ \A u \in Tasks :
             /\ DOMAIN seen'[u] = DOMAIN seen[u]
             /\ \A g \in DOMAIN seen[u] :
                  /\ seen'[u][g] \in SeenType
                  /\ u # t \/ g # f => seen'[u][g] = seen[u][g]
        /\ seen'[t][f] = s
    BY <1>1, <1>3, <2>1, <2>3, SeenSet
  <2>6. TypeInv'
    BY <1>1, <2>1, <2>4, <2>5, TypeFacts, TypeStep
  <2>7. \A u \in Tasks : /\ Opened(u)' = Opened(u) /\ Opened(u) = DOMAIN tables[u].fds
                         /\ \A g \in Opened(u) :
                              /\ seen'[u][g].name = seen[u][g].name
                              /\ seen'[u][g].open = seen[u][g].open
                              /\ seen'[u][g].base \in {seen[u][g].base, -1}
                              /\ File(u, g)'.fd = File(u, g).fd
    BY <1>1, <2>3, <2>4, <2>5, TypeFacts DEF Opened, File
  <2>8. Followed'
    <3> SUFFICES ASSUME NEW u \in Tasks, NEW g \in Opened(u), seen'[u][g].base # -1
                 PROVE  /\ seen'[u][g].name = "kmsg" /\ seen'[u][g].open
                        /\ seen'[u][g].base \in 0..Dropped
      BY <1>2, <2>7 DEF Followed
    <3>1. seen'[u][g].base = seen[u][g].base
      BY <2>7
    <3>2. seen[u][g].name = "kmsg" /\ seen[u][g].open /\ seen[u][g].base \in 0..Dropped
      BY <1>1, <3>1 DEF Followed
    <3> QED BY <2>7, <3>1, <3>2
  <2>9. ASSUME ~aliased' PROVE Owned' /\ Streamed'
    <3>1. Owned /\ Streamed /\ fds' = fds
      BY <1>1, <2>9
    <3>2. \A u \in Tasks : \A g \in Opened(u) :
             (Known(u, g)' <=> Known(u, g)) /\ Name(u, g)' = Name(u, g)
      BY <2>4, <2>7, <3>1 DEF Known, Held, Name
    <3>3. Owned'
      BY <2>7, <3>1, <3>2 DEF Owned, DescriptorsOwn
    <3>4. ASSUME NEW u \in Tasks, NEW g \in Opened(u), seen'[u][g].base = Dropped'
          PROVE  /\ File(u, g)'.offset =< Len(Text(msgs)')
                 /\ seen'[u][g].got = SubSeq(Text(msgs)', 1, File(u, g)'.offset)
      <4>1. CASE u = t /\ g = f
        <5> DEFINE T == Text(msgs)
        <5>1. T \in Seq(Bytes) /\ Len(T) \in Nat /\ Dropped \in Nat
          BY <1>1, RingFacts
        <5>2. seen[t][f].base = Dropped /\ s.got = seen[t][f].got \o bytes
          BY <1>2, <2>3, <2>5, <3>4, <4>1, <5>1
        <5>3. /\ o =< Len(T) /\ bytes = SubSeq(T, off + 1, o)
              /\ seen[t][f].got = SubSeq(T, 1, off)
          BY <1>3, <2>9, <3>1, <5>2 DEF Streamed, Opened, o
        <5>4. SubSeq(T, 1, off) \o SubSeq(T, off + 1, o) = SubSeq(T, 1, o)
          <6>1. 1 \in 1..(Len(T) + 1) /\ off \in (1 - 1)..Len(T) /\ o \in off..Len(T)
            <7>1. o = off + size /\ o =< Len(T)
              BY <5>3 DEF o
            <7> DEFINE L == Len(T)
            <7> HIDE DEF off, T, L
            <7> QED BY <1>3, <2>2, <5>1, <7>1 DEF L
          <6> HIDE DEF off, T
          <6> QED BY <5>1, <6>1, ConcatAdjacentSubSeq
        <5> QED BY <1>2, <2>4, <2>5, <4>1, <5>2, <5>3, <5>4 DEF File
      <4>2. CASE u # t \/ g # f
        BY <1>2, <2>4, <2>5, <2>7, <3>1, <3>4, <4>2 DEF Streamed, File, Opened
      <4> QED BY <4>1, <4>2
    <3>5. Streamed'
      BY <2>7, <3>4 DEF Streamed
    <3> QED BY <3>3, <3>5
  <2> QED BY <1>2, <2>6, <2>8, <2>9 DEF FilesInv
<1> QED BY <1>4, <1>5

(* A followed descriptor is one of /dev/kmsg. *)
LEMMA FollowedName ==
  ASSUME FilesInv, ~aliased, NEW t \in Tasks, NEW f \in DOMAIN tables[t].fds,
         seen[t][f].base = Dropped
  PROVE  Name(t, f) = "kmsg"
<1>1. TypeInv /\ RingInv /\ Followed /\ Owned
  BY DEF FilesInv
<1>2. Dropped \in Nat /\ f \in Opened(t)
  BY <1>1, RingFacts, TypeFacts DEF Opened
<1>3. seen[t][f].base # -1
  BY <1>2
<1>4. seen[t][f].name = "kmsg" /\ seen[t][f].open
  BY <1>1, <1>2, <1>3 DEF Followed
<1> QED BY <1>1, <1>2, <1>4 DEF Owned, DescriptorsOwn

LEMMA ReadFiles ==
  ASSUME FilesInv, NEW t \in Tasks, NEW f \in DOMAIN tables[t].fds, NEW n \in Sizes,
         syscall_read(t, f, n)
  PROVE  FilesInv'
<1>1. /\ ReadFile(t, f, n) /\ UNCHANGED <<fds, msgs, max_log, log, aliased>>
      /\ n \in Nat
  BY FilesAssumption DEF syscall_read
<1>2. CASE Name(t, f) # "kmsg"
  <2>1. Advance(t, f, n, << >>)
    BY <1>1, <1>2 DEF ReadFile
  <2>2. << >> \in Seq(Bytes)
    BY EmptySeq
  <2>3. ~(~aliased /\ seen[t][f].base = Dropped)
    BY <1>2, FollowedName
  <2> QED BY <1>1, <2>1, <2>2, <2>3, AdvanceFiles
<1>3. CASE Name(t, f) = "kmsg"
  <2> DEFINE off == File(t, f).offset
             T == Text(msgs)
             bytes == ReadKmsg(off, n)
  <2>1. Advance(t, f, Len(bytes), bytes)
    BY <1>1, <1>3 DEF ReadFile
  <2>2. off \in Nat /\ f \in Opened(t) /\ msgs \in Seq(Seq(Bytes))
    BY TypeFacts DEF FilesInv, TypeInv, File, FileType, Opened
  <2>3. bytes = Window(T, off, n) /\ T \in Seq(Bytes)
    BY <1>1, <2>2, ReadWindow
  <2>4. /\ bytes \in Seq(Bytes) /\ Len(T) \in Nat
        /\ Len(bytes) = IF off + n =< Len(T) THEN n ELSE IF off =< Len(T) THEN Len(T) - off ELSE 0
    <3> HIDE DEF T, off, bytes
    <3> QED BY <1>1, <2>2, <2>3, WindowFacts
  <2>5. Len(bytes) \in Nat
    BY <2>4, LenProperties
  <2>6. ~aliased /\ seen[t][f].base = Dropped =>
          /\ off + Len(bytes) =< Len(T)
          /\ bytes = SubSeq(T, off + 1, off + Len(bytes))
    <3> SUFFICES ASSUME ~aliased, seen[t][f].base = Dropped
                 PROVE  /\ off + Len(bytes) =< Len(T)
                        /\ bytes = SubSeq(T, off + 1, off + Len(bytes))
      OBVIOUS
    <3>1. off =< Len(T)
      BY <2>2 DEF FilesInv, Streamed
    <3> DEFINE k == Len(bytes)
               L == Len(T)
    <3>2. k = IF off + n =< L THEN n ELSE IF off =< L THEN L - off ELSE 0
      BY <2>4
    <3>3. L \in Nat /\ off =< L
      BY <2>4, <3>1
    <3>4. bytes = SubSeq(T, off + 1, Least(off + n, L))
      BY <2>3 DEF Window
    <3> HIDE DEF k, L, off, T, bytes
    <3>5. Least(off + n, L) = off + k /\ off + k =< L
      BY <1>1, <2>2, <3>2, <3>3 DEF Least
    <3> QED BY <3>4, <3>5 DEF k, L
  <2> HIDE DEF bytes
  <2> QED BY <1>1, <2>1, <2>4, <2>5, <2>6, AdvanceFiles
<1> QED BY <1>2, <1>3

LEMMA WriteFiles ==
  ASSUME FilesInv, NEW t \in Tasks, NEW f \in DOMAIN tables[t].fds, NEW n \in Sizes,
         syscall_write(t, f, n)
  PROVE  FilesInv'
<1>1. /\ Advance(t, f, n, << >>) /\ UNCHANGED <<fds, msgs, max_log, log, aliased>>
      /\ n \in Nat
  BY FilesAssumption DEF syscall_write
<1>2. Name(t, f) # "kmsg"
  BY FilesAssumption DEF syscall_write, Writable
<1>3. ~(~aliased /\ seen[t][f].base = Dropped)
  BY <1>2, FollowedName
<1>4. << >> \in Seq(Bytes)
  BY EmptySeq
<1> QED BY <1>1, <1>3, <1>4, AdvanceFiles

(* lseek: a descriptor is followed from the beginning only. *)
LEMMA SeekFiles ==
  ASSUME FilesInv, NEW t \in Tasks, NEW f \in DOMAIN tables[t].fds, NEW o \in Positions,
         syscall_lseek(t, f, o)
  PROVE  FilesInv'
<1> DEFINE old == seen[t][f]
           e == << >>
           b == IF o = 0 /\ old.base # -1 THEN Dropped ELSE -1
           s == [old EXCEPT !.got = e, !.base = b]
<1>1. /\ TypeInv /\ RingInv /\ Followed /\ (~aliased => Owned /\ Streamed)
      /\ panic \in BOOLEAN /\ aliased \in BOOLEAN /\ max_log \in Nat
      /\ msgs \in Seq(Seq(Bytes)) /\ log \in Seq(Seq(Bytes))
  BY DEF FilesInv, TypeInv, TypeOK
<1>2. /\ tables' = WithOffset(t, f, o)
      /\ UNCHANGED <<fds, msgs, max_log, panic, log, aliased>> /\ o \in 0..OffMax
  BY FilesAssumption DEF syscall_lseek, WithOffset
<1>3. RingInv' /\ Dropped' = Dropped /\ Text(msgs)' = Text(msgs)
  BY <1>1, <1>2, RingSame
<1>4. f \in DOMAIN seen[t] /\ old \in SeenType
  BY <1>1, TypeFacts
<1>5. Dropped \in Nat /\ Text(msgs) \in Seq(Bytes) /\ Len(Text(msgs)) \in Nat
  BY <1>1, RingFacts
<1>6. e \in Seq(Bytes) /\ b \in Int
  BY <1>5, EmptySeq
<1>7. seen' = WithSeen(t, f, s)
  BY <1>4 DEF syscall_lseek, WithSeen, SeenType
<1> HIDE DEF e, b, old
<1>8. s.name = old.name /\ s.open = old.open /\ s.base = b /\ s.got = e
  BY <1>4 DEF SeenType
<1>9. s \in SeenType
  BY <1>4, <1>6 DEF SeenType
<1> HIDE DEF s
<1>10. /\ DOMAIN tables' = Tasks
       /\ \A u \in Tasks :
            /\ DOMAIN tables'[u] = {"max_fd", "fds"}
            /\ tables'[u].max_fd = tables[u].max_fd
            /\ DOMAIN tables'[u].fds = DOMAIN tables[u].fds
            /\ \A g \in DOMAIN tables[u].fds :
                 /\ tables'[u].fds[g] \in FileType
                 /\ tables'[u].fds[g].fd = tables[u].fds[g].fd
                 /\ u # t \/ g # f => tables'[u].fds[g] = tables[u].fds[g]
       /\ tables'[t].fds[f].offset = o
  BY <1>1, <1>2, OffsetSet
<1>11. /\ DOMAIN seen' = Tasks
       /\ \A u \in Tasks :
            /\ DOMAIN seen'[u] = DOMAIN seen[u]
            /\ \A g \in DOMAIN seen[u] :
                 /\ seen'[u][g] \in SeenType
                 /\ u # t \/ g # f => seen'[u][g] = seen[u][g]
       /\ seen'[t][f] = s
  BY <1>1, <1>4, <1>7, <1>9, SeenSet
<1>12. TypeInv'
  BY <1>1, <1>2, <1>10, <1>11, TypeFacts, TypeStep
<1>13. \A u \in Tasks : /\ Opened(u)' = Opened(u) /\ Opened(u) = DOMAIN tables[u].fds
                        /\ \A g \in Opened(u) :
                             /\ seen'[u][g].name = seen[u][g].name
                             /\ seen'[u][g].open = seen[u][g].open
                             /\ File(u, g)'.fd = File(u, g).fd
  BY <1>1, <1>8, <1>10, <1>11, TypeFacts DEF Opened, File, old
<1>14. Followed'
  <2> SUFFICES ASSUME NEW u \in Tasks, NEW g \in Opened(u), seen'[u][g].base # -1
               PROVE  /\ seen'[u][g].name = "kmsg" /\ seen'[u][g].open
                      /\ seen'[u][g].base \in 0..Dropped
    BY <1>3, <1>13 DEF Followed
  <2>1. seen[u][g].base # -1 /\ seen'[u][g].base \in {seen[u][g].base, Dropped}
    BY <1>8, <1>11 DEF Opened, b, old
  <2>2. seen[u][g].name = "kmsg" /\ seen[u][g].open /\ seen[u][g].base \in 0..Dropped
    BY <1>1, <2>1 DEF Followed
  <2> QED BY <1>5, <1>13, <2>1, <2>2
<1>15. ASSUME ~aliased' PROVE Owned' /\ Streamed'
  <2>1. Owned /\ Streamed /\ fds' = fds
    BY <1>1, <1>2, <1>15
  <2>2. \A u \in Tasks : \A g \in Opened(u) :
           (Known(u, g)' <=> Known(u, g)) /\ Name(u, g)' = Name(u, g)
    BY <1>10, <1>13, <2>1 DEF Known, Held, Name
  <2>3. Owned'
    BY <1>13, <2>1, <2>2 DEF Owned, DescriptorsOwn
  <2>4. ASSUME NEW u \in Tasks, NEW g \in Opened(u), seen'[u][g].base = Dropped'
        PROVE  /\ File(u, g)'.offset =< Len(Text(msgs)')
               /\ seen'[u][g].got = SubSeq(Text(msgs)', 1, File(u, g)'.offset)
    <3>1. CASE u = t /\ g = f
      <4>1. b = Dropped
        BY <1>3, <1>8, <1>11, <2>4, <3>1
      <4>2. o = 0
        BY <1>5, <4>1 DEF b
      <4>3. SubSeq(Text(msgs), 1, 0) = << >>
        BY SubSeqEmpty
      <4>4. File(u, g)'.offset = 0 /\ seen'[u][g].got = << >>
        BY <1>8, <1>10, <1>11, <3>1, <4>2 DEF File, e
      <4>5. 0 =< Len(Text(msgs))
        BY <1>5
      <4> QED BY <1>3, <4>3, <4>4, <4>5
    <3>2. CASE u # t \/ g # f
      BY <1>3, <1>10, <1>11, <1>13, <2>1, <2>4, <3>2 DEF Streamed, File, Opened
    <3> QED BY <3>1, <3>2
  <2>5. Streamed'
    BY <1>13, <2>4 DEF Streamed
  <2> QED BY <2>3, <2>5
<1> QED BY <1>3, <1>12, <1>14, <1>15 DEF FilesInv

(* close: devfs forgets the number of this descriptor, which is no other's. *)
LEMMA CloseFiles ==
  ASSUME FilesInv, NEW t \in Tasks, NEW f \in DOMAIN tables[t].fds, syscall_close(t, f)
  PROVE  FilesInv'
<1> DEFINE old == seen[t][f]
           e == << >>
           s == [old EXCEPT !.open = FALSE, !.base = -1, !.got = e]
           n == File(t, f).fd
<1>1. /\ TypeInv /\ RingInv /\ Followed /\ (~aliased => Owned /\ Streamed)
      /\ panic \in BOOLEAN /\ aliased \in BOOLEAN /\ max_log \in Nat
      /\ msgs \in Seq(Seq(Bytes)) /\ log \in Seq(Seq(Bytes))
  BY DEF FilesInv, TypeInv, TypeOK
<1>2. UNCHANGED <<tables, msgs, max_log, panic, log, aliased>> /\ fds' = Without(fds, n)
  BY DEF syscall_close, closed
<1>3. RingInv' /\ Dropped' = Dropped /\ Text(msgs)' = Text(msgs)
  BY <1>1, <1>2, RingSame
<1>4. f \in DOMAIN seen[t] /\ old \in SeenType
  BY <1>1, TypeFacts
<1>5. Dropped \in Nat
  BY <1>1, RingFacts
<1>6. e \in Seq(Bytes) /\ -1 \in Int
  BY EmptySeq
<1>7. seen' = WithSeen(t, f, s)
  BY <1>4 DEF syscall_close, WithSeen, SeenType
<1> HIDE DEF e, old
<1>8. s.open = FALSE /\ s.base = -1
  BY <1>4 DEF SeenType
<1>9. s \in SeenType
  BY <1>4, <1>6 DEF SeenType
<1> HIDE DEF s
<1>10. /\ DOMAIN seen' = Tasks
       /\ \A u \in Tasks :
            /\ DOMAIN seen'[u] = DOMAIN seen[u]
            /\ \A g \in DOMAIN seen[u] :
                 /\ seen'[u][g] \in SeenType
                 /\ u # t \/ g # f => seen'[u][g] = seen[u][g]
       /\ seen'[t][f] = s
  BY <1>1, <1>4, <1>7, <1>9, SeenSet
<1>11. /\ DOMAIN fds' = DOMAIN fds \ {n} /\ \A k \in DOMAIN fds' : fds'[k] = fds[k]
       /\ IsFiniteSet(DOMAIN fds')
  <2>1. IsFiniteSet(DOMAIN fds)
    BY <1>1, TypeFacts
  <2>2. DOMAIN fds' = DOMAIN fds \ {n} /\ \A k \in DOMAIN fds' : fds'[k] = fds[k]
    BY <1>2 DEF Without
  <2> QED BY <2>1, <2>2, FS_Subset
<1>12. TypeInv'
  BY <1>1, <1>2, <1>10, <1>11, TypeFacts, TypeStep
<1>13. \A u \in Tasks : /\ Opened(u)' = Opened(u) /\ Opened(u) = DOMAIN tables[u].fds
                        /\ \A g \in Opened(u) :
                             /\ File(u, g)' = File(u, g)
                             /\ u # t \/ g # f => seen'[u][g] = seen[u][g]
  BY <1>1, <1>2, <1>10, TypeFacts DEF Opened, File
<1>14. Followed'
  <2> SUFFICES ASSUME NEW u \in Tasks, NEW g \in Opened(u), seen'[u][g].base # -1
               PROVE  /\ seen'[u][g].name = "kmsg" /\ seen'[u][g].open
                      /\ seen'[u][g].base \in 0..Dropped
    BY <1>3, <1>13 DEF Followed
  <2>1. seen'[u][g] = seen[u][g]
    BY <1>8, <1>10, <1>13
  <2> QED BY <1>1, <2>1 DEF Followed
<1>15. ASSUME ~aliased' PROVE Owned' /\ Streamed'
  <2>1. Owned /\ Streamed
    BY <1>1, <1>2, <1>15
  <2>2. \A u \in Tasks : \A g \in Opened(u) : u # t \/ g # f =>
           (Known(u, g)' <=> Known(u, g)) /\ (Known(u, g) => Name(u, g)' = Name(u, g))
    <3> SUFFICES ASSUME NEW u \in Tasks, NEW g \in Opened(u), u # t \/ g # f
                 PROVE  (Known(u, g)' <=> Known(u, g)) /\ (Known(u, g) => Name(u, g)' = Name(u, g))
      OBVIOUS
    <3>1. File(u, g).fd # n
      BY <1>13, <2>1 DEF Owned
    <3> QED BY <1>2, <1>11, <1>13, <3>1 DEF Known, Held, Name
  <2>3. ~Known(t, f)'
    BY <1>11, <1>13 DEF Known
  <2>4. Owned'
    <3>1. DescriptorsOwn'
      BY <1>8, <1>10, <1>13, <2>1, <2>2 DEF Owned, DescriptorsOwn
    <3>2. \A u \in Tasks : \A g \in Opened(u)' : Known(u, g)' => seen'[u][g].open
      BY <1>13, <2>1, <2>2, <2>3 DEF Owned
    <3> QED BY <1>13, <2>1, <3>1, <3>2 DEF Owned
  <2>5. Streamed'
    <3> SUFFICES ASSUME NEW u \in Tasks, NEW g \in Opened(u), seen'[u][g].base = Dropped
                 PROVE  /\ File(u, g)'.offset =< Len(Text(msgs)')
                        /\ seen'[u][g].got = SubSeq(Text(msgs)', 1, File(u, g)'.offset)
      BY <1>3, <1>13 DEF Streamed
    <3>1. u # t \/ g # f
      BY <1>5, <1>8, <1>10
    <3> QED BY <1>3, <1>13, <2>1, <3>1 DEF Streamed
  <2> QED BY <2>4, <2>5
<1> QED BY <1>3, <1>12, <1>14, <1>15 DEF FilesInv

(* The table of a task is dropped with it. *)
LEMMA ExitFiles ==
  ASSUME FilesInv, NEW t \in Tasks, exit(t) PROVE FilesInv'
<1>1. /\ TypeInv /\ RingInv /\ Followed /\ (~aliased => Owned /\ Streamed)
      /\ panic \in BOOLEAN /\ aliased \in BOOLEAN /\ max_log \in Nat
      /\ msgs \in Seq(Seq(Bytes)) /\ log \in Seq(Seq(Bytes))
  BY DEF FilesInv, TypeInv, TypeOK
<1>2. /\ tables' = [tables EXCEPT ![t] = NewTable] /\ seen' = [seen EXCEPT ![t] = NoFiles]
      /\ UNCHANGED <<fds, msgs, max_log, panic, log, aliased>>
  BY DEF exit
<1>3. RingInv' /\ Dropped' = Dropped /\ Text(msgs)' = Text(msgs)
  BY <1>1, <1>2, RingSame
<1>4. /\ DOMAIN NewTable = {"max_fd", "fds"} /\ NewTable.max_fd = 0 /\ NewTable.fds = NoFiles
      /\ DOMAIN NoFiles = {} /\ 0..(0 - 1) = {} /\ 0 \in 0..MaxFd
  BY FilesAssumption DEF NewTable, NoFiles
<1>5. /\ DOMAIN tables' = Tasks /\ DOMAIN seen' = Tasks
      /\ tables'[t] = NewTable /\ seen'[t] = NoFiles
      /\ \A u \in Tasks \ {t} : tables'[u] = tables[u] /\ seen'[u] = seen[u]
  BY <1>1, <1>2, TypeFacts
<1>6. \A u \in Tasks :
        /\ DOMAIN tables'[u] = {"max_fd", "fds"}
        /\ tables'[u].max_fd \in 0..MaxFd
        /\ DOMAIN tables'[u].fds = 0..(tables'[u].max_fd - 1)
        /\ DOMAIN seen'[u] = DOMAIN tables'[u].fds
        /\ \A f \in DOMAIN seen'[u] : /\ tables'[u].fds[f] \in FileType
                                      /\ seen'[u][f] \in SeenType
  <2> SUFFICES ASSUME NEW u \in Tasks
               PROVE  /\ DOMAIN tables'[u] = {"max_fd", "fds"}
                      /\ tables'[u].max_fd \in 0..MaxFd
                      /\ DOMAIN tables'[u].fds = 0..(tables'[u].max_fd - 1)
                      /\ DOMAIN seen'[u] = DOMAIN tables'[u].fds
                      /\ \A f \in DOMAIN seen'[u] : /\ tables'[u].fds[f] \in FileType
                                                    /\ seen'[u][f] \in SeenType
    OBVIOUS
  <2>1. CASE u = t
    BY <1>4, <1>5, <2>1
  <2>2. CASE u # t
    <3>1. tables'[u] = tables[u] /\ seen'[u] = seen[u]
      BY <1>5, <2>2
    <3> QED BY <1>1, <3>1, TypeFacts
  <2> QED BY <2>1, <2>2
<1>7. TypeInv'
  BY <1>1, <1>2, <1>5, <1>6, TypeFacts, TypeStep
<1>8. /\ Opened(t)' = {}
      /\ \A u \in Tasks \ {t} :
           /\ Opened(u)' = Opened(u)
           /\ \A g \in Opened(u) :
                /\ File(u, g)' = File(u, g) /\ seen'[u][g] = seen[u][g]
                /\ (Known(u, g)' <=> Known(u, g)) /\ Name(u, g)' = Name(u, g)
  BY <1>2, <1>4, <1>5 DEF Opened, File, Known, Held, Name
<1>9. Followed'
  <2> SUFFICES ASSUME NEW u \in Tasks, NEW g \in Opened(u)', seen'[u][g].base # -1
               PROVE  /\ seen'[u][g].name = "kmsg" /\ seen'[u][g].open
                      /\ seen'[u][g].base \in 0..Dropped
    BY <1>3 DEF Followed
  <2>1. u # t /\ g \in Opened(u) /\ seen'[u][g] = seen[u][g]
    BY <1>8
  <2> QED BY <1>1, <2>1 DEF Followed
<1>10. Owned => Owned'
  <2> SUFFICES ASSUME Owned PROVE Owned'
    OBVIOUS
  <2>1. DescriptorsOwn'
    BY <1>8 DEF Owned, DescriptorsOwn
  <2> QED BY <1>8, <2>1 DEF Owned
<1>11. Streamed => Streamed'
  BY <1>3, <1>8 DEF Streamed
<1> QED BY <1>1, <1>2, <1>3, <1>7, <1>9, <1>10, <1>11 DEF FilesInv

(* open: the number is new to the tables unless the step sets aliased. *)
LEMMA OpenFiles ==
  ASSUME FilesInv, NEW t \in Tasks, NEW path \in Paths, syscall_open(t, path)
  PROVE  FilesInv'
<1>1. /\ TypeInv /\ RingInv /\ Followed /\ (~aliased => Owned /\ Streamed)
      /\ panic \in BOOLEAN /\ aliased \in BOOLEAN /\ max_log \in Nat
      /\ msgs \in Seq(Seq(Bytes)) /\ log \in Seq(Seq(Bytes))
  BY DEF FilesInv, TypeInv, TypeOK
<1>2. UNCHANGED <<msgs, max_log, log>> /\ tables[t].max_fd < MaxFd
  BY DEF syscall_open
<1>3. RingInv' /\ Dropped' = Dropped /\ Text(msgs)' = Text(msgs)
  BY <1>1, <1>2, RingSame
<1>4. CASE UNCHANGED <<fds, tables, seen, aliased>> /\ panic' = TRUE
  <2>1. TypeInv'
    BY <1>1, <1>2, <1>4 DEF TypeInv, TypeOK, Opened, File
  <2>2. Followed'
    BY <1>1, <1>3, <1>4 DEF Followed, Opened
  <2>3. Owned => Owned'
    BY <1>4 DEF Owned, DescriptorsOwn, Opened, File, Known, Held, Name
  <2>4. Streamed => Streamed'
    BY <1>3, <1>4 DEF Streamed, Opened, File
  <2> QED BY <1>1, <1>3, <1>4, <2>1, <2>2, <2>3, <2>4 DEF FilesInv
<1> DEFINE number == NextNumber
           name == path.parts[2]
           file == [fd |-> number, offset |-> 0]
           e == << >>
           b == From(name)
           s == [name |-> name, open |-> TRUE, base |-> b, got |-> e]
<1>5. CASE /\ Exists(name) /\ fds' = Put(fds, number, name)
           /\ tables' = [tables EXCEPT ![t] = add(@, file)]
           /\ seen' = [seen EXCEPT ![t] = Put(@, tables[t].max_fd, s)]
           /\ aliased' = (aliased \/ number \in Numbers) /\ panic' = panic
  <2>0. PICK m : m = tables[t].max_fd
    OBVIOUS
  <2>1. /\ number \in Nat /\ name \in Names /\ m \in 0..MaxFd /\ m < MaxFd /\ MaxFd \in Nat
        /\ Dropped \in Nat /\ OffMax \in Nat
    BY <1>1, <1>2, <1>5, <2>0, TypeFacts, RingFacts DEF Exists, Names
  <2>2. file \in FileType /\ file.fd = number /\ file.offset = 0
    BY <2>1 DEF FileType
  <2>3. /\ b \in Int /\ e \in Seq(Bytes) /\ (b # -1 => name = "kmsg" /\ b = Dropped)
        /\ s.name = name /\ s.open = TRUE /\ s.base = b /\ s.got = e
    BY <2>1, EmptySeq DEF From
  <2>4. s \in SeenType
    <3> HIDE DEF e, b, name
    <3> QED BY <2>1, <2>3 DEF SeenType
  <2> HIDE DEF file, s, e, b, name
  <2>5. /\ DOMAIN fds' = DOMAIN fds \cup {number} /\ fds'[number] = name
        /\ \A k \in DOMAIN fds : k # number => fds'[k] = fds[k]
    BY <1>5 DEF Put
  <2>6. /\ DOMAIN tables' = Tasks /\ \A u \in Tasks \ {t} : tables'[u] = tables[u]
        /\ DOMAIN tables'[t] = {"max_fd", "fds"} /\ tables'[t].max_fd = m + 1
        /\ tables'[t].fds = Put(tables[t].fds, m, file)
    <3>1. DOMAIN tables = Tasks
      BY <1>1, TypeFacts
    <3>2. tables'[t] = add(tables[t], file) /\ \A u \in Tasks \ {t} : tables'[u] = tables[u]
      BY <1>5, <3>1
    <3> QED BY <1>5, <2>0, <3>1, <3>2 DEF add
  <2>7. /\ DOMAIN seen' = Tasks /\ \A u \in Tasks \ {t} : seen'[u] = seen[u]
        /\ seen'[t] = Put(seen[t], m, s)
    BY <1>1, <1>5, <2>0, TypeFacts
  <2>8. 0..m = 0..(m - 1) \cup {m} /\ m \notin 0..(m - 1) /\ (m + 1) - 1 = m
        /\ m + 1 \in 0..MaxFd
    <3> QED BY <2>1
  <2>9. /\ DOMAIN seen[t] = 0..(m - 1) /\ DOMAIN tables[t].fds = 0..(m - 1)
        /\ \A f \in 0..(m - 1) : tables[t].fds[f] \in FileType /\ seen[t][f] \in SeenType
    BY <1>1, <2>0, TypeFacts
  <2>10. /\ DOMAIN seen'[t] = 0..m /\ DOMAIN tables'[t].fds = 0..m
         /\ tables'[t].fds[m] = file /\ seen'[t][m] = s
         /\ \A f \in 0..(m - 1) : tables'[t].fds[f] = tables[t].fds[f] /\ seen'[t][f] = seen[t][f]
    <3> QED BY <2>6, <2>7, <2>8, <2>9 DEF Put
  <2>11. TypeInv'
    <3>1. IsFiniteSet(DOMAIN fds') /\ \A k \in DOMAIN fds' : k \in Nat /\ fds'[k] \in Names
      <4>1. IsFiniteSet(DOMAIN fds) /\ \A k \in DOMAIN fds : k \in Nat /\ fds[k] \in Names
        BY <1>1, TypeFacts
      <4>2. IsFiniteSet(DOMAIN fds')
        BY <2>5, <4>1, FS_AddElement
      <4> QED BY <2>1, <2>5, <4>1, <4>2
    <3>2. \A u \in Tasks :
            /\ DOMAIN tables'[u] = {"max_fd", "fds"}
            /\ tables'[u].max_fd \in 0..MaxFd
            /\ DOMAIN tables'[u].fds = 0..(tables'[u].max_fd - 1)
            /\ DOMAIN seen'[u] = DOMAIN tables'[u].fds
            /\ \A f \in DOMAIN seen'[u] : /\ tables'[u].fds[f] \in FileType
                                          /\ seen'[u][f] \in SeenType
      <4> SUFFICES ASSUME NEW u \in Tasks
                   PROVE  /\ DOMAIN tables'[u] = {"max_fd", "fds"}
                          /\ tables'[u].max_fd \in 0..MaxFd
                          /\ DOMAIN tables'[u].fds = 0..(tables'[u].max_fd - 1)
                          /\ DOMAIN seen'[u] = DOMAIN tables'[u].fds
                          /\ \A f \in DOMAIN seen'[u] : /\ tables'[u].fds[f] \in FileType
                                                        /\ seen'[u][f] \in SeenType
        OBVIOUS
      <4>1. CASE u = t
        <5> QED BY <2>2, <2>4, <2>6, <2>8, <2>9, <2>10, <4>1
      <4>2. CASE u # t
        <5>1. tables'[u] = tables[u] /\ seen'[u] = seen[u]
          BY <2>6, <2>7, <4>2
        <5> QED BY <1>1, <5>1, TypeFacts
      <4> QED BY <4>1, <4>2
    <3>3. panic' \in BOOLEAN /\ aliased' \in BOOLEAN /\ max_log' \in Nat
          /\ msgs' \in Seq(Seq(Bytes)) /\ log' \in Seq(Seq(Bytes))
      BY <1>1, <1>2, <1>5
    <3> QED BY <2>6, <2>7, <3>1, <3>2, <3>3, TypeStep
  <2>12. /\ Opened(t)' = Opened(t) \cup {m} /\ m \notin Opened(t)
         /\ \A u \in Tasks \ {t} : Opened(u)' = Opened(u)
         /\ \A u \in Tasks : /\ Opened(u) = DOMAIN tables[u].fds
                             /\ Opened(u)' = DOMAIN tables'[u].fds
                             /\ \A g \in Opened(u) : /\ File(u, g)' = File(u, g)
                                                     /\ seen'[u][g] = seen[u][g]
         /\ File(t, m)' = file /\ seen'[t][m] = s
    <3>1. \A u \in Tasks : Opened(u) = DOMAIN tables[u].fds
      BY <1>1, TypeFacts DEF Opened
    <3> QED BY <2>6, <2>7, <2>8, <2>9, <2>10, <3>1 DEF Opened, File
  <2>13. Followed'
    <3> SUFFICES ASSUME NEW u \in Tasks, NEW g \in Opened(u)', seen'[u][g].base # -1
                 PROVE  /\ seen'[u][g].name = "kmsg" /\ seen'[u][g].open
                        /\ seen'[u][g].base \in 0..Dropped
      BY <1>3 DEF Followed
    <3>1. CASE g \in Opened(u)
      BY <1>1, <2>12, <3>1 DEF Followed
    <3>2. CASE g \notin Opened(u)
      <4>1. u = t /\ g = m
        BY <2>12, <3>2
      <4> QED BY <2>1, <2>3, <2>12, <4>1
    <3> QED BY <3>1, <3>2
  <2>14. ASSUME ~aliased' PROVE Owned' /\ Streamed'
    <3>1. Owned /\ Streamed /\ number \notin Numbers
      BY <1>1, <1>5, <2>14
    <3>2. \A u \in Tasks : \A g \in Opened(u) : File(u, g).fd # number
      BY <2>12, <3>1 DEF Numbers, File
    <3>3. \A u \in Tasks : \A g \in Opened(u) :
            (Known(u, g)' <=> Known(u, g)) /\ (Known(u, g) => Name(u, g)' = Name(u, g))
      BY <2>5, <2>12, <3>2 DEF Known, Held, Name
    <3>4. Known(t, m)' /\ Name(t, m)' = name
      BY <2>2, <2>5, <2>12 DEF Known, Held, Name
    <3>5. Owned'
      <4>1. DescriptorsOwn'
        <5> SUFFICES ASSUME NEW u \in Tasks, NEW g \in Opened(u)', seen'[u][g].open
                     PROVE  Known(u, g)' /\ Name(u, g)' = seen'[u][g].name
          BY DEF DescriptorsOwn
        <5>1. CASE g \in Opened(u)
          BY <2>12, <3>1, <3>3, <5>1 DEF Owned, DescriptorsOwn
        <5>2. CASE g \notin Opened(u)
          <6>1. u = t /\ g = m
            BY <2>12, <5>2
          <6> QED BY <2>3, <2>12, <3>4, <6>1
        <5> QED BY <5>1, <5>2
      <4>2. ASSUME NEW u \in Tasks, NEW v \in Tasks, NEW g \in Opened(u)', NEW h \in Opened(v)',
                   File(u, g)'.fd = File(v, h)'.fd
            PROVE  u = v /\ g = h
        <5>1. g \notin Opened(u) => u = t /\ g = m /\ File(u, g)'.fd = number
          BY <2>2, <2>12
        <5>2. h \notin Opened(v) => v = t /\ h = m /\ File(v, h)'.fd = number
          BY <2>2, <2>12
        <5>3. (g \in Opened(u) => File(u, g)'.fd = File(u, g).fd /\ File(u, g).fd # number)
              /\ (h \in Opened(v) => File(v, h)'.fd = File(v, h).fd /\ File(v, h).fd # number)
          BY <2>12, <3>2
        <5> QED BY <3>1, <4>2, <5>1, <5>2, <5>3 DEF Owned
      <4>3. ASSUME NEW u \in Tasks, NEW g \in Opened(u)', Known(u, g)' PROVE seen'[u][g].open
        <5>1. CASE g \in Opened(u)
          BY <2>12, <3>1, <3>3, <4>3, <5>1 DEF Owned
        <5>2. CASE g \notin Opened(u)
          BY <2>3, <2>12, <5>2
        <5> QED BY <5>1, <5>2
      <4> QED BY <4>1, <4>2, <4>3 DEF Owned
    <3>6. Streamed'
      <4> SUFFICES ASSUME NEW u \in Tasks, NEW g \in Opened(u)', seen'[u][g].base = Dropped
                   PROVE  /\ File(u, g)'.offset =< Len(Text(msgs))
                          /\ seen'[u][g].got = SubSeq(Text(msgs), 1, File(u, g)'.offset)
        BY <1>3 DEF Streamed
      <4>1. CASE g \in Opened(u)
        BY <2>12, <3>1, <4>1 DEF Streamed
      <4>2. CASE g \notin Opened(u)
        <5>1. u = t /\ g = m
          BY <2>12, <4>2
        <5>2. File(u, g)'.offset = 0 /\ seen'[u][g].got = << >>
          BY <2>2, <2>3, <2>12, <5>1 DEF e
        <5>3. SubSeq(Text(msgs), 1, 0) = << >>
          BY SubSeqEmpty
        <5>4. 0 =< Len(Text(msgs))
          BY <1>1, RingFacts
        <5> QED BY <5>2, <5>3, <5>4
      <4> QED BY <4>1, <4>2
    <3> QED BY <3>5, <3>6
  <2> QED BY <1>3, <2>11, <2>13, <2>14 DEF FilesInv
<1>6. \/ UNCHANGED <<fds, tables, seen, aliased>> /\ panic' = TRUE
      \/ /\ Exists(name) /\ fds' = Put(fds, number, name)
         /\ tables' = [tables EXCEPT ![t] = add(@, file)]
         /\ seen' = [seen EXCEPT ![t] = Put(@, tables[t].max_fd, s)]
         /\ aliased' = (aliased \/ number \in Numbers) /\ panic' = panic
  BY DEF syscall_open
<1> QED BY <1>4, <1>5, <1>6

-----------------------------------------------------------------------------
(* A sequence that is the end of another. *)
LEMMA EndOf ==
  ASSUME NEW S, NEW q \in Seq(S), NEW l \in Seq(S), Len(q) =< Len(l)
  PROVE  q = SubSeq(l, Len(l) - Len(q) + 1, Len(l))
           <=> \A i \in 1..Len(q) : q[i] = l[Len(l) - Len(q) + i]
<1> DEFINE a == Len(q)
           b == Len(l)
           r == SubSeq(l, b - a + 1, b)
<1>1. a \in Nat /\ b \in Nat /\ a =< b
  BY LenProperties
<1>2. /\ r \in Seq(S) /\ Len(r) = IF b - a + 1 =< b THEN b - (b - a + 1) + 1 ELSE 0
      /\ \A i \in 1..(b - (b - a + 1) + 1) : r[i] = l[(b - a + 1) + i - 1]
  <2>1. b - a + 1 \in Nat \ {0} /\ b =< Len(l)
    <3>1. b =< Len(l)
      BY <1>1
    <3> HIDE DEF a, b
    <3> QED BY <1>1, <3>1
  <2> HIDE DEF a, b
  <2> QED BY <1>1, <2>1, SubFacts
<1>3. Len(r) = a /\ \A i \in 1..a : r[i] = l[b - a + i]
  <2> DEFINE k == Len(r)
  <2>1. k = IF b - a + 1 =< b THEN b - (b - a + 1) + 1 ELSE 0
    BY <1>2
  <2> HIDE DEF a, b, r, k
  <2>2. k = a
    BY <1>1, <2>1
  <2>3. \A i \in 1..a : i \in 1..(b - (b - a + 1) + 1) /\ (b - a + 1) + i - 1 = b - a + i
    BY <1>1
  <2> QED BY <1>2, <2>2, <2>3 DEF k
<1>4. ASSUME \A i \in 1..a : q[i] = l[b - a + i] PROVE q = r
  <2>1. Len(q) = Len(r) /\ \A i \in 1..Len(q) : q[i] = r[i]
    BY <1>3, <1>4
  <2> HIDE DEF r
  <2> QED BY <1>2, <2>1, SeqEqual
<1>5. ASSUME q = r PROVE \A i \in 1..a : q[i] = l[b - a + i]
  <2> HIDE DEF a, b, r
  <2> QED BY <1>3, <1>5
<1> QED BY <1>4, <1>5

(* What follows for the descriptors when the ring changes. *)
LEMMA RingStep ==
  ASSUME FilesInv, UNCHANGED <<fds, tables, seen, aliased>>, panic' \in BOOLEAN,
         msgs' \in Seq(Seq(Bytes)), log' \in Seq(Seq(Bytes)), max_log' \in Nat, RingInv',
         \/ Dropped' \in Nat /\ Dropped' > Dropped
         \/ /\ Dropped' = Dropped
            /\ \E m \in Seq(Bytes) : Text(msgs)' = Text(msgs) \o m
  PROVE  FilesInv'
<1>1. TypeInv /\ RingInv /\ Followed /\ (~aliased => Owned /\ Streamed)
  BY DEF FilesInv
<1>2. Dropped \in Nat /\ Text(msgs) \in Seq(Bytes)
  BY <1>1, RingFacts
<1>3. TypeInv'
  BY <1>1 DEF TypeInv, TypeOK, Opened, File
<1>4. \A t \in Tasks : Opened(t)' = Opened(t) /\ \A f \in Opened(t) : File(t, f)' = File(t, f)
  BY DEF Opened, File
<1>5. Followed'
  <2> SUFFICES ASSUME NEW t \in Tasks, NEW f \in Opened(t), seen[t][f].base # -1
               PROVE  /\ seen[t][f].name = "kmsg" /\ seen[t][f].open
                      /\ seen[t][f].base \in 0..Dropped'
    BY <1>4 DEF Followed
  <2>1. seen[t][f].name = "kmsg" /\ seen[t][f].open /\ seen[t][f].base \in 0..Dropped
    BY <1>1 DEF Followed
  <2> QED BY <1>2, <2>1
<1>6. Owned => Owned'
  BY DEF Owned, DescriptorsOwn, Opened, File, Known, Held, Name
<1>7. Streamed => Streamed'
  <2> SUFFICES ASSUME Streamed, NEW t \in Tasks, NEW f \in Opened(t),
                      seen[t][f].base = Dropped'
               PROVE  /\ File(t, f).offset =< Len(Text(msgs)')
                      /\ seen[t][f].got = SubSeq(Text(msgs)', 1, File(t, f).offset)
    BY <1>4 DEF Streamed
  <2>1. Dropped' = Dropped
    <3>1. CASE seen[t][f].base = -1
      BY <1>2, <3>1
    <3>2. CASE seen[t][f].base # -1
      <4>1. seen[t][f].base \in 0..Dropped
        BY <1>1, <3>2 DEF Followed
      <4> QED BY <1>2, <4>1
    <3> QED BY <3>1, <3>2
  <2>2. PICK m \in Seq(Bytes) : Text(msgs)' = Text(msgs) \o m
    <3>1. ~(Dropped' > Dropped)
      BY <1>2, <2>1
    <3> QED BY <3>1, Zenon
  <2> DEFINE T == Text(msgs)
             o == File(t, f).offset
  <2>3. o =< Len(T) /\ seen[t][f].got = SubSeq(T, 1, o) /\ o \in Nat
    BY <1>1, <2>1, TypeFacts DEF Streamed, Opened, File, FileType
  <2>4. Len(T) \in Nat /\ Len(m) \in Nat /\ Len(T \o m) = Len(T) + Len(m)
    <3> HIDE DEF T
    <3> QED BY <1>2, CatFacts DEF T
  <2>5. SubSeq(T \o m, 1, o) = SubSeq(T, 1, o)
    <3>1. CASE o = 0
      BY <3>1, SubSeqEmpty
    <3>2. CASE o # 0
      <4>1. 1 \in 1..Len(T) /\ o \in 1..Len(T)
        <5> HIDE DEF T, o
        <5> QED BY <2>3, <2>4, <3>2
      <4>2. T \in Seq(Bytes)
        BY <1>2
      <4> HIDE DEF T, o
      <4> QED BY <4>1, <4>2, SubSeqOfConcat1
    <3> QED BY <3>1, <3>2
  <2>6. o =< Len(T \o m)
    <3> DEFINE k == Len(T \o m)
    <3>1. k = Len(T) + Len(m)
      BY <2>4
    <3> HIDE DEF T, o, k
    <3> QED BY <2>3, <2>4, <3>1 DEF k
  <2> QED BY <2>2, <2>3, <2>5, <2>6
<1> QED BY <1>1, <1>3, <1>5, <1>6, <1>7 DEF FilesInv

LEMMA MessageType ==
  ASSUME NEW n \in Nat, NEW len \in Nat PROVE Message(n, len) \in Seq(Bytes)
<1>1. Message(n, len) \in [1..len -> Bytes]
  BY DEF Message, Bytes
<1> QED BY <1>1, SeqDef

(* add_message: the message goes to the end of the ring, and the oldest     *)
(* leaves it when the limit is reached.                                    *)
LEMMA AddFiles ==
  ASSUME FilesInv, NEW len \in MsgLens, add_message(len) PROVE FilesInv'
<1> DEFINE E == Seq(Bytes)
           msg == Message(Len(log) + 1, len)
           all == Append(msgs, msg)
           a == Len(msgs)
           b == Len(log)
<1>1. /\ TypeInv /\ RingInv /\ max_log \in Nat
      /\ msgs \in Seq(E) /\ log \in Seq(E) /\ a \in Nat /\ b \in Nat
  BY RingFacts DEF FilesInv, TypeInv, TypeOK
<1>2. /\ log' = Append(log, msg) /\ msgs' = IF Len(all) > max_log THEN Tail(all) ELSE all
      /\ UNCHANGED <<fds, tables, max_log, seen, aliased>> /\ panic' \in BOOLEAN
  BY DEF add_message, Pushed
<1>3. msg \in E
  <2>1. b + 1 \in Nat /\ len \in Nat
    <3> HIDE DEF b
    <3> QED BY <1>1, FilesAssumption
  <2> QED BY <2>1, MessageType
<1> HIDE DEF msg, E
<1>4. /\ log' \in Seq(E) /\ Len(log') = b + 1 /\ log'[b + 1] = msg
      /\ \A i \in 1..b : log'[i] = log[i]
  BY <1>1, <1>2, <1>3, AppendProperties
<1>5. /\ all \in Seq(E) /\ all # << >> /\ Len(all) = a + 1 /\ all[a + 1] = msg
      /\ \A i \in 1..a : all[i] = msgs[i]
  BY <1>1, <1>3, AppendProperties
<1>6. a =< b /\ a =< max_log /\ \A i \in 1..a : msgs[i] = log[b - a + i]
  BY <1>1, EndOf DEF RingInv, RingKeepsNewest
<1>7. \A i \in 1..(a + 1) : all[i] = log'[b - a + i]
  <2> SUFFICES ASSUME NEW i \in 1..(a + 1) PROVE all[i] = log'[b - a + i]
    OBVIOUS
  <2> HIDE DEF a, b, all
  <2>1. CASE i = a + 1
    <3>1. b - a + i = b + 1
      BY <1>1, <2>1
    <3> QED BY <1>4, <1>5, <2>1, <3>1
  <2>2. CASE i # a + 1
    <3>1. i \in 1..a /\ b - a + i \in 1..b
      BY <1>1, <1>6, <2>2
    <3> QED BY <1>4, <1>5, <1>6, <3>1
  <2> QED BY <2>1, <2>2
<1>8. CASE Len(all) > max_log
  <2>1. /\ msgs' = Tail(all) /\ msgs' \in Seq(E) /\ Len(msgs') = a
        /\ \A i \in 1..a : msgs'[i] = all[i + 1]
    <3>1. msgs' = Tail(all)
      BY <1>2, <1>8
    <3>2. /\ Tail(all) \in Seq(E) /\ Len(Tail(all)) = Len(all) - 1
          /\ \A i \in 1..Len(Tail(all)) : Tail(all)[i] = all[i + 1]
      <4> HIDE DEF all
      <4> QED BY <1>5, HeadTailProperties
    <3>3. Len(all) - 1 = a
      <4> HIDE DEF all, a
      <4> QED BY <1>1, <1>5
    <3> HIDE DEF all
    <3> QED BY <3>1, <3>2, <3>3
  <2>2. \A i \in 1..Len(msgs') : msgs'[i] = log'[Len(log') - Len(msgs') + i]
    <3> SUFFICES ASSUME NEW i \in 1..a PROVE msgs'[i] = log'[(b + 1) - a + i]
      BY <1>4, <2>1
    <3> HIDE DEF a, b, all
    <3>1. i + 1 \in 1..(a + 1) /\ b - a + (i + 1) = (b + 1) - a + i
      BY <1>1
    <3> QED BY <1>7, <2>1, <3>1
  <2>3. Len(msgs') =< Len(log') /\ Len(msgs') =< max_log'
    <3> HIDE DEF a, b
    <3> QED BY <1>1, <1>2, <1>4, <1>6, <2>1
  <2>4. msgs' = SubSeq(log', Len(log') - Len(msgs') + 1, Len(log'))
    BY <1>4, <2>1, <2>2, <2>3, EndOf
  <2>5. RingInv'
    BY <2>3, <2>4 DEF RingInv, RingKeepsNewest
  <2>6. Dropped' \in Nat /\ Dropped' > Dropped
    <3>1. Dropped' = (b + 1) - a /\ Dropped = b - a
      BY <1>4, <2>1 DEF Dropped
    <3> HIDE DEF a, b
    <3> QED BY <1>1, <1>6, <3>1
  <2> QED BY <1>1, <1>2, <1>4, <2>1, <2>5, <2>6, RingStep DEF E
<1>9. CASE ~(Len(all) > max_log)
  <2>1. msgs' = all
    BY <1>2, <1>9
  <2> HIDE DEF all
  <2>2. \A i \in 1..Len(msgs') : msgs'[i] = log'[Len(log') - Len(msgs') + i]
    <3> SUFFICES ASSUME NEW i \in 1..(a + 1) PROVE all[i] = log'[(b + 1) - (a + 1) + i]
      BY <1>4, <1>5, <2>1
    <3> HIDE DEF a, b
    <3>1. (b + 1) - (a + 1) + i = b - a + i
      BY <1>1
    <3> QED BY <1>7, <3>1
  <2>3. Len(msgs') =< Len(log') /\ Len(msgs') =< max_log'
    <3> HIDE DEF a, b
    <3> QED BY <1>1, <1>2, <1>4, <1>5, <1>6, <1>9, <2>1
  <2>4. msgs' = SubSeq(log', Len(log') - Len(msgs') + 1, Len(log'))
    BY <1>4, <1>5, <2>1, <2>2, <2>3, EndOf
  <2>5. RingInv'
    BY <2>3, <2>4 DEF RingInv, RingKeepsNewest
  <2>6. Dropped' = Dropped
    <3>1. Dropped' = (b + 1) - (a + 1) /\ Dropped = b - a
      BY <1>4, <1>5, <2>1 DEF Dropped
    <3> HIDE DEF a, b
    <3> QED BY <1>1, <3>1
  <2>7. Text(msgs)' = Text(msgs) \o msg
    BY <1>1, <1>3, <2>1, TextAppend DEF all, E
  <2> QED BY <1>1, <1>2, <1>3, <1>4, <1>5, <2>1, <2>5, <2>6, <2>7, RingStep DEF E
<1> QED BY <1>8, <1>9

LEMMA LimitFiles ==
  ASSUME FilesInv, NEW max \in Limits, set_max_log(max) PROVE FilesInv'
<1> DEFINE E == Seq(Bytes)
           a == Len(msgs)
           b == Len(log)
<1>1. /\ TypeInv /\ RingInv /\ max_log \in Nat /\ max \in Nat /\ panic \in BOOLEAN
      /\ msgs \in Seq(E) /\ log \in Seq(E) /\ a \in Nat /\ b \in Nat
      /\ Text(msgs) \in Seq(Bytes)
  BY RingFacts, FilesAssumption DEF FilesInv, TypeInv, TypeOK
<1>2. /\ msgs' = IF a > max THEN SubSeq(msgs, a - max + 1, a) ELSE msgs
      /\ max_log' = max /\ UNCHANGED <<fds, tables, panic, seen, log, aliased>>
  BY DEF set_max_log
<1> HIDE DEF E
<1>3. a =< b /\ \A i \in 1..a : msgs[i] = log[b - a + i]
  BY <1>1, EndOf DEF RingInv, RingKeepsNewest
<1>4. CASE a > max
  <2>1. /\ msgs' \in Seq(E)
        /\ Len(msgs') = IF a - max + 1 =< a THEN a - (a - max + 1) + 1 ELSE 0
        /\ \A i \in 1..(a - (a - max + 1) + 1) : msgs'[i] = msgs[(a - max + 1) + i - 1]
    <3>1. a - max + 1 \in Nat \ {0} /\ a =< Len(msgs) /\ msgs' = SubSeq(msgs, a - max + 1, a)
      <4>1. a =< Len(msgs)
        BY <1>1
      <4> HIDE DEF a
      <4> QED BY <1>1, <1>2, <1>4, <4>1
    <3>2. msgs \in Seq(E) /\ a \in Nat
      BY <1>1
    <3> DEFINE c == a - max + 1
    <3> HIDE DEF a, c
    <3>3. /\ SubSeq(msgs, c, a) \in Seq(E)
          /\ Len(SubSeq(msgs, c, a)) = IF c =< a THEN a - c + 1 ELSE 0
          /\ \A i \in 1..(a - c + 1) : SubSeq(msgs, c, a)[i] = msgs[c + i - 1]
      BY <3>1, <3>2, SubFacts DEF c
    <3> QED BY <3>1, <3>3 DEF c
  <2>2. Len(msgs') = max
    <3> DEFINE k == Len(msgs')
    <3>1. k = IF a - max + 1 =< a THEN a - (a - max + 1) + 1 ELSE 0
      BY <2>1
    <3> HIDE DEF a, k
    <3> QED BY <1>1, <3>1 DEF k
  <2>3. \A i \in 1..Len(msgs') : msgs'[i] = log'[Len(log') - Len(msgs') + i]
    <3> SUFFICES ASSUME NEW i \in 1..max PROVE msgs'[i] = log[b - max + i]
      BY <1>2, <2>2
    <3> HIDE DEF a, b
    <3>1. /\ i \in 1..(a - (a - max + 1) + 1) /\ (a - max + 1) + i - 1 = a - max + i
          /\ a - max + i \in 1..a /\ b - a + (a - max + i) = b - max + i
      BY <1>1, <1>4
    <3> QED BY <1>3, <2>1, <3>1
  <2>4. Len(msgs') =< Len(log') /\ Len(msgs') =< max_log'
    <3>1. Len(log') = b
      BY <1>2
    <3> HIDE DEF a, b
    <3> QED BY <1>1, <1>2, <1>3, <1>4, <2>2, <3>1
  <2>5. msgs' = SubSeq(log', Len(log') - Len(msgs') + 1, Len(log'))
    BY <1>1, <1>2, <2>1, <2>3, <2>4, EndOf
  <2>6. RingInv'
    BY <2>4, <2>5 DEF RingInv, RingKeepsNewest
  <2>7. Dropped' \in Nat /\ Dropped' > Dropped
    <3>1. Dropped' = b - max /\ Dropped = b - a
      BY <1>2, <2>2 DEF Dropped
    <3> HIDE DEF a, b
    <3> QED BY <1>1, <1>3, <1>4, <3>1
  <2> QED BY <1>1, <1>2, <2>1, <2>6, <2>7, RingStep DEF E
<1>5. CASE ~(a > max)
  <2>1. msgs' = msgs /\ log' = log
    BY <1>2, <1>5
  <2>2. Len(msgs) =< max
    BY <1>1, <1>5
  <2>3. RingInv' /\ Dropped' = Dropped
    BY <1>1, <1>2, <2>1, <2>2 DEF RingInv, RingKeepsNewest, Dropped
  <2>4. Text(msgs)' = Text(msgs) \o << >> /\ << >> \in Seq(Bytes)
    BY <1>1, <2>1, ConcatEmptySeq, EmptySeq
  <2> QED BY <1>1, <1>2, <2>1, <2>3, <2>4, RingStep DEF E
<1> QED BY <1>4, <1>5

-----------------------------------------------------------------------------
LEMMA FilesInit == Init => FilesInv
<1> SUFFICES ASSUME Init PROVE FilesInv
  OBVIOUS
<1>1. DOMAIN NoFiles = {} /\ IsFiniteSet({})
  BY FS_EmptySet DEF NoFiles
<1>2. /\ DOMAIN NewTable = {"max_fd", "fds"} /\ NewTable.max_fd = 0 /\ NewTable.fds = NoFiles
      /\ 0..(0 - 1) = {} /\ 0 \in 0..MaxFd
  BY FilesAssumption DEF NewTable
<1>3. << >> \in Seq(Seq(Bytes)) /\ Len(<< >>) = 0
  BY EmptySeq
<1>4. TypeInv
  <2>1. TypeOK
    BY <1>1, <1>2, FilesAssumption DEF Init, TypeOK, Opened
  <2> QED BY <1>1, <1>2, <1>3, <2>1 DEF Init, TypeInv, Opened
<1>5. RingInv
  <2>1. SubSeq(<< >>, 0 - 0 + 1, 0) = << >>
    BY SubSeqEmpty
  <2> QED BY <1>3, <2>1, FilesAssumption DEF Init, RingInv, RingKeepsNewest
<1>6. \A t \in Tasks : Opened(t) = {}
  BY <1>1 DEF Init, Opened
<1> QED BY <1>4, <1>5, <1>6 DEF FilesInv, Followed, Owned, DescriptorsOwn, Streamed

LEMMA FilesStep == FilesInv /\ [Next]_vars => FilesInv'
<1> SUFFICES ASSUME FilesInv, [Next]_vars PROVE FilesInv'
  OBVIOUS
<1>1. ASSUME NEW t \in Tasks, NEW x \in Paths, syscall_open(t, x) PROVE FilesInv'
  BY <1>1, OpenFiles
<1>2. ASSUME NEW t \in Tasks, NEW f \in DOMAIN tables[t].fds, NEW n \in Sizes,
             syscall_read(t, f, n) \/ syscall_write(t, f, n)
      PROVE  FilesInv'
  BY <1>2, ReadFiles, WriteFiles
<1>3. ASSUME NEW t \in Tasks, NEW f \in DOMAIN tables[t].fds, NEW p \in Positions,
             syscall_lseek(t, f, p)
      PROVE  FilesInv'
  BY <1>3, SeekFiles
<1>4. ASSUME NEW t \in Tasks, NEW f \in DOMAIN tables[t].fds, syscall_close(t, f)
      PROVE  FilesInv'
  BY <1>4, CloseFiles
<1>5. ASSUME NEW t \in Tasks, exit(t) PROVE FilesInv'
  BY <1>5, ExitFiles
<1>6. ASSUME NEW len \in MsgLens, add_message(len) PROVE FilesInv'
  BY <1>6, AddFiles
<1>7. ASSUME NEW max \in Limits, set_max_log(max) PROVE FilesInv'
  BY <1>7, LimitFiles
<1>8. CASE UNCHANGED vars
  <2>1. UNCHANGED <<fds, tables, msgs, max_log, panic, seen, log, aliased>>
    BY <1>8 DEF vars
  <2>2. TypeInv'
    BY <2>1 DEF FilesInv, TypeInv, TypeOK, Opened, File
  <2>3. RingInv' /\ Dropped' = Dropped /\ Text(msgs)' = Text(msgs)
    BY <2>1, RingSame DEF FilesInv
  <2>4. Followed'
    BY <2>1, <2>3 DEF FilesInv, Followed, Opened
  <2>5. Owned => Owned'
    BY <2>1 DEF Owned, DescriptorsOwn, Opened, File, Known, Held, Name
  <2>6. Streamed => Streamed'
    BY <2>1, <2>3 DEF Streamed, Opened, File
  <2> QED BY <2>1, <2>2, <2>3, <2>4, <2>5, <2>6 DEF FilesInv
<1> QED BY <1>1, <1>2, <1>3, <1>4, <1>5, <1>6, <1>7, <1>8 DEF Next

(* The inductive invariant: what the tables, devfs and the ring hold, and   *)
(* how far each reader of /dev/kmsg is, after any sequence of system calls  *)
(* and kernel messages.                                                    *)
THEOREM FilesInvariant == Spec => []FilesInv
<1> QED BY FilesInit, FilesStep, PTL DEF Spec

(* As long as DevFS::open gives out numbers that no FdTable holds, a        *)
(* descriptor stands for the file that it was opened for until its task     *)
(* closes it, two descriptors never share an open file, and a closed one    *)
(* reaches none.                                                           *)
THEOREM DescriptorsCorrect == Spec => []DescriptorsKept
<1>1. FilesInv => DescriptorsKept
  BY DEF FilesInv, TypeInv, Owned, DescriptorsKept
<1> QED BY <1>1, FilesInvariant, PTL

(* The ring of add_message and set_max_log holds the newest messages, in    *)
(* order, and no more than the limit, whatever the limit is set to and when.*)
THEOREM RingCorrect == Spec => []RingKeepsNewest
<1>1. FilesInv => RingKeepsNewest
  BY DEF FilesInv, RingInv
<1> QED BY <1>1, FilesInvariant, PTL

(* The loop of DevFS::read returns exactly the bytes of the messages from   *)
(* the offset on, for every offset, buffer and division into messages, and  *)
(* a program that reads /dev/kmsg from the beginning gets every byte once   *)
(* and in order while messages are added and none is dropped.              *)
THEOREM KmsgCorrect == Spec => []KmsgGapless
<1>1. FilesInv => KmsgGapless
  <2> SUFFICES ASSUME FilesInv PROVE KmsgGapless
    OBVIOUS
  <2>1. KmsgReads
    <3> SUFFICES ASSUME NEW o \in 0..(Len(Text(msgs)) + 1), NEW n \in Sizes
                 PROVE  ReadKmsg(o, n)
                          = SubSeq(Text(msgs), o + 1, Min({o + n, Len(Text(msgs))}))
      BY DEF KmsgReads
    <3>1. o \in Nat /\ n \in Nat /\ msgs \in Seq(Seq(Bytes)) /\ Len(Text(msgs)) \in Nat
      <4>1. Len(Text(msgs)) \in Nat /\ msgs \in Seq(Seq(Bytes))
        BY RingFacts DEF FilesInv, TypeInv
      <4> DEFINE L == Len(Text(msgs))
      <4> HIDE DEF L
      <4>2. o \in Nat /\ n \in Nat
        BY <4>1, FilesAssumption DEF L
      <4> QED BY <4>1, <4>2
    <3>2. Min({o + n, Len(Text(msgs))}) = Least(o + n, Len(Text(msgs)))
      BY <3>1, MinOf DEF Least
    <3> QED BY <3>1, <3>2, ReadWindow DEF Window
  <2>2. KmsgStream
    BY DEF FilesInv, KmsgStream, Streamed
  <2> QED BY <2>1, <2>2 DEF KmsgGapless
<1> QED BY <1>1, FilesInvariant, PTL
=============================================================================
