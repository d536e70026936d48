--------------------------- MODULE HashingProofs ---------------------------
(***************************************************************************)
(* Proofs about Hashing for every length of a chunk, of a key and of a     *)
(* message: however a message is cut into calls of update, the hashers     *)
(* compress the chunks of the padded message exactly if no call completes  *)
(* a chunk that an earlier one has begun.                                  *)
(***************************************************************************)
EXTENDS Hashing, WellFoundedInduction, TLAPS

-----------------------------------------------------------------------------
(* Arithmetic. *)
LEMMA TimesNat ==
  ASSUME NEW a \in Nat, NEW b \in Nat
  PROVE  a * b \in Nat
OBVIOUS

LEMMA TimesMono ==
  ASSUME NEW a \in Int, NEW b \in Int, NEW n \in Nat, a =< b
  PROVE  a * n =< b * n
OBVIOUS

LEMMA TimesAdd ==
  ASSUME NEW a \in Int, NEW b \in Int, NEW n \in Int
  PROVE  (a + b) * n = a * n + b * n
OBVIOUS

LEMMA TimesAssoc ==
  ASSUME NEW a \in Int, NEW b \in Int, NEW n \in Int
  PROVE  a * (b * n) = (a * b) * n /\ a * b = b * a
OBVIOUS

LEMMA DivMod ==
  ASSUME NEW x \in Int, NEW n \in Int, n > 0
  PROVE  \E q \in Int, r \in Int : x = n * q + r /\ r = x % n /\ q = x \div n
OBVIOUS

(* Quotient and remainder are determined, for negative numbers too. *)
LEMMA DivUnique ==
  ASSUME NEW x \in Int, NEW n \in Nat, n >= 1, NEW q \in Int, NEW r \in 0..(n - 1),
         x = q * n + r
  PROVE  x \div n = q /\ x % n = r
<1>1. x % n \in 0..(n - 1)
  OBVIOUS
<1>2. PICK p \in Int, s \in Int : p = x \div n /\ s = x % n /\ x = n * p + s
  BY n > 0, DivMod
<1>3. PICK t \in Int, u \in Int : t = p * n /\ u = q * n /\ n * p = p * n
  BY TimesAssoc
<1>4. ASSUME p < q PROVE FALSE
  <2>1. (p + 1) * n =< q * n
    BY <1>4, TimesMono
  <2>2. (p + 1) * n = p * n + 1 * n /\ 1 * n = n
    BY TimesAdd
  <2> QED BY ONLY <1>1, <1>2, <1>3, <2>1, <2>2, x = q * n + r, n \in Nat, r \in 0..(n - 1)
<1>5. ASSUME q < p PROVE FALSE
  <2>1. (q + 1) * n =< p * n
    BY <1>5, TimesMono
  <2>2. (q + 1) * n = q * n + 1 * n /\ 1 * n = n
    BY TimesAdd
  <2> QED BY ONLY <1>1, <1>2, <1>3, <2>1, <2>2, x = q * n + r, n \in Nat, r \in 0..(n - 1)
<1>6. p = q
  BY <1>4, <1>5
<1>7. n * p = q * n
  BY <1>3, <1>6
<1> QED BY ONLY <1>2, <1>3, <1>6, <1>7, x = q * n + r, r \in 0..(n - 1), n \in Nat

LEMMA BlockType == Block \in Nat /\ Block >= 2 /\ LenBytes \in Nat /\ LenBytes + 1 < Block
BY HashingAssumption

(* n bytes are q chunks and r bytes more. *)
Cut(n, q, r) == n = q * Block + r /\ n \div Block = q /\ Block * q = q * Block /\ q * Block \in Nat

LEMMA CutExists ==
  ASSUME NEW n \in Nat
  PROVE  \E q \in Nat, r \in 0..(Block - 1) : Cut(n, q, r)
<1>1. n % Block \in 0..(Block - 1)
  BY BlockType
<1>2. PICK b \in Nat, d \in Int, e \in Int :
        b = Block /\ b >= 2 /\ d = n \div b /\ e = n % b /\ n = b * d + e
  BY BlockType, DivMod
<1>3. PICK t \in Int : t = d * b /\ b * d = d * b
  BY TimesAssoc
<1>4. d >= 0
  <2> SUFFICES ASSUME d =< -1 PROVE FALSE
    OBVIOUS
  <2>1. d * b =< (-1) * b /\ (-1) * b = -b
    BY TimesMono
  <2> QED BY ONLY <1>1, <1>2, <1>3, <2>1, b \in Nat, n \in Nat
<1>5. d * b \in Nat /\ n = d * b + e
  BY <1>2, <1>3, <1>4, TimesNat
<1>6. d \in Nat /\ e \in 0..(Block - 1) /\ Cut(n, d, e)
  BY <1>1, <1>2, <1>3, <1>4, <1>5 DEF Cut
<1> QED BY <1>6

LEMMA CutUnique ==
  ASSUME NEW n \in Nat, NEW q \in Nat, NEW r \in 0..(Block - 1), n = q * Block + r
  PROVE  Cut(n, q, r)
BY BlockType, DivUnique, TimesAssoc, TimesNat DEF Cut
-----------------------------------------------------------------------------
(* Sequences, of whatever elements. *)
IsSeq(m) == \E S : m \in Seq(S)

LEMMA SeqFacts ==
  ASSUME NEW m, IsSeq(m)
  PROVE  Len(m) \in Nat /\ DOMAIN m = 1..Len(m)
BY DEF IsSeq

LEMMA SeqEqual ==
  ASSUME NEW a, NEW b, IsSeq(a), IsSeq(b), Len(a) = Len(b), \A i \in 1..Len(a) : a[i] = b[i]
  PROVE  a = b
<1>1. PICK S : a \in Seq(S)
  BY DEF IsSeq
<1>2. PICK T : b \in Seq(T)
  BY DEF IsSeq
<1>3. PICK n \in Nat : n = Len(a) /\ a \in [1..n -> S] /\ b \in [1..n -> T]
  BY <1>1, <1>2
<1> QED BY <1>3

LEMMA FunctionIsSeq ==
  ASSUME NEW n \in Nat, NEW f, f = [i \in 1..n |-> f[i]]
  PROVE  IsSeq(f) /\ Len(f) = n /\ DOMAIN f = 1..n
<1>1. DOMAIN f = 1..n
  OBVIOUS
<1>2. f \in [1..n -> {f[j] : j \in 1..n}]
  BY <1>1
<1>3. f \in Seq({f[j] : j \in 1..n}) /\ Len(f) = n
  BY <1>2
<1> QED BY <1>1, <1>3 DEF IsSeq

LEMMA SeqIn ==
  ASSUME NEW m, IsSeq(m), NEW T
  PROVE  m \in Seq({m[i] : i \in 1..Len(m)} \cup T)
<1>1. PICK S : m \in Seq(S)
  BY DEF IsSeq
<1>2. PICK n \in Nat : n = Len(m) /\ m \in [1..n -> S]
  BY <1>1
<1>3. PICK E : E = {m[i] : i \in 1..n} \cup T
  OBVIOUS
<1>4. m \in [1..n -> E]
  BY <1>2, <1>3
<1>5. m \in Seq(E)
  BY ONLY <1>4, n \in Nat
<1> QED BY ONLY <1>2, <1>3, <1>5

Joined(a, b) ==
  /\ IsSeq(a \o b) /\ Len(a \o b) = Len(a) + Len(b)
  /\ \A i \in 1..Len(a) : (a \o b)[i] = a[i]
  /\ \A i \in 1..Len(b) : (a \o b)[Len(a) + i] = b[i]

LEMMA Join ==
  ASSUME NEW a, NEW b, IsSeq(a), IsSeq(b)
  PROVE  Joined(a, b)
<1>1. PICK S : a \in Seq(S) /\ b \in Seq(S)
  <2>1. /\ a \in Seq({a[i] : i \in 1..Len(a)} \cup {b[i] : i \in 1..Len(b)})
        /\ b \in Seq({b[i] : i \in 1..Len(b)} \cup {a[i] : i \in 1..Len(a)})
    BY SeqIn
  <2>2. {a[i] : i \in 1..Len(a)} \cup {b[i] : i \in 1..Len(b)}
        = {b[i] : i \in 1..Len(b)} \cup {a[i] : i \in 1..Len(a)}
    OBVIOUS
  <2> QED BY <2>1, <2>2
<1>2. a \o b \in Seq(S) /\ Len(a \o b) = Len(a) + Len(b)
  BY <1>1
<1>3. ASSUME NEW i \in 1..Len(a) PROVE (a \o b)[i] = a[i]
  BY <1>1
<1>4. ASSUME NEW i \in 1..Len(b) PROVE (a \o b)[Len(a) + i] = b[i]
  BY <1>1
<1> QED BY <1>2, <1>3, <1>4 DEF IsSeq, Joined

Sliced(m, i, j) ==
  /\ IsSeq(SubSeq(m, i, j)) /\ Len(SubSeq(m, i, j)) = j - i + 1
  /\ \A k \in 1..(j - i + 1) : SubSeq(m, i, j)[k] = m[i + k - 1]

LEMMA Slice ==
  ASSUME NEW m, IsSeq(m), NEW i \in Nat, NEW j \in Nat, 1 =< i, i =< j + 1, j =< Len(m)
  PROVE  Sliced(m, i, j)
<1>1. PICK S : m \in Seq(S)
  BY DEF IsSeq
<1>2. SubSeq(m, i, j) \in Seq(S) /\ Len(SubSeq(m, i, j)) = j - i + 1
  BY <1>1
<1>3. ASSUME NEW k \in 1..(j - i + 1) PROVE SubSeq(m, i, j)[k] = m[i + k - 1]
  BY <1>1
<1> QED BY <1>2, <1>3 DEF Sliced, IsSeq

Associates(a, b, c) == (a \o b) \o c = a \o (b \o c)

LEMMA Assoc ==
  ASSUME NEW a, NEW b, NEW c, IsSeq(a), IsSeq(b), IsSeq(c)
  PROVE  Associates(a, b, c)
<1>1. PICK x \in Nat, y \in Nat, z \in Nat : x = Len(a) /\ y = Len(b) /\ z = Len(c)
  BY SeqFacts
<1>2. Joined(a, b) /\ Joined(b, c)
  BY Join
<1>3. PICK u, v : u = a \o b /\ v = b \o c
  OBVIOUS
<1>4. /\ IsSeq(u) /\ Len(u) = x + y
      /\ \A i \in 1..x : u[i] = a[i]
      /\ \A i \in 1..y : u[x + i] = b[i]
      /\ IsSeq(v) /\ Len(v) = y + z
      /\ \A i \in 1..y : v[i] = b[i]
      /\ \A i \in 1..z : v[y + i] = c[i]
  BY ONLY <1>1, <1>2, <1>3 DEF Joined
<1>5. Joined(u, c) /\ Joined(a, v)
  BY <1>4, Join
<1>6. PICK s, t : s = u \o c /\ t = a \o v
  OBVIOUS
<1>7. /\ IsSeq(s) /\ Len(s) = (x + y) + z /\ \A i \in 1..(x + y) : s[i] = u[i]
      /\ \A i \in 1..z : s[(x + y) + i] = c[i]
      /\ IsSeq(t) /\ Len(t) = x + (y + z) /\ \A i \in 1..x : t[i] = a[i]
      /\ \A i \in 1..(y + z) : t[x + i] = v[i]
  <2>1. Len(u) = x + y /\ Len(c) = z /\ Len(a) = x /\ Len(v) = y + z
    BY ONLY <1>1, <1>4
  <2>2. /\ IsSeq(s) /\ Len(s) = (x + y) + z /\ \A i \in 1..(x + y) : s[i] = u[i]
        /\ \A i \in 1..z : s[(x + y) + i] = c[i]
    BY ONLY <1>5, <1>6, <2>1 DEF Joined
  <2>3. /\ IsSeq(t) /\ Len(t) = x + (y + z) /\ \A i \in 1..x : t[i] = a[i]
        /\ \A i \in 1..(y + z) : t[x + i] = v[i]
    BY ONLY <1>5, <1>6, <2>1 DEF Joined
  <2> QED BY ONLY <2>2, <2>3
<1>8. ASSUME NEW i \in 1..((x + y) + z) PROVE s[i] = t[i]
  <2>1. CASE i \in 1..x
    BY <1>4, <1>7, <2>1
  <2>2. CASE i > x /\ i =< x + y
    <3>1. PICK k \in 1..y : i = x + k /\ i \in 1..(x + y) /\ k \in 1..(y + z)
      <4>1. i - x \in 1..y /\ i = x + (i - x) /\ i \in 1..(x + y) /\ i - x \in 1..(y + z)
        BY <2>2
      <4> QED BY <4>1
    <3>2. s[i] = u[i] /\ t[x + k] = v[k]
      BY ONLY <1>7, <3>1
    <3>3. u[x + k] = b[k] /\ v[k] = b[k]
      BY ONLY <1>4, <3>1
    <3> QED BY ONLY <3>1, <3>2, <3>3
  <2>3. CASE i > x + y
    <3>1. PICK k \in 1..z : i = (x + y) + k /\ i = x + (y + k) /\ y + k \in 1..(y + z)
      <4>1. i - (x + y) \in 1..z /\ i = (x + y) + (i - (x + y)) /\ i = x + (y + (i - (x + y)))
            /\ y + (i - (x + y)) \in 1..(y + z)
        BY <2>3
      <4> QED BY <4>1
    <3>2. s[(x + y) + k] = c[k] /\ t[x + (y + k)] = v[y + k]
      BY ONLY <1>7, <3>1
    <3>3. v[y + k] = c[k]
      BY ONLY <1>4, <3>1
    <3> QED BY ONLY <3>1, <3>2, <3>3
  <2> QED BY <2>1, <2>2, <2>3
<1>9. Len(s) = Len(t) /\ Len(s) = (x + y) + z
  BY <1>7
<1>10. s = t
  BY ONLY <1>7, <1>8, <1>9, SeqEqual
<1> QED BY ONLY <1>3, <1>6, <1>10 DEF Associates

LEMMA EmptySeq ==
  /\ IsSeq(<<>>) /\ Len(<<>>) = 0
  /\ \A m : IsSeq(m) => <<>> \o m = m /\ m \o <<>> = m /\ (Len(m) = 0 => m = <<>>)
<1>1. IsSeq(<<>>) /\ Len(<<>>) = 0
  BY DEF IsSeq
<1>2. ASSUME NEW m, IsSeq(m) PROVE <<>> \o m = m /\ m \o <<>> = m /\ (Len(m) = 0 => m = <<>>)
  BY <1>2 DEF IsSeq
<1> QED BY <1>1, <1>2

LEMMA OneSeq ==
  ASSUME NEW x
  PROVE  IsSeq(<<x>>) /\ Len(<<x>>) = 1 /\ <<x>>[1] = x
<1>1. <<x>> \in Seq({x})
  OBVIOUS
<1> QED BY <1>1 DEF IsSeq

LEMMA TwoSeq ==
  ASSUME NEW x, NEW y
  PROVE  <<x>> \o <<y>> = <<x, y>>
<1>1. PICK a, b, c : a = <<x>> /\ b = <<y>> /\ c = <<x, y>>
  OBVIOUS
<1>2. IsSeq(a) /\ Len(a) = 1 /\ a[1] = x /\ IsSeq(b) /\ Len(b) = 1 /\ b[1] = y
  BY <1>1, OneSeq
<1>3. IsSeq(c) /\ Len(c) = 2 /\ c[1] = x /\ c[2] = y
  <2>1. <<x, y>> \in Seq({x, y})
    OBVIOUS
  <2> QED BY <1>1, <2>1 DEF IsSeq
<1>4. PICK z : z = a \o b /\ IsSeq(z) /\ Len(z) = 2 /\ z[1] = x /\ z[2] = y
  <2>1. Joined(a, b)
    BY <1>2, Join
  <2>2. 1 + 1 = 2 /\ 1 \in 1..1
    OBVIOUS
  <2>3. (a \o b)[1] = x /\ (a \o b)[1 + 1] = y /\ IsSeq(a \o b) /\ Len(a \o b) = 1 + 1
    BY ONLY <1>2, <2>1, <2>2 DEF Joined
  <2> QED BY ONLY <2>2, <2>3
<1>5. \A i \in 1..2 : i = 1 \/ i = 2
  OBVIOUS
<1>6. z = c
  BY ONLY <1>3, <1>4, <1>5, SeqEqual
<1> QED BY ONLY <1>1, <1>4, <1>6

-----------------------------------------------------------------------------
(* The chunks of a sequence. *)
Chunks(m, q) ==
  /\ IsSeq(Whole(m)) /\ Len(Whole(m)) = q
  /\ \A c \in 1..q : /\ IsSeq(Whole(m)[c]) /\ Len(Whole(m)[c]) = Block
                     /\ \A k \in 1..Block : Whole(m)[c][k] = m[(c - 1) * Block + k]
Left(m, q, r) ==
  /\ IsSeq(Tail_of(m)) /\ Len(Tail_of(m)) = r
  /\ \A k \in 1..r : Tail_of(m)[k] = m[q * Block + k]

LEMMA ChunkInside ==
  ASSUME NEW q \in Nat, NEW c \in 1..q
  PROVE  /\ (c - 1) * Block \in Nat /\ c * Block \in Nat /\ q * Block \in Nat
         /\ c * Block = (c - 1) * Block + Block /\ c * Block =< q * Block
<1>1. PICK d \in Nat, e \in Nat, b \in Nat : d = c - 1 /\ e = c /\ d + 1 = e /\ e =< q /\ b = Block
  BY BlockType
<1>2. d * b \in Nat /\ e * b \in Nat /\ q * b \in Nat
  BY TimesNat
<1>3. (d + 1) * b = d * b + 1 * b /\ 1 * b = b
  BY TimesAdd
<1>4. e * b =< q * b
  BY <1>1, TimesMono
<1> QED BY <1>1, <1>2, <1>3, <1>4

LEMMA WholeFacts ==
  ASSUME NEW m, IsSeq(m), NEW q \in Nat, NEW r \in 0..(Block - 1), Cut(Len(m), q, r)
  PROVE  Chunks(m, q) /\ Left(m, q, r)
<1>1. PICK n \in Nat : n = Len(m) /\ n = q * Block + r /\ n \div Block = q
                       /\ q * Block \in Nat /\ Block * q = q * Block /\ Block \in Nat
  BY SeqFacts, BlockType DEF Cut
<1>2. Whole(m) = [c \in 1..q |-> SubSeq(m, (c - 1) * Block + 1, c * Block)]
  BY <1>1 DEF Whole
<1>3. IsSeq(Whole(m)) /\ Len(Whole(m)) = q
  <2>1. Whole(m) = [c \in 1..q |-> Whole(m)[c]]
    BY <1>2
  <2> QED BY <2>1, FunctionIsSeq
<1>4. ASSUME NEW c \in 1..q
      PROVE  /\ IsSeq(Whole(m)[c]) /\ Len(Whole(m)[c]) = Block
             /\ \A k \in 1..Block : Whole(m)[c][k] = m[(c - 1) * Block + k]
  <2>1. PICK i \in Nat, j \in Nat, d \in Nat :
          /\ d = (c - 1) * Block /\ i = d + 1 /\ j = c * Block /\ j = d + Block /\ j =< n
    <3>1. /\ (c - 1) * Block \in Nat /\ c * Block \in Nat
          /\ c * Block = (c - 1) * Block + Block /\ c * Block =< q * Block
      BY ChunkInside
    <3>2. c * Block =< n /\ (c - 1) * Block + 1 \in Nat
      BY ONLY <1>1, <3>1, r \in 0..(Block - 1)
    <3> QED BY ONLY <3>1, <3>2
  <2>2. 1 =< i /\ i =< j + 1 /\ j - i + 1 = Block /\ j =< Len(m)
    BY ONLY <1>1, <2>1
  <2>3. Sliced(m, i, j)
    BY <2>2, Slice
  <2>4. PICK w : w = Whole(m)[c] /\ w = SubSeq(m, i, j)
    BY <1>2, <2>1
  <2>5. IsSeq(w) /\ Len(w) = Block /\ \A k \in 1..Block : w[k] = m[i + k - 1]
    BY ONLY <2>2, <2>3, <2>4 DEF Sliced
  <2>6. \A k \in 1..Block : i + k - 1 = d + k
    BY ONLY <2>1
  <2> QED BY ONLY <2>1, <2>4, <2>5, <2>6
<1>5. PICK t : t = Tail_of(m) /\ t = SubSeq(m, q * Block + 1, n)
  BY <1>1 DEF Tail_of
<1>6. PICK i \in Nat : i = q * Block + 1 /\ 1 =< i /\ i =< n + 1 /\ n - i + 1 = r
  <2>1. q * Block + 1 \in Nat /\ 1 =< q * Block + 1 /\ q * Block + 1 =< n + 1 /\ n - (q * Block + 1) + 1 = r
    BY ONLY <1>1, r \in 0..(Block - 1)
  <2> QED BY ONLY <2>1
<1>7. Sliced(m, i, n)
  <2>1. n =< Len(m) /\ i \in Nat /\ n \in Nat /\ 1 =< i /\ i =< n + 1
    BY ONLY <1>1, <1>6
  <2> QED BY ONLY <2>1, IsSeq(m), Slice
<1>8. IsSeq(t) /\ Len(t) = r /\ \A k \in 1..r : t[k] = m[i + k - 1]
  BY ONLY <1>5, <1>6, <1>7 DEF Sliced
<1>9. \A k \in 1..r : i + k - 1 = q * Block + k
  BY ONLY <1>1, <1>6, r \in 0..(Block - 1)
<1>10. Left(m, q, r)
  BY ONLY <1>5, <1>8, <1>9 DEF Left
<1>11. Chunks(m, q)
  BY ONLY <1>3, <1>4 DEF Chunks
<1> QED BY <1>10, <1>11

IsChunk(m, c, x) ==
  /\ IsSeq(x) /\ Len(x) = Block
  /\ \A k \in 1..Block : x[k] = m[(c - 1) * Block + k]

(* The chunks of a sequence are determined by its elements. *)
LEMMA ChunksUnique ==
  ASSUME NEW m, IsSeq(m), NEW q \in Nat, NEW r \in 0..(Block - 1), Cut(Len(m), q, r),
         NEW w, IsSeq(w), Len(w) = q,
         \A c \in 1..q : IsChunk(m, c, w[c])
  PROVE  w = Whole(m)
<1>1. Chunks(m, q)
  BY WholeFacts
<1>2. ASSUME NEW c \in 1..q PROVE w[c] = Whole(m)[c]
  <2>1. PICK v : v = Whole(m)[c] /\ IsSeq(v) /\ Len(v) = Block
                 /\ \A k \in 1..Block : v[k] = m[(c - 1) * Block + k]
    BY ONLY <1>1, c \in 1..q DEF Chunks
  <2>2. PICK u : u = w[c] /\ IsSeq(u) /\ Len(u) = Block
                 /\ \A k \in 1..Block : u[k] = m[(c - 1) * Block + k]
    BY DEF IsChunk
  <2>3. \A k \in 1..Len(u) : u[k] = v[k]
    BY ONLY <2>1, <2>2
  <2>4. u = v
    BY ONLY <2>1, <2>2, <2>3, SeqEqual
  <2> QED BY ONLY <2>1, <2>2, <2>4
<1>3. IsSeq(Whole(m)) /\ Len(Whole(m)) = q
  BY <1>1 DEF Chunks
<1>4. \A c \in 1..Len(w) : w[c] = Whole(m)[c]
  BY ONLY <1>2, Len(w) = q
<1> QED BY ONLY <1>3, <1>4, IsSeq(w), Len(w) = q, SeqEqual

LEMMA LeftUnique ==
  ASSUME NEW m, IsSeq(m), NEW q \in Nat, NEW r \in 0..(Block - 1), Cut(Len(m), q, r),
         NEW t, IsSeq(t), Len(t) = r, \A k \in 1..r : t[k] = m[q * Block + k]
  PROVE  t = Tail_of(m)
<1>1. Left(m, q, r)
  BY WholeFacts
<1>2. IsSeq(Tail_of(m)) /\ Len(Tail_of(m)) = r /\ \A k \in 1..Len(t) : t[k] = Tail_of(m)[k]
  BY ONLY <1>1, Len(t) = r, \A k \in 1..r : t[k] = m[q * Block + k] DEF Left
<1> QED BY ONLY <1>2, IsSeq(t), Len(t) = r, SeqEqual

(* Behind whole chunks only what was left of a counts. *)
LEMMA WholeExtend ==
  ASSUME NEW a, NEW d, IsSeq(a), IsSeq(d)
  PROVE  /\ Whole(a \o d) = Whole(a) \o Whole(Tail_of(a) \o d)
         /\ Tail_of(a \o d) = Tail_of(Tail_of(a) \o d)
<1>1. PICK q \in Nat, r \in 0..(Block - 1) : Cut(Len(a), q, r)
  BY SeqFacts, CutExists
<1>2. PICK b \in Nat, n \in Nat, l \in Nat, e \in Nat :
        b = Block /\ n = Len(d) /\ l = Len(a) /\ e = q * Block /\ l = e + r
  BY <1>1, BlockType, SeqFacts DEF Cut
<1>3. Chunks(a, q) /\ Left(a, q, r)
  BY <1>1, WholeFacts
<1>4. PICK R : R = Tail_of(a) /\ IsSeq(R) /\ Len(R) = r /\ \A k \in 1..r : R[k] = a[e + k]
  BY <1>2, <1>3 DEF Left
<1>5. PICK X, Y : X = a \o d /\ Y = R \o d
  OBVIOUS
<1>6. /\ IsSeq(X) /\ Len(X) = l + n
      /\ \A i \in 1..l : X[i] = a[i]
      /\ \A i \in 1..n : X[l + i] = d[i]
  <2>1. Joined(a, d)
    BY Join
  <2> QED BY ONLY <1>2, <1>5, <2>1 DEF Joined
<1>7. /\ IsSeq(Y) /\ Len(Y) = r + n
      /\ \A i \in 1..r : Y[i] = R[i]
      /\ \A i \in 1..n : Y[r + i] = d[i]
  <2>1. Joined(R, d)
    BY <1>4, Join
  <2> QED BY ONLY <1>2, <1>4, <1>5, <2>1 DEF Joined
<1>8. ASSUME NEW k \in 1..(r + n) PROVE X[e + k] = Y[k]
  <2>1. CASE k =< r
    <3>1. k \in 1..r /\ e + k \in 1..l
      BY ONLY <1>2, <2>1, e \in Nat, l \in Nat, r \in 0..(Block - 1), k \in 1..(r + n), b \in Nat, n \in Nat
    <3> QED BY ONLY <1>4, <1>6, <1>7, <3>1
  <2>2. CASE k > r
    <3>1. k - r \in 1..n /\ k = r + (k - r) /\ e + k = l + (k - r)
      BY ONLY <1>2, <2>2, e \in Nat, l \in Nat, r \in 0..(Block - 1), k \in 1..(r + n), b \in Nat, n \in Nat
    <3>2. PICK j \in 1..n : k = r + j /\ e + k = l + j
      BY ONLY <3>1
    <3>3. X[l + j] = d[j] /\ Y[r + j] = d[j]
      BY ONLY <1>6, <1>7, <3>2
    <3> QED BY ONLY <3>2, <3>3
  <2> QED BY ONLY <2>1, <2>2, r \in 0..(Block - 1), k \in 1..(r + n), <1>2, b \in Nat
<1>9. PICK p \in Nat, u \in 0..(Block - 1) : Cut(Len(Y), p, u)
  BY <1>7, SeqFacts, CutExists
<1>10. PICK f \in Nat : f = p * Block /\ r + n = f + u
  BY <1>7, <1>9 DEF Cut
<1>11. PICK Q \in Nat : Q = q + p /\ Q * Block = e + f
  BY <1>2, <1>10, BlockType, TimesAdd
<1>12. Cut(Len(X), Q, u)
  <2>1. Len(X) \in Nat /\ Len(X) = Q * Block + u
    <3>1. b \in Nat /\ r \in 0..(b - 1) /\ u \in 0..(b - 1) /\ l = e + r /\ r + n = f + u
      BY <1>2, <1>10
    <3>2. l + n = (e + f) + u /\ l + n \in Nat
      BY ONLY <3>1, l \in Nat, n \in Nat, e \in Nat, f \in Nat
    <3> QED BY ONLY <1>6, <1>11, <3>2
  <2> QED BY <2>1, CutUnique
<1>13. Chunks(Y, p) /\ Left(Y, p, u)
  BY <1>7, <1>9, WholeFacts
<1>14. Tail_of(Y) = Tail_of(X)
  <2>1. PICK t : t = Tail_of(Y) /\ IsSeq(t) /\ Len(t) = u /\ \A k \in 1..u : t[k] = Y[f + k]
    BY <1>10, <1>13 DEF Left
  <2>2. ASSUME NEW k \in 1..u PROVE t[k] = X[Q * Block + k]
    <3>1. f + k \in 1..(r + n) /\ Q * Block + k = e + (f + k)
      BY <1>2, <1>10, <1>11, BlockType
    <3>2. X[e + (f + k)] = Y[f + k] /\ t[k] = Y[f + k]
      BY ONLY <1>8, <2>1, <3>1, k \in 1..u
    <3> QED BY ONLY <3>1, <3>2
  <2>3. t = Tail_of(X)
    BY ONLY <1>6, <1>12, <2>1, <2>2, Q \in Nat, u \in 0..(Block - 1), LeftUnique
  <2> QED BY ONLY <2>1, <2>3
<1>15. PICK v, w : v = Whole(a) /\ w = Whole(Y)
  OBVIOUS
<1>16. /\ IsSeq(v) /\ Len(v) = q /\ IsSeq(w) /\ Len(w) = p
       /\ \A c \in 1..q : /\ IsSeq(v[c]) /\ Len(v[c]) = Block
                          /\ \A k \in 1..Block : v[c][k] = a[(c - 1) * Block + k]
       /\ \A c \in 1..p : /\ IsSeq(w[c]) /\ Len(w[c]) = Block
                          /\ \A k \in 1..Block : w[c][k] = Y[(c - 1) * Block + k]
  BY ONLY <1>3, <1>13, <1>15 DEF Chunks
<1>17. PICK z : z = v \o w
  OBVIOUS
<1>18. /\ IsSeq(z) /\ Len(z) = Q
       /\ \A c \in 1..q : z[c] = v[c]
       /\ \A c \in 1..p : z[q + c] = w[c]
  <2>1. Joined(v, w)
    BY ONLY <1>16, Join
  <2> QED BY ONLY <1>11, <1>16, <1>17, <2>1 DEF Joined
<1>19. ASSUME NEW c \in 1..Q
       PROVE  /\ IsSeq(z[c]) /\ Len(z[c]) = Block
              /\ \A k \in 1..Block : z[c][k] = X[(c - 1) * Block + k]
  <2>1. CASE c =< q
    <3>1. c \in 1..q
      BY <2>1
    <3>2. IsSeq(z[c]) /\ Len(z[c]) = Block /\ \A k \in 1..Block : z[c][k] = a[(c - 1) * Block + k]
      BY ONLY <1>16, <1>18, <3>1
    <3>3. PICK g \in Nat : g = (c - 1) * Block /\ g + Block =< e
      BY <1>2, <3>1, ChunkInside
    <3>4. ASSUME NEW k \in 1..Block PROVE X[g + k] = a[g + k]
      <4>1. g + k \in 1..l
        BY <1>2, <3>3, BlockType
      <4> QED BY ONLY <1>6, <4>1
    <3> QED BY ONLY <3>2, <3>3, <3>4
  <2>2. CASE c > q
    <3>1. c - q \in 1..p /\ c = q + (c - q)
      BY <1>11, <2>2
    <3>2. PICK h \in 1..p : c = q + h
      BY ONLY <3>1
    <3>3. IsSeq(z[c]) /\ Len(z[c]) = Block /\ \A k \in 1..Block : z[c][k] = Y[(h - 1) * Block + k]
      BY ONLY <1>16, <1>18, <3>2
    <3>4. PICK g \in Nat : g = (h - 1) * Block /\ g + Block =< f
      <4>1. /\ (h - 1) * Block \in Nat /\ h * Block = (h - 1) * Block + Block
            /\ h * Block =< p * Block
        BY ONLY <3>2, p \in Nat, ChunkInside
      <4> QED BY ONLY <1>10, <4>1
    <3>5. (c - 1) * Block = e + g
      <4>1. c - 1 = q + (h - 1)
        BY <3>2
      <4>2. (q + (h - 1)) * Block = q * Block + (h - 1) * Block
        BY BlockType, TimesAdd
      <4> QED BY ONLY <1>2, <3>4, <4>1, <4>2
    <3>6. ASSUME NEW k \in 1..Block PROVE Y[g + k] = X[(c - 1) * Block + k]
      <4>1. g + k \in 1..(r + n) /\ (c - 1) * Block + k = e + (g + k)
        BY <1>10, <3>4, <3>5, BlockType
      <4> QED BY ONLY <1>8, <4>1
    <3> QED BY ONLY <3>3, <3>4, <3>6
  <2> QED BY <2>1, <2>2
<1>20. z = Whole(X)
  <2>1. \A c \in 1..Q : IsChunk(X, c, z[c])
    BY ONLY <1>19 DEF IsChunk
  <2>2. IsSeq(X) /\ IsSeq(z) /\ Len(z) = Q
    BY ONLY <1>6, <1>18
  <2> QED BY ONLY <1>12, <2>1, <2>2, Q \in Nat, u \in 0..(Block - 1), ChunksUnique
<1> QED BY ONLY <1>4, <1>5, <1>14, <1>15, <1>17, <1>20

(* Fewer bytes than a chunk, and exactly one chunk. *)
LEMMA WholeShort ==
  ASSUME NEW m, IsSeq(m), Len(m) < Block
  PROVE  Whole(m) = <<>> /\ Tail_of(m) = m
<1>1. PICK n \in Nat : n = Len(m) /\ n \in 0..(Block - 1)
  BY SeqFacts, BlockType
<1>2. 0 * Block = 0
  BY BlockType
<1>3. Cut(Len(m), 0, n)
  <2>1. n = 0 * Block + n
    BY <1>2
  <2> QED BY <1>1, <2>1, CutUnique
<1>4. Chunks(m, 0) /\ Left(m, 0, n)
  BY <1>1, <1>3, WholeFacts
<1>5. Whole(m) = <<>>
  <2>1. IsSeq(Whole(m)) /\ Len(Whole(m)) = 0
    BY ONLY <1>4 DEF Chunks
  <2> QED BY <2>1, EmptySeq
<1>6. PICK t : t = Tail_of(m) /\ IsSeq(t) /\ Len(t) = n /\ \A k \in 1..n : t[k] = m[0 * Block + k]
  BY ONLY <1>4 DEF Left
<1>7. \A k \in 1..n : 0 * Block + k = k
  BY ONLY <1>2
<1>8. \A k \in 1..Len(t) : t[k] = m[k]
  BY ONLY <1>6, <1>7
<1>9. t = m
  BY ONLY <1>1, <1>6, <1>8, IsSeq(m), SeqEqual
<1> QED BY <1>5, <1>6, <1>9

LEMMA WholeOne ==
  ASSUME NEW m, IsSeq(m), Len(m) = Block
  PROVE  Whole(m) = <<m>> /\ Tail_of(m) = <<>>
<1>1. 1 * Block = Block /\ 0 \in 0..(Block - 1)
  BY BlockType
<1>2. Cut(Len(m), 1, 0)
  <2>1. Len(m) = 1 * Block + 0 /\ Len(m) \in Nat
    BY <1>1, BlockType
  <2> QED BY <1>1, <2>1, CutUnique
<1>3. Left(m, 1, 0)
  BY <1>1, <1>2, WholeFacts
<1>4. IsSeq(Tail_of(m)) /\ Len(Tail_of(m)) = 0
  BY ONLY <1>3 DEF Left
<1>5. Tail_of(m) = <<>>
  BY <1>4, EmptySeq
<1>6. PICK w : w = <<m>> /\ IsSeq(w) /\ Len(w) = 1 /\ w[1] = m
  BY OneSeq
<1>7. ASSUME NEW c \in 1..1
      PROVE  /\ IsSeq(w[c]) /\ Len(w[c]) = Block
             /\ \A k \in 1..Block : w[c][k] = m[(c - 1) * Block + k]
  <2>1. c = 1 /\ (c - 1) * Block = 0
    <3>1. c = 1 /\ c - 1 = 0
      OBVIOUS
    <3>2. 0 * Block = 0
      BY BlockType
    <3> QED BY ONLY <3>1, <3>2
  <2>2. \A k \in 1..Block : 0 + k = k
    BY BlockType
  <2> QED BY ONLY <1>6, <2>1, <2>2, IsSeq(m), Len(m) = Block
<1>8. w = Whole(m)
  <2>1. \A c \in 1..1 : IsChunk(m, c, w[c])
    BY ONLY <1>7 DEF IsChunk
  <2>2. IsSeq(w) /\ Len(w) = 1 /\ 1 \in Nat /\ 0 \in 0..(Block - 1)
    BY <1>1, <1>6
  <2> QED BY ONLY <1>2, <2>1, <2>2, IsSeq(m), ChunksUnique
<1> QED BY <1>5, <1>6, <1>8

LEMMA WholeTwo ==
  ASSUME NEW x, NEW y, IsSeq(x), IsSeq(y), Len(x) = Block, Len(y) = Block
  PROVE  Whole(x \o y) = <<x, y>>
<1>1. Whole(x \o y) = Whole(x) \o Whole(Tail_of(x) \o y)
  BY WholeExtend
<1>2. Whole(x) = <<x>> /\ Tail_of(x) = <<>> /\ Whole(y) = <<y>> /\ <<>> \o y = y
  BY WholeOne, EmptySeq
<1>3. <<x>> \o <<y>> = <<x, y>>
  BY TwoSeq
<1> QED BY ONLY <1>1, <1>2, <1>3

-----------------------------------------------------------------------------
(* Sequences of full chunks. *)
Full(h) == IsSeq(h) /\ \A c \in 1..Len(h) : Len(h[c]) = Block

LEMMA FullJoin ==
  ASSUME NEW a, NEW b, Full(a), Full(b)
  PROVE  Full(a \o b)
<1>1. PICK x \in Nat, y \in Nat : x = Len(a) /\ y = Len(b)
  BY SeqFacts DEF Full
<1>2. Joined(a, b)
  BY Join DEF Full
<1>3. PICK z : z = a \o b
  OBVIOUS
<1>4. /\ IsSeq(z) /\ Len(z) = x + y
      /\ \A i \in 1..x : z[i] = a[i]
      /\ \A i \in 1..y : z[x + i] = b[i]
  BY ONLY <1>1, <1>2, <1>3 DEF Joined
<1>5. ASSUME NEW c \in 1..(x + y) PROVE Len(z[c]) = Block
  <2>1. CASE c \in 1..x
    <3>1. Len(a[c]) = Block
      BY <1>1, <2>1 DEF Full
    <3> QED BY ONLY <1>4, <2>1, <3>1
  <2>2. CASE c \notin 1..x
    <3>1. c - x \in 1..y /\ c = x + (c - x)
      BY <2>2
    <3>2. PICK k \in 1..y : c = x + k
      BY ONLY <3>1
    <3>3. Len(b[k]) = Block
      BY <1>1, <3>2 DEF Full
    <3> QED BY ONLY <1>4, <3>2, <3>3
  <2> QED BY <2>1, <2>2
<1> QED BY ONLY <1>3, <1>4, <1>5 DEF Full

LEMMA FullFew ==
  /\ Full(<<>>)
  /\ \A x : Len(x) = Block => Full(<<x>>)
  /\ \A x, y : Len(x) = Block /\ Len(y) = Block => Full(<<x, y>>)
<1>1. Full(<<>>)
  BY EmptySeq DEF Full
<1>2. ASSUME NEW x, Len(x) = Block PROVE Full(<<x>>)
  <2>1. IsSeq(<<x>>) /\ Len(<<x>>) = 1 /\ <<x>>[1] = x
    BY OneSeq
  <2>2. \A c \in 1..1 : c = 1
    OBVIOUS
  <2> QED BY ONLY <1>2, <2>1, <2>2 DEF Full
<1>3. ASSUME NEW x, NEW y, Len(x) = Block, Len(y) = Block PROVE Full(<<x, y>>)
  <2>1. <<x>> \o <<y>> = <<x, y>>
    BY TwoSeq
  <2>2. Full(<<x>> \o <<y>>)
    BY <1>2, <1>3, FullJoin
  <2> QED BY ONLY <2>1, <2>2
<1> QED BY <1>1, <1>2, <1>3

LEMMA WholeFull ==
  ASSUME NEW m, IsSeq(m)
  PROVE  /\ Full(Whole(m)) /\ IsSeq(Tail_of(m)) /\ Len(Tail_of(m)) \in Nat
         /\ Len(Tail_of(m)) < Block
<1>1. PICK q \in Nat, r \in 0..(Block - 1) : Cut(Len(m), q, r)
  BY SeqFacts, CutExists
<1>2. Chunks(m, q) /\ Left(m, q, r)
  BY <1>1, WholeFacts
<1>3. Full(Whole(m))
  BY ONLY <1>2 DEF Chunks, Full
<1>4. IsSeq(Tail_of(m)) /\ Len(Tail_of(m)) = r
  BY ONLY <1>2 DEF Left
<1> QED BY <1>3, <1>4, BlockType

-----------------------------------------------------------------------------
(* A hasher; one that has taken in the bytes A since its creation; and one  *)
(* that went astray: chunk k + 1, or what will become it, begins with a     *)
(* byte of A that belongs before it.                                       *)
IsSha(s) ==
  /\ s = [message_len |-> s.message_len, bytes_remain |-> s.bytes_remain, h |-> s.h]
  /\ s.message_len \in Nat
  /\ IsSeq(s.bytes_remain) /\ Len(s.bytes_remain) < Block
  /\ Full(s.h)
Clean(s, A) ==
  s.message_len = 8 * Len(A) /\ s.bytes_remain = Tail_of(A) /\ s.h = Whole(A)
Begins(s, k, x) ==
  \/ Len(s.h) > k /\ s.h[k + 1][1] = x
  \/ Len(s.h) = k /\ Len(s.bytes_remain) > 0 /\ s.bytes_remain[1] = x
Astray(s, A) ==
  \E k \in Nat, j \in 1..Len(A) : j =< k * Block /\ Begins(s, k, A[j])
Took(s, A, astray) == (astray => Astray(s, A)) /\ (~astray => Clean(s, A))

LEMMA UpdateShort ==
  ASSUME NEW s, NEW m, IsSha(s), IsSeq(m), Len(s.bytes_remain) > 0,
         Len(s.bytes_remain) + Len(m) < Block
  PROVE  update(s, m) = [message_len |-> s.message_len + 8 * Len(m),
                         bytes_remain |-> s.bytes_remain \o m, h |-> s.h]
<1>1. PICK r \in Nat, n \in Nat : r = Len(s.bytes_remain) /\ n = Len(m) /\ r > 0 /\ r + n < Block
  BY SeqFacts DEF IsSha
<1>2. r > 0 /\ ~Completes(r, n)
  BY <1>1, BlockType DEF Completes
<1>3. update(s, m) = [s EXCEPT !.message_len = s.message_len + 8 * n, !.bytes_remain = s.bytes_remain \o m]
  BY ONLY <1>1, <1>2 DEF update
<1>4. s = [message_len |-> s.message_len, bytes_remain |-> s.bytes_remain, h |-> s.h]
  BY DEF IsSha
<1> QED BY ONLY <1>1, <1>3, <1>4

LEMMA UpdateFresh ==
  ASSUME NEW s, NEW m, IsSha(s), IsSeq(m), Len(s.bytes_remain) = 0
  PROVE  update(s, m) = [message_len |-> s.message_len + 8 * Len(m), bytes_remain |-> Tail_of(m),
                         h |-> s.h \o Whole(m)]
<1>1. ~(Len(s.bytes_remain) > 0) /\ (Len(s.bytes_remain) > 0) = FALSE
  OBVIOUS
<1>2. update(s, m) = [message_len |-> s.message_len + 8 * Len(m), bytes_remain |-> Tail_of(m),
                      h |-> (s.h \o <<>>) \o Whole(m)]
  BY ONLY <1>1 DEF update
<1>3. s.h \o <<>> = s.h
  BY EmptySeq DEF IsSha, Full
<1> QED BY ONLY <1>2, <1>3

(* A chunk that was begun is completed, and the bytes that complete it are  *)
(* left over once more.                                                    *)
LEMMA UpdateRefill ==
  ASSUME NEW s, NEW m, IsSha(s), IsSeq(m), Len(s.bytes_remain) > 0,
         Len(s.bytes_remain) + Len(m) >= Block,
         NEW w, w = SubSeq(m, 1, Block - Len(s.bytes_remain))
  PROVE  /\ IsSeq(w) /\ Len(w) > 0 /\ Len(w) < Block /\ w[1] = m[1]
         /\ Len(m) > 0 /\ Len(s.bytes_remain \o w) = Block /\ IsSeq(s.bytes_remain \o w)
         /\ update(s, m) = [message_len |-> s.message_len + 8 * Len(m), bytes_remain |-> w,
                            h |-> s.h \o <<s.bytes_remain \o w>>]
<1>1. PICK R : R = s.bytes_remain /\ IsSeq(R) /\ Len(R) < Block /\ Len(R) > 0
  BY DEF IsSha
<1>2. PICK r \in Nat, n \in Nat, b \in Nat, e \in Nat :
        r = Len(R) /\ n = Len(m) /\ b = Block /\ e = b - r /\ e > 0 /\ e < b /\ e =< n /\ n > 0
  <2>1. PICK r \in Nat, n \in Nat, b \in Nat :
          r = Len(R) /\ n = Len(m) /\ b = Block /\ r > 0 /\ r < b /\ r + n >= b
    BY <1>1, SeqFacts, BlockType
  <2>2. b - r \in Nat /\ b - r > 0 /\ b - r < b /\ b - r =< n /\ n > 0
    BY ONLY <2>1
  <2> QED BY ONLY <2>1, <2>2
<1>3. w = SubSeq(m, 1, e)
  BY ONLY <1>1, <1>2, w = SubSeq(m, 1, Block - Len(s.bytes_remain))
<1>4. IsSeq(w) /\ Len(w) = e /\ w[1] = m[1]
  <2>1. Sliced(m, 1, e)
    BY <1>2, Slice
  <2>2. e - 1 + 1 = e /\ 1 \in 1..e /\ 1 + 1 - 1 = 1
    BY <1>2
  <2> QED BY ONLY <1>3, <2>1, <2>2 DEF Sliced
<1>5. IsSeq(R \o w) /\ Len(R \o w) = Block
  <2>1. Joined(R, w) /\ r + e = Block
    BY <1>1, <1>2, <1>4, Join
  <2> QED BY ONLY <1>2, <1>4, <2>1 DEF Joined
<1>6. Whole(w) = <<>> /\ Tail_of(w) = w
  BY <1>2, <1>4, WholeShort
<1>7. (s.h \o <<R \o w>>) \o <<>> = s.h \o <<R \o w>>
  <2>1. IsSeq(s.h) /\ IsSeq(<<R \o w>>)
    BY OneSeq DEF IsSha, Full
  <2>2. IsSeq(s.h \o <<R \o w>>)
    BY <2>1, Join DEF Joined
  <2> QED BY <2>2, EmptySeq
<1>8. Completes(Len(s.bytes_remain), Len(m)) /\ (Len(s.bytes_remain) > 0) = TRUE
  BY DEF Completes
<1>9. update(s, m) = [message_len |-> s.message_len + 8 * Len(m), bytes_remain |-> Tail_of(w),
                      h |-> (s.h \o <<s.bytes_remain \o w>>) \o Whole(w)]
  BY ONLY <1>8, w = SubSeq(m, 1, Block - Len(s.bytes_remain)) DEF update, Rest
<1> QED BY ONLY <1>1, <1>2, <1>4, <1>5, <1>6, <1>7, <1>9

LEMMA FirstOf ==
  ASSUME NEW a, NEW b, IsSeq(a), IsSeq(b), NEW k \in 1..Len(a)
  PROVE  (a \o b)[k] = a[k]
BY Join DEF Joined

(* What a chunk begins with stays. *)
LEMMA BeginsUpdate ==
  ASSUME NEW s, NEW m, IsSha(s), IsSeq(m), NEW k \in Nat, NEW x, Begins(s, k, x)
  PROVE  Begins(update(s, m), k, x)
<1>1. PICK t : t = update(s, m)
  OBVIOUS
<1>2. PICK R, H : /\ R = s.bytes_remain /\ IsSeq(R) /\ Len(R) \in Nat /\ Len(R) < Block
                  /\ H = s.h /\ IsSeq(H) /\ Len(H) \in Nat
  <2>1. IsSeq(s.bytes_remain) /\ Len(s.bytes_remain) < Block /\ IsSeq(s.h)
    BY DEF IsSha, Full
  <2> QED BY <2>1, SeqFacts
<1>3. ASSUME NEW c, IsSeq(c), t.h = H \o c, Len(H) > k PROVE Begins(t, k, x)
  <2>1. H[k + 1][1] = x
    BY <1>2, <1>3 DEF Begins
  <2>2. Len(H \o c) > k /\ (H \o c)[k + 1] = H[k + 1]
    <3>1. Joined(H, c) /\ Len(c) \in Nat /\ k + 1 \in 1..Len(H)
      BY <1>2, <1>3, Join, SeqFacts
    <3>2. Len(H \o c) = Len(H) + Len(c) /\ (H \o c)[k + 1] = H[k + 1]
      BY ONLY <3>1 DEF Joined
    <3> QED BY ONLY <1>2, <1>3, <3>1, <3>2, k \in Nat
  <2> QED BY ONLY <1>3, <2>1, <2>2 DEF Begins
<1>4. CASE Len(R) = 0
  <2>1. t.h = H \o Whole(m) /\ IsSeq(Whole(m))
    BY <1>1, <1>2, <1>4, UpdateFresh, WholeFull DEF Full
  <2>2. Len(H) > k
    BY <1>2, <1>4 DEF Begins
  <2> QED BY ONLY <1>1, <1>3, <2>1, <2>2
<1>5. CASE Len(R) > 0 /\ Len(R) + Len(m) < Block
  <2>1. t.h = H /\ t.bytes_remain = R \o m
    <3>1. t = [message_len |-> s.message_len + 8 * Len(m), bytes_remain |-> R \o m, h |-> H]
      BY <1>1, <1>2, <1>5, UpdateShort
    <3> QED BY ONLY <3>1
  <2>2. CASE Len(H) > k
    <3>1. H \o <<>> = H /\ IsSeq(<<>>)
      BY <1>2, EmptySeq
    <3> QED BY ONLY <1>1, <1>3, <2>1, <2>2, <3>1
  <2>3. CASE ~(Len(H) > k)
    <3>1. Len(H) = k /\ R[1] = x
      BY ONLY <1>2, <2>3, Begins(s, k, x) DEF Begins
    <3>2. (R \o m)[1] = R[1] /\ Len(R \o m) = Len(R) + Len(m) /\ Len(m) \in Nat
      <4>1. Joined(R, m) /\ 1 \in 1..Len(R) /\ Len(m) \in Nat
        BY <1>2, <1>5, Join, SeqFacts
      <4> QED BY ONLY <4>1 DEF Joined
    <3>3. Len(R \o m) > 0
      BY ONLY <1>2, <1>5, <3>2
    <3> QED BY ONLY <1>1, <2>1, <3>1, <3>2, <3>3 DEF Begins
  <2> QED BY ONLY <2>2, <2>3
<1>6. CASE Len(R) > 0 /\ Len(R) + Len(m) >= Block
  <2>1. PICK w : w = SubSeq(m, 1, Block - Len(R))
    OBVIOUS
  <2>2. IsSeq(w) /\ t = [message_len |-> s.message_len + 8 * Len(m), bytes_remain |-> w,
                         h |-> H \o <<R \o w>>]
    BY <1>1, <1>2, <1>6, <2>1, UpdateRefill
  <2>3. PICK c : c = <<R \o w>> /\ IsSeq(c) /\ Len(c) = 1 /\ c[1] = R \o w /\ t.h = H \o c
    BY <2>2, OneSeq
  <2>4. CASE Len(H) > k
    BY ONLY <1>1, <1>3, <2>3, <2>4
  <2>5. CASE ~(Len(H) > k)
    <3>1. Len(H) = k /\ R[1] = x
      BY ONLY <1>2, <2>5, Begins(s, k, x) DEF Begins
    <3>2. (R \o w)[1] = R[1]
      BY <1>2, <1>6, <2>2, FirstOf
    <3>3. Len(H \o c) = k + 1 /\ (H \o c)[k + 1] = R \o w
      <4>1. Joined(H, c) /\ 1 \in 1..1
        BY <1>2, <2>3, Join
      <4> QED BY ONLY <2>3, <3>1, <4>1 DEF Joined
    <3>4. Len(t.h) > k /\ t.h[k + 1][1] = x
      <4>1. k + 1 > k /\ t.h = H \o c /\ R[1] = x
        BY <2>3, <3>1
      <4> QED BY ONLY <3>2, <3>3, <4>1
    <3> QED BY ONLY <1>1, <3>4 DEF Begins
  <2> QED BY ONLY <2>4, <2>5
<1> QED BY <1>2, <1>4, <1>5, <1>6, SeqFacts, BlockType

LEMMA AstrayUpdate ==
  ASSUME NEW s, NEW m, IsSha(s), IsSeq(m), NEW A, IsSeq(A), Astray(s, A)
  PROVE  Astray(update(s, m), A \o m)
<1>1. PICK k \in Nat, j \in 1..Len(A) : j =< k * Block /\ Begins(s, k, A[j])
  BY DEF Astray
<1>2. Begins(update(s, m), k, A[j])
  BY <1>1, BeginsUpdate
<1>3. (A \o m)[j] = A[j] /\ j \in 1..Len(A \o m)
  <2>1. Joined(A, m) /\ Len(A) \in Nat /\ Len(m) \in Nat
    BY Join, SeqFacts
  <2>2. (A \o m)[j] = A[j] /\ Len(A \o m) = Len(A) + Len(m)
    BY ONLY <2>1, j \in 1..Len(A) DEF Joined
  <2> QED BY <2>1, <2>2
<1> QED BY ONLY <1>1, <1>2, <1>3, k \in Nat DEF Astray

(* The hasher's rest is that of the length of what it took in. *)
LEMMA CleanRest ==
  ASSUME NEW s, NEW A, IsSha(s), IsSeq(A), Clean(s, A)
  PROVE  \E q \in Nat, r \in 0..(Block - 1) :
           /\ r = Len(s.bytes_remain) /\ q = Len(s.h)
           /\ Len(A) = q * Block + r /\ Len(A) % Block = r
<1>1. PICK q \in Nat, r \in 0..(Block - 1) : Cut(Len(A), q, r)
  BY SeqFacts, CutExists
<1>2. Chunks(A, q) /\ Left(A, q, r)
  BY <1>1, WholeFacts
<1>3. Len(s.bytes_remain) = r /\ Len(s.h) = q
  BY ONLY <1>2, Clean(s, A) DEF Clean, Chunks, Left
<1>4. Len(A) = q * Block + r /\ Len(A) \in Int /\ q \in Int /\ Block \in Nat /\ Block >= 1
  BY <1>1, SeqFacts, BlockType DEF Cut
<1>5. Len(A) % Block = r
  BY ONLY <1>4, r \in 0..(Block - 1), DivUnique
<1> QED BY ONLY <1>3, <1>4, <1>5, q \in Nat, r \in 0..(Block - 1)

LEMMA IsShaUpdate ==
  ASSUME NEW s, NEW m, IsSha(s), IsSeq(m)
  PROVE  IsSha(update(s, m))
<1>1. PICK t : t = update(s, m)
  OBVIOUS
<1> DEFINE R == s.bytes_remain
<1>2. PICK l \in Nat : /\ IsSeq(R) /\ Len(R) \in Nat /\ Len(R) < Block
                       /\ Full(s.h) /\ l = s.message_len + 8 * Len(m)
  <2>1. IsSeq(s.bytes_remain) /\ Len(s.bytes_remain) < Block /\ Full(s.h) /\ s.message_len \in Nat
    BY DEF IsSha
  <2>2. Len(s.bytes_remain) \in Nat /\ Len(m) \in Nat
    BY <2>1, SeqFacts
  <2>3. s.message_len + 8 * Len(m) \in Nat
    BY <2>1, <2>2
  <2>4. PICK l \in Nat : l = s.message_len + 8 * Len(m)
    BY ONLY <2>3
  <2> QED BY ONLY <2>1, <2>2, <2>4
<1>3. ASSUME NEW x, NEW h, t = [message_len |-> l, bytes_remain |-> x, h |-> h],
             IsSeq(x), Len(x) < Block, Full(h)
      PROVE  IsSha(t)
  <2>1. t.message_len = l /\ t.bytes_remain = x /\ t.h = h
        /\ t = [message_len |-> t.message_len, bytes_remain |-> t.bytes_remain, h |-> t.h]
    BY ONLY <1>3
  <2> QED BY ONLY <1>3, <2>1, l \in Nat DEF IsSha
<1>4. CASE Len(R) = 0
  <2>1. t = [message_len |-> l, bytes_remain |-> Tail_of(m), h |-> s.h \o Whole(m)]
    BY <1>1, <1>2, <1>4, UpdateFresh
  <2>2. Full(Whole(m)) /\ IsSeq(Tail_of(m)) /\ Len(Tail_of(m)) < Block
    BY WholeFull
  <2>3. Full(s.h \o Whole(m))
    BY <1>2, <2>2, FullJoin
  <2> QED BY ONLY <1>1, <1>3, <2>1, <2>2, <2>3
<1>5. CASE Len(R) > 0 /\ Len(R) + Len(m) < Block
  <2>1. t = [message_len |-> l, bytes_remain |-> R \o m, h |-> s.h]
    BY <1>1, <1>2, <1>5, UpdateShort
  <2>2. IsSeq(R \o m) /\ Len(R \o m) < Block
    <3>1. IsSeq(R \o m) /\ Len(R \o m) = Len(R) + Len(m)
      BY <1>2, Join DEF Joined
    <3> QED BY ONLY <1>5, <3>1
  <2> QED BY ONLY <1>1, <1>2, <1>3, <2>1, <2>2
<1>6. CASE Len(R) > 0 /\ Len(R) + Len(m) >= Block
  <2>1. PICK w : w = SubSeq(m, 1, Block - Len(R))
    OBVIOUS
  <2>2. /\ IsSeq(w) /\ Len(w) < Block /\ Len(R \o w) = Block
        /\ t = [message_len |-> l, bytes_remain |-> w, h |-> s.h \o <<R \o w>>]
    BY <1>1, <1>2, <1>6, <2>1, UpdateRefill
  <2>3. Full(s.h \o <<R \o w>>)
    BY <1>2, <2>2, FullFew, FullJoin
  <2> QED BY ONLY <1>1, <1>3, <2>2, <2>3
<1> QED BY <1>2, <1>4, <1>5, <1>6, SeqFacts, BlockType

(* update adds the piece to what the hasher has taken in, unless the piece  *)
(* ends a chunk that was begun.                                            *)
LEMMA CleanUpdate ==
  ASSUME NEW s, NEW m, IsSha(s), IsSeq(m), NEW A, IsSeq(A), Clean(s, A)
  PROVE  Took(update(s, m), A \o m, CutsChunk(Len(A), Len(m)))
<1>1. PICK t : t = update(s, m)
  OBVIOUS
<1>2. PICK q \in Nat, r \in 0..(Block - 1) :
        r = Len(s.bytes_remain) /\ q = Len(s.h) /\ Len(A) = q * Block + r /\ Len(A) % Block = r
  BY CleanRest
<1>0. PICK R : R = s.bytes_remain
  OBVIOUS
<1>3. PICK a \in Nat, n \in Nat, b \in Nat :
        /\ R = s.bytes_remain /\ IsSeq(R) /\ Len(R) = r
        /\ a = Len(A) /\ n = Len(m) /\ b = Block /\ r \in 0..(b - 1)
  <2>1. IsSeq(s.bytes_remain)
    BY DEF IsSha
  <2>2. Len(A) \in Nat /\ Len(m) \in Nat /\ Block \in Nat
    BY SeqFacts, BlockType
  <2>3. PICK a \in Nat, n \in Nat, b \in Nat : a = Len(A) /\ n = Len(m) /\ b = Block
    BY ONLY <2>2
  <2>4. r \in 0..(b - 1)
    BY ONLY <2>3, r \in 0..(Block - 1)
  <2> QED BY ONLY <1>0, <1>2, <2>1, <2>3, <2>4
<1>4. CutsChunk(a, n) <=> r # 0 /\ r + n >= b
  BY ONLY <1>2, <1>3 DEF CutsChunk
<1>5. s.message_len = 8 * a /\ R = Tail_of(A) /\ s.h = Whole(A) /\ IsSeq(s.h)
  <2>1. IsSeq(s.h)
    BY DEF IsSha, Full
  <2> QED BY ONLY <1>3, <2>1, Clean(s, A) DEF Clean
<1>6. PICK B : B = A \o m /\ IsSeq(B) /\ Len(B) = a + n /\ \A i \in 1..n : B[a + i] = m[i]
  <2>1. Joined(A, m)
    BY Join
  <2> QED BY ONLY <1>3, <2>1 DEF Joined
<1>7. s.message_len + 8 * n = 8 * Len(B)
  BY ONLY <1>5, <1>6, a \in Nat, n \in Nat
<1>8. Whole(B) = s.h \o Whole(R \o m) /\ Tail_of(B) = Tail_of(R \o m)
  <2>1. Whole(A \o m) = Whole(A) \o Whole(Tail_of(A) \o m) /\ Tail_of(A \o m) = Tail_of(Tail_of(A) \o m)
    BY WholeExtend
  <2> QED BY ONLY <1>5, <1>6, <2>1
<1>9. CASE r = 0
  <2>1. t = [message_len |-> s.message_len + 8 * n, bytes_remain |-> Tail_of(m), h |-> s.h \o Whole(m)]
    BY <1>1, <1>3, <1>9, UpdateFresh
  <2>2. R \o m = m
    BY <1>3, <1>9, EmptySeq
  <2>3. Clean(t, B)
    BY ONLY <1>7, <1>8, <2>1, <2>2 DEF Clean
  <2> QED BY ONLY <1>1, <1>3, <1>4, <1>6, <1>9, <2>3 DEF Took
<1>10. CASE r > 0 /\ r + n < b
  <2>1. t = [message_len |-> s.message_len + 8 * n, bytes_remain |-> R \o m, h |-> s.h]
    BY <1>1, <1>3, <1>10, UpdateShort
  <2>2. IsSeq(R \o m) /\ Len(R \o m) = r + n
    <3>1. Joined(R, m)
      BY <1>3, Join
    <3> QED BY ONLY <1>3, <3>1 DEF Joined
  <2>3. Whole(R \o m) = <<>> /\ Tail_of(R \o m) = R \o m
    BY <1>3, <1>10, <2>2, WholeShort
  <2>4. s.h \o <<>> = s.h
    BY <1>5, EmptySeq
  <2>5. Clean(t, B)
    BY ONLY <1>7, <1>8, <2>1, <2>3, <2>4 DEF Clean
  <2>6. ~CutsChunk(a, n)
    BY ONLY <1>3, <1>4, <1>10, r \in 0..(Block - 1), n \in Nat, b \in Nat
  <2> QED BY ONLY <1>1, <1>3, <1>6, <2>5, <2>6 DEF Took
<1>11. CASE r > 0 /\ r + n >= b
  <2>1. PICK w : w = SubSeq(m, 1, Block - Len(R))
    OBVIOUS
  <2>2. /\ IsSeq(w) /\ Len(w) > 0 /\ w[1] = m[1] /\ n > 0
        /\ t = [message_len |-> s.message_len + 8 * n, bytes_remain |-> w, h |-> s.h \o <<R \o w>>]
    BY <1>1, <1>3, <1>11, <2>1, UpdateRefill
  <2>3. Len(t.h) = q + 1
    <3>1. PICK c : c = <<R \o w>> /\ IsSeq(c) /\ Len(c) = 1
      BY OneSeq
    <3>2. Joined(s.h, c)
      BY <1>5, <3>1, Join
    <3>3. t.h = s.h \o c
      BY ONLY <2>2, <3>1
    <3> QED BY ONLY <1>2, <3>1, <3>2, <3>3 DEF Joined
  <2>4. t.bytes_remain = w /\ w[1] = B[a + 1]
    <3>1. 1 \in 1..n
      BY <2>2
    <3> QED BY ONLY <1>6, <2>2, <3>1
  <2>5. Begins(t, q + 1, B[a + 1])
    BY ONLY <2>2, <2>3, <2>4 DEF Begins
  <2>6. q + 1 \in Nat /\ a + 1 \in 1..Len(B) /\ a + 1 =< (q + 1) * Block
    <3>1. (q + 1) * b = q * b + 1 * b /\ 1 * b = b /\ q * b \in Nat
      BY TimesAdd, TimesNat
    <3>2. a = q * b + r
      BY ONLY <1>2, <1>3
    <3>3. PICK e \in Nat : e = q * b
      BY ONLY <3>1
    <3>4. a + 1 =< (q + 1) * b
      BY ONLY <1>3, <3>1, <3>2, <3>3, a \in Nat, b \in Nat
    <3>5. a + 1 \in 1..Len(B)
      BY <1>6, <2>2
    <3> QED BY ONLY <1>3, <3>4, <3>5, q \in Nat
  <2>7. Astray(t, B)
    BY ONLY <2>5, <2>6 DEF Astray
  <2>8. CutsChunk(a, n)
    BY ONLY <1>3, <1>4, <1>11, n \in Nat, b \in Nat
  <2> QED BY ONLY <1>1, <1>3, <1>6, <2>7, <2>8 DEF Took
<1> QED BY ONLY <1>3, <1>9, <1>10, <1>11, n \in Nat, b \in Nat

LEMMA UpdateFacts ==
  ASSUME NEW s, NEW m, IsSha(s), IsSeq(m), NEW A, IsSeq(A)
  PROVE  /\ IsSha(update(s, m))
         /\ Astray(s, A) => Astray(update(s, m), A \o m)
         /\ Clean(s, A) /\ CutsChunk(Len(A), Len(m)) => Astray(update(s, m), A \o m)
         /\ Clean(s, A) /\ ~CutsChunk(Len(A), Len(m)) => Clean(update(s, m), A \o m)
<1>1. IsSha(update(s, m))
  BY IsShaUpdate
<1>2. Astray(s, A) => Astray(update(s, m), A \o m)
  BY AstrayUpdate
<1>3. ASSUME Clean(s, A) PROVE Took(update(s, m), A \o m, CutsChunk(Len(A), Len(m)))
  BY <1>3, CleanUpdate
<1> QED BY ONLY <1>1, <1>2, <1>3 DEF Took

-----------------------------------------------------------------------------
(* The padding. *)
LEMMA ZerosFacts ==
  ASSUME NEW n \in Nat
  PROVE  IsSeq(Zeros(n)) /\ Len(Zeros(n)) = n /\ \A i \in 1..n : Zeros(n)[i] = <<"zero">>
<1>1. PICK f : f = Zeros(n) /\ f = [i \in 1..n |-> <<"zero">>]
  BY DEF Zeros
<1>2. f = [i \in 1..n |-> f[i]] /\ \A i \in 1..n : f[i] = <<"zero">>
  BY ONLY <1>1
<1>3. IsSeq(f) /\ Len(f) = n
  BY <1>2, FunctionIsSeq
<1> QED BY ONLY <1>1, <1>2, <1>3

LEMMA LengthFacts ==
  ASSUME NEW bits
  PROVE  /\ IsSeq(Length(bits)) /\ Len(Length(bits)) = LenBytes
         /\ \A i \in 1..LenBytes : Length(bits)[i] = <<"length", bits, i>>
<1>1. PICK f : f = Length(bits) /\ f = [i \in 1..LenBytes |-> <<"length", bits, i>>]
  BY DEF Length
<1>2. f = [i \in 1..LenBytes |-> f[i]] /\ \A i \in 1..LenBytes : f[i] = <<"length", bits, i>>
  BY ONLY <1>1
<1>3. IsSeq(f) /\ Len(f) = LenBytes
  BY <1>2, BlockType, FunctionIsSeq
<1> QED BY ONLY <1>1, <1>2, <1>3

LEMMA ZerosJoin ==
  ASSUME NEW a \in Nat, NEW b \in Nat
  PROVE  Zeros(a) \o Zeros(b) = Zeros(a + b)
<1>1. PICK x, y, z : x = Zeros(a) /\ y = Zeros(b) /\ z = Zeros(a + b)
  OBVIOUS
<1>2. /\ IsSeq(x) /\ Len(x) = a /\ IsSeq(y) /\ Len(y) = b
      /\ \A i \in 1..a : x[i] = <<"zero">>
      /\ \A i \in 1..b : y[i] = <<"zero">>
  BY <1>1, ZerosFacts
<1>3. IsSeq(z) /\ Len(z) = a + b /\ \A i \in 1..(a + b) : z[i] = <<"zero">>
  BY <1>1, ZerosFacts
<1>4. PICK u : u = x \o y
  OBVIOUS
<1>5. /\ IsSeq(u) /\ Len(u) = a + b
      /\ \A i \in 1..a : u[i] = x[i]
      /\ \A i \in 1..b : u[a + i] = y[i]
  <2>1. Joined(x, y)
    BY <1>2, Join
  <2> QED BY ONLY <1>2, <1>4, <2>1 DEF Joined
<1>6. ASSUME NEW i \in 1..(a + b) PROVE u[i] = z[i]
  <2>1. CASE i \in 1..a
    BY ONLY <1>2, <1>3, <1>5, <2>1, i \in 1..(a + b)
  <2>2. CASE i \notin 1..a
    <3>1. i - a \in 1..b /\ i = a + (i - a)
      BY <2>2
    <3>2. PICK k \in 1..b : i = a + k
      BY ONLY <3>1
    <3> QED BY ONLY <1>2, <1>3, <1>5, <3>2, i \in 1..(a + b)
  <2> QED BY <2>1, <2>2
<1>7. u = z
  BY ONLY <1>3, <1>5, <1>6, SeqEqual
<1> QED BY ONLY <1>1, <1>4, <1>7

LEMMA JoinSeq ==
  ASSUME NEW a, NEW b, IsSeq(a), IsSeq(b)
  PROVE  IsSeq(a \o b) /\ Len(a \o b) = Len(a) + Len(b)
BY Join DEF Joined

(* The number of zeros that the padding of FIPS 180-4 has, in both cases. *)
LEMMA PadLength ==
  ASSUME NEW n \in Nat, NEW q \in Nat, NEW r \in 0..(Block - 1), Cut(n, q, r)
  PROVE  /\ r + LenBytes + 1 =< Block =>
              (2 * Block - n - 1 - LenBytes) % Block = Block - LenBytes - r - 1
         /\ r + LenBytes + 1 > Block =>
              (2 * Block - n - 1 - LenBytes) % Block = (Block - r - 1) + (Block - LenBytes)
<1>1. PICK b \in Nat, l \in Nat, e \in Nat : b = Block /\ l = LenBytes /\ e = q * b /\ n = e + r
                                   /\ b >= 2 /\ l + 1 < b /\ r \in 0..(b - 1)
  BY BlockType DEF Cut
<1>2. PICK x \in Int : x = 2 * b - n - 1 - l
  OBVIOUS
<1>3. (1 - q) * b = b - e /\ (0 - q) * b = 0 - e
  <2>1. ((1 - q) + q) * b = (1 - q) * b + q * b /\ (1 - q) + q = 1 /\ 1 * b = b
    BY TimesAdd
  <2>2. ((0 - q) + q) * b = (0 - q) * b + q * b /\ (0 - q) + q = 0 /\ 0 * b = 0
    BY TimesAdd
  <2>3. PICK g \in Int, j \in Int : g = (1 - q) * b /\ j = (0 - q) * b
    OBVIOUS
  <2>4. g = b - e /\ j = 0 - e
    BY ONLY <1>1, <2>1, <2>2, <2>3, b \in Nat, e \in Nat
  <2> QED BY ONLY <2>3, <2>4
<1>4. ASSUME r + l + 1 =< b PROVE x % b = b - l - r - 1
  <2>1. PICK z \in 0..(b - 1) : z = b - l - r - 1
    <3>1. b - l - r - 1 \in 0..(b - 1)
      BY ONLY <1>1, <1>4, b \in Nat, l \in Nat
    <3> QED BY ONLY <3>1
  <2>2. x = (1 - q) * b + z
    <3>1. x = (b - e) + z
      BY ONLY <1>1, <1>2, <2>1, b \in Nat, l \in Nat, e \in Nat, n \in Nat, x \in Int
    <3> QED BY ONLY <1>3, <3>1
  <2>3. PICK y \in Int : y = 1 - q /\ b >= 1
    BY <1>1
  <2>4. x = y * b + z
    BY ONLY <2>2, <2>3
  <2>5. x % b = z
    BY ONLY <2>3, <2>4, b \in Nat, x \in Int, y \in Int, z \in 0..(b - 1), DivUnique
  <2> QED BY ONLY <2>1, <2>5
<1>5. ASSUME r + l + 1 > b PROVE x % b = (b - r - 1) + (b - l)
  <2>1. PICK z \in 0..(b - 1) : z = (b - r - 1) + (b - l)
    <3>1. (b - r - 1) + (b - l) \in 0..(b - 1)
      BY ONLY <1>1, <1>5, b \in Nat, l \in Nat
    <3> QED BY ONLY <3>1
  <2>2. x = (0 - q) * b + z
    <3>1. x = (0 - e) + z
      BY ONLY <1>1, <1>2, <2>1, b \in Nat, l \in Nat, e \in Nat, n \in Nat, x \in Int
    <3> QED BY ONLY <1>3, <3>1
  <2>3. PICK y \in Int : y = 0 - q /\ b >= 1
    BY <1>1
  <2>4. x = y * b + z
    BY ONLY <2>2, <2>3
  <2>5. x % b = z
    BY ONLY <2>3, <2>4, b \in Nat, x \in Int, y \in Int, z \in 0..(b - 1), DivUnique
  <2> QED BY ONLY <2>1, <2>5
<1> QED BY ONLY <1>1, <1>2, <1>4, <1>5

(* What digest adds to the chunks. *)
LEMMA DigestFits ==
  ASSUME NEW s, IsSha(s), NEW r \in Nat, r = Len(s.bytes_remain), r + LenBytes + 1 =< Block,
         NEW X, X = ((s.bytes_remain \o <<One>>) \o Zeros(Block - LenBytes - r - 1))
                    \o Length(s.message_len)
  PROVE  /\ IsSeq(X) /\ Len(X) = Block
         /\ digest(s) = [message_len |-> s.message_len, bytes_remain |-> s.bytes_remain,
                         h |-> s.h \o <<X>>]
<1>1. PICK z \in Nat : z = Block - LenBytes - r - 1 /\ r + 1 + z + LenBytes = Block
  <2>1. Block - LenBytes - r - 1 \in Nat /\ r + 1 + (Block - LenBytes - r - 1) + LenBytes = Block
    BY ONLY BlockType, r \in Nat, r + LenBytes + 1 =< Block
  <2> QED BY ONLY <2>1
<1>2. PICK R, O, Z, L : /\ R = s.bytes_remain /\ O = <<One>> /\ Z = Zeros(z) /\ L = Length(s.message_len)
                        /\ X = ((R \o O) \o Z) \o L
  BY <1>1
<1>3. /\ IsSeq(R) /\ Len(R) = r /\ IsSeq(O) /\ Len(O) = 1 /\ IsSeq(Z) /\ Len(Z) = z
      /\ IsSeq(L) /\ Len(L) = LenBytes
  <2>1. IsSeq(R) /\ Len(R) = r
    BY <1>2 DEF IsSha
  <2>2. IsSeq(O) /\ Len(O) = 1 /\ IsSeq(Z) /\ Len(Z) = z
    BY <1>2, OneSeq, ZerosFacts
  <2>3. IsSeq(L) /\ Len(L) = LenBytes
    BY <1>2, LengthFacts
  <2> QED BY ONLY <2>1, <2>2, <2>3
<1>4. IsSeq(R \o O) /\ Len(R \o O) = r + 1
  BY <1>3, JoinSeq
<1>5. IsSeq((R \o O) \o Z) /\ Len((R \o O) \o Z) = r + 1 + z
  BY <1>3, <1>4, JoinSeq
<1>6. IsSeq(X) /\ Len(X) = Block
  <2>1. IsSeq(X) /\ Len(X) = Len((R \o O) \o Z) + Len(L)
    BY ONLY <1>2, <1>3, <1>5, JoinSeq
  <2> QED BY ONLY <1>1, <1>3, <1>5, <2>1
<1>7. ~Overflows(r)
  BY BlockType DEF Overflows
<1>8. digest(s) = [s EXCEPT !.h = s.h \o <<X>>]
  BY ONLY <1>7, r = Len(s.bytes_remain),
          X = ((s.bytes_remain \o <<One>>) \o Zeros(Block - LenBytes - r - 1)) \o Length(s.message_len)
     DEF digest
<1>9. s = [message_len |-> s.message_len, bytes_remain |-> s.bytes_remain, h |-> s.h]
  BY DEF IsSha
<1> QED BY ONLY <1>6, <1>8, <1>9

LEMMA DigestOverflows ==
  ASSUME NEW s, IsSha(s), NEW r \in Nat, r = Len(s.bytes_remain), r + LenBytes + 1 > Block,
         NEW X, X = (s.bytes_remain \o <<One>>) \o Zeros(Block - r - 1),
         NEW Y, Y = Zeros(Block - LenBytes) \o Length(s.message_len)
  PROVE  /\ IsSeq(X) /\ Len(X) = Block /\ IsSeq(Y) /\ Len(Y) = Block
         /\ digest(s) = [message_len |-> s.message_len, bytes_remain |-> s.bytes_remain,
                         h |-> s.h \o <<X, Y>>]
<1>1. PICK z \in Nat, y \in Nat : /\ z = Block - r - 1 /\ r + 1 + z = Block
                                  /\ y = Block - LenBytes /\ y + LenBytes = Block
  <2>1. r < Block
    BY DEF IsSha
  <2>2. /\ Block - r - 1 \in Nat /\ r + 1 + (Block - r - 1) = Block
        /\ Block - LenBytes \in Nat /\ (Block - LenBytes) + LenBytes = Block
    BY ONLY <2>1, BlockType, r \in Nat
  <2> QED BY ONLY <2>2
<1>2. PICK R, O, Z, V, L : /\ R = s.bytes_remain /\ O = <<One>> /\ Z = Zeros(z) /\ V = Zeros(y)
                           /\ L = Length(s.message_len) /\ X = (R \o O) \o Z /\ Y = V \o L
  BY <1>1
<1>3. /\ IsSeq(R) /\ Len(R) = r /\ IsSeq(O) /\ Len(O) = 1 /\ IsSeq(Z) /\ Len(Z) = z
      /\ IsSeq(V) /\ Len(V) = y /\ IsSeq(L) /\ Len(L) = LenBytes
  <2>1. IsSeq(R) /\ Len(R) = r
    BY <1>2 DEF IsSha
  <2>2. IsSeq(O) /\ Len(O) = 1
    BY <1>2, OneSeq
  <2>3. IsSeq(Z) /\ Len(Z) = z /\ IsSeq(V) /\ Len(V) = y
    BY <1>2, ZerosFacts
  <2>4. IsSeq(L) /\ Len(L) = LenBytes
    BY <1>2, LengthFacts
  <2> QED BY ONLY <2>1, <2>2, <2>3, <2>4
<1>4. IsSeq(R \o O) /\ Len(R \o O) = r + 1
  BY <1>3, JoinSeq
<1>5. IsSeq(X) /\ Len(X) = Block
  <2>1. IsSeq(X) /\ Len(X) = Len(R \o O) + Len(Z)
    BY ONLY <1>2, <1>3, <1>4, JoinSeq
  <2> QED BY ONLY <1>1, <1>3, <1>4, <2>1
<1>6. IsSeq(Y) /\ Len(Y) = Block
  <2>1. IsSeq(Y) /\ Len(Y) = Len(V) + Len(L)
    BY ONLY <1>2, <1>3, JoinSeq
  <2> QED BY ONLY <1>1, <1>3, <2>1
<1>7. Overflows(r)
  BY BlockType DEF Overflows
<1>8. digest(s) = [s EXCEPT !.h = s.h \o <<X, Y>>]
  BY ONLY <1>7, r = Len(s.bytes_remain), X = (s.bytes_remain \o <<One>>) \o Zeros(Block - r - 1),
          Y = Zeros(Block - LenBytes) \o Length(s.message_len)
     DEF digest
<1>9. s = [message_len |-> s.message_len, bytes_remain |-> s.bytes_remain, h |-> s.h]
  BY DEF IsSha
<1> QED BY ONLY <1>5, <1>6, <1>8, <1>9

(* The chunks of the padded message are those of the message and of its     *)
(* rest with the padding.                                                   *)
LEMMA PaddedChunks ==
  ASSUME NEW A, IsSeq(A), NEW z \in Nat, z = (2 * Block - Len(A) - 1 - LenBytes) % Block
  PROVE  Hashed(A) = Whole(A) \o Whole(((Tail_of(A) \o <<One>>) \o Zeros(z)) \o Length(8 * Len(A)))
<1>1. PICK R, O, Z, L : R = Tail_of(A) /\ O = <<One>> /\ Z = Zeros(z) /\ L = Length(8 * Len(A))
  OBVIOUS
<1>2. IsSeq(R) /\ IsSeq(O) /\ IsSeq(Z) /\ IsSeq(L)
  BY <1>1, WholeFull, OneSeq, ZerosFacts, LengthFacts
<1>3. PICK D : D = (O \o Z) \o L /\ IsSeq(D)
  BY <1>2, JoinSeq
<1>4. ((A \o O) \o Z) \o L = A \o D /\ ((R \o O) \o Z) \o L = R \o D
  <2>1. PICK U : U = O \o Z /\ IsSeq(U)
    BY <1>2, JoinSeq
  <2>2. Associates(A, O, Z) /\ Associates(R, O, Z) /\ Associates(A, U, L) /\ Associates(R, U, L)
    BY <1>2, <2>1, Assoc
  <2> QED BY ONLY <1>3, <2>1, <2>2 DEF Associates
<1>5. Hashed(A) = Whole(((A \o O) \o Z) \o L)
  BY ONLY <1>1, z = (2 * Block - Len(A) - 1 - LenBytes) % Block DEF Hashed, Padded
<1>6. Whole(A \o D) = Whole(A) \o Whole(R \o D)
  BY <1>1, <1>3, WholeExtend
<1> QED BY ONLY <1>1, <1>4, <1>5, <1>6

(* digest adds the padding, and keeps the rest of the message. *)
LEMMA CleanDigest ==
  ASSUME NEW s, IsSha(s)
  PROVE  /\ IsSha(digest(s))
         /\ \A A : IsSeq(A) /\ Clean(s, A) => digest(s).h = Hashed(A)
<1>1. PICK t : t = digest(s)
  OBVIOUS
<1>2. PICK r \in Nat : r = Len(s.bytes_remain) /\ r < Block
  <2>1. IsSeq(s.bytes_remain) /\ Len(s.bytes_remain) < Block
    BY DEF IsSha
  <2> QED BY <2>1, SeqFacts
<1>3. Full(s.h) /\ IsSeq(s.h) /\ s.message_len \in Nat /\ IsSeq(s.bytes_remain) /\ Len(s.bytes_remain) < Block
  BY DEF IsSha, Full
<1>4. ASSUME NEW A, IsSeq(A), Clean(s, A)
      PROVE  /\ s.message_len = 8 * Len(A) /\ s.bytes_remain = Tail_of(A) /\ s.h = Whole(A)
             /\ \E z \in Nat :
                  /\ z = IF r + LenBytes + 1 =< Block THEN Block - LenBytes - r - 1
                         ELSE (Block - r - 1) + (Block - LenBytes)
                  /\ Hashed(A) = s.h \o Whole(((s.bytes_remain \o <<One>>) \o Zeros(z))
                                              \o Length(s.message_len))
  <2>1. s.message_len = 8 * Len(A) /\ s.bytes_remain = Tail_of(A) /\ s.h = Whole(A)
    BY ONLY <1>4 DEF Clean
  <2>2. PICK q \in Nat, p \in 0..(Block - 1) : Cut(Len(A), q, p)
    BY <1>4, SeqFacts, CutExists
  <2>3. p = r
    <3>1. Left(A, q, p)
      BY ONLY <1>4, <2>2, WholeFacts
    <3> QED BY ONLY <1>2, <2>1, <3>1 DEF Left
  <2>4. PICK z \in Nat : z = (2 * Block - Len(A) - 1 - LenBytes) % Block
    <3>1. Len(A) \in Nat
      BY <1>4, SeqFacts
    <3>2. (2 * Block - Len(A) - 1 - LenBytes) % Block \in Nat
      BY ONLY <3>1, BlockType
    <3> QED BY ONLY <3>2
  <2>5. z = IF r + LenBytes + 1 =< Block THEN Block - LenBytes - r - 1
            ELSE (Block - r - 1) + (Block - LenBytes)
    <3>1. Len(A) \in Nat /\ Cut(Len(A), q, r) /\ r \in 0..(Block - 1)
      BY <1>4, <2>2, <2>3, SeqFacts
    <3>2. /\ r + LenBytes + 1 =< Block => z = Block - LenBytes - r - 1
          /\ r + LenBytes + 1 > Block => z = (Block - r - 1) + (Block - LenBytes)
      BY ONLY <2>4, <3>1, q \in Nat, PadLength
    <3> QED BY ONLY <3>2, BlockType, r \in Nat
  <2>6. Hashed(A) = Whole(A) \o Whole(((Tail_of(A) \o <<One>>) \o Zeros(z)) \o Length(8 * Len(A)))
    BY ONLY <1>4, <2>4, PaddedChunks
  <2>7. Hashed(A) = s.h \o Whole(((s.bytes_remain \o <<One>>) \o Zeros(z)) \o Length(s.message_len))
    BY ONLY <2>1, <2>6
  <2> QED BY ONLY <2>1, <2>5, <2>7, z \in Nat
<1>5. CASE r + LenBytes + 1 =< Block
  <2>1. PICK X : X = ((s.bytes_remain \o <<One>>) \o Zeros(Block - LenBytes - r - 1))
                     \o Length(s.message_len)
    OBVIOUS
  <2>2. /\ IsSeq(X) /\ Len(X) = Block
        /\ t = [message_len |-> s.message_len, bytes_remain |-> s.bytes_remain,
                h |-> s.h \o <<X>>]
    BY <1>1, <1>2, <1>5, <2>1, DigestFits
  <2>3. Full(s.h \o <<X>>)
    BY <1>3, <2>2, FullFew, FullJoin
  <2>4. /\ t = [message_len |-> t.message_len, bytes_remain |-> t.bytes_remain, h |-> t.h]
        /\ t.message_len = s.message_len /\ t.bytes_remain = s.bytes_remain
        /\ t.h = s.h \o <<X>>
    BY ONLY <2>2
  <2>5. IsSha(t)
    BY ONLY <1>3, <2>3, <2>4 DEF IsSha
  <2>6. ASSUME NEW A, IsSeq(A), Clean(s, A) PROVE t.h = Hashed(A)
    <3>1. PICK z \in Nat :
            /\ z = Block - LenBytes - r - 1
            /\ Hashed(A) = s.h \o Whole(((s.bytes_remain \o <<One>>) \o Zeros(z))
                                        \o Length(s.message_len))
      BY ONLY <1>4, <1>5, <2>6
    <3>2. Hashed(A) = s.h \o Whole(X)
      BY ONLY <2>1, <3>1
    <3>3. Whole(X) = <<X>>
      BY ONLY <2>2, WholeOne
    <3> QED BY ONLY <2>4, <3>2, <3>3
  <2> QED BY ONLY <1>1, <2>4, <2>5, <2>6
<1>6. CASE r + LenBytes + 1 > Block
  <2>1. PICK X, Y : /\ X = (s.bytes_remain \o <<One>>) \o Zeros(Block - r - 1)
                    /\ Y = Zeros(Block - LenBytes) \o Length(s.message_len)
    OBVIOUS
  <2>2. /\ IsSeq(X) /\ Len(X) = Block /\ IsSeq(Y) /\ Len(Y) = Block
        /\ t = [message_len |-> s.message_len, bytes_remain |-> s.bytes_remain,
                h |-> s.h \o <<X, Y>>]
    BY <1>1, <1>2, <1>6, <2>1, DigestOverflows
  <2>3. Full(s.h \o <<X, Y>>)
    BY <1>3, <2>2, FullFew, FullJoin
  <2>4. /\ t = [message_len |-> t.message_len, bytes_remain |-> t.bytes_remain, h |-> t.h]
        /\ t.message_len = s.message_len /\ t.bytes_remain = s.bytes_remain
        /\ t.h = s.h \o <<X, Y>>
    BY ONLY <2>2
  <2>5. IsSha(t)
    BY ONLY <1>3, <2>3, <2>4 DEF IsSha
  <2>6. ASSUME NEW A, IsSeq(A), Clean(s, A) PROVE t.h = Hashed(A)
    <3>1. ~(r + LenBytes + 1 =< Block)
      BY <1>6, BlockType
    <3>2. PICK a \in Nat, b \in Nat : a = Block - r - 1 /\ b = Block - LenBytes
      <4>1. Block - r - 1 \in Nat /\ Block - LenBytes \in Nat
        BY ONLY <1>2, BlockType, r \in Nat
      <4> QED BY ONLY <4>1
    <3>3. Hashed(A) = s.h \o Whole(((s.bytes_remain \o <<One>>) \o Zeros(a + b))
                                   \o Length(s.message_len))
      BY ONLY <1>4, <2>6, <3>1, <3>2
    <3>4. PICK R, Z, V, L : /\ R = s.bytes_remain \o <<One>> /\ Z = Zeros(a) /\ V = Zeros(b)
                            /\ L = Length(s.message_len) /\ X = R \o Z /\ Y = V \o L
      BY ONLY <2>1, <3>2
    <3>5. IsSeq(R) /\ IsSeq(Z) /\ IsSeq(V) /\ IsSeq(L)
      BY ONLY <1>3, <3>4, a \in Nat, b \in Nat, OneSeq, JoinSeq, ZerosFacts, LengthFacts
    <3>6. Zeros(a + b) = Z \o V
      BY ONLY <3>4, a \in Nat, b \in Nat, ZerosJoin
    <3>7. Associates(R, Z, V) /\ Associates(X, V, L)
      BY <2>2, <3>5, Assoc
    <3>8. R \o (Z \o V) = X \o V /\ (X \o V) \o L = X \o Y
      BY ONLY <3>4, <3>7 DEF Associates
    <3>9. Whole(X \o Y) = <<X, Y>>
      BY ONLY <2>2, WholeTwo
    <3> QED BY ONLY <2>4, <3>3, <3>4, <3>6, <3>8, <3>9
  <2> QED BY ONLY <1>1, <2>4, <2>5, <2>6
<1> QED BY <1>2, <1>5, <1>6, BlockType

(* After digest every chunk that was begun is there. *)
LEMMA BeginsDigest ==
  ASSUME NEW s, IsSha(s), NEW k \in Nat, NEW x, Begins(s, k, x)
  PROVE  Len(digest(s).h) > k /\ digest(s).h[k + 1][1] = x
<1>1. PICK R, H : R = s.bytes_remain /\ IsSeq(R) /\ Len(R) < Block /\ H = s.h /\ IsSeq(H)
  BY DEF IsSha, Full
<1>2. PICK r \in Nat, l \in Nat : r = Len(R) /\ l = Len(H) /\ r < Block
  BY <1>1, SeqFacts
<1>3. \E X, c : /\ digest(s).h = H \o c /\ IsSeq(c) /\ Len(c) > 0 /\ c[1] = X
                /\ r > 0 => X[1] = R[1]
  <2>1. ASSUME NEW d, IsSeq(d), r > 0 PROVE ((R \o <<One>>) \o d)[1] = R[1]
    <3>1. PICK O : O = <<One>> /\ IsSeq(O)
      BY OneSeq
    <3>2. PICK u : u = R \o O /\ IsSeq(u) /\ Len(u) = r + Len(O) /\ Len(O) \in Nat
      BY <1>1, <1>2, <3>1, JoinSeq, SeqFacts
    <3>3. 1 \in 1..Len(R) /\ 1 \in 1..Len(u)
      BY <1>2, <2>1, <3>2
    <3>4. u[1] = R[1] /\ (u \o d)[1] = u[1]
      BY <1>1, <2>1, <3>1, <3>2, <3>3, FirstOf
    <3> QED BY ONLY <3>1, <3>2, <3>4
  <2>2. CASE r + LenBytes + 1 =< Block
    <3>1. PICK Z, L, X : /\ Z = Zeros(Block - LenBytes - r - 1) /\ L = Length(s.message_len)
                         /\ X = ((R \o <<One>>) \o Z) \o L
      OBVIOUS
    <3>2. digest(s).h = H \o <<X>>
      <4>1. digest(s) = [message_len |-> s.message_len, bytes_remain |-> s.bytes_remain,
                         h |-> s.h \o <<X>>]
        BY <1>1, <1>2, <2>2, <3>1, DigestFits
      <4> QED BY ONLY <1>1, <4>1
    <3>3. IsSeq(Z) /\ IsSeq(L) /\ IsSeq(<<One>>) /\ IsSeq((R \o <<One>>))
      <4>1. Block - LenBytes - r - 1 \in Nat
        BY <2>2, BlockType
      <4> QED BY <1>1, <3>1, <4>1, ZerosFacts, LengthFacts, OneSeq, JoinSeq
    <3>4. PICK d : d = Z \o L /\ IsSeq(d) /\ X = (R \o <<One>>) \o d
      <4>1. Associates((R \o <<One>>), Z, L) /\ IsSeq(Z \o L)
        BY <3>3, Assoc, JoinSeq
      <4> QED BY ONLY <3>1, <4>1 DEF Associates
    <3>5. r > 0 => X[1] = R[1]
      BY ONLY <2>1, <3>4
    <3>6. PICK c : c = <<X>> /\ IsSeq(c) /\ Len(c) = 1 /\ c[1] = X
      BY OneSeq
    <3>7. Len(c) > 0 /\ digest(s).h = H \o c
      BY <3>2, <3>6
    <3> QED BY ONLY <3>5, <3>6, <3>7
  <2>3. CASE r + LenBytes + 1 > Block
    <3>1. PICK Z, X, Y : /\ Z = Zeros(Block - r - 1) /\ X = (R \o <<One>>) \o Z
                         /\ Y = Zeros(Block - LenBytes) \o Length(s.message_len)
      OBVIOUS
    <3>2. digest(s).h = H \o <<X, Y>>
      <4>1. digest(s) = [message_len |-> s.message_len, bytes_remain |-> s.bytes_remain,
                         h |-> s.h \o <<X, Y>>]
        BY <1>1, <1>2, <2>3, <3>1, DigestOverflows
      <4> QED BY ONLY <1>1, <4>1
    <3>3. IsSeq(Z)
      <4>1. Block - r - 1 \in Nat
        BY <1>2, BlockType
      <4> QED BY <3>1, <4>1, ZerosFacts
    <3>4. r > 0 => X[1] = R[1]
      BY ONLY <2>1, <3>1, <3>3
    <3>5. PICK c : c = <<X, Y>> /\ IsSeq(c) /\ Len(c) = 2 /\ c[1] = X
      <4>1. PICK u, v : u = <<X>> /\ v = <<Y>> /\ IsSeq(u) /\ IsSeq(v) /\ Len(u) = 1 /\ Len(v) = 1
                        /\ u[1] = X /\ u \o v = <<X, Y>>
        BY OneSeq, TwoSeq
      <4>2. Joined(u, v) /\ 1 \in 1..1 /\ 1 + 1 = 2
        BY <4>1, Join
      <4> QED BY ONLY <4>1, <4>2 DEF Joined
    <3>6. Len(c) > 0 /\ digest(s).h = H \o c
      BY <3>2, <3>5
    <3> QED BY ONLY <3>4, <3>5, <3>6
  <2> QED BY <1>2, <2>2, <2>3, BlockType
<1>4. PICK X, c : /\ digest(s).h = H \o c /\ IsSeq(c) /\ Len(c) > 0 /\ c[1] = X
                  /\ r > 0 => X[1] = R[1]
  BY <1>3
<1>5. PICK n \in Nat : n = Len(c) /\ n > 0
  BY <1>4, SeqFacts
<1>6. PICK g : /\ g = digest(s).h /\ Len(g) = l + n
               /\ \A i \in 1..l : g[i] = H[i]
               /\ \A i \in 1..n : g[l + i] = c[i]
  <2>1. Joined(H, c)
    BY <1>1, <1>4, Join
  <2> QED BY ONLY <1>2, <1>4, <1>5, <2>1 DEF Joined
<1>7. CASE l > k
  <2>1. H[k + 1][1] = x
    BY <1>1, <1>2, <1>7 DEF Begins
  <2>2. k + 1 \in 1..l /\ l + n > k
    BY <1>5, <1>7
  <2> QED BY ONLY <1>6, <2>1, <2>2
<1>8. CASE ~(l > k)
  <2>1. l = k /\ r > 0 /\ R[1] = x
    BY ONLY <1>1, <1>2, <1>8, Begins(s, k, x) DEF Begins
  <2>2. 1 \in 1..n /\ l + n > k
    BY <1>5, <2>1
  <2> QED BY ONLY <1>4, <1>6, <2>1, <2>2
<1> QED BY ONLY <1>7, <1>8

(* No two bytes of A are the same, and none is one of the padding. *)
Distinct(A) ==
  /\ \A i, j \in 1..Len(A) : A[i] = A[j] => i = j
  /\ \A i \in 1..Len(A) : A[i][1] \notin {"0x80", "zero", "length"}

LEMMA PaddedBytes ==
  ASSUME NEW A, IsSeq(A)
  PROVE  /\ IsSeq(Padded(A)) /\ Len(Padded(A)) >= Len(A)
         /\ \A i \in 1..Len(Padded(A)) :
              IF i =< Len(A) THEN Padded(A)[i] = A[i]
              ELSE Padded(A)[i][1] \in {"0x80", "zero", "length"}
<1>1. PICK a \in Nat, z \in Nat, b \in Nat :
        a = Len(A) /\ z = (2 * Block - a - 1 - LenBytes) % Block /\ b = LenBytes
  <2>1. PICK a \in Nat, b \in Nat : a = Len(A) /\ b = LenBytes
    BY SeqFacts, BlockType
  <2>2. (2 * Block - a - 1 - LenBytes) % Block \in Nat
    BY ONLY BlockType, a \in Nat
  <2> QED BY ONLY <2>1, <2>2
<1>2. PICK O, Z, N, u, v, w :
        /\ O = <<One>> /\ Z = Zeros(z) /\ N = Length(8 * Len(A))
        /\ u = A \o O /\ v = u \o Z /\ w = v \o N
  OBVIOUS
<1>3. Padded(A) = w
  BY ONLY <1>1, <1>2 DEF Padded
<1>4. /\ IsSeq(O) /\ Len(O) = 1 /\ O[1] = <<"0x80">>
      /\ IsSeq(Z) /\ Len(Z) = z /\ \A i \in 1..z : Z[i] = <<"zero">>
      /\ IsSeq(N) /\ Len(N) = b /\ \A i \in 1..b : N[i] = <<"length", 8 * Len(A), i>>
  BY <1>1, <1>2, OneSeq, ZerosFacts, LengthFacts DEF One
<1>5. IsSeq(u) /\ Len(u) = a + 1 /\ (\A i \in 1..a : u[i] = A[i]) /\ u[a + 1] = <<"0x80">>
  <2>1. Joined(A, O) /\ 1 \in 1..1
    BY <1>4, Join
  <2> QED BY ONLY <1>1, <1>2, <1>4, <2>1 DEF Joined
<1>6. /\ IsSeq(v) /\ Len(v) = a + 1 + z /\ (\A i \in 1..(a + 1) : v[i] = u[i])
      /\ \A i \in 1..z : v[a + 1 + i] = <<"zero">>
  <2>1. Joined(u, Z)
    BY <1>4, <1>5, Join
  <2>2. v = u \o Z /\ Len(u) = a + 1 /\ Len(Z) = z /\ \A i \in 1..z : Z[i] = <<"zero">>
    BY ONLY <1>2, <1>4, <1>5
  <2>3. /\ IsSeq(v) /\ Len(v) = Len(u) + Len(Z) /\ (\A i \in 1..Len(u) : v[i] = u[i])
        /\ \A i \in 1..Len(Z) : v[Len(u) + i] = Z[i]
    BY ONLY <2>1, <2>2 DEF Joined
  <2> QED BY ONLY <2>2, <2>3
<1>7. /\ IsSeq(w) /\ Len(w) = a + 1 + z + b /\ (\A i \in 1..(a + 1 + z) : w[i] = v[i])
      /\ \A i \in 1..b : w[a + 1 + z + i] = <<"length", 8 * Len(A), i>>
  <2>1. Joined(v, N)
    BY <1>4, <1>6, Join
  <2> QED BY ONLY <1>2, <1>4, <1>6, <2>1 DEF Joined
<1>8. ASSUME NEW i \in 1..(a + 1 + z + b)
      PROVE  IF i =< a THEN w[i] = A[i] ELSE w[i][1] \in {"0x80", "zero", "length"}
  <2>1. CASE i =< a
    <3>1. i \in 1..a /\ i \in 1..(a + 1) /\ i \in 1..(a + 1 + z)
      BY <2>1
    <3> QED BY ONLY <1>5, <1>6, <1>7, <2>1, <3>1
  <2>2. CASE i = a + 1
    <3>1. i \in 1..(a + 1) /\ i \in 1..(a + 1 + z) /\ ~(i =< a)
      BY <2>2
    <3>2. w[i] = <<"0x80">>
      BY ONLY <1>5, <1>6, <1>7, <2>2, <3>1
    <3> QED BY <3>1, <3>2
  <2>3. CASE i > a + 1 /\ i =< a + 1 + z
    <3>1. i - (a + 1) \in 1..z /\ i = a + 1 + (i - (a + 1)) /\ i \in 1..(a + 1 + z) /\ ~(i =< a)
      BY <2>3
    <3>2. PICK j \in 1..z : i = a + 1 + j
      BY ONLY <3>1
    <3>3. w[i] = <<"zero">>
      BY ONLY <1>6, <1>7, <3>1, <3>2
    <3> QED BY <3>1, <3>3
  <2>4. CASE i > a + 1 + z
    <3>1. i - (a + 1 + z) \in 1..b /\ i = a + 1 + z + (i - (a + 1 + z)) /\ ~(i =< a)
      BY <2>4
    <3>2. PICK j \in 1..b : i = a + 1 + z + j
      BY ONLY <3>1
    <3>3. w[i] = <<"length", 8 * Len(A), j>>
      BY ONLY <1>7, <3>2
    <3> QED BY <3>1, <3>3
  <2> QED BY <2>1, <2>2, <2>3, <2>4
<1>9. a + 1 + z + b >= a
  OBVIOUS
<1> QED BY ONLY <1>1, <1>3, <1>7, <1>8, <1>9

(* No chunk of a padded message begins with a byte that belongs before it. *)
LEMMA HashedBegins ==
  ASSUME NEW A, IsSeq(A), Distinct(A), NEW k \in Nat, NEW j \in 1..Len(A), j =< k * Block,
         Len(Hashed(A)) > k
  PROVE  Hashed(A)[k + 1][1] # A[j]
<1>2. IsSeq(Padded(A)) /\ Len(Padded(A)) \in Nat /\ Len(A) \in Nat
  BY PaddedBytes, SeqFacts
<1>3. PICK q \in Nat, r \in 0..(Block - 1) : Cut(Len(Padded(A)), q, r)
  BY <1>2, CutExists
<1>4. Chunks(Padded(A), q)
  BY <1>2, <1>3, WholeFacts
<1>5. k + 1 \in 1..q
  <2>1. Len(Hashed(A)) = q
    BY ONLY <1>4 DEF Chunks, Hashed
  <2> QED BY <2>1
<1>6. Hashed(A)[k + 1][1] = Padded(A)[k * Block + 1]
  <2>1. \A i \in 1..Block : Hashed(A)[k + 1][i] = Padded(A)[((k + 1) - 1) * Block + i]
    BY ONLY <1>4, <1>5 DEF Chunks, Hashed
  <2>2. 1 \in 1..Block /\ (k + 1) - 1 = k
    BY BlockType
  <2> QED BY ONLY <2>1, <2>2
<1>7. PICK e \in Nat, n \in Nat : e = k * Block /\ n = Len(Padded(A)) /\ e + 1 =< n /\ j =< e
  <2>1. /\ ((k + 1) - 1) * Block \in Nat /\ (k + 1) * Block = ((k + 1) - 1) * Block + Block
        /\ (k + 1) * Block =< q * Block /\ q * Block \in Nat
    BY <1>5, ChunkInside
  <2>2. (k + 1) - 1 = k
    OBVIOUS
  <2>3. PICK e \in Nat, f \in Nat, g \in Nat : e = k * Block /\ f = q * Block /\ g = (k + 1) * Block
    BY BlockType, TimesNat
  <2>4. g = e + Block /\ g =< f /\ Len(Padded(A)) = f + r
    BY ONLY <1>3, <2>1, <2>2, <2>3 DEF Cut
  <2>5. e + 1 =< Len(Padded(A))
    BY <2>4, BlockType
  <2> QED BY ONLY <1>2, <2>3, <2>5, j =< k * Block
<1>8. e + 1 \in 1..n /\ j # e + 1
  BY <1>7
<1>9. CASE e + 1 =< Len(A)
  <2>1. Padded(A)[e + 1] = A[e + 1] /\ e + 1 \in 1..Len(A)
    BY <1>2, <1>7, <1>8, <1>9, PaddedBytes
  <2>2. A[e + 1] # A[j]
    BY ONLY <1>8, <2>1, Distinct(A), j \in 1..Len(A) DEF Distinct
  <2> QED BY ONLY <1>6, <1>7, <2>1, <2>2
<1>10. CASE ~(e + 1 =< Len(A))
  <2>1. Padded(A)[e + 1][1] \in {"0x80", "zero", "length"}
    BY <1>7, <1>8, <1>10, PaddedBytes
  <2>2. A[j][1] \notin {"0x80", "zero", "length"}
    BY ONLY Distinct(A), j \in 1..Len(A) DEF Distinct
  <2> QED BY ONLY <1>6, <1>7, <2>1, <2>2
<1> QED BY <1>9, <1>10

(* The digest is that of what the hasher took in exactly if it did not go   *)
(* astray.                                                                 *)
LEMMA DigestFacts ==
  ASSUME NEW s, IsSha(s), NEW A, IsSeq(A), Distinct(A), NEW astray, Took(s, A, astray)
  PROVE  digest(s).h = Hashed(A) <=> ~astray
<1>1. ASSUME ~astray PROVE digest(s).h = Hashed(A)
  BY <1>1, CleanDigest DEF Took
<1>2. ASSUME astray PROVE digest(s).h # Hashed(A)
  <2>1. PICK k \in Nat, j \in 1..Len(A) : j =< k * Block /\ Begins(s, k, A[j])
    BY <1>2 DEF Took, Astray
  <2>2. Len(digest(s).h) > k /\ digest(s).h[k + 1][1] = A[j]
    BY <2>1, BeginsDigest
  <2> QED BY <2>1, <2>2, HashedBegins
<1> QED BY <1>1, <1>2

-----------------------------------------------------------------------------
(* Induction over the natural numbers, for a property given as a set. *)
LEMMA LeastNumber ==
  ASSUME NEW T, T \subseteq Nat, T # {}
  PROVE  \E x \in T : \A y \in T : x =< y
<1> DEFINE Less == {p \in Nat \X Nat : p[1] < p[2]}
<1>1. IsWellFoundedOn(Less, Nat)
  BY NatLessThanWellFounded DEF OpToRel
<1> HIDE DEF Less
<1>2. PICK x \in T : \A y \in T : ~(<<y, x>> \in Less)
  BY <1>1, WFMin, Zenon
<1>3. \A y \in T : ~(y < x)
  BY <1>2 DEF Less
<1> QED BY <1>3

LEMMA UpTo ==
  ASSUME NEW N \in Nat, NEW P, 0 \in P, \A k \in 0..(N - 1) : k \in P => k + 1 \in P
  PROVE  \A k \in 0..N : k \in P
<1> DEFINE T == {k \in 0..N : k \notin P}
<1> SUFFICES ASSUME T # {} PROVE FALSE
  OBVIOUS
<1>1. PICK x \in T : \A y \in T : x =< y
  <2>1. T \subseteq Nat
    OBVIOUS
  <2> HIDE DEF T
  <2> QED BY <2>1, LeastNumber
<1>2. x \in 1..N /\ x - 1 \in 0..(N - 1) /\ x - 1 \notin T
  BY <1>1
<1>3. x - 1 \in P
  BY <1>2
<1> QED BY <1>1, <1>2, <1>3, (x - 1) + 1 = x

(* The hasher after each byte. *)
Feeding(s, m, f) ==
  f[0] = s /\ \A i \in 1..Len(m) : f[i] = update(f[i - 1], <<m[i]>>)

LEMMA AbsorbSteps ==
  ASSUME NEW s, NEW m, IsSeq(m)
  PROVE  \E f : Feeding(s, m, f) /\ Absorb(s, m) = f[Len(m)]
<1> DEFINE N == Len(m)
           Body(g, i) == IF i = 0 THEN s ELSE update(g[i - 1], <<m[i]>>)
           Def(k, g) == g = [i \in 0..k |-> Body(g, i)]
           P == {k \in Nat : \E g : Def(k, g)}
<1>0. N \in Nat
  BY SeqFacts
<1>1. 0 \in P
  <2> DEFINE g == [i \in 0..0 |-> s]
  <2>1. Def(0, g)
    OBVIOUS
  <2> QED BY <2>1
<1>2. ASSUME NEW k \in 0..(N - 1), k \in P PROVE k + 1 \in P
  <2>1. PICK g : Def(k, g)
    BY <1>2
  <2> DEFINE f == [i \in 0..(k + 1) |-> IF i = k + 1 THEN update(g[k], <<m[k + 1]>>) ELSE g[i]]
  <2>2. ASSUME NEW i \in 0..(k + 1) PROVE f[i] = Body(f, i)
    <3>1. CASE i = k + 1
      <4>1. i # 0 /\ i - 1 = k /\ k \in 0..(k + 1) /\ k # k + 1
        BY <1>0, <3>1
      <4>2. f[k] = g[k]
        BY <4>1
      <4> QED BY <3>1, <4>1, <4>2
    <3>2. CASE i # k + 1
      <4>1. i \in 0..k /\ f[i] = g[i] /\ g[i] = Body(g, i)
        BY <1>0, <2>1, <3>2
      <4>2. i # 0 => f[i - 1] = g[i - 1]
        BY <1>0, <3>2
      <4> QED BY <4>1, <4>2
    <3> QED BY <3>1, <3>2
  <2>3. Def(k + 1, f)
    <3> HIDE DEF Body
    <3>1. f = [i \in 0..(k + 1) |-> f[i]]
      OBVIOUS
    <3> HIDE DEF f
    <3> QED BY <2>2, <3>1
  <2> HIDE DEF Def
  <2> QED BY <1>0, <2>3
<1>3. \E g : Def(N, g)
  <2> HIDE DEF Def, N
  <2>1. \A k \in 0..N : k \in P
    BY <1>0, <1>1, <1>2, UpTo
  <2> QED BY <1>0, <2>1
<1> DEFINE fed == CHOOSE g : Def(N, g)
<1>4. Def(N, fed)
  <2> HIDE DEF Def
  <2> QED BY <1>3
<1>5. Absorb(s, m) = fed[N]
  BY DEF Absorb
<1> HIDE DEF fed
<1>6. \A i \in 0..N : fed[i] = Body(fed, i)
  <2> HIDE DEF Body, N
  <2> QED BY <1>4
<1>7. fed[0] = s /\ \A i \in 1..N : fed[i] = update(fed[i - 1], <<m[i]>>)
  <2> HIDE DEF N
  <2>1. 0 \in 0..N /\ \A i \in 1..N : i \in 0..N /\ i # 0
    BY <1>0
  <2> QED BY <1>6, <2>1
<1> QED BY <1>5, <1>7 DEF Feeding

(* The bytes of a key go in one by one: the one that fills the first chunk  *)
(* leads astray.                                                           *)
LEMMA CutsByte ==
  ASSUME NEW i \in Nat
  PROVE  i >= Block \/ CutsChunk(i, 1) <=> i + 1 >= Block
<1>1. PICK b \in Nat : b = Block /\ b >= 2
  BY BlockType
<1>2. CASE i < b
  <2>1. i % b = i
    <3>1. i = 0 * b + i /\ i \in 0..(b - 1) /\ 0 \in Int /\ i \in Int /\ b >= 1
      BY <1>1, <1>2
    <3> QED BY ONLY <3>1, b \in Nat, DivUnique
  <2>2. CutsChunk(i, 1) <=> i # 0 /\ i + 1 >= b
    BY ONLY <1>1, <2>1 DEF CutsChunk
  <2> QED BY ONLY <1>1, <1>2, <2>2, b \in Nat, i \in Nat
<1> QED BY <1>1, <1>2

LEMMA AbsorbFacts ==
  ASSUME NEW s, NEW m, IsSha(s), IsSeq(m), Clean(s, <<>>)
  PROVE  IsSha(Absorb(s, m)) /\ Took(Absorb(s, m), m, Len(m) >= Block)
<1>1. PICK f : Feeding(s, m, f) /\ Absorb(s, m) = f[Len(m)]
  BY AbsorbSteps
<1>2. PICK N \in Nat : N = Len(m)
  BY SeqFacts
<1> DEFINE Pre(i) == SubSeq(m, 1, i)
           P == {i \in 0..N : IsSha(f[i]) /\ Took(f[i], Pre(i), i >= Block)}
<1>3. ASSUME NEW i \in 0..N
      PROVE  IsSeq(Pre(i)) /\ Len(Pre(i)) = i /\ \A k \in 1..i : Pre(i)[k] = m[k]
  <2>1. i \in Nat /\ 1 =< 1 /\ 1 =< i + 1 /\ i =< Len(m)
    BY <1>2
  <2>2. Sliced(m, 1, i)
    BY ONLY <2>1, IsSeq(m), 1 \in Nat, Slice
  <2>3. i - 1 + 1 = i /\ \A k \in 1..i : 1 + k - 1 = k
    BY <2>1
  <2> QED BY ONLY <2>2, <2>3 DEF Sliced
<1>4. Pre(0) = <<>>
  <2>1. 0 \in 0..N
    OBVIOUS
  <2>2. IsSeq(Pre(0)) /\ Len(Pre(0)) = 0
    BY <1>3, <2>1
  <2> QED BY <2>2, EmptySeq
<1>5. Pre(N) = m
  <2>1. N \in 0..N
    OBVIOUS
  <2>2. IsSeq(Pre(N)) /\ Len(Pre(N)) = N /\ \A k \in 1..N : Pre(N)[k] = m[k]
    BY <1>3, <2>1
  <2> HIDE DEF Pre
  <2> QED BY <1>2, <2>2, SeqEqual
<1>6. ASSUME NEW i \in 0..(N - 1) PROVE Pre(i + 1) = Pre(i) \o <<m[i + 1]>>
  <2>1. i \in 0..N /\ i + 1 \in 0..N /\ i \in Nat
    BY <1>2
  <2>2. PICK x, y, z : x = Pre(i) /\ y = Pre(i + 1) /\ z = <<m[i + 1]>>
    OBVIOUS
  <2>3. IsSeq(x) /\ Len(x) = i /\ \A k \in 1..i : x[k] = m[k]
    BY <1>3, <2>1, <2>2
  <2>4. IsSeq(y) /\ Len(y) = i + 1 /\ \A k \in 1..(i + 1) : y[k] = m[k]
    BY <1>3, <2>1, <2>2
  <2>5. IsSeq(z) /\ Len(z) = 1 /\ z[1] = m[i + 1]
    BY <2>2, OneSeq
  <2>6. PICK u : u = x \o z
    OBVIOUS
  <2>7. /\ IsSeq(u) /\ Len(u) = i + 1
        /\ \A k \in 1..i : u[k] = x[k]
        /\ u[i + 1] = m[i + 1]
    <3>1. Joined(x, z)
      BY <2>3, <2>5, Join
    <3>2. 1 \in 1..1
      OBVIOUS
    <3> QED BY ONLY <2>3, <2>5, <2>6, <3>1, <3>2 DEF Joined
  <2>8. \A k \in 1..(i + 1) : k \in 1..i \/ k = i + 1
    BY <2>1
  <2>9. \A k \in 1..Len(u) : u[k] = y[k]
    BY ONLY <2>3, <2>4, <2>7, <2>8
  <2>10. u = y
    BY ONLY <2>4, <2>7, <2>9, SeqEqual
  <2> QED BY ONLY <2>2, <2>6, <2>10
<1> HIDE DEF Pre
<1>7. 0 \in P
  <2>1. f[0] = s /\ 0 \in 0..N /\ ~(0 >= Block)
    BY <1>1, BlockType DEF Feeding
  <2>2. IsSha(f[0]) /\ Took(f[0], Pre(0), 0 >= Block)
    BY <1>4, <2>1 DEF Took
  <2> QED BY ONLY <2>1, <2>2
<1>8. ASSUME NEW i \in 0..(N - 1), i \in P PROVE i + 1 \in P
  <2>1. i + 1 \in 1..N /\ (i + 1) - 1 = i /\ i \in 0..N /\ i + 1 \in 0..N /\ i \in Nat
    BY <1>2
  <2>2. f[i + 1] = update(f[i], <<m[i + 1]>>)
    BY ONLY <1>1, <1>2, <2>1 DEF Feeding
  <2>3. PICK b : b = <<m[i + 1]>> /\ IsSeq(b) /\ Len(b) = 1
    BY OneSeq
  <2>4. IsSeq(Pre(i)) /\ Len(Pre(i)) = i
    BY <1>3, <2>1
  <2>5. IsSha(f[i]) /\ Took(f[i], Pre(i), i >= Block)
    BY <1>8
  <2>6. IsSha(f[i + 1]) /\ Took(f[i + 1], Pre(i) \o b, i >= Block \/ CutsChunk(i, 1))
    <3>1. PICK t, p : t = f[i] /\ p = Pre(i)
      OBVIOUS
    <3>2. IsSha(t) /\ IsSeq(p) /\ IsSeq(b) /\ Took(t, p, i >= Block)
      BY ONLY <2>3, <2>4, <2>5, <3>1
    <3>3. IsSha(update(t, b)) /\ Took(update(t, b), p \o b, i >= Block \/ CutsChunk(Len(p), Len(b)))
      <4>1. /\ IsSha(update(t, b))
            /\ Astray(t, p) => Astray(update(t, b), p \o b)
            /\ Clean(t, p) /\ CutsChunk(Len(p), Len(b)) => Astray(update(t, b), p \o b)
            /\ Clean(t, p) /\ ~CutsChunk(Len(p), Len(b)) => Clean(update(t, b), p \o b)
        BY ONLY <3>2, UpdateFacts
      <4> QED BY ONLY <3>2, <4>1 DEF Took
    <3> QED BY ONLY <2>2, <2>3, <2>4, <3>1, <3>3
  <2>7. i >= Block \/ CutsChunk(i, 1) <=> i + 1 >= Block
    BY ONLY <2>1, CutsByte
  <2>8. Took(f[i + 1], Pre(i + 1), i + 1 >= Block)
    <3>1. Pre(i) \o b = Pre(i + 1)
      BY ONLY <1>6, <2>3, i \in 0..(N - 1)
    <3> QED BY ONLY <2>6, <2>7, <3>1 DEF Took
  <2> QED BY ONLY <2>1, <2>6, <2>8
<1>9. N \in P
  <2>1. N \in 0..N
    OBVIOUS
  <2> HIDE DEF P
  <2> QED BY <1>7, <1>8, <2>1, UpTo
<1> QED BY <1>1, <1>2, <1>5, <1>9

-----------------------------------------------------------------------------
(* The inductive invariant: both hashers are well formed; until the first   *)
(* digest they have taken in the key and the message, or went astray; and   *)
(* the first digest is right exactly if they did not.                       *)
InnerRight(d) == d.inner = Hashed(Ipad \o d.of) <=> ~d.cut
OuterRight(d) ==
  d.outer = Hashed(Opad \o Sum(d.inner)) <=> Len(key) < Block /\ ~CutsChunk(Len(key), DIGEST_LEN)

HashInv ==
  /\ IsSha(ihasher) /\ IsSha(ohasher)
  /\ IsSeq(message) /\ IsSeq(sums) /\ Len(key) \in Nat
  /\ \A i \in 1..Len(message) : message[i] = <<"byte", i>>
  /\ sums = <<>> => /\ Took(ihasher, Ipad \o message, cut)
                    /\ Took(ohasher, Opad, Len(key) >= Block)
  /\ sums # <<>> => InnerRight(sums[1]) /\ OuterRight(sums[1])

LEMMA BytesFacts ==
  ASSUME NEW tag, NEW n \in Nat
  PROVE  /\ IsSeq(Bytes(tag, n)) /\ Len(Bytes(tag, n)) = n
         /\ \A i \in 1..n : Bytes(tag, n)[i] = <<tag, i>>
<1>1. PICK f : f = Bytes(tag, n) /\ f = [i \in 1..n |-> <<tag, i>>]
  BY DEF Bytes
<1>2. f = [i \in 1..n |-> f[i]] /\ \A i \in 1..n : f[i] = <<tag, i>>
  BY ONLY <1>1
<1>3. IsSeq(f) /\ Len(f) = n
  BY <1>2, FunctionIsSeq
<1> QED BY ONLY <1>1, <1>2, <1>3

LEMMA SumFacts ==
  ASSUME NEW h
  PROVE  /\ IsSeq(Sum(h)) /\ Len(Sum(h)) = DIGEST_LEN
         /\ \A i \in 1..DIGEST_LEN : Sum(h)[i] = <<"sum", h, i>>
<1>1. PICK f : f = Sum(h) /\ f = [i \in 1..DIGEST_LEN |-> <<"sum", h, i>>]
  BY DEF Sum
<1>2. f = [i \in 1..DIGEST_LEN |-> f[i]] /\ \A i \in 1..DIGEST_LEN : f[i] = <<"sum", h, i>>
  BY ONLY <1>1
<1>3. IsSeq(f) /\ Len(f) = DIGEST_LEN
  BY <1>2, HashingAssumption, FunctionIsSeq
<1> QED BY ONLY <1>1, <1>2, <1>3

(* Bytes of two different kinds, one after the other. *)
Tagged(a, tag) == \A i \in 1..Len(a) : a[i][1] = tag
Once(a) == \A i, j \in 1..Len(a) : a[i] = a[j] => i = j

LEMMA DistinctJoin ==
  ASSUME NEW a, NEW b, IsSeq(a), IsSeq(b), NEW x, NEW y, Tagged(a, x), Tagged(b, y), x # y,
         x \notin {"0x80", "zero", "length"}, y \notin {"0x80", "zero", "length"},
         Once(a), Once(b)
  PROVE  Distinct(a \o b)
<1>1. PICK l \in Nat, n \in Nat : l = Len(a) /\ n = Len(b)
  BY SeqFacts
<1>2. PICK c : /\ c = a \o b /\ Len(c) = l + n
               /\ \A i \in 1..l : c[i] = a[i]
               /\ \A i \in 1..n : c[l + i] = b[i]
  <2>1. Joined(a, b)
    BY Join
  <2> QED BY ONLY <1>1, <2>1 DEF Joined
<1>3. ASSUME NEW i \in 1..(l + n)
      PROVE  \/ i \in 1..l /\ c[i] = a[i] /\ c[i][1] = x
             \/ \E k \in 1..n : i = l + k /\ c[i] = b[k] /\ c[i][1] = y
  <2>1. CASE i \in 1..l
    BY ONLY <1>1, <1>2, <2>1, Tagged(a, x) DEF Tagged
  <2>2. CASE i \notin 1..l
    <3>1. i - l \in 1..n /\ i = l + (i - l)
      BY <2>2
    <3>2. PICK k \in 1..n : i = l + k
      BY ONLY <3>1
    <3>3. c[i] = b[k] /\ b[k][1] = y
      BY ONLY <1>1, <1>2, <3>2, Tagged(b, y) DEF Tagged
    <3> QED BY ONLY <3>2, <3>3
  <2> QED BY ONLY <2>1, <2>2
<1>4. ASSUME NEW i \in 1..(l + n), NEW j \in 1..(l + n), c[i] = c[j] PROVE i = j
  <2>1. CASE i \in 1..l /\ c[i] = a[i] /\ c[i][1] = x
    <3>1. j \in 1..l /\ c[j] = a[j]
      BY ONLY <1>3, <1>4, <2>1, x # y, j \in 1..(l + n)
    <3>2. a[i] = a[j]
      BY ONLY <1>4, <2>1, <3>1
    <3> QED BY ONLY <1>1, <2>1, <3>1, <3>2, Once(a) DEF Once
  <2>2. CASE \E k \in 1..n : i = l + k /\ c[i] = b[k] /\ c[i][1] = y
    <3>1. PICK k \in 1..n : i = l + k /\ c[i] = b[k] /\ c[i][1] = y
      BY <2>2
    <3>2. PICK g \in 1..n : j = l + g /\ c[j] = b[g]
      BY ONLY <1>3, <1>4, <3>1, x # y, j \in 1..(l + n)
    <3>3. b[k] = b[g]
      BY ONLY <1>4, <3>1, <3>2
    <3>4. k = g
      BY ONLY <1>1, <3>3, k \in 1..n, g \in 1..n, Once(b) DEF Once
    <3> QED BY ONLY <3>1, <3>2, <3>4
  <2> QED BY ONLY <1>3, <2>1, <2>2, i \in 1..(l + n)
<1>5. ASSUME NEW i \in 1..(l + n) PROVE c[i][1] \notin {"0x80", "zero", "length"}
  BY ONLY <1>3, i \in 1..(l + n), x \notin {"0x80", "zero", "length"}, y \notin {"0x80", "zero", "length"}
<1> QED BY ONLY <1>2, <1>4, <1>5 DEF Distinct

LEMMA PairBytes ==
  ASSUME NEW a, NEW tag, \A i \in 1..Len(a) : a[i] = <<tag, i>>
  PROVE  Tagged(a, tag) /\ Once(a)
<1>1. \A i, j : <<tag, i>>[1] = tag /\ (<<tag, i>> = <<tag, j>> => i = j)
  OBVIOUS
<1> QED BY ONLY <1>1, \A i \in 1..Len(a) : a[i] = <<tag, i>> DEF Tagged, Once

LEMMA SumBytes ==
  ASSUME NEW h
  PROVE  Tagged(Sum(h), "sum") /\ Once(Sum(h))
<1>1. \A i, j : <<"sum", h, i>>[1] = "sum" /\ (<<"sum", h, i>> = <<"sum", h, j>> => i = j)
  OBVIOUS
<1>2. Len(Sum(h)) = DIGEST_LEN /\ \A i \in 1..DIGEST_LEN : Sum(h)[i] = <<"sum", h, i>>
  BY SumFacts
<1> QED BY ONLY <1>1, <1>2 DEF Tagged, Once

LEMMA PadsFacts ==
  ASSUME HashInv
  PROVE  /\ IsSeq(Ipad) /\ Len(Ipad) = Len(key) /\ IsSeq(Opad) /\ Len(Opad) = Len(key)
         /\ Distinct(Ipad \o message)
         /\ \A h : Distinct(Opad \o Sum(h))
<1>1. Len(key) \in Nat /\ IsSeq(message) /\ \A i \in 1..Len(message) : message[i] = <<"byte", i>>
  BY DEF HashInv
<1>2. /\ IsSeq(Ipad) /\ Len(Ipad) = Len(key) /\ \A i \in 1..Len(Ipad) : Ipad[i] = <<"ipad", i>>
      /\ IsSeq(Opad) /\ Len(Opad) = Len(key) /\ \A i \in 1..Len(Opad) : Opad[i] = <<"opad", i>>
  <2>1. /\ IsSeq(Ipad) /\ Len(Ipad) = Len(key) /\ \A i \in 1..Len(key) : Ipad[i] = <<"ipad", i>>
    BY <1>1, BytesFacts DEF Ipad
  <2>2. /\ IsSeq(Opad) /\ Len(Opad) = Len(key) /\ \A i \in 1..Len(key) : Opad[i] = <<"opad", i>>
    BY <1>1, BytesFacts DEF Opad
  <2> QED BY ONLY <2>1, <2>2
<1>3. Tagged(Ipad, "ipad") /\ Once(Ipad) /\ Tagged(Opad, "opad") /\ Once(Opad)
      /\ Tagged(message, "byte") /\ Once(message)
  BY ONLY <1>1, <1>2, PairBytes
<1>4. /\ "ipad" # "byte" /\ "opad" # "sum"
      /\ {"ipad", "opad", "byte", "sum"} \cap {"0x80", "zero", "length"} = {}
  OBVIOUS
<1>5. \A x \in {"ipad", "opad", "byte", "sum"} : x \notin {"0x80", "zero", "length"}
  BY ONLY <1>4
<1>6. Distinct(Ipad \o message)
  <2>1. "ipad" \notin {"0x80", "zero", "length"} /\ "byte" \notin {"0x80", "zero", "length"}
    BY ONLY <1>5
  <2> QED BY ONLY <1>1, <1>2, <1>3, <1>4, <2>1, DistinctJoin
<1>7. ASSUME NEW h PROVE Distinct(Opad \o Sum(h))
  <2>1. "opad" \notin {"0x80", "zero", "length"} /\ "sum" \notin {"0x80", "zero", "length"}
    BY ONLY <1>5
  <2>2. IsSeq(Sum(h)) /\ Tagged(Sum(h), "sum") /\ Once(Sum(h))
    BY SumFacts, SumBytes
  <2> QED BY ONLY <1>2, <1>3, <1>4, <2>1, <2>2, DistinctJoin
<1> QED BY ONLY <1>2, <1>6, <1>7

LEMMA AppendFacts ==
  ASSUME NEW s, IsSeq(s), NEW x
  PROVE  /\ IsSeq(Append(s, x)) /\ Append(s, x) # <<>> /\ Len(Append(s, x)) = Len(s) + 1
         /\ s = <<>> => Append(s, x)[1] = x
         /\ s # <<>> => Append(s, x)[1] = s[1]
<1>1. PICK S : s \in Seq(S)
  BY DEF IsSeq
<1>2. s \in Seq(S \cup {x}) /\ x \in S \cup {x}
  <2>1. PICK n \in Nat : s \in [1..n -> S]
    BY <1>1
  <2>2. s \in [1..n -> S \cup {x}]
    BY <2>1
  <2> QED BY <2>2
<1>3. Append(s, x) \in Seq(S \cup {x}) /\ Len(Append(s, x)) = Len(s) + 1 /\ Len(s) \in Nat
  BY <1>2
<1>4. Append(s, x) # <<>>
  BY <1>3
<1>5. s = <<>> => Append(s, x)[1] = x
  OBVIOUS
<1>6. s # <<>> => Append(s, x)[1] = s[1]
  <2> SUFFICES ASSUME s # <<>> PROVE Append(s, x)[1] = s[1]
    OBVIOUS
  <2>1. 1 \in 1..Len(s)
    BY <1>2
  <2> QED BY <1>2, <2>1
<1> QED BY <1>3, <1>4, <1>5, <1>6 DEF IsSeq

LEMMA HashInvInit == HashInit => HashInv
<1> SUFFICES ASSUME HashInit PROVE HashInv
  OBVIOUS
<1>1. /\ ihasher = Sha256_default /\ ohasher = Sha256_default
      /\ key = <<>> /\ message = <<>> /\ cut = FALSE /\ sums = <<>>
  BY DEF HashInit
<1>2. Len(<<>>) = 0 /\ IsSeq(<<>>) /\ Len(<<>>) < Block /\ 0 \in Nat /\ 0 = 8 * 0 /\ Len(<<>>) = 0
  BY EmptySeq, BlockType
<1>3. Whole(<<>>) = <<>> /\ Tail_of(<<>>) = <<>>
  BY <1>2, WholeShort
<1>4. PICK s : s = Sha256_default
  OBVIOUS
<1>5. s = [message_len |-> 0, bytes_remain |-> <<>>, h |-> <<>>]
  BY <1>4 DEF Sha256_default
<1>6. s.message_len = 0 /\ s.bytes_remain = <<>> /\ s.h = <<>>
      /\ s = [message_len |-> s.message_len, bytes_remain |-> s.bytes_remain, h |-> s.h]
  BY ONLY <1>5
<1>7. IsSha(s)
  <2>1. Full(<<>>)
    BY FullFew
  <2> QED BY ONLY <1>2, <1>6, <2>1 DEF IsSha
<1>8. Clean(s, <<>>)
  BY ONLY <1>2, <1>3, <1>6 DEF Clean
<1>9. Ipad = <<>> /\ Opad = <<>> /\ <<>> \o <<>> = <<>>
  <2>1. /\ IsSeq(Bytes("ipad", 0)) /\ Len(Bytes("ipad", 0)) = 0
        /\ IsSeq(Bytes("opad", 0)) /\ Len(Bytes("opad", 0)) = 0
    BY BytesFacts
  <2>2. Bytes("ipad", 0) = <<>> /\ Bytes("opad", 0) = <<>> /\ <<>> \o <<>> = <<>>
    BY <1>2, <2>1, EmptySeq
  <2> QED BY ONLY <1>1, <1>2, <2>2 DEF Ipad, Opad
<1>10. ~(0 >= Block) /\ \A i \in 1..0 : message[i] = <<"byte", i>>
  BY BlockType
<1>11. Took(ihasher, Ipad \o message, cut) /\ Took(ohasher, Opad, Len(key) >= Block)
  BY ONLY <1>1, <1>2, <1>4, <1>8, <1>9, <1>10 DEF Took
<1> QED BY ONLY <1>1, <1>2, <1>4, <1>7, <1>10, <1>11 DEF HashInv

LEMMA SetKeyStep ==
  ASSUME HashInv, NEW n \in 1..MaxKey, hmac_set_key(n)
  PROVE  HashInv'
<1>1. n \in Nat
  BY HashingAssumption
<1>2. /\ key = <<>> /\ message = <<>> /\ sums = <<>> /\ key' = Bytes("key", n)
      /\ ihasher' = Absorb(ihasher, Bytes("ipad", n)) /\ ohasher' = Absorb(ohasher, Bytes("opad", n))
      /\ cut' = (n >= Block) /\ message' = message /\ sums' = sums
  BY DEF hmac_set_key
<1>3. /\ IsSeq(Bytes("ipad", n)) /\ IsSeq(Bytes("opad", n)) /\ Len(key') = n /\ Len(key) = 0
      /\ Len(Bytes("ipad", n)) = n /\ Len(Bytes("opad", n)) = n
      /\ IsSeq(<<>>)
  BY <1>1, <1>2, BytesFacts, EmptySeq
<1>4. Ipad = <<>> /\ Opad = <<>> /\ <<>> \o <<>> = <<>>
  <2>1. /\ IsSeq(Bytes("ipad", 0)) /\ Len(Bytes("ipad", 0)) = 0
        /\ IsSeq(Bytes("opad", 0)) /\ Len(Bytes("opad", 0)) = 0
    BY BytesFacts
  <2>2. Bytes("ipad", 0) = <<>> /\ Bytes("opad", 0) = <<>> /\ <<>> \o <<>> = <<>>
    BY <1>3, <2>1, EmptySeq
  <2> QED BY ONLY <1>3, <2>2 DEF Ipad, Opad
<1>5. IsSha(ihasher) /\ IsSha(ohasher) /\ Clean(ihasher, <<>>) /\ Clean(ohasher, <<>>)
  <2>1. ~(0 >= Block)
    BY BlockType
  <2>2. Took(ohasher, <<>>, 0 >= Block) /\ Took(ihasher, <<>>, cut) /\ IsSha(ihasher) /\ IsSha(ohasher)
    BY ONLY <1>2, <1>3, <1>4, HashInv DEF HashInv
  <2>3. ~Astray(ihasher, <<>>)
    <3>1. 1..0 = {} /\ Len(<<>>) = 0
      BY EmptySeq
    <3> QED BY ONLY <3>1 DEF Astray
  <2> QED BY ONLY <2>1, <2>2, <2>3 DEF Took
<1>6. IsSha(ihasher') /\ Took(ihasher', Bytes("ipad", n), n >= Block)
  BY ONLY <1>2, <1>3, <1>5, AbsorbFacts
<1>7. IsSha(ohasher') /\ Took(ohasher', Bytes("opad", n), n >= Block)
  BY ONLY <1>2, <1>3, <1>5, AbsorbFacts
<1>8. Bytes("ipad", n) \o <<>> = Bytes("ipad", n)
  BY ONLY <1>3, EmptySeq
<1>9. Ipad' = Bytes("ipad", n) /\ Opad' = Bytes("opad", n)
  BY ONLY <1>3 DEF Ipad, Opad
<1>10. Ipad' \o message' = Bytes("ipad", n)
  BY ONLY <1>2, <1>8, <1>9
<1>11. IsSeq(message') /\ IsSeq(sums') /\ Len(key') \in Nat /\ sums' = <<>>
  BY ONLY <1>1, <1>2, <1>3
<1>12. \A i \in 1..Len(message') : message'[i] = <<"byte", i>>
  BY ONLY <1>2, HashInv DEF HashInv
<1>13. Took(ihasher', Ipad' \o message', cut') /\ Took(ohasher', Opad', Len(key') >= Block)
  BY ONLY <1>2, <1>3, <1>6, <1>7, <1>9, <1>10
<1> QED BY ONLY <1>6, <1>7, <1>11, <1>12, <1>13 DEF HashInv

LEMMA UpdateStep ==
  ASSUME HashInv, NEW n \in 0..MaxMessage, hmac_update(n)
  PROVE  HashInv'
<1>1. n \in Nat
  BY HashingAssumption
<1>2. PICK a \in Nat : a = Len(message)
  BY SeqFacts DEF HashInv
<1>3. PICK piece : /\ piece = SubSeq(Bytes("byte", a + n), a + 1, a + n)
                   /\ ihasher' = update(ihasher, piece) /\ message' = message \o piece
                   /\ ohasher' = ohasher /\ key' = key /\ sums' = sums
                   /\ cut' = (cut \/ CutsChunk(Len(key) + Len(message), n))
  BY <1>2 DEF hmac_update
<1>4. IsSeq(piece) /\ Len(piece) = n /\ \A i \in 1..n : piece[i] = <<"byte", a + i>>
  <2>1. PICK B : /\ B = Bytes("byte", a + n) /\ IsSeq(B) /\ Len(B) = a + n
                 /\ \A i \in 1..(a + n) : B[i] = <<"byte", i>>
    BY <1>1, BytesFacts
  <2>2. a + n \in Nat /\ a + 1 \in Nat /\ 1 =< a + 1 /\ a + 1 =< (a + n) + 1 /\ a + n =< a + n
    BY <1>1
  <2>3. Sliced(B, a + 1, a + n)
    BY ONLY <2>1, <2>2, Slice
  <2>4. (a + n) - (a + 1) + 1 = n /\ \A i \in 1..n : (a + 1) + i - 1 = a + i /\ a + i \in 1..(a + n)
    BY <1>1
  <2>5. piece = SubSeq(B, a + 1, a + n)
    BY ONLY <1>3, <2>1
  <2>6. IsSeq(piece) /\ Len(piece) = n /\ \A i \in 1..n : piece[i] = B[(a + 1) + i - 1]
    BY ONLY <2>3, <2>4, <2>5 DEF Sliced
  <2> QED BY ONLY <2>1, <2>4, <2>6
<1>5. /\ IsSha(ihasher) /\ IsSha(ohasher) /\ IsSeq(message) /\ IsSeq(sums) /\ Len(key) \in Nat
      /\ \A i \in 1..Len(message) : message[i] = <<"byte", i>>
  BY DEF HashInv
<1>6. IsSha(ihasher')
  BY ONLY <1>3, <1>4, <1>5, IsShaUpdate
<1>7. IsSeq(message') /\ Len(key') \in Nat /\ Ipad' = Ipad /\ Opad' = Opad /\ IsSeq(sums') /\ IsSha(ohasher')
  <2>1. IsSeq(message')
    BY <1>3, <1>4, <1>5, JoinSeq
  <2> QED BY ONLY <1>3, <1>5, <2>1 DEF Ipad, Opad
<1>8. \A i \in 1..Len(message') : message'[i] = <<"byte", i>>
  <2>1. Joined(message, piece)
    BY <1>4, <1>5, Join
  <2>2. /\ Len(message') = a + n /\ \A i \in 1..a : message'[i] = message[i]
        /\ \A i \in 1..n : message'[a + i] = piece[i]
    BY ONLY <1>2, <1>3, <1>4, <2>1 DEF Joined
  <2>3. ASSUME NEW i \in 1..(a + n) PROVE message'[i] = <<"byte", i>>
    <3>1. CASE i \in 1..a
      BY ONLY <1>2, <1>5, <2>2, <3>1
    <3>2. CASE i \notin 1..a
      <4>1. i - a \in 1..n /\ i = a + (i - a)
        BY <1>1, <3>2
      <4>2. PICK k \in 1..n : i = a + k
        BY ONLY <4>1
      <4> QED BY ONLY <1>4, <2>2, <4>2
    <3> QED BY ONLY <3>1, <3>2
  <2> QED BY ONLY <2>2, <2>3
<1>9. ASSUME sums' = <<>>
      PROVE  Took(ihasher', Ipad' \o message', cut') /\ Took(ohasher', Opad', Len(key') >= Block)
  <2>1. Took(ihasher, Ipad \o message, cut) /\ Took(ohasher, Opad, Len(key) >= Block)
    BY ONLY <1>3, <1>9, HashInv DEF HashInv
  <2>2. PICK x : x = Ipad \o message /\ IsSeq(x) /\ Len(x) = Len(key) + Len(message)
                 /\ x \o piece = Ipad' \o message'
    <3>1. IsSeq(Ipad) /\ Len(Ipad) = Len(key)
      BY PadsFacts
    <3>2. IsSeq(Ipad \o message) /\ Len(Ipad \o message) = Len(key) + Len(message)
          /\ Associates(Ipad, message, piece)
      BY <1>4, <1>5, <3>1, JoinSeq, Assoc
    <3> QED BY ONLY <1>3, <1>7, <3>2 DEF Associates
  <2>3. Took(ihasher', x \o piece, cut \/ CutsChunk(Len(x), Len(piece)))
    <3>1. Took(ihasher, x, cut)
      BY ONLY <2>1, <2>2
    <3>2. Took(update(ihasher, piece), x \o piece, cut \/ CutsChunk(Len(x), Len(piece)))
      <4>1. /\ Astray(ihasher, x) => Astray(update(ihasher, piece), x \o piece)
            /\ Clean(ihasher, x) /\ CutsChunk(Len(x), Len(piece))
                 => Astray(update(ihasher, piece), x \o piece)
            /\ Clean(ihasher, x) /\ ~CutsChunk(Len(x), Len(piece))
                 => Clean(update(ihasher, piece), x \o piece)
        BY ONLY <1>4, <1>5, <2>2, UpdateFacts
      <4> QED BY ONLY <3>1, <4>1 DEF Took
    <3> QED BY ONLY <1>3, <3>2
  <2>4. cut' = (cut \/ CutsChunk(Len(x), Len(piece)))
    BY ONLY <1>3, <1>4, <2>2
  <2>5. Took(ihasher', Ipad' \o message', cut')
    BY ONLY <2>2, <2>3, <2>4, Zenon
  <2>6. Took(ohasher', Opad', Len(key') >= Block)
    BY ONLY <1>3, <1>7, <2>1
  <2> QED BY ONLY <2>5, <2>6
<1>10. ASSUME sums' # <<>> PROVE InnerRight(sums[1])' /\ OuterRight(sums[1])'
  <2>1. InnerRight(sums[1]) /\ OuterRight(sums[1])
    BY ONLY <1>3, <1>10, HashInv DEF HashInv
  <2> QED BY ONLY <1>3, <1>7, <2>1 DEF InnerRight, OuterRight
<1> QED BY ONLY <1>6, <1>7, <1>8, <1>9, <1>10 DEF HashInv

LEMMA DigestStep ==
  ASSUME HashInv, hmac_digest
  PROVE  HashInv'
<1>1. PICK d : d = [of |-> message, cut |-> cut, inner |-> ihasher'.h, outer |-> ohasher'.h]
  OBVIOUS
<1>2. /\ ihasher' = digest(ihasher) /\ ohasher' = digest(update(ohasher, Sum(ihasher'.h)))
      /\ sums' = Append(sums, d) /\ key' = key /\ message' = message /\ cut' = cut
  BY <1>1 DEF hmac_digest
<1>3. /\ IsSha(ihasher) /\ IsSha(ohasher) /\ IsSeq(message) /\ IsSeq(sums) /\ Len(key) \in Nat
      /\ \A i \in 1..Len(message) : message[i] = <<"byte", i>>
  BY DEF HashInv
<1>4. PICK e, u : /\ e = Sum(ihasher'.h) /\ IsSeq(e) /\ Len(e) = DIGEST_LEN
                  /\ u = update(ohasher, e) /\ IsSha(u)
  BY <1>3, SumFacts, IsShaUpdate
<1>5. IsSha(ihasher') /\ IsSha(ohasher')
  BY ONLY <1>2, <1>3, <1>4, CleanDigest
<1>6. /\ IsSeq(Ipad) /\ IsSeq(Opad) /\ Len(Opad) = Len(key)
      /\ Distinct(Ipad \o message) /\ Distinct(Opad \o e)
  BY <1>4, PadsFacts
<1>7. Ipad' = Ipad /\ Opad' = Opad /\ IsSeq(message') /\ Len(key') \in Nat
      /\ \A i \in 1..Len(message') : message'[i] = <<"byte", i>>
  BY ONLY <1>2, <1>3 DEF Ipad, Opad
<1>8. /\ IsSeq(sums') /\ sums' # <<>>
      /\ sums = <<>> => sums'[1] = d
      /\ sums # <<>> => sums'[1] = sums[1]
  BY ONLY <1>2, <1>3, AppendFacts
<1>9. d.of = message /\ d.cut = cut /\ d.inner = ihasher'.h /\ d.outer = ohasher'.h
  BY ONLY <1>1
<1>10. InnerRight(sums[1])' /\ OuterRight(sums[1])'
  <2>1. CASE sums = <<>>
    <3>1. Took(ihasher, Ipad \o message, cut) /\ Took(ohasher, Opad, Len(key) >= Block)
      BY ONLY <2>1, HashInv DEF HashInv
    <3>2. PICK x, y : x = Ipad \o message /\ IsSeq(x) /\ y = Opad \o e /\ IsSeq(y)
                      /\ Distinct(x) /\ Distinct(y)
      BY <1>3, <1>4, <1>6, JoinSeq
    <3>3. digest(ihasher).h = Hashed(x) <=> ~cut
      <4>1. Took(ihasher, x, cut)
        BY ONLY <3>1, <3>2
      <4> QED BY ONLY <1>3, <3>2, <4>1, DigestFacts
    <3>4. Took(u, y, Len(key) >= Block \/ CutsChunk(Len(key), DIGEST_LEN))
      <4>1. Took(update(ohasher, e), Opad \o e, Len(key) >= Block \/ CutsChunk(Len(Opad), Len(e)))
        <5>1. /\ Astray(ohasher, Opad) => Astray(update(ohasher, e), Opad \o e)
              /\ Clean(ohasher, Opad) /\ CutsChunk(Len(Opad), Len(e))
                   => Astray(update(ohasher, e), Opad \o e)
              /\ Clean(ohasher, Opad) /\ ~CutsChunk(Len(Opad), Len(e))
                   => Clean(update(ohasher, e), Opad \o e)
          BY ONLY <1>3, <1>4, <1>6, UpdateFacts
        <5> QED BY ONLY <3>1, <5>1 DEF Took
      <4> QED BY ONLY <1>4, <1>6, <3>2, <4>1
    <3>5. digest(u).h = Hashed(y) <=> ~(Len(key) >= Block \/ CutsChunk(Len(key), DIGEST_LEN))
      BY ONLY <1>4, <3>2, <3>4, DigestFacts, Zenon
    <3>6. sums'[1] = d
      BY ONLY <1>8, <2>1
    <3>7. InnerRight(sums[1])'
      BY ONLY <1>2, <1>7, <1>9, <3>2, <3>3, <3>6 DEF InnerRight
    <3>8. OuterRight(sums[1])'
      <4>1. ~(Len(key) >= Block) <=> Len(key) < Block
        BY <1>3, BlockType
      <4>2. d.outer = Hashed(Opad \o Sum(d.inner))
            <=> Len(key) < Block /\ ~CutsChunk(Len(key), DIGEST_LEN)
        BY ONLY <1>2, <1>4, <1>9, <3>2, <3>5, <4>1
      <4> QED BY ONLY <1>2, <1>7, <3>6, <4>2 DEF OuterRight
    <3> QED BY ONLY <3>7, <3>8
  <2>2. CASE sums # <<>>
    <3>1. InnerRight(sums[1]) /\ OuterRight(sums[1]) /\ sums'[1] = sums[1]
      BY ONLY <1>8, <2>2, HashInv DEF HashInv
    <3> QED BY ONLY <1>2, <1>7, <3>1 DEF InnerRight, OuterRight
  <2> QED BY ONLY <2>1, <2>2
<1> QED BY ONLY <1>5, <1>7, <1>8, <1>10 DEF HashInv

LEMMA HashInvNext == HashInv /\ [HashNext]_hashVars => HashInv'
<1> SUFFICES ASSUME HashInv, [HashNext]_hashVars PROVE HashInv'
  OBVIOUS
<1>1. CASE UNCHANGED hashVars
  BY <1>1 DEF hashVars, HashInv, Ipad, Opad, InnerRight, OuterRight
<1>2. CASE \E n \in 1..MaxKey : hmac_set_key(n)
  BY <1>2, SetKeyStep
<1>3. CASE \E n \in 0..MaxMessage : hmac_update(n)
  BY <1>3, UpdateStep
<1>4. CASE hmac_digest
  BY <1>4, DigestStep
<1> QED BY <1>1, <1>2, <1>3, <1>4 DEF HashNext

LEMMA HashInvWhole == HashInv => HashesWhole
<1> SUFFICES ASSUME HashInv PROVE HashesWhole
  OBVIOUS
<1>1. ChunksInside
  <2>1. ASSUME NEW s, IsSha(s)
        PROVE  Len(s.bytes_remain) < Block /\ \A c \in DOMAIN s.h : Len(s.h[c]) = Block
    <3>1. Len(s.bytes_remain) < Block /\ IsSeq(s.h) /\ \A c \in 1..Len(s.h) : Len(s.h[c]) = Block
      BY ONLY <2>1 DEF IsSha, Full
    <3>2. DOMAIN s.h = 1..Len(s.h)
      BY ONLY <3>1, SeqFacts
    <3> QED BY ONLY <3>1, <3>2
  <2>2. IsSha(ihasher) /\ IsSha(ohasher)
    BY DEF HashInv
  <2> QED BY ONLY <2>1, <2>2 DEF ChunksInside
<1>2. ASSUME Len(sums) = 1 PROVE InnerRight(sums[1]) /\ OuterRight(sums[1])
  <2>1. sums # <<>>
    BY <1>2, EmptySeq
  <2> QED BY ONLY <2>1, HashInv DEF HashInv
<1>3. DigestRight
  BY ONLY <1>2 DEF DigestRight, InnerRight
<1>4. HmacNested
  BY ONLY <1>2 DEF HmacNested, OuterRight
<1> QED BY ONLY <1>1, <1>3, <1>4 DEF HashesWhole

(* HashWhole: for every length of a chunk, of the length field, of the key  *)
(* and of the digest, and however a message comes in pieces, Sha256         *)
(* compresses only full chunks; its first digest is that of the padded      *)
(* message exactly if no update of sha2/src/lib.rs ends a chunk that an     *)
(* earlier one has begun; and Hmac::digest hashes the inner sum behind the  *)
(* key exactly if they fit into one chunk with room left.                   *)
THEOREM HashWhole == HashSpec => []HashesWhole
<1>1. HashInit => HashInv
  BY HashInvInit
<1>2. HashInv /\ [HashNext]_hashVars => HashInv'
  BY HashInvNext
<1>3. HashInv => HashesWhole
  BY HashInvWhole
<1> QED BY <1>1, <1>2, <1>3, PTL DEF HashSpec

=============================================================================
