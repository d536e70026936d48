------------------------------- MODULE Random -------------------------------
(***************************************************************************)
(* src/rand.rs: MT19937 and the default methods of RandomGenerator.  The   *)
(* parameters of the generator are CONSTANTS, so that a word may have few  *)
(* bits and the ring few words; a word has four bytes of Width / 4 bits.   *)
(***************************************************************************)
EXTENDS Integers, Sequences, SequencesExt, Bitwise

CONSTANTS
    Width,           \* W: bits of a word
    Words, Middle,   \* N and M: words of the ring, and the distance of the middle one
    MatA, MaskB, MaskC, Factor,   \* A, B, C and F
    ShiftU, ShiftS, ShiftT, ShiftL,   \* U, S, T and L
    Seeds,           \* seeds
    BufSizes,        \* lengths of the buffers passed to gen_bytes
    MaxWords         \* bound: words generated since the last seed

ASSUME RandomAssumption ==
    /\ Words \in Nat \ {0} /\ Middle \in 1..(Words - 1)
    /\ Width % 4 = 0

VARIABLES
    state_array, state_index,   \* MT19937
    xs,       \* history: the words of the recurrence since the last seed
    buf       \* history: the last result: its length, the words it took, and its bytes

randVars == <<state_array, state_index, xs, buf>>

Mod == 2 ^ Width
Top == 2 ^ (Width - 1)   \* UMASK selects this bit, LMASK the others

Shl(w, n) == (w * (2 ^ n)) % Mod
Shr(w, n) == w \div (2 ^ n)

Tempered(w) ==
    LET y1 == w ^^ Shr(w, ShiftU)
        y2 == y1 ^^ (Shl(y1, ShiftS) & MaskB)
        y3 == y2 ^^ (Shl(y2, ShiftT) & MaskC)
    IN  y3 ^^ Shr(y3, ShiftL)

(* to_be_bytes *)
BeBytes(w) ==
    LET bits == Width \div 4
    IN  [i \in 1..4 |-> Shr(w, bits * (4 - i)) % (2 ^ bits)]

(* The words that seed stores. *)
SeedWord[s \in Nat, i \in Nat] ==
    IF i = 0 THEN s
    ELSE LET w == SeedWord[s, i - 1] IN (Factor * (w ^^ Shr(w, Width - 2)) + i) % Mod

SeedArray(s) == [i \in 0..(Words - 1) |-> SeedWord[s, i]]

(* The words of the ring in the order in which they are replaced next. *)
Ring(array, index) == [j \in 1..Words |-> array[(index + j - 1) % Words]]

(* Mutant: the low bits come from the word before. *)
Joined_before(array, k) ==
    Top * (array[k] \div Top) + (array[(k + Words - 1) % Words] % Top)
Joined(array, k) == Top * (array[k] \div Top) + (array[(k + 1) % Words] % Top)

Next_index(k) == (k + 1) % Words

(* random_uint32 on a generator: its new state and the tempered word. *)
RandomUint32(g) ==
    LET y == Joined(g.array, g.index)
        a == IF y % 2 = 1 THEN Shr(y, 1) ^^ MatA ELSE Shr(y, 1)
        w == g.array[(g.index + Middle) % Words] ^^ a
    IN  [array |-> [g.array EXCEPT ![g.index] = w], index |-> Next_index(g.index),
         out |-> Tempered(w)]

(* The recurrence that MT19937 is defined by, for reference:               *)
(* x[n+N] = x[n+M] xor (top bit of x[n] and low bits of x[n+1]) A.         *)
Recurrence(x) ==
    LET n == Len(x) - Words + 1
        y == Top * (x[n] \div Top) + (x[n + 1] % Top)
    IN  Append(x, x[n + Middle] ^^ (IF y % 2 = 1 THEN Shr(y, 1) ^^ MatA ELSE Shr(y, 1)))

RandInit ==
    /\ \E s \in Seeds : state_array = SeedArray(s)
    /\ state_index = 0
    /\ xs = Ring(state_array, 0)
    /\ buf = [size |-> 0, words |-> 0, bytes |-> <<>>]

(* Update seed.  state_index stays where it is. *)
rand_seed(s) ==
    /\ state_array' = SeedArray(s)
    /\ xs' = Ring(state_array', state_index)
    /\ buf' = [size |-> 0, words |-> 0, bytes |-> <<>>]
    /\ UNCHANGED state_index

Taken(bytes, n) == SubSeq(bytes, 1, n)

RECURSIVE GenBytes(_, _)
(* The loop of gen_bytes: one word for up to four bytes. *)
GenBytes(r, size) ==
    IF size - Len(r.bytes) =< 0 THEN r
    ELSE LET g == RandomUint32(r.g)
             left == size - Len(r.bytes)
         IN  GenBytes([g |-> g, x |-> Recurrence(r.x), words |-> r.words + 1,
                       bytes |-> r.bytes \o Taken(BeBytes(g.out), IF left < 4 THEN left ELSE 4)],
                      size)

gen_bytes(size) ==
    LET r == GenBytes([g |-> [array |-> state_array, index |-> state_index, out |-> 0],
                       x |-> xs, words |-> 0, bytes |-> <<>>], size)
    IN  /\ Len(r.x) =< Words + MaxWords
        /\ state_array' = r.g.array /\ state_index' = r.g.index
        /\ xs' = r.x
        /\ buf' = [size |-> size, words |-> r.words, bytes |-> r.bytes]

(* range_uint32(start..end), for a range that is not empty: % panics for the *)
(* others.  It takes one word, of which nothing is kept here.               *)
range_uint32(start, end) ==
    LET g == RandomUint32([array |-> state_array, index |-> state_index, out |-> 0])
    IN  /\ start < end /\ Len(xs) < Words + MaxWords
        /\ state_array' = g.array /\ state_index' = g.index
        /\ xs' = Recurrence(xs)
        /\ buf' = [size |-> 0, words |-> 0, bytes |-> <<>>]

RandNext ==
    \/ \E s \in Seeds : rand_seed(s)
    \/ \E size \in BufSizes : gen_bytes(size)
    \/ \E start, end \in 0..2 : range_uint32(start, end)
-----------------------------------------------------------------------------
(* RandTypeOK: "0 <= state_index <= n-1 always" (rand.rs:66), and words fit  *)
(* in their width.                                                          *)
RandTypeOK ==
    /\ state_index \in 0..(Words - 1)
    /\ DOMAIN state_array = 0..(Words - 1)
    /\ \A i \in DOMAIN state_array : state_array[i] \in 0..(Mod - 1)

(* RingIsRecurrence: the words of the ring, which random_uint32 replaces in  *)
(* place, are always the last N words of the recurrence begun by the last   *)
(* seed, wherever the index stood and however often it went round.          *)
RingIsRecurrence ==
    Ring(state_array, state_index) = SubSeq(xs, Len(xs) - Words + 1, Len(xs))

(* BytesInOrder: gen_bytes fills the whole buffer with the tempered words in *)
(* order, high bytes first, and takes no word more than it needs.           *)
BytesInOrder ==
    LET last == SubSeq(xs, Len(xs) - buf.words + 1, Len(xs))
        all == FlattenSeq([i \in DOMAIN last |-> BeBytes(Tempered(last[i]))])
    IN  /\ buf.bytes = SubSeq(all, 1, buf.size) /\ Len(buf.bytes) = buf.size
        /\ Len(all) < buf.size + 4

(* GeneratorExact: the ring holds the words of the recurrence at every index *)
(* and the results are these words, tempered, in order.                     *)
GeneratorExact == RandTypeOK /\ RingIsRecurrence /\ BytesInOrder
=============================================================================
