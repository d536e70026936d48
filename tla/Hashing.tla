------------------------------ MODULE Hashing ------------------------------
(***************************************************************************)
(* crypto/sha2 (Sha256) and Hmac of crypto/crypto_framework: how a message *)
(* that comes in pieces is cut into chunks, padded and hashed.             *)
(*                                                                         *)
(* The control of both depends on lengths only.  A byte is therefore a tag *)
(* and a position ("ipad" and "opad": the byte of the key xored with 0x36  *)
(* and 0x5c), and the compression of a chunk (update_w_table, update_h)    *)
(* records the chunk: h is the sequence of the chunks compressed so far,   *)
(* and two digests are equal exactly if these are.                         *)
(***************************************************************************)
EXTENDS Integers, Sequences

CONSTANTS
    Block,        \* bytes of a chunk: 64
    LenBytes,     \* bytes of the length at the end of the padding: 8
    DIGEST_LEN,   \* bytes of a digest: 32
    MaxKey,       \* bound: the length of a key
    MaxMessage,   \* bound: the length of a message
    MaxDigests    \* bound: how often digest is called

ASSUME HashingAssumption ==
    /\ Block \in Nat /\ LenBytes \in Nat /\ DIGEST_LEN \in Nat \ {0}
    /\ LenBytes + 1 < Block
    /\ MaxKey \in Nat /\ MaxMessage \in Nat /\ MaxDigests \in Nat

VARIABLES
    ihasher, ohasher,   \* the two hashers of Hmac; ihasher alone is a plain Sha256
    key, message,       \* history: the bytes passed to set_key and update
    cut,                \* history: a call has ended a chunk that another had begun
    sums                \* history: the results of digest

hashVars == <<ihasher, ohasher, key, message, cut, sums>>

Bytes(tag, n) == [i \in 1..n |-> <<tag, i>>]
Zeros(n) == [i \in 1..n |-> <<"zero">>]
One == <<"0x80">>
Length(bits) == [i \in 1..LenBytes |-> <<"length", bits, i>>]
Sum(h) == [i \in 1..DIGEST_LEN |-> <<"sum", h, i>>]

Sha256_default == [message_len |-> 0, bytes_remain |-> <<>>, h |-> <<>>]

(* The whole chunks at the front of m, and what is left after them. *)
Whole(m) == [c \in 1..(Len(m) \div Block) |-> SubSeq(m, (c - 1) * Block + 1, c * Block)]
Tail_of(m) == SubSeq(m, Block * (Len(m) \div Block) + 1, Len(m))

(* After a chunk is completed the message is cut to the bytes that went     *)
(* into it, not to the bytes after them.                                   *)
Rest(m, remain) == SubSeq(m, 1, Block - remain)

Completes(remain, n) == remain + n >= Block

update(s, m) ==
    LET remain == Len(s.bytes_remain)
        len == s.message_len + 8 * Len(m)
        fill == s.bytes_remain \o SubSeq(m, 1, Block - remain)
    IN  IF remain > 0 /\ ~Completes(remain, Len(m))
        THEN [s EXCEPT !.message_len = len, !.bytes_remain = s.bytes_remain \o m]
        ELSE LET refill == remain > 0
                 rest == IF refill THEN Rest(m, remain) ELSE m
             IN  [message_len |-> len, bytes_remain |-> Tail_of(rest),
                  h |-> s.h \o (IF refill THEN <<fill>> ELSE <<>>) \o Whole(rest)]

(* Mutant: the byte 0x80 is forgotten. *)
Overflows_length(remain) == remain > Block - LenBytes
Overflows(remain) == remain > Block - (LenBytes + 1)

digest(s) ==
    LET remain == Len(s.bytes_remain)
        room == Block - LenBytes
    IN  IF Overflows(remain)
        THEN [s EXCEPT !.h = s.h \o
                <<s.bytes_remain \o <<One>> \o Zeros(Block - remain - 1),
                  Zeros(room) \o Length(s.message_len)>>]
        ELSE [s EXCEPT !.h = s.h \o
                <<s.bytes_remain \o <<One>> \o Zeros(room - remain - 1) \o Length(s.message_len)>>]

HashInit ==
    /\ ihasher = Sha256_default /\ ohasher = Sha256_default
    /\ key = <<>> /\ message = <<>> /\ cut = FALSE /\ sums = <<>>

(* A call that adds n bytes to a bytes ends a chunk that an earlier one has *)
(* begun.                                                                  *)
CutsChunk(a, n) == a % Block # 0 /\ (a % Block) + n >= Block

(* Byte by byte into both hashers.  The caller sets the key first, and once. *)
Absorb(s, m) ==
    LET fed[i \in 0..Len(m)] == IF i = 0 THEN s ELSE update(fed[i - 1], <<m[i]>>)
    IN  fed[Len(m)]

hmac_set_key(n) ==
    /\ key = <<>> /\ message = <<>> /\ sums = <<>>
    /\ key' = Bytes("key", n)
    /\ ihasher' = Absorb(ihasher, Bytes("ipad", n))
    /\ ohasher' = Absorb(ohasher, Bytes("opad", n))
    /\ cut' = (n >= Block)
    /\ UNCHANGED <<message, sums>>

hmac_update(n) ==
    LET piece == SubSeq(Bytes("byte", Len(message) + n), Len(message) + 1, Len(message) + n)
    IN  /\ Len(message) + n =< MaxMessage
        /\ ihasher' = update(ihasher, piece)
        /\ message' = message \o piece
        /\ cut' = (cut \/ CutsChunk(Len(key) + Len(message), n))
        /\ UNCHANGED <<ohasher, key, sums>>

(* The same buffer holds the inner sum and then the outer one. *)
hmac_digest ==
    /\ Len(sums) < MaxDigests
    /\ ihasher' = digest(ihasher)
    /\ ohasher' = digest(update(ohasher, Sum(ihasher'.h)))
    /\ sums' = Append(sums, [of |-> message, cut |-> cut, inner |-> ihasher'.h,
                             outer |-> ohasher'.h])
    /\ UNCHANGED <<key, message, cut>>

HashNext ==
    \/ \E n \in 1..MaxKey : hmac_set_key(n)
    \/ \E n \in 0..MaxMessage : hmac_update(n)
    \/ hmac_digest

HashSpec == HashInit /\ [][HashNext]_hashVars
-----------------------------------------------------------------------------
(* The padding of FIPS 180-4, for reference.                               *)
Padded(m) ==
    m \o <<One>> \o Zeros((2 * Block - Len(m) - 1 - LenBytes) % Block) \o Length(8 * Len(m))
Hashed(m) == Whole(Padded(m))

(* ChunksInside: a piece of a message never leaves a whole chunk behind in  *)
(* bytes_remain, where the next update would index beyond its 64 bytes, and *)
(* every compressed chunk is full (the slices of update and digest).       *)
ChunksInside ==
    \A s \in {ihasher, ohasher} :
       /\ Len(s.bytes_remain) < Block
       /\ \A c \in DOMAIN s.h : Len(s.h[c]) = Block

Ipad == Bytes("ipad", Len(key))
Opad == Bytes("opad", Len(key))

(* DigestRight: the digest of a message that comes in pieces is that of the *)
(* padded message exactly if no call of update ended a chunk that an        *)
(* earlier one had begun, whatever else the cuts are; every other message   *)
(* gets a wrong digest.                                                    *)
DigestRight ==
    Len(sums) = 1 => (sums[1].inner = Hashed(Ipad \o sums[1].of) <=> ~sums[1].cut)

(* HmacNested: Hmac::digest is the hash of the key and of the inner sum     *)
(* exactly if neither the bytes of the key nor the sum after them end a     *)
(* chunk that was begun: never for SHA-256 with a key of the length that    *)
(* set_key asks for.  Either way it is not the function of RFC 2104, which  *)
(* fills the key up to a chunk first (README, section 6).                  *)
HmacNested ==
    Len(sums) = 1 =>
      (sums[1].outer = Hashed(Opad \o Sum(sums[1].inner))
         <=> Len(key) < Block /\ ~CutsChunk(Len(key), DIGEST_LEN))

(* HashesWhole: compressed chunks are full, and the digests of Sha256 and   *)
(* Hmac cover key and message in order for exactly these ways to pass them. *)
HashesWhole == ChunksInside /\ DigestRight /\ HmacNested

-----------------------------------------------------------------------------
(* HashOfMessage: test_sha256 of sha2 takes the digest for that of what was *)
(* passed to update.  It is not when the message came in pieces.           *)
HashOfMessage ==
    Len(sums) = 1 /\ key = <<>> => sums[1].inner = Hashed(sums[1].of)
=============================================================================
