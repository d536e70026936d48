------------------------------ MODULE Ciphers ------------------------------
(***************************************************************************)
(* CbcCipher of crypto/crypto_framework over a channel that loses blocks,  *)
(* and crypto/chacha20 as a StreamCipher and as a CryptoRandgen.           *)
(*                                                                         *)
(* CbcCipher is generic in its block cipher: here one on two bits, whose   *)
(* permutation depends on the key.  ChaCha20::update_state is a function   *)
(* of key, nonce and counter: a byte of the key stream is this triple and  *)
(* the position of the byte in its block.                                  *)
(***************************************************************************)
EXTENDS Integers, Sequences, Bitwise

CONSTANTS
    MaxBlocks,    \* bound: blocks that are encrypted
    StreamBlock,  \* bytes of a ChaCha20 block: 64
    CounterMod,   \* the counter has that many values: 2^32
    Pieces,       \* lengths of the buffers passed to encrypt
    MaxStream     \* bound: bytes of the key stream that are used

ASSUME CiphersAssumption == StreamBlock \in Nat \ {0} /\ CounterMod \in Nat \ {0}

VARIABLES
    enc, dec,     \* two CbcCiphers: [key, prev_block]
    sent,         \* history: the plain blocks and their cipher blocks, in order
    got,          \* history: the last block that dec decrypted, and the one before
    chacha,       \* a ChaCha20
    used,         \* history: the bytes of the key stream used so far
    began         \* history: key and nonce when each block of it was begun

cbcVars == <<enc, dec, sent, got>>
streamVars == <<chacha, used, began>>
cipherVars == <<cbcVars, streamVars>>

Keys == {0, 1}

(* Two-bit blocks, and the permutations of the cipher B. *)
Blocks == 0..3
BlockEncrypt(k, b) == IF k = 0 THEN (b + 1) % 4 ELSE <<2, 1, 3, 0>>[b + 1]
BlockDecrypt(k, b) == CHOOSE p \in Blocks : BlockEncrypt(k, p) = b

CbcCipher_default == [key |-> 0, prev_block |-> 0]

(* The two ends agree on a key and on the initial vector before the first block. *)
set_key_iv(k, iv) ==
    /\ sent = <<>>
    /\ enc' = [key |-> k, prev_block |-> iv]
    /\ dec' = [key |-> k, prev_block |-> iv]
    /\ UNCHANGED <<sent, got>>

block_encrypt(plain) ==
    LET out == BlockEncrypt(enc.key, plain ^^ enc.prev_block)
    IN  /\ Len(sent) < MaxBlocks
        /\ enc' = [enc EXCEPT !.prev_block = out]
        /\ sent' = Append(sent, [plain |-> plain, cipher |-> out])
        /\ UNCHANGED <<dec, got>>

(* Mutant: chained with the plain block. *)
Chained_plain(block, plain) == plain
Chained(block, plain) == block

(* The channel hands over any later block: those between are lost. *)
block_decrypt(i) ==
    LET block == sent[i].cipher
        plain == BlockDecrypt(dec.key, block) ^^ dec.prev_block
    IN  /\ i > got.at
        /\ dec' = [dec EXCEPT !.prev_block = Chained(block, plain)]
        /\ got' = [at |-> i, after |-> got.at, plain |-> plain]
        /\ UNCHANGED <<enc, sent>>
-----------------------------------------------------------------------------
ChaCha20_default ==
    [key |-> 0, nonce |-> 0, counter |-> 0, state |-> <<0, 0, 0>>, state_ptr |-> 0, panicked |-> FALSE]

KeyStream(c) == <<c.key, c.nonce, c.counter>>

(* counter += 1 panics in the debug build, and wraps in the release build. *)
NextBlock(c, build) ==
    [c EXCEPT !.state = KeyStream(c), !.counter = (c.counter + 1) % CounterMod,
              !.panicked = build = "debug" /\ c.counter + 1 = CounterMod]

(* Mutant: every call begins a block. *)
NeedsBlock_call(c, first) == first \/ c.state_ptr = 0
NeedsBlock(c, first) == c.state_ptr = 0

RECURSIVE Encrypt(_, _, _, _)
(* The loop of encrypt: the cipher, the key stream bytes used for len bytes *)
(* and the blocks begun.                                                   *)
Encrypt(r, len, first, build) ==
    IF len = 0 \/ r.c.panicked THEN r
    ELSE LET fresh == NeedsBlock(r.c, first)
             c == IF fresh THEN NextBlock(r.c, build) ELSE r.c
             room == StreamBlock - c.state_ptr
             xor_bytes == IF c.panicked THEN 0 ELSE IF len < room THEN len ELSE room
         IN  Encrypt([c |-> [c EXCEPT !.state_ptr = (c.state_ptr + xor_bytes) % StreamBlock],
                      used |-> r.used \o [i \in 1..xor_bytes |->
                                            Append(c.state, c.state_ptr + i - 1)],
                      began |-> IF fresh THEN Append(r.began, <<r.c.key, r.c.nonce>>)
                                ELSE r.began],
                     len - xor_bytes, FALSE, build)

(* set_key and set_nonce leave counter, state and state_ptr alone. *)
stream_set_key(k) ==
    /\ chacha' = [chacha EXCEPT !.key = k] /\ UNCHANGED <<used, began>>
stream_set_nonce(n) ==
    /\ chacha' = [chacha EXCEPT !.nonce = n] /\ UNCHANGED <<used, began>>
reseed(k, n) ==
    /\ chacha' = [chacha EXCEPT !.key = k, !.nonce = n] /\ UNCHANGED <<used, began>>

(* encrypt, decrypt and gen_bytes are the same call. *)
stream_encrypt(len, build) ==
    LET r == Encrypt([c |-> chacha, used |-> used, began |-> began], len, TRUE, build)
    IN  /\ Len(used) + len =< MaxStream
        /\ chacha' = r.c /\ used' = r.used /\ began' = r.began

CipherInit ==
    /\ enc = CbcCipher_default /\ dec = CbcCipher_default /\ sent = <<>>
    /\ got = [at |-> 0, after |-> 0, plain |-> 0]
    /\ chacha = ChaCha20_default /\ used = <<>> /\ began = <<>>

CbcNext ==
    /\ \/ \E k \in Keys, iv \in Blocks : set_key_iv(k, iv)
       \/ \E plain \in Blocks : block_encrypt(plain)
       \/ \E i \in DOMAIN sent : block_decrypt(i)
    /\ UNCHANGED streamVars

StreamNext ==
    /\ ~chacha.panicked
    /\ \/ \E k \in Keys : stream_set_key(k)
       \/ \E n \in Keys : stream_set_nonce(n)
       \/ \E k, n \in Keys : reseed(k, n)
       \/ \E len \in Pieces, build \in {"debug", "release"} : stream_encrypt(len, build)
    /\ UNCHANGED cbcVars
-----------------------------------------------------------------------------
(* SelfSynchronising: a block whose predecessor was decrypted just before    *)
(* comes out as it went in, whatever was lost earlier: block_encrypt and    *)
(* block_decrypt both chain with the cipher block.                          *)
SelfSynchronising ==
    got.at > 0 /\ got.after = got.at - 1 => got.plain = sent[got.at].plain

(* KeyStreamInOrder: the i-th byte of a stream is xored with the i-th byte   *)
(* of the key stream, however the stream is cut into calls; each block of   *)
(* it has the key and the nonce in force when its first byte was used, and  *)
(* a new key does not change the rest of a block that was begun.            *)
KeyStreamInOrder ==
    \A i \in 1..Len(used) :
       LET b == (i - 1) \div StreamBlock
       IN  used[i] = began[b + 1] \o <<b % CounterMod, (i - 1) % StreamBlock>>

(* NoKeyStreamTwice: no byte of the key stream is used twice, also across    *)
(* set_key, set_nonce and reseed, until the counter wraps.                  *)
NoKeyStreamTwice ==
    Len(used) =< CounterMod * StreamBlock =>
        \A i, j \in 1..Len(used) : i # j => used[i] # used[j]

(* StreamExact: bytes are xored with the key stream in order, and with no    *)
(* byte of it twice, whatever calls the stream is cut into.                 *)
StreamExact == KeyStreamInOrder /\ NoKeyStreamTwice
=============================================================================
