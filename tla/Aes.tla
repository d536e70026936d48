-------------------------------- MODULE Aes --------------------------------
(***************************************************************************)
(* crypto/aes: the key expansion, the encryption and the decryption of     *)
(* Aes128 and Aes256.  One round of a loop is one step, so that the rounds *)
(* of a decryption can be compared with those of the encryption it undoes. *)
(* The tables of the code are in AesTables.                                *)
(***************************************************************************)
EXTENDS Integers, Sequences, SequencesExt, Bitwise, AesTables

CONSTANTS
    AesKeys,     \* per cipher, the keys, each a sequence of bytes
    AesBlocks,   \* the blocks, each a function on 0..15
    Vectors      \* published results: [cipher, key, plain, out]

VARIABLES
    cipher,       \* "Aes128" or "Aes256"
    round_keys,   \* the round keys so far
    block,        \* the block that is worked on
    op, round,    \* the method that runs, and its next round
    second,       \* history: whether op undoes what was done before
    before        \* history: the block before each round of the first operation

aesVars == <<cipher, round_keys, block, op, round, second, before>>

Idx == 0..15
Rounds(c) == IF c = "Aes128" THEN 10 ELSE 14
KeyBlocks(c) == IF c = "Aes128" THEN 1 ELSE 2

(* Exclusive or, which associates. *)
a ++ b == a ^^ b

add_round_key(b, k) == [i \in Idx |-> b[i] ++ k[i]]
sub_bytes(b) == [i \in Idx |-> SBOX(b[i])]
sub_bytes_inv(b) == [i \in Idx |-> SBOX_INV(b[i])]

(* Row i % 4 is rotated by i % 4 columns. *)
shift_rows(b) == [i \in Idx |-> b[4 * (((i \div 4) + (i % 4)) % 4) + (i % 4)]]
shift_rows_inv(b) == [i \in Idx |-> b[4 * (((i \div 4) + 4 - (i % 4)) % 4) + (i % 4)]]

(* The byte n rows below byte i, in the same column. *)
Below(b, i, n) == b[4 * (i \div 4) + ((i + n) % 4)]
mix_columns(b) ==
    [i \in Idx |-> MUL_2(b[i]) ++ MUL_3(Below(b, i, 1)) ++ Below(b, i, 2) ++ Below(b, i, 3)]
mix_columns_inv(b) ==
    [i \in Idx |-> MUL_14(b[i]) ++ MUL_11(Below(b, i, 1)) ++ MUL_13(Below(b, i, 2))
                   ++ MUL_9(Below(b, i, 3))]

Key(r) == round_keys[r + 1]

RoundConstant(c, r) == RC(IF c = "Aes128" THEN r - 1 ELSE (r - 1) \div 2)

(* Round key r, from the one Nk words back and the last word before it. *)
NextKey(c, r) ==
    LET previous_key == Key(r - KeyBlocks(c))
        w_1 == Key(r - 1)
        rotate == c = "Aes128" \/ r % 2 = 0
        head(row) == IF rotate
                     THEN SBOX(w_1[12 + ((row + 1) % 4)])
                          ++ (IF row = 0 THEN RoundConstant(c, r) ELSE 0)
                     ELSE SBOX(w_1[12 + row])
        k[i \in Idx] == previous_key[i] ++ (IF i < 4 THEN head(i) ELSE k[i - 4])
    IN  k
-----------------------------------------------------------------------------
AesInit ==
    /\ cipher = "Aes128" /\ round_keys = <<>> /\ block = [i \in Idx |-> 0]
    /\ op = "new" /\ round = 0 /\ second = FALSE /\ before = <<>>

set_key(c, key) ==
    /\ op = "new"
    /\ cipher' = c
    /\ round_keys' = [k \in 1..KeyBlocks(c) |-> [i \in Idx |-> key[16 * (k - 1) + i + 1]]]
    /\ op' = "set_key" /\ round' = KeyBlocks(c)
    /\ UNCHANGED <<block, second, before>>

set_key_round ==
    /\ op = "set_key" /\ round =< Rounds(cipher)
    /\ round_keys' = Append(round_keys, NextKey(cipher, round))
    /\ round' = round + 1
    /\ UNCHANGED <<cipher, block, op, second, before>>

Done == CASE op = "set_key" -> round > Rounds(cipher)
          [] op = "block_encrypt" -> round > Rounds(cipher)
          [] op = "block_decrypt" -> round < 0
          [] OTHER -> FALSE

(* The caller encrypts and decrypts the result, or the other way round. *)
Begin(o, b, again) ==
    /\ op' = o /\ block' = b /\ second' = again
    /\ round' = IF o = "block_encrypt" THEN 0 ELSE Rounds(cipher)
    /\ before' = IF again THEN before ELSE [r \in 0..Rounds(cipher) |-> b]
    /\ UNCHANGED <<cipher, round_keys>>

call_first(o, b) == op = "set_key" /\ Done /\ Begin(o, b, FALSE)
call_second ==
    /\ op \in {"block_encrypt", "block_decrypt"} /\ Done /\ ~second
    /\ Begin(IF op = "block_encrypt" THEN "block_decrypt" ELSE "block_encrypt", block, TRUE)

Step(new, next) ==
    /\ block' = new /\ round' = next
    /\ before' = IF second THEN before ELSE [before EXCEPT ![round] = block]
    /\ UNCHANGED <<cipher, round_keys, op, second>>

encrypt_round ==
    LET shifted == shift_rows(sub_bytes(block))
    IN  /\ op = "block_encrypt" /\ ~Done
        /\ Step(CASE round = 0 -> add_round_key(block, Key(0))
                  [] round = Rounds(cipher) -> add_round_key(shifted, Key(round))
                  [] OTHER -> add_round_key(mix_columns(shifted), Key(round)), round + 1)

(* The key first, then back through the round. *)
decrypt_round ==
    LET unkeyed == add_round_key(block, Key(round))
    IN  /\ op = "block_decrypt" /\ ~Done
        /\ Step(CASE round = 0 -> unkeyed
                  [] round = Rounds(cipher) -> sub_bytes_inv(shift_rows_inv(unkeyed))
                  [] OTHER -> sub_bytes_inv(shift_rows_inv(mix_columns_inv(unkeyed))), round - 1)

AesNext ==
    \/ \E c \in DOMAIN AesKeys : \E k \in AesKeys[c] : set_key(c, k)
    \/ set_key_round
    \/ \E o \in {"block_encrypt", "block_decrypt"}, b \in AesBlocks : call_first(o, b)
    \/ call_second
    \/ encrypt_round \/ decrypt_round
-----------------------------------------------------------------------------
(* RoundsUndone: decrypting what was encrypted, and encrypting what was      *)
(* decrypted, goes back through the same blocks, round by round, to the     *)
(* block at the start (block_decrypt has no test).                          *)
RoundsUndone ==
    second => IF op = "block_decrypt"
              THEN round < Rounds(cipher) => block = before[round + 1]
              ELSE round > 0 => block = before[round - 1]

(* KnownAnswers: the results that test_aes128 and test_aes256 expect. *)
KnownAnswers ==
    \A v \in Vectors :
       /\ op = "block_encrypt" /\ Done /\ ~second
       /\ cipher = v.cipher /\ before[0] = v.plain
       /\ \A i \in Idx : Key(0)[i] = v.key[i + 1]
       => block = v.out

(* The field GF(2^8) of FIPS 197, for reference: the product, the powers of  *)
(* its generator 3, and the S-box as an affine map of the inverse.          *)
Double(a) == IF a < 128 THEN 2 * a ELSE (2 * a - 256) ++ 27
Product(a, n) ==
    LET p[k \in 0..8] ==
            IF k = 8 THEN 0 ELSE Double(p[k + 1]) ++ (IF (n \div 2^k) % 2 = 1 THEN a ELSE 0)
    IN  p[0]
Power[i \in 0..255] == IF i = 0 THEN 1 ELSE Product(Power[i - 1], 3)
Rotated(a, n) == ((a * 2^n) % 256) + ((a * 2^n) \div 256)
Affine(a) == a ++ Rotated(a, 1) ++ Rotated(a, 2) ++ Rotated(a, 3) ++ Rotated(a, 4) ++ 99

(* TablesRight: every entry of the tables of aes/src/lib.rs is the value of   *)
(* the field operation it stands for, and SBOX_INV undoes SBOX; RC is only   *)
(* read at its first ten entries but holds five more.                       *)
TablesRight ==
    /\ \A a \in 0..255 :
         /\ MUL_2(a) = Product(a, 2) /\ MUL_3(a) = Product(a, 3) /\ MUL_9(a) = Product(a, 9)
         /\ MUL_11(a) = Product(a, 11) /\ MUL_13(a) = Product(a, 13) /\ MUL_14(a) = Product(a, 14)
         /\ SBOX_INV(SBOX(a)) = a
    /\ {Power[i] : i \in 0..254} = 1..255
    /\ SBOX(0) = Affine(0) /\ \A i \in 0..254 : SBOX(Power[i]) = Affine(Power[255 - i])
    /\ \A i \in 1..14 : RC(0) = 1 /\ RC(i) = Product(RC(i - 1), 2)

(* AesExact: the tables are right, block_encrypt gives the known results,    *)
(* and block_decrypt and block_encrypt undo each other round by round.      *)
AesExact == RoundsUndone /\ KnownAnswers /\ TablesRight
=============================================================================
