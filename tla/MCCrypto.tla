------------------------------ MODULE MCCrypto ------------------------------
(* The AES vectors of the repository's tests, and small parameters. *)
EXTENDS Crypto

Bytes16(s) == [i \in Idx |-> s[i + 1]]
Key128 == <<\h2b, \h7e, \h15, \h16, \h28, \hae, \hd2, \ha6, \hab, \hf7, \h15, \h88, \h09, \hcf, \h4f, \h3c>>
Key256 == <<\h60, \h3d, \heb, \h10, \h15, \hca, \h71, \hbe, \h2b, \h73, \hae, \hf0, \h85, \h7d, \h77, \h81,
            \h1f, \h35, \h2c, \h07, \h3b, \h61, \h08, \hd7, \h2d, \h98, \h10, \ha3, \h09, \h14, \hdf, \hf4>>
Plain == Bytes16(<<\h6b, \hc1, \hbe, \he2, \h2e, \h40, \h9f, \h96, \he9, \h3d, \h7e, \h11, \h73, \h93, \h17, \h2a>>)
Out128 == Bytes16(<<\h3a, \hd7, \h7b, \hb4, \h0d, \h7a, \h36, \h60, \ha8, \h9e, \hca, \hf3, \h24, \h66, \hef, \h97>>)
Out256 == Bytes16(<<\hf3, \hee, \hd1, \hbd, \hb5, \hd2, \ha0, \h3c, \h06, \h4b, \h5a, \h7e, \h3d, \hb1, \h81, \hf8>>)
MCVectors == {[cipher |-> "Aes128", key |-> Key128, plain |-> Plain, out |-> Out128],
              [cipher |-> "Aes256", key |-> Key256, plain |-> Plain, out |-> Out256]}
MCAesKeys == [c \in {"Aes128", "Aes256"} |->
                IF c = "Aes128" THEN {Key128, [i \in 1..16 |-> 0]} ELSE {Key256, [i \in 1..32 |-> 7 * i]}]
MCAesBlocks == {Plain, [i \in Idx |-> 0], [i \in Idx |-> 16 * i + i]}
=============================================================================
