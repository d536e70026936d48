------------------------------- MODULE Crypto -------------------------------
(* The objects of the crypto crates and of rand.rs are independent: a        *)
(* behaviour uses one of them, the subject.                                  *)
EXTENDS Hashing, Ciphers, Random, Aes

VARIABLE subject

Subjects == {"Hmac", "CbcCipher", "ChaCha20", "MT19937", "Aes"}

Init == subject \in Subjects /\ HashInit /\ CipherInit /\ RandInit /\ AesInit

Next ==
    /\ UNCHANGED subject
    /\ \/ subject = "Hmac" /\ HashNext /\ UNCHANGED <<cipherVars, randVars, aesVars>>
       \/ subject = "CbcCipher" /\ CbcNext /\ UNCHANGED <<hashVars, randVars, aesVars>>
       \/ subject = "ChaCha20" /\ StreamNext /\ UNCHANGED <<hashVars, randVars, aesVars>>
       \/ subject = "MT19937" /\ RandNext /\ UNCHANGED <<hashVars, cipherVars, aesVars>>
       \/ subject = "Aes" /\ AesNext /\ UNCHANGED <<hashVars, cipherVars, randVars>>

Spec == Init /\ [][Next]_<<subject, hashVars, cipherVars, randVars, aesVars>>
=============================================================================
