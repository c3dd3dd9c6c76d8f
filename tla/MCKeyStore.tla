----------------------------- MODULE MCKeyStore -----------------------------
(* Instances of KeyStore for TLC.                                          *)
EXTENDS KeyStore, Bitwise

\* Below and above the lengths an XOR key may have.
SomeRequests == {0, 4}

BitXor(a, b) == a ^^ b
=============================================================================
