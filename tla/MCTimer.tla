------------------------------ MODULE MCTimer ------------------------------
(* Instances of Timer for TLC.                                             *)
EXTENDS Timer

Frequencies  == {1, 2, 3, 9}
Milliseconds == {0, 1, 3, 7}
=============================================================================
