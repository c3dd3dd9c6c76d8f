----------------------------- MODULE MCConsole -----------------------------
(* Instances of Console, and through it of Terminal, for TLC.              *)
EXTENDS Console

Letters  == {"SP", "a"}
UserKeys == {"a", "SP", "ENTER", "BACKSPACE", "NULL"}
Sizes    == {1, 3, 5}
Echoed   == {"a", "NL", "BS", "TAB"}
=============================================================================
