----------------------------- MODULE MCProcess -----------------------------
(* Instances of Process for TLC.                                           *)
EXTENDS Process

AllPids  == 0 .. MaxPid
=============================================================================
