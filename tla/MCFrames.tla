------------------------------ MODULE MCFrames ------------------------------
(* Frames, as it is, for TLC.                                              *)
EXTENDS Frames
=============================================================================
