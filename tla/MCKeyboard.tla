----------------------------- MODULE MCKeyboard -----------------------------
(* Instances of Keyboard for TLC.                                          *)
EXTENDS Keyboard

SomeKeys    == {"LSHIFT", "a"}
SomeModes   == {"RAW", "ECHO"}  \* ASCII is the initial mode
OtherLayout == {"TR"}            \* US is the initial layout
=============================================================================
