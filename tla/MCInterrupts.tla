---------------------------- MODULE MCInterrupts ----------------------------
(* Instances of Interrupts for TLC.                                        *)
EXTENDS Interrupts

TimerKeyboardClock == {0, 1, 8}
TimerKeyboard      == {0, 1}
WithCascade        == {0, 1, 2, 8}
ClockClosed        == {8}
NoLines            == {}
\* The firmware has left the timer, the keyboard and the cascade open.
PcFirmware         == AllLines \ {0, 1, 2}
=============================================================================
