---------------------------- MODULE ProcessTable ----------------------------
(***************************************************************************)
(* What process.c promises to the rest of the kernel, without lists,       *)
(* pointers or interrupts: a set of live processes, one of which holds the *)
(* CPU.  Process identifiers are never given twice, the CPU is only handed *)
(* to a live process, a process leaves the table only when it does not     *)
(* hold the CPU, and the CPU is given up altogether only by the last one.  *)
(***************************************************************************)
EXTENDS Integers

CONSTANTS
    Pid,   \* process identifiers
    NULL   \* the null process pointer, not a Pid

VARIABLES
    born,  \* every process ever entered in the table
    live,  \* the processes in the table now
    cur    \* the process that holds the CPU, or NULL

vars == <<born, live, cur>>

Init ==
    \E k \in Pid : born = {k} /\ live = {k} /\ cur = k

Create(p) ==
    /\ p \notin born
    /\ born' = born \cup {p}
    /\ live' = live \cup {p}
    /\ UNCHANGED cur

Dispatch(p) ==
    /\ p \in live
    /\ cur' = p
    /\ UNCHANGED <<born, live>>

Release ==
    /\ live = {cur}
    /\ cur' = NULL
    /\ UNCHANGED <<born, live>>

Exit(p) ==
    /\ p \in live
    /\ p # cur
    /\ live' = live \ {p}
    /\ UNCHANGED <<born, cur>>

Next ==
    \/ \E p \in Pid : Create(p) \/ Dispatch(p) \/ Exit(p)
    \/ Release

Spec == Init /\ [][Next]_vars
=============================================================================
