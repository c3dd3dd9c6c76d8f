--------------------------- MODULE ShellProofs ----------------------------
(***************************************************************************)
(* Proofs about the process table, for any number of processes, any time   *)
(* slice and any width of tick_count, with every process killable and      *)
(* with the thread switching processes itself, and about the shell that    *)
(* the thread becomes, for any directories, words and size of argv.        *)
(***************************************************************************)
EXTENDS Shell, TLAPS, WellFoundedInduction, FiniteSetTheorems

(* Identifiers are given out in order: the used ones lie below next_pid.   *)
PidsInOrder ==
    /\ \A p \in Pid : state[p] = "UNUSED" <=> p >= next_pid

(* What the thread relies on at each of its program points.                *)
ThreadInv ==
    /\ pc = "c_publish" => /\ arg = next_pid - 1
                           /\ arg >= 1
                           /\ state[arg] = "READY"
                           /\ next[arg] = process_list
    /\ pc \in Unlinking \cup Unlinked => arg \in Pid /\ state[arg] # "UNUSED"
    /\ pc = "t_walk" => /\ temp \in Listed \cup {NULL}
                        /\ arg \in Alive => temp > arg
    /\ pc = "t_finish" => current_process # arg
    /\ pc \in Switching => arg \in Alive
    /\ pc \in {"s_current", "s_running"} => current_process # NULL

(* What the handler relies on.                                             *)
HandlerInv ==
    /\ irq = "scan" => /\ process_list # NULL
                       /\ current_process # NULL
                       /\ cand \in Listed \cup {current_process}
    /\ irq = "fault" => current_process = NULL

IInv ==
    /\ TypeOK
    /\ PidsInOrder
    /\ ListExact
    /\ ThreadInv
    /\ HandlerInv
    /\ NoDangling
    /\ FaultNeedsKernelExit

-----------------------------------------------------------------------------
(* process_init establishes the invariant.                                 *)
LEMMA InitIInv == Init => IInv
BY ProcessAssumption
   DEF Init, IInv, TypeOK, PidsInOrder, ListExact, ThreadInv, HandlerInv,
       NoDangling, FaultNeedsKernelExit, IsPredecessor, Listed, Alive, Pid,
       NULL, States, Created, ThreadPC, Unlinking, Unlinked, Switching

(* The steps of process_create keep the invariant.                         *)
LEMMA CreateIInv ==
    ASSUME IInv, CreateFill \/ CreatePublish
    PROVE  IInv'
<1> USE ProcessAssumption
    DEF IInv, TypeOK, PidsInOrder, ListExact, ThreadInv, HandlerInv,
        NoDangling, FaultNeedsKernelExit, IsPredecessor, Pid, NULL, States,
        Created, ThreadPC, Unlinking, Unlinked, Switching, irqVars, At
<1>1. CASE CreateFill
  <2>1. /\ next_pid \in Pid /\ state[next_pid] = "UNUSED"
        /\ state' = [state EXCEPT ![next_pid] = "READY"]
        /\ pc' = "c_publish" /\ arg' = next_pid
    BY <1>1 DEF CreateFill
  <2>2. Alive' = Alive /\ Listed' = Listed /\ Listed = Alive /\ next_pid \notin Alive
    BY <1>1, <2>1 DEF CreateFill, Alive, Listed
  <2>3. TypeOK' /\ PidsInOrder'
    BY <1>1, <2>1 DEF CreateFill
  <2>4. ListExact'
    BY <1>1, <2>1, <2>2 DEF CreateFill
  <2>5. ThreadInv' /\ HandlerInv' /\ NoDangling' /\ FaultNeedsKernelExit'
    BY <1>1, <2>1, <2>2 DEF CreateFill
  <2> QED BY <2>3, <2>4, <2>5
<1>2. CASE CreatePublish
  <2>1. /\ pc = "c_publish" /\ arg \in Pid /\ state[arg] = "READY"
        /\ \A b \in Alive : b < arg
    BY <1>2 DEF CreatePublish, Alive
  <2>2. Alive' = Alive \cup {arg} /\ Listed' = Listed \cup {arg} /\ Listed = Alive
    BY <1>2, <2>1 DEF CreatePublish, Alive, Listed
  <2>3. TypeOK' /\ PidsInOrder'
    BY <1>2 DEF CreatePublish
  <2>4. ListExact'
    BY <1>2, <2>1, <2>2 DEF CreatePublish
  <2>5. ThreadInv' /\ HandlerInv' /\ NoDangling' /\ FaultNeedsKernelExit'
    BY <1>2, <2>1, <2>2 DEF CreatePublish
  <2> QED BY <2>3, <2>4, <2>5
<1> QED BY <1>1, <1>2

(* The steps of process_terminate and syscall_exit keep the invariant.     *)
LEMMA TerminateIInv ==
    ASSUME IInv,
           \/ SyscallExit \/ \E p \in Killable : Terminate(p)
           \/ TerminateBegin \/ TerminateWalk \/ TerminateCheck
           \/ TerminateAssign \/ TerminateFinish
    PROVE  IInv'
<1> USE ProcessAssumption
    DEF IInv, TypeOK, PidsInOrder, ListExact, ThreadInv, HandlerInv,
        NoDangling, FaultNeedsKernelExit, IsPredecessor, Pid, NULL, States,
        Created, ThreadPC, Unlinking, Unlinked, Switching, irqVars, tableVars, At
<1>1. CASE SyscallExit
  BY <1>1 DEF SyscallExit, Alive, Listed
<1>2. ASSUME NEW p \in Killable, Terminate(p)
      PROVE  IInv'
  BY <1>2 DEF Terminate, Alive, Listed
<1>3. CASE TerminateBegin
  <2>1. CASE arg = process_list
    <3>1. Alive' = Alive /\ Listed' = Listed \ {arg} /\ Listed = Alive
      BY <1>3, <2>1 DEF TerminateBegin, Alive, Listed
    <3>2. arg \in Listed /\ next[arg] # arg
      BY <1>3, <2>1 DEF TerminateBegin
    <3>3. ListExact'
      BY <1>3, <2>1, <3>1, <3>2 DEF TerminateBegin
    <3>4. TypeOK' /\ PidsInOrder' /\ ThreadInv' /\ NoDangling'
      BY <1>3, <2>1, <3>1, <3>2 DEF TerminateBegin
    <3>5. HandlerInv' /\ FaultNeedsKernelExit'
      BY <1>3, <2>1, <3>1, <3>2 DEF TerminateBegin
    <3> QED BY <3>3, <3>4, <3>5
  <2>2. CASE arg # process_list
    <3>1. Alive' = Alive /\ Listed' = Listed /\ Listed = Alive
      BY <1>3, <2>2 DEF TerminateBegin, Alive, Listed
    <3> QED BY <1>3, <2>2, <3>1 DEF TerminateBegin
  <2> QED BY <2>1, <2>2
<1>4. CASE TerminateWalk
  <2>0. Listed = Alive /\ Alive' = Alive
    BY <1>4 DEF TerminateWalk, Alive, Listed
  <2>1. CASE temp # NULL /\ next[temp] # arg
    <3>1. Listed' = Listed
      BY <1>4, <2>1 DEF TerminateWalk, Alive, Listed
    <3> QED BY <1>4, <2>0, <2>1, <3>1 DEF TerminateWalk
  <2>2. CASE temp # NULL /\ next[temp] = arg
    <3>1. Listed' = Listed \ {arg}
      BY <1>4, <2>2 DEF TerminateWalk, Alive, Listed
    <3>2. temp \in Listed /\ arg \in Listed /\ arg < temp /\ arg # process_list
      BY <1>4, <2>0, <2>2 DEF TerminateWalk
    <3>3. next' = [next EXCEPT ![temp] = next[arg]]
      BY <1>4, <2>2 DEF TerminateWalk
    <3>4. \A a \in Listed : a # temp => next[a] # arg
      BY <2>2, <3>2
    <3>5. ListExact'
      BY <1>4, <2>0, <2>2, <3>1, <3>2, <3>3, <3>4 DEF TerminateWalk
    <3>6. TypeOK' /\ PidsInOrder' /\ ThreadInv' /\ NoDangling'
      BY <1>4, <2>0, <2>2, <3>1, <3>2, <3>3 DEF TerminateWalk
    <3>7. HandlerInv' /\ FaultNeedsKernelExit'
      BY <1>4, <2>0, <2>2, <3>1, <3>2, <3>3 DEF TerminateWalk
    <3> QED BY <3>5, <3>6, <3>7
  <2>3. CASE temp = NULL
    <3>1. arg \notin Alive /\ Listed' = Listed
      BY <1>4, <2>3 DEF TerminateWalk, Alive, Listed
    <3> QED BY <1>4, <2>0, <2>3, <3>1 DEF TerminateWalk
  <2> QED BY <2>1, <2>2, <2>3
<1>5. CASE TerminateCheck
  <2>1. Alive' = Alive /\ Listed' = Listed
    BY <1>5 DEF TerminateCheck, Alive, Listed
  <2> QED BY <1>5, <2>1 DEF TerminateCheck
<1>6. CASE TerminateAssign
  <2>1. Alive' = Alive /\ Listed' = Listed /\ arg \notin Listed /\ Listed \subseteq Alive
    BY <1>6 DEF TerminateAssign, Alive, Listed
  <2> QED BY <1>6, <2>1 DEF TerminateAssign
<1>7. CASE TerminateFinish
  <2>1. Alive' = Listed /\ Listed' = Listed /\ arg \notin Listed
    BY <1>7 DEF TerminateFinish, Alive, Listed
  <2>2. Alive \subseteq Listed \cup {arg}
    BY <1>7 DEF TerminateFinish, Alive, Listed
  <2> QED BY <1>7, <2>1, <2>2 DEF TerminateFinish
<1> QED BY <1>1, <1>2, <1>3, <1>4, <1>5, <1>6, <1>7

(* The steps of a thread's process_switch keep the invariant.              *)
LEMMA SwitchIInv ==
    ASSUME IInv,
           \/ \E p \in Pid : SwitchCall(p)
           \/ SwitchReady \/ SwitchCurrent \/ SwitchRunning
    PROVE  IInv'
<1> USE ProcessAssumption
    DEF IInv, TypeOK, PidsInOrder, ListExact, ThreadInv, HandlerInv,
        NoDangling, FaultNeedsKernelExit, IsPredecessor, Pid, NULL, States,
        Created, ThreadPC, Unlinking, Unlinked, Switching, irqVars, tableVars, At
<1>1. ASSUME NEW p \in Pid, SwitchCall(p)
      PROVE  IInv'
  BY <1>1 DEF SwitchCall, Alive, Listed
<1>2. CASE SwitchReady
  <2>1. Alive' = Alive /\ Listed' = Listed
    BY <1>2 DEF SwitchReady, Alive, Listed
  <2> QED BY <1>2, <2>1 DEF SwitchReady, Alive
<1>3. CASE SwitchCurrent
  <2>1. Alive' = Alive /\ Listed' = Listed
    BY <1>3 DEF SwitchCurrent, Alive, Listed
  <2> QED BY <1>3, <2>1 DEF SwitchCurrent, Alive
<1>4. CASE SwitchRunning
  <2>1. Alive' = Alive /\ Listed' = Listed
    BY <1>4 DEF SwitchRunning, Alive, Listed
  <2> QED BY <1>4, <2>1 DEF SwitchRunning, Alive
<1> QED BY <1>1, <1>2, <1>3, <1>4

(* The timer handler keeps the invariant wherever it interrupts the thread. *)
LEMMA HandlerIInv ==
    ASSUME IInv, Tick \/ Scan
    PROVE  IInv'
<1> USE ProcessAssumption
    DEF IInv, TypeOK, PidsInOrder, ListExact, ThreadInv, HandlerInv,
        NoDangling, FaultNeedsKernelExit, IsPredecessor, Pid, NULL, States,
        Created, ThreadPC, Unlinking, Unlinked, Switching, threadVars, tableVars
<1>0. /\ Listed \subseteq Alive /\ Alive \subseteq Pid
      /\ \A p \in Alive \ Listed : pc \in Unlinked /\ p = arg
  BY DEF Listed, Alive
<1>1. CASE Tick
  <2>1. Alive' = Alive /\ Listed' = Listed
    BY <1>1 DEF Tick, Alive, Listed
  <2>2. tick_count' \in 0 .. TickMod - 1
    BY <1>1 DEF Tick, Ticked
  <2>3. \/ irq' = "off" /\ cand' = cand
        \/ /\ irq' = "scan" /\ cand' \in Listed
           /\ process_list # NULL /\ current_process # NULL
        \/ irq' = "fault" /\ cand' = cand /\ current_process = NULL
    BY <1>1, <1>0 DEF Tick, Follow
  <2>4. UNCHANGED <<process_list, next_pid, next, current_process, state, pc, arg, temp>>
    BY <1>1 DEF Tick
  <2>5. irq' \in {"off", "scan", "fault"} /\ cand' \in Pid \cup {NULL}
    BY <1>0, <2>3
  <2>6. TypeOK' /\ PidsInOrder'
    BY <2>2, <2>4, <2>5
  <2>7. ListExact'
    BY <1>1, <1>0, <2>1, <2>2 DEF Tick
  <2>8. ThreadInv'
    BY <1>1, <1>0, <2>1, <2>2 DEF Tick
  <2>9. HandlerInv' /\ NoDangling'
    <3>1. HandlerInv'
      BY <2>1, <2>3, <2>4
    <3>2. NoDangling'
      BY <1>0, <2>1, <2>3, <2>4
    <3> QED BY <3>1, <3>2
  <2>10. FaultNeedsKernelExit'
    BY <1>1, <1>0, <2>1, <2>2 DEF Tick
  <2> QED BY <2>6, <2>7, <2>8, <2>9, <2>10
<1>2. CASE ScanBack
  <2>1. Alive' = Alive /\ Listed' = Listed
    BY <1>2 DEF ScanBack, Alive, Listed
  <2> QED BY <1>2, <2>1 DEF ScanBack
<1>3. CASE ScanFound
  <2>1. cand \in Listed /\ current_process \in Alive
    BY <1>3 DEF ScanFound
  <2>2. Alive' = Alive /\ Listed' = Listed
    BY <1>3, <2>1 DEF ScanFound, Alive, Listed
  <2>3. cand # arg \/ pc \notin Unlinked
    BY <2>1 DEF Listed
  <2>4. TypeOK' /\ PidsInOrder'
    <3>1. /\ state[current_process] # "UNUSED" /\ state[cand] # "UNUSED"
          /\ current_process \in Pid /\ cand \in Pid
      BY <1>0, <2>1 DEF Alive
    <3>2. state' \in [Pid -> States] /\ \A p \in Pid : state'[p] = "UNUSED" <=> state[p] = "UNUSED"
      BY <1>3, <3>1 DEF ScanFound
    <3> QED BY <1>3, <3>1, <3>2 DEF ScanFound
  <2>5. ListExact'
    BY <1>3, <1>0, <2>1, <2>2, <2>3 DEF ScanFound
  <2>6. ThreadInv'
    BY <1>3, <1>0, <2>1, <2>2, <2>3 DEF ScanFound, Alive
  <2>7. HandlerInv' /\ NoDangling'
    BY <1>3, <1>0, <2>1, <2>2, <2>3 DEF ScanFound
  <2>8. FaultNeedsKernelExit'
    BY <1>3, <1>0, <2>1, <2>2, <2>3 DEF ScanFound
  <2> QED BY <2>4, <2>5, <2>6, <2>7, <2>8
<1>4. CASE ScanOn
  <2>1. Alive' = Alive /\ Listed' = Listed
    BY <1>4 DEF ScanOn, Alive, Listed
  <2>2. cand \in Listed /\ Follow(cand) \in Listed
    BY <1>4, <1>0 DEF ScanOn, Follow
  <2>4. TypeOK' /\ PidsInOrder'
    BY <1>4, <1>0, <2>1, <2>2 DEF ScanOn
  <2>5. ListExact'
    BY <1>4, <1>0, <2>1, <2>2 DEF ScanOn
  <2>6. ThreadInv'
    BY <1>4, <1>0, <2>1, <2>2 DEF ScanOn
  <2>7. HandlerInv' /\ NoDangling'
    BY <1>4, <1>0, <2>1, <2>2 DEF ScanOn
  <2>8. FaultNeedsKernelExit'
    BY <1>4, <1>0, <2>1, <2>2 DEF ScanOn
  <2> QED BY <2>4, <2>5, <2>6, <2>7, <2>8
<1> QED BY <1>1, <1>2, <1>3, <1>4 DEF Scan

(* Every step keeps the invariant.                                         *)
LEMMA NextIInv == IInv /\ [Next]_vars => IInv'
<1> SUFFICES ASSUME IInv, [Next]_vars PROVE IInv'
  OBVIOUS
<1>1. CASE UNCHANGED vars
  BY <1>1 DEF vars, IInv, TypeOK, PidsInOrder, ListExact, ThreadInv, HandlerInv,
     NoDangling, FaultNeedsKernelExit, Alive, Listed, IsPredecessor
<1>2. CASE Next
  BY <1>2, CreateIInv, TerminateIInv, SwitchIInv, HandlerIInv DEF Next, Thread
<1> QED BY <1>1, <1>2

(***************************************************************************)
(* At every instant, the middle of process_create and process_terminate    *)
(* included, process_list links exactly the live processes, newest first.  *)
(***************************************************************************)
THEOREM ListExactAlways == Spec => []ListExact
<1>1. IInv => ListExact
  BY DEF IInv
<1> QED BY <1>1, InitIInv, NextIInv, PTL DEF Spec

(* All variables of process.c keep their types, in any interleaving.       *)
THEOREM TypeCorrect == Spec => []TypeOK
<1>1. IInv => TypeOK
  BY DEF IInv
<1> QED BY <1>1, InitIInv, NextIInv, PTL DEF Spec

(***************************************************************************)
(* Neither current_process nor the scheduler's scan ever refers to a       *)
(* process that process_terminate has finished with, and process.c follows *)
(* a null process pointer only after the kernel process was terminated.    *)
(***************************************************************************)
THEOREM CurrentSoundAlways == Spec => []CurrentSound
<1>1. IInv => CurrentSound
  BY DEF IInv, CurrentSound
<1> QED BY <1>1, InitIInv, NextIInv, PTL DEF Spec

-----------------------------------------------------------------------------
(* Steps that leave the three abstract variables alone.                    *)
LEMMA StutterSteps ==
    ASSUME IInv,
           \/ CreateFill \/ SyscallExit \/ \E p \in Killable : Terminate(p)
           \/ TerminateBegin \/ TerminateWalk \/ TerminateCheck
           \/ \E p \in Pid : SwitchCall(p)
           \/ SwitchReady \/ SwitchRunning
           \/ Tick \/ ScanBack \/ ScanOn
    PROVE  UNCHANGED <<Born, Alive, current_process>>
<1> USE ProcessAssumption
    DEF IInv, TypeOK, PidsInOrder, ThreadInv, HandlerInv, NoDangling, Pid,
        NULL, States, Created, ThreadPC, Unlinking, Unlinked, Switching,
        tableVars, threadVars, At
<1>1. CASE CreateFill
  BY <1>1 DEF CreateFill, Alive, Born
<1>2. CASE \/ SyscallExit \/ \E p \in Killable : Terminate(p)
           \/ TerminateBegin \/ TerminateWalk \/ TerminateCheck
  BY <1>2 DEF SyscallExit, Terminate, TerminateBegin, TerminateWalk,
              TerminateCheck, Alive, Born
<1>3. CASE \E p \in Pid : SwitchCall(p)
  BY <1>3 DEF SwitchCall, Alive, Born
<1>4. CASE SwitchReady
  BY <1>4 DEF SwitchReady, Alive, Born
<1>5. CASE SwitchRunning
  BY <1>5 DEF SwitchRunning, Alive, Born
<1>6. CASE Tick
  BY <1>6 DEF Tick, Alive, Born
<1>7. CASE ScanBack \/ ScanOn
  BY <1>7 DEF ScanBack, ScanOn, Alive, Born
<1> QED BY <1>1, <1>2, <1>3, <1>4, <1>5, <1>6, <1>7

(***************************************************************************)
(* process.c implements the abstract process table: every step of thread   *)
(* and handler is a creation, a dispatch, a release or an exit of it, or   *)
(* leaves it alone.                                                        *)
(***************************************************************************)
THEOREM ImplementsTable == Spec => TableSpec
<1> USE DEF Table!vars
<1>1. Init => Table!Init
  BY ProcessAssumption
     DEF Init, Table!Init, Born, Alive, Pid, Created, NULL
<1>2. IInv /\ [Next]_vars => [Table!Next]_(Table!vars)
  <2> SUFFICES ASSUME IInv, [Next]_vars
               PROVE  Table!Next \/ UNCHANGED <<Born, Alive, current_process>>
    OBVIOUS
  <2> USE ProcessAssumption
      DEF IInv, TypeOK, PidsInOrder, ThreadInv, HandlerInv, NoDangling, Pid,
          NULL, States, Created, ThreadPC, Unlinking, Unlinked, Switching,
          tableVars, threadVars, At
  <2>1. CASE CreatePublish
    <3>1. arg \in Pid /\ arg \notin Born /\ Born' = Born \cup {arg}
      BY <2>1 DEF CreatePublish, Born
    <3>2. Alive' = Alive \cup {arg} /\ current_process' = current_process
      BY <2>1 DEF CreatePublish, Alive
    <3>3. Table!Create(arg)
      BY <3>1, <3>2 DEF Table!Create
    <3> QED BY <3>1, <3>3 DEF Table!Next
  <2>2. CASE TerminateAssign
    <3>1. Alive' = Alive /\ Born' = Born /\ current_process' = process_list
      BY <2>2 DEF TerminateAssign, Alive, Born
    <3>2. Listed \subseteq Alive /\ Alive \subseteq Listed \cup {arg} /\ Listed \subseteq Pid
      BY <2>2 DEF TerminateAssign, Listed, Alive
    <3>3. CASE process_list # NULL
      <4>1. process_list \in Pid /\ Table!Dispatch(process_list)
        BY <3>1, <3>2, <3>3 DEF Table!Dispatch, ListExact
      <4> QED BY <4>1 DEF Table!Next
    <3>4. CASE process_list = NULL /\ current_process # NULL
      <4>1. Listed = {}
        BY <3>2, <3>4 DEF ListExact
      <4>2. Alive = {current_process}
        BY <3>2, <3>4, <4>1
      <4> QED BY <3>1, <3>4, <4>2 DEF Table!Next, Table!Release
    <3>5. CASE process_list = NULL /\ current_process = NULL
      BY <3>1, <3>5
    <3> QED BY <3>3, <3>4, <3>5
  <2>3. CASE TerminateFinish
    <3>1. Alive' = Alive \ {arg} /\ Born' = Born /\ current_process' = current_process
      BY <2>3 DEF TerminateFinish, Alive, Born
    <3>2. arg # current_process /\ arg \in Pid
      BY <2>3 DEF TerminateFinish
    <3>3. arg \in Alive => Table!Exit(arg)
      BY <3>1, <3>2 DEF Table!Exit
    <3>4. arg \notin Alive => Alive' = Alive
      BY <3>1
    <3> QED BY <3>1, <3>2, <3>3, <3>4 DEF Table!Next
  <2>4. CASE SwitchCurrent
    <3>1. Alive' = Alive /\ Born' = Born /\ current_process' = arg /\ arg \in Alive /\ arg \in Pid
      BY <2>4 DEF SwitchCurrent, Alive, Born
    <3>2. Table!Dispatch(arg)
      BY <3>1 DEF Table!Dispatch
    <3> QED BY <3>1, <3>2 DEF Table!Next
  <2>5. CASE ScanFound
    <3>1. cand \in Alive /\ cand \in Pid /\ current_process \in Alive
      BY <2>5 DEF ScanFound, Alive
    <3>2. Alive' = Alive /\ Born' = Born /\ current_process' = cand
      BY <2>5, <3>1 DEF ScanFound, Alive, Born
    <3>3. Table!Dispatch(cand)
      BY <3>1, <3>2 DEF Table!Dispatch
    <3> QED BY <3>1, <3>3 DEF Table!Next
  <2>6. CASE UNCHANGED vars
    BY <2>6 DEF vars, Born, Alive
  <2> QED
    BY <2>1, <2>2, <2>3, <2>4, <2>5, <2>6, StutterSteps DEF Next, Thread, Scan
<1> QED BY <1>1, <1>2, InitIInv, NextIInv, PTL DEF Spec, TableSpec, Table!Spec

(***************************************************************************)
(* While nothing is terminated and only the timer switches, the RUNNING    *)
(* process is always the current one.                                      *)
(***************************************************************************)
THEOREM OneRunningAlways ==
    ASSUME Killable = {}, ThreadSwitch = FALSE
    PROVE  Spec => []OneRunning
<1> DEFINE Inv == OneRunning /\ pc \in {"idle", "c_publish"}
<1>1. Init => Inv
  BY DEF Init, OneRunning, Listed, Alive
<1>2. IInv /\ Inv /\ [Next]_vars => Inv'
  <2> SUFFICES ASSUME IInv, Inv, [Next]_vars PROVE Inv'
    OBVIOUS
  <2> USE ProcessAssumption
      DEF IInv, TypeOK, PidsInOrder, ThreadInv, HandlerInv, NoDangling, Pid,
          NULL, States, Created, ThreadPC, Unlinking, Unlinked, Switching,
          tableVars, threadVars, At, OneRunning, Listed, Alive
  <2>1. CASE CreateFill
    BY <2>1 DEF CreateFill
  <2>2. CASE CreatePublish
    BY <2>2 DEF CreatePublish
  <2>3. CASE Tick
    BY <2>3 DEF Tick
  <2>4. CASE ScanBack \/ ScanOn
    BY <2>4 DEF ScanBack, ScanOn
  <2>5. CASE ScanFound
    BY <2>5 DEF ScanFound
  <2>6. CASE UNCHANGED vars
    BY <2>6 DEF vars
  <2>7. ~ SyscallExit /\ ~ (\E p \in Killable : Terminate(p)) /\ ~ (\E p \in Pid : SwitchCall(p))
    BY DEF SyscallExit, SwitchCall
  <2>8. /\ ~ TerminateBegin /\ ~ TerminateWalk /\ ~ TerminateCheck
        /\ ~ TerminateAssign /\ ~ TerminateFinish
        /\ ~ SwitchReady /\ ~ SwitchCurrent /\ ~ SwitchRunning
    BY DEF TerminateBegin, TerminateWalk, TerminateCheck, TerminateAssign,
           TerminateFinish, SwitchReady, SwitchCurrent, SwitchRunning
  <2> QED
    BY <2>1, <2>2, <2>3, <2>4, <2>5, <2>6, <2>7, <2>8 DEF Next, Thread, Scan
<1> QED BY <1>1, <1>2, InitIInv, NextIInv, PTL DEF Spec

-----------------------------------------------------------------------------
(***************************************************************************)
(* The shell.  It leaves the table to the timer, and its directory is one  *)
(* that ls can find.                                                       *)
(***************************************************************************)
DirInv ==
    \/ current_dir \in {<<>>, <<SLASH>>}
    \/ current_dir \in DirNames /\ root = "own"

RootInv == root \in {"NULL", "own", "builtin"}

(* A path without a slash has no last one.                                 *)
LEMMA NoSlash == ASSUME NEW dir, SLASH \notin Chunks(dir) PROVE LastSlash(dir) = 0
  BY Zenon DEF LastSlash, Chunks

(* cd .. stays where it is, or goes to the root or to a directory above.   *)
LEMMA UpKeeps ==
    ASSUME DirInv
    PROVE  \/ Up(current_dir) = current_dir
           \/ Up(current_dir) = <<SLASH>>
           \/ Up(current_dir) \in DirNames /\ root = "own"
<1>1. CASE current_dir = <<>>
  <2>1. Chunks(<<>>) = {}
    BY DEF Chunks
  <2> QED BY <1>1, <2>1, NoSlash DEF Up
<1>2. CASE current_dir = <<SLASH>>
  <2> DEFINE slashes == {i \in 1 .. Len(<<SLASH>>) : <<SLASH>>[i] = SLASH}
  <2>1. slashes = {1}
    OBVIOUS
  <2>2. LastSlash(<<SLASH>>) = CHOOSE i \in {1} : \A j \in {1} : j <= i
    BY <2>1, Zenon DEF LastSlash
  <2>3. LastSlash(<<SLASH>>) = 1
    BY <2>2
  <2> QED BY <1>2, <2>3 DEF Up
<1>3. CASE current_dir \in DirNames /\ root = "own"
  <2>1. CASE LastSlash(current_dir) = 0
    BY <2>1 DEF Up
  <2>2. CASE LastSlash(current_dir) = 1
    BY <2>2 DEF Up
  <2>3. CASE LastSlash(current_dir) \notin {0, 1}
    <3>1. Up(current_dir) = SubSeq(current_dir, 1, LastSlash(current_dir) - 1)
      BY <2>3 DEF Up
    <3>2. SubSeq(current_dir, 1, LastSlash(current_dir) - 1) \in DirNames
      BY <1>3, <2>3, ShellAssumption
    <3> QED BY <1>3, <3>1, <3>2
  <2> QED BY <2>1, <2>2, <2>3
<1> QED BY <1>1, <1>2, <1>3 DEF DirInv

(* What a step does to the directory.                                      *)
LEMMA DirStep ==
    ASSUME DirInv, [ShellNext]_allVars
    PROVE  /\ root' = root
           /\ \/ current_dir' = current_dir
              \/ current_dir' = <<SLASH>>
              \/ current_dir' \in DirNames /\ root = "own"
<1>1. CASE shell_init
  BY <1>1 DEF shell_init
<1>2. CASE UNCHANGED <<root, current_dir>>
  BY <1>2
<1>3. CASE Execute
  <2>1. root' = root
    BY <1>3 DEF Execute
  <2>2. CASE current_dir' = current_dir
    BY <2>1, <2>2
  <2>3. CASE current_dir' = cmd_cd
    <3>1. CASE argc = 1
      BY <2>1, <2>3, <3>1 DEF cmd_cd
    <3>2. CASE argc # 1 /\ argv[2] = <<"..">>
      BY <2>1, <2>3, <3>2, UpKeeps DEF cmd_cd
    <3>3. CASE argc # 1 /\ argv[2] # <<"..">> /\ CdStatus # OK
      BY <2>1, <2>3, <3>3 DEF cmd_cd
    <3>4. CASE argc # 1 /\ argv[2] # <<"..">> /\ CdStatus = OK
      <4>1. current_dir' = argv[2]
        BY <2>3, <3>4 DEF cmd_cd
      <4>2. argv[2] = <<SLASH>> \/ Found(argv[2], DirNames)
        BY <3>4 DEF CdStatus, OK, INVALID_ARGUMENTS
      <4> QED BY <2>1, <4>1, <4>2 DEF Found
    <3> QED BY <3>1, <3>2, <3>3, <3>4
  <2>4. current_dir' = current_dir \/ current_dir' = cmd_cd
    BY <1>3, Zenon DEF Execute
  <2> QED BY <2>2, <2>3, <2>4
<1>4. CASE shell_run \/ ReadLine \/ cmd_ps \/ PsRow \/ Kernel \/ UNCHANGED allVars
  <2>1. UNCHANGED <<root, current_dir>>
    BY <1>4 DEF shell_run, ReadLine, cmd_ps, PsRow, Kernel, allVars, shellVars
  <2> QED BY <1>2, <2>1
<1> QED BY <1>1, <1>3, <1>4 DEF ShellNext, Command

(***************************************************************************)
(* cd leaves the shell in a directory that ls can list, for every finddir  *)
(* that finds the directories on the way to one it finds, and for paths    *)
(* with and without slashes (shell.c:340-459); without a root only in "/". *)
(***************************************************************************)
THEOREM DirResolvesAlways == ShellSpec => DirResolves
<1> DEFINE Resolves == current_dir' # current_dir =>
              \/ CanList(current_dir')
              \/ root = "NULL" /\ current_dir' = <<SLASH>>
<1>1. ShellInit => DirInv /\ RootInv
  BY DEF ShellInit, RootInv, ShellBoot, DirInv
<1>2. DirInv /\ RootInv /\ [ShellNext]_allVars => DirInv' /\ RootInv' /\ Resolves
  <2> SUFFICES ASSUME DirInv, RootInv, [ShellNext]_allVars
               PROVE  DirInv' /\ root' = root /\ Resolves
    BY DEF RootInv
  <2>1. DirInv' /\ root' = root
    BY DirStep DEF DirInv
  <2>2. CASE current_dir' = <<SLASH>>
    BY <2>1, <2>2 DEF CanList, RootInv
  <2>3. CASE current_dir' # <<SLASH>> /\ current_dir' # current_dir
    BY <2>1, <2>3, DirStep DEF CanList, Found
  <2> QED BY <2>1, <2>2, <2>3
<1>3. DirResolves <=> [][Resolves]_allVars
  BY DEF DirResolves
<1> HIDE DEF Resolves
<1> QED BY <1>1, <1>2, <1>3, PTL DEF ShellSpec

(* Every step of the composition is one of the process table or leaves it  *)
(* alone; once the shell runs the thread has no call under way.            *)
ThreadIdle == sh # "boot" => pc = "idle"

LEMMA TableStep == [ShellNext]_allVars => [Next]_vars
  BY DEF ShellNext, Command, Execute, cmd_ps, PsRow, shell_init, shell_run,
         ReadLine, Kernel, Next, allVars

(* ps: count is the number of the processes above the one it stands on.    *)
PsInv ==
    sh = "ps" => /\ current \in Listed \cup {NULL}
                 /\ count = Cardinality({p \in Listed : p > current})

RowsExact == sh = "ps" /\ current = NULL => count = Cardinality(Listed)

(* A step that is not a turn of the loop leaves the listed processes to it. *)
LEMMA ListedKept ==
    ASSUME IInv, pc = "idle", pc' = "idle", Tick \/ Scan \/ UNCHANGED vars
    PROVE  Listed' = Listed
<1> USE DEF IInv, TypeOK, HandlerInv, NoDangling, Listed, Alive, Unlinked, Created, States
<1>1. CASE Tick \/ UNCHANGED vars
  BY <1>1 DEF Tick, vars
<1>2. CASE ScanBack \/ ScanOn
  BY <1>2 DEF ScanBack, ScanOn
<1>3. CASE ScanFound
  BY <1>3 DEF ScanFound
<1> QED BY <1>1, <1>2, <1>3 DEF Scan

(* The next process of the walk adds itself to those above.                *)
LEMMA OneMore ==
    ASSUME IInv, current \in Listed
    PROVE  /\ next[current] \in Listed \cup {NULL}
           /\ Cardinality({p \in Listed : p > next[current]})
                = Cardinality({p \in Listed : p > current}) + 1
<1> DEFINE above == {p \in Listed : p > current}
<1>1. /\ Listed \subseteq 0 .. MaxPid /\ current \in 0 .. MaxPid
      /\ IsPredecessor(Listed, next[current], current)
  BY DEF IInv, ListExact, Listed, Alive, Pid
<1>2. IsFiniteSet(above)
  <2>1. IsFiniteSet(0 .. MaxPid)
    BY ProcessAssumption, FS_Interval
  <2>2. above \subseteq 0 .. MaxPid
    BY <1>1
  <2> QED BY <2>1, <2>2, FS_Subset
<1> DEFINE q == next[current]
<1>3. /\ q \in Listed \cup {NULL} /\ q < current
      /\ \A b \in Listed : b < current => b <= q
  BY <1>1 DEF IsPredecessor
<1> HIDE DEF q
<1>i. q \in Int /\ current \in Int /\ Listed \subseteq Int
  <2>1. \A p \in 0 .. MaxPid : p \in Int
    BY ProcessAssumption
  <2>2. NULL \in Int
    BY DEF NULL
  <2> QED BY <1>1, <1>3, <2>1, <2>2
<1>4. {p \in Listed : p > q} = above \cup {current}
  <2>1. \A p \in Listed : p > q <=> p > current \/ p = current
    BY <1>3, <1>i
  <2> QED BY <2>1
<1>5. current \notin above
  BY <1>i
<1> HIDE DEF above
<1>6. Cardinality(above \cup {current}) = Cardinality(above) + 1
  BY <1>2, <1>5, FS_AddElement
<1> QED BY <1>3, <1>4, <1>6 DEF above, q

LEMMA PsNext ==
    ASSUME IInv, IInv', ThreadIdle, PsInv, [ShellNext]_allVars
    PROVE  ThreadIdle' /\ PsInv'
<1>1. CASE shell_init \/ shell_run \/ ReadLine \/ Execute
  BY <1>1 DEF shell_init, shell_run, ReadLine, Read, Execute, Finish, ShellAt, At, vars,
              ThreadIdle, PsInv
<1>2. CASE cmd_ps
  <2>1. /\ sh = "run" /\ UNCHANGED vars /\ current' = process_list /\ count' = 0
    BY <1>2 DEF cmd_ps, ShellAt
  <2>2. ThreadIdle'
    BY <2>1 DEF ThreadIdle, vars
  <2>3. Listed' = Listed /\ process_list \in Listed \cup {NULL}
    BY <2>1 DEF vars, Listed, Alive, IInv, ListExact
  <2>4. {p \in Listed : p > process_list} = {}
    <3>1. Listed \subseteq Int /\ process_list \in Int
      BY ProcessAssumption DEF Listed, Alive, Pid, IInv, TypeOK, NULL
    <3>2. \A p \in Listed : p <= process_list
      BY DEF IInv, ListExact
    <3>3. \A p \in Listed : ~ (p > process_list)
      BY <3>1, <3>2
    <3> QED BY <3>3
  <2>5. Cardinality({p \in Listed : p > process_list}) = 0
    BY <2>4, FS_EmptySet
  <2> QED BY <2>1, <2>2, <2>3, <2>5 DEF PsInv
<1>3. CASE PsRow
  <2>1. UNCHANGED vars /\ sh = "ps"
    BY <1>3 DEF PsRow, ShellAt
  <2>2. Listed' = Listed /\ ThreadIdle'
    BY <2>1, <1>3 DEF vars, Listed, Alive, ThreadIdle
  <2>3. CASE current # NULL
    <3>1. current' = next[current] /\ count' = count + 1 /\ current \in Listed
      BY <1>3, <2>1, <2>3 DEF PsRow, PsInv
    <3> QED BY <2>1, <2>2, <3>1, OneMore DEF PsInv
  <2>4. CASE current = NULL
    BY <1>3, <2>2, <2>4 DEF PsRow, Finish, PsInv, EXIT, OK
  <2> QED BY <2>3, <2>4
<1>4. CASE Kernel \/ UNCHANGED allVars
  <2>1. UNCHANGED <<sh, current, count>>
    BY <1>4 DEF Kernel, shellVars, allVars
  <2>2. CASE sh = "boot"
    BY <2>1, <2>2 DEF ThreadIdle, PsInv
  <2>3. CASE sh # "boot"
    <3>1. Tick \/ Scan \/ UNCHANGED vars
      BY <1>4, <2>3 DEF Kernel, allVars
    <3>2. pc = "idle" /\ pc' = "idle"
      BY <2>3, <3>1 DEF ThreadIdle, Tick, Scan, ScanBack, ScanFound, ScanOn, threadVars, vars
    <3>3. Listed' = Listed
      BY <3>1, <3>2, ListedKept
    <3> QED BY <2>1, <3>2, <3>3 DEF ThreadIdle, PsInv
  <2> QED BY <2>2, <2>3
<1> QED BY <1>1, <1>2, <1>3, <1>4 DEF ShellNext, Command

LEMMA ShellInvariance == ShellSpec => [](IInv /\ ThreadIdle /\ PsInv)
<1>1. ShellInit => IInv /\ ThreadIdle /\ PsInv
  BY InitIInv DEF ShellInit, ShellBoot, ThreadIdle, PsInv
<1>2. IInv /\ ThreadIdle /\ PsInv /\ [ShellNext]_allVars => IInv' /\ ThreadIdle' /\ PsInv'
  BY PsNext, TableStep, NextIInv
<1> QED BY <1>1, <1>2, PTL DEF ShellSpec

(***************************************************************************)
(* When the walk of ps ends, it has printed one row for each process of    *)
(* the table, whatever ticks and switches fell into it (shell.c:510-529).  *)
(***************************************************************************)
THEOREM RowsExactAlways == ShellSpec => []RowsExact
<1>1. IInv /\ PsInv => RowsExact
  <2> SUFFICES ASSUME IInv, PsInv, sh = "ps", current = NULL
               PROVE  count = Cardinality(Listed)
    BY DEF RowsExact
  <2>1. Listed \subseteq Nat
    BY ProcessAssumption DEF Listed, Alive, Pid
  <2>2. \A p \in Listed : p > NULL
    BY <2>1 DEF NULL
  <2> HIDE DEF Listed
  <2>3. {p \in Listed : p > NULL} = Listed
    BY <2>2
  <2> QED BY <2>3 DEF PsInv
<1> QED BY <1>1, ShellInvariance, PTL

(***************************************************************************)
(* Under the shell too process_list links exactly the live processes, and  *)
(* neither current_process nor the scan refers to a terminated one.        *)
(***************************************************************************)
THEOREM ShellTableAlways == ShellSpec => [](ListExact /\ CurrentSound)
<1>1. IInv => ListExact /\ CurrentSound
  BY DEF IInv, CurrentSound
<1> QED BY <1>1, ShellInvariance, PTL

-----------------------------------------------------------------------------
(***************************************************************************)
(* The parser.  A line that Lines makes of words has a layout: word k      *)
(* occupies the positions op[k] .. en[k], quotes included, and its text    *)
(* bg[k] .. fn[k]; qu[k] is its quote, or NUL.                             *)
(***************************************************************************)
Piece == (UNION {Chunks(w) : w \in Words}) \cup Blanks \cup Quotes

(* Word w, typed plainly or in quotes, is t.                               *)
TypedAs(t, w, q) ==
    /\ t \in Seq(Piece)
    /\ \A i \in 1 .. Len(t) : t[i] # NUL
    /\ \/ /\ q = NUL /\ t = w /\ Len(w) >= 1
          /\ \A i \in 1 .. Len(w) : w[i] \notin Blanks \cup Quotes
       \/ /\ q \in Quotes /\ Len(t) = Len(w) + 2
          /\ t[1] = q /\ t[Len(w) + 2] = q
          /\ \A i \in 1 .. Len(w) : t[i + 1] = w[i] /\ w[i] # q

(* The line is the line l of the words before, if any, with word k added   *)
(* behind position d.                                                      *)
Extends(line, l, d, t, k) ==
    /\ line \in Seq(Piece) /\ Len(line) = d + Len(t)
    /\ d \in Nat /\ IF k = 1 THEN d = 0 ELSE d > Len(l)
    /\ \A i \in 1 .. Len(t) : line[d + i] = t[i]
    /\ \A i \in 1 .. Len(l) : line[i] = l[i]
    /\ \A i \in 1 .. d : i > Len(l) => line[i] \in Blanks

(* Where word w of the line is.                                            *)
Placed(line, w, o, b, f, e, q) ==
    /\ o \in Nat /\ b \in Nat /\ f \in Nat /\ e \in Nat
    /\ 1 <= o /\ o <= b /\ b <= f + 1 /\ f <= e /\ o <= e /\ e <= Len(line)
    /\ f = b + Len(w) - 1
    /\ \A i \in b .. f : line[i] = w[i - b + 1]
    /\ \/ /\ q = NUL /\ b = o /\ e = f
          /\ \A i \in b .. f : line[i] \notin Blanks \cup Quotes
       \/ /\ q \in Quotes /\ b = o + 1 /\ e = f + 1
          /\ line[o] = q /\ line[e] = q
          /\ \A i \in b .. f : line[i] # q

Layout(line, ws, n, op, bg, fn, en, qu) ==
    /\ \A k \in 1 .. n : Placed(line, ws[k], op[k], bg[k], fn[k], en[k], qu[k])
    /\ \A j, k \in 1 .. n : j < k => en[j] + 1 < op[k]
    /\ IF n = 0 THEN Len(line) = 0 ELSE op[1] = 1 /\ en[n] = Len(line)
    /\ \A i \in 1 .. Len(line) :
          \/ line[i] \in Blanks
          \/ \E k \in 1 .. n : op[k] <= i /\ i <= en[k]
    /\ line \in Seq(Piece)
    /\ \A i \in 1 .. Len(line) : line[i] # NUL

LaidOut(line, ws, n) ==
    \E op, bg, fn, en, qu : Layout(line, ws, n, op, bg, fn, en, qu)

LEMMA TypingShape ==
    ASSUME NEW w \in Words, NEW t \in Typings(w)
    PROVE  w \in Seq(Piece) /\ \E q : TypedAs(t, w, q)
<1>1. w \in Seq(Chunks(w) \ {NUL})
  BY ShellAssumption
<1>2. w \in Seq(Piece) /\ \A i \in 1 .. Len(w) : w[i] # NUL /\ w[i] \in Chunks(w)
  <2>1. Chunks(w) \ {NUL} \subseteq Piece
    BY DEF Piece
  <2> QED BY <1>1, <2>1 DEF Chunks
<1>3. CASE t = w /\ w # <<>> /\ Chunks(w) \cap (Blanks \cup Quotes) = {}
  <2>1. TypedAs(t, w, NUL)
    BY <1>2, <1>3 DEF TypedAs
  <2> QED BY <1>2, <2>1
<1>4. ASSUME NEW q \in Quotes \ Chunks(w), t = <<q>> \o w \o <<q>>
      PROVE  \E p : TypedAs(t, w, p)
  <2>1. q \in Piece /\ <<q>> \in Seq(Piece) /\ Len(<<q>>) = 1 /\ q # NUL
    BY DEF Piece, Quotes, NUL
  <2> DEFINE u == <<q>> \o w
  <2>2. u \in Seq(Piece) /\ Len(u) = Len(w) + 1 /\ u[1] = q
        /\ \A i \in 1 .. Len(w) : u[i + 1] = w[i]
    BY <1>2, <2>1
  <2>3. t = u \o <<q>>
    BY <1>4
  <2> HIDE DEF u
  <2>4. t \in Seq(Piece) /\ Len(t) = Len(w) + 2 /\ t[Len(w) + 2] = q
        /\ \A i \in 1 .. Len(w) + 1 : t[i] = u[i]
    BY <1>2, <2>1, <2>2, <2>3
  <2>5. \A i \in 1 .. Len(w) : t[i + 1] = w[i] /\ w[i] # q
    BY <1>2, <1>4, <2>2, <2>4
  <2>6. t[1] = q
    BY <1>2, <2>2, <2>4
  <2>7. \A i \in 1 .. Len(t) : t[i] # NUL
    <3> SUFFICES ASSUME NEW i \in 1 .. Len(t) PROVE t[i] # NUL
      OBVIOUS
    <3>1. CASE i = 1 \/ i = Len(w) + 2
      BY <2>1, <2>4, <2>6, <3>1
    <3>2. CASE i # 1 /\ i # Len(w) + 2
      <4>1. i - 1 \in 1 .. Len(w) /\ i = (i - 1) + 1
        BY <1>2, <2>4, <3>2
      <4>2. t[i] = w[i - 1]
        BY <2>5, <4>1
      <4> QED BY <1>2, <4>1, <4>2
    <3> QED BY <3>1, <3>2
  <2>8. TypedAs(t, w, q)
    BY <2>4, <2>5, <2>6, <2>7 DEF TypedAs
  <2> QED BY <2>8
<1>5. \/ t = w /\ w # <<>> /\ Chunks(w) \cap (Blanks \cup Quotes) = {}
      \/ \E q \in Quotes \ Chunks(w) : t = <<q>> \o w \o <<q>>
  BY DEF Typings
<1> QED BY <1>2, <1>3, <1>4, <1>5

LEMMA LineExtends ==
    ASSUME NEW l \in Seq(Piece), NEW b \in Gaps, NEW t \in Seq(Piece), Len(t) >= 1,
           NEW k \in Nat \ {0}, k = 1 <=> l = <<>>
    PROVE  \E d : Extends(IF l = <<>> THEN t ELSE l \o b \o t, l, d, t, k)
<1>1. CASE l = <<>>
  <2>1. Extends(t, l, 0, t, k)
    BY <1>1 DEF Extends
  <2> QED BY <1>1, <2>1
<1>2. CASE l # <<>>
  <2>1. b \in Seq(Piece) /\ Len(b) >= 1 /\ \A i \in 1 .. Len(b) : b[i] \in Blanks
    <3>1. b \in Seq(Blanks) /\ b # <<>> /\ Blanks \subseteq Piece
      BY ShellAssumption DEF Piece
    <3> QED BY <3>1
  <2> DEFINE m == l \o b
             d == Len(l) + Len(b)
  <2>2. /\ m \in Seq(Piece) /\ Len(m) = d
        /\ \A i \in 1 .. Len(l) : m[i] = l[i]
        /\ \A i \in 1 .. Len(b) : m[Len(l) + i] = b[i]
    BY <2>1
  <2>3. \A i \in 1 .. d : i > Len(l) => m[i] \in Blanks
    <3> SUFFICES ASSUME NEW i \in 1 .. d, i > Len(l) PROVE m[i] \in Blanks
      OBVIOUS
    <3>1. i - Len(l) \in 1 .. Len(b) /\ i = Len(l) + (i - Len(l))
      BY <2>1
    <3> QED BY <2>1, <2>2, <3>1
  <2>4. d \in Nat /\ d > Len(l) /\ Len(l) \in Nat
    BY <2>1
  <2> HIDE DEF m, d
  <2> DEFINE line == m \o t
  <2>5. /\ line \in Seq(Piece) /\ Len(line) = d + Len(t)
        /\ \A i \in 1 .. d : line[i] = m[i]
        /\ \A i \in 1 .. Len(t) : line[d + i] = t[i]
    BY <2>2, <2>4
  <2> HIDE DEF line
  <2>6. Extends(line, l, d, t, k)
    BY <1>2, <2>2, <2>3, <2>4, <2>5 DEF Extends
  <2> QED BY <1>2, <2>6 DEF line, m
<1> QED BY <1>1, <1>2

LEMMA LayoutExtends ==
    ASSUME NEW ws, NEW k \in Nat \ {0}, ws[k] \in Seq(Piece), NEW l,
           LaidOut(l, ws, k - 1), NEW t, NEW q, TypedAs(t, ws[k], q),
           NEW line, NEW d, Extends(line, l, d, t, k)
    PROVE  LaidOut(line, ws, k)
<1>1. PICK op, bg, fn, en, qu : Layout(l, ws, k - 1, op, bg, fn, en, qu)
  BY DEF LaidOut
<1> DEFINE w == ws[k]
           o == d + 1
           b == IF q = NUL THEN d + 1 ELSE d + 2
           e == d + Len(t)
           f == b + Len(w) - 1
<1>2. /\ line \in Seq(Piece) /\ Len(line) = e /\ d \in Nat /\ e \in Nat
      /\ Len(l) \in Nat /\ d >= Len(l) /\ Len(t) \in Nat /\ Len(w) \in Nat
      /\ (k = 1 => d = 0) /\ (k # 1 => d > Len(l))
      /\ k = 1 => Len(l) = 0
  BY <1>1 DEF Extends, TypedAs, Layout
<1>4. /\ o = d + 1 /\ e = d + Len(t) /\ f = b + Len(w) - 1 /\ w = ws[k]
      /\ q = NUL => b = d + 1
      /\ q # NUL => b = d + 2
  BY <1>2
<1> HIDE DEF w, o, b, e, f
<1>3. Placed(line, w, o, b, f, e, q)
  <2>1. CASE q = NUL
    <3>1. t = w /\ Len(w) >= 1 /\ \A i \in 1 .. Len(w) : w[i] \notin Blanks \cup Quotes
      BY <2>1 DEF TypedAs, Quotes, NUL, w
    <3>0. /\ Len(t) = Len(w) /\ Len(w) \in Nat /\ Len(w) >= 1 /\ d \in Nat
          /\ b = d + 1 /\ f = d + Len(w) /\ e = d + Len(w) /\ Len(line) = e /\ o = d + 1
      <4>1. Len(t) = Len(w) /\ Len(w) >= 1
        BY <3>1
      <4>2. b = d + 1 /\ e = d + Len(t) /\ o = d + 1 /\ f = b + Len(w) - 1
        BY <1>4, <2>1
      <4>3. d \in Nat /\ Len(w) \in Nat /\ Len(line) = e
        BY <1>2, <1>4
      <4> QED BY <4>1, <4>2, <4>3
    <3>2. \A i \in b .. f : line[i] = w[i - b + 1] /\ i - b + 1 \in 1 .. Len(w)
      <4> SUFFICES ASSUME NEW i \in b .. f
                   PROVE  line[i] = w[i - b + 1] /\ i - b + 1 \in 1 .. Len(w)
        OBVIOUS
      <4>1. i - b + 1 \in 1 .. Len(t) /\ i = d + (i - b + 1)
        BY <3>0
      <4>2. line[d + (i - b + 1)] = t[i - b + 1]
        BY <4>1 DEF Extends
      <4> QED BY <3>1, <4>1, <4>2
    <3>3. /\ o \in Nat /\ b \in Nat /\ f \in Nat /\ e \in Nat
          /\ 1 <= o /\ o <= b /\ b <= f + 1 /\ f <= e /\ o <= e /\ e <= Len(line)
          /\ b = o /\ e = f
      BY <3>0
    <3>4. \A i \in b .. f : line[i] \notin Blanks \cup Quotes
      BY <3>1, <3>2
    <3> QED BY <1>4, <2>1, <3>2, <3>3, <3>4 DEF Placed
  <2>2. CASE q # NUL
    <3>1. /\ q \in Quotes /\ Len(t) = Len(w) + 2 /\ t[1] = q /\ t[Len(w) + 2] = q
          /\ \A i \in 1 .. Len(w) : t[i + 1] = w[i] /\ w[i] # q
      BY <2>2 DEF TypedAs, w
    <3>0. /\ Len(t) = Len(w) + 2 /\ Len(w) \in Nat /\ d \in Nat /\ b = d + 2
          /\ f = d + Len(w) + 1 /\ e = d + Len(w) + 2 /\ Len(line) = e /\ o = d + 1
      <4>1. Len(t) = Len(w) + 2
        BY <3>1
      <4>2. b = d + 2 /\ e = d + Len(t) /\ o = d + 1 /\ f = b + Len(w) - 1
        BY <1>4, <2>2
      <4>3. d \in Nat /\ Len(w) \in Nat /\ Len(line) = e
        BY <1>2, <1>4
      <4> QED BY <4>1, <4>2, <4>3
    <3>2. \A i \in b .. f : line[i] = w[i - b + 1] /\ line[i] # q
      <4> SUFFICES ASSUME NEW i \in b .. f
                   PROVE  line[i] = w[i - b + 1] /\ line[i] # q
        OBVIOUS
      <4>1. i - b + 1 \in 1 .. Len(w) /\ (i - b + 1) + 1 \in 1 .. Len(t)
            /\ i = d + ((i - b + 1) + 1)
        BY <3>0
      <4>2. line[d + ((i - b + 1) + 1)] = t[(i - b + 1) + 1]
        BY <4>1 DEF Extends
      <4> QED BY <3>1, <4>1, <4>2
    <3>3. line[o] = q /\ line[e] = q
      <4>1. line[o] = t[1] /\ line[e] = t[Len(t)]
        <5>1. 1 \in 1 .. Len(t) /\ Len(t) \in 1 .. Len(t)
          BY <1>2, <3>1
        <5> QED BY <1>4, <5>1 DEF Extends
      <4> QED BY <3>1, <4>1
    <3>4. /\ o \in Nat /\ b \in Nat /\ f \in Nat /\ e \in Nat
          /\ 1 <= o /\ o <= b /\ b <= f + 1 /\ f <= e /\ o <= e /\ e <= Len(line)
          /\ b = o + 1 /\ e = f + 1
      BY <3>0
    <3> QED BY <1>4, <3>1, <3>2, <3>3, <3>4 DEF Placed
  <2> QED BY <2>1, <2>2
<1> DEFINE op2 == [j \in 1 .. k |-> IF j = k THEN o ELSE op[j]]
           bg2 == [j \in 1 .. k |-> IF j = k THEN b ELSE bg[j]]
           fn2 == [j \in 1 .. k |-> IF j = k THEN f ELSE fn[j]]
           en2 == [j \in 1 .. k |-> IF j = k THEN e ELSE en[j]]
           qu2 == [j \in 1 .. k |-> IF j = k THEN q ELSE qu[j]]
<1>12. e >= o
  BY <1>3 DEF Placed
<1>5. /\ op2[k] = o /\ bg2[k] = b /\ fn2[k] = f /\ en2[k] = e /\ qu2[k] = q
      /\ \A j \in 1 .. k - 1 : /\ op2[j] = op[j] /\ bg2[j] = bg[j] /\ fn2[j] = fn[j]
                               /\ en2[j] = en[j] /\ qu2[j] = qu[j]
  <2>1. k \in 1 .. k /\ \A j \in 1 .. k - 1 : j \in 1 .. k /\ j # k
    OBVIOUS
  <2> QED BY <2>1
<1> HIDE DEF op2, bg2, fn2, en2, qu2
<1>6. ASSUME NEW j \in 1 .. k - 1
      PROVE  /\ Placed(line, ws[j], op[j], bg[j], fn[j], en[j], qu[j])
             /\ op[j] \in Nat /\ en[j] \in Nat /\ en[j] <= Len(l)
  <2>1. Placed(l, ws[j], op[j], bg[j], fn[j], en[j], qu[j])
    BY <1>1 DEF Layout
  <2>2. \A i \in 1 .. Len(l) : line[i] = l[i]
    BY DEF Extends
  <2>3. /\ op[j] \in 1 .. Len(l) /\ en[j] \in 1 .. Len(l)
        /\ \A i \in bg[j] .. fn[j] : i \in 1 .. Len(l)
        /\ en[j] <= Len(line)
    <3>1. /\ op[j] \in Nat /\ bg[j] \in Nat /\ fn[j] \in Nat /\ en[j] \in Nat
          /\ 1 <= op[j] /\ op[j] <= bg[j] /\ fn[j] <= en[j] /\ op[j] <= en[j]
          /\ en[j] <= Len(l)
      BY <2>1 DEF Placed
    <3>2. Len(l) \in Nat /\ Len(line) \in Nat /\ Len(l) <= Len(line)
      BY <1>2, <1>4
    <3>3. op[j] \in 1 .. Len(l) /\ en[j] \in 1 .. Len(l) /\ en[j] <= Len(line)
      BY <3>1, <3>2
    <3>4. \A i \in bg[j] .. fn[j] : i \in 1 .. Len(l)
      BY <3>1, <3>2
    <3> QED BY <3>3, <3>4
  <2> QED BY <2>1, <2>2, <2>3 DEF Placed
<1>7. \A j \in 1 .. k : Placed(line, ws[j], op2[j], bg2[j], fn2[j], en2[j], qu2[j])
  <2> TAKE j \in 1 .. k
  <2>1. CASE j = k
    BY <1>3, <1>4, <1>5, <2>1, Zenon
  <2>2. CASE j # k
    <3>1. j \in 1 .. k - 1
      BY <2>2
    <3> QED BY <1>5, <1>6, <3>1
  <2> QED BY <2>1, <2>2
<1>8. \A i, j \in 1 .. k : i < j => en2[i] + 1 < op2[j]
  <2> SUFFICES ASSUME NEW i \in 1 .. k, NEW j \in 1 .. k, i < j
               PROVE  en2[i] + 1 < op2[j]
    OBVIOUS
  <2>1. i \in 1 .. k - 1 /\ k # 1
    OBVIOUS
  <2>2. CASE j = k
    <3>1. en[i] \in Nat /\ en[i] <= Len(l) /\ d > Len(l)
      BY <1>2, <1>6, <2>1
    <3> QED BY <1>2, <1>4, <1>5, <2>1, <2>2, <3>1
  <2>3. CASE j # k
    <3>1. j \in 1 .. k - 1
      BY <2>3
    <3> QED BY <1>1, <1>5, <2>1, <3>1 DEF Layout
  <2> QED BY <2>2, <2>3
<1>9. op2[1] = 1 /\ en2[k] = Len(line)
  <2>1. CASE k = 1
    BY <1>2, <1>4, <1>5, <1>12, <2>1
  <2>2. CASE k # 1
    <3>1. 1 \in 1 .. k - 1 /\ k - 1 # 0
      BY <2>2
    <3>2. op[1] = 1
      BY <1>1, <3>1 DEF Layout
    <3> QED BY <1>2, <1>5, <3>1, <3>2
  <2> QED BY <2>1, <2>2
<1>10. ASSUME NEW i \in 1 .. Len(line)
       PROVE  /\ line[i] # NUL
              /\ \/ line[i] \in Blanks
                 \/ \E j \in 1 .. k : op2[j] <= i /\ i <= en2[j]
  <2>1. CASE i <= Len(l)
    <3>1. i \in 1 .. Len(l) /\ line[i] = l[i]
      BY <1>2, <2>1 DEF Extends
    <3>2. l[i] # NUL
      BY <1>1, <3>1 DEF Layout
    <3>3. CASE l[i] \in Blanks
      BY <3>1, <3>2, <3>3
    <3>4. ASSUME NEW j \in 1 .. k - 1, op[j] <= i, i <= en[j]
          PROVE  \E g \in 1 .. k : op2[g] <= i /\ i <= en2[g]
      <4>1. j \in 1 .. k /\ op2[j] <= i /\ i <= en2[j]
        BY <1>5, <3>4
      <4> QED BY <4>1
    <3> QED BY <1>1, <3>1, <3>2, <3>3, <3>4 DEF Layout
  <2>2. CASE i > Len(l) /\ i <= d
    <3>1. line[i] \in Blanks
      BY <1>2, <2>2 DEF Extends
    <3> QED BY <3>1 DEF Blanks, NUL
  <2>3. CASE i > d
    <3>1. i - d \in 1 .. Len(t) /\ i = d + (i - d)
      BY <1>2, <1>4, <1>12, <2>3
    <3>2. line[i] = t[i - d]
      BY <3>1 DEF Extends
    <3>3. line[i] # NUL
      BY <3>1, <3>2 DEF TypedAs
    <3>4. k \in 1 .. k /\ op2[k] <= i /\ i <= en2[k]
      BY <1>2, <1>4, <1>5, <1>12, <2>3
    <3> QED BY <3>3, <3>4
  <2> QED BY <1>2, <2>1, <2>2, <2>3
<1>11. Layout(line, ws, k, op2, bg2, fn2, en2, qu2)
  BY <1>2, <1>7, <1>8, <1>9, <1>10 DEF Layout
<1> QED BY <1>11 DEF LaidOut
(* The least element of a set of numbers, and induction from it.           *)
LEMMA Least ==
    ASSUME NEW S \in SUBSET Nat, S # {}
    PROVE  \E n \in S : \A m \in S : n <= m
<1>1. PICK n \in S : \A m \in S : ~ (<<m, n>> \in OpToRel(<, Nat))
  BY NatLessThanWellFounded, WFMin
<1>2. \A m \in S : n <= m
  <2> TAKE m \in S
  <2>1. <<m, n>> \in Nat \X Nat /\ ~ (<<m, n>> \in OpToRel(<, Nat))
    BY <1>1
  <2>2. ~ (m < n)
    BY <2>1 DEF OpToRel
  <2> QED BY <2>2
<1> QED BY <1>2

LEMMA Reaches ==
    ASSUME NEW n \in Nat, NEW S, 0 \in S,
           \A i \in 1 .. n : i - 1 \in S => i \in S
    PROVE  n \in S
<1> DEFINE T == {i \in 0 .. n : i \notin S}
<1> SUFFICES ASSUME T # {} PROVE FALSE
  OBVIOUS
<1>1. PICK k \in T : \A j \in T : k <= j
  <2>1. T \in SUBSET Nat
    OBVIOUS
  <2> QED BY <2>1, Least
<1>2. k \in 1 .. n /\ k - 1 \in 0 .. n /\ ~ (k <= k - 1)
  OBVIOUS
<1>3. k - 1 \in S
  BY <1>1, <1>2
<1> QED BY <1>1, <1>2, <1>3

LinesRun(f, ws, b) ==
    f = [k \in 0 .. Len(ws) |->
            IF k = 0 THEN {<<>>} ELSE Longer(f[k - 1], b, ws[k])]

LEMMA LinesRuns ==
    ASSUME NEW ws, Len(ws) \in Nat, NEW b
    PROVE  \E f : LinesRun(f, ws, b) /\ Lines(ws, b) = f[Len(ws)]
<1> DEFINE n == Len(ws)
           Turns(f, k) == f[0] = {<<>>} /\ \A i \in 1 .. k : f[i] = Longer(f[i - 1], b, ws[i])
           K == {k \in 0 .. n : \E f : Turns(f, k)}
<1>1. 0 \in K
  <2> DEFINE f == [i \in 0 .. 0 |-> {<<>>}]
  <2>1. f[0] = {<<>>} /\ 1 .. 0 = {}
    OBVIOUS
  <2> HIDE DEF f
  <2> QED BY <2>1
<1>2. ASSUME NEW k \in 1 .. n, k - 1 \in K PROVE k \in K
  <2>1. PICK g : Turns(g, k - 1)
    BY <1>2
  <2> DEFINE y == Longer(g[k - 1], b, ws[k])
             f == [i \in 0 .. k |-> IF i = k THEN y ELSE g[i]]
  <2>2. f[k] = y /\ \A i \in 0 .. k - 1 : f[i] = g[i]
    <3>1. k \in 0 .. k /\ \A i \in 0 .. k - 1 : i \in 0 .. k /\ i # k
      OBVIOUS
    <3> QED BY <3>1
  <2> HIDE DEF f
  <2>3. ASSUME NEW i \in 1 .. k PROVE f[i] = Longer(f[i - 1], b, ws[i])
    <3>1. CASE i = k
      <4>1. k - 1 \in 0 .. k - 1
        OBVIOUS
      <4> QED BY <2>2, <3>1, <4>1
    <3>2. CASE i # k
      <4>1. i \in 1 .. k - 1 /\ i \in 0 .. k - 1 /\ i - 1 \in 0 .. k - 1
        BY <3>2
      <4> QED BY <2>1, <2>2, <4>1
    <3> QED BY <3>1, <3>2
  <2>4. f[0] = {<<>>}
    <3>1. 0 \in 0 .. k - 1
      OBVIOUS
    <3> QED BY <2>1, <2>2, <3>1
  <2>5. Turns(f, k)
    BY <2>3, <2>4
  <2> HIDE DEF Turns
  <2> QED BY <2>5
<1>3. \E f : Turns(f, n)
  <2> HIDE DEF K, Turns
  <2>1. n \in K
    BY <1>1, <1>2, Reaches
  <2> QED BY <2>1 DEF K
<1>4. PICK f : Turns(f, n)
  BY <1>3
<1> DEFINE g == [k \in 0 .. n |-> f[k]]
<1>5. \A k \in 0 .. n : g[k] = f[k]
  OBVIOUS
<1>6. \A k \in 0 .. n :
         g[k] = IF k = 0 THEN {<<>>} ELSE Longer(g[k - 1], b, ws[k])
  <2> HIDE DEF g
  <2> TAKE k \in 0 .. n
  <2>1. CASE k = 0
    BY <1>4, <1>5, <2>1
  <2>2. CASE k # 0
    <3>1. k \in 1 .. n /\ k - 1 \in 0 .. n
      BY <2>2
    <3>2. g[k] = Longer(g[k - 1], b, ws[k])
      BY <1>4, <1>5, <3>1
    <3> QED BY <2>2, <3>2
  <2> QED BY <2>1, <2>2
<1>7. g = [k \in 0 .. n |-> g[k]]
  OBVIOUS
<1> HIDE DEF g
<1>8. LinesRun(g, ws, b)
  BY <1>6, <1>7, Zenon DEF LinesRun, n
<1>9. \E h : LinesRun(h, ws, b)
  BY <1>8
<1> DEFINE h == CHOOSE f_1 : LinesRun(f_1, ws, b)
<1>10. LinesRun(h, ws, b)
  BY <1>9, Zenon
<1>11. Lines(ws, b) = h[Len(ws)]
  BY Zenon DEF Lines, LinesRun
<1> QED BY <1>10, <1>11

LEMMA LinesLaidOut ==
    ASSUME NEW ws \in Seq(Words), NEW b \in Gaps, NEW line \in Lines(ws, b)
    PROVE  LaidOut(line, ws, Len(ws))
<1> DEFINE n == Len(ws)
<1>0. n \in Nat
  OBVIOUS
<1>1. PICK f : LinesRun(f, ws, b) /\ Lines(ws, b) = f[n]
  BY <1>0, LinesRuns
<1>2. f[0] = {<<>>} /\ \A k \in 1 .. n : f[k] = Longer(f[k - 1], b, ws[k])
  <2>1. \A k \in 0 .. n : f[k] = IF k = 0 THEN {<<>>} ELSE Longer(f[k - 1], b, ws[k])
    BY <1>1, Zenon DEF LinesRun
  <2>2. 0 \in 0 .. n /\ \A k \in 1 .. n : k \in 0 .. n /\ k # 0
    BY <1>0
  <2> QED BY <2>1, <2>2
<1> DEFINE K == {k \in 0 .. n : \A l \in f[k] : LaidOut(l, ws, k)}
<1>3. 0 \in K
  <2>1. <<>> \in Seq(Piece) /\ Len(<<>>) = 0 /\ 1 .. 0 = {}
    OBVIOUS
  <2>2. Layout(<<>>, ws, 0, <<>>, <<>>, <<>>, <<>>, <<>>)
    BY <2>1 DEF Layout
  <2>3. LaidOut(<<>>, ws, 0)
    BY <2>2 DEF LaidOut
  <2>4. 0 \in 0 .. n
    BY <1>0
  <2> QED BY <1>2, <2>3, <2>4
<1>4. ASSUME NEW k \in 1 .. n, k - 1 \in K PROVE k \in K
  <2>1. k \in 0 .. n /\ k \in Nat \ {0} /\ ws[k] \in Words
    BY <1>0
  <2> SUFFICES ASSUME NEW x \in Longer(f[k - 1], b, ws[k]) PROVE LaidOut(x, ws, k)
    BY <1>2, <2>1
  <2>2. PICK l \in f[k - 1], t \in Typings(ws[k]) :
           x = IF l = <<>> THEN t ELSE l \o b \o t
    BY DEF Longer
  <2>3. LaidOut(l, ws, k - 1)
    BY <1>4
  <2>4. l \in Seq(Piece) /\ (k = 1 <=> l = <<>>)
    <3>1. PICK op, bg, fn, en, qu : Layout(l, ws, k - 1, op, bg, fn, en, qu)
      BY <2>3 DEF LaidOut
    <3>2. l \in Seq(Piece) /\ (k = 1 => Len(l) = 0)
      BY <2>1, <3>1 DEF Layout
    <3>3. k # 1 => Len(l) # 0
      <4> SUFFICES ASSUME k # 1 PROVE Len(l) # 0
        OBVIOUS
      <4>1. k - 1 \in 1 .. k - 1 /\ k - 1 # 0
        BY <2>1
      <4>2. Placed(l, ws[k - 1], op[k - 1], bg[k - 1], fn[k - 1], en[k - 1], qu[k - 1])
        BY <3>1, <4>1 DEF Layout
      <4>3. en[k - 1] = Len(l)
        BY <3>1, <4>1 DEF Layout
      <4> QED BY <4>2, <4>3 DEF Placed
    <3> QED BY <3>2, <3>3
  <2>5. PICK q : TypedAs(t, ws[k], q)
    BY <2>1, TypingShape
  <2>6. ws[k] \in Seq(Piece) /\ t \in Seq(Piece) /\ Len(t) >= 1
    <3>1. ws[k] \in Seq(Piece)
      BY <2>1, TypingShape
    <3>2. Len(ws[k]) \in Nat
      BY <3>1
    <3> QED BY <2>5, <3>1, <3>2 DEF TypedAs
  <2>7. PICK d : Extends(x, l, d, t, k)
    BY <2>1, <2>2, <2>4, <2>6, LineExtends
  <2> QED BY <2>1, <2>3, <2>5, <2>6, <2>7, LayoutExtends
<1>5. n \in K
  <2> HIDE DEF K
  <2> QED BY <1>0, <1>3, <1>4, Reaches
<1> QED BY <1>1, <1>5

(* The kinds of turns of the loop of shell_parse_args.                *)
Loop(buf, args, quote, in_arg) ==
    [buf |-> buf, args |-> args, quote |-> quote, in_arg |-> in_arg]

LEMMA TurnBlank ==
    ASSUME NEW buf, NEW args, ~ (Len(args) >= MaxArgs), NEW i, buf[i] \in Blanks
    PROVE  /\ ParseStep(Loop(buf, args, NUL, TRUE), i)
                = Loop([buf EXCEPT ![i] = NUL], args, NUL, FALSE)
           /\ ParseStep(Loop(buf, args, NUL, FALSE), i) = Loop(buf, args, NUL, FALSE)
<1>1. buf[i] \notin Quotes /\ buf[i] # NUL
  BY DEF Blanks, Quotes, NUL
<1> QED BY <1>1 DEF ParseStep, Loop

LEMMA TurnOpen ==
    ASSUME NEW buf, NEW args, ~ (Len(args) >= MaxArgs), NEW i, buf[i] \in Quotes
    PROVE  ParseStep(Loop(buf, args, NUL, FALSE), i)
             = Loop(buf, Append(args, i + 1), buf[i], TRUE)
<1>1. buf[i] \notin Blanks /\ buf[i] # NUL
  BY DEF Blanks, Quotes, NUL
<1> QED BY <1>1 DEF ParseStep, NewArg, Loop

LEMMA TurnClose ==
    ASSUME NEW buf, NEW args, ~ (Len(args) >= MaxArgs), NEW i, buf[i] \in Quotes
    PROVE  ParseStep(Loop(buf, args, buf[i], TRUE), i)
             = Loop([buf EXCEPT ![i] = NUL], args, NUL, TRUE)
<1>1. buf[i] \notin Blanks /\ buf[i] # NUL
  BY DEF Blanks, Quotes, NUL
<1> QED BY <1>1 DEF ParseStep, Loop

LEMMA TurnText ==
    ASSUME NEW buf, NEW args, ~ (Len(args) >= MaxArgs), NEW i, NEW quote,
           buf[i] # quote, quote = NUL => buf[i] \notin Quotes \cup Blanks
    PROVE  ParseStep(Loop(buf, args, quote, TRUE), i) = Loop(buf, args, quote, TRUE)
  BY DEF ParseStep, NewArg, Loop

LEMMA TurnStart ==
    ASSUME NEW buf, NEW args, ~ (Len(args) >= MaxArgs), NEW i,
           buf[i] # NUL, buf[i] \notin Quotes \cup Blanks
    PROVE  ParseStep(Loop(buf, args, NUL, FALSE), i)
             = Loop(buf, Append(args, i), NUL, TRUE)
  BY DEF ParseStep, NewArg, Loop

(* The buffer after i turns: zeros stand behind the texts and behind the   *)
(* words that the loop has passed.                                         *)
CutAt(n, fn, en) == {fn[k] + 1 : k \in 1 .. n} \cup {en[k] + 1 : k \in 1 .. n}
CutUpTo(line, cuts, i) ==
    [j \in 1 .. Len(line) |-> IF j <= i /\ j \in cuts THEN NUL ELSE line[j]]
Firsts(bg, m) == [k \in 1 .. m |-> bg[k]]

(* The loop after i turns, of which m words have begun.                    *)
Reading(s, i, m, line, n, op, bg, fn, en, qu) ==
    /\ m \in 0 .. n
    /\ m > 0 => op[m] <= i
    /\ m < n => i < op[m + 1]
    /\ s = Loop(CutUpTo(line, CutAt(n, fn, en), i), Firsts(bg, m),
                IF m > 0 /\ i < en[m] THEN qu[m] ELSE NUL,
                IF m > 0 /\ i <= en[m] THEN TRUE ELSE FALSE)

LEMMA FirstsShape ==
    ASSUME NEW bg, NEW n \in Nat, \A k \in 1 .. n : bg[k] \in Nat, NEW m \in 0 .. n
    PROVE  /\ Firsts(bg, m) \in Seq(Nat) /\ Len(Firsts(bg, m)) = m
           /\ m < n => Append(Firsts(bg, m), bg[m + 1]) = Firsts(bg, m + 1)
<1> DEFINE a == Firsts(bg, m)
<1>1. a \in Seq(Nat) /\ Len(a) = m /\ \A k \in 1 .. m : a[k] = bg[k]
  BY DEF Firsts
<1>2. ASSUME m < n PROVE Append(a, bg[m + 1]) = Firsts(bg, m + 1)
  <2>1. bg[m + 1] \in Nat
    BY <1>2
  <2> HIDE DEF a
  <2> DEFINE c == Append(a, bg[m + 1])
  <2>2. c \in Seq(Nat) /\ Len(c) = m + 1 /\ c[m + 1] = bg[m + 1]
        /\ \A k \in 1 .. m : c[k] = a[k]
    BY <1>1, <2>1
  <2> HIDE DEF c
  <2>3. \A k \in 1 .. m + 1 : c[k] = bg[k]
    <3> TAKE k \in 1 .. m + 1
    <3>1. CASE k = m + 1
      BY <2>2, <3>1
    <3>2. CASE k # m + 1
      <4>1. k \in 1 .. m
        BY <3>2
      <4> QED BY <1>1, <2>2, <4>1
    <3> QED BY <3>1, <3>2
  <2>4. c = [k \in 1 .. m + 1 |-> c[k]]
    BY <2>2
  <2> QED BY <2>3, <2>4 DEF Firsts, c
<1> QED BY <1>1, <1>2

LEMMA CutStep ==
    ASSUME NEW line \in Seq(Piece), NEW cuts, NEW i \in 1 .. Len(line)
    PROVE  /\ CutUpTo(line, cuts, i - 1)[i] = line[i]
           /\ i \notin cuts => CutUpTo(line, cuts, i) = CutUpTo(line, cuts, i - 1)
           /\ i \in cuts => CutUpTo(line, cuts, i)
                              = [CutUpTo(line, cuts, i - 1) EXCEPT ![i] = NUL]
<1> DEFINE N == Len(line)
<1>1. N \in Nat
  OBVIOUS
<1> HIDE DEF N
<1>2. i \in 1 .. N
  BY DEF N
<1>3. \A j \in 1 .. N : j # i => (j <= i <=> j <= i - 1)
  BY <1>1, <1>2
<1>4. ~ (i <= i - 1) /\ i <= i
  BY <1>1, <1>2
<1> QED BY <1>1, <1>2, <1>3, <1>4 DEF CutUpTo, N
LEMMA NoCut ==
    ASSUME NEW line, NEW ws, NEW n \in Nat, NEW op, NEW bg, NEW fn, NEW en, NEW qu,
           Layout(line, ws, n, op, bg, fn, en, qu), NEW i \in Nat
    PROVE  /\ \A k \in 1 .. n : op[k] <= i /\ i <= en[k] /\ i # fn[k] + 1
                                  => i \notin CutAt(n, fn, en)
           /\ \A m \in 1 .. n : en[m] + 1 < i /\ (m < n => i < op[m + 1])
                                  => i \notin CutAt(n, fn, en)
<1>1. \A k \in 1 .. n :
         /\ op[k] \in Nat /\ fn[k] \in Nat /\ en[k] \in Nat
         /\ op[k] <= fn[k] + 1 /\ fn[k] <= en[k] /\ op[k] <= en[k]
  BY DEF Layout, Placed
<1>2. \A j, k \in 1 .. n : j < k => en[j] + 1 < op[k]
  BY DEF Layout
<1>3. ASSUME NEW k \in 1 .. n, op[k] <= i, i <= en[k], i # fn[k] + 1,
             NEW j \in 1 .. n, i = fn[j] + 1 \/ i = en[j] + 1
      PROVE  FALSE
  <2>1. CASE j < k
    <3>1. en[j] + 1 < op[k]
      BY <1>2, <2>1
    <3> QED BY <1>1, <1>3, <3>1
  <2>2. CASE j = k
    BY <1>1, <1>3, <2>2
  <2>3. CASE k < j
    <3>1. en[k] + 1 < op[j]
      BY <1>2, <2>3
    <3> QED BY <1>1, <1>3, <3>1
  <2> QED BY <2>1, <2>2, <2>3
<1>4. ASSUME NEW m \in 1 .. n, en[m] + 1 < i, m < n => i < op[m + 1],
             NEW j \in 1 .. n, i = fn[j] + 1 \/ i = en[j] + 1
      PROVE  FALSE
  <2>1. CASE j < m
    <3>1. en[j] + 1 < op[m]
      BY <1>2, <2>1
    <3> QED BY <1>1, <1>4, <3>1
  <2>2. CASE j = m
    BY <1>1, <1>4, <2>2
  <2>3. CASE m < j
    <3>1. m + 1 \in 1 .. n /\ m < n /\ (m + 1 = j \/ m + 1 < j)
      BY <2>3
    <3>2. i < op[m + 1] /\ op[m + 1] <= op[j]
      <4>1. m + 1 < j => en[m + 1] + 1 < op[j]
        BY <1>2, <3>1
      <4> QED BY <1>1, <1>4, <3>1, <4>1
    <3> QED BY <1>1, <1>4, <3>1, <3>2
  <2> QED BY <2>1, <2>2, <2>3
<1> QED BY <1>3, <1>4 DEF CutAt

LEMMA ReadStep ==
    ASSUME NEW line, NEW ws, NEW n \in Nat, n < MaxArgs,
           NEW op, NEW bg, NEW fn, NEW en, NEW qu,
           Layout(line, ws, n, op, bg, fn, en, qu), NEW i \in 1 .. Len(line),
           NEW s, NEW m, Reading(s, i - 1, m, line, n, op, bg, fn, en, qu)
    PROVE  \E k : Reading(ParseStep(s, i), i, k, line, n, op, bg, fn, en, qu)
<1> DEFINE cuts == CutAt(n, fn, en)
           before == CutUpTo(line, cuts, i - 1)
           after == CutUpTo(line, cuts, i)
           args == Firsts(bg, m)
<1>1. /\ line \in Seq(Piece) /\ Len(line) \in Nat /\ i \in Nat /\ line[i] # NUL
      /\ m \in 0 .. n /\ m \in Nat
      /\ m > 0 => op[m] <= i - 1
      /\ m < n => i - 1 < op[m + 1]
  BY DEF Layout, Reading
<1>2. s = Loop(before, args, IF m > 0 /\ i - 1 < en[m] THEN qu[m] ELSE NUL,
               IF m > 0 /\ i - 1 <= en[m] THEN TRUE ELSE FALSE)
  BY DEF Reading
<1>3. \A k \in 1 .. n : Placed(line, ws[k], op[k], bg[k], fn[k], en[k], qu[k])
  BY DEF Layout
<1>4. \A k \in 1 .. n :
         /\ op[k] \in Nat /\ bg[k] \in Nat /\ fn[k] \in Nat /\ en[k] \in Nat
         /\ op[k] <= en[k] /\ en[k] <= Len(line)
  BY <1>3 DEF Placed
<1>5. before[i] = line[i]
      /\ (i \notin cuts => after = before)
      /\ (i \in cuts => after = [before EXCEPT ![i] = NUL])
  BY <1>1, CutStep
<1>6. Len(args) = m /\ ~ (Len(args) >= MaxArgs)
      /\ (m < n => Append(args, bg[m + 1]) = Firsts(bg, m + 1))
  <2>1. \A k \in 1 .. n : bg[k] \in Nat
    BY <1>4
  <2>2. Len(args) = m /\ (m < n => Append(args, bg[m + 1]) = Firsts(bg, m + 1))
    BY <1>1, <2>1, FirstsShape
  <2>3. ~ (m >= MaxArgs)
    <3>1. MaxArgs \in Nat
      BY ShellAssumption
    <3> QED BY <1>1, <3>1
  <2> QED BY <2>2, <2>3
<1>7. /\ \A k \in 1 .. n : op[k] <= i /\ i <= en[k] /\ i # fn[k] + 1 => i \notin cuts
      /\ m \in 1 .. n /\ en[m] + 1 < i /\ (m < n => i < op[m + 1]) => i \notin cuts
  BY <1>1, NoCut
<1> HIDE DEF cuts, before, after, args
\* A word begins.
<1>8. CASE m < n /\ i = op[m + 1]
  <2> DEFINE k == m + 1
  <2>1. k \in 1 .. n /\ Placed(line, ws[k], op[k], bg[k], fn[k], en[k], qu[k])
    BY <1>1, <1>3, <1>8
  <2>2. m > 0 => en[m] + 1 < i
    <3> SUFFICES ASSUME m > 0 PROVE en[m] + 1 < i
      OBVIOUS
    <3>1. m \in 1 .. n /\ k \in 1 .. n /\ m < k
      BY <1>1, <2>1
    <3> QED BY <1>8, <3>1 DEF Layout
  <2>3. s = Loop(before, args, NUL, FALSE)
    <3>1. ~ (m > 0 /\ i - 1 < en[m]) /\ ~ (m > 0 /\ i - 1 <= en[m])
      BY <1>1, <1>4, <2>2
    <3> QED BY <1>2, <3>1
  <2>4. i # fn[k] + 1 /\ i <= en[k] /\ (qu[k] # NUL => i < en[k])
    BY <1>8, <2>1 DEF Placed
  <2>5. after = before
    BY <1>5, <1>7, <1>8, <1>4, <2>1, <2>4
  <2>6. k < n => i < op[k + 1]
    <3> SUFFICES ASSUME k < n PROVE i < op[k + 1]
      OBVIOUS
    <3>1. k + 1 \in 1 .. n /\ k < k + 1
      BY <2>1
    <3>2. en[k] + 1 < op[k + 1]
      BY <2>1, <3>1 DEF Layout
    <3> QED BY <1>1, <1>4, <2>1, <2>4, <3>1, <3>2
  <2>7. ParseStep(s, i) = Loop(before, Append(args, bg[k]), qu[k], TRUE)
    <3>1. CASE qu[k] = NUL
      <4>1. bg[k] = i /\ line[i] \notin Blanks \cup Quotes
        <5>1. bg[k] = i /\ i \in bg[k] .. fn[k]
          BY <1>8, <2>1, <3>1 DEF Placed, Quotes, NUL
        <5> QED BY <1>8, <2>1, <3>1, <5>1 DEF Placed, Quotes, NUL
      <4>2. before[i] # NUL /\ before[i] \notin Quotes \cup Blanks
        BY <1>1, <1>5, <4>1
      <4>3. ParseStep(s, i) = Loop(before, Append(args, i), NUL, TRUE)
        BY <1>6, <2>3, <4>2, TurnStart
      <4> QED BY <3>1, <4>1, <4>3
    <3>2. CASE qu[k] # NUL
      <4>1. bg[k] = i + 1 /\ line[i] = qu[k] /\ qu[k] \in Quotes
        BY <1>8, <2>1, <3>2 DEF Placed
      <4>2. ParseStep(s, i) = Loop(before, Append(args, i + 1), before[i], TRUE)
        BY <1>5, <1>6, <2>3, <4>1, TurnOpen
      <4> QED BY <1>5, <4>1, <4>2
    <3> QED BY <3>1, <3>2
  <2>8. k > 0 /\ k \in 0 .. n
    BY <1>1, <2>1
  <2>9. (IF k > 0 /\ i < en[k] THEN qu[k] ELSE NUL) = qu[k]
        /\ (IF k > 0 /\ i <= en[k] THEN TRUE ELSE FALSE) = TRUE
    BY <2>4, <2>8
  <2>10. op[k] <= i
    BY <1>1, <1>8
  <2>11. Append(args, bg[k]) = Firsts(bg, k)
    BY <1>6, <1>8
  <2> HIDE DEF k
  <2>12. ParseStep(s, i) = Loop(CutUpTo(line, CutAt(n, fn, en), i), Firsts(bg, k), qu[k], TRUE)
    BY <2>5, <2>7, <2>11 DEF after, cuts
  <2> QED BY <2>6, <2>8, <2>9, <2>10, <2>12 DEF Reading
\* Between two words.
<1>9. CASE m > 0 /\ en[m] < i /\ (m < n => i < op[m + 1])
  <2>1. m \in 1 .. n
    BY <1>1, <1>9
  <2>2. line[i] \in Blanks
    <3> SUFFICES ASSUME NEW k \in 1 .. n, op[k] <= i, i <= en[k] PROVE FALSE
      BY DEF Layout
    <3>1. CASE k < m
      <4>1. en[k] + 1 < op[m]
        BY <2>1, <3>1 DEF Layout
      <4> QED BY <1>1, <1>4, <1>9, <2>1, <4>1
    <3>2. CASE k = m
      BY <1>1, <1>4, <1>9, <3>2
    <3>3. CASE k > m
      <4>1. m < n /\ m + 1 \in 1 .. n /\ (k = m + 1 \/ m + 1 < k)
        BY <1>1, <2>1, <3>3
      <4>2. m + 1 < k => en[m + 1] + 1 < op[k]
        BY <4>1 DEF Layout
      <4> QED BY <1>1, <1>4, <1>9, <4>1, <4>2
    <3> QED BY <1>1, <3>1, <3>2, <3>3
  <2>3. op[m] <= i
    BY <1>1, <1>4, <2>1
  <2>4. ~ (i < en[m]) /\ ~ (i <= en[m]) /\ ~ (i - 1 < en[m])
    BY <1>1, <1>4, <1>9, <2>1
  <2>5. ParseStep(s, i) = Loop(after, args, NUL, FALSE)
    <3>1. CASE i = en[m] + 1
      <4>1. i \in cuts
        BY <2>1, <3>1 DEF cuts, CutAt
      <4>2. i - 1 <= en[m]
        BY <1>4, <2>1, <3>1
      <4>3. s = Loop(before, args, NUL, TRUE)
        BY <1>2, <1>9, <2>4, <4>2
      <4> QED BY <1>5, <1>6, <2>2, <4>1, <4>3, TurnBlank
    <3>2. CASE i # en[m] + 1
      <4>1. en[m] + 1 < i
        BY <1>1, <1>4, <1>9, <2>1, <3>2
      <4>2. i \notin cuts
        BY <1>7, <1>9, <2>1, <4>1
      <4>3. ~ (i - 1 <= en[m])
        BY <1>1, <1>4, <2>1, <4>1
      <4>4. s = Loop(before, args, NUL, FALSE)
        BY <1>2, <1>9, <2>4, <4>3
      <4> QED BY <1>5, <1>6, <2>2, <4>2, <4>4, TurnBlank
    <3> QED BY <3>1, <3>2
  <2>6. Reading(ParseStep(s, i), i, m, line, n, op, bg, fn, en, qu)
    BY <1>1, <1>9, <2>3, <2>4, <2>5 DEF Reading, after, cuts, args
  <2> QED BY <2>6
\* Inside a word.
<1>10. CASE m > 0 /\ i <= en[m]
  <2>1. m \in 1 .. n /\ Placed(line, ws[m], op[m], bg[m], fn[m], en[m], qu[m])
    BY <1>1, <1>3, <1>10
  <2>2. op[m] < i /\ op[m] <= i /\ i - 1 < en[m] /\ i - 1 <= en[m]
    BY <1>1, <1>4, <1>10, <2>1
  <2>3. s = Loop(before, args, qu[m], TRUE)
    BY <1>2, <1>10, <2>2
  <2>4. m < n => i < op[m + 1]
    <3> SUFFICES ASSUME m < n PROVE i < op[m + 1]
      OBVIOUS
    <3>1. m + 1 \in 1 .. n /\ m < m + 1
      BY <2>1
    <3>2. en[m] + 1 < op[m + 1]
      BY <2>1, <3>1 DEF Layout
    <3> QED BY <1>1, <1>4, <1>10, <2>1, <3>1, <3>2
  <2>5. ParseStep(s, i) = Loop(after, args, IF i < en[m] THEN qu[m] ELSE NUL, TRUE)
    <3>1. CASE qu[m] = NUL
      <4>1. i \in bg[m] .. fn[m] /\ i # fn[m] + 1
        BY <1>1, <1>10, <2>1, <2>2, <3>1 DEF Placed, Quotes, NUL
      <4>2. line[i] \notin Blanks \cup Quotes
        BY <2>1, <3>1, <4>1 DEF Placed, Quotes, NUL
      <4>3. after = before
        BY <1>5, <1>7, <1>10, <2>1, <2>2, <4>1
      <4>4. before[i] # qu[m] /\ before[i] \notin Quotes \cup Blanks
        BY <1>1, <1>5, <3>1, <4>2
      <4>5. ParseStep(s, i) = Loop(before, args, qu[m], TRUE)
        BY <1>6, <2>3, <4>4, TurnText
      <4> QED BY <3>1, <4>3, <4>5
    <3>2. CASE qu[m] # NUL /\ i = en[m]
      <4>1. i = fn[m] + 1 /\ line[i] = qu[m] /\ qu[m] \in Quotes
        BY <2>1, <3>2 DEF Placed
      <4>2. i \in cuts
        BY <2>1, <4>1 DEF cuts, CutAt
      <4>3. before[i] = qu[m] /\ before[i] \in Quotes
        BY <1>5, <4>1
      <4>4. ~ (i < en[m])
        BY <1>1, <3>2
      <4>5. ParseStep(s, i) = Loop([before EXCEPT ![i] = NUL], args, NUL, TRUE)
        BY <1>6, <2>3, <4>3, TurnClose
      <4> QED BY <1>5, <4>2, <4>4, <4>5
    <3>3. CASE qu[m] # NUL /\ i # en[m]
      <4>0. bg[m] = op[m] + 1 /\ en[m] = fn[m] + 1
        BY <2>1, <3>3 DEF Placed
      <4>1. i \in bg[m] .. fn[m] /\ i # fn[m] + 1 /\ i < en[m]
        BY <1>1, <1>4, <1>10, <2>1, <2>2, <3>3, <4>0
      <4>2. line[i] # qu[m]
        BY <2>1, <3>3, <4>1 DEF Placed
      <4>3. after = before
        BY <1>5, <1>7, <1>10, <2>1, <2>2, <4>1
      <4>5. before[i] # qu[m] /\ (qu[m] = NUL => before[i] \notin Quotes \cup Blanks)
        BY <1>5, <3>3, <4>2
      <4>4. ParseStep(s, i) = Loop(before, args, qu[m], TRUE)
        BY <1>6, <2>3, <4>5, TurnText
      <4> QED BY <4>1, <4>3, <4>4
    <3> QED BY <3>1, <3>2, <3>3
  <2>6. Reading(ParseStep(s, i), i, m, line, n, op, bg, fn, en, qu)
    BY <1>1, <1>10, <2>2, <2>4, <2>5 DEF Reading, after, cuts, args
  <2> QED BY <2>6
<1>11. m = 0 => m < n /\ i = op[m + 1]
  <2> SUFFICES ASSUME m = 0 PROVE m < n /\ i = op[m + 1]
    OBVIOUS
  <2>1. n # 0
    BY DEF Layout
  <2>2. op[1] = 1
    BY <2>1 DEF Layout
  <2> QED BY <1>1, <2>1, <2>2
<1>12. m < n => i = op[m + 1] \/ i < op[m + 1]
  <2> SUFFICES ASSUME m < n PROVE i = op[m + 1] \/ i < op[m + 1]
    OBVIOUS
  <2>1. m + 1 \in 1 .. n
    BY <1>1
  <2> QED BY <1>1, <1>4, <2>1
<1>13. m > 0 => en[m] < i \/ i <= en[m]
  BY <1>1, <1>4
<1> QED BY <1>1, <1>8, <1>9, <1>10, <1>11, <1>12, <1>13

(* The loop of shell_parse_args runs, whatever its turns do.               *)
ParseRun(f, line) ==
    f = [i \in 0 .. Len(line) |->
            IF i = 0 THEN Loop(line, <<>>, NUL, FALSE) ELSE ParseStep(f[i - 1], i)]

LEMMA ParseRuns ==
    ASSUME NEW line, Len(line) \in Nat
    PROVE  \E f : /\ ParseRun(f, line)
                  /\ shell_parse_args(line) =
                       [k \in 1 .. Len(f[Len(line)].args) |->
                           Text(f[Len(line)].buf, f[Len(line)].args[k])]
<1> DEFINE n == Len(line)
           x == Loop(line, <<>>, NUL, FALSE)
           Turns(f, k) == f[0] = x /\ \A i \in 1 .. k : f[i] = ParseStep(f[i - 1], i)
           K == {k \in 0 .. n : \E f : Turns(f, k)}
<1> HIDE DEF x
<1>1. 0 \in K
  <2> DEFINE f == [i \in 0 .. 0 |-> x]
  <2>1. f[0] = x /\ 1 .. 0 = {}
    OBVIOUS
  <2> HIDE DEF f
  <2> QED BY <2>1
<1>2. ASSUME NEW k \in 1 .. n, k - 1 \in K PROVE k \in K
  <2>1. PICK g : Turns(g, k - 1)
    BY <1>2
  <2> DEFINE y == ParseStep(g[k - 1], k)
             f == [i \in 0 .. k |-> IF i = k THEN y ELSE g[i]]
  <2>2. f[k] = y /\ \A i \in 0 .. k - 1 : f[i] = g[i]
    <3>1. k \in 0 .. k /\ \A i \in 0 .. k - 1 : i \in 0 .. k /\ i # k
      OBVIOUS
    <3> QED BY <3>1
  <2> HIDE DEF f
  <2>3. ASSUME NEW i \in 1 .. k PROVE f[i] = ParseStep(f[i - 1], i)
    <3>1. CASE i = k
      <4>1. k - 1 \in 0 .. k - 1
        OBVIOUS
      <4> QED BY <2>2, <3>1, <4>1
    <3>2. CASE i # k
      <4>1. i \in 1 .. k - 1 /\ i \in 0 .. k - 1 /\ i - 1 \in 0 .. k - 1
        BY <3>2
      <4> QED BY <2>1, <2>2, <4>1
    <3> QED BY <3>1, <3>2
  <2>4. f[0] = x
    <3>1. 0 \in 0 .. k - 1
      OBVIOUS
    <3> QED BY <2>1, <2>2, <3>1
  <2>5. Turns(f, k)
    BY <2>3, <2>4
  <2> HIDE DEF Turns
  <2> QED BY <2>5
<1>3. \E f : Turns(f, n)
  <2> HIDE DEF K, Turns
  <2>1. n \in K
    BY <1>1, <1>2, Reaches
  <2> QED BY <2>1 DEF K
<1>4. PICK f : Turns(f, n)
  BY <1>3
<1> DEFINE g == [i \in 0 .. n |-> f[i]]
<1>5. \A i \in 0 .. n : g[i] = f[i]
  OBVIOUS
<1>6. \A i \in 0 .. n : g[i] = IF i = 0 THEN x ELSE ParseStep(g[i - 1], i)
  <2> HIDE DEF g
  <2> TAKE i \in 0 .. n
  <2>1. CASE i = 0
    BY <1>4, <1>5, <2>1
  <2>2. CASE i # 0
    <3>1. i \in 1 .. n /\ i - 1 \in 0 .. n
      BY <2>2
    <3> QED BY <1>4, <1>5, <2>2, <3>1
  <2> QED BY <2>1, <2>2
<1>7. g = [i \in 0 .. n |-> g[i]]
  OBVIOUS
<1> HIDE DEF g
<1>8. ParseRun(g, line)
  BY <1>6, <1>7, Zenon DEF ParseRun, n, x
<1> DEFINE h == CHOOSE f_1 : ParseRun(f_1, line)
<1>9. ParseRun(h, line)
  BY <1>8, Zenon
<1>10. shell_parse_args(line) =
         [k \in 1 .. Len(h[Len(line)].args) |->
             Text(h[Len(line)].buf, h[Len(line)].args[k])]
  BY Zenon DEF shell_parse_args, ParseRun, Loop
<1> QED BY <1>9, <1>10

(* What is left of the line in the place of word k.                        *)
LEMMA TextLeft ==
    ASSUME NEW line, NEW ws, NEW n \in Nat, NEW op, NEW bg, NEW fn, NEW en, NEW qu,
           Layout(line, ws, n, op, bg, fn, en, qu), NEW k \in 1 .. n,
           ws[k] \in Seq(Piece)
    PROVE  Text(CutUpTo(line, CutAt(n, fn, en), Len(line)), bg[k]) = ws[k]
<1> DEFINE cuts == CutAt(n, fn, en)
           N == Len(line)
           buf == CutUpTo(line, cuts, N)
           w == ws[k]
           b == bg[k]
           f == fn[k]
<1>1. line \in Seq(Piece) /\ N \in Nat /\ \A j \in 1 .. N : line[j] # NUL
  BY DEF Layout
<1>2. /\ b \in Nat /\ f \in Nat /\ 1 <= b /\ b <= f + 1 /\ f <= N
      /\ f = b + Len(w) - 1 /\ w \in Seq(Piece) /\ Len(w) \in Nat
      /\ op[k] <= b /\ f <= en[k] /\ op[k] \in Nat /\ en[k] \in Nat
      /\ \A j \in b .. f : line[j] = w[j - b + 1]
  <2>1. Placed(line, ws[k], op[k], bg[k], fn[k], en[k], qu[k])
    BY DEF Layout
  <2>2. /\ op[k] \in Nat /\ b \in Nat /\ f \in Nat /\ en[k] \in Nat
        /\ 1 <= op[k] /\ op[k] <= b /\ b <= f + 1 /\ f <= en[k] /\ en[k] <= N
    BY <2>1 DEF Placed
  <2>3. f = b + Len(w) - 1 /\ \A j \in b .. f : line[j] = w[j - b + 1]
    BY <2>1 DEF Placed
  <2>4. w \in Seq(Piece) /\ Len(w) \in Nat
    OBVIOUS
  <2> HIDE DEF w, b, f, N
  <2>5. 1 <= b /\ f <= N
    BY <1>1, <2>2
  <2> QED BY <2>2, <2>3, <2>4, <2>5
<1>3. buf \in Seq(Piece \cup {NUL}) /\ Len(buf) = N
      /\ \A j \in 1 .. N : buf[j] = IF j \in cuts THEN NUL ELSE line[j]
  <2>1. buf \in [1 .. N -> Piece \cup {NUL}]
    BY <1>1 DEF CutUpTo
  <2>2. \A j \in 1 .. N : buf[j] = IF j \in cuts THEN NUL ELSE line[j]
    BY <1>1 DEF CutUpTo
  <2> HIDE DEF buf
  <2> QED BY <1>1, <2>1, <2>2
<1>4. f + 1 \in cuts
  BY DEF CutAt
<1> HIDE DEF buf, w, b, f
<1>5. \A j \in b .. f : j \in 1 .. N /\ buf[j] = w[j - b + 1] /\ buf[j] # NUL
  <2> SUFFICES ASSUME NEW j \in b .. f
               PROVE  j \in 1 .. N /\ buf[j] = w[j - b + 1] /\ buf[j] # NUL
    OBVIOUS
  <2>1. j \in 1 .. N /\ j \in Nat /\ op[k] <= j /\ j <= en[k] /\ j # f + 1
    BY <1>1, <1>2
  <2>2. j \notin cuts
    BY <2>1, NoCut DEF f
  <2> QED BY <1>1, <1>2, <1>3, <2>1, <2>2
<1> DEFINE zeros == {j \in b .. Len(buf) : buf[j] = NUL}
<1>6. \A j \in zeros : f + 1 <= j
  BY <1>1, <1>2, <1>3, <1>5
<1>7. Text(buf, b) = SubSeq(buf, b, f)
  <2>1. CASE f + 1 <= N
    <3>1. f + 1 \in zeros
      BY <1>1, <1>2, <1>3, <1>4, <2>1
    <3>2. \A j \in zeros : j \in Int
      BY <1>2, <1>3
    <3> HIDE DEF zeros
    <3>3. (CHOOSE j \in zeros : \A i \in zeros : j <= i) = f + 1
      <4> DEFINE least == CHOOSE j \in zeros : \A i \in zeros : j <= i
      <4>1. \E j \in zeros : \A i \in zeros : j <= i
        BY <1>6, <3>1
      <4>2. least \in zeros /\ \A i \in zeros : least <= i
        BY <4>1
      <4> HIDE DEF least
      <4>3. least = f + 1
        BY <1>2, <1>6, <3>1, <3>2, <4>2
      <4> QED BY <4>3 DEF least
    <3>4. zeros # {} /\ (f + 1) - 1 = f
      BY <1>2, <3>1
    <3>5. Text(buf, b) = SubSeq(buf, b, IF zeros = {} THEN Len(buf)
                             ELSE (CHOOSE j \in zeros : \A i \in zeros : j <= i) - 1)
      BY DEF Text, zeros
    <3> QED BY <3>3, <3>4, <3>5
  <2>2. CASE ~ (f + 1 <= N)
    <3>1. f = N
      BY <1>1, <1>2, <2>2
    <3>2. zeros = {}
      <4> SUFFICES ASSUME NEW j \in zeros PROVE FALSE
        OBVIOUS
      <4> QED BY <1>1, <1>2, <1>3, <1>6, <2>2
    <3>3. Text(buf, b) = SubSeq(buf, b, IF zeros = {} THEN Len(buf)
                             ELSE (CHOOSE j \in zeros : \A i \in zeros : j <= i) - 1)
      BY DEF Text, zeros
    <3> QED BY <1>3, <3>1, <3>2, <3>3
  <2> QED BY <2>1, <2>2
<1> DEFINE t == SubSeq(buf, b, f)
<1>8. t \in Seq(Piece \cup {NUL}) /\ Len(t) = Len(w)
      /\ \A j \in 1 .. Len(w) : t[j] = buf[b + j - 1]
  BY <1>1, <1>2, <1>3
<1> HIDE DEF t
<1>9. \A j \in 1 .. Len(w) : t[j] = w[j]
  <2> TAKE j \in 1 .. Len(w)
  <2>1. b + j - 1 \in b .. f /\ (b + j - 1) - b + 1 = j
    BY <1>2
  <2>2. buf[b + j - 1] = w[(b + j - 1) - b + 1]
    BY <1>5, <2>1
  <2> QED BY <1>8, <2>1, <2>2
<1>10. w = [j \in 1 .. Len(w) |-> w[j]] /\ t = [j \in 1 .. Len(t) |-> t[j]]
  BY <1>2, <1>8
<1>11. t = w
  BY <1>8, <1>9, <1>10
<1>12. Text(buf, b) = w
  BY <1>7, <1>11 DEF t
<1> QED BY <1>12 DEF buf, b, w, N, cuts

(***************************************************************************)
(* A line that Lines makes of fewer than MaxArgs words is split into these *)
(* words again, whatever they contain and however they are quoted.         *)
(***************************************************************************)
LEMMA SplitsBack ==
    ASSUME NEW ws \in Seq(Words), Len(ws) < MaxArgs, NEW gap \in Gaps,
           NEW line \in Lines(ws, gap)
    PROVE  shell_parse_args(line) = ws
<1> DEFINE n == Len(ws)
           N == Len(line)
<1>0. n \in Nat /\ n < MaxArgs
  OBVIOUS
<1>1. PICK op, bg, fn, en, qu : Layout(line, ws, n, op, bg, fn, en, qu)
  BY LinesLaidOut DEF LaidOut
<1>2. line \in Seq(Piece) /\ N \in Nat
  BY <1>1 DEF Layout
<1>3. PICK f : /\ ParseRun(f, line)
               /\ shell_parse_args(line) =
                    [k \in 1 .. Len(f[N].args) |-> Text(f[N].buf, f[N].args[k])]
  BY <1>2, ParseRuns
<1> DEFINE Reads(s, i) == \E m : Reading(s, i, m, line, n, op, bg, fn, en, qu)
           K == {i \in 0 .. N : Reads(f[i], i)}
<1>4. \A k \in 1 .. n : op[k] \in Nat /\ op[k] >= 1 /\ op[k] <= N /\ bg[k] \in Nat
  <2>1. \A k \in 1 .. n : Placed(line, ws[k], op[k], bg[k], fn[k], en[k], qu[k])
    BY <1>1 DEF Layout
  <2> TAKE k \in 1 .. n
  <2>2. /\ op[k] \in Nat /\ bg[k] \in Nat /\ en[k] \in Nat
        /\ 1 <= op[k] /\ op[k] <= en[k] /\ en[k] <= N
    BY <2>1 DEF Placed
  <2> QED BY <1>2, <2>2
<1>5. 0 \in K
  <2>1. f[0] = Loop(line, <<>>, NUL, FALSE)
    <3>1. 0 \in 0 .. N
      BY <1>2
    <3> QED BY <1>3, <3>1 DEF ParseRun
  <2>2. CutUpTo(line, CutAt(n, fn, en), 0) = line
    <3>1. line = [j \in 1 .. N |-> line[j]]
      BY <1>2
    <3>2. \A j \in 1 .. N : ~ (j <= 0)
      BY <1>2
    <3> QED BY <3>1, <3>2 DEF CutUpTo
  <2>3. Firsts(bg, 0) = <<>>
    <3>1. 0 \in 0 .. n /\ \A k \in 1 .. n : bg[k] \in Nat
      BY <1>0, <1>4
    <3>2. Firsts(bg, 0) \in Seq(Nat) /\ Len(Firsts(bg, 0)) = 0
      BY <1>0, <3>1, FirstsShape
    <3> QED BY <3>2
  <2>4. 0 < n => 0 < op[0 + 1]
    BY <1>0, <1>4
  <2>7. f[0] = Loop(CutUpTo(line, CutAt(n, fn, en), 0), Firsts(bg, 0),
                    IF 0 > 0 /\ 0 < en[0] THEN qu[0] ELSE NUL,
                    IF 0 > 0 /\ 0 <= en[0] THEN TRUE ELSE FALSE)
    <3>1. ~ (0 > 0)
      OBVIOUS
    <3> QED BY <2>1, <2>2, <2>3, <3>1
  <2>8. 0 \in 0 .. n /\ ~ (0 > 0)
    BY <1>0
  <2>5. Reading(f[0], 0, 0, line, n, op, bg, fn, en, qu)
    BY <2>4, <2>7, <2>8 DEF Reading
  <2>6. 0 \in 0 .. N
    BY <1>2
  <2> QED BY <2>5, <2>6
<1>6. ASSUME NEW i \in 1 .. N, i - 1 \in K PROVE i \in K
  <2>1. PICK m : Reading(f[i - 1], i - 1, m, line, n, op, bg, fn, en, qu)
    BY <1>6
  <2>2. \E k : Reading(ParseStep(f[i - 1], i), i, k, line, n, op, bg, fn, en, qu)
    BY <1>0, <1>1, <2>1, ReadStep
  <2>3. i \in 0 .. N /\ i # 0
    BY <1>2
  <2>4. f[i] = ParseStep(f[i - 1], i)
    BY <1>3, <2>3, Zenon DEF ParseRun
  <2> QED BY <2>2, <2>3, <2>4
<1>7. Reads(f[N], N)
  <2>1. N \in K
    <3> HIDE DEF K
    <3> QED BY <1>2, <1>5, <1>6, Reaches
  <2> QED BY <2>1
<1>8. PICK m : Reading(f[N], N, m, line, n, op, bg, fn, en, qu)
  BY <1>7
<1>9. m = n
  <2>1. m \in 0 .. n /\ (m < n => N < op[m + 1])
    BY <1>8 DEF Reading
  <2>2. m < n => m + 1 \in 1 .. n
    BY <1>0, <2>1
  <2> QED BY <1>0, <1>2, <1>4, <2>1, <2>2
<1> DEFINE buf == CutUpTo(line, CutAt(n, fn, en), N)
           args == Firsts(bg, n)
<1>10. f[N].buf = buf /\ f[N].args = args
  BY <1>8, <1>9 DEF Reading, Loop
<1>11. Len(args) = n /\ \A k \in 1 .. n : args[k] = bg[k]
  <2>1. n \in 0 .. n /\ \A k \in 1 .. n : bg[k] \in Nat
    BY <1>0, <1>4
  <2>2. Len(args) = n
    BY <1>0, <2>1, FirstsShape
  <2> QED BY <2>2 DEF Firsts
<1>12. \A k \in 1 .. n : Text(buf, args[k]) = ws[k]
  <2> TAKE k \in 1 .. n
  <2>1. ws[k] \in Words
    OBVIOUS
  <2>2. ws[k] \in Seq(Piece)
    <3>1. ws[k] \in Seq(Chunks(ws[k]) \ {NUL})
      BY <2>1, ShellAssumption
    <3>2. Chunks(ws[k]) \ {NUL} \subseteq Piece
      BY <2>1 DEF Piece
    <3> QED BY <3>1, <3>2
  <2>3. Text(buf, bg[k]) = ws[k]
    BY <1>0, <1>1, <2>2, TextLeft
  <2> QED BY <1>11, <2>3
<1> HIDE DEF buf, args
<1>13. shell_parse_args(line) = [k \in 1 .. n |-> ws[k]]
  BY <1>3, <1>10, <1>11, <1>12
<1>14. ws = [k \in 1 .. n |-> ws[k]]
  OBVIOUS
<1> QED BY <1>13, <1>14

(***************************************************************************)
(* A command gets the words the user meant, quoted or not, empty ones and  *)
(* blanks inside quotes included (shell.c:134-177), on every line of fewer *)
(* than MaxArgs words.                                                     *)
(***************************************************************************)
THEOREM SplitExactAlways == ShellSpec => []SplitExact
<1>1. ShellInit => SplitExact
  BY DEF ShellInit, ShellBoot, SplitExact
<1>2. SplitExact /\ [ShellNext]_allVars => SplitExact'
  <2> SUFFICES ASSUME SplitExact, [ShellNext]_allVars, sh' = "run", Len(typed') < MaxArgs
               PROVE  argv' = typed'
    BY DEF SplitExact
  <2>1. CASE ReadLine
    <3>1. ASSUME NEW ws \in SeqOf(Words, MaxWords), NEW b \in Gaps,
                 NEW line \in Lines(ws, b), Read(line, ws)
          PROVE  argv' = typed'
      <4>1. ws \in Seq(Words)
        BY ShellAssumption DEF SeqOf
      <4>2. argv' = shell_parse_args(line) /\ typed' = ws
        BY <3>1 DEF Read
      <4>3. Len(ws) < MaxArgs
        BY <4>2
      <4> QED BY <4>1, <4>2, <4>3, SplitsBack
    <3>2. ASSUME NEW line \in OddLines, Read(line, shell_parse_args(line))
          PROVE  argv' = typed'
      BY <3>2 DEF Read
    <3> QED BY <2>1, <3>1, <3>2 DEF ReadLine
  <2>2. CASE Kernel \/ UNCHANGED allVars
    BY <2>2 DEF Kernel, shellVars, allVars, SplitExact
  <2>3. CASE shell_init \/ shell_run
    BY <2>3 DEF shell_init, shell_run, ShellAt, SplitExact
  <2>4. CASE Execute
    BY <2>4 DEF Execute, Finish, SplitExact
  <2>5. CASE cmd_ps \/ PsRow
    BY <2>5 DEF cmd_ps, PsRow, ShellAt, Finish, SplitExact
  <2> QED BY <2>1, <2>2, <2>3, <2>4, <2>5 DEF ShellNext, Command
<1> QED BY <1>1, <1>2, PTL DEF ShellSpec
=============================================================================
