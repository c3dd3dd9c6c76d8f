------------------------------ MODULE Process ------------------------------
(***************************************************************************)
(* The process table and round-robin scheduler of src/kernel/process.c,    *)
(* with the syscall_exit path of src/kernel/syscall.c.                     *)
(*                                                                         *)
(* Two activities share the table: the kernel thread, which calls          *)
(* process_create, process_terminate, process_switch and syscall_exit one  *)
(* after another, and the timer interrupt (scheduler_tick), which may      *)
(* arrive between any two steps of the thread.  The handler runs with      *)
(* interrupts off, so the thread does not move while irq # "off".  cli()   *)
(* and sti() of process.c are empty functions and protect nothing.         *)
(*                                                                         *)
(* A process_t is named by its pid: the heap never hands an address out    *)
(* twice (kfree keeps nothing for reuse), so neither does repeat.  The     *)
(* handler writes only current_process, state and tick_count; consecutive  *)
(* thread accesses to anything else are one step.  save_context and        *)
(* load_context are empty: a switch changes the table and nothing else.    *)
(***************************************************************************)
EXTENDS Integers, FiniteSets

CONSTANTS
    MaxPid,       \* bound on next_pid: processes 0 .. MaxPid
    TimeSlice,    \* time_slice (10 in the code)
    TickMod,      \* tick_count is a uint32_t: counts modulo 2^32
    Killable,     \* the processes process_terminate may be called on
    ThreadSwitch  \* whether the thread itself calls process_switch

ASSUME ProcessAssumption ==
    /\ MaxPid \in Nat
    /\ TimeSlice \in Nat \ {0}
    /\ TickMod \in Nat \ {0}
    /\ Killable \subseteq 0 .. MaxPid
    /\ ThreadSwitch \in BOOLEAN

Pid  == 0 .. MaxPid
NULL == -1

VARIABLES
    process_list,     \* head of the singly linked list of processes
    current_process,  \* the process holding the CPU
    next_pid,         \* identifier of the next process
    next,             \* the link field of every process_t
    state,            \* the state field of every process_t
    tick_count,       \* timer ticks, modulo TickMod
    pc,               \* where the kernel thread is
    arg,              \* the process_t the thread is working on
    temp,             \* the list walker of process_terminate
    irq,              \* where the timer handler is: "off", "scan", "fault"
    cand              \* the variable next of process_schedule

vars == <<process_list, current_process, next_pid, next, state, tick_count,
          pc, arg, temp, irq, cand>>
threadVars == <<pc, arg, temp>>
irqVars    == <<tick_count, irq, cand>>
tableVars  == <<process_list, next_pid, next>>

Created    == {"READY", "RUNNING"}
States     == Created \cup {"UNUSED", "TERMINATED"}
Unlinking  == {"t_begin", "t_walk"}
Unlinked   == {"t_current", "t_assign", "t_finish"}
Switching  == {"s_ready", "s_current", "s_running"}
ThreadPC   == {"idle", "c_publish"} \cup Unlinking \cup Unlinked \cup Switching

(***************************************************************************)
(* Alive: created, entered in the list, and not yet marked TERMINATED.     *)
(* Listed: reachable from process_list (proved as part of the invariant).  *)
(***************************************************************************)
Alive  == {p \in Pid : state[p] \in Created /\ ~(pc = "c_publish" /\ p = arg)}
Listed == {p \in Alive : ~(pc \in Unlinked /\ p = arg)}

(* process_init: the kernel is process 0, RUNNING, alone and current.      *)
Init ==
    /\ process_list = 0
    /\ current_process = 0
    /\ next_pid = 1
    /\ next = [p \in Pid |-> NULL]
    /\ state = [p \in Pid |-> IF p = 0 THEN "RUNNING" ELSE "UNUSED"]
    /\ tick_count = 0
    /\ pc = "idle" /\ arg = NULL /\ temp = NULL
    /\ irq = "off" /\ cand = NULL

-----------------------------------------------------------------------------
(***************************************************************************)
(* The kernel thread.  The thread runs only while no handler does.         *)
(***************************************************************************)
At(label) == irq = "off" /\ pc = label

(* A fault in CreateFill: the new process is published before it is linked *)
CreateFillPublishFirst ==
    /\ At("idle")
    /\ next_pid <= MaxPid
    /\ next_pid' = next_pid + 1
    /\ state' = [state EXCEPT ![next_pid] = "READY"]
    /\ process_list' = next_pid
    /\ arg' = next_pid
    /\ pc' = "c_publish"
    /\ UNCHANGED <<current_process, next, temp, irqVars>>

(* process_create up to new_process->next: the record is still private.    *)
CreateFill ==
    /\ At("idle")
    /\ next_pid <= MaxPid
    /\ next_pid' = next_pid + 1
    /\ state' = [state EXCEPT ![next_pid] = "READY"]
    /\ next' = [next EXCEPT ![next_pid] = process_list]
    /\ arg' = next_pid
    /\ pc' = "c_publish"
    /\ UNCHANGED <<process_list, current_process, temp, irqVars>>

(* process_create, its last store: process_list = new_process.             *)
CreatePublish ==
    /\ At("c_publish")
    /\ process_list' = arg
    /\ pc' = "idle"
    /\ UNCHANGED <<current_process, next_pid, next, state, arg, temp, irqVars>>

(* process_terminate(p), on any process_t created before, terminated ones  *)
(* included (the walk then finds nothing and the stores repeat).           *)
Terminate(p) ==
    /\ At("idle")
    /\ state[p] # "UNUSED"
    /\ arg' = p
    /\ pc' = "t_begin"
    /\ UNCHANGED <<tableVars, current_process, state, temp, irqVars>>

(* syscall_exit reads current_process, prints, then terminates what it read *)
SyscallExit ==
    /\ At("idle")
    /\ current_process \in Killable
    /\ arg' = current_process
    /\ pc' = "t_begin"
    /\ UNCHANGED <<tableVars, current_process, state, temp, irqVars>>

(* process_terminate: unlink the head, or start walking the list.          *)
TerminateBegin ==
    /\ At("t_begin")
    /\ \/ /\ arg = process_list
          /\ process_list' = next[arg]
          /\ pc' = "t_current"
          /\ UNCHANGED temp
       \/ /\ arg # process_list
          /\ temp' = process_list
          /\ pc' = "t_walk"
          /\ UNCHANGED process_list
    /\ UNCHANGED <<current_process, next_pid, next, state, arg, irqVars>>

(* One test of the walk's loop, and the unlinking that follows it.         *)
TerminateWalk ==
    /\ At("t_walk")
    /\ \/ /\ temp # NULL /\ next[temp] # arg
          /\ temp' = next[temp]
          /\ UNCHANGED <<next, pc>>
       \/ /\ temp # NULL /\ next[temp] = arg
          /\ next' = [next EXCEPT ![temp] = next[arg]]
          /\ pc' = "t_current"
          /\ UNCHANGED temp
       \/ /\ temp = NULL
          /\ pc' = "t_current"
          /\ UNCHANGED <<next, temp>>
    /\ UNCHANGED <<process_list, current_process, next_pid, state, arg, irqVars>>

(* A fault in TerminateCheck: the terminated process may stay current.     *)
TerminateCheckOmitted ==
    /\ At("t_current")
    /\ pc' = "t_finish"
    /\ UNCHANGED <<tableVars, current_process, state, arg, temp, irqVars>>

(* The comparison with current_process; the timer may fire right after it. *)
TerminateCheck ==
    /\ At("t_current")
    /\ pc' = IF arg = current_process THEN "t_assign" ELSE "t_finish"
    /\ UNCHANGED <<tableVars, current_process, state, arg, temp, irqVars>>

(* The CPU goes to the head of the list.                                   *)
TerminateAssign ==
    /\ At("t_assign")
    /\ current_process' = process_list
    /\ pc' = "t_finish"
    /\ UNCHANGED <<tableVars, state, arg, temp, irqVars>>

(* The state is set; the two kfree calls leave the table as it is.         *)
TerminateFinish ==
    /\ At("t_finish")
    /\ state' = [state EXCEPT ![arg] = "TERMINATED"]
    /\ pc' = "idle"
    /\ UNCHANGED <<tableVars, current_process, arg, temp, irqVars>>

(* process_switch called by the thread: three stores, nothing masks the    *)
(* timer between them.                                                     *)
SwitchCall(p) ==
    /\ At("idle")
    /\ ThreadSwitch
    /\ p \in Alive
    /\ p # current_process
    /\ arg' = p
    /\ pc' = "s_ready"
    /\ UNCHANGED <<tableVars, current_process, state, temp, irqVars>>

SwitchReady ==
    /\ At("s_ready")
    /\ \/ /\ current_process # NULL
          /\ state' = [state EXCEPT ![current_process] = "READY"]
          /\ pc' = "s_current"
          /\ UNCHANGED irq
       \/ /\ current_process = NULL
          /\ irq' = "fault"
          /\ UNCHANGED <<state, pc>>
    /\ UNCHANGED <<tableVars, current_process, arg, temp, tick_count, cand>>

SwitchCurrent ==
    /\ At("s_current")
    /\ current_process' = arg
    /\ pc' = "s_running"
    /\ UNCHANGED <<tableVars, state, arg, temp, irqVars>>

SwitchRunning ==
    /\ At("s_running")
    /\ state' = [state EXCEPT ![current_process] = "RUNNING"]
    /\ pc' = "idle"
    /\ UNCHANGED <<tableVars, current_process, arg, temp, irqVars>>

Thread ==
    \/ CreateFill \/ CreatePublish
    \/ SyscallExit
    \/ \E p \in Killable : Terminate(p)
    \/ TerminateBegin \/ TerminateWalk \/ TerminateCheck
    \/ TerminateAssign \/ TerminateFinish
    \/ \E p \in Pid : SwitchCall(p)
    \/ SwitchReady \/ SwitchCurrent \/ SwitchRunning

-----------------------------------------------------------------------------
(***************************************************************************)
(* The timer interrupt.                                                    *)
(***************************************************************************)
(* Faults in Follow: the scan goes back to the head instead of on, or      *)
(* stays at the last process.                                              *)
FollowHead(p) == IF p = process_list THEN next[p] ELSE process_list
FollowStays(p) == IF next[p] = NULL THEN p ELSE next[p]

(* The process after p, or the head of the list after the last one.        *)
Follow(p) == IF next[p] = NULL THEN process_list ELSE next[p]

(* tick_count++, in 32 bits.                                               *)
Ticked(n) == (n + 1) % TickMod

(* scheduler_tick, with process_schedule up to its loop.  With no current  *)
(* process it reads current_process->next through a null pointer.          *)
Tick ==
    /\ irq = "off"
    /\ tick_count' = Ticked(tick_count)
    /\ \/ /\ \/ tick_count' % TimeSlice # 0
             \/ process_list = NULL
             \/ process_list # NULL /\ next[process_list] = NULL
          /\ UNCHANGED <<irq, cand>>
       \/ /\ tick_count' % TimeSlice = 0
          /\ process_list # NULL /\ next[process_list] # NULL
          /\ \/ /\ current_process # NULL
                /\ cand' = Follow(current_process)
                /\ irq' = "scan"
             \/ /\ current_process = NULL
                /\ irq' = "fault"
                /\ UNCHANGED cand
    /\ UNCHANGED <<tableVars, current_process, state, threadVars>>

(* One test of process_schedule's loop and what follows it: the scan is    *)
(* back at the current process, finds a READY one and switches to it       *)
(* (process_switch, atomic here), or moves on.                             *)
ScanBack ==
    /\ irq = "scan" /\ cand = current_process
    /\ irq' = "off"
    /\ UNCHANGED <<tableVars, current_process, state, threadVars, tick_count, cand>>

ScanFound ==
    /\ irq = "scan" /\ cand # current_process
    /\ state[cand] = "READY"
    /\ state' = [state EXCEPT ![current_process] = "READY", ![cand] = "RUNNING"]
    /\ current_process' = cand
    /\ irq' = "off"
    /\ UNCHANGED <<tableVars, threadVars, tick_count, cand>>

ScanOn ==
    /\ irq = "scan" /\ cand # current_process
    /\ state[cand] # "READY"
    /\ cand' = Follow(cand)
    /\ UNCHANGED <<tableVars, current_process, state, threadVars, tick_count, irq>>

Scan == ScanBack \/ ScanFound \/ ScanOn

Next == Thread \/ Tick \/ Scan

Spec == Init /\ [][Next]_vars

(* The timer keeps ticking and the handler, once entered, keeps executing; *)
(* nothing is assumed of the thread.                                       *)
FairSpec ==
    /\ Spec
    /\ WF_vars(Tick)
    /\ WF_vars(Scan)

-----------------------------------------------------------------------------
(***************************************************************************)
(* Properties.                                                             *)
(***************************************************************************)
TypeOK ==
    /\ process_list \in Pid \cup {NULL}
    /\ current_process \in Pid \cup {NULL}
    /\ next_pid \in 1 .. MaxPid + 1
    /\ next \in [Pid -> Pid \cup {NULL}]
    /\ state \in [Pid -> States]
    /\ tick_count \in 0 .. TickMod - 1
    /\ pc \in ThreadPC
    /\ arg \in Pid \cup {NULL}
    /\ temp \in Pid \cup {NULL}
    /\ irq \in {"off", "scan", "fault"}
    /\ cand \in Pid \cup {NULL}

(* succ(p) = q is the next member of S below p, or NULL.                   *)
IsPredecessor(S, q, p) ==
    /\ q \in S \cup {NULL}
    /\ q < p
    /\ \A b \in S : b < p => b <= q

(***************************************************************************)
(* At every instant, the middle of process_create and process_terminate    *)
(* included, process_list links exactly the listed processes, newest       *)
(* first: whatever the handler finds from there is alive, and it finds all *)
(* of them.  Also the process being unlinked still points into the list.   *)
(***************************************************************************)
ListExact ==
    /\ process_list \in Listed \cup {NULL}
    /\ \A b \in Listed : b <= process_list
    /\ \A a \in Listed : IsPredecessor(Listed, next[a], a)
    /\ pc \in Unlinked /\ arg \in Alive => next[arg] \in Listed \cup {NULL}

NoDangling ==
    /\ current_process \in Alive \cup {NULL}
    /\ irq = "scan" => cand \in Alive

FaultNeedsKernelExit ==
    irq = "fault" \/ current_process = NULL => 0 \notin Listed

(***************************************************************************)
(* The CPU is never left with a process that has been terminated: when     *)
(* process_terminate returns, whatever ticks came in between, current and  *)
(* the handler's scan pointer are live processes or NULL (process.c:101),  *)
(* and the null pointer is there, or followed, only if the kernel process  *)
(* itself was terminated first (process.c:134).                            *)
(***************************************************************************)
CurrentSound == NoDangling /\ FaultNeedsKernelExit

(***************************************************************************)
(* The table as a whole implements the abstract one.                       *)
(***************************************************************************)
Born == {p \in Pid : state[p] # "UNUSED" /\ ~(pc = "c_publish" /\ p = arg)}

Table == INSTANCE ProcessTable
    WITH born <- Born, live <- Alive, cur <- current_process

TableSpec == Table!Spec

(***************************************************************************)
(* process_switch pairs the two state stores so that the RUNNING process   *)
(* is the current one, and only it.                                        *)
(***************************************************************************)
OneRunning ==
    \A p \in Listed : state[p] = "RUNNING" => p = current_process

(***************************************************************************)
(* Round robin: a process that is READY in the list gets the CPU, across   *)
(* the wrap of tick_count too.                                             *)
(***************************************************************************)
RoundRobin ==
    \A p \in Pid : (p \in Listed /\ state[p] = "READY") ~> (current_process = p)

(***************************************************************************)
(* The loop of process_schedule ends, whatever races came before, as long  *)
(* as the current process is still linked or a linked process is READY.    *)
(* (Otherwise it does not: see the README on terminating the current       *)
(* process.)                                                               *)
(***************************************************************************)
HandlerReturns ==
    /\ irq = "scan"
    /\ current_process \in Listed \/ \E p \in Listed : state[p] = "READY"
    ~> irq = "off"
=============================================================================
