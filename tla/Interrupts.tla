----------------------------- MODULE Interrupts -----------------------------
(***************************************************************************)
(* Interrupt delivery: the descriptor table and the dispatcher             *)
(* (src/kernel/interrupt/idt.c, and the variant in src/kernel/interrupt.c  *)
(* that acknowledges first), the two 8259 controllers                      *)
(* (src/kernel/interrupt/pic.c), and the order in which kernel_main        *)
(* (src/kernel/init/main.c) sets them up.                                  *)
(*                                                                         *)
(* The controllers and the processor are hardware, modelled from the way   *)
(* pic.c programs them: edge-triggered requests, fixed priorities, a       *)
(* non-specific end of interrupt (EOI), the second controller on line 2.   *)
(***************************************************************************)
EXTENDS Integers

CONSTANTS
    Lines,          \* the interrupt lines with a device, among 0 .. 15
    FirmwareMask,   \* the lines the firmware leaves masked
    Opens,          \* the lines drivers open (pic_clear_mask); none in the code
    Closes,         \* the lines drivers close again (pic_set_mask, pic_disable)
    WithScheduler,  \* scheduler_init is called
    WithSyscalls,   \* init_syscalls is called
    MaxRaise        \* bound on the requests of each device

Master == 0 .. 7
Slave  == 8 .. 15
Cascade == 2

ASSUME InterruptsAssumption ==
    /\ Lines \subseteq (Master \union Slave) \ {Cascade}
    /\ {0, 1} \subseteq Lines
    /\ FirmwareMask \subseteq Master \union Slave
    /\ Opens \subseteq Lines \union {Cascade}
    /\ Closes \subseteq Opens
    /\ WithScheduler \in BOOLEAN /\ WithSyscalls \in BOOLEAN
    /\ MaxRaise \in Nat

AllLines == Master \union Slave
NoLine   == -1
Vector(l) == l + 32
Vectors  == {Vector(l) : l \in AllLines} \union {128}
Handlers == {"NULL", "pit_handler", "keyboard_handler", "scheduler_tick",
             "syscall_handler"}

VARIABLES
    boot,        \* where kernel_main is
    gates,       \* the vectors with a present descriptor
    handlers,    \* interrupt_handlers
    pic_mask,    \* pic1_mask and pic2_mask, the driver's copy
    imr, irr, isr,   \* the controllers: masked, requested, in service
    interrupts,  \* the processor's interrupt flag
    line,        \* the line whose irq_handler runs, or NoLine
    phase,       \* what is left of that irq_handler
    raised,      \* history: requests of each device
    taken,       \* history: timer interrupts since idt_init
    ticks,       \* timer.ticks
    tick_count,  \* the scheduler's count
    keys         \* key presses the keyboard handler has seen

hw    == <<pic_mask, imr, irr, isr>>
cpu   == <<interrupts, line, phase>>
clock == <<taken, ticks, tick_count, keys>>
vars  == <<boot, gates, handlers, hw, cpu, raised, clock>>

-----------------------------------------------------------------------------
(***************************************************************************)
(* The controllers.                                                        *)
(***************************************************************************)
ChipOf(l) == IF l \in Master THEN Master ELSE Slave

(* The second controller's lines rank with line 2, before 3 .. 7.          *)
Prio(l) == IF l <= Cascade THEN l ELSE IF l \in Slave THEN l - 6 ELSE l + 7

(* The in-service bits of an interrupt on line l.                          *)
Service(l) == IF l \in Slave THEN {l, Cascade} ELSE {l}

Open(l) == Service(l) \intersect imr = {}

(* What the controllers would deliver now.                                 *)
Pending == {l \in irr : Open(l) /\ \A m \in isr : Prio(l) < Prio(m)}

(* A non-specific EOI clears the in-service bit of highest priority.       *)
Eoi(bits, chip) ==
    {l \in bits : l \in chip => \E m \in bits \intersect chip : Prio(m) < Prio(l)}

(* A fault in pic_send_eoi: the second controller is forgotten.            *)
EoiMasterOnly(bits, l) == Eoi(bits, Master)

pic_send_eoi(bits, l) ==
    IF l \in Slave THEN Eoi(Eoi(bits, Slave), Master) ELSE Eoi(bits, Master)

(* One data port: the lines of l's controller take the driver's copy.      *)
WriteMask(l, mask) == (imr \ ChipOf(l)) \union (mask \intersect ChipOf(l))

(* A fault in pic_set_mask: the port is not written.                       *)
SetMaskNoPort(l) ==
    /\ pic_mask' = pic_mask \union {l}
    /\ UNCHANGED <<imr, irr, isr>>

pic_set_mask(l) ==
    /\ pic_mask' = pic_mask \union {l}
    /\ imr' = WriteMask(l, pic_mask')
    /\ UNCHANGED <<irr, isr>>

pic_clear_mask(l) ==
    /\ pic_mask' = pic_mask \ {l}
    /\ imr' = WriteMask(l, pic_mask')
    /\ UNCHANGED <<irr, isr>>

(* The driver's copy is left alone.                                        *)
pic_disable ==
    /\ imr' = AllLines
    /\ UNCHANGED <<pic_mask, irr, isr>>

(* The firmware's masks are read into the driver's copy, the controllers   *)
(* are reset, and every line ends up masked.                               *)
pic_init ==
    /\ pic_mask' = imr
    /\ imr' = AllLines
    /\ irr' = {}
    /\ isr' = {}

(* A device requests an interrupt: an edge, remembered once.               *)
Raise(l) ==
    /\ raised[l] < MaxRaise
    /\ raised' = [raised EXCEPT ![l] = @ + 1]
    /\ irr' = irr \union {l}
    /\ UNCHANGED <<boot, gates, handlers, pic_mask, imr, isr, cpu, clock>>

-----------------------------------------------------------------------------
(***************************************************************************)
(* kernel_main.                                                            *)
(***************************************************************************)
register_interrupt_handler(num, handler) ==
    handlers' = [handlers EXCEPT ![num] = handler]

(* Gates 0 .. 31, the controllers, gates 32 .. 47, lidt, sti; interrupts   *)
(* are off until the last of these.                                        *)
idt_init ==
    /\ boot = "start"
    /\ boot' = "pit"
    /\ gates' = 0 .. 47
    /\ pic_init
    /\ interrupts' = TRUE
    /\ UNCHANGED <<handlers, line, phase, raised, clock>>

pit_init ==
    /\ boot = "pit" /\ line = NoLine
    /\ boot' = "keyboard"
    /\ register_interrupt_handler(32, "pit_handler")
    /\ UNCHANGED <<gates, hw, cpu, raised, clock>>

(* A fault in keyboard_init: its handler is not registered.                *)
KeyboardInitSilent ==
    /\ boot = "keyboard" /\ line = NoLine
    /\ boot' = "wait"
    /\ UNCHANGED <<gates, handlers, hw, cpu, raised, clock>>

keyboard_init ==
    /\ boot = "keyboard" /\ line = NoLine
    /\ boot' = "wait"
    /\ register_interrupt_handler(33, "keyboard_handler")
    /\ UNCHANGED <<gates, hw, cpu, raised, clock>>

(* keyboard_wait_keypress returns after a key press.                       *)
keyboard_wait_keypress ==
    /\ boot = "wait" /\ line = NoLine
    /\ keys > 0
    /\ boot' = "shell"
    /\ UNCHANGED <<gates, handlers, hw, cpu, raised, clock>>

Booted == boot \in {"wait", "shell"} /\ line = NoLine

scheduler_init ==
    /\ Booted /\ WithScheduler
    /\ register_interrupt_handler(32, "scheduler_tick")
    /\ UNCHANGED <<boot, gates, hw, cpu, raised, clock>>

init_syscalls ==
    /\ Booted /\ WithSyscalls
    /\ register_interrupt_handler(128, "syscall_handler")
    /\ UNCHANGED <<boot, gates, hw, cpu, raised, clock>>

(* A driver, once the kernel is up, opens or closes lines.                 *)
OpenLine(l) ==
    /\ Booted
    /\ pic_clear_mask(l)
    /\ UNCHANGED <<boot, gates, handlers, cpu, raised, clock>>

CloseLine(l) ==
    /\ Booted
    /\ pic_set_mask(l) \/ pic_disable
    /\ UNCHANGED <<boot, gates, handlers, cpu, raised, clock>>

-----------------------------------------------------------------------------
(***************************************************************************)
(* An interrupt, from delivery to iret.                                    *)
(***************************************************************************)
(* The dispatcher of idt.c acknowledges after the handler, that of         *)
(* interrupt.c before it.                                                  *)
Dispatchers == {<<"call", "eoi">>, <<"eoi", "call">>}

(* The processor takes the pending line of highest priority; the gate is   *)
(* an interrupt gate, and the entry stub executes cli.                     *)
Deliver ==
    /\ interrupts
    /\ \E l \in Pending :
          /\ \A m \in Pending : Prio(l) <= Prio(m)
          /\ Vector(l) \in gates
          /\ line' = l
          /\ irr' = irr \ {l}
          /\ isr' = isr \union Service(l)
          /\ taken' = IF l = 0 THEN taken + 1 ELSE taken
    /\ interrupts' = FALSE
    /\ phase' \in Dispatchers
    /\ UNCHANGED <<boot, gates, handlers, pic_mask, imr, raised, ticks,
                   tick_count, keys>>

(* A fault in pit_handler: the tick is not counted.                        *)
PitHandlerIdle == UNCHANGED <<isr, ticks, tick_count, keys>>

pit_handler ==
    /\ ticks' = ticks + 1
    /\ UNCHANGED <<isr, tick_count, keys>>

(* The handler acknowledges line 1 itself, before it reads the key.        *)
keyboard_handler ==
    /\ isr' = Eoi(isr, Master)
    /\ keys' = keys + 1
    /\ UNCHANGED <<ticks, tick_count>>

(* process.c acknowledges through an empty port_out.                       *)
scheduler_tick ==
    /\ tick_count' = tick_count + 1
    /\ UNCHANGED <<isr, ticks, keys>>

CallHandler ==
    LET h == handlers[Vector(line)]
    IN \/ h = "pit_handler" /\ pit_handler
       \/ h = "keyboard_handler" /\ keyboard_handler
       \/ h = "scheduler_tick" /\ scheduler_tick
       \/ h = "NULL" /\ UNCHANGED <<isr, ticks, tick_count, keys>>

(* The two halves of irq_handler, in the order of the linked version.      *)
irq_handler ==
    /\ phase # <<>>
    /\ \/ phase[1] = "call" /\ CallHandler
       \/ /\ phase[1] = "eoi"
          /\ isr' = pic_send_eoi(isr, line)
          /\ UNCHANGED <<ticks, tick_count, keys>>
    /\ phase' = IF phase = <<"call", "eoi">> THEN <<"eoi">>
                ELSE IF phase = <<"eoi", "call">> THEN <<"call">> ELSE <<>>
    /\ UNCHANGED <<boot, gates, handlers, pic_mask, imr, irr, interrupts, line,
                   raised, taken>>

Iret ==
    /\ line # NoLine /\ phase = <<>>
    /\ line' = NoLine
    /\ interrupts' = TRUE
    /\ UNCHANGED <<boot, gates, handlers, hw, phase, raised, clock>>

-----------------------------------------------------------------------------
Init ==
    /\ boot = "start"
    /\ gates = {}
    /\ handlers = [v \in Vectors |-> "NULL"]
    /\ pic_mask = AllLines
    /\ imr = FirmwareMask
    /\ irr = {} /\ isr = {}
    /\ interrupts = FALSE /\ line = NoLine /\ phase = <<>>
    /\ raised = [l \in Lines |-> 0]
    /\ taken = 0 /\ ticks = 0 /\ tick_count = 0 /\ keys = 0

Kernel == idt_init \/ pit_init \/ keyboard_init \/ keyboard_wait_keypress

Processor == Deliver \/ irq_handler \/ Iret

Next ==
    \/ Kernel
    \/ Processor
    \/ scheduler_init
    \/ init_syscalls
    \/ \E l \in Opens : OpenLine(l)
    \/ \E l \in Closes : CloseLine(l)
    \/ \E l \in Lines : Raise(l)

Spec == Init /\ [][Next]_vars

(* The processor takes interrupts and runs on, and a driver opens its line *)
(* some time after the kernel is up.  Devices owe nothing.                 *)
FairSpec ==
    /\ Spec
    /\ WF_vars(Kernel)
    /\ WF_vars(Processor)
    /\ \A l \in Opens : WF_vars(OpenLine(l))

-----------------------------------------------------------------------------
TypeOK ==
    /\ boot \in {"start", "pit", "keyboard", "wait", "shell"}
    /\ gates \subseteq 0 .. 255
    /\ handlers \in [Vectors -> Handlers]
    /\ pic_mask \subseteq AllLines /\ imr \subseteq AllLines
    /\ irr \subseteq Lines /\ isr \subseteq AllLines
    /\ interrupts \in BOOLEAN
    /\ line \in Lines \union {NoLine}
    /\ phase \in {<<>>, <<"call">>, <<"eoi">>, <<"call", "eoi">>, <<"eoi", "call">>}
    /\ raised \in [Lines -> 0 .. MaxRaise]
    /\ taken \in Nat /\ ticks \in Nat /\ tick_count \in Nat /\ keys \in Nat

(* No in-service bit outlives its handler, although the keyboard handler   *)
(* acknowledges a second time (keyboard.c:192, idt.c:116): an EOI never    *)
(* ends the service of another line, and none is left to block later       *)
(* interrupts.                                                             *)
InServiceOnlyRunning ==
    /\ (line = NoLine) => isr = {}
    /\ (line # NoLine) => isr \in {{}, Service(line)}
    /\ (line # NoLine /\ phase = <<>>) => isr = {}

(* Each controller is fully masked or agrees with the driver's copy        *)
(* (pic.c:36-37, 47-76): no call leaves a mask that neither says.          *)
MaskShadow ==
    /\ TypeOK
    /\ (boot # "start") =>
        \A chip \in {Master, Slave} :
            \/ chip \subseteq imr
            \/ imr \intersect chip = pic_mask \intersect chip

(* Every timer interrupt is counted by exactly one of the two handlers     *)
(* that claim vector 32, also while scheduler_init replaces the one by the *)
(* other (process.c:163, pit.c:55).                                        *)
TicksCounted ==
    (line # 0) => ticks + tick_count = taken

(* A request on an open line is taken, unless the line is closed           *)
(* meanwhile: EOIs are never missing, on either controller.                *)
OpenLinesServed ==
    \A l \in Lines : (l \in irr /\ Open(l)) ~> (l \notin irr \/ ~ Open(l))

(* A key press on an open line starts the shell (main.c:126-130), unless   *)
(* the line is closed meanwhile.                                           *)
KeyReachesKernel ==
    (boot = "wait" /\ 1 \in irr /\ Open(1)) ~> (boot = "shell" \/ ~ Open(1))

(* `Press any key to start the shell' (main.c:126).                        *)
KeyStartsShell ==
    (boot = "wait" /\ 1 \in irr) ~> (boot = "shell")
=============================================================================
