-------------------------- MODULE InterruptsProofs --------------------------
(***************************************************************************)
(* No in-service bit outlives its interrupt handler, no line is masked     *)
(* that neither the driver nor a full mask accounts for, and no timer      *)
(* interrupt goes uncounted: whatever lines the devices use, whatever the  *)
(* firmware and the drivers mask, and in both versions of the dispatcher.  *)
(***************************************************************************)
EXTENDS Interrupts, TLAPS

(* The processor runs one handler at a time, with interrupts off.          *)
OneHandler ==
    /\ line \in AllLines \union {NoLine}
    /\ phase \in {<<>>, <<"call">>, <<"eoi">>, <<"call", "eoi">>, <<"eoi", "call">>}
    /\ interrupts => line = NoLine
    /\ boot = "start" => line = NoLine /\ ~ interrupts
    /\ line = NoLine => phase = <<>>

(* Only line 1 is served by the handler that sends an EOI of its own.      *)
KeyboardOnly ==
    /\ handlers \in [Vectors -> Handlers]
    /\ \A l \in AllLines : handlers[Vector(l)] = "keyboard_handler" => l = 1

(* The bits in service, phase by phase: once the dispatcher's EOI is sent  *)
(* there is none.                                                          *)
ServiceByPhase ==
    /\ line = NoLine => isr = {}
    /\ line # NoLine => isr \in {{}, Service(line)}
    /\ phase \in {<<>>, <<"call">>} => isr = {}

IInv == OneHandler /\ KeyboardOnly /\ ServiceByPhase /\ irr \subseteq Lines

(* Ending the service of one line clears its bits on both controllers.     *)
LEMMA EoiClears ==
    ASSUME NEW l \in AllLines, NEW bits \in {{}, Service(l)}
    PROVE  pic_send_eoi(bits, l) = {}
<1>1. CASE l \in Slave
  <2>1. bits = {} \/ bits = {l, Cascade}
    BY <1>1 DEF Service
  <2>2. Cascade \in Master /\ l \notin Master /\ Cascade \notin Slave
    BY <1>1 DEF Cascade, Master, Slave
  <2>3. bits \intersect Slave \subseteq {l}
    BY <2>1, <2>2
  <2>4. ~ (Prio(l) < Prio(l)) /\ ~ (Prio(Cascade) < Prio(Cascade))
    BY <1>1 DEF Prio, Slave, Cascade
  <2>5. Eoi(bits, Slave) \subseteq {Cascade}
    BY <1>1, <2>1, <2>3, <2>4 DEF Eoi
  <2>6. Eoi(Eoi(bits, Slave), Master) = {}
    BY <2>2, <2>4, <2>5 DEF Eoi
  <2> QED
    BY <1>1, <2>6 DEF pic_send_eoi
<1>2. CASE l \in Master /\ l \notin Slave
  <2>1. bits = {} \/ bits = {l}
    BY <1>2 DEF Service
  <2>2. ~ (Prio(l) < Prio(l))
    BY <1>2 DEF Prio, Master, Cascade, Slave
  <2>3. Eoi(bits, Master) = {}
    BY <1>2, <2>1, <2>2 DEF Eoi
  <2> QED
    BY <1>2, <2>3 DEF pic_send_eoi
<1> QED
  BY <1>1, <1>2 DEF AllLines

(* Vectors are registered one for each line.                               *)
LEMMA VectorsDistinct ==
    ASSUME NEW l \in AllLines, NEW m \in AllLines
    PROVE  /\ Vector(l) \in Vectors /\ Vector(l) \in 32 .. 47
           /\ Vector(l) = Vector(m) => l = m
BY DEF Vector, Vectors, AllLines, Master, Slave

(* Registering a handler on a vector keeps KeyboardOnly, if only vector 33 *)
(* gets the keyboard handler.                                              *)
LEMMA Registers ==
    ASSUME KeyboardOnly, NEW v \in {32, 33, 128}, NEW h \in Handlers,
           register_interrupt_handler(v, h), h = "keyboard_handler" => v = 33
    PROVE  KeyboardOnly'
<1>1. handlers' = [handlers EXCEPT ![v] = h]
  BY DEF register_interrupt_handler
<1>2. handlers' \in [Vectors -> Handlers]
  BY <1>1 DEF KeyboardOnly
<1>3. ASSUME NEW l \in AllLines, handlers'[Vector(l)] = "keyboard_handler"
      PROVE  l = 1
  <2>1. Vector(l) \in Vectors
    BY VectorsDistinct
  <2>2. CASE Vector(l) = v
    <3>1. h = "keyboard_handler"
      BY <1>1, <1>3, <2>1, <2>2 DEF KeyboardOnly
    <3> QED
      BY <2>2, <3>1 DEF Vector, AllLines, Master, Slave
  <2>3. CASE Vector(l) # v
    BY <1>1, <1>3, <2>1, <2>3 DEF KeyboardOnly
  <2> QED
    BY <2>2, <2>3
<1> QED
  BY <1>2, <1>3 DEF KeyboardOnly

(* Every step keeps the invariant.                                         *)
LEMMA StepPreserves == IInv /\ [Next]_vars => IInv'
<1> SUFFICES ASSUME IInv, [Next]_vars PROVE IInv'
  OBVIOUS
<1>i. OneHandler /\ KeyboardOnly /\ ServiceByPhase /\ irr \subseteq Lines
  BY DEF IInv
<1>l. Lines \subseteq AllLines
  BY InterruptsAssumption DEF AllLines
<1>1. CASE idt_init
  <2>1. boot = "start" /\ boot' = "pit" /\ isr' = {} /\ irr' = {} /\ UNCHANGED <<handlers, line, phase>>
    BY <1>1 DEF idt_init, pic_init
  <2>2. line = NoLine /\ phase = <<>>
    BY <1>i, <2>1 DEF OneHandler
  <2> QED
    BY <1>i, <2>1, <2>2 DEF IInv, OneHandler, KeyboardOnly, ServiceByPhase
<1>2. CASE pit_init \/ keyboard_init \/ scheduler_init \/ init_syscalls
  <2>1. UNCHANGED <<irr, isr, interrupts, line, phase>> /\ boot' # "start"
    BY <1>2 DEF pit_init, keyboard_init, scheduler_init, init_syscalls, hw, cpu, Booted
  <2>2. KeyboardOnly'
    BY <1>2, <1>i, Registers
    DEF pit_init, keyboard_init, scheduler_init, init_syscalls, Handlers
  <2> QED
    BY <1>i, <2>1, <2>2 DEF IInv, OneHandler, ServiceByPhase
<1>3. CASE keyboard_wait_keypress
  BY <1>3, <1>i DEF keyboard_wait_keypress, hw, cpu, IInv, OneHandler,
                    KeyboardOnly, ServiceByPhase
<1>4. CASE (\E l \in Opens : OpenLine(l)) \/ (\E l \in Closes : CloseLine(l))
  <2>1. UNCHANGED <<boot, handlers, irr, isr, interrupts, line, phase>>
    BY <1>4 DEF OpenLine, CloseLine, pic_clear_mask, pic_set_mask, pic_disable, cpu
  <2> QED
    BY <1>i, <2>1 DEF IInv, OneHandler, KeyboardOnly, ServiceByPhase
<1>5. CASE \E l \in Lines : Raise(l)
  <2>1. /\ UNCHANGED <<boot, handlers, isr, interrupts, line, phase>>
        /\ irr' \subseteq Lines
    BY <1>5, <1>i DEF Raise, cpu
  <2> QED
    BY <1>i, <2>1 DEF IInv, OneHandler, KeyboardOnly, ServiceByPhase
<1>6. CASE Deliver
  <2>1. PICK l \in Pending :
             /\ line' = l /\ irr' = irr \ {l} /\ isr' = isr \union Service(l)
    BY <1>6 DEF Deliver
  <2>2. l \in Lines /\ l \in AllLines /\ l # NoLine
    BY <1>i, <1>l, <2>1 DEF Pending, AllLines, Master, Slave, NoLine
  <2>3. /\ interrupts /\ interrupts' = FALSE /\ UNCHANGED <<boot, handlers>>
        /\ phase' \in {<<"call", "eoi">>, <<"eoi", "call">>}
    BY <1>6 DEF Deliver, Dispatchers
  <2>4. line = NoLine /\ isr = {}
    BY <1>i, <2>3 DEF OneHandler, ServiceByPhase
  <2>b. boot # "start"
    BY <1>i, <2>3 DEF OneHandler
  <2>5. phase' \in {<<"eoi", "call">>, <<"call", "eoi">>}
    BY <2>3
  <2>6. phase' \notin {<<>>, <<"call">>}
    BY <2>5
  <2>7. OneHandler'
    BY <1>i, <2>1, <2>2, <2>3, <2>5, <2>b DEF OneHandler
  <2>8. ServiceByPhase'
    BY <2>1, <2>2, <2>4, <2>6 DEF ServiceByPhase
  <2> QED
    BY <1>i, <2>1, <2>3, <2>7, <2>8 DEF IInv, KeyboardOnly
<1>7. CASE irq_handler
  <2>1. /\ phase # <<>>
        /\ UNCHANGED <<boot, handlers, irr, interrupts, line>>
        /\ phase' = IF phase = <<"call", "eoi">> THEN <<"eoi">>
                    ELSE IF phase = <<"eoi", "call">> THEN <<"call">> ELSE <<>>
    BY <1>7 DEF irq_handler
  <2>2. line # NoLine /\ line \in AllLines
    BY <1>i, <2>1 DEF OneHandler
  <2>3. isr \in {{}, Service(line)}
    BY <1>i, <2>2 DEF ServiceByPhase
  <2>4. OneHandler'
    BY <1>i, <2>1, <2>2 DEF OneHandler
  <2>5. CASE phase[1] = "call" /\ CallHandler
    <3>1. isr' = isr \/ (line = 1 /\ isr' = Eoi(isr, Master))
      BY <1>i, <2>2, <2>5 DEF CallHandler, pit_handler, keyboard_handler,
                              scheduler_tick, KeyboardOnly
    <3>2. line = 1 => Eoi(isr, Master) = {}
      BY <2>2, <2>3, EoiClears DEF pic_send_eoi, Slave
    <3>3. isr' \in {{}, Service(line)}
      BY <2>3, <3>1, <3>2
    <3>4. phase \in {<<"call">>, <<"call", "eoi">>}
      BY <1>i, <2>1, <2>5 DEF OneHandler
    <3>5. CASE phase = <<"call">>
      <4>1. isr = {}
        BY <1>i, <3>5 DEF ServiceByPhase
      <4>2. isr' = {}
        BY <3>1, <3>2, <4>1
      <4> QED
        BY <4>2, <2>1, <2>2, <2>4, <1>i DEF IInv, ServiceByPhase, KeyboardOnly
    <3>6. CASE phase = <<"call", "eoi">>
      <4>1. phase' = <<"eoi">>
        BY <2>1, <3>6
      <4>2. phase' \notin {<<>>, <<"call">>}
        BY <4>1
      <4> QED
        BY <4>2, <3>3, <2>1, <2>2, <2>4, <1>i DEF IInv, ServiceByPhase, KeyboardOnly
    <3> QED
      BY <3>4, <3>5, <3>6
  <2>6. CASE phase[1] = "eoi" /\ isr' = pic_send_eoi(isr, line)
    <3>1. isr' = {}
      BY <2>2, <2>3, <2>6, EoiClears
    <3> QED
      BY <3>1, <2>1, <2>2, <2>4, <1>i DEF IInv, ServiceByPhase, KeyboardOnly
  <2> QED
    BY <1>7, <2>5, <2>6 DEF irq_handler
<1>8. CASE Iret
  <2>1. /\ line # NoLine /\ phase = <<>> /\ line' = NoLine
        /\ UNCHANGED <<boot, handlers, irr, isr, phase>>
    BY <1>8 DEF Iret, hw
  <2>2. isr = {}
    BY <1>i, <2>1 DEF ServiceByPhase
  <2> QED
    BY <1>i, <2>1, <2>2 DEF IInv, OneHandler, ServiceByPhase, KeyboardOnly
<1>9. CASE UNCHANGED vars
  BY <1>9, <1>i DEF vars, hw, cpu, IInv, OneHandler, KeyboardOnly, ServiceByPhase
<1> QED
  BY <1>1, <1>2, <1>3, <1>4, <1>5, <1>6, <1>7, <1>8, <1>9 DEF Next, Kernel, Processor

LEMMA Invariance == Spec => []IInv
<1>1. Init => IInv
  <2> SUFFICES ASSUME Init PROVE IInv
    OBVIOUS
  <2>1. OneHandler
    BY DEF Init, OneHandler
  <2>2. KeyboardOnly
    <3>1. \A l \in AllLines : handlers[Vector(l)] = "NULL"
      BY VectorsDistinct DEF Init
    <3> QED
      BY <3>1 DEF Init, KeyboardOnly, Handlers
  <2>3. ServiceByPhase /\ irr \subseteq Lines
    BY DEF Init, ServiceByPhase
  <2> QED
    BY <2>1, <2>2, <2>3 DEF IInv
<1> QED
  BY <1>1, StepPreserves, PTL DEF Spec

(* No in-service bit outlives its handler (idt.c:111-117,                  *)
(* interrupt.c:113-122, keyboard.c:190-192), for all lines and masks.      *)
THEOREM InServiceOnlyRunningAlways == Spec => []InServiceOnlyRunning
<1>1. IInv => InServiceOnlyRunning
  BY DEF IInv, ServiceByPhase, InServiceOnlyRunning
<1> QED
  BY <1>1, Invariance, PTL
-----------------------------------------------------------------------------
(* Lemmas on the masks: a write to one data port leaves the other          *)
(* controller alone and copies the driver's mask to its own.               *)
LEMMA WriteMaskChips ==
    ASSUME NEW l \in AllLines, NEW mask \in SUBSET AllLines, imr \subseteq AllLines
    PROVE  /\ WriteMask(l, mask) \subseteq AllLines
           /\ \A chip \in {Master, Slave} :
                 \/ /\ l \in chip
                    /\ WriteMask(l, mask) \intersect chip = mask \intersect chip
                 \/ /\ l \notin chip
                    /\ WriteMask(l, mask) \intersect chip = imr \intersect chip
<1>1. Master \intersect Slave = {}
  BY DEF Master, Slave
<1>2. CASE l \in Master
  BY <1>1, <1>2 DEF WriteMask, ChipOf, AllLines
<1>3. CASE l \in Slave
  BY <1>1, <1>3 DEF WriteMask, ChipOf, AllLines
<1> QED BY <1>2, <1>3 DEF AllLines

ChipsAgree ==
    \A chip \in {Master, Slave} :
        chip \subseteq imr \/ imr \intersect chip = pic_mask \intersect chip

(* pic_clear_mask and pic_set_mask change one bit of the driver's copy and *)
(* write one port, after which that port holds the copy.                   *)
LEMMA PortWritten ==
    ASSUME NEW l \in AllLines, imr \subseteq AllLines, pic_mask \subseteq AllLines,
           ChipsAgree, NEW mask \in SUBSET AllLines,
           \A m \in AllLines : m # l => (m \in mask <=> m \in pic_mask),
           pic_mask' = mask, imr' = WriteMask(l, mask)
    PROVE  imr' \subseteq AllLines /\ ChipsAgree'
<1>1. imr' \subseteq AllLines
  BY WriteMaskChips
<1>2. ASSUME NEW chip \in {Master, Slave}
      PROVE  chip \subseteq imr' \/ imr' \intersect chip = pic_mask' \intersect chip
  <2>1. CASE l \in chip /\ imr' \intersect chip = mask \intersect chip
    BY <2>1
  <2>2. CASE l \notin chip /\ imr' \intersect chip = imr \intersect chip
    <3>1. mask \intersect chip = pic_mask \intersect chip
      BY <2>2 DEF AllLines
    <3> QED BY <1>2, <2>2, <3>1 DEF ChipsAgree
  <2> QED BY <2>1, <2>2, WriteMaskChips
<1> QED BY <1>1, <1>2 DEF ChipsAgree

(* Until the drivers open lines nothing is delivered: every line is        *)
(* masked, so vector 32 has its handler before the first timer interrupt.  *)
Quiet ==
    /\ boot \in {"pit", "keyboard"} => imr = AllLines
    /\ line # NoLine => boot \in {"wait", "shell"}

(* The two handlers that count timer interrupts serve line 0 alone, and    *)
(* one of them does from pit_init on.                                      *)
Clocks == {"pit_handler", "scheduler_tick"}

ClockOwned ==
    /\ boot \in {"keyboard", "wait", "shell"} => handlers[32] \in Clocks
    /\ \A l \in AllLines : handlers[Vector(l)] \in Clocks => l = 0

(* The interrupt being served has been taken and not yet counted while the *)
(* call of its handler is still to come.                                   *)
Uncounted ==
    IF line = 0 /\ phase \in {<<"call">>, <<"call", "eoi">>, <<"eoi", "call">>}
    THEN 1 ELSE 0

TicksByPhase == ticks + tick_count + Uncounted = taken

FullInv ==
    /\ TypeOK
    /\ boot # "start" => ChipsAgree
    /\ Quiet /\ ClockOwned /\ TicksByPhase

(* Before the kernel is up nothing is pending on an open line.             *)
LEMMA NoneOpen ==
    ASSUME TypeOK, imr = AllLines
    PROVE  Pending = {}
<1>1. ASSUME NEW l \in irr PROVE ~ Open(l)
  BY InterruptsAssumption DEF TypeOK, Open, Service, AllLines
<1> QED BY <1>1 DEF Pending

(* Registering a handler keeps the clock's vector with a clock handler.    *)
LEMMA RegistersClock ==
    ASSUME TypeOK, \A l \in AllLines : handlers[Vector(l)] \in Clocks => l = 0,
           NEW v \in {32, 33, 128}, NEW h \in Handlers,
           register_interrupt_handler(v, h), h \in Clocks <=> v = 32
    PROVE  /\ handlers' \in [Vectors -> Handlers]
           /\ v = 32 => handlers'[32] \in Clocks
           /\ v # 32 => handlers'[32] = handlers[32]
           /\ \A l \in AllLines : handlers'[Vector(l)] \in Clocks => l = 0
<1>1. /\ handlers' = [handlers EXCEPT ![v] = h]
      /\ handlers \in [Vectors -> Handlers]
  BY DEF register_interrupt_handler, TypeOK
<1>2. 32 \in Vectors /\ v \in Vectors
  BY DEF Vectors, Vector, AllLines, Master, Slave
<1>3. handlers' \in [Vectors -> Handlers]
  BY <1>1
<1>4. /\ v = 32 => handlers'[32] \in Clocks
      /\ v # 32 => handlers'[32] = handlers[32]
  BY <1>1, <1>2
<1>5. ASSUME NEW l \in AllLines, handlers'[Vector(l)] \in Clocks
      PROVE  l = 0
  <2>1. Vector(l) \in Vectors
    BY VectorsDistinct
  <2>2. CASE Vector(l) = v
    <3>1. v = 32
      BY <1>1, <1>5, <2>1, <2>2
    <3> QED BY <2>2, <3>1 DEF Vector, AllLines, Master, Slave
  <2>3. CASE Vector(l) # v
    BY <1>1, <1>5, <2>1, <2>3
  <2> QED BY <2>2, <2>3
<1> QED BY <1>3, <1>4, <1>5

LEMMA FullInit == Init => FullInv
<1> SUFFICES ASSUME Init PROVE FullInv
  OBVIOUS
<1>1. TypeOK
  BY InterruptsAssumption DEF Init, TypeOK, AllLines, Handlers
<1>2. Quiet
  BY DEF Init, Quiet
<1>3. ClockOwned
  <2>1. \A l \in AllLines : handlers[Vector(l)] = "NULL"
    BY VectorsDistinct DEF Init
  <2> QED BY <2>1 DEF Init, ClockOwned, Clocks
<1>4. TicksByPhase
  BY DEF Init, TicksByPhase, Uncounted, NoLine
<1> QED BY <1>1, <1>2, <1>3, <1>4 DEF FullInv, Init

LEMMA FullStep == IInv /\ FullInv /\ [Next]_vars => FullInv'
<1> SUFFICES ASSUME IInv, FullInv, [Next]_vars PROVE FullInv'
  OBVIOUS
<1>i. /\ TypeOK /\ Quiet /\ ClockOwned /\ TicksByPhase
      /\ boot # "start" => ChipsAgree
      /\ OneHandler
  BY DEF FullInv, IInv
<1>l. Lines \subseteq AllLines
  BY InterruptsAssumption DEF AllLines
<1>1. CASE idt_init
  <2>1. /\ boot = "start" /\ boot' = "pit" /\ gates' = 0 .. 47
        /\ pic_mask' = imr /\ imr' = AllLines /\ irr' = {} /\ isr' = {}
        /\ interrupts' = TRUE
        /\ UNCHANGED <<handlers, line, phase, raised, taken, ticks, tick_count, keys>>
    BY <1>1 DEF idt_init, pic_init, clock
  <2>2. TypeOK'
    BY <1>i, <2>1 DEF TypeOK
  <2>3. ChipsAgree'
    BY <2>1 DEF ChipsAgree, AllLines
  <2>4. line = NoLine
    BY <1>i, <2>1 DEF OneHandler
  <2>5. Quiet' /\ ClockOwned' /\ TicksByPhase'
    BY <1>i, <2>1, <2>4 DEF Quiet, ClockOwned, TicksByPhase, Uncounted
  <2> QED BY <2>2, <2>3, <2>5 DEF FullInv
<1>2. CASE pit_init \/ keyboard_init \/ scheduler_init \/ init_syscalls
  <2>1. /\ UNCHANGED <<gates, pic_mask, imr, irr, isr, interrupts, line, phase,
                       raised, taken, ticks, tick_count, keys>>
        /\ line = NoLine /\ boot # "start"
        /\ boot' \in {"keyboard", "wait", "shell"}
        /\ boot' = "keyboard" => boot = "pit"
    BY <1>2 DEF pit_init, keyboard_init, scheduler_init, init_syscalls, hw, cpu,
                clock, Booted
  <2>2. /\ handlers' \in [Vectors -> Handlers]
        /\ \A l \in AllLines : handlers'[Vector(l)] \in Clocks => l = 0
        /\ handlers'[32] \in Clocks
    <3>1. CASE pit_init \/ scheduler_init
      BY <1>i, <3>1, RegistersClock DEF pit_init, scheduler_init, ClockOwned,
         Handlers, Clocks
    <3>2. CASE keyboard_init
      <4>1. register_interrupt_handler(33, "keyboard_handler") /\ boot = "keyboard"
        BY <3>2 DEF keyboard_init
      <4> QED BY <1>i, <4>1, RegistersClock DEF ClockOwned, Handlers, Clocks
    <3>3. CASE init_syscalls
      <4>1. register_interrupt_handler(128, "syscall_handler") /\ boot \in {"wait", "shell"}
        BY <3>3 DEF init_syscalls, Booted
      <4> QED BY <1>i, <4>1, RegistersClock DEF ClockOwned, Handlers, Clocks
    <3> QED BY <1>2, <3>1, <3>2, <3>3
  <2>3. TypeOK'
    BY <1>i, <2>1, <2>2 DEF TypeOK
  <2>4. Quiet' /\ ClockOwned'
    BY <1>i, <2>1, <2>2 DEF Quiet, ClockOwned
  <2>5. ChipsAgree' /\ TicksByPhase'
    BY <1>i, <2>1 DEF ChipsAgree, TicksByPhase, Uncounted
  <2> QED BY <2>3, <2>4, <2>5 DEF FullInv
<1>3. CASE keyboard_wait_keypress
  <2>1. /\ UNCHANGED <<gates, handlers, pic_mask, imr, irr, isr, interrupts, line, phase,
                       raised, taken, ticks, tick_count, keys>>
        /\ boot = "wait" /\ boot' = "shell"
    BY <1>3 DEF keyboard_wait_keypress, hw, cpu, clock
  <2> QED
    BY <1>i, <2>1 DEF FullInv, TypeOK, ChipsAgree, Quiet, ClockOwned, TicksByPhase,
                      Uncounted
<1>4. CASE (\E l \in Opens : OpenLine(l)) \/ (\E l \in Closes : CloseLine(l))
  <2>1. /\ UNCHANGED <<boot, gates, handlers, irr, isr, interrupts, line, phase,
                       raised, taken, ticks, tick_count, keys>>
        /\ boot \in {"wait", "shell"}
    BY <1>4 DEF OpenLine, CloseLine, pic_clear_mask, pic_set_mask, pic_disable, cpu,
                clock, Booted
  <2>2. imr \subseteq AllLines /\ pic_mask \subseteq AllLines /\ ChipsAgree
    BY <1>i, <2>1 DEF TypeOK
  <2>o. Opens \subseteq AllLines /\ Closes \subseteq AllLines
    BY <1>l, InterruptsAssumption DEF AllLines, Cascade, Master
  <2>3. imr' \subseteq AllLines /\ pic_mask' \subseteq AllLines /\ ChipsAgree'
    <3>1. ASSUME NEW l \in Opens, OpenLine(l)
          PROVE  imr' \subseteq AllLines /\ pic_mask' \subseteq AllLines /\ ChipsAgree'
      <4>1. pic_mask' = pic_mask \ {l} /\ imr' = WriteMask(l, pic_mask \ {l})
        BY <3>1 DEF OpenLine, pic_clear_mask
      <4> QED BY <2>2, <2>o, <4>1, PortWritten
    <3>2. ASSUME NEW l \in Closes, CloseLine(l)
          PROVE  imr' \subseteq AllLines /\ pic_mask' \subseteq AllLines /\ ChipsAgree'
      <4>1. CASE pic_set_mask(l)
        <5>1. pic_mask' = pic_mask \union {l} /\ imr' = WriteMask(l, pic_mask \union {l})
          BY <4>1 DEF pic_set_mask
        <5> QED BY <2>2, <2>o, <5>1, PortWritten
      <4>2. CASE pic_disable
        BY <2>2, <4>2 DEF pic_disable, ChipsAgree, AllLines
      <4> QED BY <3>2, <4>1, <4>2 DEF CloseLine
    <3> QED BY <1>4, <3>1, <3>2
  <2>4. TypeOK'
    BY <1>i, <2>1, <2>3 DEF TypeOK
  <2> QED
    BY <1>i, <2>1, <2>3, <2>4 DEF FullInv, Quiet, ClockOwned, TicksByPhase, Uncounted
<1>5. CASE \E l \in Lines : Raise(l)
  <2>1. /\ UNCHANGED <<boot, gates, handlers, pic_mask, imr, isr, interrupts, line, phase,
                       taken, ticks, tick_count, keys>>
        /\ irr' \subseteq Lines
    BY <1>5, <1>i DEF Raise, cpu, clock, TypeOK
  <2>2. raised' \in [Lines -> 0 .. MaxRaise]
    <3>1. PICK l \in Lines : raised[l] < MaxRaise /\ raised' = [raised EXCEPT ![l] = @ + 1]
      BY <1>5 DEF Raise
    <3>2. raised \in [Lines -> 0 .. MaxRaise] /\ raised[l] + 1 \in 0 .. MaxRaise
      BY <1>i, <3>1, InterruptsAssumption DEF TypeOK
    <3> QED BY <3>1, <3>2
  <2>3. TypeOK'
    BY <1>i, <2>1, <2>2 DEF TypeOK
  <2> QED
    BY <1>i, <2>1, <2>3 DEF FullInv, ChipsAgree, Quiet, ClockOwned, TicksByPhase,
                            Uncounted
<1>6. CASE Deliver
  <2>1. PICK l \in Pending :
             /\ line' = l /\ irr' = irr \ {l} /\ isr' = isr \union Service(l)
             /\ taken' = IF l = 0 THEN taken + 1 ELSE taken
    BY <1>6 DEF Deliver
  <2>2. l \in Lines /\ l \in AllLines
    BY <1>i, <1>l, <2>1 DEF Pending, TypeOK
  <2>3. /\ interrupts /\ interrupts' = FALSE
        /\ phase' \in {<<"call", "eoi">>, <<"eoi", "call">>}
        /\ UNCHANGED <<boot, gates, handlers, pic_mask, imr, raised, ticks,
                       tick_count, keys>>
    BY <1>6 DEF Deliver, Dispatchers
  <2>4. boot \in {"wait", "shell"}
    BY <1>i, <2>1, <2>3, NoneOpen DEF TypeOK, OneHandler, Quiet
  <2>5. Service(l) \subseteq AllLines
    BY <2>2 DEF Service, AllLines, Cascade, Master
  <2>6. taken' \in Nat /\ phase' \in {<<>>, <<"call">>, <<"eoi">>, <<"call", "eoi">>, <<"eoi", "call">>}
    BY <1>i, <2>1, <2>3 DEF TypeOK
  <2>7. TypeOK'
    BY <1>i, <2>1, <2>2, <2>3, <2>5, <2>6 DEF TypeOK
  <2>8. TicksByPhase'
    <3>1. line = NoLine
      BY <1>i, <2>3 DEF OneHandler
    <3>2. ticks + tick_count = taken
      BY <1>i, <3>1 DEF TicksByPhase, Uncounted, NoLine, TypeOK
    <3>3. Uncounted' = IF l = 0 THEN 1 ELSE 0
      BY <2>1, <2>3 DEF Uncounted
    <3> QED BY <1>i, <2>1, <2>3, <3>2, <3>3 DEF TicksByPhase, TypeOK
  <2> QED
    BY <1>i, <2>3, <2>4, <2>7, <2>8 DEF FullInv, ChipsAgree, Quiet, ClockOwned
<1>7. CASE irq_handler
  <2>1. /\ phase # <<>>
        /\ UNCHANGED <<boot, gates, handlers, pic_mask, imr, irr, interrupts, line,
                       raised, taken>>
        /\ phase' = IF phase = <<"call", "eoi">> THEN <<"eoi">>
                    ELSE IF phase = <<"eoi", "call">> THEN <<"call">> ELSE <<>>
    BY <1>7 DEF irq_handler
  <2>2. line # NoLine /\ line \in AllLines /\ boot \in {"wait", "shell"}
    BY <1>i, <2>1 DEF OneHandler, Quiet
  <2>3. phase' \in {<<>>, <<"call">>, <<"eoi">>}
    BY <2>1
  <2>4. CASE phase[1] = "call" /\ CallHandler
    <3>1. phase \in {<<"call">>, <<"call", "eoi">>}
      BY <1>i, <2>1, <2>4 DEF OneHandler
    <3>2. phase' \in {<<>>, <<"eoi">>}
      BY <2>1, <3>1
    <3>3. Uncounted' = 0
      BY <3>2 DEF Uncounted
    <3>4. /\ isr' \subseteq AllLines
          /\ ticks' \in Nat /\ tick_count' \in Nat /\ keys' \in Nat
          /\ \/ /\ handlers[Vector(line)] \in Clocks
                /\ ticks' + tick_count' = ticks + tick_count + 1
             \/ /\ handlers[Vector(line)] \notin Clocks
                /\ ticks' + tick_count' = ticks + tick_count
      BY <1>i, <2>4 DEF CallHandler, pit_handler, keyboard_handler, scheduler_tick,
                        Eoi, Clocks, TypeOK
    <3>5. handlers[Vector(line)] \in Clocks <=> line = 0
      BY <1>i, <2>2 DEF ClockOwned, Vector
    <3>6. Uncounted = IF line = 0 THEN 1 ELSE 0
      BY <3>1 DEF Uncounted
    <3>7. TicksByPhase'
      <4>1. CASE line = 0
        <5>1. ticks' + tick_count' = ticks + tick_count + 1 /\ Uncounted = 1
          BY <3>4, <3>5, <3>6, <4>1
        <5>2. ticks \in Nat /\ tick_count \in Nat /\ taken \in Nat /\ taken' = taken
          BY <1>i, <2>1 DEF TypeOK
        <5>3. ticks + tick_count + 1 = taken
          BY <1>i, <5>1 DEF TicksByPhase
        <5>4. ticks' \in Nat /\ tick_count' \in Nat
          BY <3>4
        <5>5. ticks' + tick_count' = taken'
          BY <5>1, <5>2, <5>3
        <5>6. ticks' + tick_count' + 0 = taken'
          BY <5>4, <5>5
        <5> QED BY <3>3, <5>6 DEF TicksByPhase
      <4>2. CASE line # 0
        <5>1. ticks' + tick_count' = ticks + tick_count /\ Uncounted = 0
          BY <3>4, <3>5, <3>6, <4>2
        <5>2. ticks \in Nat /\ tick_count \in Nat /\ taken \in Nat /\ taken' = taken
          BY <1>i, <2>1 DEF TypeOK
        <5>3. ticks + tick_count + Uncounted = taken
          BY <1>i DEF TicksByPhase
        <5> QED BY <3>3, <3>4, <5>1, <5>2, <5>3 DEF TicksByPhase
      <4> QED BY <4>1, <4>2
    <3>8. TypeOK'
      BY <1>i, <2>1, <2>3, <3>4 DEF TypeOK
    <3> QED
      BY <1>i, <2>1, <2>2, <3>7, <3>8 DEF FullInv, ChipsAgree, Quiet, ClockOwned
  <2>5. CASE /\ phase[1] = "eoi" /\ isr' = pic_send_eoi(isr, line)
             /\ UNCHANGED <<ticks, tick_count, keys>>
    <3>1. phase \in {<<"eoi">>, <<"eoi", "call">>}
      BY <1>i, <2>1, <2>5 DEF OneHandler
    <3>2. Uncounted' = Uncounted
      <4>1. CASE phase = <<"eoi">>
        <5>1. phase' = <<>>
          BY <2>1, <4>1
        <5> QED BY <4>1, <5>1 DEF Uncounted
      <4>2. CASE phase = <<"eoi", "call">>
        <5>1. phase' = <<"call">>
          BY <2>1, <4>2
        <5> QED BY <2>1, <4>2, <5>1 DEF Uncounted
      <4> QED BY <3>1, <4>1, <4>2
    <3>3. isr' \subseteq AllLines
      BY <1>i, <2>5 DEF pic_send_eoi, Eoi, TypeOK
    <3>4. TypeOK'
      BY <1>i, <2>1, <2>3, <2>5, <3>3 DEF TypeOK
    <3> QED
      BY <1>i, <2>1, <2>2, <2>5, <3>2, <3>4
      DEF FullInv, ChipsAgree, Quiet, ClockOwned, TicksByPhase
  <2> QED BY <1>7, <2>4, <2>5 DEF irq_handler
<1>8. CASE Iret
  <2>1. /\ line # NoLine /\ phase = <<>> /\ line' = NoLine /\ interrupts' = TRUE
        /\ UNCHANGED <<boot, gates, handlers, pic_mask, imr, irr, isr, phase, raised,
                       taken, ticks, tick_count, keys>>
    BY <1>8 DEF Iret, hw, clock
  <2>2. TypeOK'
    BY <1>i, <2>1 DEF TypeOK
  <2>3. Uncounted = 0 /\ Uncounted' = 0
    BY <2>1 DEF Uncounted, NoLine
  <2> QED
    BY <1>i, <2>1, <2>2, <2>3 DEF FullInv, ChipsAgree, Quiet, ClockOwned, TicksByPhase
<1>9. CASE UNCHANGED vars
  BY <1>9, <1>i DEF vars, hw, cpu, clock, FullInv, TypeOK, ChipsAgree, Quiet,
                    ClockOwned, TicksByPhase, Uncounted
<1> QED
  BY <1>1, <1>2, <1>3, <1>4, <1>5, <1>6, <1>7, <1>8, <1>9 DEF Next, Kernel, Processor

(* Each controller is fully masked or agrees with the driver's copy        *)
(* (pic.c:36-37, 47-76), for every sequence of openings and closings; the  *)
(* type invariant is part of it.                                           *)
THEOREM MaskShadowAlways == Spec => []MaskShadow
<1>1. FullInv => MaskShadow
  BY DEF FullInv, MaskShadow, ChipsAgree
<1> QED BY <1>1, Invariance, FullInit, FullStep, PTL DEF Spec

(* Every timer interrupt is counted once, by pit_handler or by             *)
(* scheduler_tick (pit.c:55, process.c:163): vector 32 has a handler       *)
(* before line 0 can be opened, and no other line runs either of the two.  *)
THEOREM TicksCountedAlways == Spec => []TicksCounted
<1>1. FullInv => TicksCounted
  BY DEF FullInv, TicksByPhase, Uncounted, TicksCounted, TypeOK
<1> QED BY <1>1, Invariance, FullInit, FullStep, PTL DEF Spec
=============================================================================
