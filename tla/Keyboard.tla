------------------------------ MODULE Keyboard ------------------------------
(***************************************************************************)
(* The PS/2 keyboard driver, src/drivers/keyboard.c: the interrupt handler *)
(* that turns scan codes into characters and the ring buffer through which *)
(* the kernel thread reads them.                                           *)
(*                                                                         *)
(* The handler runs to completion with interrupts off: one step.  The      *)
(* thread is interrupted between the machine accesses to what they share.  *)
(* The build passes no -O flag, so "buffer_count--" is a load, a           *)
(* subtraction and a store, and the handler's "buffer_count++" can fall    *)
(* between them.                                                           *)
(*                                                                         *)
(* A character is <<key>> for a key whose character is fixed, <<key,       *)
(* layout, upper>> for one looked up in the four key maps, and <<key,      *)
(* up>> for the scan code stored in raw mode.                              *)
(***************************************************************************)
EXTENDS Integers, Sequences

CONSTANTS
    BufferSize,      \* KEYBOARD_BUFFER_SIZE (256)
    Keys,            \* the keys on this keyboard
    Modes,           \* the modes keyboard_set_mode is called with
    Layouts,         \* the layouts keyboard_set_layout is called with
    MaxBacklog       \* bound on characters accepted and not yet read

ASSUME KeyboardAssumption ==
    /\ BufferSize \in Nat \ {0}
    /\ MaxBacklog \in Nat
    /\ Modes \subseteq {"RAW", "ASCII", "ECHO"}
    /\ Layouts \subseteq {"US", "TR"}

Shifts == {"LSHIFT", "RSHIFT"}
(* Keys that set a flag while down, and keys that toggle one.              *)
ModifierOf == [LSHIFT |-> "shift", RSHIFT |-> "shift",
               LCTRL |-> "ctrl", LALT |-> "alt"]
LockOf == [CAPSLOCK |-> "caps", NUMLOCK |-> "num", SCROLLLOCK |-> "scroll"]
(* Keys with one character whatever the layout and the shift.              *)
SpecialKeys == {"ENTER", "BACKSPACE", "TAB", "ESCAPE", "HOME", "END", "DELETE",
                "PGUP", "PGDN", "LEFT", "RIGHT", "UP", "DOWN"}
(* KEYCODE_INSERT gives KEY_NULL; the key maps hold 0 for the others.      *)
DeadKeys == {"INSERT", "F1"}

NoChar == <<>>
Flags  == {"shift", "ctrl", "alt", "caps", "num", "scroll"}
Chars  == {<<k>> : k \in Keys} \cup (Keys \X {"US", "TR"} \X BOOLEAN)
              \cup (Keys \X BOOLEAN)

VARIABLES
    keyboard_buffer, buffer_start, buffer_end, buffer_count,
    key_state,       \* the six flags of key_state_t
    current_mode, current_layout,
    echo,            \* what the last handler run gave to terminal_putchar
    pc,              \* where the kernel thread is
    reg,             \* the register that holds buffer_count during --
    got,             \* the local c of buffer_pop
    held,            \* ghost: the keys physically down
    queue,           \* ghost: accepted characters not yet read, oldest first
    accidents        \* ghost: the races the handler has won so far

vars == <<keyboard_buffer, buffer_start, buffer_end, buffer_count, key_state,
          current_mode, current_layout, echo, pc, reg, got, held, queue,
          accidents>>
ringVars == <<keyboard_buffer, buffer_start, buffer_end, buffer_count, queue>>
modeVars == <<current_mode, current_layout>>
keyVars  == <<key_state, echo, held, accidents>>

Slot == 0 .. BufferSize - 1
InitPC == {"i_start", "i_end", "i_count"}
ThreadPC == InitPC \cup {"idle", "g_test", "halt", "p_load", "p_store"}

(* keyboard_init has just registered the handler; statics are zero.        *)
Init ==
    /\ keyboard_buffer = [s \in Slot |-> NoChar]
    /\ buffer_start = 0 /\ buffer_end = 0 /\ buffer_count = 0
    /\ key_state = [f \in Flags |-> FALSE]
    /\ current_mode = "ASCII" /\ current_layout = "US"
    /\ echo = NoChar
    /\ pc = "i_start" /\ reg = 0 /\ got = NoChar
    /\ held = {} /\ queue = <<>> /\ accidents = {}

-----------------------------------------------------------------------------
(***************************************************************************)
(* The interrupt handler.                                                  *)
(***************************************************************************)
(* A fault in KeyState: releasing a shift does not clear its flag.         *)
KeyStateSticky(k, up) ==
    IF k \in DOMAIN ModifierOf
    THEN [key_state EXCEPT ![ModifierOf[k]] = @ \/ ~up]
    ELSE key_state

(* keycode_to_ascii, its effect on the flags.                              *)
KeyState(k, up) ==
    IF k \in DOMAIN ModifierOf
    THEN [key_state EXCEPT ![ModifierOf[k]] = ~up]
    ELSE IF k \in DOMAIN LockOf /\ ~up
         THEN [key_state EXCEPT ![LockOf[k]] = ~@]
         ELSE key_state

(* keycode_to_ascii, the character it returns.                             *)
Ascii(k, up) ==
    IF \/ up
       \/ k \in DOMAIN ModifierOf \cup DOMAIN LockOf \cup DeadKeys
    THEN NoChar
    ELSE IF k \in SpecialKeys
         THEN <<k>>
         ELSE <<k, current_layout, key_state["shift"] # key_state["caps"]>>

(* A fault in Push: the wrong index is used.                               *)
PushOldestSlot(c) ==
    /\ buffer_count < BufferSize
    /\ keyboard_buffer' = [keyboard_buffer EXCEPT ![buffer_start] = c]
    /\ buffer_end' = (buffer_end + 1) % BufferSize
    /\ buffer_count' = buffer_count + 1
    /\ queue' = Append(queue, c)

(* buffer_push: dropped when buffer_count says the ring is full.           *)
Push(c) ==
    \/ /\ buffer_count < BufferSize
       /\ keyboard_buffer' = [keyboard_buffer EXCEPT ![buffer_end] = c]
       /\ buffer_end' = (buffer_end + 1) % BufferSize
       /\ buffer_count' = buffer_count + 1
       /\ queue' = Append(queue, c)
    \/ /\ buffer_count >= BufferSize
       /\ UNCHANGED <<keyboard_buffer, buffer_end, buffer_count, queue>>

(* What a run of the handler at this point spoils: a character counted     *)
(* between the load and the store of buffer_count-- ("raced"), a character *)
(* stored between the last two resets of keyboard_init ("early"), a        *)
(* modifier key released in raw mode ("unseen").                           *)
Accident(k, up) ==
    {a \in {"raced", "early", "unseen"} :
        \/ a = "raced" /\ pc = "p_store" /\ queue' # queue
        \/ a = "early" /\ pc = "i_count" /\ queue' # queue
        \/ a = "unseen" /\ up /\ current_mode = "RAW" /\ k \in DOMAIN ModifierOf}

(* keyboard_handler, for the scan code of k going down (or repeating) or   *)
(* coming up.  Raw mode stores the scan code and leaves the flags alone.   *)
(* The interrupt also ends a hlt of the thread.                            *)
KeyIrq(k, up) ==
    /\ up => k \in held
    /\ Len(queue) < MaxBacklog
    /\ held' = IF up THEN held \ {k} ELSE held \cup {k}
    /\ \/ /\ current_mode = "RAW"
          /\ Push(<<k, up>>)
          /\ echo' = NoChar
          /\ UNCHANGED key_state
       \/ /\ current_mode # "RAW" /\ Ascii(k, up) # NoChar
          /\ Push(Ascii(k, up))
          /\ echo' = IF current_mode = "ECHO" THEN Ascii(k, up) ELSE NoChar
          /\ key_state' = KeyState(k, up)
       \/ /\ current_mode # "RAW" /\ Ascii(k, up) = NoChar
          /\ echo' = NoChar
          /\ key_state' = KeyState(k, up)
          /\ UNCHANGED <<keyboard_buffer, buffer_end, buffer_count, queue>>
    /\ accidents' = accidents \cup Accident(k, up)
    /\ pc' = IF pc = "halt" THEN "g_test" ELSE pc
    /\ UNCHANGED <<buffer_start, modeVars, reg, got>>

(* Any other interrupt, the timer's above all, also ends a hlt.            *)
OtherIrq ==
    /\ pc = "halt"
    /\ pc' = "g_test"
    /\ UNCHANGED <<ringVars, keyVars, modeVars, reg, got>>

-----------------------------------------------------------------------------
(***************************************************************************)
(* The kernel thread: keyboard_init, the setters, and the two readers.     *)
(***************************************************************************)
InitStart ==
    /\ pc = "i_start"
    /\ key_state' = [key_state EXCEPT !["caps"] = FALSE, !["num"] = FALSE,
                                      !["scroll"] = FALSE]
    /\ buffer_start' = 0
    /\ pc' = "i_end"
    /\ UNCHANGED <<keyboard_buffer, buffer_end, buffer_count, queue, modeVars,
                   echo, held, accidents, reg, got>>

InitEnd ==
    /\ pc = "i_end"
    /\ buffer_end' = 0
    /\ pc' = "i_count"
    /\ UNCHANGED <<keyboard_buffer, buffer_start, buffer_count, queue, modeVars,
                   keyVars, reg, got>>

InitCount ==
    /\ pc = "i_count"
    /\ buffer_count' = 0
    /\ queue' = <<>>
    /\ current_mode' = "ASCII" /\ current_layout' = "US"
    /\ pc' = "idle"
    /\ UNCHANGED <<keyboard_buffer, buffer_start, buffer_end, keyVars, reg, got>>

keyboard_set_mode(m) ==
    /\ pc = "idle"
    /\ current_mode' = m
    /\ UNCHANGED <<ringVars, keyVars, current_layout, pc, reg, got>>

keyboard_set_layout(l) ==
    /\ pc = "idle"
    /\ current_layout' = l
    /\ UNCHANGED <<ringVars, keyVars, current_mode, pc, reg, got>>

(* buffer_pop up to the decrement.  Nothing but the thread lowers          *)
(* buffer_count, so the tests of it before this one still hold.            *)
Take ==
    /\ got' = keyboard_buffer[buffer_start]
    /\ buffer_start' = (buffer_start + 1) % BufferSize
    /\ queue' = IF queue = <<>> THEN queue ELSE Tail(queue)
    /\ UNCHANGED <<keyboard_buffer, buffer_end, buffer_count, keyVars, modeVars,
                   reg>>

(* keyboard_read with something to read (with nothing it returns 0).       *)
keyboard_read ==
    /\ pc = "idle"
    /\ buffer_count > 0
    /\ Take
    /\ pc' = "p_load"

(* keyboard_getchar: the loop's test, then the pop or the hlt.             *)
keyboard_getchar ==
    /\ pc = "idle"
    /\ pc' = "g_test"
    /\ UNCHANGED <<ringVars, keyVars, modeVars, reg, got>>

(* Faults in GetcharTest: no test, or a wait until the ring is full.       *)
GetcharNoTest ==
    /\ pc = "g_test"
    /\ Take
    /\ pc' = "p_load"

GetcharWaitsFull ==
    /\ pc = "g_test"
    /\ \/ /\ buffer_count = BufferSize
          /\ Take
          /\ pc' = "p_load"
       \/ /\ buffer_count < BufferSize
          /\ pc' = "halt"
          /\ UNCHANGED <<ringVars, keyVars, modeVars, reg, got>>

GetcharTest ==
    /\ pc = "g_test"
    /\ \/ /\ buffer_count > 0
          /\ Take
          /\ pc' = "p_load"
       \/ /\ buffer_count = 0
          /\ pc' = "halt"
          /\ UNCHANGED <<ringVars, keyVars, modeVars, reg, got>>

(* A fault in DecrementLoad: buffer_pop forgets to lower the count.            *)
DecrementNothing ==
    /\ pc = "p_load"
    /\ pc' = "idle"
    /\ UNCHANGED <<ringVars, keyVars, modeVars, reg, got>>

(* buffer_count--: a load into a register, and the store of the result.    *)
DecrementLoad ==
    /\ pc = "p_load"
    /\ reg' = buffer_count
    /\ pc' = "p_store"
    /\ UNCHANGED <<ringVars, keyVars, modeVars, got>>

DecrementStore ==
    /\ pc = "p_store"
    /\ buffer_count' = reg - 1
    /\ pc' = "idle"
    /\ reg' = 0 /\ got' = NoChar
    /\ UNCHANGED <<keyboard_buffer, buffer_start, buffer_end, queue, keyVars,
                   modeVars>>

Reading == GetcharTest \/ DecrementLoad \/ DecrementStore

Thread ==
    \/ InitStart \/ InitEnd \/ InitCount
    \/ \E m \in Modes : keyboard_set_mode(m)
    \/ \E l \in Layouts : keyboard_set_layout(l)
    \/ keyboard_read \/ keyboard_getchar \/ Reading

Next ==
    \/ \E k \in Keys, up \in BOOLEAN : KeyIrq(k, up)
    \/ OtherIrq
    \/ Thread

Spec == Init /\ [][Next]_vars

(* A thread inside keyboard_getchar keeps running between interrupts, and  *)
(* the periodic timer interrupt keeps ending its hlt.                      *)
FairSpec ==
    /\ Spec
    /\ WF_vars(InitStart \/ InitEnd \/ InitCount)
    /\ WF_vars(Reading)
    /\ WF_vars(OtherIrq)

-----------------------------------------------------------------------------
(***************************************************************************)
(* Properties.                                                             *)
(***************************************************************************)
TypeOK ==
    /\ keyboard_buffer \in [Slot -> Chars \cup {NoChar}]
    /\ buffer_start \in Slot
    /\ buffer_end \in Slot
    /\ buffer_count \in 0 .. BufferSize
    /\ key_state \in [Flags -> BOOLEAN]
    /\ current_mode \in {"RAW", "ASCII", "ECHO"}
    /\ current_layout \in {"US", "TR"}
    /\ echo \in Chars \cup {NoChar}
    /\ pc \in ThreadPC
    /\ reg \in 0 .. BufferSize
    /\ got \in Chars \cup {NoChar}
    /\ held \subseteq Keys
    /\ queue \in Seq(Chars)
    /\ accidents \subseteq {"raced", "early", "unseen"}

(***************************************************************************)
(* However interrupts fall, buffer_count never claims more characters than *)
(* were typed and not yet read: the readers never return one that is not   *)
(* there, and the count does not wrap below zero.                          *)
(***************************************************************************)
NoPhantom ==
    /\ pc \notin {"p_load", "p_store"} => buffer_count <= Len(queue)
    /\ pc \in {"p_load", "p_store"} => buffer_count \in 1 .. Len(queue) + 1
    /\ pc = "p_store" => reg \in 1 .. Len(queue) + 1

(***************************************************************************)
(* The readers return characters in the order they were typed, unless the  *)
(* backlog has outgrown the ring, which takes a lost count, or a key came  *)
(* between the last two resets of keyboard_init.                           *)
(***************************************************************************)
ReadsInOrder ==
    [][keyboard_read \/ (GetcharTest /\ pc' = "p_load")
         => \/ "early" \in accidents
            \/ "raced" \in accidents /\ Len(queue) > BufferSize
            \/ queue # <<>> /\ got' = Head(queue)]_vars

(***************************************************************************)
(* The shift flag is set only while a shift key is down, unless a modifier *)
(* was released in raw mode, whose scan codes bypass the flags.            *)
(***************************************************************************)
ShiftSound ==
    "unseen" \notin accidents /\ key_state["shift"] => held \cap Shifts # {}

(***************************************************************************)
(* No accepted character is forgotten: between two pops buffer_count is    *)
(* exactly the number of characters typed and not yet read, until a key    *)
(* press falls between the load and the store of buffer_count--.           *)
(***************************************************************************)
NothingForgotten ==
    "raced" \notin accidents /\ pc \notin {"p_load", "p_store"}
        => buffer_count = Len(queue)

(***************************************************************************)
(* keyboard_getchar waits for a character and no longer: once one has been *)
(* accepted, the call returns.  (After a lost count it may wait with a     *)
(* character in the ring.)                                                 *)
(***************************************************************************)
ReaderServed ==
    (pc \in {"g_test", "halt"} /\ queue # <<>> /\ "raced" \notin accidents)
        ~> pc = "p_load"
=============================================================================
