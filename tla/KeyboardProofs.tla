--------------------------- MODULE KeyboardProofs ---------------------------
(***************************************************************************)
(* Proofs about the keyboard ring, for every ring size, key set, mode and  *)
(* layout, with the handler running between any two steps of the thread,   *)
(* those of keyboard_init and of buffer_count-- included.                  *)
(***************************************************************************)
EXTENDS Keyboard, TLAPS

IInv == TypeOK /\ NoPhantom

(* The ring indices stay within the ring.                                  *)
LEMMA SlotStep ==
    ASSUME NEW i \in Slot
    PROVE  (i + 1) % BufferSize \in Slot
BY KeyboardAssumption DEF Slot

(* keycode_to_ascii returns a character or nothing.                        *)
LEMMA AsciiType ==
    ASSUME NEW k \in Keys, NEW up \in BOOLEAN, TypeOK
    PROVE  Ascii(k, up) \in Chars \cup {NoChar}
<1>1. (key_state["shift"] # key_state["caps"]) \in BOOLEAN
  OBVIOUS
<1>2. <<k, current_layout, key_state["shift"] # key_state["caps"]>> \in Chars
  BY <1>1 DEF TypeOK, Chars
<1>3. <<k>> \in Chars
  BY DEF Chars
<1> QED BY <1>2, <1>3 DEF Ascii

(* keycode_to_ascii only changes flags.                                    *)
LEMMA KeyStateType ==
    ASSUME NEW k \in Keys, NEW up \in BOOLEAN, TypeOK
    PROVE  KeyState(k, up) \in [Flags -> BOOLEAN]
<1>1. /\ DOMAIN ModifierOf = {"LSHIFT", "RSHIFT", "LCTRL", "LALT"}
      /\ \A m \in DOMAIN ModifierOf : ModifierOf[m] \in Flags
  BY DEF ModifierOf, Flags
<1>2. /\ DOMAIN LockOf = {"CAPSLOCK", "NUMLOCK", "SCROLLLOCK"}
      /\ \A m \in DOMAIN LockOf : LockOf[m] \in Flags
  BY DEF LockOf, Flags
<1> QED BY <1>1, <1>2 DEF KeyState, TypeOK

(* buffer_push keeps the ring well formed, adds at most one to the count   *)
(* and adds one to the backlog exactly when it adds one to the count.      *)
LEMMA PushFacts ==
    ASSUME NEW c \in Chars, TypeOK, Push(c)
    PROVE  /\ keyboard_buffer' \in [Slot -> Chars \cup {NoChar}]
           /\ buffer_end' \in Slot
           /\ buffer_count' \in 0 .. BufferSize
           /\ queue' \in Seq(Chars)
           /\ \/ buffer_count' = buffer_count + 1 /\ Len(queue') = Len(queue) + 1
              \/ buffer_count' = buffer_count /\ queue' = queue
<1>1. CASE buffer_count < BufferSize
  <2>1. keyboard_buffer' \in [Slot -> Chars \cup {NoChar}]
    BY <1>1 DEF Push, TypeOK
  <2>2. buffer_end' \in Slot
    BY <1>1, SlotStep, KeyboardAssumption DEF Push, TypeOK
  <2>3. buffer_count' = buffer_count + 1 /\ buffer_count' \in 0 .. BufferSize
    BY <1>1, KeyboardAssumption DEF Push, TypeOK
  <2>4. queue' \in Seq(Chars) /\ Len(queue') = Len(queue) + 1
    BY <1>1, KeyboardAssumption DEF Push, TypeOK
  <2> QED BY <2>1, <2>2, <2>3, <2>4
<1>2. CASE buffer_count >= BufferSize
  BY <1>2, KeyboardAssumption DEF Push, TypeOK
<1> QED BY <1>1, <1>2, KeyboardAssumption DEF TypeOK

LEMMA InitIInv == Init => IInv
<1> SUFFICES ASSUME Init PROVE IInv
  OBVIOUS
<1>1. TypeOK
  BY KeyboardAssumption DEF Init, TypeOK, Slot, ThreadPC, InitPC
<1>2. NoPhantom
  BY DEF Init, NoPhantom
<1> QED BY <1>1, <1>2 DEF IInv

(* The handler keeps the invariant wherever it interrupts the thread.      *)
LEMMA KeyIrqIInv ==
    ASSUME IInv, NEW k \in Keys, NEW up \in BOOLEAN, KeyIrq(k, up)
    PROVE  IInv'
<1>1. /\ keyboard_buffer' \in [Slot -> Chars \cup {NoChar}]
      /\ buffer_end' \in Slot
      /\ buffer_count' \in 0 .. BufferSize
      /\ queue' \in Seq(Chars)
      /\ \/ buffer_count' = buffer_count + 1 /\ Len(queue') = Len(queue) + 1
         \/ buffer_count' = buffer_count /\ queue' = queue
  <2>1. CASE current_mode = "RAW"
    <3>1. <<k, up>> \in Chars /\ Push(<<k, up>>)
      BY <2>1 DEF KeyIrq, Chars
    <3> QED BY <3>1, PushFacts DEF IInv
  <2>2. CASE current_mode # "RAW" /\ Ascii(k, up) # NoChar
    <3>1. Ascii(k, up) \in Chars
      BY <2>2, AsciiType DEF IInv
    <3>2. Push(Ascii(k, up))
      BY <2>2 DEF KeyIrq
    <3> QED BY <3>1, <3>2, PushFacts DEF IInv
  <2>3. CASE current_mode # "RAW" /\ Ascii(k, up) = NoChar
    BY <2>3 DEF KeyIrq, IInv, TypeOK
  <2> QED BY <2>1, <2>2, <2>3
<1>2. key_state' \in [Flags -> BOOLEAN]
  BY KeyStateType DEF KeyIrq, IInv, TypeOK
<1>3. echo' \in Chars \cup {NoChar}
  BY AsciiType DEF KeyIrq, IInv
<1>4. /\ held' \subseteq Keys /\ pc' \in ThreadPC
      /\ accidents' \subseteq {"raced", "early", "unseen"}
  BY DEF KeyIrq, IInv, TypeOK, ThreadPC, InitPC, Accident
<1>5. UNCHANGED <<buffer_start, current_mode, current_layout, reg, got>>
  BY DEF KeyIrq, modeVars
<1>6. TypeOK'
  BY <1>1, <1>2, <1>3, <1>4, <1>5 DEF IInv, TypeOK
<1>7. pc' = pc \/ (pc = "halt" /\ pc' = "g_test")
  BY DEF KeyIrq
<1>8. Len(queue) \in Nat /\ Len(queue') \in Nat
  BY <1>1 DEF IInv, TypeOK
<1>9. NoPhantom'
  BY <1>1, <1>5, <1>7, <1>8 DEF IInv, NoPhantom, TypeOK
<1> QED BY <1>6, <1>9 DEF IInv

(* Taking a character shortens the backlog by one.                         *)
LEMMA TakeIInv ==
    ASSUME IInv, Take, buffer_count > 0, pc \in {"idle", "g_test"}, pc' = "p_load"
    PROVE  IInv'
<1>1. queue \in Seq(Chars) /\ buffer_count <= Len(queue) /\ buffer_count \in 0 .. BufferSize
  BY DEF IInv, TypeOK, NoPhantom
<1>2. queue # <<>>
  BY <1>1, KeyboardAssumption
<1>3. queue' = Tail(queue) /\ queue' \in Seq(Chars) /\ Len(queue') = Len(queue) - 1
  BY <1>1, <1>2 DEF Take
<1>4. got' \in Chars \cup {NoChar} /\ buffer_start' \in Slot
  BY SlotStep DEF Take, IInv, TypeOK
<1>5. TypeOK'
  BY <1>3, <1>4 DEF Take, IInv, TypeOK, keyVars, modeVars, ThreadPC
<1>6. NoPhantom'
  BY <1>1, <1>3, KeyboardAssumption DEF Take, NoPhantom
<1> QED BY <1>5, <1>6 DEF IInv

LEMMA NextIInv == IInv /\ [Next]_vars => IInv'
<1> SUFFICES ASSUME IInv, [Next]_vars PROVE IInv'
  OBVIOUS
<1> USE KeyboardAssumption
<1>0. Len(queue) \in Nat
  BY DEF IInv, TypeOK
<1>1. ASSUME NEW k \in Keys, NEW up \in BOOLEAN, KeyIrq(k, up)
      PROVE  IInv'
  BY <1>1, KeyIrqIInv
<1>2. CASE OtherIrq
  BY <1>2 DEF OtherIrq, IInv, TypeOK, NoPhantom, ringVars, keyVars, modeVars, ThreadPC
<1>3. CASE InitStart
  <2>1. key_state' \in [Flags -> BOOLEAN]
    <3>1. key_state \in [Flags -> BOOLEAN]
      BY DEF IInv, TypeOK
    <3> DEFINE k1 == [key_state EXCEPT !["caps"] = FALSE]
               k2 == [k1 EXCEPT !["num"] = FALSE]
    <3>2. k1 \in [Flags -> BOOLEAN]
      BY <3>1
    <3>3. k2 \in [Flags -> BOOLEAN]
      <4> HIDE DEF k1
      <4> QED BY <3>2
    <3>4. [k2 EXCEPT !["scroll"] = FALSE] \in [Flags -> BOOLEAN]
      <4> HIDE DEF k2
      <4> QED BY <3>3
    <3>5. key_state' = [k2 EXCEPT !["scroll"] = FALSE]
      BY <1>3 DEF InitStart
    <3> QED BY <3>4, <3>5
  <2>2. buffer_start' \in Slot
    BY <1>3 DEF InitStart, Slot
  <2> QED BY <1>3, <2>1, <2>2 DEF InitStart, IInv, TypeOK, NoPhantom, modeVars, ThreadPC, InitPC
<1>4. CASE InitEnd
  BY <1>4 DEF InitEnd, IInv, TypeOK, NoPhantom, keyVars, modeVars, ThreadPC, InitPC, Slot
<1>5. CASE InitCount
  BY <1>5 DEF InitCount, IInv, TypeOK, NoPhantom, keyVars, ThreadPC, InitPC
<1>6. ASSUME NEW m \in Modes, keyboard_set_mode(m)
      PROVE  IInv'
  BY <1>6 DEF keyboard_set_mode, IInv, TypeOK, NoPhantom, ringVars, keyVars
<1>7. ASSUME NEW l \in Layouts, keyboard_set_layout(l)
      PROVE  IInv'
  BY <1>7 DEF keyboard_set_layout, IInv, TypeOK, NoPhantom, ringVars, keyVars
<1>8. CASE keyboard_read
  BY <1>8, TakeIInv DEF keyboard_read
<1>9. CASE keyboard_getchar
  BY <1>9 DEF keyboard_getchar, IInv, TypeOK, NoPhantom, ringVars, keyVars, modeVars, ThreadPC
<1>10. CASE GetcharTest
  <2>1. CASE buffer_count > 0
    BY <1>10, <2>1, TakeIInv DEF GetcharTest
  <2>2. CASE buffer_count = 0
    <3>1. /\ pc = "g_test" /\ pc' = "halt"
          /\ UNCHANGED <<ringVars, keyVars, modeVars, reg, got>>
      BY <1>10, <2>2 DEF GetcharTest
    <3> QED BY <3>1 DEF IInv, TypeOK, NoPhantom, ringVars, keyVars, modeVars, ThreadPC
  <2> QED BY <1>10, <2>1, <2>2 DEF GetcharTest
<1>11. CASE DecrementLoad
  BY <1>0, <1>11 DEF DecrementLoad, IInv, TypeOK, NoPhantom, ringVars, keyVars, modeVars, ThreadPC
<1>12. CASE DecrementStore
  BY <1>0, <1>12 DEF DecrementStore, IInv, TypeOK, NoPhantom, keyVars, modeVars, ThreadPC
<1>13. CASE UNCHANGED vars
  BY <1>13 DEF vars, IInv, TypeOK, NoPhantom
<1> QED
  BY <1>1, <1>2, <1>3, <1>4, <1>5, <1>6, <1>7, <1>8, <1>9, <1>10, <1>11, <1>12, <1>13
  DEF Next, Thread, Reading

(* Indices, count and flags of keyboard.c keep their ranges.               *)
THEOREM TypeCorrect == Spec => []TypeOK
<1>1. IInv => TypeOK
  BY DEF IInv
<1> QED BY <1>1, InitIInv, NextIInv, PTL DEF Spec

(***************************************************************************)
(* However the handler and the readers interleave, buffer_count never      *)
(* exceeds the characters typed and not yet read.                          *)
(***************************************************************************)
THEOREM NoPhantomAlways == Spec => []NoPhantom
<1>1. IInv => NoPhantom
  BY DEF IInv
<1> QED BY <1>1, InitIInv, NextIInv, PTL DEF Spec

(* How far the count is from the backlog, until a count is lost.           *)
CountExact ==
    "raced" \notin accidents =>
        /\ pc \notin {"p_load", "p_store"} => buffer_count = Len(queue)
        /\ pc \in {"p_load", "p_store"} => buffer_count = Len(queue) + 1
        /\ pc = "p_store" => reg = buffer_count

LEMMA InitExact == Init => CountExact
BY DEF Init, CountExact

LEMMA NextExact == IInv /\ CountExact /\ [Next]_vars => CountExact'
<1> SUFFICES ASSUME IInv, CountExact, [Next]_vars PROVE CountExact'
  OBVIOUS
<1> USE KeyboardAssumption DEF CountExact
<1>0. Len(queue) \in Nat /\ buffer_count \in Nat /\ queue \in Seq(Chars)
  BY DEF IInv, TypeOK
<1>1. ASSUME NEW k \in Keys, NEW up \in BOOLEAN, KeyIrq(k, up)
      PROVE  CountExact'
  <2>1. \/ buffer_count' = buffer_count + 1 /\ Len(queue') = Len(queue) + 1
        \/ buffer_count' = buffer_count /\ queue' = queue
    <3>1. <<k, up>> \in Chars
      BY DEF Chars
    <3>2. Ascii(k, up) # NoChar => Ascii(k, up) \in Chars
      BY AsciiType DEF IInv
    <3>3. CASE current_mode = "RAW"
      BY <1>1, <3>1, <3>3, PushFacts DEF KeyIrq, IInv
    <3>4. CASE current_mode # "RAW" /\ Ascii(k, up) # NoChar
      <4>1. Push(Ascii(k, up))
        BY <1>1, <3>4 DEF KeyIrq
      <4> QED BY <3>2, <3>4, <4>1, PushFacts DEF IInv
    <3>5. CASE current_mode # "RAW" /\ Ascii(k, up) = NoChar
      BY <1>1, <3>5 DEF KeyIrq
    <3> QED BY <3>3, <3>4, <3>5
  <2>2. /\ pc' = pc \/ (pc = "halt" /\ pc' = "g_test")
        /\ reg' = reg
    BY <1>1 DEF KeyIrq
  <2>3. /\ "raced" \notin accidents' => "raced" \notin accidents
        /\ pc = "p_store" /\ queue' # queue => "raced" \in accidents'
    BY <1>1 DEF KeyIrq, Accident
  <2>4. pc = "p_store" /\ "raced" \notin accidents' =>
            buffer_count' = buffer_count /\ queue' = queue
    BY <1>0, <2>1, <2>3
  <2> QED BY <1>0, <2>1, <2>2, <2>3, <2>4
<1>2. ASSUME buffer_count > 0, Take, pc \in {"idle", "g_test"}, pc' = "p_load"
      PROVE  CountExact'
  BY <1>0, <1>2 DEF Take, keyVars
<1>3. CASE OtherIrq \/ keyboard_getchar
  BY <1>3 DEF OtherIrq, keyboard_getchar, ringVars, keyVars
<1>4. CASE InitStart \/ InitEnd \/ InitCount
  BY <1>4 DEF InitStart, InitEnd, InitCount, keyVars
<1>5. CASE \/ \E m \in Modes : keyboard_set_mode(m)
           \/ \E l \in Layouts : keyboard_set_layout(l)
  BY <1>5 DEF keyboard_set_mode, keyboard_set_layout, ringVars, keyVars
<1>6. CASE keyboard_read
  BY <1>2, <1>6 DEF keyboard_read
<1>7. CASE GetcharTest
  BY <1>0, <1>2, <1>7 DEF GetcharTest, ringVars, keyVars
<1>8. CASE DecrementLoad \/ DecrementStore
  BY <1>0, <1>8 DEF DecrementLoad, DecrementStore, ringVars, keyVars
<1>9. CASE UNCHANGED vars
  BY <1>9 DEF vars
<1> QED
  BY <1>1, <1>3, <1>4, <1>5, <1>6, <1>7, <1>8, <1>9 DEF Next, Thread, Reading

(***************************************************************************)
(* Until a key press falls between the load and the store of               *)
(* buffer_count-- the count is exact: nothing that was accepted is         *)
(* forgotten.                                                              *)
(***************************************************************************)
THEOREM NothingForgottenAlways == Spec => []NothingForgotten
<1>1. CountExact => NothingForgotten
  BY DEF CountExact, NothingForgotten
<1> QED BY <1>1, InitIInv, NextIInv, InitExact, NextExact, PTL DEF Spec

-----------------------------------------------------------------------------
(***************************************************************************)
(* The order of the characters.  RingHolds relates the ring to the backlog *)
(* even when it has outgrown the ring: the newest BufferSize characters    *)
(* are the ones behind buffer_end, newest first.                           *)
(***************************************************************************)
Behind(d) == IF d <= buffer_end THEN buffer_end - d ELSE buffer_end - d + BufferSize

Aligned == buffer_end = (buffer_start + Len(queue)) % BufferSize

Newest ==
    \A d \in 1 .. BufferSize :
        d <= Len(queue) => keyboard_buffer[Behind(d)] = queue[Len(queue) - d + 1]

RingHolds ==
    /\ pc \in {"i_end", "i_count"} => buffer_start = 0
    /\ "early" \notin accidents /\ pc = "i_count" => buffer_end = 0
    /\ "early" \notin accidents /\ pc \notin InitPC => Aligned /\ Newest

(* The ring's successor, without the modulus.                              *)
LEMMA SlotNext ==
    ASSUME NEW i \in Slot
    PROVE  (i + 1) % BufferSize = IF i + 1 = BufferSize THEN 0 ELSE i + 1
BY KeyboardAssumption DEF Slot

(* A slot is the remainder of every sum it closes.                         *)
LEMMA ModUnique ==
    ASSUME NEW q \in Int, NEW r \in Slot
    PROVE  (q * BufferSize + r) % BufferSize = r
BY KeyboardAssumption DEF Slot

LEMMA ModSplit ==
    ASSUME NEW a \in Nat
    PROVE  /\ a \div BufferSize \in Int
           /\ a = (a \div BufferSize) * BufferSize + (a % BufferSize)
           /\ a % BufferSize \in Slot
BY KeyboardAssumption DEF Slot

(* buffer_push keeps the end where the backlog puts it.                    *)
LEMMA AlignPush ==
    ASSUME NEW s \in Slot, NEW n \in Nat
    PROVE  (s + (n + 1)) % BufferSize = (((s + n) % BufferSize) + 1) % BufferSize
<1> DEFINE q == (s + n) \div BufferSize
           r == (s + n) % BufferSize
<1>0. s + n \in Nat
  BY DEF Slot
<1>1. q \in Int /\ r \in Slot /\ s + n = q * BufferSize + r
  BY <1>0, ModSplit
<1> HIDE DEF q, r
<1>2. CASE r + 1 = BufferSize
  <2>1. s + (n + 1) = (q + 1) * BufferSize + 0
    BY <1>1, <1>2, KeyboardAssumption DEF Slot
  <2>2. (s + (n + 1)) % BufferSize = 0
    <3>1. 0 \in Slot /\ q + 1 \in Int
      BY <1>1, KeyboardAssumption DEF Slot
    <3> QED BY <2>1, <3>1, ModUnique
  <2> QED BY <1>1, <1>2, <2>2, SlotNext DEF r
<1>3. CASE r + 1 # BufferSize
  <2>1. s + (n + 1) = q * BufferSize + (r + 1) /\ r + 1 \in Slot
    BY <1>1, <1>3, KeyboardAssumption DEF Slot
  <2>2. (s + (n + 1)) % BufferSize = r + 1
    BY <1>1, <2>1, ModUnique
  <2> QED BY <1>1, <1>3, <2>2, SlotNext DEF r
<1> QED BY <1>2, <1>3

(* buffer_pop too.                                                         *)
LEMMA AlignTake ==
    ASSUME NEW s \in Slot, NEW n \in Nat \ {0}
    PROVE  (((s + 1) % BufferSize) + (n - 1)) % BufferSize = (s + n) % BufferSize
<1> DEFINE q == (s + n) \div BufferSize
           r == (s + n) % BufferSize
<1>0. s + n \in Nat
  BY DEF Slot
<1>1. q \in Int /\ r \in Slot /\ s + n = q * BufferSize + r
  BY <1>0, ModSplit
<1> HIDE DEF q, r
<1>2. CASE s + 1 = BufferSize
  <2>1. 0 + (n - 1) = (q - 1) * BufferSize + r
    BY <1>1, <1>2, KeyboardAssumption DEF Slot
  <2>2. (0 + (n - 1)) % BufferSize = r
    BY <1>1, <2>1, ModUnique
  <2> QED BY <1>2, <2>2, SlotNext DEF r
<1>3. CASE s + 1 # BufferSize
  BY <1>3, SlotNext DEF Slot
<1> QED BY <1>2, <1>3

(* The oldest character of a backlog that fits is the one at buffer_start. *)
LEMMA OldestSlot ==
    ASSUME TypeOK, Aligned, Len(queue) \in 1 .. BufferSize
    PROVE  Behind(Len(queue)) = buffer_start
<1> DEFINE n == Len(queue)
           q == (buffer_start + n) \div BufferSize
<1>1. /\ buffer_start \in Slot /\ buffer_end \in Slot /\ n \in 1 .. BufferSize
      /\ n \in Nat
  BY KeyboardAssumption DEF TypeOK
<1>2. q \in Int /\ buffer_start + n = q * BufferSize + buffer_end
  <2>1. buffer_start + n \in Nat
    BY <1>1 DEF Slot
  <2> QED BY <2>1, ModSplit DEF Aligned
<1> HIDE DEF n, q
<1>3. q = 0 \/ q = 1
  <2>1. ASSUME q < 0 PROVE q * BufferSize <= -BufferSize
    BY <1>2, <2>1, KeyboardAssumption
  <2>2. ASSUME q > 1 PROVE q * BufferSize >= 2 * BufferSize
    BY <1>2, <2>2, KeyboardAssumption
  <2> QED BY <1>1, <1>2, <2>1, <2>2, KeyboardAssumption DEF Slot
<1>4. CASE q = 0
  BY <1>1, <1>2, <1>4, KeyboardAssumption DEF Behind, Slot, n
<1>5. CASE q = 1
  BY <1>1, <1>2, <1>5, KeyboardAssumption DEF Behind, Slot, n
<1> QED BY <1>3, <1>4, <1>5

LEMMA InitRing == Init => RingHolds
BY DEF Init, RingHolds, InitPC

(* A stored character becomes the newest; the others move one slot back.   *)
LEMMA PushRing ==
    ASSUME NEW c \in Chars, TypeOK, Push(c), Aligned, Newest,
           buffer_start' = buffer_start
    PROVE  Aligned' /\ Newest'
<1> USE KeyboardAssumption
<1>1. CASE buffer_count >= BufferSize
  <2>1. UNCHANGED <<keyboard_buffer, buffer_end, queue>>
    BY <1>1 DEF Push, TypeOK
  <2> QED BY <2>1 DEF Aligned, Newest, Behind
<1>2. CASE buffer_count < BufferSize
  <2>1. /\ keyboard_buffer' = [keyboard_buffer EXCEPT ![buffer_end] = c]
        /\ buffer_end' = (buffer_end + 1) % BufferSize
        /\ queue' = Append(queue, c)
    BY <1>2 DEF Push, TypeOK
  <2>2. /\ queue \in Seq(Chars) /\ Len(queue) \in Nat
        /\ Len(queue') = Len(queue) + 1
        /\ buffer_start \in Slot /\ buffer_end \in Slot
        /\ DOMAIN keyboard_buffer = Slot
    BY <2>1 DEF TypeOK
  <2>3. Aligned'
    BY <2>1, <2>2, AlignPush DEF Aligned
  <2>4. buffer_end' = IF buffer_end + 1 = BufferSize THEN 0 ELSE buffer_end + 1
    BY <2>1, <2>2, SlotNext
  <2>5. ASSUME NEW d \in 1 .. BufferSize, d <= Len(queue')
        PROVE  keyboard_buffer'[Behind(d)'] = queue'[Len(queue') - d + 1]
    <3>1. CASE d = 1
      <4>1. Behind(d)' = buffer_end
        BY <2>2, <2>4, <3>1 DEF Behind, Slot
      <4> QED BY <2>1, <2>2, <3>1, <4>1
    <3>2. CASE d # 1
      <4>1. d - 1 \in 1 .. BufferSize /\ d - 1 <= Len(queue)
        BY <2>2, <2>5, <3>2
      <4>2. Behind(d)' = Behind(d - 1)
        BY <2>2, <2>4, <4>1 DEF Behind, Slot
      <4>3. Behind(d - 1) # buffer_end /\ Behind(d - 1) \in Slot
        BY <2>2, <4>1 DEF Behind, Slot
      <4>4. keyboard_buffer[Behind(d - 1)] = queue[Len(queue) - (d - 1) + 1]
        BY <4>1 DEF Newest
      <4>5. Len(queue) - (d - 1) + 1 \in 1 .. Len(queue)
        BY <2>2, <4>1
      <4>6. queue'[Len(queue) - (d - 1) + 1] = queue[Len(queue) - (d - 1) + 1]
        BY <2>1, <2>2, <4>5
      <4>7. Len(queue') - d + 1 = Len(queue) - (d - 1) + 1
        BY <2>2
      <4> QED BY <2>1, <2>2, <4>2, <4>3, <4>4, <4>6, <4>7
    <3> QED BY <3>1, <3>2
  <2>6. Newest'
    BY <2>5 DEF Newest
  <2> QED BY <2>3, <2>6
<1> QED BY <1>1, <1>2 DEF TypeOK

(* Taking the oldest character leaves the newer ones in place.             *)
LEMMA TakeRing ==
    ASSUME TypeOK, Take, queue # <<>>, Aligned, Newest
    PROVE  Aligned' /\ Newest'
<1> USE KeyboardAssumption
<1>1. /\ queue \in Seq(Chars) /\ Len(queue) \in Nat \ {0}
      /\ queue' = Tail(queue) /\ Len(queue') = Len(queue) - 1
      /\ buffer_start \in Slot
      /\ buffer_start' = (buffer_start + 1) % BufferSize
      /\ UNCHANGED <<keyboard_buffer, buffer_end>>
  BY DEF TypeOK, Take
<1>2. Aligned'
  BY <1>1, AlignTake DEF Aligned
<1>3. ASSUME NEW d \in 1 .. BufferSize, d <= Len(queue')
      PROVE  keyboard_buffer'[Behind(d)'] = queue'[Len(queue') - d + 1]
  <2>1. d <= Len(queue) /\ Len(queue') - d + 1 \in 1 .. Len(queue')
    BY <1>1, <1>3
  <2>2. queue'[Len(queue') - d + 1] = queue[Len(queue) - d + 1]
    BY <1>1, <2>1
  <2>3. keyboard_buffer[Behind(d)] = queue[Len(queue) - d + 1]
    BY <2>1 DEF Newest
  <2> QED BY <1>1, <2>2, <2>3 DEF Behind
<1>4. Newest'
  BY <1>3 DEF Newest
<1> QED BY <1>2, <1>4

(* A run of the handler leaves the ring alone or stores one character.     *)
LEMMA HandlerStores ==
    ASSUME TypeOK, NEW k \in Keys, NEW up \in BOOLEAN, KeyIrq(k, up)
    PROVE  \/ \E c \in Chars : Push(c)
           \/ UNCHANGED <<keyboard_buffer, buffer_end, buffer_count, queue>>
<1>1. CASE current_mode = "RAW"
  <2>1. <<k, up>> \in Chars /\ Push(<<k, up>>)
    BY <1>1 DEF KeyIrq, Chars
  <2> QED BY <2>1
<1>2. CASE current_mode # "RAW" /\ Ascii(k, up) # NoChar
  <2>1. Ascii(k, up) \in Chars
    BY <1>2, AsciiType
  <2>2. Push(Ascii(k, up))
    BY <1>2 DEF KeyIrq
  <2> QED BY <2>1, <2>2
<1>3. CASE current_mode # "RAW" /\ Ascii(k, up) = NoChar
  BY <1>3 DEF KeyIrq
<1> QED BY <1>1, <1>2, <1>3

LEMMA NextRing == IInv /\ RingHolds /\ [Next]_vars => RingHolds'
<1> SUFFICES ASSUME IInv, RingHolds, [Next]_vars PROVE RingHolds'
  OBVIOUS
<1> USE KeyboardAssumption
<1>0. TypeOK /\ Len(queue) \in Nat /\ queue \in Seq(Chars)
  BY DEF IInv, TypeOK
<1>1. ASSUME NEW k \in Keys, NEW up \in BOOLEAN, KeyIrq(k, up)
      PROVE  RingHolds'
  <2>1. /\ pc' \in InitPC <=> pc \in InitPC
        /\ pc \in InitPC => pc' = pc
        /\ buffer_start' = buffer_start
        /\ "early" \notin accidents' => "early" \notin accidents
        /\ pc = "i_count" /\ queue' # queue => "early" \in accidents'
    BY <1>1 DEF KeyIrq, Accident, InitPC
  <2>2. CASE UNCHANGED <<keyboard_buffer, buffer_end, buffer_count, queue>>
    BY <2>1, <2>2 DEF RingHolds, Aligned, Newest, Behind, InitPC
  <2>3. ASSUME NEW c \in Chars, Push(c)
        PROVE  RingHolds'
    <3>1. "early" \notin accidents' /\ pc' \notin InitPC => Aligned' /\ Newest'
      BY <1>0, <2>1, <2>3, PushRing DEF RingHolds
    <3>2. "early" \notin accidents' /\ pc' = "i_count" => buffer_end' = buffer_end
      <4>1. queue' = queue => UNCHANGED buffer_end
        BY <1>0, <2>3 DEF Push
      <4> QED BY <2>1, <4>1 DEF InitPC
    <3> QED BY <2>1, <3>1, <3>2 DEF RingHolds, InitPC
  <2> QED BY <1>0, <1>1, <2>2, <2>3, HandlerStores
<1>2. ASSUME buffer_count > 0, Take, pc \in {"idle", "g_test"}, pc' = "p_load"
      PROVE  RingHolds'
  <2>1. queue # <<>>
    BY <1>0, <1>2 DEF IInv, NoPhantom, TypeOK
  <2>2. pc \notin InitPC /\ accidents' = accidents
    BY <1>2 DEF Take, keyVars, InitPC
  <2> QED BY <1>0, <1>2, <2>1, <2>2, TakeRing DEF RingHolds, InitPC
<1>3. CASE InitStart \/ InitEnd
  BY <1>3 DEF InitStart, InitEnd, RingHolds, InitPC, keyVars
<1>4. CASE InitCount
  <2>1. /\ pc = "i_count" /\ pc' = "idle" /\ queue' = <<>>
        /\ UNCHANGED <<keyboard_buffer, buffer_start, buffer_end, accidents>>
    BY <1>4 DEF InitCount, keyVars
  <2>2. "early" \notin accidents => buffer_start = 0 /\ buffer_end = 0
    BY <2>1 DEF RingHolds
  <2>3. 0 = (0 + Len(<<>>)) % BufferSize
    OBVIOUS
  <2> QED BY <2>1, <2>2, <2>3 DEF RingHolds, Aligned, Newest, InitPC
<1>5. ASSUME UNCHANGED <<keyboard_buffer, buffer_start, buffer_end, queue, accidents>>,
             pc \notin InitPC, pc' \notin InitPC
      PROVE  RingHolds'
  BY <1>5 DEF RingHolds, Aligned, Newest, Behind, InitPC
<1>6. CASE \/ OtherIrq \/ keyboard_getchar \/ DecrementLoad \/ DecrementStore
           \/ \E m \in Modes : keyboard_set_mode(m)
           \/ \E l \in Layouts : keyboard_set_layout(l)
  BY <1>5, <1>6 DEF OtherIrq, keyboard_getchar, DecrementLoad, DecrementStore,
     keyboard_set_mode, keyboard_set_layout, ringVars, keyVars, InitPC
<1>7. CASE keyboard_read
  BY <1>2, <1>7 DEF keyboard_read
<1>8. CASE GetcharTest
  BY <1>2, <1>5, <1>8 DEF GetcharTest, ringVars, keyVars, InitPC
<1>9. CASE UNCHANGED vars
  BY <1>9 DEF vars, RingHolds, Aligned, Newest, Behind
<1> QED
  BY <1>1, <1>3, <1>4, <1>6, <1>7, <1>8, <1>9 DEF Next, Thread, Reading

(***************************************************************************)
(* However the handler falls between the reads, keyboard_read and          *)
(* keyboard_getchar return the characters in the order they were typed,    *)
(* unless the backlog has outgrown the ring after a lost count or a key    *)
(* came between the last two resets of keyboard_init.                      *)
(***************************************************************************)
THEOREM ReadsInOrderAlways == Spec => ReadsInOrder
<1> DEFINE InOrder ==
      keyboard_read \/ (GetcharTest /\ pc' = "p_load")
         => \/ "early" \in accidents
            \/ "raced" \in accidents /\ Len(queue) > BufferSize
            \/ queue # <<>> /\ got' = Head(queue)
<1>1. IInv /\ CountExact /\ RingHolds => InOrder
  <2> SUFFICES ASSUME IInv, CountExact, RingHolds,
                      keyboard_read \/ (GetcharTest /\ pc' = "p_load"),
                      "early" \notin accidents,
                      ~ ("raced" \in accidents /\ Len(queue) > BufferSize)
               PROVE  queue # <<>> /\ got' = Head(queue)
    OBVIOUS
  <2> USE KeyboardAssumption
  <2>1. /\ TypeOK /\ queue \in Seq(Chars) /\ Len(queue) \in Nat
        /\ buffer_count \in 0 .. BufferSize
    BY DEF IInv, TypeOK
  <2>2. pc \in {"idle", "g_test"} /\ buffer_count > 0 /\ Take
    BY DEF keyboard_read, GetcharTest
  <2>3. buffer_count <= Len(queue)
    BY <2>2 DEF IInv, NoPhantom
  <2>4. Len(queue) \in 1 .. BufferSize
    BY <2>1, <2>2, <2>3 DEF CountExact
  <2>5. Aligned /\ Newest
    BY <2>2 DEF RingHolds, InitPC
  <2>6. keyboard_buffer[buffer_start] = queue[Len(queue) - Len(queue) + 1]
    BY <2>1, <2>4, <2>5, OldestSlot DEF Newest
  <2> QED BY <2>1, <2>2, <2>4, <2>6 DEF Take
<1>2. IInv /\ CountExact /\ RingHolds => [InOrder]_vars
  BY <1>1
<1> QED
  BY <1>2, InitIInv, NextIInv, InitExact, NextExact, InitRing, NextRing, PTL
  DEF Spec, ReadsInOrder

-----------------------------------------------------------------------------
(***************************************************************************)
(* The shift flag follows the shift keys, unless a modifier was released   *)
(* in raw mode: with both shift keys down and one released the flag is off *)
(* too early, never on too long.                                           *)
(***************************************************************************)
THEOREM ShiftSoundAlways == Spec => []ShiftSound
<1>1. Init => ShiftSound
  BY DEF Init, ShiftSound, Flags
<1>2. TypeOK /\ ShiftSound /\ [Next]_vars => ShiftSound'
  <2> SUFFICES ASSUME TypeOK, ShiftSound, [Next]_vars PROVE ShiftSound'
    OBVIOUS
  <2>1. ASSUME NEW k \in Keys, NEW up \in BOOLEAN, KeyIrq(k, up),
               "unseen" \notin accidents', key_state'["shift"]
        PROVE  held' \cap Shifts # {}
    <3>1. /\ "unseen" \notin accidents
          /\ up /\ current_mode = "RAW" => k \notin DOMAIN ModifierOf
          /\ held' = IF up THEN held \ {k} ELSE held \cup {k}
          /\ key_state' = key_state \/ key_state' = KeyState(k, up)
          /\ current_mode # "RAW" => key_state' = KeyState(k, up)
      BY <2>1 DEF KeyIrq, Accident
    <3>2. /\ DOMAIN ModifierOf = {"LSHIFT", "RSHIFT", "LCTRL", "LALT"}
          /\ ModifierOf["LSHIFT"] = "shift" /\ ModifierOf["RSHIFT"] = "shift"
          /\ ModifierOf["LCTRL"] = "ctrl" /\ ModifierOf["LALT"] = "alt"
      BY DEF ModifierOf
    <3>3. /\ DOMAIN LockOf = {"CAPSLOCK", "NUMLOCK", "SCROLLLOCK"}
          /\ \A m \in DOMAIN LockOf : LockOf[m] # "shift"
      BY DEF LockOf
    <3>4. key_state \in [Flags -> BOOLEAN]
      BY DEF TypeOK
    <3>5. CASE k \in Shifts
      <4>1. KeyState(k, up)["shift"] = ~ up
        BY <3>2, <3>4, <3>5 DEF KeyState, Shifts, Flags
      <4>2. ~ up
        BY <2>1, <3>1, <3>2, <3>5, <4>1 DEF Shifts
      <4> QED BY <3>1, <3>5, <4>2
    <3>6. CASE k \notin Shifts
      <4>1. KeyState(k, up)["shift"] = key_state["shift"]
        BY <3>2, <3>3, <3>4, <3>6 DEF KeyState, Shifts, Flags
      <4>2. held \cap Shifts # {}
        BY <2>1, <3>1, <4>1 DEF ShiftSound
      <4> QED BY <3>1, <3>6, <4>2
    <3> QED BY <3>5, <3>6
  <2>2. CASE InitStart
    <3>1. key_state'["shift"] = key_state["shift"]
      BY <2>2 DEF InitStart, TypeOK, Flags
    <3> QED BY <2>2, <3>1 DEF InitStart, ShiftSound
  <2>3. CASE UNCHANGED <<key_state, held, accidents>>
    BY <2>3 DEF ShiftSound
  <2>4. CASE OtherIrq \/ InitEnd \/ InitCount \/ keyboard_read \/ keyboard_getchar
             \/ GetcharTest \/ DecrementLoad \/ DecrementStore
    BY <2>3, <2>4 DEF OtherIrq, InitEnd, InitCount, keyboard_read, keyboard_getchar,
       GetcharTest, DecrementLoad, DecrementStore, Take, keyVars
  <2>5. CASE \/ \E m \in Modes : keyboard_set_mode(m)
             \/ \E l \in Layouts : keyboard_set_layout(l)
    BY <2>3, <2>5 DEF keyboard_set_mode, keyboard_set_layout, keyVars
  <2>6. CASE UNCHANGED vars
    BY <2>3, <2>6 DEF vars
  <2>7. (\E k \in Keys, up \in BOOLEAN : KeyIrq(k, up)) => ShiftSound'
    BY <2>1 DEF ShiftSound
  <2> QED BY <2>2, <2>4, <2>5, <2>6, <2>7 DEF Next, Thread, Reading
<1> QED BY <1>1, <1>2, TypeCorrect, PTL DEF Spec
=============================================================================
