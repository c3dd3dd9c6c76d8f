---------------------------- MODULE TimerProofs ----------------------------
(***************************************************************************)
(* The timer's counters, for every word size, every frequency pit_init     *)
(* accepts, and every interleaving of the handler with the thread: the     *)
(* uptime in seconds does not drift, sleep_ms is never a tick short and    *)
(* get_uptime_ms answers a value the counter had, up to the wraps the      *)
(* properties name.                                                        *)
(***************************************************************************)
EXTENDS Timer, TLAPS

(* pit_init runs once, and what it stores stays: a tick lasts a positive   *)
(* number of milliseconds.                                                 *)
Clock ==
    /\ timer.ticks = total % Modulus
    /\ timer.frequency # 0 =>
          /\ timer.frequency \in MinFreq .. MaxFreq
          /\ timer.ms_per_tick = Second \div timer.frequency
          /\ timer.ms_per_tick \in 1 .. Second

(* The callback has last fired at a whole number of seconds.               *)
WholeSeconds ==
    /\ callback => timer.frequency # 0 /\ hooked <= total
    /\ ~ callback => seconds = 0 /\ last_tick = 0
    /\ callback /\ hooked < timer.frequency =>
          /\ seconds = total \div timer.frequency
          /\ last_tick = (seconds * timer.frequency) % Modulus

(* What the thread's call has in hand, until it returns.                   *)
CallUnderWay ==
    /\ thread # "idle" => timer.frequency # 0
    /\ thread = "sleep" =>
          /\ begun \div Parts <= total
          /\ end = (((begun \div Parts) % Modulus) + TicksToWait(asked)) % Modulus
    /\ thread = "high" => begun <= timer.uptime_ms /\ low = begun % Modulus

IInv == TypeOK /\ Clock /\ WholeSeconds /\ CallUnderWay

-----------------------------------------------------------------------------
(***************************************************************************)
(* Arithmetic.                                                             *)
(***************************************************************************)
LEMMA ModType ==
    ASSUME NEW n \in Nat \ {0}, NEW a \in Int
    PROVE  a % n \in 0 .. n - 1
OBVIOUS

LEMMA DivMod ==
    ASSUME NEW n \in Nat \ {0}, NEW a \in Nat
    PROVE  /\ a \div n \in Nat /\ a % n \in 0 .. n - 1
           /\ a = (a \div n) * n + (a % n)
OBVIOUS

(* Quotient and remainder are unique.                                      *)
LEMMA Quotient ==
    ASSUME NEW n \in Nat \ {0}, NEW q \in Int, NEW r \in 0 .. n - 1
    PROVE  (q * n + r) \div n = q /\ (q * n + r) % n = r
OBVIOUS

(* One more tick, in the counter that wraps.                               *)
LEMMA ModSuccessor ==
    ASSUME NEW n \in Nat \ {0}, NEW a \in Nat
    PROVE  ((a % n) + 1) % n = (a + 1) % n
<1> DEFINE q == a \div n
           r == a % n
<1>1. q \in Nat /\ r \in 0 .. n - 1 /\ a = q * n + r
  BY DivMod
<1> HIDE DEF q, r
<1>2. CASE r + 1 = n
  <2>1. a + 1 = (q + 1) * n + 0 /\ q + 1 \in Int /\ 0 \in 0 .. n - 1
    BY <1>1, <1>2
  <2>2. (a + 1) % n = 0
    BY <2>1, Quotient
  <2>3. r + 1 = 1 * n + 0
    BY <1>2
  <2>4. (r + 1) % n = 0
    BY <2>1, <2>3, Quotient
  <2> QED BY <2>2, <2>4 DEF r
<1>3. CASE r + 1 # n
  <2>1. a + 1 = q * n + (r + 1) /\ r + 1 \in 0 .. n - 1
    BY <1>1, <1>3
  <2>2. (a + 1) % n = r + 1
    BY <1>1, <2>1, Quotient
  <2>3. (r + 1) % n = r + 1
    BY <2>1
  <2> QED BY <2>2, <2>3 DEF r
<1> QED BY <1>2, <1>3

(* The distance of two counts is the distance of their remainders, if it   *)
(* is smaller than the modulus.                                            *)
LEMMA ModDistance ==
    ASSUME NEW n \in Nat \ {0}, NEW a \in Nat, NEW d \in 0 .. n - 1
    PROVE  (((a + d) % n) - (a % n)) % n = d
<1> DEFINE p == a \div n
           s == a % n
           q == (a + d) \div n
           r == (a + d) % n
<1>0. a + d \in Nat
  OBVIOUS
<1>1. /\ p \in Nat /\ s \in 0 .. n - 1 /\ a = p * n + s
      /\ q \in Nat /\ r \in 0 .. n - 1 /\ a + d = q * n + r
  BY <1>0, DivMod
<1> HIDE DEF p, q, r, s
<1>2. r - s = (p - q) * n + d /\ p - q \in Int
  BY <1>1
<1>3. (r - s) % n = d
  BY <1>2, Quotient
<1> QED BY <1>3 DEF r, s

(* A later count with a remainder w larger is at least w later.            *)
LEMMA ModLater ==
    ASSUME NEW n \in Nat \ {0}, NEW a \in Nat, NEW b \in Nat, a <= b,
           NEW w \in Nat, (a % n) + w <= b % n
    PROVE  b - a >= w
<1> DEFINE p == a \div n
           s == a % n
           q == b \div n
           r == b % n
<1>1. /\ p \in Nat /\ s \in 0 .. n - 1 /\ a = p * n + s
      /\ q \in Nat /\ r \in 0 .. n - 1 /\ b = q * n + r
      /\ s + w <= r
  BY DivMod
<1> HIDE DEF p, q, r, s
<1>2. q >= p
  <2> SUFFICES ASSUME q < p PROVE FALSE
    BY <1>1
  <2>1. p - q - 1 \in Nat
    BY <1>1
  <2>2. (p - q - 1) * n >= 0
    BY <2>1
  <2>3. p * n >= q * n + n
    BY <1>1, <2>2
  <2> QED BY <1>1, <2>3
<1>3. (q - p) * n >= 0
  BY <1>1, <1>2
<1>4. b - a = (q - p) * n + (r - s)
  BY <1>1
<1>5. (q - p) * n \in Int
  BY <1>1
<1> QED BY <1>1, <1>3, <1>4, <1>5

(* Rounding up: as many ticks as sleep_ms waits for cover the wait.        *)
LEMMA RoundedUp ==
    ASSUME NEW m \in Nat \ {0}, NEW ms \in Nat
    PROVE  ((ms + m - 1) \div m) * m >= ms
<1> DEFINE q == (ms + m - 1) \div m
<1>0. ms + m - 1 \in Nat
  OBVIOUS
<1>1. q \in Nat /\ (ms + m - 1) % m \in 0 .. m - 1
      /\ ms + m - 1 = q * m + ((ms + m - 1) % m)
  BY <1>0, DivMod
<1> QED BY <1>1

LEMMA TimesMonotone ==
    ASSUME NEW a \in Int, NEW b \in Int, a <= b, NEW m \in Nat
    PROVE  a * m <= b * m
<1>1. (b - a) * m >= 0
  BY SMT
<1> QED BY <1>1

-----------------------------------------------------------------------------
LEMMA Words ==
    /\ Modulus \in Nat \ {0} /\ Second \in Nat \ {0} /\ MinFreq \in Nat \ {0}
    /\ Parts \in Nat \ {0}
BY TimerAssumption

(* The time is a number of whole ticks, and the part of the current one.   *)
LEMMA WholeTicks ==
    ASSUME TypeOK
    PROVE  /\ Now \in Nat /\ Now \div Parts = total
           /\ total \in Nat /\ part \in 0 .. Parts - 1
<1>1. total \in Nat /\ part \in 0 .. Parts - 1 /\ Parts \in Nat \ {0}
  BY Words DEF TypeOK
<1>2. (total * Parts + part) \div Parts = total
  BY <1>1, Quotient
<1>3. total * Parts \in Nat
  BY <1>1
<1> QED BY <1>1, <1>2, <1>3 DEF Now

(* The frequencies pit_init stores give a tick of at least a millisecond.  *)
LEMMA TickLength ==
    ASSUME NEW f \in MinFreq .. MaxFreq
    PROVE  Second \div f \in 1 .. Second
<1>1. f \in Nat \ {0} /\ f <= Second /\ Second \in Nat \ {0}
  BY TimerAssumption
<1> DEFINE q == Second \div f
<1>2. q \in Nat /\ Second % f \in 0 .. f - 1 /\ Second = q * f + (Second % f)
  BY <1>1, DivMod
<1> HIDE DEF q
<1>3. q # 0
  <2> SUFFICES ASSUME q = 0 PROVE FALSE
    OBVIOUS
  <2>1. q * f = 0
    BY <1>1
  <2> QED BY <1>1, <1>2, <2>1
<1>4. q <= Second
  <2>1. q * 1 <= q * f
    BY <1>1, <1>2
  <2>2. q * f \in Int
    BY <1>1, <1>2
  <2> QED BY <1>1, <1>2, <2>1, <2>2
<1> QED BY <1>1, <1>2, <1>3, <1>4 DEF q

LEMMA WaitType ==
    ASSUME Clock, timer.frequency # 0, NEW ms \in Nat
    PROVE  TicksToWait(ms) \in Nat
<1>1. timer.ms_per_tick \in Nat \ {0}
  BY TimerAssumption DEF Clock
<1>2. (ms + timer.ms_per_tick - 1) % Modulus \in Nat
  BY <1>1, Words, ModType
<1> QED BY <1>1, <1>2, DivMod DEF TicksToWait

-----------------------------------------------------------------------------
LEMMA InitHolds == Init => IInv
<1> SUFFICES ASSUME Init PROVE IInv
  OBVIOUS
<1>1. TypeOK
  <2>1. 0 \in 0 .. Modulus - 1 /\ 0 \in 0 .. Second /\ 0 \in 0 .. MaxTotal
        /\ 0 \in 0 .. Parts - 1
    BY TimerAssumption
  <2> QED BY <2>1 DEF Init, TypeOK
<1>2. 0 % Modulus = 0
  BY Words
<1>3. Clock
  BY <1>2 DEF Init, Clock
<1> QED
  BY <1>1, <1>3 DEF IInv, Init, WholeSeconds, CallUnderWay

(* The seconds counted by the callback are the seconds gone, tick by tick: *)
(* the distance to the last whole second never reaches the modulus, so the *)
(* 32-bit subtraction of timer_callback is exact across the wrap.          *)
LEMMA SecondStep ==
    ASSUME IInv, callback, hooked < timer.frequency,
           timer_callback(NextTick(timer.ticks))
    PROVE  /\ seconds' = (total + 1) \div timer.frequency
           /\ last_tick' = (seconds' * timer.frequency) % Modulus
<1> DEFINE F == timer.frequency
           q == total \div F
           r == total % F
<1>1. /\ F \in Nat \ {0} /\ F < Modulus /\ total \in Nat
      /\ seconds = q /\ last_tick = (q * F) % Modulus
      /\ timer.ticks = total % Modulus
  BY TimerAssumption DEF IInv, TypeOK, Clock, WholeSeconds
<1>2. q \in Nat /\ r \in 0 .. F - 1 /\ total = q * F + r
  BY <1>1, DivMod
<1>3. NextTick(timer.ticks) = (total + 1) % Modulus
  BY <1>1, Words, ModSuccessor DEF NextTick
<1> HIDE DEF F, q, r
<1>4. r + 1 \in 0 .. Modulus - 1 /\ q * F \in Nat /\ total + 1 = q * F + (r + 1)
  BY <1>1, <1>2, Words
<1>5. (((total + 1) % Modulus) - last_tick) % Modulus = r + 1
  BY <1>1, <1>4, Words, ModDistance
<1>6. SecondOver(NextTick(timer.ticks)) <=> r + 1 >= F
  BY <1>3, <1>5 DEF SecondOver, F
<1>7. CASE r + 1 = F
  <2>1. seconds' = q + 1 /\ last_tick' = (total + 1) % Modulus
    BY <1>1, <1>2, <1>3, <1>6, <1>7 DEF timer_callback
  <2>2. total + 1 = (q + 1) * F + 0 /\ 0 \in 0 .. F - 1 /\ q + 1 \in Int
    BY <1>1, <1>2, <1>4, <1>7
  <2>3. (total + 1) \div F = q + 1
    BY <1>1, <2>2, Quotient
  <2>4. total + 1 = (q + 1) * F
    BY <1>1, <1>2, <2>2
  <2> QED BY <2>1, <2>3, <2>4 DEF F
<1>8. CASE r + 1 # F
  <2>1. r + 1 \in 0 .. F - 1 /\ ~ (r + 1 >= F)
    BY <1>1, <1>2, <1>8
  <2>2. seconds' = q /\ last_tick' = last_tick
    BY <1>1, <1>6, <2>1 DEF timer_callback
  <2>3. (total + 1) \div F = q
    <3> DEFINE s == r + 1
    <3>1. s \in 0 .. F - 1 /\ total + 1 = q * F + s
      BY <1>4, <2>1
    <3> HIDE DEF s
    <3>2. F \in Nat \ {0} /\ q \in Int /\ s \in 0 .. F - 1
      BY <1>1, <1>2, <3>1
    <3>3. (q * F + s) \div F = q
      BY <3>2, Quotient
    <3> QED BY <3>1, <3>3
  <2> QED BY <1>1, <2>2, <2>3 DEF F
<1> QED BY <1>7, <1>8

LEMMA NextHolds == IInv /\ [Next]_vars => IInv'
<1> SUFFICES ASSUME IInv, [Next]_vars PROVE IInv'
  OBVIOUS
<1>i. TypeOK /\ Clock /\ WholeSeconds /\ CallUnderWay
  BY DEF IInv
<1>t. /\ timer.ticks \in 0 .. Modulus - 1
      /\ timer.frequency \in {0} \union MinFreq .. MaxFreq
      /\ timer.ms_per_tick \in 0 .. Second /\ timer.uptime_ms \in Nat
      /\ timer = [ticks |-> timer.ticks, frequency |-> timer.frequency,
                  ms_per_tick |-> timer.ms_per_tick, uptime_ms |-> timer.uptime_ms]
  BY <1>i DEF TypeOK
<1>1. ASSUME NEW frequency \in Requested, pit_init(frequency)
      PROVE  IInv'
  <2> DEFINE f == IF frequency < MinFreq THEN MinFreq
                  ELSE IF frequency > MaxFreq THEN MaxFreq ELSE frequency
  <2>1. /\ timer.frequency = 0
        /\ timer' = [timer EXCEPT !.frequency = f, !.ms_per_tick = Second \div f]
        /\ part' = 0
        /\ UNCHANGED <<callback, seconds, last_tick, total, hooked, thread, asked,
                       end, low, answer, begun>>
    BY <1>1 DEF pit_init, call
  <2>2. f \in MinFreq .. MaxFreq
    BY <1>1, TimerAssumption
  <2> HIDE DEF f
  <2>3. Second \div f \in 1 .. Second
    BY <2>2, TickLength
  <2>4. /\ timer'.ticks = timer.ticks /\ timer'.frequency = f
        /\ timer'.ms_per_tick = Second \div f /\ timer'.uptime_ms = timer.uptime_ms
    BY <1>t, <2>1
  <2>5. timer' \in [ticks : 0 .. Modulus - 1, frequency : {0} \union MinFreq .. MaxFreq,
                    ms_per_tick : 0 .. Second, uptime_ms : Nat]
    <3>1. timer' = [ticks |-> timer.ticks, frequency |-> f,
                    ms_per_tick |-> Second \div f, uptime_ms |-> timer.uptime_ms]
      BY <1>t, <2>1
    <3>2. Second \div f \in 0 .. Second
      BY <2>3, Words
    <3> DEFINE m == Second \div f
    <3> HIDE DEF m
    <3> QED BY <1>t, <2>2, <3>1, <3>2
  <2>6. TypeOK'
    BY <1>i, <2>1, <2>5, Words DEF TypeOK
  <2>7. Clock'
    BY <1>i, <2>1, <2>2, <2>3, <2>4 DEF Clock
  <2>8. ~ callback /\ thread = "idle"
    BY <1>i, <2>1 DEF WholeSeconds, CallUnderWay, TypeOK
  <2>9. WholeSeconds' /\ CallUnderWay'
    BY <1>i, <2>1, <2>8 DEF WholeSeconds, CallUnderWay
  <2> QED BY <2>6, <2>7, <2>9 DEF IInv
<1>2. CASE register_timer_callback
  <2>1. /\ timer.frequency # 0 /\ ~ callback /\ callback' = TRUE /\ hooked' = total
        /\ UNCHANGED <<timer, seconds, last_tick, total, part, thread, asked, end,
                       low, answer, begun>>
    BY <1>2 DEF register_timer_callback, call
  <2>2. TypeOK' /\ Clock'
    BY <1>i, <2>1 DEF TypeOK, Clock
  <2>3. CallUnderWay'
    BY <1>i, <2>1 DEF CallUnderWay, TicksToWait
  <2>4. seconds = 0 /\ last_tick = 0
    BY <1>i, <2>1 DEF WholeSeconds
  <2>5. ASSUME total < timer.frequency
        PROVE  /\ 0 = total \div timer.frequency
               /\ 0 = (0 * timer.frequency) % Modulus
    <3>1. timer.frequency \in Nat \ {0} /\ total \in 0 .. timer.frequency - 1
      BY <1>t, <2>1, <2>5, <1>i, TimerAssumption DEF TypeOK
    <3>2. 0 * timer.frequency = 0 /\ total = 0 * timer.frequency + total
      BY <3>1
    <3>3. total \div timer.frequency = 0
      BY <3>1, <3>2, Quotient
    <3>4. 0 % Modulus = 0
      BY Words
    <3> QED BY <3>2, <3>3, <3>4
  <2>6. total \in Nat
    BY <1>i DEF TypeOK
  <2>7. WholeSeconds'
    BY <2>1, <2>4, <2>5, <2>6 DEF WholeSeconds
  <2> QED BY <2>2, <2>3, <2>7 DEF IInv
<1>3. CASE pit_handler
  <2>1. /\ timer.frequency # 0 /\ total < MaxTotal /\ total' = total + 1 /\ part' = 0
        /\ timer' = [timer EXCEPT !.ticks = NextTick(timer.ticks),
                                  !.uptime_ms = timer.uptime_ms + timer.ms_per_tick]
        /\ UNCHANGED <<callback, hooked, thread, asked, end, low, answer, begun>>
        /\ IF callback THEN timer_callback(NextTick(timer.ticks))
                       ELSE UNCHANGED <<seconds, last_tick>>
    BY <1>3 DEF pit_handler, call
  <2>2. total \in Nat /\ total + 1 \in 0 .. MaxTotal
    BY <1>i, <2>1, TimerAssumption DEF TypeOK
  <2>3. NextTick(timer.ticks) = (total + 1) % Modulus
    BY <1>i, <2>2, Words, ModSuccessor DEF Clock, NextTick
  <2>4. NextTick(timer.ticks) \in 0 .. Modulus - 1
    BY <2>2, <2>3, Words, ModType
  <2>5. /\ timer'.ticks = NextTick(timer.ticks) /\ timer'.frequency = timer.frequency
        /\ timer'.ms_per_tick = timer.ms_per_tick
        /\ timer'.uptime_ms = timer.uptime_ms + timer.ms_per_tick
    BY <1>t, <2>1
  <2>6. timer' \in [ticks : 0 .. Modulus - 1, frequency : {0} \union MinFreq .. MaxFreq,
                    ms_per_tick : 0 .. Second, uptime_ms : Nat]
    <3>1. timer.uptime_ms + timer.ms_per_tick \in Nat
      BY <1>t, TimerAssumption
    <3> QED BY <1>t, <2>1, <2>4, <3>1
  <2>7. seconds' \in Nat /\ last_tick' \in 0 .. Modulus - 1
    BY <1>i, <2>1, <2>4 DEF TypeOK, timer_callback
  <2>8. TypeOK'
    BY <1>i, <2>1, <2>2, <2>6, <2>7, Words DEF TypeOK
  <2>9. Clock'
    BY <1>i, <2>1, <2>3, <2>5 DEF Clock
  <2>10. WholeSeconds'
    <3>1. CASE ~ callback
      BY <1>i, <2>1, <3>1 DEF WholeSeconds
    <3>2. CASE callback
      <4>1. hooked < timer.frequency =>
              /\ seconds' = (total + 1) \div timer.frequency
              /\ last_tick' = (seconds' * timer.frequency) % Modulus
        BY <2>1, <3>2, SecondStep
      <4>2. hooked <= total + 1
        BY <1>i, <2>2, <3>2 DEF WholeSeconds, TypeOK
      <4> QED BY <1>i, <2>1, <2>5, <3>2, <4>1, <4>2 DEF WholeSeconds
    <3> QED BY <3>1, <3>2
  <2>11. CallUnderWay'
    <3>1. begun \in Nat
      BY <1>i DEF TypeOK
    <3>2. TicksToWait(asked)' = TicksToWait(asked)
      BY <2>1, <2>5 DEF TicksToWait
    <3>3. begun \div Parts <= total => begun \div Parts <= total + 1
      BY <2>2, <3>1, Words, DivMod
    <3>4. begun <= timer.uptime_ms => begun <= timer.uptime_ms + timer.ms_per_tick
      BY <1>t, <3>1, TimerAssumption
    <3> QED BY <1>i, <2>1, <2>5, <3>2, <3>3, <3>4 DEF CallUnderWay
  <2> QED BY <2>8, <2>9, <2>10, <2>11 DEF IInv
<1>4. ASSUME NEW ms \in Waits, Sleep(ms)
      PROVE  IInv'
  <2>1. /\ timer.frequency # 0 /\ thread' = "sleep" /\ asked' = ms
        /\ end' = (timer.ticks + TicksToWait(ms)) % Modulus
        /\ begun' = Now
        /\ UNCHANGED <<timer, callback, seconds, last_tick, total, part, hooked, low,
                       answer>>
    BY <1>4 DEF Sleep
  <2>2. TicksToWait(ms) \in Nat
    BY <1>i, <2>1, WaitType, TimerAssumption
  <2>3. end' \in 0 .. Modulus - 1
    BY <1>t, <2>1, <2>2, Words, ModType
  <2>4. TypeOK'
    BY <1>i, <2>1, <2>3, WholeTicks DEF TypeOK
  <2>5. Clock' /\ WholeSeconds'
    BY <1>i, <2>1 DEF Clock, WholeSeconds
  <2>6. TicksToWait(asked)' = TicksToWait(ms)
    BY <2>1 DEF TicksToWait
  <2>7. begun' \div Parts = total /\ total <= total
    BY <1>i, <2>1, WholeTicks
  <2>8. CallUnderWay'
    BY <1>i, <2>1, <2>6, <2>7 DEF CallUnderWay, Clock
  <2> QED BY <2>4, <2>5, <2>8 DEF IInv
<1>5. CASE WakeUp \/ UptimeHigh
  <2>1. /\ thread' = "idle" /\ begun' = 0
        /\ UNCHANGED <<timer, callback, seconds, last_tick, total, part, hooked>>
        /\ \/ asked' = 0 /\ end' = 0 /\ UNCHANGED <<low, answer>>
           \/ /\ UNCHANGED <<asked, end>> /\ low' = 0
              /\ answer' = (timer.uptime_ms \div Modulus) * Modulus + low
    BY <1>5 DEF WakeUp, UptimeHigh
  <2>2. (timer.uptime_ms \div Modulus) * Modulus + low \in Nat
    <3>1. timer.uptime_ms \div Modulus \in Nat
      BY <1>t, Words, DivMod
    <3>2. (timer.uptime_ms \div Modulus) * Modulus \in Nat
      BY <3>1, Words
    <3> QED BY <1>i, <3>2, Words DEF TypeOK
  <2>3. TypeOK'
    BY <1>i, <2>1, <2>2, Words DEF TypeOK
  <2> QED BY <1>i, <2>1, <2>3 DEF IInv, Clock, WholeSeconds, CallUnderWay
<1>6. CASE UptimeLow
  <2>1. /\ timer.frequency # 0 /\ thread' = "high"
        /\ low' = timer.uptime_ms % Modulus /\ begun' = timer.uptime_ms
        /\ UNCHANGED <<timer, callback, seconds, last_tick, total, part, hooked,
                       asked, end, answer>>
    BY <1>6 DEF UptimeLow
  <2>2. timer.uptime_ms % Modulus \in 0 .. Modulus - 1
    BY <1>t, Words, ModType
  <2>3. TypeOK'
    BY <1>i, <1>t, <2>1, <2>2 DEF TypeOK
  <2> QED BY <1>i, <1>t, <2>1, <2>3 DEF IInv, Clock, WholeSeconds, CallUnderWay
<1>7. CASE UNCHANGED vars
  <2>1. TicksToWait(asked)' = TicksToWait(asked)
    BY <1>7 DEF vars, call, TicksToWait
  <2> QED
    BY <1>7, <1>i, <2>1 DEF vars, call, IInv, TypeOK, Clock, WholeSeconds, CallUnderWay
<1>8. CASE TimePasses
  <2>1. /\ part + 1 < Parts /\ part' = part + 1
        /\ UNCHANGED <<timer, callback, seconds, last_tick, total, hooked, thread,
                       asked, end, low, answer, begun>>
    BY <1>8 DEF TimePasses, call
  <2>2. part' \in 0 .. Parts - 1
    BY <1>i, <2>1, WholeTicks, Words
  <2>3. TypeOK'
    BY <1>i, <2>1, <2>2 DEF TypeOK
  <2>4. TicksToWait(asked)' = TicksToWait(asked)
    BY <2>1 DEF TicksToWait
  <2> QED
    BY <1>i, <2>1, <2>3, <2>4 DEF IInv, Clock, WholeSeconds, CallUnderWay
<1> QED
  BY <1>1, <1>2, <1>3, <1>4, <1>5, <1>6, <1>7, <1>8 DEF Next

LEMMA Invariance == Spec => []IInv
BY InitHolds, NextHolds, PTL DEF Spec

(***************************************************************************)
(* The uptime in seconds is the number of whole seconds in the ticks       *)
(* counted, across the wrap of the 32-bit tick counter (main.c:44-48), for *)
(* every frequency, when the callback is registered in the first second.   *)
(***************************************************************************)
THEOREM SecondsExactAlways == Spec => []SecondsExact
<1>1. IInv => SecondsExact
  BY DEF IInv, WholeSeconds, SecondsExact
<1> QED BY <1>1, Invariance, PTL

(* A wait of w ticks, whose length covers ms, takes more than ms less one  *)
(* tick, wherever in a tick it begins.                                     *)
LEMMA Covered ==
    ASSUME NEW m \in Nat \ {0}, NEW n \in Nat \ {0}, NEW w \in Nat, NEW ms \in Nat,
           w * m >= ms, NEW a \in Nat, NEW b \in Nat, a - (b \div n) >= w,
           NEW p \in 0 .. n - 1
    PROVE  ((a * n + p) - b) * m > (ms - m) * n
<1> DEFINE q == b \div n
           r == b % n
           t == a * n + p - b
<1>1. q \in Nat /\ r \in 0 .. n - 1 /\ b = q * n + r
  BY DivMod
<1> HIDE DEF q, r
<1>2. a - q >= w /\ a - q \in Int
  BY <1>1 DEF q
<1>3. w * n <= (a - q) * n /\ w * n \in Int /\ (a - q) * n \in Int
  BY <1>2, TimesMonotone
<1>4. a * n = (a - q) * n + q * n /\ a * n \in Int /\ q * n \in Int
  BY <1>1
<1>5. t \in Int /\ w * n - n + 1 <= t
  BY <1>1, <1>3, <1>4
<1> HIDE DEF t
<1>6. (w * n - n + 1) * m <= t * m /\ w * n - n + 1 \in Int
  BY <1>3, <1>5, TimesMonotone
<1>7. (w * n - n + 1) * m = (w * m - m) * n + m
  BY SMT
<1>8. (ms - m) * n <= (w * m - m) * n
  <2>1. w * m \in Int
    OBVIOUS
  <2>2. ms - m \in Int /\ w * m - m \in Int /\ ms - m <= w * m - m
    BY <2>1
  <2> QED BY <2>2, TimesMonotone
<1>9. (ms - m) * n \in Int /\ (w * m - m) * n \in Int /\ t * m \in Int
  BY <1>5
<1> QED BY <1>6, <1>7, <1>8, <1>9 DEF t

(***************************************************************************)
(* sleep_ms is less than a tick short, at any moment of a tick that it is  *)
(* called, unless its deadline or the rounding of its argument wrapped     *)
(* (pit.c:64-70); for any division of a tick, any word size and any wait.  *)
(***************************************************************************)
THEOREM NeverATickShortAlways == Spec => NeverATickShort
<1> DEFINE Slept ==
      (thread = "sleep" /\ thread' = "idle") =>
          \/ (Now - begun) * timer.ms_per_tick > (asked - timer.ms_per_tick) * Parts
          \/ ((begun \div Parts) % Modulus) + TicksToWait(asked) >= Modulus
          \/ asked + timer.ms_per_tick > Modulus
<1>1. IInv /\ [Next]_vars => Slept
  <2> SUFFICES ASSUME IInv, [Next]_vars, thread = "sleep", thread' = "idle",
                      ~ (((begun \div Parts) % Modulus) + TicksToWait(asked) >= Modulus),
                      ~ (asked + timer.ms_per_tick > Modulus)
               PROVE  (Now - begun) * timer.ms_per_tick
                          > (asked - timer.ms_per_tick) * Parts
    OBVIOUS
  <2>1. WakeUp
    BY DEF Next, pit_init, register_timer_callback, TimePasses, pit_handler, Sleep,
           UptimeLow, UptimeHigh, vars, call
  <2> DEFINE b == begun \div Parts
  <2>2. /\ timer.ticks \in 0 .. Modulus - 1 /\ timer.ticks = total % Modulus
        /\ total \in Nat /\ begun \in Nat /\ b <= total
        /\ asked \in Nat /\ timer.frequency # 0 /\ Clock
        /\ end = ((b % Modulus) + TicksToWait(asked)) % Modulus
    BY TimerAssumption DEF IInv, TypeOK, Clock, CallUnderWay
  <2>3. timer.ms_per_tick \in Nat \ {0}
    BY <2>2, Words DEF Clock
  <2> DEFINE w == TicksToWait(asked)
  <2>b. b \in Nat
    BY <2>2, Words, DivMod
  <2> HIDE DEF b
  <2>4. w \in Nat /\ b % Modulus \in 0 .. Modulus - 1
    BY <2>2, <2>b, WaitType, Words, ModType
  <2>5. w = (asked + timer.ms_per_tick - 1) \div timer.ms_per_tick
    <3>1. asked + timer.ms_per_tick - 1 \in 0 .. Modulus - 1
      BY <2>2, <2>3, Words
    <3>2. (asked + timer.ms_per_tick - 1) % Modulus = asked + timer.ms_per_tick - 1
      BY <3>1, Words
    <3> QED BY <3>2 DEF TicksToWait
  <2>6. w * timer.ms_per_tick >= asked
    BY <2>2, <2>3, <2>5, RoundedUp
  <2> HIDE DEF w
  <2>7. (b % Modulus) + w \in 0 .. Modulus - 1
    BY <2>4, Words DEF b, w
  <2>8. end = (b % Modulus) + w
    BY <2>2, <2>7, Words DEF w
  <2>9. (b % Modulus) + w <= total % Modulus
    BY <2>1, <2>2, <2>7, <2>8 DEF WakeUp
  <2>10. total - b >= w
    BY <2>2, <2>b, <2>4, <2>9, Words, ModLater
  <2>11. part \in 0 .. Parts - 1
    BY DEF IInv, TypeOK
  <2> QED BY <2>2, <2>3, <2>4, <2>6, <2>10, <2>11, Words, Covered DEF Now, b
<1>2. IInv /\ [Next]_vars => [Slept]_vars
  BY <1>1
<1> QED BY <1>2, Invariance, PTL DEF Spec, NeverATickShort

(***************************************************************************)
(* get_uptime_ms returns a value the 64-bit counter had between the call   *)
(* and the return, although it loads the two words at different times,     *)
(* unless the low word overflowed in between (pit.c:60).                   *)
(***************************************************************************)
THEOREM UptimeReadAlways == Spec => UptimeRead
<1> DEFINE Read ==
      (thread = "high" /\ thread' = "idle") =>
          \/ begun <= answer' /\ answer' <= timer.uptime_ms
          \/ begun \div Modulus # timer.uptime_ms \div Modulus
<1>1. IInv /\ [Next]_vars => Read
  <2> SUFFICES ASSUME IInv, [Next]_vars, thread = "high", thread' = "idle",
                      begun \div Modulus = timer.uptime_ms \div Modulus
               PROVE  begun <= answer' /\ answer' <= timer.uptime_ms
    OBVIOUS
  <2>1. UptimeHigh
    BY DEF Next, pit_init, register_timer_callback, TimePasses, pit_handler, Sleep,
           UptimeLow, WakeUp, vars, call
  <2>2. /\ begun \in Nat /\ timer.uptime_ms \in Nat /\ begun <= timer.uptime_ms
        /\ low = begun % Modulus
    BY DEF IInv, TypeOK, CallUnderWay
  <2>3. answer' = (begun \div Modulus) * Modulus + (begun % Modulus)
    BY <2>1, <2>2 DEF UptimeHigh
  <2>4. answer' = begun
    BY <2>2, <2>3, Words, DivMod
  <2> QED BY <2>2, <2>4
<1>2. IInv /\ [Next]_vars => [Read]_vars
  BY <1>1
<1> QED BY <1>2, Invariance, PTL DEF Spec, UptimeRead
=============================================================================
