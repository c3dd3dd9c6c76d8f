-------------------------------- MODULE Timer --------------------------------
(***************************************************************************)
(* The timer driver, src/kernel/timer/pit.c, and the uptime counter that   *)
(* kernel_main hangs on it (timer_callback, src/kernel/init/main.c).       *)
(*                                                                         *)
(* The interrupt handler runs between any two steps of the thread.  The    *)
(* clock ticks are a 32-bit counter that wraps; the uptime is a 64-bit     *)
(* counter that 32-bit code reads in two halves.  Time also passes between *)
(* two interrupts, in Parts equal parts of a tick: the thread's calls      *)
(* begin and end anywhere within a tick.                                   *)
(***************************************************************************)
EXTENDS Integers

CONSTANTS
    Modulus,       \* 2^32, the range of one word
    Second,        \* milliseconds in a second (1000)
    MinFreq,       \* the slowest frequency pit_init accepts (18)
    MaxFreq,       \* the fastest one (1000)
    Requested,     \* the frequencies pit_init is called with
    Waits,         \* the milliseconds sleep_ms is called with
    Parts,         \* the parts of a tick that are told apart
    MaxTotal       \* bound on the timer interrupts

ASSUME TimerAssumption ==
    /\ Second \in Nat \ {0}
    /\ MinFreq \in Nat \ {0} /\ MaxFreq \in Nat
    /\ MinFreq <= MaxFreq /\ MaxFreq <= Second /\ MaxFreq < Modulus
    /\ Modulus \in Nat
    /\ Requested \subseteq Nat
    /\ Waits \subseteq Nat
    /\ Parts \in Nat \ {0}
    /\ MaxTotal \in Nat

VARIABLES
    timer,      \* ticks, frequency, ms_per_tick, uptime_ms
    callback,   \* timer_callback is registered
    seconds, last_tick,   \* the statics of the callback
    thread,     \* "idle", "sleep" in sleep_ms, "high" in get_uptime_ms
    asked,      \* the argument of the sleep_ms under way
    end,        \* its deadline
    low,        \* the low word that get_uptime_ms has loaded
    answer,     \* what get_uptime_ms last returned
    total,      \* history: timer interrupts so far
    part,       \* the parts of the current tick that have passed
    begun,      \* history: the time, or the uptime, when the thread's call began
    hooked      \* history: total when the callback was registered

call  == <<thread, asked, end, low, answer, begun>>
vars  == <<timer, callback, seconds, last_tick, total, part, hooked, call>>

(* The time since the timer was started, in parts of its ticks.            *)
Now == total * Parts + part

-----------------------------------------------------------------------------
pit_init(frequency) ==
    /\ timer.frequency = 0
    /\ LET f == IF frequency < MinFreq THEN MinFreq
                ELSE IF frequency > MaxFreq THEN MaxFreq ELSE frequency
       IN timer' = [timer EXCEPT !.frequency = f, !.ms_per_tick = Second \div f]
    /\ part' = 0
    /\ UNCHANGED <<callback, seconds, last_tick, total, hooked, call>>

register_timer_callback ==
    /\ timer.frequency # 0 /\ ~ callback
    /\ callback' = TRUE
    /\ hooked' = total
    /\ UNCHANGED <<timer, seconds, last_tick, total, part, call>>

(* A fault in timer_callback: the deadline is compared without wrapping.   *)
SecondNoWrap(now) == now >= last_tick + timer.frequency

(* current_tick - last_tick >= frequency, in 32 bits.                      *)
SecondOver(now) == (now - last_tick) % Modulus >= timer.frequency

timer_callback(now) ==
    /\ seconds' = IF SecondOver(now) THEN seconds + 1 ELSE seconds
    /\ last_tick' = IF SecondOver(now) THEN now ELSE last_tick

NextTick(now) == (now + 1) % Modulus

(* The device counts down between two interrupts.                          *)
TimePasses ==
    /\ timer.frequency # 0
    /\ part + 1 < Parts
    /\ part' = part + 1
    /\ UNCHANGED <<timer, callback, seconds, last_tick, total, hooked, call>>

pit_handler ==
    /\ timer.frequency # 0
    /\ part + 1 = Parts
    /\ total < MaxTotal
    /\ total' = total + 1
    /\ part' = 0
    /\ timer' = [timer EXCEPT !.ticks = NextTick(@),
                              !.uptime_ms = @ + timer.ms_per_tick]
    /\ IF callback THEN timer_callback(NextTick(timer.ticks))
                   ELSE UNCHANGED <<seconds, last_tick>>
    /\ UNCHANGED <<callback, hooked, call>>

-----------------------------------------------------------------------------
(* A fault in sleep_ms: the number of ticks is rounded down.               *)
TicksRoundedDown(ms) == ms \div timer.ms_per_tick

TicksToWait(ms) == ((ms + timer.ms_per_tick - 1) % Modulus) \div timer.ms_per_tick

Sleep(ms) ==
    /\ thread = "idle" /\ timer.frequency # 0
    /\ thread' = "sleep"
    /\ asked' = ms
    /\ end' = (timer.ticks + TicksToWait(ms)) % Modulus
    /\ begun' = Now
    /\ UNCHANGED <<timer, callback, seconds, last_tick, total, part, hooked, low, answer>>

(* The loop ends; until then each wake-up from hlt tests again.            *)
WakeUp ==
    /\ thread = "sleep" /\ ~ timer.ticks < end
    /\ thread' = "idle"
    /\ asked' = 0 /\ end' = 0 /\ begun' = 0
    /\ UNCHANGED <<timer, callback, seconds, last_tick, total, part, hooked, low, answer>>

(* get_uptime_ms loads the low word of the counter, then the high word.    *)
UptimeLow ==
    /\ thread = "idle" /\ timer.frequency # 0
    /\ thread' = "high"
    /\ low' = timer.uptime_ms % Modulus
    /\ begun' = timer.uptime_ms
    /\ UNCHANGED <<timer, callback, seconds, last_tick, total, part, hooked,
                   asked, end, answer>>

(* A fault in get_uptime_ms: the answer is one word.                       *)
UptimeLowOnly ==
    /\ thread = "high"
    /\ thread' = "idle"
    /\ answer' = low
    /\ low' = 0 /\ begun' = 0
    /\ UNCHANGED <<timer, callback, seconds, last_tick, total, part, hooked,
                   asked, end>>

UptimeHigh ==
    /\ thread = "high"
    /\ thread' = "idle"
    /\ answer' = (timer.uptime_ms \div Modulus) * Modulus + low
    /\ low' = 0 /\ begun' = 0
    /\ UNCHANGED <<timer, callback, seconds, last_tick, total, part, hooked,
                   asked, end>>

-----------------------------------------------------------------------------
Init ==
    /\ timer = [ticks |-> 0, frequency |-> 0, ms_per_tick |-> 0, uptime_ms |-> 0]
    /\ callback = FALSE
    /\ seconds = 0 /\ last_tick = 0
    /\ thread = "idle" /\ asked = 0 /\ end = 0 /\ low = 0 /\ answer = 0
    /\ total = 0 /\ part = 0 /\ begun = 0 /\ hooked = 0

Next ==
    \/ \E f \in Requested : pit_init(f)
    \/ register_timer_callback
    \/ TimePasses
    \/ pit_handler
    \/ \E ms \in Waits : Sleep(ms)
    \/ WakeUp
    \/ UptimeLow
    \/ UptimeHigh

Spec == Init /\ [][Next]_vars

-----------------------------------------------------------------------------
TypeOK ==
    /\ timer \in [ticks : 0 .. Modulus - 1, frequency : {0} \union MinFreq .. MaxFreq,
                  ms_per_tick : 0 .. Second, uptime_ms : Nat]
    /\ callback \in BOOLEAN
    /\ seconds \in Nat /\ last_tick \in 0 .. Modulus - 1
    /\ thread \in {"idle", "sleep", "high"}
    /\ asked \in {0} \union Waits
    /\ end \in 0 .. Modulus - 1 /\ low \in 0 .. Modulus - 1
    /\ answer \in Nat /\ total \in 0 .. MaxTotal /\ part \in 0 .. Parts - 1
    /\ begun \in Nat /\ hooked \in Nat

(* The uptime in seconds is exact, also when the tick counter wraps        *)
(* (main.c:44-48), if the callback was registered in the first second.     *)
SecondsExact ==
    /\ TypeOK
    /\ (callback /\ hooked < timer.frequency) =>
        seconds = total \div timer.frequency

(* sleep_ms is less than a tick short, and that only because it cannot     *)
(* tell how much of the first tick has gone: the ticks it counts cover the *)
(* time asked for (pit.c:64-70), unless the deadline or the rounding of    *)
(* the argument wrapped.  Time is measured in parts of the timer's own     *)
(* tick, of ms_per_tick milliseconds.                                      *)
NeverATickShort ==
    [][(thread = "sleep" /\ thread' = "idle") =>
          \/ (Now - begun) * timer.ms_per_tick > (asked - timer.ms_per_tick) * Parts
          \/ ((begun \div Parts) % Modulus) + TicksToWait(asked) >= Modulus
          \/ asked + timer.ms_per_tick > Modulus]_vars

(* get_uptime_ms answers the total uptime (pit.c:60, pit.h:43): a value    *)
(* the counter had between the call and the return, unless its low word    *)
(* overflowed between the two loads.                                       *)
UptimeRead ==
    [][(thread = "high" /\ thread' = "idle") =>
          \/ begun <= answer' /\ answer' <= timer.uptime_ms
          \/ begun \div Modulus # timer.uptime_ms \div Modulus]_vars
=============================================================================
