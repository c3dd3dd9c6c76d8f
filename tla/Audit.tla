------------------------------- MODULE Audit -------------------------------
(***************************************************************************)
(* The audit log, src/security/audit.c: a bounded log of security events   *)
(* with a level filter.  The buffer of MAX_AUDIT_LOGS slots is the         *)
(* sequence log, whose length is audit_count.  Messages, timestamps and    *)
(* the printed table are left out.                                         *)
(***************************************************************************)
EXTENDS Integers, Sequences, FiniteSets

CONSTANTS
    MaxLogs,      \* MAX_AUDIT_LOGS (1024)
    IdModulus,    \* event ids are uint32_t: 2^32
    Types,        \* the event types callers use
    Users,        \* the user ids, 0 included
    CallLevels,   \* the levels callers log at
    MaxEvents     \* bound on the events accepted after audit_init

ASSUME AuditAssumption ==
    /\ MaxLogs \in Nat \ {0}
    /\ IdModulus \in Nat /\ IdModulus > MaxLogs + 1
    /\ MaxEvents \in Nat
    /\ {"SYSTEM_BOOT", "SECURITY_CHANGE"} \subseteq Types
    /\ 0 \in Users
    /\ CallLevels \subseteq 1 .. 4

NONE    == 0
INFO    == 3
VERBOSE == 4
Levels  == NONE .. VERBOSE

Event == [event_id : 0 .. IdModulus - 1, type : Types,
          level : Levels, user_id : Users]

VARIABLES
    allocated,      \* audit_logs is not NULL
    log,            \* audit_logs[0 .. audit_count - 1]
    next_event_id,
    current_level,
    accepted        \* history: every event stored since audit_init

vars == <<allocated, log, next_event_id, current_level, accepted>>

-----------------------------------------------------------------------------
(* A fault in audit_log: a full log drops the newest event, not the oldest. *)
StoreNewestDropped(l, e) ==
    IF Len(l) >= MaxLogs
    THEN Append(SubSeq(l, 1, MaxLogs - 1), e)
    ELSE Append(l, e)

(* A full log is shifted by one slot; the event goes behind the others.    *)
Store(l, e) ==
    IF Len(l) >= MaxLogs
    THEN Append(SubSeq(l, 2, MaxLogs), e)
    ELSE Append(l, e)

(* The level filter is tested before the buffer.                           *)
Filtered(level, current) == level > current \/ current = NONE

(* A fault in audit_log: an id is taken for a filtered event too.          *)
LogTakesId(type, level, user, current) ==
    /\ next_event_id' = (next_event_id + 1) % IdModulus
    /\ LET e == [event_id |-> next_event_id, type |-> type,
                 level |-> level, user_id |-> user]
           stored == ~ Filtered(level, current) /\ allocated
       IN /\ log' = IF stored THEN Store(log, e) ELSE log
          /\ accepted' = IF stored THEN Append(accepted, e) ELSE accepted

audit_log(type, level, user, current) ==
    IF Filtered(level, current) \/ ~ allocated
    THEN UNCHANGED <<log, next_event_id, accepted>>
    ELSE LET e == [event_id |-> next_event_id, type |-> type,
                   level |-> level, user_id |-> user]
         IN /\ log' = Store(log, e)
            /\ next_event_id' = (next_event_id + 1) % IdModulus
            /\ accepted' = Append(accepted, e)

(* audit_init replaces the buffer.  When kmalloc fails the counters keep   *)
(* their values; otherwise the log restarts with the boot event, which is  *)
(* filtered like any other.                                                *)
audit_init ==
    \/ /\ allocated' = FALSE
       /\ UNCHANGED <<log, next_event_id, current_level, accepted>>
    \/ LET boot == [event_id |-> 1, type |-> "SYSTEM_BOOT",
                    level |-> INFO, user_id |-> 0]
           first == IF Filtered(INFO, current_level) THEN <<>> ELSE <<boot>>
       IN /\ allocated' = TRUE
          /\ log' = first
          /\ accepted' = first
          /\ next_event_id' = 1 + Len(first)
          /\ UNCHANGED current_level

(* The new level is in force when its own event is filtered.  A level out  *)
(* of range changes nothing.                                               *)
audit_set_level(level) ==
    /\ level \in Levels
    /\ current_level' = level
    /\ audit_log("SECURITY_CHANGE", INFO, 0, level)
    /\ UNCHANGED allocated

-----------------------------------------------------------------------------
(***************************************************************************)
(* The two queries, as the loops run them.                                 *)
(***************************************************************************)
Matches(e, type, user) ==
    /\ type = "ANY" \/ e.type = type
    /\ user = 0 \/ e.user_id = user

(* A fault in audit_find_events: one result too many.                      *)
FindOneMore(l, type, user, max) ==
    LET scan[i \in 0 .. Len(l)] ==
          IF i = 0 THEN <<>>
          ELSE IF Len(scan[i - 1]) <= max /\ Matches(l[i], type, user)
               THEN Append(scan[i - 1], l[i].event_id)
               ELSE scan[i - 1]
    IN scan[Len(l)]

audit_find_events(l, type, user, max) ==
    LET scan[i \in 0 .. Len(l)] ==
          IF i = 0 THEN <<>>
          ELSE IF Len(scan[i - 1]) < max /\ Matches(l[i], type, user)
               THEN Append(scan[i - 1], l[i].event_id)
               ELSE scan[i - 1]
    IN scan[Len(l)]

(* A fault in audit_view_logs: the loop counts the slots it has read, not  *)
(* the events it has shown.                                                *)
ViewCountsSlots(l, start, count) ==
    LET shown == {i \in 1 .. Len(l) : i <= count /\ ~ l[i].event_id < start}
    IN {l[i].event_id : i \in shown}

(* The ids shown: the loop stops after count events.                       *)
audit_view_logs(l, start, count) ==
    LET shown[i \in 0 .. Len(l)] ==
          IF i = 0 THEN {}
          ELSE IF Cardinality(shown[i - 1]) < count /\ ~ l[i].event_id < start
               THEN shown[i - 1] \union {i}
               ELSE shown[i - 1]
    IN {l[i].event_id : i \in shown[Len(l)]}

-----------------------------------------------------------------------------
Init ==
    /\ allocated = FALSE
    /\ log = <<>>
    /\ next_event_id = 1
    /\ current_level = INFO
    /\ accepted = <<>>

Log ==
    /\ Len(accepted) < MaxEvents
    /\ \E type \in Types, level \in CallLevels, user \in Users :
          audit_log(type, level, user, current_level)
    /\ UNCHANGED <<allocated, current_level>>

SetLevel ==
    /\ Len(accepted) < MaxEvents
    /\ \E level \in Levels : audit_set_level(level)

Next == audit_init \/ Log \/ SetLevel

Spec == Init /\ [][Next]_vars

-----------------------------------------------------------------------------
TypeOK ==
    /\ allocated \in BOOLEAN
    /\ log \in Seq(Event)
    /\ Len(log) <= MaxLogs
    /\ next_event_id \in 0 .. IdModulus - 1
    /\ current_level \in Levels
    /\ accepted \in Seq(Event)

(* The log is exactly the most recent events accepted since audit_init, in *)
(* the order they were accepted: the shift of a full buffer                *)
(* (audit.c:72-77) loses the oldest event and nothing else.                *)
Latest ==
    /\ Len(log) = IF Len(accepted) < MaxLogs THEN Len(accepted) ELSE MaxLogs
    /\ \A i \in 1 .. Len(log) :
          log[i] = accepted[Len(accepted) - Len(log) + i]

(* The ids in the log are consecutive and end just before next_event_id,   *)
(* across the wrap of the 32-bit counter (audit.c:80) and through filtered *)
(* events: a gap in a viewed log always means events were shifted out.     *)
IdsContiguous ==
    \A i \in 1 .. Len(log) :
        (log[i].event_id + 1) % IdModulus =
            IF i = Len(log) THEN next_event_id ELSE log[i + 1].event_id

(* The events found are the first max of those that match.                 *)
FoundExact(type, user, max) ==
    LET found == audit_find_events(log, type, user, max)
        hits  == {i \in 1 .. Len(log) : Matches(log[i], type, user)}
    IN /\ Len(found) <= max
       /\ \E at \in [1 .. Len(found) -> hits] :
             /\ \A k \in 1 .. Len(found) : found[k] = log[at[k]].event_id
             /\ \A j, k \in 1 .. Len(found) : j < k => at[j] < at[k]
             /\ \A i \in hits \ {at[k] : k \in 1 .. Len(found)} :
                   Len(found) = max /\ \A k \in 1 .. Len(found) : at[k] < i

ShownExact(start, count) ==
    LET shown == audit_view_logs(log, start, count)
        from  == {log[i].event_id : i \in {j \in 1 .. Len(log) :
                                           log[j].event_id >= start}}
    IN /\ shown \subseteq from
       /\ Cardinality(shown) =
             IF Cardinality(from) < count THEN Cardinality(from) ELSE count
       /\ \A a \in shown, b \in from \ shown : a < b

(* audit_find_events returns the ids of the oldest matching events, at     *)
(* most max of them, in log order (audit.c:163-171); while the id counter  *)
(* has not wrapped, audit_view_logs shows the events with the count        *)
(* smallest ids from start on (audit.c:108-146).                           *)
QueriesExact ==
    \A max \in 0 .. MaxLogs + 1 :
        /\ \A type \in Types \union {"ANY"}, user \in Users :
              FoundExact(type, user, max)
        /\ (Len(accepted) + 1 < IdModulus) =>
              \A start \in 0 .. IdModulus - 1 : ShownExact(start, max)
=============================================================================
