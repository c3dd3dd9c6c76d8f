-------------------------- MODULE SecurityProofs --------------------------
(***************************************************************************)
(* The audit log is the most recent events with consecutive ids and every  *)
(* change of a level leaves a trace in it; a packet the filter has decided *)
(* on stays decided.  For every capacity of the log and of the rule table, *)
(* every width of the id counter, and all rules and packets.  Of the keys  *)
(* (KeyStore): the store lists exactly those it should, and a context      *)
(* decrypts what it encrypts, for every size of store, key and message.    *)
(***************************************************************************)
EXTENDS Security, KeyStore, TLAPS, WellFoundedInduction, FiniteSetTheorems

(* The inductive invariant: the two properties and the types.              *)
IInv == TypeOK /\ Latest /\ IdsContiguous

(* What Store returns: at most MaxLogs events, the new one last, the       *)
(* others moved down by one slot when the buffer was full                  *)
(* (audit.c:72-79).                                                        *)
LEMMA StoreShape ==
    ASSUME NEW l \in Seq(Event), Len(l) <= MaxLogs, NEW e \in Event
    PROVE  /\ Store(l, e) \in Seq(Event)
           /\ Len(l) < MaxLogs =>
                /\ Len(Store(l, e)) = Len(l) + 1
                /\ \A i \in 1 .. Len(l) : Store(l, e)[i] = l[i]
           /\ Len(l) = MaxLogs =>
                /\ Len(Store(l, e)) = MaxLogs
                /\ \A i \in 1 .. MaxLogs - 1 : Store(l, e)[i] = l[i + 1]
           /\ Store(l, e)[Len(Store(l, e))] = e
<1>1. CASE Len(l) < MaxLogs
  <2>1. Store(l, e) = Append(l, e)
    BY <1>1, AuditAssumption DEF Store
  <2> QED
    BY <1>1, <2>1, AuditAssumption
<1>2. CASE Len(l) = MaxLogs
  <2> DEFINE rest == SubSeq(l, 2, MaxLogs)
  <2>1. Store(l, e) = Append(rest, e)
    BY <1>2, AuditAssumption DEF Store
  <2>2. /\ rest \in Seq(Event)
        /\ Len(rest) = MaxLogs - 1
        /\ \A i \in 1 .. MaxLogs - 1 : rest[i] = l[i + 1]
    BY <1>2, AuditAssumption
  <2> HIDE DEF rest
  <2> QED
    BY <1>2, <2>1, <2>2, AuditAssumption
<1> QED
  BY <1>1, <1>2, AuditAssumption

(* One call of audit_log keeps the invariant, whatever level is in force.  *)
LEMMA LogPreserves ==
    ASSUME IInv,
           NEW type \in Types, NEW level \in Levels, NEW user \in Users,
           NEW current \in Levels,
           audit_log(type, level, user, current),
           allocated' \in BOOLEAN, current_level' \in Levels
    PROVE  IInv'
<1> DEFINE e == [event_id |-> next_event_id, type |-> type,
                 level |-> level, user_id |-> user]
<1>t. TypeOK /\ Latest /\ IdsContiguous
  BY DEF IInv
<1>1. CASE Filtered(level, current) \/ ~ allocated
  <2>1. UNCHANGED <<log, next_event_id, accepted>>
    BY <1>1 DEF audit_log
  <2> QED
    BY <1>t, <2>1 DEF IInv, TypeOK, Latest, IdsContiguous
<1>2. CASE ~ (Filtered(level, current) \/ ~ allocated)
  <2>1. /\ log' = Store(log, e)
        /\ next_event_id' = (next_event_id + 1) % IdModulus
        /\ accepted' = Append(accepted, e)
    BY <1>2 DEF audit_log
  <2>2. e \in Event
    BY <1>t DEF TypeOK, Event
  <2>e. e.event_id = next_event_id
    OBVIOUS
  <2>3. /\ log \in Seq(Event) /\ Len(log) <= MaxLogs
        /\ accepted \in Seq(Event)
        /\ next_event_id \in 0 .. IdModulus - 1
    BY <1>t DEF TypeOK
  <2>4. next_event_id' \in 0 .. IdModulus - 1
    BY <2>1, <2>3, AuditAssumption
  <2> HIDE DEF e
  <2>5. /\ Len(accepted') = Len(accepted) + 1
        /\ accepted' \in Seq(Event)
        /\ \A k \in 1 .. Len(accepted) : accepted'[k] = accepted[k]
        /\ accepted'[Len(accepted')] = e
    BY <2>1, <2>2, <2>3
  <2>6. /\ log' \in Seq(Event)
        /\ log'[Len(log')] = e
    BY <2>1, <2>2, <2>3, StoreShape
  <2>7. CASE Len(log) < MaxLogs
    <3>1. /\ Len(log') = Len(log) + 1
          /\ \A i \in 1 .. Len(log) : log'[i] = log[i]
      BY <2>1, <2>2, <2>3, <2>7, StoreShape
    <3>2. TypeOK'
      BY <2>3, <2>4, <2>5, <2>6, <2>7, <3>1, AuditAssumption DEF TypeOK
    <3>3. Len(log) = Len(accepted) /\ \A i \in 1 .. Len(log) : log[i] = accepted[i]
      <4>1. Len(accepted) \in Nat /\ Len(log) \in Nat
        BY <2>3
      <4>2. Len(log) = Len(accepted)
        BY <1>t, <4>1, <2>7, AuditAssumption DEF Latest
      <4>3. ASSUME NEW i \in 1 .. Len(log) PROVE log[i] = accepted[i]
        <5>1. log[i] = accepted[Len(accepted) - Len(log) + i]
          BY <1>t DEF Latest
        <5>2. Len(accepted) - Len(log) + i = i
          BY <4>1, <4>2
        <5> QED
          BY <5>1, <5>2
      <4> QED
        BY <4>2, <4>3
    <3>4. Latest'
      <4>1. Len(log') = Len(accepted') /\ Len(log') <= MaxLogs
        BY <2>3, <2>5, <2>7, <3>1, <3>3, AuditAssumption
      <4>2. \A i \in 1 .. Len(log') : log'[i] = accepted'[i]
        BY <2>3, <2>5, <2>6, <3>1, <3>3
      <4> QED
        BY <4>1, <4>2, <2>5, <2>6, AuditAssumption DEF Latest
    <3>5. IdsContiguous'
      <4> SUFFICES ASSUME NEW i \in 1 .. Len(log')
                   PROVE (log'[i].event_id + 1) % IdModulus =
                         IF i = Len(log') THEN next_event_id'
                                          ELSE log'[i + 1].event_id
        BY DEF IdsContiguous
      <4>1. CASE i = Len(log')
        BY <4>1, <2>1, <2>6, <2>e
      <4>2. CASE i = Len(log) /\ i # Len(log')
        BY <4>2, <1>t, <2>3, <2>6, <2>e, <3>1 DEF IdsContiguous
      <4>3. CASE i < Len(log)
        BY <4>3, <1>t, <2>3, <3>1 DEF IdsContiguous
      <4> QED
        BY <4>1, <4>2, <4>3, <2>3, <3>1
    <3> QED
      BY <3>2, <3>4, <3>5 DEF IInv
  <2>8. CASE Len(log) = MaxLogs
    <3>1. /\ Len(log') = MaxLogs
          /\ \A i \in 1 .. MaxLogs - 1 : log'[i] = log[i + 1]
      BY <2>1, <2>2, <2>3, <2>8, StoreShape
    <3>2. TypeOK'
      BY <2>3, <2>4, <2>5, <2>6, <3>1, AuditAssumption DEF TypeOK
    <3>3. /\ Len(accepted) >= MaxLogs
          /\ \A i \in 1 .. MaxLogs : log[i] = accepted[Len(accepted) - MaxLogs + i]
      <4>1. Len(accepted) \in Nat
        BY <2>3
      <4>2. Len(accepted) >= MaxLogs
        BY <1>t, <4>1, <2>8, AuditAssumption DEF Latest
      <4>3. \A i \in 1 .. MaxLogs : log[i] = accepted[Len(accepted) - MaxLogs + i]
        BY <1>t, <2>8 DEF Latest
      <4> QED
        BY <4>2, <4>3
    <3>4. Latest'
      <4>1. \A i \in 1 .. MaxLogs :
               log'[i] = accepted'[Len(accepted') - MaxLogs + i]
        <5> TAKE i \in 1 .. MaxLogs
        <5>1. CASE i = MaxLogs
          BY <5>1, <2>5, <2>6, <3>1, <2>3, AuditAssumption
        <5>2. CASE i < MaxLogs
          <6>1. log'[i] = accepted[Len(accepted) - MaxLogs + (i + 1)]
            BY <5>2, <3>1, <3>3, AuditAssumption
          <6>2. Len(accepted) - MaxLogs + (i + 1) \in 1 .. Len(accepted)
            BY <5>2, <2>3, <3>3, AuditAssumption
          <6>3. Len(accepted') - MaxLogs + i = Len(accepted) - MaxLogs + (i + 1)
            BY <2>3, <2>5, AuditAssumption
          <6> QED
            BY <6>1, <6>2, <6>3, <2>5
        <5> QED
          BY <5>1, <5>2, AuditAssumption
      <4> QED
        BY <4>1, <2>3, <2>5, <3>1, <3>3, AuditAssumption DEF Latest
    <3>5. IdsContiguous'
      <4> SUFFICES ASSUME NEW i \in 1 .. Len(log')
                   PROVE (log'[i].event_id + 1) % IdModulus =
                         IF i = Len(log') THEN next_event_id'
                                          ELSE log'[i + 1].event_id
        BY DEF IdsContiguous
      <4>1. CASE i = Len(log')
        BY <4>1, <2>1, <2>6, <2>e
      <4>2. CASE i = MaxLogs - 1
        <5>1. log'[i] = log[MaxLogs] /\ i + 1 = Len(log') /\ MaxLogs \in 1 .. Len(log)
          BY <4>2, <2>8, <3>1, AuditAssumption
        <5>2. (log[MaxLogs].event_id + 1) % IdModulus = next_event_id
          BY <5>1, <1>t, <2>8 DEF IdsContiguous
        <5> QED
          BY <4>2, <5>1, <5>2, <2>6, <2>e, <3>1, AuditAssumption
      <4>3. CASE i < MaxLogs - 1
        <5>1. /\ log'[i] = log[i + 1] /\ log'[i + 1] = log[(i + 1) + 1]
              /\ i + 1 \in 1 .. Len(log) /\ i + 1 # Len(log) /\ i # Len(log')
          BY <4>3, <2>8, <3>1, AuditAssumption
        <5>2. (log[i + 1].event_id + 1) % IdModulus = log[(i + 1) + 1].event_id
          BY <5>1, <1>t DEF IdsContiguous
        <5> QED
          BY <5>1, <5>2
      <4> QED
        BY <4>1, <4>2, <4>3, <3>1, AuditAssumption
    <3> QED
      BY <3>2, <3>4, <3>5 DEF IInv
  <2> QED
    BY <2>3, <2>7, <2>8, AuditAssumption
<1> QED
  BY <1>1, <1>2

(* Every step of the audit log keeps the invariant.                        *)
LEMMA StepPreserves == IInv /\ [Next]_vars => IInv'
<1> SUFFICES ASSUME IInv, [Next]_vars PROVE IInv'
  OBVIOUS
<1>t. TypeOK /\ Latest /\ IdsContiguous
  BY DEF IInv
<1>1. CASE audit_init
  <2>1. CASE /\ allocated' = FALSE
             /\ UNCHANGED <<log, next_event_id, current_level, accepted>>
    BY <1>t, <2>1 DEF IInv, TypeOK, Latest, IdsContiguous
  <2>2. CASE ~ (/\ allocated' = FALSE
                /\ UNCHANGED <<log, next_event_id, current_level, accepted>>)
    <3> DEFINE boot == [event_id |-> 1, type |-> "SYSTEM_BOOT",
                        level |-> INFO, user_id |-> 0]
               first == IF Filtered(INFO, current_level) THEN <<>> ELSE <<boot>>
    <3>1. /\ allocated' = TRUE /\ log' = first /\ accepted' = first
          /\ next_event_id' = 1 + Len(first)
          /\ UNCHANGED current_level
      BY <1>1, <2>2 DEF audit_init
    <3>2. boot \in Event
      BY AuditAssumption DEF Event, Levels, INFO, NONE, VERBOSE
    <3>3. first = <<>> \/ first = <<boot>>
      OBVIOUS
    <3>e. boot.event_id = 1
      OBVIOUS
    <3>c. current_level' \in Levels
      BY <1>t, <3>1 DEF TypeOK
    <3> HIDE DEF boot, first
    <3>4. CASE first = <<>>
      <4>1. /\ log' = <<>> /\ accepted' = <<>> /\ next_event_id' = 1
        BY <3>1, <3>4
      <4> QED
        BY <4>1, <3>1, <3>c, AuditAssumption
        DEF IInv, TypeOK, Latest, IdsContiguous
    <3>5. CASE first = <<boot>>
      <4>1. /\ log' = <<boot>> /\ accepted' = <<boot>> /\ next_event_id' = 2
        BY <3>1, <3>5
      <4>2. TypeOK'
        BY <4>1, <3>1, <3>2, <3>c, AuditAssumption DEF TypeOK
      <4>3. Latest'
        BY <4>1, AuditAssumption DEF Latest
      <4>4. IdsContiguous'
        BY <4>1, <3>e, AuditAssumption DEF IdsContiguous
      <4> QED
        BY <4>2, <4>3, <4>4 DEF IInv
    <3> QED
      BY <3>3, <3>4, <3>5
  <2> QED
    BY <2>1, <2>2
<1>2. CASE Log
  <2>1. PICK type \in Types, level \in CallLevels, user \in Users :
             audit_log(type, level, user, current_level)
    BY <1>2 DEF Log
  <2>2. level \in Levels /\ allocated' \in BOOLEAN /\ current_level' \in Levels
    BY <1>t, <1>2, AuditAssumption DEF Log, TypeOK, Levels, NONE, VERBOSE
  <2>3. current_level \in Levels
    BY <1>t DEF TypeOK
  <2> QED
    BY <2>1, <2>2, <2>3, LogPreserves
<1>3. CASE SetLevel
  <2>1. PICK level \in Levels : audit_set_level(level)
    BY <1>3 DEF SetLevel
  <2>2. /\ audit_log("SECURITY_CHANGE", INFO, 0, level)
        /\ allocated' \in BOOLEAN /\ current_level' \in Levels
    BY <1>t, <2>1 DEF audit_set_level, TypeOK
  <2>3. "SECURITY_CHANGE" \in Types /\ INFO \in Levels /\ 0 \in Users
    BY AuditAssumption DEF Levels, INFO, NONE, VERBOSE
  <2> QED
    BY <2>2, <2>3, LogPreserves
<1>4. CASE UNCHANGED vars
  BY <1>t, <1>4 DEF IInv, vars, TypeOK, Latest, IdsContiguous
<1> QED
  BY <1>1, <1>2, <1>3, <1>4 DEF Next

LEMMA InitHolds == Init => IInv
<1> SUFFICES ASSUME Init PROVE IInv
  OBVIOUS
<1>1. TypeOK
  <2>1. log \in Seq(Event) /\ accepted \in Seq(Event) /\ Len(log) = 0
    BY DEF Init
  <2>2. 1 \in 0 .. IdModulus - 1 /\ INFO \in Levels /\ 0 <= MaxLogs
    BY AuditAssumption DEF Levels, INFO, NONE, VERBOSE
  <2> QED
    BY <2>1, <2>2 DEF Init, TypeOK
<1>2. Latest
  BY AuditAssumption DEF Init, Latest
<1>3. IdsContiguous
  BY DEF Init, IdsContiguous
<1> QED
  BY <1>1, <1>2, <1>3 DEF IInv

-----------------------------------------------------------------------------
(***************************************************************************)
(* The packet filter.                                                      *)
(***************************************************************************)
FwType == rules \in Seq(Rules) /\ Len(rules) <= MaxRules

(* Offering rules never moves or drops one that is in the table            *)
(* (firewall.c:18-24), at its limit too.                                   *)
LEMMA FillKeeps ==
    ASSUME NEW rs \in Seq(Rules), Len(rs) <= MaxRules, NEW new \in Seq(Rules)
    PROVE  /\ Fill(rs, new) \in Seq(Rules)
           /\ Len(Fill(rs, new)) \in Len(rs) .. MaxRules
           /\ \A i \in 1 .. Len(rs) : Fill(rs, new)[i] = rs[i]
<1> DEFINE all == rs \o new
<1>1. /\ all \in Seq(Rules)
      /\ Len(all) = Len(rs) + Len(new)
      /\ \A i \in 1 .. Len(rs) : all[i] = rs[i]
      /\ Len(rs) \in Nat /\ Len(new) \in Nat /\ Len(all) \in Nat
  OBVIOUS
<1>2. Fill(rs, new) = IF Len(all) > MaxRules THEN SubSeq(all, 1, MaxRules) ELSE all
  BY DEF Fill
<1> HIDE DEF all
<1>3. CASE Len(all) > MaxRules
  <2>1. /\ SubSeq(all, 1, MaxRules) \in Seq(Rules)
        /\ Len(SubSeq(all, 1, MaxRules)) = MaxRules
        /\ \A i \in 1 .. MaxRules : SubSeq(all, 1, MaxRules)[i] = all[i]
    BY <1>1, <1>3, FirewallAssumption
  <2>2. Fill(rs, new) = SubSeq(all, 1, MaxRules)
    BY <1>2, <1>3
  <2> QED
    BY <1>1, <2>1, <2>2, FirewallAssumption
<1>4. CASE ~ (Len(all) > MaxRules)
  BY <1>1, <1>2, <1>4, FirewallAssumption
<1> QED
  BY <1>3, <1>4

(* The least element of a set of numbers.                                  *)
LEMMA Least ==
    ASSUME NEW S \in SUBSET Nat, S # {}
    PROVE  \E n \in S : \A m \in S : n <= m
<1>1. PICK n \in S : \A m \in S : ~ (<<m, n>> \in OpToRel(<, Nat))
  BY NatLessThanWellFounded, WFMin
<1>2. \A m \in S : n <= m
  <2> TAKE m \in S
  <2>1. <<m, n>> \in Nat \X Nat /\ ~ (<<m, n>> \in OpToRel(<, Nat))
    BY <1>1
  <2>2. ~ (m < n)
    BY <2>1 DEF OpToRel
  <2> QED
    BY <2>2
<1> QED
  BY <1>2

(* The scan of firewall_check_packet stops at the same rule when rules are *)
(* added behind it.                                                        *)
LEMMA FirstKept ==
    ASSUME NEW S \in SUBSET Nat, S # {}, NEW T \in SUBSET Nat, S \subseteq T,
           NEW n \in Nat, \A i \in S : i <= n, \A i \in T \ S : i > n
    PROVE  FirstOf(T) = FirstOf(S) /\ FirstOf(S) \in S
<1>1. PICK least \in S : \A m \in S : least <= m
  BY Least
<1>2. \A i \in S : (\A j \in S : i <= j) <=> i = least
  BY <1>1
<1>3. FirstOf(S) = least
  BY <1>1, <1>2 DEF FirstOf
<1>4. \A i \in T : (\A j \in T : i <= j) <=> i = least
  BY <1>1
<1>5. FirstOf(T) = least
  BY <1>1, <1>4 DEF FirstOf
<1> QED
  BY <1>3, <1>5

LEMMA CheckKept ==
    ASSUME NEW rs \in Seq(Rules), NEW new \in Seq(Rules), Len(new) >= Len(rs),
           \A i \in 1 .. Len(rs) : new[i] = rs[i],
           NEW p \in Packets, Covering(rs, p) # {}
    PROVE  firewall_check_packet(new, TRUE, p) = firewall_check_packet(rs, TRUE, p)
<1> DEFINE S == Covering(rs, p)
           T == Covering(new, p)
<1>1. Len(rs) \in Nat /\ Len(new) \in Nat
  OBVIOUS
<1>2. /\ S \in SUBSET Nat /\ T \in SUBSET Nat /\ S \subseteq T
      /\ \A i \in S : i <= Len(rs)
      /\ \A i \in T \ S : i > Len(rs)
  BY <1>1 DEF Covering
<1>3. S # {} /\ T # {}
  BY <1>2
<1> HIDE DEF S, T
<1>4. FirstOf(T) = FirstOf(S) /\ FirstOf(S) \in S
  BY <1>1, <1>2, <1>3, FirstKept
<1>5. new[FirstOf(S)] = rs[FirstOf(S)]
  BY <1>4 DEF S, Covering
<1> QED
  BY <1>3, <1>4, <1>5 DEF firewall_check_packet, S, T

-----------------------------------------------------------------------------
(***************************************************************************)
(* The security subsystem over both.                                       *)
(***************************************************************************)
LEMMA AppendTwo ==
    ASSUME NEW S, NEW a \in S, NEW b \in S
    PROVE  Append(<<a>>, b) = <<a, b>>
<1>1. /\ DOMAIN Append(<<a>>, b) = 1 .. 2 /\ DOMAIN <<a, b>> = 1 .. 2
      /\ Append(<<a>>, b) \in Seq(S) /\ <<a, b>> \in Seq(S)
  OBVIOUS
<1>2. Append(<<a>>, b)[1] = a /\ Append(<<a>>, b)[2] = b
  OBVIOUS
<1>3. \A i \in 1 .. 2 : Append(<<a>>, b)[i] = <<a, b>>[i]
  BY <1>2
<1>4. Append(<<a>>, b) = [i \in 1 .. 2 |-> Append(<<a>>, b)[i]]
  BY <1>1
<1>5. <<a, b>> = [i \in 1 .. 2 |-> <<a, b>>[i]]
  BY <1>1
<1> QED
  BY <1>1, <1>3, <1>4, <1>5

(* A restart of the log through security_init: the boot event and the      *)
(* event of security.c, each if it is not filtered.                        *)
LEMMA StartPreserves ==
    ASSUME IInv, StartLog
    PROVE  IInv'
<1>t. TypeOK /\ Latest /\ IdsContiguous
  BY DEF IInv
<1>1. CASE /\ allocated' = FALSE
           /\ UNCHANGED <<log, next_event_id, current_level, accepted>>
  BY <1>t, <1>1 DEF IInv, TypeOK, Latest, IdsContiguous
<1>2. CASE ~ (/\ allocated' = FALSE
              /\ UNCHANGED <<log, next_event_id, current_level, accepted>>)
  <2> DEFINE boot  == [event_id |-> 1, type |-> "SYSTEM_BOOT",
                       level |-> INFO, user_id |-> 0]
             first == IF Filtered(INFO, current_level) THEN <<>> ELSE <<boot>>
             start == [event_id |-> 1 + Len(first), type |-> "MISTYPED",
                       level |-> ERROR, user_id |-> 0]
             both  == IF Filtered(ERROR, current_level) THEN first
                      ELSE Append(first, start)
  <2>1. /\ allocated' = TRUE
        /\ log' = IF Len(both) > MaxLogs THEN Tail(both) ELSE both
        /\ accepted' = both
        /\ next_event_id' = (1 + Len(both)) % IdModulus
        /\ UNCHANGED current_level
    BY <1>2 DEF StartLog
  <2>2. first = <<>> \/ first = <<boot>>
    OBVIOUS
  <2>3. boot \in Event /\ boot.event_id = 1
    BY AuditAssumption DEF Event, Levels, INFO, NONE, VERBOSE
  <2>4. both = first \/ both = Append(first, start)
    OBVIOUS
  <2>5. start \in Event /\ start.event_id = 1 + Len(first)
    <3>1. 1 + Len(first) \in 0 .. IdModulus - 1
      <4>1. Len(first) = 0 \/ Len(first) = 1
        <5> HIDE DEF boot
        <5> QED BY <2>2
      <4> QED BY <4>1, AuditAssumption
    <3> HIDE DEF first
    <3> QED
      BY <3>1, AuditAssumption, SecurityAssumption
      DEF Event, Levels, ERROR, NONE, VERBOSE
  <2>6. current_level' \in Levels
    BY <1>t, <2>1 DEF TypeOK
  <2> HIDE DEF boot, first, start, both
  <2>7. CASE both = <<>>
    <3>1. log' = <<>> /\ accepted' = <<>> /\ next_event_id' = 1
      BY <2>1, <2>7, AuditAssumption
    <3> QED
      BY <3>1, <2>1, <2>6, AuditAssumption DEF IInv, TypeOK, Latest, IdsContiguous
  <2>8. ASSUME NEW e \in Event, e.event_id = 1, both = <<e>>
        PROVE  IInv'
    <3>1. log' = <<e>> /\ accepted' = <<e>> /\ next_event_id' = 2
      BY <2>1, <2>8, AuditAssumption
    <3>2. TypeOK'
      BY <3>1, <2>1, <2>6, AuditAssumption DEF TypeOK
    <3>3. Latest'
      BY <3>1, AuditAssumption DEF Latest
    <3>4. IdsContiguous'
      BY <3>1, <2>8, AuditAssumption DEF IdsContiguous
    <3> QED
      BY <3>2, <3>3, <3>4 DEF IInv
  <2>9. CASE first = <<boot>> /\ both = Append(first, start)
    <3>1. start.event_id = 2 /\ both = <<boot, start>>
      <4>1. Len(first) = 1 /\ both = Append(<<boot>>, start)
        BY <2>9
      <4>2. start.event_id = 1 + 1
        BY <2>5, <4>1
      <4>3. Append(<<boot>>, start) = <<boot, start>>
        BY <2>3, <2>5, AppendTwo
      <4> QED
        BY <4>1, <4>2, <4>3
    <3>2. accepted' = <<boot, start>> /\ next_event_id' = 3 % IdModulus
      BY <2>1, <3>1
    <3>3. next_event_id' \in 0 .. IdModulus - 1
      BY <3>2, AuditAssumption
    <3>4. CASE MaxLogs = 1
      <4>1. log' = <<start>>
        BY <2>1, <2>3, <2>5, <3>1, <3>4
      <4>2. TypeOK'
        BY <4>1, <3>2, <3>3, <3>4, <2>1, <2>3, <2>5, <2>6, AuditAssumption DEF TypeOK
      <4>3. Latest'
        BY <4>1, <3>2, <3>4 DEF Latest
      <4>4. IdsContiguous'
        BY <4>1, <3>1, <3>2 DEF IdsContiguous
      <4> QED
        BY <4>2, <4>3, <4>4 DEF IInv
    <3>5. CASE MaxLogs > 1
      <4>1. log' = <<boot, start>>
        BY <2>1, <3>1, <3>5, AuditAssumption
      <4>2. TypeOK'
        BY <4>1, <3>2, <3>3, <3>5, <2>1, <2>3, <2>5, <2>6, AuditAssumption DEF TypeOK
      <4>3. Latest'
        BY <4>1, <3>2, <3>5, AuditAssumption DEF Latest
      <4>4. IdsContiguous'
        BY <4>1, <3>1, <3>2, <2>3, AuditAssumption DEF IdsContiguous
      <4> QED
        BY <4>2, <4>3, <4>4 DEF IInv
    <3> QED
      BY <3>4, <3>5, AuditAssumption
  <2>10. CASE both = first
    BY <2>2, <2>3, <2>7, <2>8, <2>10
  <2>11. CASE first = <<>> /\ both = Append(first, start)
    <3>1. both = <<start>> /\ start.event_id = 1
      BY <2>5, <2>11
    <3> QED
      BY <2>5, <2>8, <3>1
  <2> QED
    BY <2>2, <2>4, <2>9, <2>10, <2>11
<1> QED
  BY <1>1, <1>2

(* What each step does to the filter's table.                              *)
LEMMA TableSteps ==
    ASSUME FwType, [SecNext]_allVars
    PROVE  /\ FwType'
           /\ \/ security_init \/ network_init \/ firewall_init
              \/ /\ Len(rules') >= Len(rules)
                 /\ \A i \in 1 .. Len(rules) : rules'[i] = rules[i]
<1> DEFINE Kept == /\ Len(rules') >= Len(rules)
                   /\ \A i \in 1 .. Len(rules) : rules'[i] = rules[i]
<1>0. rules \in Seq(Rules) /\ Len(rules) \in Nat /\ Len(rules) <= MaxRules
  BY DEF FwType
<1>m. MaxRules \in Nat
  BY FirewallAssumption
<1>1. CASE UNCHANGED rules
  BY <1>0, <1>1 DEF FwType
<1>2. CASE network_init \/ firewall_init
  <2>1. rules' = <<>>
    BY <1>2 DEF network_init, firewall_init
  <2>2. FwType'
    BY <1>m, <2>1 DEF FwType
  <2> QED
    BY <1>2, <2>2
<1>3. ASSUME NEW new \in Seq(Rules), firewall_add_rule(new)
      PROVE  FwType' /\ Kept
  BY <1>0, <1>3, FillKeeps, FirewallAssumption DEF firewall_add_rule, FwType
<1>4. ASSUME NEW r \in Rules, firewall_add_rule(<<r>>)
      PROVE  FwType' /\ Kept
  <2>1. <<r>> \in Seq(Rules)
    OBVIOUS
  <2> HIDE DEF Kept
  <2> QED
    BY <1>3, <1>4, <2>1
<1>5. CASE security_init
  <2>1. CASE security_config.firewall
    <3>1. \E new \in Seq(Rules) : rules' = Fill(<<>>, new)
      <4>1. PICK a \in Rules, b \in Rules, c \in Rules : rules' = Fill(<<>>, <<a, b, c>>)
        BY <1>5, <2>1 DEF security_init
      <4>2. <<a, b, c>> \in Seq(Rules)
        OBVIOUS
      <4> QED
        BY <4>1, <4>2
    <3> DEFINE none == <<>>
    <3>2. none \in Seq(Rules) /\ Len(none) <= MaxRules /\ Len(none) \in Nat
      BY <1>m
    <3>3. PICK new \in Seq(Rules) : rules' = Fill(none, new)
      BY <3>1
    <3> HIDE DEF none
    <3>4. rules' \in Seq(Rules) /\ Len(rules') \in Len(none) .. MaxRules
      BY <3>2, <3>3, FillKeeps
    <3>5. FwType'
      BY <1>m, <3>2, <3>4 DEF FwType
    <3> QED
      BY <1>5, <3>5
  <2>2. CASE ~ security_config.firewall
    BY <1>5, <1>1, <2>2 DEF security_init, fwVars
  <2> QED
    BY <1>5, <2>1, <2>2
<1>6. ASSUME NEW level \in 0 .. MaxLevel, security_set_level(level)
      PROVE  FwType' /\ Kept
  <2>1. PICK new \in [1 .. ExtraRules(level) -> Rules] : firewall_add_rule(new)
    BY <1>6 DEF security_set_level
  <2>2. ExtraRules(level) \in Nat
    BY DEF ExtraRules
  <2>3. new \in Seq(Rules)
    BY <2>1, <2>2
  <2> QED
    BY <1>3, <2>1, <2>3
<1>7. CASE security_add_firewall_rule
  BY <1>4, <1>7 DEF security_add_firewall_rule
<1>8. CASE FwNext
  BY <1>1, <1>2, <1>4, <1>8 DEF FwNext, firewall_enable, firewall_disable
<1>9. CASE (Next /\ UNCHANGED fwVars) \/ UNCHANGED allVars
  BY <1>1, <1>9 DEF fwVars, allVars
<1> QED
  BY <1>2, <1>5, <1>6, <1>7, <1>8, <1>9 DEF SecNext

(* What each step does to the log.                                         *)
LEMMA LogSteps ==
    ASSUME IInv, [SecNext]_allVars
    PROVE  IInv'
<1>1. CASE UNCHANGED vars
  BY <1>1, StepPreserves
<1>2. CASE Next
  BY <1>2, StepPreserves
<1>3. CASE security_init
  BY <1>1, <1>3, StartPreserves DEF security_init
<1>4. ASSUME NEW level \in 0 .. MaxLevel, security_set_level(level)
      PROVE  IInv'
  <2>1. /\ allocated' \in BOOLEAN /\ current_level' \in Levels
        /\ current_level \in Levels /\ UNCHANGED <<allocated, current_level>>
    BY <1>4 DEF security_set_level, IInv, TypeOK
  <2>2. WARNING \in Levels /\ 0 \in Users /\ "MISTYPED" \in Types
    BY AuditAssumption, SecurityAssumption DEF WARNING, Levels, NONE, VERBOSE
  <2>3. CASE audit_log("MISTYPED", WARNING, 0, current_level)
    BY <2>1, <2>2, <2>3, LogPreserves
  <2>4. CASE UNCHANGED <<log, next_event_id, accepted>>
    BY <1>1, <2>1, <2>4 DEF vars
  <2> QED
    BY <1>4, <2>3, <2>4 DEF security_set_level
<1> QED
  BY <1>1, <1>2, <1>3, <1>4 DEF SecNext, security_add_firewall_rule, network_init, allVars

LEMMA Invariance == SecSpec => [](IInv /\ FwType)
<1>1. SecInit => IInv /\ FwType
  BY InitHolds, FirewallAssumption DEF SecInit, FwInit, FwType
<1>2. IInv /\ FwType /\ [SecNext]_allVars => (IInv /\ FwType)'
  BY LogSteps, TableSteps
<1> QED
  BY <1>1, <1>2, PTL DEF SecSpec

(* The buffer always holds exactly the most recent accepted events         *)
(* (audit.c:63-95), for every capacity, through restarts of the log and    *)
(* the events of security.c.                                               *)
THEOREM LatestAlways == SecSpec => []Latest
<1>1. IInv /\ FwType => Latest
  BY DEF IInv
<1> QED
  BY <1>1, Invariance, PTL

(* The ids in the log are consecutive up to next_event_id, for every width *)
(* of the counter (audit.c:80).                                            *)
THEOREM IdsContiguousAlways == SecSpec => []IdsContiguous
<1>1. IInv /\ FwType => IdsContiguous
  BY DEF IInv
<1> QED
  BY <1>1, Invariance, PTL

(* A packet that a rule has decided on stays decided, whatever is added to *)
(* the table (firewall.c:18-41, security.c:95-128), until the filter is    *)
(* switched off or initialised again.                                      *)
THEOREM SettledAlways == SecSpec => Settled
<1> DEFINE Stays ==
      \A p \in Packets :
         (/\ Covering(rules, p) # {}
          /\ firewall_enabled /\ firewall_enabled'
          /\ ~ security_init /\ ~ network_init /\ ~ firewall_init)
         => firewall_check_packet(rules', firewall_enabled', p)
              = firewall_check_packet(rules, firewall_enabled, p)
<1>1. FwType /\ FwType' /\ [SecNext]_allVars => Stays
  <2> SUFFICES ASSUME FwType, FwType', [SecNext]_allVars, NEW p \in Packets,
                      Covering(rules, p) # {}, firewall_enabled, firewall_enabled',
                      ~ security_init, ~ network_init, ~ firewall_init
               PROVE  firewall_check_packet(rules', firewall_enabled', p)
                        = firewall_check_packet(rules, firewall_enabled, p)
    OBVIOUS
  <2>1. /\ Len(rules') >= Len(rules)
        /\ \A i \in 1 .. Len(rules) : rules'[i] = rules[i]
        /\ rules \in Seq(Rules) /\ rules' \in Seq(Rules)
    BY TableSteps DEF FwType
  <2>2. firewall_check_packet(rules', TRUE, p) = firewall_check_packet(rules, TRUE, p)
    BY <2>1, CheckKept
  <2> QED
    BY <2>2 DEF firewall_check_packet
<1>2. (IInv /\ FwType) /\ (IInv /\ FwType)' /\ [SecNext]_allVars => [Stays]_allVars
  BY <1>1
<1> QED
  BY <1>2, Invariance, PTL DEF SecSpec, Settled

(* No change of the security level or of the audit level goes unlogged but *)
(* for the reasons the two modules give (security.c:124-128,               *)
(* audit.c:34-59).                                                         *)
THEOREM ChangesTracedAlways == SecSpec => ChangesTraced
<1> DEFINE Traced ==
      /\ security_config' # security_config =>
             \/ accepted' # accepted
             \/ security_config'.level = 0 \/ current_level < WARNING \/ ~ allocated
      /\ current_level' # current_level =>
             \/ accepted' # accepted
             \/ current_level' < INFO \/ ~ allocated
<1>0. ASSUME IInv, NEW type, NEW level, NEW user, NEW current,
             audit_log(type, level, user, current)
      PROVE  accepted' # accepted \/ Filtered(level, current) \/ ~ allocated
  <2> SUFFICES ASSUME ~ (Filtered(level, current) \/ ~ allocated)
               PROVE  accepted' # accepted
    OBVIOUS
  <2> DEFINE e == [event_id |-> next_event_id, type |-> type,
                   level |-> level, user_id |-> user]
  <2>1. accepted' = Append(accepted, e)
    BY <1>0 DEF audit_log
  <2>2. accepted \in Seq(Event) /\ Len(accepted) \in Nat
    BY <1>0 DEF IInv, TypeOK
  <2> HIDE DEF e
  <2>3. Len(accepted') = Len(accepted) + 1
    BY <2>1, <2>2
  <2> QED
    BY <2>2, <2>3
<1>1. IInv /\ [SecNext]_allVars => Traced
  <2> SUFFICES ASSUME IInv, [SecNext]_allVars PROVE Traced
    OBVIOUS
  <2>1. CASE UNCHANGED <<security_config, current_level>>
    BY <2>1
  <2>2. ASSUME NEW level \in 0 .. MaxLevel, security_set_level(level)
        PROVE  Traced
    <3>1. security_config' = Settings(level) /\ UNCHANGED current_level
      BY <2>2 DEF security_set_level
    <3>2. Settings(level).level = level /\ Settings(level).audit = (level >= 1)
      BY DEF Settings
    <3>3. CASE level = 0
      BY <3>1, <3>2, <3>3
    <3>4. CASE level # 0
      <4>1. level >= 1
        BY <3>4
      <4>2. audit_log("MISTYPED", WARNING, 0, current_level)
        BY <2>2, <3>2, <4>1 DEF security_set_level
      <4>3. Filtered(WARNING, current_level) => current_level < WARNING
        BY DEF Filtered, WARNING, NONE, IInv, TypeOK, Levels, VERBOSE
      <4> QED
        BY <1>0, <3>1, <4>2, <4>3
    <3> QED
      BY <3>3, <3>4
  <2>3. ASSUME NEW level \in Levels, audit_set_level(level), UNCHANGED security_config
        PROVE  Traced
    <3>1. audit_log("SECURITY_CHANGE", INFO, 0, level) /\ current_level' = level
      BY <2>3 DEF audit_set_level
    <3>2. Filtered(INFO, level) => level < INFO
      BY DEF Filtered, INFO, NONE, Levels, VERBOSE
    <3> QED
      BY <1>0, <2>3, <3>1, <3>2
  <2>4. CASE security_init
    BY <2>1, <2>4 DEF security_init, StartLog, vars
  <2>5. CASE Next /\ UNCHANGED security_config
    <3>1. CASE audit_init \/ Log
      BY <2>1, <2>5, <3>1 DEF audit_init, Log
    <3> QED
      BY <2>3, <2>5, <3>1 DEF Next, SetLevel
  <2>6. CASE UNCHANGED <<vars, security_config>>
    BY <2>1, <2>6 DEF vars
  <2>7. CASE UNCHANGED allVars
    BY <2>6, <2>7 DEF allVars
  <2> QED
    BY <2>2, <2>4, <2>5, <2>6, <2>7
    DEF SecNext, security_add_firewall_rule, network_init
<1>2. (IInv /\ FwType) /\ [SecNext]_allVars => [Traced]_allVars
  BY <1>1
<1> QED
  BY <1>2, Invariance, PTL DEF SecSpec, ChangesTraced

-----------------------------------------------------------------------------
(***************************************************************************)
(* The queries: the loops, which keep what they have found so far.         *)
(***************************************************************************)
(* Induction over 0 .. n: a set that holds 0 and each successor holds n.   *)
LEMMA Reaches ==
    ASSUME NEW n \in Nat, NEW S, 0 \in S,
           \A i \in 1 .. n : i - 1 \in S => i \in S
    PROVE  n \in S
<1> DEFINE T == {i \in 0 .. n : i \notin S}
<1> SUFFICES ASSUME T # {} PROVE FALSE
  OBVIOUS
<1>1. PICK k \in T : \A j \in T : k <= j
  <2>1. T \in SUBSET Nat
    OBVIOUS
  <2> QED BY <2>1, Least
<1>2. k \in 1 .. n /\ k - 1 \in 0 .. n /\ ~ (k <= k - 1)
  OBVIOUS
<1>3. k - 1 \in S
  BY <1>1, <1>2
<1> QED BY <1>1, <1>2, <1>3

(* A loop of n turns over a set of states runs.                            *)
RunOf(f, S, x, turn, n) ==
    /\ f \in [0 .. n -> S] /\ f[0] = x
    /\ \A i \in 1 .. n : f[i] = turn[i][f[i - 1]]

LEMMA LoopRuns ==
    ASSUME NEW n \in Nat, NEW S, NEW x \in S, NEW turn \in [1 .. n -> [S -> S]]
    PROVE  \E f : RunOf(f, S, x, turn, n)
<1> DEFINE Runs(f, k) == f[0] = x /\ \A i \in 1 .. k : f[i] = turn[i][f[i - 1]]
           K == {k \in 0 .. n : \E f \in [0 .. k -> S] : Runs(f, k)}
<1>1. 0 \in K
  <2> DEFINE f == [i \in 0 .. 0 |-> x]
  <2>1. f \in [0 .. 0 -> S] /\ f[0] = x
    OBVIOUS
  <2> HIDE DEF f
  <2> QED BY <2>1
<1>2. ASSUME NEW k \in 1 .. n, k - 1 \in K PROVE k \in K
  <2>1. PICK g \in [0 .. k - 1 -> S] : Runs(g, k - 1)
    BY <1>2
  <2> DEFINE y == turn[k][g[k - 1]]
             f == [i \in 0 .. k |-> IF i = k THEN y ELSE g[i]]
  <2>2. y \in S
    <3>1. g[k - 1] \in S /\ turn[k] \in [S -> S]
      OBVIOUS
    <3> QED BY <3>1
  <2>3. \A i \in 0 .. k - 1 : f[i] = g[i]
    OBVIOUS
  <2>4. f[k] = y
    OBVIOUS
  <2>5. f \in [0 .. k -> S]
    BY <2>2
  <2> HIDE DEF f
  <2>6. ASSUME NEW i \in 1 .. k PROVE f[i] = turn[i][f[i - 1]]
    <3>1. CASE i = k
      BY <2>3, <2>4, <3>1
    <3>2. CASE i # k
      <4>1. i \in 1 .. k - 1 /\ i \in 0 .. k - 1 /\ i - 1 \in 0 .. k - 1
        BY <3>2
      <4> QED BY <2>1, <2>3, <4>1
    <3> QED BY <3>1, <3>2
  <2>7. f[0] = x
    BY <2>1, <2>3
  <2>8. Runs(f, k)
    BY <2>6, <2>7
  <2> HIDE DEF Runs
  <2> QED BY <2>5, <2>8
<1> HIDE DEF K
<1>3. n \in K
  BY <1>1, <1>2, Reaches
<1> QED BY <1>3 DEF K, RunOf

(* A loop that appends the ids of the first max hits.                      *)
FirstHits(found, H, id, max) ==
    /\ Len(found) <= max
    /\ \E at \in [1 .. Len(found) -> H] :
         /\ \A k \in 1 .. Len(found) : found[k] = id[at[k]]
         /\ \A j, k \in 1 .. Len(found) : j < k => at[j] < at[k]
         /\ \A h \in H \ {at[k] : k \in 1 .. Len(found)} :
               Len(found) = max /\ \A k \in 1 .. Len(found) : at[k] < h

LEMMA FirstAppended ==
    ASSUME NEW n \in Nat, NEW H \in SUBSET (1 .. n), NEW id \in [1 .. n -> Nat],
           NEW max \in Nat, NEW f, f[0] = <<>>,
           \A i \in 1 .. n : f[i] = IF Len(f[i - 1]) < max /\ i \in H
                                    THEN Append(f[i - 1], id[i]) ELSE f[i - 1]
    PROVE  FirstHits(f[n], H, id, max)
<1> DEFINE Holds(at, s, i) ==
             /\ at \in [1 .. Len(s) -> H]
             /\ \A k \in 1 .. Len(s) : at[k] <= i /\ s[k] = id[at[k]]
             /\ \A j, k \in 1 .. Len(s) : j < k => at[j] < at[k]
             /\ \A h \in H : h <= i /\ (\A k \in 1 .. Len(s) : at[k] # h)
                   => Len(s) = max /\ \A k \in 1 .. Len(s) : at[k] < h
           Named(s, i) == s \in Seq(Nat) /\ Len(s) <= max /\ \E at : Holds(at, s, i)
           K == {i \in 0 .. n : Named(f[i], i)}
<1>1. 0 \in K
  <2> DEFINE none == [k \in 1 .. 0 |-> 0]
  <2>1. <<>> \in Seq(Nat) /\ Len(<<>>) = 0 /\ 1 .. 0 = {}
    OBVIOUS
  <2>2. none \in [1 .. 0 -> H]
    BY <2>1
  <2>3. \A h \in H : ~ (h <= 0)
    OBVIOUS
  <2> HIDE DEF none
  <2>4. Holds(none, <<>>, 0)
    BY <2>1, <2>2, <2>3
  <2>5. Named(f[0], 0)
    <3> HIDE DEF Holds
    <3> QED BY <2>1, <2>4
  <2> HIDE DEF Named
  <2> QED BY <2>5
<1>2. ASSUME NEW i \in 1 .. n, i - 1 \in K PROVE i \in K
  <2> DEFINE s == f[i - 1]
             m == Len(s)
  <2>1. PICK at : Holds(at, s, i - 1)
    BY <1>2
  <2>2. s \in Seq(Nat) /\ m \in Nat /\ m <= max
    BY <1>2
  <2>3. f[i] = IF m < max /\ i \in H THEN Append(s, id[i]) ELSE s
    OBVIOUS
  <2> HIDE DEF s
  <2>4. \A k \in 1 .. m : at[k] \in H /\ at[k] \in Nat /\ at[k] < i
    <3> SUFFICES ASSUME NEW k \in 1 .. m PROVE at[k] \in H /\ at[k] \in Nat /\ at[k] < i
      OBVIOUS
    <3>1. at[k] \in H /\ at[k] <= i - 1
      BY <2>1
    <3>2. \A h \in H : h \in Nat
      OBVIOUS
    <3>3. at[k] \in Nat
      BY <3>1, <3>2
    <3> QED BY <3>1, <3>3
  <2>5. CASE m < max /\ i \in H
    <3> DEFINE t == Append(s, id[i])
               new == [k \in 1 .. m + 1 |-> IF k = m + 1 THEN i ELSE at[k]]
    <3>1. /\ t \in Seq(Nat) /\ Len(t) = m + 1 /\ t[m + 1] = id[i]
          /\ \A k \in 1 .. m : t[k] = s[k]
      BY <2>2
    <3>2. /\ new \in [1 .. m + 1 -> H] /\ new[m + 1] = i
          /\ \A k \in 1 .. m : new[k] = at[k]
      BY <2>2, <2>4, <2>5
    <3> HIDE DEF t, new, m
    <3>3. \A k \in 1 .. m + 1 : k = m + 1 \/ k \in 1 .. m
      BY <2>2
    <3>4. \A k \in 1 .. m + 1 : new[k] <= i /\ t[k] = id[new[k]]
      <4> SUFFICES ASSUME NEW k \in 1 .. m + 1 PROVE new[k] <= i /\ t[k] = id[new[k]]
        OBVIOUS
      <4>1. CASE k = m + 1
        BY <3>1, <3>2, <4>1
      <4>2. CASE k \in 1 .. m
        <5>1. s[k] = id[at[k]] /\ at[k] <= i
          BY <2>1, <2>4, <4>2 DEF m
        <5> QED BY <3>1, <3>2, <4>2, <5>1
      <4> QED BY <3>3, <4>1, <4>2
    <3>5. \A j, k \in 1 .. m + 1 : j < k => new[j] < new[k]
      <4> SUFFICES ASSUME NEW j \in 1 .. m + 1, NEW k \in 1 .. m + 1, j < k
                   PROVE  new[j] < new[k]
        OBVIOUS
      <4>1. j \in 1 .. m
        BY <2>2, <3>3
      <4>2. CASE k = m + 1
        BY <2>4, <3>2, <4>1, <4>2
      <4>3. CASE k \in 1 .. m
        BY <2>1, <3>2, <4>1, <4>3 DEF m
      <4> QED BY <3>3, <4>2, <4>3
    <3>6. ASSUME NEW h \in H, h <= i, \A k \in 1 .. m + 1 : new[k] # h PROVE FALSE
      <4>1. m + 1 \in 1 .. m + 1 /\ \A k \in 1 .. m : k \in 1 .. m + 1
        BY <2>2
      <4>2. h # i /\ \A k \in 1 .. m : at[k] # h
        BY <3>2, <3>6, <4>1
      <4>3. h <= i - 1
        BY <3>6, <4>2
      <4>4. m = max
        BY <2>1, <4>2, <4>3 DEF m
      <4> QED BY <2>2, <2>5, <4>4
    <3>7. Holds(new, t, i)
      BY <3>1, <3>2, <3>4, <3>5, <3>6
    <3>8. Len(t) <= max
      BY <2>2, <2>5, <3>1
    <3>9. Named(t, i)
      <4> HIDE DEF Holds
      <4> QED BY <3>1, <3>7, <3>8
    <3>10. f[i] = t
      BY <2>3, <2>5 DEF t
    <3> HIDE DEF Named
    <3> QED BY <3>9, <3>10
  <2>6. CASE ~ (m < max /\ i \in H)
    <3> HIDE DEF m
    <3>1. f[i] = s
      BY <2>3, <2>6
    <3>2. ASSUME NEW h \in H, h <= i, \A k \in 1 .. m : at[k] # h
          PROVE  m = max /\ \A k \in 1 .. m : at[k] < h
      <4>1. CASE h <= i - 1
        BY <2>1, <3>2, <4>1 DEF m
      <4>2. CASE h = i
        <5>1. m = max
          BY <2>2, <2>6, <4>2
        <5>2. \A k \in 1 .. m : at[k] < h
          BY <2>4, <4>2
        <5> QED BY <5>1, <5>2
      <4> QED BY <3>2, <4>1, <4>2
    <3>3. Holds(at, s, i)
      <4>1. \A k \in 1 .. m : at[k] <= i
        BY <2>4
      <4> QED BY <2>1, <3>2, <4>1 DEF m
    <3>4. Named(s, i)
      <4> HIDE DEF Holds
      <4> QED BY <2>2, <3>3 DEF m
    <3> HIDE DEF Named
    <3> QED BY <3>1, <3>4
  <2> QED BY <2>5, <2>6
<1> HIDE DEF K
<1>3. n \in K
  BY <1>1, <1>2, Reaches
<1>4. Named(f[n], n)
  BY <1>3 DEF K
<1> DEFINE s == f[n]
<1>5. PICK at : Holds(at, s, n)
  BY <1>4
<1>6. s \in Seq(Nat) /\ Len(s) <= max
  BY <1>4
<1> HIDE DEF s
<1>7. /\ at \in [1 .. Len(s) -> H]
      /\ \A k \in 1 .. Len(s) : s[k] = id[at[k]]
      /\ \A j, k \in 1 .. Len(s) : j < k => at[j] < at[k]
  BY <1>5
<1>8. \A h \in H \ {at[k] : k \in 1 .. Len(s)} :
         Len(s) = max /\ \A k \in 1 .. Len(s) : at[k] < h
  BY <1>5
<1> HIDE DEF Named, Holds
<1> QED BY <1>6, <1>7, <1>8 DEF s, FirstHits

(* A loop that collects hits until there are count of them.                *)
LEMMA FirstCollected ==
    ASSUME NEW n \in Nat, NEW H \in SUBSET (1 .. n), NEW count \in Nat,
           NEW f, f[0] = {},
           \A i \in 1 .. n : f[i] = IF Cardinality(f[i - 1]) < count /\ i \in H
                                    THEN f[i - 1] \cup {i} ELSE f[i - 1]
    PROVE  /\ f[n] \subseteq H /\ Cardinality(f[n]) <= count
           /\ f[n] # H => /\ Cardinality(f[n]) = count
                          /\ \A a \in f[n], h \in H \ f[n] : a < h
<1> DEFINE Shown(S, i) ==
             /\ S \subseteq H /\ IsFiniteSet(S) /\ Cardinality(S) <= count
             /\ \A a \in S : a <= i
             /\ \A h \in H \ S : h <= i =>
                   Cardinality(S) = count /\ \A a \in S : a < h
           K == {i \in 0 .. n : Shown(f[i], i)}
<1>0. \A h \in H : h \in Nat /\ h > 0 /\ h <= n
  OBVIOUS
<1>1. 0 \in K
  <2>1. Cardinality({}) = 0 /\ IsFiniteSet({})
    BY FS_EmptySet
  <2>2. Shown({}, 0)
    BY <1>0, <2>1
  <2> HIDE DEF Shown
  <2> QED BY <2>2
<1>2. ASSUME NEW i \in 1 .. n, i - 1 \in K PROVE i \in K
  <2> DEFINE S == f[i - 1]
             c == Cardinality(S)
  <2>1. Shown(S, i - 1)
    BY <1>2
  <2>2. f[i] = IF c < count /\ i \in H THEN S \cup {i} ELSE S
    OBVIOUS
  <2> HIDE DEF S
  <2>3. c \in Nat /\ c <= count /\ IsFiniteSet(S) /\ S \subseteq H
    BY <2>1, FS_CardinalityType
  <2>4. \A a \in S : a \in Nat /\ a < i
    BY <1>0, <2>1
  <2>5. CASE c < count /\ i \in H
    <3>1. i \notin S
      BY <2>4
    <3>2. Cardinality(S \cup {i}) = c + 1 /\ IsFiniteSet(S \cup {i})
      BY <2>3, <3>1, FS_AddElement
    <3>3. \A h \in H \ (S \cup {i}) : ~ (h <= i)
      <4> SUFFICES ASSUME NEW h \in H \ (S \cup {i}), h <= i PROVE FALSE
        OBVIOUS
      <4>1. h <= i - 1 /\ h \in H \ S
        BY <1>0
      <4>2. c = count
        BY <2>1, <4>1
      <4> QED BY <2>3, <2>5, <4>2
    <3>4. \A a \in S \cup {i} : a <= i
      BY <2>4
    <3>5. S \cup {i} \subseteq H /\ c + 1 <= count
      BY <2>3, <2>5
    <3> DEFINE T == S \cup {i}
    <3>6. Shown(T, i)
      BY <3>2, <3>3, <3>4, <3>5
    <3>7. f[i] = T
      BY <2>2, <2>5
    <3> HIDE DEF Shown, T
    <3> QED BY <3>6, <3>7
  <2>6. CASE ~ (c < count /\ i \in H)
    <3>1. f[i] = S
      BY <2>2, <2>6
    <3> HIDE DEF c
    <3>2. ASSUME NEW h \in H \ S, h <= i PROVE c = count /\ \A a \in S : a < h
      <4>1. CASE h <= i - 1
        BY <2>1, <4>1 DEF c
      <4>2. CASE h = i
        BY <2>3, <2>4, <2>6, <4>2
      <4> QED BY <1>0, <3>2, <4>1, <4>2
    <3>3. Shown(S, i)
      <4>1. \A a \in S : a <= i
        BY <2>4
      <4> QED BY <2>3, <3>2, <4>1 DEF c
    <3> HIDE DEF Shown
    <3> QED BY <3>1, <3>3
  <2> QED BY <2>5, <2>6
<1> HIDE DEF K
<1>3. n \in K
  BY <1>1, <1>2, Reaches
<1>4. Shown(f[n], n)
  BY <1>3 DEF K
<1>5. \A h \in H \ f[n] : Cardinality(f[n]) = count /\ \A a \in f[n] : a < h
  BY <1>0, <1>4
<1> QED BY <1>4, <1>5

(* Until the counter wraps, the ids since audit_init are 1, 2, 3, ...      *)
Numbered ==
    Len(accepted) + 1 < IdModulus =>
        /\ next_event_id = Len(accepted) + 1
        /\ \A k \in 1 .. Len(accepted) : accepted[k].event_id = k

LEMMA LogNumbers ==
    ASSUME IInv, Numbered, NEW type, NEW level, NEW user, NEW current,
           audit_log(type, level, user, current)
    PROVE  Numbered'
<1>1. CASE UNCHANGED <<next_event_id, accepted>>
  BY <1>1 DEF Numbered
<1>2. CASE ~ UNCHANGED <<next_event_id, accepted>>
  <2> DEFINE e == [event_id |-> next_event_id, type |-> type,
                   level |-> level, user_id |-> user]
             n == Len(accepted)
  <2>1. next_event_id' = (next_event_id + 1) % IdModulus /\ accepted' = Append(accepted, e)
    BY <1>2 DEF audit_log
  <2>2. accepted \in Seq(Event) /\ n \in Nat /\ e.event_id = next_event_id
    BY DEF IInv, TypeOK
  <2> HIDE DEF e
  <2>3. /\ Len(accepted') = n + 1 /\ accepted'[n + 1] = e
        /\ \A k \in 1 .. n : accepted'[k] = accepted[k]
    BY <2>1, <2>2
  <2> SUFFICES ASSUME (n + 1) + 1 < IdModulus
               PROVE  /\ next_event_id' = (n + 1) + 1
                      /\ \A k \in 1 .. n + 1 : accepted'[k].event_id = k
    BY <2>3 DEF Numbered
  <2>4. /\ next_event_id = n + 1
        /\ \A k \in 1 .. n : accepted[k].event_id = k
    BY <2>2, AuditAssumption DEF Numbered
  <2> HIDE DEF n
  <2>5. next_event_id' = (n + 1) + 1
    BY <2>1, <2>2, <2>4, AuditAssumption
  <2>6. \A k \in 1 .. n + 1 : k = n + 1 \/ k \in 1 .. n
    BY <2>2
  <2> QED BY <2>2, <2>3, <2>4, <2>5, <2>6
<1> QED BY <1>1, <1>2

(* The first events of a new log.                                          *)
LEMMA FewNumbered ==
    ASSUME \/ accepted' = <<>> /\ next_event_id' = 1
           \/ \E e \in Event : /\ accepted' = <<e>> /\ e.event_id = 1
                               /\ next_event_id' = 2 % IdModulus
           \/ \E e, f \in Event : /\ accepted' = <<e, f>> /\ e.event_id = 1 /\ f.event_id = 2
                                  /\ next_event_id' = 3 % IdModulus
    PROVE  Numbered'
<1>1. CASE accepted' = <<>> /\ next_event_id' = 1
  BY <1>1 DEF Numbered
<1>2. ASSUME NEW e \in Event, accepted' = <<e>>, e.event_id = 1, next_event_id' = 2 % IdModulus
      PROVE  Numbered'
  <2>1. Len(accepted') = 1 /\ accepted'[1] = e
    BY <1>2
  <2>2. 2 < IdModulus => next_event_id' = 2
    BY <1>2, AuditAssumption
  <2> QED BY <1>2, <2>1, <2>2 DEF Numbered
<1>3. ASSUME NEW e \in Event, NEW f \in Event, accepted' = <<e, f>>, e.event_id = 1,
             f.event_id = 2, next_event_id' = 3 % IdModulus
      PROVE  Numbered'
  <2>1. Len(accepted') = 2 /\ accepted'[1] = e /\ accepted'[2] = f
    BY <1>3
  <2>2. 3 < IdModulus => next_event_id' = 3
    BY <1>3, AuditAssumption
  <2> QED BY <1>3, <2>1, <2>2 DEF Numbered
<1> QED BY <1>1, <1>2, <1>3

LEMMA RestartNumbers ==
    ASSUME Numbered, audit_init \/ StartLog
    PROVE  Numbered'
<1> DEFINE boot  == [event_id |-> 1, type |-> "SYSTEM_BOOT",
                     level |-> INFO, user_id |-> 0]
           first == IF Filtered(INFO, current_level) THEN <<>> ELSE <<boot>>
           start == [event_id |-> 1 + Len(first), type |-> "MISTYPED",
                     level |-> ERROR, user_id |-> 0]
           both  == IF Filtered(ERROR, current_level) THEN first
                    ELSE Append(first, start)
<1>1. CASE UNCHANGED <<next_event_id, accepted>>
  BY <1>1 DEF Numbered
<1>2. CASE accepted' = first /\ next_event_id' = 1 + Len(first)
  <2>1. boot \in Event /\ boot.event_id = 1 /\ (first = <<>> \/ first = <<boot>>)
    BY AuditAssumption DEF Event, Levels, INFO, NONE, VERBOSE
  <2> HIDE DEF boot, first
  <2>2. CASE first = <<>>
    BY <1>2, <2>2, FewNumbered
  <2>3. CASE first = <<boot>>
    <3>1. next_event_id' = 2 % IdModulus
      BY <1>2, <2>3, AuditAssumption
    <3> QED BY <1>2, <2>1, <2>3, <3>1, FewNumbered
  <2> QED BY <2>1, <2>2, <2>3
<1>3. CASE accepted' = both /\ next_event_id' = (1 + Len(both)) % IdModulus
  <2>1. boot \in Event /\ boot.event_id = 1 /\ (first = <<>> \/ first = <<boot>>)
    BY AuditAssumption DEF Event, Levels, INFO, NONE, VERBOSE
  <2>2. both = first \/ both = Append(first, start)
    OBVIOUS
  <2>3. start.event_id = 1 + Len(first)
    OBVIOUS
  <2>4. 1 + Len(first) \in 0 .. IdModulus - 1 => start \in Event
    BY AuditAssumption, SecurityAssumption DEF Event, Levels, ERROR, NONE, VERBOSE
  <2> HIDE DEF boot, first, start, both
  <2>5. CASE first = <<>>
    <3>1. start \in Event /\ start.event_id = 1
      BY <2>3, <2>4, <2>5, AuditAssumption
    <3>2. both = <<>> \/ both = <<start>>
      BY <2>2, <2>5, <3>1
    <3>3. CASE both = <<>>
      <4>1. next_event_id' = 1
        BY <1>3, <3>3, AuditAssumption
      <4> QED BY <1>3, <3>3, <4>1, FewNumbered
    <3>4. CASE both = <<start>>
      BY <1>3, <3>1, <3>4, FewNumbered
    <3> QED BY <3>2, <3>3, <3>4
  <2>6. CASE first = <<boot>>
    <3>0. Len(first) = 1
      BY <2>6
    <3>1. start \in Event /\ start.event_id = 2
      BY <2>3, <2>4, <3>0, AuditAssumption
    <3>2. CASE both = first
      BY <1>3, <2>1, <2>6, <3>2, FewNumbered
    <3>3. CASE both = Append(first, start)
      <4>1. both = <<boot, start>>
        BY <2>1, <2>6, <3>1, <3>3, AppendTwo
      <4> QED BY <1>3, <2>1, <3>1, <4>1, FewNumbered
    <3> QED BY <2>2, <3>2, <3>3
  <2> QED BY <2>1, <2>5, <2>6
<1>4. audit_init => \/ UNCHANGED <<next_event_id, accepted>>
                    \/ accepted' = first /\ next_event_id' = 1 + Len(first)
  BY DEF audit_init
<1>5. StartLog => \/ UNCHANGED <<next_event_id, accepted>>
                  \/ accepted' = both /\ next_event_id' = (1 + Len(both)) % IdModulus
  BY DEF StartLog
<1> HIDE DEF boot, first, start, both
<1> QED BY <1>1, <1>2, <1>3, <1>4, <1>5

LEMMA StepsNumber ==
    ASSUME IInv, Numbered, [SecNext]_allVars
    PROVE  Numbered'
<1>1. CASE UNCHANGED vars
  BY <1>1 DEF vars, Numbered
<1>2. CASE audit_init \/ StartLog
  BY <1>2, RestartNumbers
<1>3. ASSUME NEW type, NEW level, NEW user, NEW current, audit_log(type, level, user, current)
      PROVE  Numbered'
  BY <1>3, LogNumbers
<1>4. CASE Next
  <2>1. CASE Log \/ SetLevel
    BY <1>3, <2>1 DEF Log, SetLevel, audit_set_level
  <2> QED BY <1>2, <1>4, <2>1 DEF Next
<1>5. CASE security_init
  BY <1>1, <1>2, <1>5 DEF security_init
<1>6. ASSUME NEW level \in 0 .. MaxLevel, security_set_level(level)
      PROVE  Numbered'
  <2>1. CASE UNCHANGED <<log, next_event_id, accepted>>
    BY <2>1 DEF Numbered
  <2> QED BY <1>3, <1>6, <2>1 DEF security_set_level
<1> QED
  BY <1>1, <1>4, <1>5, <1>6 DEF SecNext, security_add_firewall_rule, network_init, allVars

(* Then the ids grow along the log.                                        *)
LEMMA IdsGrow ==
    ASSUME IInv, Numbered, Len(accepted) + 1 < IdModulus
    PROVE  \A i, j \in 1 .. Len(log) : i < j => log[i].event_id < log[j].event_id
<1> DEFINE n == Len(log)
           m == Len(accepted)
<1>1. /\ n \in Nat /\ m \in Nat /\ n <= m
      /\ \A i \in 1 .. n : log[i] = accepted[m - n + i]
  <2>1. n \in Nat /\ m \in Nat
    BY DEF IInv, TypeOK
  <2>2. /\ n = IF m < MaxLogs THEN m ELSE MaxLogs
        /\ \A i \in 1 .. n : log[i] = accepted[m - n + i]
    BY DEF IInv, Latest
  <2> HIDE DEF n, m
  <2>3. n <= m
    BY <2>1, <2>2, AuditAssumption
  <2> QED BY <2>1, <2>2, <2>3
<1>2. \A k \in 1 .. m : accepted[k].event_id = k
  BY DEF Numbered
<1> HIDE DEF n, m
<1>3. \A i \in 1 .. n : log[i].event_id = m - n + i
  <2> SUFFICES ASSUME NEW i \in 1 .. n PROVE log[i].event_id = m - n + i
    OBVIOUS
  <2>1. m - n + i \in 1 .. m
    BY <1>1
  <2> QED BY <1>1, <1>2, <2>1
<1>4. \A i, j \in 1 .. n : i < j => m - n + i < m - n + j
  BY <1>1
<1> QED BY <1>3, <1>4 DEF n

(* The loops of audit_find_events and audit_view_logs.                     *)
FindLoop(f, l, type, user, max) ==
    f = [i \in 0 .. Len(l) |->
           IF i = 0 THEN <<>>
           ELSE IF Len(f[i - 1]) < max /\ Matches(l[i], type, user)
                THEN Append(f[i - 1], l[i].event_id)
                ELSE f[i - 1]]

ViewLoop(f, l, start, count) ==
    f = [i \in 0 .. Len(l) |->
           IF i = 0 THEN {}
           ELSE IF Cardinality(f[i - 1]) < count /\ ~ l[i].event_id < start
                THEN f[i - 1] \union {i}
                ELSE f[i - 1]]

LEMMA EventIds == \A e \in Event : e.event_id \in Nat /\ e.event_id < IdModulus
  BY AuditAssumption DEF Event

LEMMA FindRuns ==
    ASSUME NEW l \in Seq(Event), NEW type, NEW user, NEW max \in Nat
    PROVE  \E f : /\ FindLoop(f, l, type, user, max)
                  /\ audit_find_events(l, type, user, max) = f[Len(l)]
<1> DEFINE n == Len(l)
           turn == [i \in 1 .. n |-> [s \in Seq(Nat) |->
                      IF Len(s) < max /\ Matches(l[i], type, user)
                      THEN Append(s, l[i].event_id) ELSE s]]
<1>1. n \in Nat /\ \A i \in 1 .. n : l[i].event_id \in Nat
  <2>1. n \in Nat /\ \A i \in 1 .. n : l[i] \in Event
    OBVIOUS
  <2> HIDE DEF n, turn
  <2> QED BY <2>1, EventIds
<1>2. turn \in [1 .. n -> [Seq(Nat) -> Seq(Nat)]]
  BY <1>1
<1>3. <<>> \in Seq(Nat)
  OBVIOUS
<1>4. \A i \in 1 .. n, s \in Seq(Nat) :
         turn[i][s] = IF Len(s) < max /\ Matches(l[i], type, user)
                      THEN Append(s, l[i].event_id) ELSE s
  OBVIOUS
<1> HIDE DEF turn, n
<1>5. PICK g \in [0 .. n -> Seq(Nat)] :
         g[0] = <<>> /\ \A i \in 1 .. n : g[i] = turn[i][g[i - 1]]
  <2>1. \E g : RunOf(g, Seq(Nat), <<>>, turn, n)
    BY <1>1, <1>2, <1>3, LoopRuns
  <2> QED BY <2>1 DEF RunOf
<1>6. \A i \in 0 .. n :
         g[i] = IF i = 0 THEN <<>>
                ELSE IF Len(g[i - 1]) < max /\ Matches(l[i], type, user)
                     THEN Append(g[i - 1], l[i].event_id)
                     ELSE g[i - 1]
  <2> TAKE i \in 0 .. n
  <2>1. CASE i = 0
    BY <1>5, <2>1
  <2>2. CASE i # 0
    <3>1. i \in 1 .. n /\ g[i - 1] \in Seq(Nat)
      BY <1>1, <2>2
    <3> QED BY <1>4, <1>5, <2>2, <3>1
  <2> QED BY <2>1, <2>2
<1>7. g = [i \in 0 .. n |-> g[i]]
  OBVIOUS
<1>8. FindLoop(g, l, type, user, max)
  BY <1>6, <1>7, Zenon DEF FindLoop, n
<1> QED BY <1>8, Zenon DEF audit_find_events, FindLoop

LEMMA ViewRuns ==
    ASSUME NEW l \in Seq(Event), NEW start \in Nat, NEW count \in Nat
    PROVE  \E f : /\ ViewLoop(f, l, start, count)
                  /\ audit_view_logs(l, start, count) = {l[i].event_id : i \in f[Len(l)]}
<1> DEFINE n == Len(l)
           turn == [i \in 1 .. n |-> [S \in SUBSET (1 .. n) |->
                      IF Cardinality(S) < count /\ ~ l[i].event_id < start
                      THEN S \union {i} ELSE S]]
<1>1. n \in Nat
  OBVIOUS
<1>2. turn \in [1 .. n -> [SUBSET (1 .. n) -> SUBSET (1 .. n)]]
  OBVIOUS
<1>3. {} \in SUBSET (1 .. n)
  OBVIOUS
<1>4. \A i \in 1 .. n, S \in SUBSET (1 .. n) :
         turn[i][S] = IF Cardinality(S) < count /\ ~ l[i].event_id < start
                      THEN S \union {i} ELSE S
  OBVIOUS
<1> HIDE DEF turn, n
<1>5. PICK g \in [0 .. n -> SUBSET (1 .. n)] :
         g[0] = {} /\ \A i \in 1 .. n : g[i] = turn[i][g[i - 1]]
  <2>1. \E g : RunOf(g, SUBSET (1 .. n), {}, turn, n)
    BY <1>1, <1>2, <1>3, LoopRuns
  <2> QED BY <2>1 DEF RunOf
<1>6. \A i \in 0 .. n :
         g[i] = IF i = 0 THEN {}
                ELSE IF Cardinality(g[i - 1]) < count /\ ~ l[i].event_id < start
                     THEN g[i - 1] \union {i}
                     ELSE g[i - 1]
  <2> TAKE i \in 0 .. n
  <2>1. CASE i = 0
    BY <1>5, <2>1
  <2>2. CASE i # 0
    <3>1. i \in 1 .. n /\ g[i - 1] \in SUBSET (1 .. n)
      BY <1>1, <2>2
    <3> QED BY <1>4, <1>5, <2>2, <3>1
  <2> QED BY <2>1, <2>2
<1>7. g = [i \in 0 .. n |-> g[i]]
  OBVIOUS
<1>8. ViewLoop(g, l, start, count)
  BY <1>6, <1>7, Zenon DEF ViewLoop, n
<1> QED BY <1>8, Zenon DEF audit_view_logs, ViewLoop
(* Growing ids are as many as the events that carry them.                  *)
LEMMA SameSize ==
    ASSUME NEW n \in Nat, NEW S \in SUBSET (1 .. n), NEW id \in [1 .. n -> Nat],
           \A i, j \in 1 .. n : i < j => id[i] < id[j]
    PROVE  /\ IsFiniteSet(S) /\ IsFiniteSet({id[i] : i \in S})
           /\ Cardinality({id[i] : i \in S}) = Cardinality(S)
<1> DEFINE T == {id[i] : i \in S}
           g == [i \in S |-> id[i]]
<1>1. IsFiniteSet(S)
  <2>1. IsFiniteSet(1 .. n)
    BY FS_Interval
  <2> QED BY <2>1, FS_Subset
<1>2. g \in [S -> T] /\ (\A t \in T : \E i \in S : g[i] = t) /\ \A i \in S : g[i] = id[i]
  OBVIOUS
<1>3. \A i, j \in S : g[i] = g[j] => i = j
  <2> SUFFICES ASSUME NEW i \in S, NEW j \in S, id[i] = id[j], i # j PROVE FALSE
    OBVIOUS
  <2>1. i \in 1 .. n /\ j \in 1 .. n /\ id[i] \in Nat /\ id[j] \in Nat
    OBVIOUS
  <2>2. i < j \/ j < i
    BY <2>1
  <2> QED BY <2>1, <2>2
<1> HIDE DEF g, T
<1>4. g \in Bijection(S, T)
  <2>1. g \in Injection(S, T)
    BY <1>2, <1>3, Zenon DEF Injection, IsInjective
  <2>2. g \in Surjection(S, T)
    BY <1>2, Zenon DEF Surjection
  <2> QED BY <2>1, <2>2 DEF Bijection
<1>5. ExistsBijection(S, T)
  BY <1>4 DEF ExistsBijection
<1> QED BY <1>1, <1>5, FS_Bijection DEF T

LEMMA FoundHolds ==
    ASSUME IInv, NEW type, NEW user, NEW max \in Nat
    PROVE  FoundExact(type, user, max)
<1> DEFINE n == Len(log)
           H == {i \in 1 .. n : Matches(log[i], type, user)}
           id == [i \in 1 .. n |-> log[i].event_id]
           found == audit_find_events(log, type, user, max)
<1>1. log \in Seq(Event) /\ n \in Nat
  BY DEF IInv, TypeOK
<1>2. PICK f : FindLoop(f, log, type, user, max) /\ found = f[n]
  BY <1>1, FindRuns
<1>3. id \in [1 .. n -> Nat]
  <2>1. \A i \in 1 .. n : log[i] \in Event
    BY <1>1
  <2> QED BY <2>1, EventIds
<1>4. H \in SUBSET (1 .. n) /\ \A i \in 1 .. n : id[i] = log[i].event_id
  OBVIOUS
<1>5. f[0] = <<>>
  BY <1>1, <1>2 DEF FindLoop
<1>6. \A i \in 1 .. n : f[i] = IF Len(f[i - 1]) < max /\ i \in H
                               THEN Append(f[i - 1], id[i]) ELSE f[i - 1]
  <2> TAKE i \in 1 .. n
  <2>1. i \in 0 .. n /\ i # 0
    BY <1>1
  <2>2. f[i] = IF Len(f[i - 1]) < max /\ Matches(log[i], type, user)
               THEN Append(f[i - 1], log[i].event_id) ELSE f[i - 1]
    BY <1>2, <2>1 DEF FindLoop
  <2> QED BY <2>2
<1> HIDE DEF id, found
<1>7. FirstHits(found, H, id, max)
  <2> HIDE DEF H, n
  <2>1. FirstHits(f[n], H, id, max)
    BY <1>1, <1>3, <1>4, <1>5, <1>6, FirstAppended
  <2> QED BY <1>2, <2>1
<1>8. PICK at \in [1 .. Len(found) -> H] :
         /\ \A k \in 1 .. Len(found) : found[k] = id[at[k]]
         /\ \A j, k \in 1 .. Len(found) : j < k => at[j] < at[k]
         /\ \A h \in H \ {at[k] : k \in 1 .. Len(found)} :
               Len(found) = max /\ \A k \in 1 .. Len(found) : at[k] < h
  BY <1>7 DEF FirstHits
<1>9. \A k \in 1 .. Len(found) : found[k] = log[at[k]].event_id
  <2> TAKE k \in 1 .. Len(found)
  <2>1. at[k] \in 1 .. n
    OBVIOUS
  <2> QED BY <1>4, <1>8, <2>1
<1> QED BY <1>7, <1>8, <1>9 DEF FoundExact, FirstHits, found

LEMMA ShownHolds ==
    ASSUME IInv, Numbered, Len(accepted) + 1 < IdModulus,
           NEW start \in Nat, NEW count \in Nat
    PROVE  ShownExact(start, count)
<1> DEFINE n == Len(log)
           H == {i \in 1 .. n : log[i].event_id >= start}
           id == [i \in 1 .. n |-> log[i].event_id]
           shown == audit_view_logs(log, start, count)
           from == {id[i] : i \in H}
<1>1. log \in Seq(Event) /\ n \in Nat
  BY DEF IInv, TypeOK
<1>2. PICK f : ViewLoop(f, log, start, count) /\ shown = {log[i].event_id : i \in f[n]}
  BY <1>1, ViewRuns
<1>3. id \in [1 .. n -> Nat]
  <2>1. \A i \in 1 .. n : log[i] \in Event
    BY <1>1
  <2> QED BY <2>1, EventIds
<1>4. /\ H \in SUBSET (1 .. n) /\ \A i \in 1 .. n : id[i] = log[i].event_id
      /\ \A i \in 1 .. n : i \in H <=> ~ log[i].event_id < start
  <2>1. \A i \in 1 .. n : log[i].event_id \in Nat
    BY <1>3
  <2> QED BY <2>1
<1>5. f[0] = {}
  BY <1>1, <1>2 DEF ViewLoop
<1>6. \A i \in 1 .. n : f[i] = IF Cardinality(f[i - 1]) < count /\ i \in H
                               THEN f[i - 1] \cup {i} ELSE f[i - 1]
  <2> TAKE i \in 1 .. n
  <2>1. i \in 0 .. n /\ i # 0
    BY <1>1
  <2>2. f[i] = IF Cardinality(f[i - 1]) < count /\ ~ log[i].event_id < start
               THEN f[i - 1] \union {i} ELSE f[i - 1]
    BY <1>2, <2>1 DEF ViewLoop
  <2> QED BY <1>4, <2>2
<1>7. \A i, j \in 1 .. n : i < j => id[i] < id[j]
  BY <1>4, IdsGrow
<1> DEFINE S == f[n]
<1>8. /\ S \subseteq H /\ Cardinality(S) <= count
      /\ S # H => Cardinality(S) = count /\ \A a \in S, h \in H \ S : a < h
  <2> HIDE DEF H, n, id
  <2> QED BY <1>1, <1>4, <1>5, <1>6, FirstCollected
<1>9. shown = {id[i] : i \in S}
  BY <1>2, <1>4, <1>8
<1>10. from = {log[i].event_id : i \in {j \in 1 .. Len(log) : log[j].event_id >= start}}
  BY <1>4
<1> HIDE DEF id, S, H, shown, n
<1>11. S \in SUBSET (1 .. n)
  BY <1>4, <1>8
<1>12. /\ Cardinality(shown) = Cardinality(S) /\ Cardinality(from) = Cardinality(H)
       /\ IsFiniteSet(S) /\ IsFiniteSet(H)
  BY <1>1, <1>3, <1>4, <1>7, <1>9, <1>11, SameSize
<1>13. /\ Cardinality(S) \in Nat /\ Cardinality(H) \in Nat
       /\ Cardinality(S) <= Cardinality(H)
       /\ Cardinality(S) = Cardinality(H) => S = H
  BY <1>8, <1>12, FS_CardinalityType, FS_Subset
<1>14. shown \subseteq from
  BY <1>8, <1>9
<1>15. Cardinality(shown) = IF Cardinality(from) < count THEN Cardinality(from) ELSE count
  BY <1>8, <1>12, <1>13
<1>16. ASSUME NEW a \in shown, NEW b \in from \ shown PROVE a < b
  <2>1. PICK i \in S : a = id[i]
    BY <1>9
  <2>2. PICK j \in H : b = id[j]
    OBVIOUS
  <2>3. j \notin S
    BY <1>9, <2>2
  <2>4. i < j /\ i \in 1 .. n /\ j \in 1 .. n
    BY <1>4, <1>8, <2>3
  <2> QED BY <1>7, <2>1, <2>2, <2>4
<1> HIDE DEF from
<1> QED BY <1>10, <1>14, <1>15, <1>16 DEF ShownExact, shown

LEMMA NumberedAlways == SecSpec => []Numbered
<1>1. SecInit => Numbered
  BY DEF SecInit, Init, Numbered
<1>2. (IInv /\ FwType) /\ Numbered /\ [SecNext]_allVars => Numbered'
  BY StepsNumber
<1> QED
  BY <1>1, <1>2, Invariance, PTL DEF SecSpec

(* In every reachable state audit_find_events returns the first max of the *)
(* matching events, in log order, and audit_view_logs, until the id        *)
(* counter wraps, the count smallest ids from start on (audit.c:108-171).  *)
THEOREM QueriesExactAlways == SecSpec => []QueriesExact
<1>1. IInv /\ FwType /\ Numbered => QueriesExact
  <2> SUFFICES ASSUME IInv, Numbered, NEW max \in 0 .. MaxLogs + 1
               PROVE  /\ \A type \in Types \union {"ANY"}, user \in Users :
                            FoundExact(type, user, max)
                      /\ Len(accepted) + 1 < IdModulus =>
                            \A start \in 0 .. IdModulus - 1 : ShownExact(start, max)
    BY DEF QueriesExact
  <2>1. max \in Nat /\ \A start \in 0 .. IdModulus - 1 : start \in Nat
    BY AuditAssumption
  <2> QED BY <2>1, FoundHolds, ShownHolds
<1> QED
  BY <1>1, Invariance, NumberedAlways, PTL

-----------------------------------------------------------------------------
(***************************************************************************)
(* The key store.                                                          *)
(***************************************************************************)
Filled == 0 .. key_count - 1

(* The store: the keys it had room for, no key twice.                      *)
StoreInv ==
    /\ KeysTypeOK
    /\ \A s \in Filled : key_store[s] \in entered
    /\ \A h \in entered : \E s \in Filled : key_store[s] = h
    /\ \A s, t \in Filled : key_store[s] = key_store[t] => s = t
    /\ \A s \in Slot \ Filled : key_store[s] = NULL

(* What crypto_generate_key makes of a key, and what create_context lets   *)
(* a context refer to.                                                     *)
KeysFit ==
    /\ \A g \in Issued :
          /\ key[g].length \in Nat
          /\ key[g].key_data \in [0 .. key[g].length - 1 -> 0 .. ByteMod - 1]
          /\ key[g].type = "XOR" => key[g].length >= MinXor
          /\ key[g].type = "CAESAR" => key[g].length = 1
    /\ \A ctx \in contexts : key[ctx.key].type = ctx.algorithm

LEMMA Handles ==
    ASSUME KeysTypeOK
    PROVE  /\ Cardinality(Issued) \in Nat /\ MAX_CRYPTO_KEYS \in Nat
           /\ key_count \in Nat /\ key_count <= MAX_CRYPTO_KEYS
           /\ Issued = 1 .. Cardinality(Issued)
           /\ \A n \in Nat : Cardinality(1 .. n) = n
           /\ Filled \subseteq Slot /\ NULL \notin Issued
<1>1. IsFiniteSet(Handle)
  BY KeyStoreAssumption, FS_Interval DEF Handle
<1>2. IsFiniteSet(Issued)
  BY <1>1, FS_Subset DEF KeysTypeOK
<1>3. Cardinality(Issued) \in Nat
  BY <1>2, FS_CardinalityType
<1>4. \A n \in Nat : Cardinality(1 .. n) = n
  BY FS_Interval
<1>5. Issued = 1 .. Cardinality(Issued) /\ key_count \in 0 .. MAX_CRYPTO_KEYS
  BY DEF KeysTypeOK
<1>6. NULL \notin Issued
  BY <1>3, <1>5 DEF NULL
<1> QED BY <1>3, <1>4, <1>5, <1>6, KeyStoreAssumption DEF Filled, Slot

LEMMA StoreHolds ==
    ASSUME StoreInv
    PROVE  StoreExact
<1>0. KeysTypeOK
  BY DEF StoreInv
<1> DEFINE g == [s \in Filled |-> key_store[s]]
<1>1. g \in [Filled -> entered] /\ \A s \in Filled : g[s] = key_store[s]
  BY DEF StoreInv
<1> HIDE DEF g
<1>2. g \in Injection(Filled, entered)
  <2>1. \A s, t \in Filled : g[s] = g[t] => s = t
    BY <1>1 DEF StoreInv
  <2> QED BY <1>1, <2>1 DEF Injection, IsInjective
<1>3. g \in Surjection(Filled, entered)
  <2>1. \A h \in entered : \E s \in Filled : g[s] = h
    BY <1>1 DEF StoreInv
  <2> QED BY <1>1, <2>1 DEF Surjection
<1>4. ExistsBijection(Filled, entered)
  BY <1>2, <1>3 DEF Bijection, ExistsBijection
<1>5. IsFiniteSet(Filled) /\ Cardinality(Filled) = key_count
  <2>1. key_count \in Nat /\ 0 \in Int /\ key_count - 1 \in Int
    BY <1>0, Handles
  <2>2. IsFiniteSet(0 .. key_count - 1)
    BY <2>1, FS_Interval
  <2>3. Cardinality(0 .. key_count - 1) = IF 0 > key_count - 1 THEN 0 ELSE (key_count - 1) - 0 + 1
    BY <2>1, FS_Interval
  <2> QED BY <2>1, <2>2, <2>3 DEF Filled
<1>6. Cardinality(entered) = key_count
  BY <1>4, <1>5, FS_Bijection
<1>7. {key_store[s] : s \in 0 .. key_count - 1} = entered
  BY DEF StoreInv, Filled
<1>8. \A s \in Slot : s >= key_count => key_store[s] = NULL
  <2>1. \A s \in Slot : s >= key_count => s \notin Filled
    BY <1>0, Handles DEF Slot, Filled
  <2> QED BY <2>1 DEF StoreInv
<1> QED BY <1>0, <1>6, <1>7, <1>8 DEF StoreExact

LEMMA EnterKeeps ==
    ASSUME StoreInv, NEW h \in Handle, h \notin Issued, Enter(h),
           Issued' = Issued \cup {h}, live' = live \cup {h},
           KeysTypeOK'
    PROVE  StoreInv'
<1>1. CASE UNCHANGED <<key_store, key_count, entered>>
  BY <1>1 DEF StoreInv, Filled
<1>2. CASE /\ key_count < MAX_CRYPTO_KEYS
           /\ key_store' = [key_store EXCEPT ![key_count] = h]
           /\ key_count' = key_count + 1
           /\ entered' = entered \cup {h}
  <2>1. key_count \in Slot /\ key_count \notin Filled /\ Filled \subseteq Slot
    BY <1>2, Handles DEF StoreInv, Slot, Filled
  <2>2. Filled' = Filled \cup {key_count}
    BY <1>2, Handles DEF StoreInv, Filled
  <2>3. /\ key_store'[key_count] = h
        /\ \A s \in Slot \ {key_count} : key_store'[s] = key_store[s]
    BY <1>2, <2>1 DEF StoreInv, KeysTypeOK
  <2>4. \A s \in Filled : key_store[s] # h /\ key_store'[s] = key_store[s]
    BY <2>1, <2>3 DEF StoreInv, KeysTypeOK
  <2> QED BY <1>2, <2>1, <2>2, <2>3, <2>4 DEF StoreInv
<1> QED BY <1>1, <1>2 DEF Enter

LEMMA DestroyKeeps ==
    ASSUME StoreInv, NEW h \in Handle, crypto_destroy_key(h)
    PROVE  StoreInv'
<1>0. KeysTypeOK /\ UNCHANGED <<next_key_id, key, contexts>>
  BY DEF StoreInv, crypto_destroy_key
<1>1. /\ h \in live /\ live' = live \ {h} /\ entered' = entered \ {h}
      /\ live' \subseteq Issued /\ entered' \subseteq live'
  BY <1>0 DEF crypto_destroy_key, KeysTypeOK
<1>2. CASE /\ \A i \in 0 .. key_count - 1 : key_store[i] # h
           /\ UNCHANGED <<key_store, key_count>>
  <2>1. entered' = entered
    BY <1>1, <1>2 DEF StoreInv, Filled
  <2>2. KeysTypeOK'
    BY <1>0, <1>1, <1>2 DEF KeysTypeOK, Issued
  <2> QED BY <1>2, <2>1, <2>2 DEF StoreInv, Filled
<1>3. ASSUME NEW i \in Filled, key_store[i] = h,
             key_store' = [key_store EXCEPT ![i] = key_store[key_count - 1],
                                            ![key_count - 1] = NULL],
             key_count' = key_count - 1
      PROVE  StoreInv'
  <2> DEFINE last == key_count - 1
  <2>1. last \in Filled /\ Filled' = Filled \ {last} /\ Filled \subseteq Slot
    BY <1>0, <1>3, Handles DEF Filled
  <2>2. /\ key_store'[last] = NULL
        /\ i # last => key_store'[i] = key_store[last]
        /\ \A s \in Slot \ {i, last} : key_store'[s] = key_store[s]
    BY <1>3, <2>1 DEF StoreInv, KeysTypeOK
  <2>3. KeysTypeOK'
    <3>1. key_count' \in 0 .. MAX_CRYPTO_KEYS
      BY <1>0, <1>3, <2>1, Handles DEF Filled
    <3>2. key_store' \in [Slot -> Handle \cup {NULL}]
      BY <1>3, <2>1 DEF StoreInv, KeysTypeOK
    <3> QED BY <1>0, <1>1, <3>1, <3>2 DEF KeysTypeOK, Issued
  <2> HIDE DEF last
  <2>4. ASSUME NEW s \in Filled'
        PROVE  /\ s \in Filled /\ s # last
               /\ key_store'[s] = IF s = i THEN key_store[last] ELSE key_store[s]
    BY <2>1, <2>2
  <2>5. \A s \in Filled' : key_store'[s] \in entered'
    <3> SUFFICES ASSUME NEW s \in Filled' PROVE key_store'[s] \in entered \ {h}
      BY <1>1
    <3>1. CASE s = i
      <4>1. key_store[last] # h
        BY <1>3, <2>1, <2>4, <3>1 DEF StoreInv
      <4> QED BY <2>1, <2>4, <3>1, <4>1 DEF StoreInv
    <3>2. CASE s # i
      <4>1. key_store[s] # h
        BY <1>3, <2>4, <3>2 DEF StoreInv
      <4> QED BY <2>4, <3>2, <4>1 DEF StoreInv
    <3> QED BY <3>1, <3>2
  <2>6. ASSUME NEW e \in entered' PROVE \E s \in Filled' : key_store'[s] = e
    <3>1. e \in entered /\ e # h
      BY <1>1
    <3>2. PICK s \in Filled : key_store[s] = e
      BY <3>1 DEF StoreInv
    <3>3. s # i
      BY <1>3, <3>1, <3>2
    <3>4. CASE s = last
      <4>1. i \in Filled' /\ key_store'[i] = e
        BY <2>1, <2>2, <3>2, <3>3, <3>4
      <4> QED BY <4>1
    <3>5. CASE s # last
      BY <2>1, <2>2, <3>2, <3>3, <3>5
    <3> QED BY <3>4, <3>5
  <2>7. \A s, t \in Filled' : key_store'[s] = key_store'[t] => s = t
    BY <2>1, <2>4 DEF StoreInv
  <2>8. \A s \in Slot \ Filled' : key_store'[s] = NULL
    BY <1>3, <2>1, <2>2 DEF StoreInv
  <2> QED BY <2>3, <2>5, <2>6, <2>7, <2>8 DEF StoreInv
<1> QED BY <1>2, <1>3 DEF crypto_destroy_key, Filled
LEMMA GenerateTypes ==
    ASSUME StoreInv, NEW a \in Algorithms, NEW n \in Requests,
           crypto_generate_key(a, n)
    PROVE  /\ KeysTypeOK'
           /\ \E h \in Handle : /\ h \notin Issued /\ Enter(h)
                                /\ Issued' = Issued \cup {h}
                                /\ live' = live \cup {h}
<1> DEFINE h == Cardinality(Issued) + 1
<1>1. /\ h <= MaxIssued /\ live' = live \cup {h} /\ Enter(h) /\ UNCHANGED contexts
      /\ next_key_id' = (next_key_id + 1) % IdMod
      /\ Issued' = Issued \cup {h}
  BY DEF crypto_generate_key, Issued
<1>2. KeysTypeOK
  BY DEF StoreInv
<1>3. /\ Cardinality(Issued) \in Nat /\ Issued = 1 .. Cardinality(Issued)
      /\ \A m \in Nat : Cardinality(1 .. m) = m
  BY <1>2, Handles
<1>4. h \in Handle /\ h \notin Issued /\ Issued \cup {h} = 1 .. h
  BY <1>1, <1>3, KeyStoreAssumption DEF Handle
<1>5. Issued' = 1 .. Cardinality(Issued')
  <2>1. Issued' = 1 .. h /\ h \in Nat
    BY <1>1, <1>3, <1>4
  <2> HIDE DEF h
  <2>2. Cardinality(1 .. h) = h
    BY <1>3, <2>1
  <2> QED BY <2>1, <2>2
<1> HIDE DEF h
<1>6. Issued' \subseteq Handle
  BY <1>1, <1>2, <1>4 DEF KeysTypeOK
<1>7. next_key_id' \in 0 .. IdMod - 1
  BY <1>1, <1>2, KeyStoreAssumption DEF KeysTypeOK
<1>8. key_store' \in [Slot -> Handle \cup {NULL}] /\ key_count' \in 0 .. MAX_CRYPTO_KEYS
  BY <1>1, <1>2, <1>4, KeyStoreAssumption, Handles DEF KeysTypeOK, Enter
<1>9. contexts' \subseteq [algorithm : Algorithms, key : Issued']
  BY <1>1, <1>2 DEF KeysTypeOK
<1>10. live' \subseteq Issued' /\ entered' \subseteq live'
  BY <1>1, <1>2 DEF KeysTypeOK, Enter
<1>11. KeysTypeOK'
  BY <1>5, <1>6, <1>7, <1>8, <1>9, <1>10 DEF KeysTypeOK
<1> QED BY <1>1, <1>4, <1>11

(* The store's invariant holds of every reachable state.                   *)
LEMMA StoreInvAlways == KeysSpec => []StoreInv
<1>1. KeysInit => StoreInv
  <2> SUFFICES ASSUME KeysInit PROVE StoreInv
    OBVIOUS
  <2>1. Issued = {} /\ 1 .. 0 = {} /\ Cardinality(Issued) = 0
    BY FS_EmptySet DEF KeysInit, Issued
  <2>2. Filled = {}
    BY DEF KeysInit, Filled
  <2>3. next_key_id \in 0 .. IdMod - 1
    BY KeyStoreAssumption DEF KeysInit
  <2>4. KeysTypeOK
    BY <2>1, <2>3, KeyStoreAssumption DEF KeysInit, KeysTypeOK, NULL
  <2> QED BY <2>2, <2>4 DEF KeysInit, StoreInv
<1>2. StoreInv /\ [KeysNext]_keyVars => StoreInv'
  <2> SUFFICES ASSUME StoreInv, [KeysNext]_keyVars PROVE StoreInv'
    OBVIOUS
  <2>1. CASE crypto_init
    <3>1. KeysTypeOK
      BY DEF StoreInv
    <3>2. KeysTypeOK'
      BY <2>1, <3>1, KeyStoreAssumption DEF crypto_init, KeysTypeOK, Issued, NULL
    <3>3. Filled' = {}
      BY <2>1 DEF crypto_init, Filled
    <3> QED BY <2>1, <3>2, <3>3 DEF crypto_init, StoreInv
  <2>2. ASSUME NEW a \in Algorithms, NEW n \in Requests, crypto_generate_key(a, n)
        PROVE  StoreInv'
    <3>1. KeysTypeOK'
      BY <2>2, GenerateTypes
    <3>2. PICK h \in Handle : /\ h \notin Issued /\ Enter(h)
                              /\ Issued' = Issued \cup {h} /\ live' = live \cup {h}
      BY <2>2, GenerateTypes
    <3> QED BY <3>1, <3>2, EnterKeeps
  <2>3. ASSUME NEW h \in Handle, crypto_destroy_key(h) PROVE StoreInv'
    BY <2>3, DestroyKeeps
  <2>4. ASSUME NEW a \in Algorithms, NEW h \in Handle, crypto_create_context(a, h)
        PROVE  StoreInv'
    <3>1. KeysTypeOK
      BY DEF StoreInv
    <3>2. [algorithm |-> a, key |-> h] \in [algorithm : Algorithms, key : Issued]
      BY <2>4, <3>1 DEF crypto_create_context, KeysTypeOK
    <3>3. KeysTypeOK'
      BY <2>4, <3>1, <3>2 DEF crypto_create_context, KeysTypeOK, Issued, store
    <3> QED BY <2>4, <3>3 DEF crypto_create_context, StoreInv, Filled, store
  <2>5. ASSUME NEW ctx \in contexts, crypto_destroy_context(ctx) PROVE StoreInv'
    <3>1. KeysTypeOK'
      BY <2>5 DEF StoreInv, crypto_destroy_context, KeysTypeOK, Issued, store
    <3> QED BY <2>5, <3>1 DEF crypto_destroy_context, StoreInv, Filled, store
  <2>6. CASE UNCHANGED keyVars
    BY <2>6 DEF keyVars, StoreInv, KeysTypeOK, Issued, Filled
  <2> QED BY <2>1, <2>2, <2>3, <2>4, <2>5, <2>6 DEF KeysNext
<1> QED BY <1>1, <1>2, PTL DEF KeysSpec

(* The store lists exactly the keys it had room for and that are not       *)
(* destroyed, each once and without a hole, after any sequence of          *)
(* crypto_generate_key, crypto_destroy_key and crypto_init.                *)
THEOREM StoreExactAlways == KeysSpec => []StoreExact
<1>1. StoreInv => StoreExact
  BY StoreHolds
<1> QED BY <1>1, StoreInvAlways, PTL

LEMMA KeyMade ==
    ASSUME NEW a \in Algorithms, NEW n \in Requests, NEW id \in Nat
    PROVE  /\ KeyLength(a, n) \in Nat
           /\ a = "XOR" => KeyLength(a, n) >= MinXor
           /\ a = "CAESAR" => KeyLength(a, n) = 1
           /\ \A i \in Nat : KeyByte(i, id) \in 0 .. ByteMod - 1
<1>1. n \in Nat /\ MinXor \in Nat /\ MaxXor \in Nat /\ MinXor <= MaxXor
  BY KeyStoreAssumption
<1>2. \A i \in Nat : KeyByte(i, id) \in 0 .. ByteMod - 1
  <2> SUFFICES ASSUME NEW i \in Nat PROVE KeyByte(i, id) \in 0 .. ByteMod - 1
    OBVIOUS
  <2> DEFINE sum == i * 29 + id * 13
  <2>1. sum \in Nat
    OBVIOUS
  <2> HIDE DEF sum
  <2>2. sum % ByteMod \in 0 .. ByteMod - 1
    BY <2>1, KeyStoreAssumption
  <2> QED BY <2>2 DEF sum, KeyByte
<1>3. CASE a = "XOR"
  BY <1>1, <1>2, <1>3 DEF KeyLength
<1>4. CASE a = "CAESAR"
  BY <1>1, <1>2, <1>4 DEF KeyLength
<1>5. CASE a # "XOR" /\ a # "CAESAR"
  BY <1>1, <1>2, <1>5 DEF KeyLength
<1> QED BY <1>3, <1>4, <1>5

(* The keys fit their algorithms in every reachable state.                 *)
LEMMA KeysFitAlways == KeysSpec => []KeysFit
<1>1. KeysInit => KeysFit
  BY DEF KeysInit, KeysFit, Issued
<1>2. StoreInv /\ KeysFit /\ [KeysNext]_keyVars => KeysFit'
  <2> SUFFICES ASSUME StoreInv, KeysFit, [KeysNext]_keyVars PROVE KeysFit'
    OBVIOUS
  <2>0. KeysTypeOK
    BY DEF StoreInv
  <2>1. CASE UNCHANGED <<key, contexts>>
    BY <2>1 DEF KeysFit, Issued
  <2>2. ASSUME NEW a \in Algorithms, NEW n \in Requests, crypto_generate_key(a, n)
        PROVE  KeysFit'
    <3> DEFINE h == Cardinality(Issued) + 1
               len == KeyLength(a, n)
    <3>1. /\ key' = [g \in Issued \cup {h} |->
                       IF g = h
                       THEN [id |-> next_key_id, type |-> a, length |-> len,
                             key_data |-> [i \in 0 .. len - 1 |-> KeyByte(i, next_key_id)]]
                       ELSE key[g]]
          /\ contexts' = contexts
      BY <2>2 DEF crypto_generate_key
    <3>2. h \notin Issued
      BY <2>0, Handles
    <3>3. next_key_id \in Nat
      BY <2>0, KeyStoreAssumption DEF KeysTypeOK
    <3>4. /\ len \in Nat
          /\ a = "XOR" => len >= MinXor
          /\ a = "CAESAR" => len = 1
          /\ \A i \in Nat : KeyByte(i, next_key_id) \in 0 .. ByteMod - 1
      BY <3>3, KeyMade
    <3> HIDE DEF h, len
    <3>5. /\ key'[h].length = len /\ key'[h].type = a
          /\ key'[h].key_data = [i \in 0 .. len - 1 |-> KeyByte(i, next_key_id)]
          /\ Issued' = Issued \cup {h}
          /\ \A g \in Issued : key'[g] = key[g]
      BY <3>1, <3>2 DEF Issued
    <3>6. [i \in 0 .. len - 1 |-> KeyByte(i, next_key_id)]
             \in [0 .. len - 1 -> 0 .. ByteMod - 1]
      BY <3>4
    <3>7. \A ctx \in contexts : ctx.key \in Issued
      BY <2>0 DEF KeysTypeOK
    <3>8. \A ctx \in contexts' : key'[ctx.key].type = ctx.algorithm
      BY <3>1, <3>5, <3>7 DEF KeysFit
    <3>9. ASSUME NEW g \in Issued'
          PROVE  /\ key'[g].length \in Nat
                 /\ key'[g].key_data \in [0 .. key'[g].length - 1 -> 0 .. ByteMod - 1]
                 /\ key'[g].type = "XOR" => key'[g].length >= MinXor
                 /\ key'[g].type = "CAESAR" => key'[g].length = 1
      <4>1. CASE g = h
        BY <3>4, <3>5, <3>6, <4>1
      <4>2. CASE g \in Issued
        BY <3>5, <4>2 DEF KeysFit
      <4> QED BY <3>5, <4>1, <4>2
    <3> QED BY <3>8, <3>9 DEF KeysFit
  <2>3. ASSUME NEW a \in Algorithms, NEW h \in Handle, crypto_create_context(a, h)
        PROVE  KeysFit'
    BY <2>3 DEF crypto_create_context, KeysFit, Issued
  <2>4. ASSUME NEW ctx \in contexts, crypto_destroy_context(ctx) PROVE KeysFit'
    BY <2>4 DEF crypto_destroy_context, KeysFit, Issued
  <2> QED BY <2>1, <2>2, <2>3, <2>4
       DEF KeysNext, crypto_init, crypto_destroy_key, keyVars
<1> QED BY <1>1, <1>2, StoreInvAlways, PTL DEF KeysSpec

LEMMA CaesarBack ==
    ASSUME NEW B \in Nat \ {0}, NEW m \in 0 .. B - 1, NEW s \in 0 .. B - 1
    PROVE  (((m + s) % B) - s) % B = m
<1>1. CASE m + s < B
  <2>1. (m + s) % B = m + s /\ m % B = m
    BY <1>1
  <2> QED BY <2>1
<1>2. CASE m + s >= B
  <2>1. (m + s) % B = m + s - B
    BY <1>2
  <2>2. (m - B) % B = m
    OBVIOUS
  <2>3. (m + s - B) - s = m - B
    OBVIOUS
  <2> QED BY <2>1, <2>2, <2>3
<1> QED BY <1>1, <1>2

(* A context decrypts what it encrypts: the algorithms' keys have the      *)
(* length the ciphers index, and destroying a key takes nothing from the   *)
(* contexts that point to it.                                              *)
THEOREM RoundTripAlways == KeysSpec => []RoundTrip
<1>1. StoreInv /\ KeysFit => RoundTrip
  <2> SUFFICES ASSUME StoreInv, KeysFit, NEW ctx \in contexts,
                      ctx.algorithm \in {"XOR", "CAESAR"}
               PROVE  /\ key[ctx.key].length >= IF ctx.algorithm = "XOR" THEN MinXor ELSE 1
                      /\ \A m \in Messages : crypto_decrypt(ctx, crypto_encrypt(ctx, m)) = m
    BY DEF RoundTrip
  <2> DEFINE k == key[ctx.key]
             len == k.length
             data == k.key_data
  <2>1. ctx.key \in Issued /\ k.type = ctx.algorithm
    BY DEF StoreInv, KeysTypeOK, KeysFit
  <2>2. /\ len \in Nat /\ data \in [0 .. len - 1 -> 0 .. ByteMod - 1]
        /\ ctx.algorithm = "XOR" => len >= MinXor
        /\ ctx.algorithm = "CAESAR" => len = 1
    BY <2>1 DEF KeysFit
  <2>3. MinXor \in Nat \ {0} /\ ByteMod \in Nat \ {0}
    BY KeyStoreAssumption
  <2> HIDE DEF len, data
  <2>4. CASE ctx.algorithm = "XOR"
    <3>1. len \in Nat \ {0} /\ len >= MinXor
      BY <2>2, <2>3, <2>4
    <3>2. ASSUME NEW m \in Messages
          PROVE  crypto_decrypt(ctx, crypto_encrypt(ctx, m)) = m
      <4>1. DOMAIN m = 0 .. MessageLength - 1 /\ \A i \in DOMAIN m : m[i] \in 0 .. ByteMod - 1
        BY DEF Messages
      <4>2. \A i \in DOMAIN m : i % len \in 0 .. len - 1
        BY <3>1, <4>1, KeyStoreAssumption
      <4>3. \A i \in DOMAIN m : data[i % len] \in 0 .. ByteMod - 1
        BY <2>2, <4>2
      <4>4. \A i \in DOMAIN m : XorByte(XorByte(m[i], data[i % len]), data[i % len]) = m[i]
        BY <4>1, <4>3, KeyStoreAssumption
      <4> DEFINE enc == [i \in DOMAIN m |-> XorByte(m[i], data[i % len])]
      <4>5. crypto_encrypt(ctx, m) = enc
        BY <2>4 DEF crypto_encrypt, crypto_xor_process, len, data
      <4>6. DOMAIN enc = DOMAIN m /\ \A i \in DOMAIN m : enc[i] = XorByte(m[i], data[i % len])
        OBVIOUS
      <4> HIDE DEF enc
      <4>7. crypto_decrypt(ctx, enc) = [i \in DOMAIN m |-> XorByte(enc[i], data[i % len])]
        BY <2>4, <4>6 DEF crypto_decrypt, crypto_xor_process, len, data
      <4>8. [i \in DOMAIN m |-> XorByte(enc[i], data[i % len])] = [i \in DOMAIN m |-> m[i]]
        BY <4>4, <4>6
      <4>9. m = [i \in DOMAIN m |-> m[i]]
        BY DEF Messages
      <4> QED BY <4>5, <4>7, <4>8, <4>9
    <3> QED BY <2>4, <3>1, <3>2 DEF len
  <2>5. CASE ctx.algorithm = "CAESAR"
    <3>1. len = 1 /\ data[0] \in 0 .. ByteMod - 1
      BY <2>2, <2>5
    <3>2. ASSUME NEW m \in Messages
          PROVE  crypto_decrypt(ctx, crypto_encrypt(ctx, m)) = m
      <4>1. \A i \in DOMAIN m : m[i] \in 0 .. ByteMod - 1
        BY DEF Messages
      <4>2. \A i \in DOMAIN m : (((m[i] + data[0]) % ByteMod) - data[0]) % ByteMod = m[i]
        BY <2>3, <3>1, <4>1, CaesarBack
      <4> DEFINE enc == [i \in DOMAIN m |-> (m[i] + data[0]) % ByteMod]
      <4>3. crypto_encrypt(ctx, m) = enc
        BY <2>5 DEF crypto_encrypt, crypto_caesar_encrypt, data
      <4>4. DOMAIN enc = DOMAIN m /\ \A i \in DOMAIN m : enc[i] = (m[i] + data[0]) % ByteMod
        OBVIOUS
      <4> HIDE DEF enc
      <4>5. crypto_decrypt(ctx, enc) = [i \in DOMAIN m |-> (enc[i] - data[0]) % ByteMod]
        BY <2>5, <4>4 DEF crypto_decrypt, crypto_caesar_decrypt, data
      <4>6. [i \in DOMAIN m |-> (enc[i] - data[0]) % ByteMod] = [i \in DOMAIN m |-> m[i]]
        BY <4>2, <4>4
      <4>7. m = [i \in DOMAIN m |-> m[i]]
        BY DEF Messages
      <4> QED BY <4>3, <4>5, <4>6, <4>7
    <3> QED BY <2>5, <3>1, <3>2 DEF len
  <2> QED BY <2>4, <2>5
<1> QED BY <1>1, StoreInvAlways, KeysFitAlways, PTL
=============================================================================
