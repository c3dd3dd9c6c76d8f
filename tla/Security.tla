------------------------------ MODULE Security ------------------------------
(***************************************************************************)
(* The security subsystem, src/security/security.c, over the audit log and *)
(* the packet filter.  security.c declares firewall_add_rule(int, int) and *)
(* audit_log(message, severity, user) itself, unlike the functions that    *)
(* are linked: the filter takes the port number for the address of a rule  *)
(* and copies what memory holds there, any rule; the log takes the message *)
(* for the type of the event ("MISTYPED") and the severity for its level.  *)
(***************************************************************************)
EXTENDS Audit, Firewall

VARIABLE security_config

ASSUME SecurityAssumption == "MISTYPED" \in Types

allVars == <<vars, fwVars, security_config>>

MaxLevel == 4
WARNING  == 2
ERROR    == 1

(* What security_set_level stores for each level.                          *)
Settings(level) ==
    [level |-> level, audit |-> level >= 1, encryption |-> level >= 1,
     firewall |-> level >= 2, access_control |-> level >= 2]

(* The number of rules a level adds.                                       *)
ExtraRules(level) == IF level = 3 THEN 1 ELSE IF level = 4 THEN 2 ELSE 0

-----------------------------------------------------------------------------
(* audit_init and the event that follows it, or a buffer kmalloc refuses.  *)
StartLog ==
    \/ /\ allocated' = FALSE
       /\ UNCHANGED <<log, next_event_id, current_level, accepted>>
    \/ LET boot  == [event_id |-> 1, type |-> "SYSTEM_BOOT",
                     level |-> INFO, user_id |-> 0]
           first == IF Filtered(INFO, current_level) THEN <<>> ELSE <<boot>>
           start == [event_id |-> 1 + Len(first), type |-> "MISTYPED",
                     level |-> ERROR, user_id |-> 0]
           both  == IF Filtered(ERROR, current_level) THEN first
                    ELSE Append(first, start)
       IN /\ allocated' = TRUE
          /\ log' = IF Len(both) > MaxLogs THEN Tail(both) ELSE both
          /\ accepted' = both
          /\ next_event_id' = (1 + Len(both)) % IdModulus
          /\ UNCHANGED current_level

(* Encryption starts with a key size aes_init accepts and stays enabled.   *)
security_init ==
    /\ IF security_config.audit THEN StartLog ELSE UNCHANGED vars
    /\ IF security_config.firewall
       THEN \E a, b, c \in Rules :
               /\ rules' = Fill(<<>>, <<a, b, c>>)
               /\ firewall_enabled' = TRUE
       ELSE UNCHANGED fwVars
    /\ UNCHANGED security_config

(* A fault in security_set_level: the change is logged only on the way up. *)
SetLevelLogsRises(level) ==
    /\ Len(accepted) < MaxEvents
    /\ level \in 0 .. MaxLevel
    /\ security_config' = Settings(level)
    /\ \E new \in [1 .. ExtraRules(level) -> Rules] : firewall_add_rule(new)
    /\ IF Settings(level).audit /\ level > security_config.level
       THEN audit_log("MISTYPED", WARNING, 0, current_level)
       ELSE UNCHANGED <<log, next_event_id, accepted>>
    /\ UNCHANGED <<allocated, current_level>>

(* The settings of the new level are in force when its event is logged.    *)
security_set_level(level) ==
    /\ Len(accepted) < MaxEvents
    /\ level \in 0 .. MaxLevel
    /\ security_config' = Settings(level)
    /\ \E new \in [1 .. ExtraRules(level) -> Rules] : firewall_add_rule(new)
    /\ IF Settings(level).audit
       THEN audit_log("MISTYPED", WARNING, 0, current_level)
       ELSE UNCHANGED <<log, next_event_id, accepted>>
    /\ UNCHANGED <<allocated, current_level>>

security_add_firewall_rule ==
    /\ security_config.firewall
    /\ \E r \in Rules : firewall_add_rule(<<r>>)
    /\ UNCHANGED <<vars, security_config>>

(* network_init probes for a card and then starts the filter afresh,       *)
(* behind security_init's back.                                            *)
network_init ==
    /\ firewall_init
    /\ UNCHANGED <<vars, security_config>>

-----------------------------------------------------------------------------
SecInit ==
    /\ Init /\ FwInit
    /\ security_config = Settings(2)

SecNext ==
    \/ Next /\ UNCHANGED <<fwVars, security_config>>
    \/ FwNext /\ UNCHANGED <<vars, security_config>>
    \/ security_init
    \/ \E level \in 0 .. MaxLevel : security_set_level(level)
    \/ security_add_firewall_rule
    \/ network_init

SecSpec == SecInit /\ [][SecNext]_allVars

-----------------------------------------------------------------------------
(***************************************************************************)
(* A packet that a rule has decided on stays decided: whatever is added    *)
(* later, directly, by a change of the security level or at the limit of   *)
(* the table, the answer for it changes only when the filter is switched   *)
(* off or initialised again (firewall.c:18-41).                            *)
(***************************************************************************)
Settled ==
    [][\A p \in Packets :
         (/\ Covering(rules, p) # {}
          /\ firewall_enabled /\ firewall_enabled'
          /\ ~ security_init /\ ~ network_init /\ ~ firewall_init)
         => firewall_check_packet(rules', firewall_enabled', p)
              = firewall_check_packet(rules, firewall_enabled, p)]_allVars

(***************************************************************************)
(* A change of the security level or of the audit level is in the log,     *)
(* unless the new level itself suppresses it (security level 0, an audit   *)
(* level below INFO), the audit level in force did, or there is no buffer  *)
(* (security.c:124-128, audit.c:34-59).                                    *)
(***************************************************************************)
ChangesTraced ==
    [][/\ security_config' # security_config =>
             \/ accepted' # accepted
             \/ security_config'.level = 0 \/ current_level < WARNING \/ ~ allocated
       /\ current_level' # current_level =>
             \/ accepted' # accepted
             \/ current_level' < INFO \/ ~ allocated]_allVars
=============================================================================
