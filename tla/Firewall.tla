------------------------------ MODULE Firewall ------------------------------
(***************************************************************************)
(* The packet filter, src/security/firewall.c: a table of rules that only  *)
(* grows, scanned from its first rule.  The five fields of a rule and of a *)
(* packet (addresses, ports, protocol) are treated alike.                  *)
(***************************************************************************)
EXTENDS Integers, Sequences

CONSTANTS
    MaxRules,     \* MAX_RULES (256)
    Fields,       \* src_ip, dst_ip, src_port, dst_port, protocol
    Packets,      \* packets, as functions on Fields
    Rules         \* rules: match, a function on Fields, and action

ANY   == 0        \* the value of a field that a rule does not look at
DENY  == 0        \* RULE_DENY
ALLOW == 1        \* RULE_ALLOW

ASSUME FirewallAssumption ==
    /\ MaxRules \in Nat
    /\ \A p \in Packets : DOMAIN p = Fields
    /\ \A r \in Rules : DOMAIN r.match = Fields /\ r.action \in Nat

VARIABLES
    rules,              \* rules[0 .. rule_count - 1]
    firewall_enabled

fwVars == <<rules, firewall_enabled>>

-----------------------------------------------------------------------------
Covers(r, p) == \A f \in Fields : r.match[f] = p[f] \/ r.match[f] = ANY

Covering(rs, p) == {i \in 1 .. Len(rs) : Covers(rs[i], p)}

(* A fault in firewall_check_packet: the last rule that covers decides.    *)
LastOf(S) == CHOOSE i \in S : \A j \in S : j <= i

FirstOf(S) == CHOOSE i \in S : \A j \in S : i <= j

firewall_check_packet(rs, enabled, p) ==
    IF ~ enabled THEN ALLOW
    ELSE IF Covering(rs, p) = {} THEN DENY
    ELSE rs[FirstOf(Covering(rs, p))].action

(* A fault in firewall_add_rule: a full table gives up its oldest rule.    *)
FillForgets(rs, new) ==
    LET all == rs \o new
    IN IF Len(all) > MaxRules THEN SubSeq(all, Len(all) - MaxRules + 1, Len(all)) ELSE all

(* rs after the rules of new are offered one by one: a full table refuses. *)
Fill(rs, new) ==
    LET all == rs \o new
    IN IF Len(all) > MaxRules THEN SubSeq(all, 1, MaxRules) ELSE all

firewall_add_rule(new) ==
    /\ rules' = Fill(rules, new)
    /\ UNCHANGED firewall_enabled

firewall_init ==
    /\ rules' = <<>>
    /\ firewall_enabled' = TRUE

firewall_enable ==
    /\ firewall_enabled' = TRUE
    /\ UNCHANGED rules

firewall_disable ==
    /\ firewall_enabled' = FALSE
    /\ UNCHANGED rules

FwInit ==
    /\ rules = <<>>
    /\ firewall_enabled = TRUE

FwNext ==
    \/ firewall_init
    \/ \E r \in Rules : firewall_add_rule(<<r>>)
    \/ firewall_enable
    \/ firewall_disable
=============================================================================
