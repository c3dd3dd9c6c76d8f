----------------------------- MODULE MCSecurity -----------------------------
(* Instances of Security, and through it of Audit and Firewall, for TLC.   *)
EXTENDS Security

SomeTypes == {"SYSTEM_BOOT", "SECURITY_CHANGE", "MISTYPED"}
TwoUsers  == {0, 1}
OneLevel  == {VERBOSE}

(* The packets differ in the port; the other fields of each rule are ANY.  *)
Port       == {"dst_port", "protocol"}
TwoPackets == {[dst_port |-> 80, protocol |-> 6], [dst_port |-> 22, protocol |-> 6]}
SomeRules  == {[match |-> [dst_port |-> 80, protocol |-> ANY], action |-> ALLOW],
               [match |-> [dst_port |-> ANY, protocol |-> 6], action |-> DENY]}
=============================================================================
