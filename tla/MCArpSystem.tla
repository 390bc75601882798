---------------------------- MODULE MCArpSystem -----------------------------
(* ArpSystem with two hosts and a multicast group. *)
EXTENDS ArpSystem

CONSTANTS a, b, group, macA, macB, macGroup

MCIPs      == {a, b, group}
MCMACs     == {macA, macB, macGroup}
MCMcastIPs == {group}
MCMcastMAC == [g \in {group} |-> macGroup]
MCMacOf    == [i \in MCIPs |-> IF i = a THEN macA ELSE IF i = b THEN macB ELSE macGroup]
=============================================================================
