----------------------------- MODULE Addresses ------------------------------
(* IP and MAC addresses, as values that are only compared and stored. *)

CONSTANTS
    IPs, MACs,       \* the addresses hosts have
    ZeroIP, ZeroMAC  \* value 0 of an address register

ASSUME AddressAssumption == ZeroIP \notin IPs /\ ZeroMAC \notin MACs

IPAddress  == IPs \cup {ZeroIP}
MACAddress == MACs \cup {ZeroMAC}
=============================================================================
