-------------------------------- MODULE IpTx --------------------------------
(***************************************************************************)
(* LiteEthIPTX (liteeth/core/ip.py): the header checksum, the resolution   *)
(* of the destination through the ARP table and the transmission of one    *)
(* IP packet.  One step is one cycle of the system clock.                  *)
(***************************************************************************)
EXTENDS Addresses, Integers

CONSTANTS
    McastIPs,        \* the addresses whose top bits are mcast_ip_mask
    McastMAC,        \* what Cat(ip[:23], 0, mcast_oui) gives for them
    ChecksumCycles   \* n_cycles of LiteEthIPV4Checksum

ASSUME IpTxAssumption ==
    /\ McastIPs \subseteq IPs
    /\ McastMAC \in [McastIPs -> MACs]
    /\ ChecksumCycles \in Nat

VARIABLES
    ipState,
    packet_ip,    \* sink.ip_address of the packet offered, ZeroIP: sink.valid = 0
    target_mac,
    checksum      \* LiteEthIPV4Checksum's counter

ipVars == << ipState, packet_ip, target_mac, checksum >>

IpTxStates == {"IDLE", "SEND_MAC_ADDRESS_REQUEST", "WAIT_MAC_ADDRESS_RESPONSE", "SEND", "DROP"}

IpTxTypeOK ==
    /\ ipState \in IpTxStates
    /\ packet_ip \in IPAddress
    /\ target_mac \in MACAddress
    /\ checksum \in 0 .. ChecksumCycles

IpTxInit ==
    /\ ipState = "IDLE"
    /\ packet_ip = ZeroIP
    /\ target_mac = ZeroMAC
    /\ checksum = 0

ChecksumDone == checksum = ChecksumCycles

\* packetizer.source.valid: the packetizer holds a packet whose sum is known.
PacketReady == packet_ip # ZeroIP /\ ChecksumDone

\* arp_table.request
IpRequest == [valid |-> ipState = "SEND_MAC_ADDRESS_REQUEST", ip |-> packet_ip]

\* arp_table.response.ready, given response.valid
IpResponseReady(responseValid) == ipState = "WAIT_MAC_ADDRESS_RESPONSE" /\ responseValid

\* The user offers a packet; it holds every field until its last word is taken.
Offer == packet_ip' \in IF packet_ip = ZeroIP THEN IPAddress ELSE {packet_ip}

\* ce = sink.valid, until done.
SumHeader ==
    checksum' = IF packet_ip # ZeroIP /\ ~ChecksumDone THEN checksum + 1 ELSE checksum

IpIdle ==
    /\ ipState = "IDLE"
    /\ IF ~PacketReady
       THEN UNCHANGED << ipState, target_mac >>
       ELSE IF packet_ip \in McastIPs
            THEN ipState' = "SEND" /\ target_mac' = McastMAC[packet_ip]
            ELSE ipState' = "SEND_MAC_ADDRESS_REQUEST" /\ UNCHANGED target_mac
    /\ Offer /\ SumHeader

SendMacAddressRequest(requestReady) ==
    /\ ipState = "SEND_MAC_ADDRESS_REQUEST"
    /\ ipState' = IF requestReady THEN "WAIT_MAC_ADDRESS_RESPONSE" ELSE ipState
    /\ Offer /\ SumHeader /\ UNCHANGED target_mac

WaitMacAddressResponse(responseValid, failed, mac) ==
    /\ ipState = "WAIT_MAC_ADDRESS_RESPONSE"
    /\ IF responseValid
       THEN /\ target_mac' = mac
            /\ ipState' = IF failed THEN "DROP" ELSE "SEND"
       ELSE UNCHANGED << ipState, target_mac >>
    /\ Offer /\ SumHeader

\* The last word leaves through source: that, and only that, resets the sum.
IpSend ==
    /\ ipState = "SEND"
    /\ \/ UNCHANGED << ipState, packet_ip, checksum >>
       \/ /\ ipState' = "IDLE"
          /\ packet_ip' \in IPAddress
          /\ checksum' = 0
    /\ UNCHANGED target_mac

\* The packet is swallowed in front of source, so the sum is not reset.
IpDrop ==
    /\ ipState = "DROP"
    /\ \/ UNCHANGED << ipState, packet_ip >>
       \/ /\ ipState' = "IDLE"
          /\ packet_ip' \in IPAddress
    /\ UNCHANGED << target_mac, checksum >>

IpTxTick(requestReady, responseValid, failed, mac) ==
    \/ IpIdle
    \/ SendMacAddressRequest(requestReady)
    \/ WaitMacAddressResponse(responseValid, failed, mac)
    \/ IpSend
    \/ IpDrop
=============================================================================
