----------------------------- MODULE ArpSystem ------------------------------
(***************************************************************************)
(* Address resolution as LiteEthARP and LiteEthIP wire it together: ARPRX  *)
(* and ARPTX (liteeth/core/arp.py) around the table, the IP transmitter as *)
(* the table's only requester, and the network as the environment.  All of *)
(* them are clocked together: a step is one cycle of every component.      *)
(***************************************************************************)
EXTENDS ArpTable, IpTx

CONSTANTS
    MacOf,      \* the MAC address of the host that has an IP address
    TxWords,    \* packet_words of LiteEthARPTX
    LateReply   \* may a frame come in while a reply still waits for the wire?

ASSUME ArpAssumption ==
    /\ MacOf \in [IPs -> MACs]
    /\ TxWords \in Nat /\ TxWords > 1
    /\ LateReply \in BOOLEAN

VARIABLES
    rxState, rxHeader,            \* ARPRX and the depacketizer's header register
    txState, txCounter, txFrame,  \* ARPTX; txFrame: the header on the wire
    asker,                        \* history: who sent the request being replied to
    gaveUp                        \* history: the response was given for want of one

arpVars == << rxState, rxHeader, txState, txCounter, txFrame, asker, gaveUp >>
vars == << tableVars, ipVars, arpVars >>

Ops == {"request", "reply", "other"}

\* What the network may send: a host tells its own addresses.  "other" stands for
\* every frame that fails the hwtype, proto, hwsize, protosize or target_ip test
\* of ARPRX, or has neither opcode: its addresses reach the table all the same.
Frames == {[op |-> o, ip |-> i, mac |-> MacOf[i]] : o \in Ops, i \in IPs \ McastIPs}

NoFrame == [op |-> "other", ip |-> ZeroIP, mac |-> ZeroMAC]
NoTx    == [op |-> "none", ip |-> ZeroIP]

ArpTypeOK ==
    /\ rxState \in {"IDLE", "CHECK", "TERMINATE"}
    /\ rxHeader \in Frames \cup {NoFrame}
    /\ txState \in {"IDLE", "SEND"}
    /\ txCounter \in 0 .. TxWords
    /\ txFrame \in [op : {"none", "request", "reply"}, ip : IPAddress]
    /\ asker \in IPAddress
    /\ gaveUp \in BOOLEAN

TypeOK == TableTypeOK /\ IpTxTypeOK /\ ArpTypeOK

Init ==
    /\ TableInit /\ IpTxInit
    /\ rxState = "IDLE" /\ rxHeader = NoFrame
    /\ txState = "IDLE" /\ txCounter = 0 /\ txFrame = NoTx
    /\ asker = ZeroIP
    /\ gaveUp = FALSE

-----------------------------------------------------------------------------
(* LiteEthARPRX *)

\* source: a pulse in CHECK; the addresses are the live header register.
RxSource == [valid |-> rxState = "CHECK",
             op |-> rxHeader.op, ip |-> rxHeader.ip, mac |-> rxHeader.mac]

\* The next frame's header is shifted in over the last one's.
ReplyWaits == tableState = "SEND_REPLY" /\ txFrame = NoTx

RxIdle ==
    /\ rxState = "IDLE"
    /\ \/ UNCHANGED << rxState, rxHeader >>
       \/ /\ ReplyWaits => LateReply
          /\ rxState' = "CHECK"
          /\ rxHeader' \in Frames

\* The opcode is looked at in this cycle only; it is not kept in the state.
RxCheck ==
    /\ rxState = "CHECK"
    /\ rxState' = "TERMINATE"
    /\ rxHeader' = [rxHeader EXCEPT !.op = "other"]

\* Until the frame's last word.
RxTerminate ==
    /\ rxState = "TERMINATE"
    /\ rxState' \in {"TERMINATE", "IDLE"}
    /\ UNCHANGED rxHeader

RxTick == RxIdle \/ RxCheck \/ RxTerminate

-----------------------------------------------------------------------------
(* LiteEthARPTX.  go: the MAC takes a word this cycle. *)

\* The table's frame is done with at its last word only.
TxReady(go) == txState = "SEND" /\ go /\ txCounter = TxWords - 1

TxIdle ==
    /\ txState = "IDLE"
    /\ txCounter' = 0
    /\ txState' = IF TableSends THEN "SEND" ELSE "IDLE"
    /\ UNCHANGED txFrame

\* Fault: a reply goes to the host in the cache.
TxHeaderCached ==
    IF tableState = "SEND_REPLY" THEN [op |-> "reply", ip |-> cached_ip_address]
    ELSE [op |-> "request", ip |-> request_ip_address]

\* The addresses are wires, through the table, from ARPRX for a reply.
TxHeader ==
    IF tableState = "SEND_REPLY" THEN [op |-> "reply", ip |-> rxHeader.ip]
    ELSE [op |-> "request", ip |-> request_ip_address]

\* The packetizers load their header registers with the first word.
TxSend(go) ==
    /\ txState = "SEND"
    /\ txCounter' = IF go THEN txCounter + 1 ELSE txCounter
    /\ txState' = IF TxReady(go) THEN "IDLE" ELSE "SEND"
    /\ txFrame' =
         IF TxReady(go) THEN NoTx
         ELSE IF go /\ txFrame = NoTx THEN TxHeader
         ELSE txFrame

TxTick(go) == TxIdle \/ TxSend(go)

-----------------------------------------------------------------------------
History ==
    /\ asker' = IF tableState = "IDLE" /\ tableState' = "SEND_REPLY" THEN rxHeader.ip
                ELSE IF tableState' # "SEND_REPLY" THEN ZeroIP ELSE asker
    /\ gaveUp' = IF ipState' = "IDLE" THEN FALSE
                 ELSE IF tableState = "IDLE" /\ tableState' = "PRESENT_RESPONSE" THEN TRUE
                 ELSE gaveUp

Cycle(go) ==
    /\ TableTick(RxSource, IpRequest, TxReady(go), IpResponseReady(ResponseValid))
    /\ IpTxTick(RequestReady(IpRequest, TxReady(go)),
                ResponseValid, ResponseFailed, cached_mac_address)
    /\ RxTick
    /\ TxTick(go)
    /\ History

Next == \E go \in (IF txState = "SEND" THEN BOOLEAN ELSE {FALSE}) : Cycle(go)

\* The clock runs; the MAC takes ARP and IP words in the end; a frame ends.
\* The network does not time a frame to the cycle after each reply, nor to the
\* one cycle after each last request.
Fairness ==
    /\ WF_vars(Next)
    /\ WF_vars(Cycle(TRUE) /\ txState = "SEND")
    /\ WF_vars(Next /\ ipState = "SEND" /\ ipState' = "IDLE")
    /\ WF_vars(Next /\ rxState = "TERMINATE" /\ rxState' = "IDLE")
    /\ SF_vars(Next /\ tableState = "SEND_REPLY" /\ tableState' = "IDLE" /\ rxState' # "CHECK")
    /\ SF_vars(Next /\ request_counter' > request_counter /\ Exhausted' /\ rxState' # "CHECK")

Spec == Init /\ [][Next]_vars
FairSpec == Spec /\ Fairness

-----------------------------------------------------------------------------
(* What resolution promises. *)

Waiting == ipState = "WAIT_MAC_ADDRESS_RESPONSE"

\* The table never presents a response that nobody waits for.  PRESENT_RESPONSE
\* is left on response.ready alone, so one that meets the requester in another
\* state would stop the table for good.
PresentedToWaiter == ResponseValid => Waiting

\* A retry is always on behalf of the packet that waits: pending is never left
\* set, nor the address changed, once the requester has moved on.
RetryForWaiter == request_pending => Waiting /\ request_ip_address = packet_ip

\* A request on the wire asks for the address of the packet that waits.
AsksForWaiter == txFrame.op = "request" => packet_ip # ZeroIP /\ txFrame.ip = packet_ip

\* A unicast packet goes to the host that owns its address, unless the table
\* had run out of requests and presented what the cache register holds.
UnicastToOwner ==
    ipState = "SEND" /\ packet_ip \notin McastIPs =>
        target_mac = MacOf[packet_ip] \/ gaveUp

\* failed is up in the one cycle the counter spends at its limit and response is
\* valid in the next: the requester never sees a failure, and its DROP state, which
\* would leave the checksum's counter to the next packet, and target_unreachable are
\* never reached.
FailureNeverSeen == ipState # "DROP" /\ ~(ResponseValid /\ ResponseFailed)

\* A reply is addressed to the host whose request is being answered
\* (test/model/arp.py: reply.target_mac = request.sender_mac).
ReplyToAsker == txFrame.op = "reply" => txFrame.ip = asker

\* The table is idle with nothing pending while the requester waits: the cycle
\* that ends the retries met a request for us, which IDLE serves first.
Abandoned == Waiting /\ tableState = "IDLE" /\ ~request_pending /\ ~Exhausted

\* Every packet that waits for an address is sent in the end, but for Abandoned.
ResolvesUnlessAbandoned == Waiting ~> ~Waiting \/ Abandoned

\* Retries compensate for what a busy table loses: no packet waits for ever.
Resolves == Waiting ~> ~Waiting

-----------------------------------------------------------------------------
(* Why it holds: the part of the joint state of table and requester that every
   cycle preserves. *)

\* The table works on a request only while its requester is in one of these.
Requesting == ipState = "SEND_MAC_ADDRESS_REQUEST" \/ Waiting

\* Who is where: the table serves a requester that is there, retries exhaust in
\* IDLE and for a waiter only.
ServesRequester ==
    /\ tableState \in {"CHECK_TABLE", "SEND_REQUEST"} => Requesting
    /\ tableState \in {"UPDATE_TABLE", "PRESENT_RESPONSE"} => Waiting
    /\ Exhausted => tableState = "IDLE" /\ Waiting
    /\ request_pending => Waiting /\ ~ResponseValid

\* Which address: a request on its way, and the one of a waiter, is the packet's.
ServesPacket ==
    /\ ipState \in {"SEND_MAC_ADDRESS_REQUEST", "WAIT_MAC_ADDRESS_RESPONSE", "SEND"} =>
          packet_ip # ZeroIP /\ ChecksumDone
    /\ Requesting => packet_ip \notin McastIPs
    /\ tableState = "SEND_REQUEST" => request_ip_address = packet_ip
    /\ Waiting /\ ~ResponseValid => request_ip_address = packet_ip

\* The address last asked for is a hit for a waiter whose answer was just stored,
\* and never one left behind by an earlier request.
NoStaleHit == HitAsked => tableState = "CHECK_TABLE" /\ Waiting /\ ~request_pending

\* The register holds one host's pair, and what is presented answers the packet.
CacheOfOneHost ==
    /\ cached_valid => cached_ip_address \in IPs /\ cached_mac_address = MacOf[cached_ip_address]
    /\ ResponseValid => gaveUp \/ cached_mac_address = MacOf[packet_ip]
    /\ rxState # "IDLE" \/ tableState = "UPDATE_TABLE" => rxHeader \in Frames

\* ARPTX sends for the table's present state only.
TxForTable ==
    /\ txState = "SEND" => TableSends /\ txCounter < TxWords
    /\ txFrame # NoTx => txState = "SEND"
    /\ txFrame.op = "request" => tableState = "SEND_REQUEST" /\ txFrame.ip = request_ip_address

\* The header register keeps the asker's address until a reply has its header, as
\* long as no frame comes in before.
ReplyInv ==
    /\ txFrame.op = "reply" => tableState = "SEND_REPLY" /\ txFrame.ip = asker
    /\ ReplyWaits => rxHeader.ip = asker

ResolutionInv ==
    /\ TypeOK
    /\ ServesRequester /\ ServesPacket
    /\ NoStaleHit /\ CacheOfOneHost
    /\ TxForTable
    /\ UnicastToOwner
    /\ ipState # "DROP"
=============================================================================
