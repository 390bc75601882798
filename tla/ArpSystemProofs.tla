-------------------------- MODULE ArpSystemProofs ---------------------------
(***************************************************************************)
(* Theorems about ArpSystem, for any addresses, timer lengths, frame       *)
(* length and request limit.                                               *)
(***************************************************************************)
EXTENDS ArpSystem, TLAPS

USE DEF IPAddress, MACAddress

\* A frame carries one host's own unicast address, and forgetting its opcode
\* leaves it a frame.
LEMMA FrameFields ==
    ASSUME NEW f \in Frames
    PROVE  /\ f.ip \in IPs \ McastIPs
           /\ f.mac = MacOf[f.ip] /\ f.mac \in MACs
           /\ f.op \in Ops
           /\ [f EXCEPT !.op = "other"] \in Frames
           /\ [f EXCEPT !.op = "other"].ip = f.ip
<1> PICK o \in Ops, i \in IPs \ McastIPs : f = [op |-> o, ip |-> i, mac |-> MacOf[i]]
  BY DEF Frames
<1>1. [f EXCEPT !.op = "other"] = [op |-> "other", ip |-> i, mac |-> MacOf[i]]
  OBVIOUS
<1>2. [f EXCEPT !.op = "other"] \in Frames
  BY <1>1 DEF Frames, Ops
<1>3. MacOf[i] \in MACs
  BY ArpAssumption
<1>4. QED
  BY <1>1, <1>2, <1>3

\* The registers of the table keep their types whatever frame, request and
\* readiness it sees, as long as stored addresses are addresses.
LEMMA TableTypeStep ==
    ASSUME TableTypeOK,
           NEW arp, arp.ip \in IPAddress, arp.mac \in MACAddress,
           NEW req, req.ip \in IPAddress,
           NEW txReady \in BOOLEAN, NEW respReady \in BOOLEAN,
           Exhausted => tableState = "IDLE",
           TableTick(arp, req, txReady, respReady)
    PROVE  TableTypeOK'
<1> USE TableAssumption DEF TableTypeOK
<1>1. tableState' \in TableStates
  BY DEF TableTick, TableIdle, SendReply, UpdateTable, CheckTable, SendRequest,
         PresentResponse, TableStates
<1>2. request_pending' \in BOOLEAN /\ request_ip_address' \in IPAddress
  BY DEF TableTick, TableRegisters, RequestPending, RequestAddress
<1>3. request_timer' \in 0 .. RequestTime
  BY DEF TableTick, TableRegisters, RequestTimer, WaitTimer
<1>4. request_counter' \in 0 .. MaxRequests - 1
  BY DEF TableTick, TableRegisters, RequestCounter, Exhausted, Asked
<1>5. /\ cached_valid' \in BOOLEAN
      /\ cached_ip_address' \in IPAddress
      /\ cached_mac_address' \in MACAddress
  BY DEF TableTick, TableRegisters, Cache
<1>6. cached_timer' \in 0 .. CacheTime
  BY DEF TableTick, TableRegisters, Cache, WaitTimer
<1>7. QED
  BY <1>1, <1>2, <1>3, <1>4, <1>5, <1>6

LEMMA IpTxTypeStep ==
    ASSUME IpTxTypeOK,
           NEW requestReady \in BOOLEAN, NEW responseValid \in BOOLEAN,
           NEW failed \in BOOLEAN, NEW mac \in MACAddress,
           IpTxTick(requestReady, responseValid, failed, mac)
    PROVE  IpTxTypeOK'
<1>1. CASE IpIdle
  BY <1>1, IpTxAssumption DEF IpTxTypeOK, IpTxStates, IpIdle, Offer, SumHeader, ChecksumDone, PacketReady
<1>2. CASE SendMacAddressRequest(requestReady)
  BY <1>2, IpTxAssumption DEF IpTxTypeOK, IpTxStates, SendMacAddressRequest, Offer, SumHeader, ChecksumDone
<1>3. CASE WaitMacAddressResponse(responseValid, failed, mac)
  BY <1>3, IpTxAssumption
  DEF IpTxTypeOK, IpTxStates, WaitMacAddressResponse, Offer, SumHeader, ChecksumDone
<1>4. CASE IpSend
  <2>1. checksum' \in 0 .. ChecksumCycles
    BY <1>4, IpTxAssumption DEF IpTxTypeOK, IpSend
  <2>2. QED
    BY <1>4, <2>1 DEF IpTxTypeOK, IpTxStates, IpSend
<1>5. CASE IpDrop
  BY <1>5, IpTxAssumption DEF IpTxTypeOK, IpTxStates, IpDrop
<1>6. QED
  BY <1>1, <1>2, <1>3, <1>4, <1>5 DEF IpTxTick

LEMMA ArpTypeStep ==
    ASSUME TypeOK, NEW go \in BOOLEAN, Cycle(go),
           txState = "SEND" => txCounter < TxWords
    PROVE  ArpTypeOK'
<1> USE ArpAssumption DEF TypeOK, ArpTypeOK
<1>1. rxState' \in {"IDLE", "CHECK", "TERMINATE"}
  BY DEF Cycle, RxTick, RxIdle, RxCheck, RxTerminate
<1>2. rxHeader' \in Frames \cup {NoFrame}
  BY FrameFields DEF Cycle, RxTick, RxIdle, RxCheck, RxTerminate, NoFrame
<1>3. txState' \in {"IDLE", "SEND"}
  BY DEF Cycle, TxTick, TxIdle, TxSend
<1>4. txCounter' \in 0 .. TxWords
  BY DEF Cycle, TxTick, TxIdle, TxSend
<1>5. rxHeader.ip \in IPAddress
  <2>1. CASE rxHeader \in Frames
    BY <2>1, FrameFields
  <2>2. CASE rxHeader = NoFrame
    BY <2>2 DEF NoFrame
  <2>3. QED
    BY <2>1, <2>2
<1>6. txFrame' \in [op : {"none", "request", "reply"}, ip : IPAddress]
  BY <1>5 DEF Cycle, TxTick, TxIdle, TxSend, TxHeader, NoTx, TableTypeOK
<1>7. asker' \in IPAddress /\ gaveUp' \in BOOLEAN
  BY <1>5 DEF Cycle, History
<1>8. QED
  BY <1>1, <1>2, <1>3, <1>4, <1>6, <1>7

-----------------------------------------------------------------------------
(* One cycle.  Wires are expanded where they are read. *)

LEMMA TypeStep ==
    ASSUME ResolutionInv, NEW go \in BOOLEAN, Cycle(go)
    PROVE  TypeOK'
<1>1. RxSource.ip \in IPAddress /\ RxSource.mac \in MACAddress
  <2>1. CASE rxHeader \in Frames
    BY <2>1, FrameFields DEF RxSource
  <2>2. CASE rxHeader = NoFrame
    BY <2>2 DEF RxSource, NoFrame
  <2>3. QED
    BY <2>1, <2>2 DEF ResolutionInv, TypeOK, ArpTypeOK
<1>2. IpRequest.ip \in IPAddress
  BY DEF ResolutionInv, TypeOK, IpTxTypeOK, IpRequest
<1>3. /\ TxReady(go) \in BOOLEAN /\ IpResponseReady(ResponseValid) \in BOOLEAN
      /\ RequestReady(IpRequest, TxReady(go)) \in BOOLEAN
      /\ ResponseValid \in BOOLEAN /\ ResponseFailed \in BOOLEAN
  BY DEF TxReady, IpResponseReady, RequestReady, ResponseValid, ResponseFailed,
         Exhausted, Asked, HitNow, HitAsked, IpRequest
<1>4. TableTypeOK'
  BY <1>1, <1>2, <1>3, TableTypeStep DEF Cycle, ResolutionInv, TypeOK, ServesRequester
<1>5. IpTxTypeOK'
  BY <1>3, IpTxTypeStep DEF Cycle, ResolutionInv, TypeOK, TableTypeOK
<1>6. ArpTypeOK'
  BY ArpTypeStep DEF ResolutionInv, TxForTable
<1>7. QED
  BY <1>4, <1>5, <1>6 DEF TypeOK

\* What a cycle may do to the requester, in the words of the invariant.
LEMMA RequesterStep ==
    ASSUME ResolutionInv, NEW go \in BOOLEAN, Cycle(go)
    PROVE  /\ ipState = "SEND_MAC_ADDRESS_REQUEST" =>
                IF RequestReady(IpRequest, TxReady(go)) THEN Waiting'
                ELSE ipState' = "SEND_MAC_ADDRESS_REQUEST"
           /\ Waiting => IF ResponseValid THEN ipState' = "SEND" /\ target_mac' = cached_mac_address
                         ELSE Waiting'
           /\ Requesting => packet_ip' = packet_ip /\ checksum' = checksum
           /\ ~Requesting => ~Waiting'
           /\ ipState' # "DROP"
<1> USE DEF ResolutionInv
<1>1. ResponseValid => ~ResponseFailed
  BY DEF ServesRequester, ResponseValid, ResponseFailed
<1>2. Requesting => packet_ip # ZeroIP /\ ChecksumDone
  BY DEF ServesPacket, Requesting, Waiting
<1>3. CASE IpIdle
  BY <1>3 DEF IpIdle, SumHeader, Requesting, Waiting
<1>4. CASE SendMacAddressRequest(RequestReady(IpRequest, TxReady(go)))
  BY <1>2, <1>4 DEF SendMacAddressRequest, SumHeader, Offer, Requesting, Waiting
<1>5. CASE WaitMacAddressResponse(ResponseValid, ResponseFailed, cached_mac_address)
  BY <1>1, <1>2, <1>5 DEF WaitMacAddressResponse, SumHeader, Offer, Requesting, Waiting
<1>6. CASE IpSend
  BY <1>6 DEF IpSend, Requesting, Waiting
<1>7. CASE IpDrop
  BY <1>7 DEF IpDrop
<1>8. QED
  BY <1>3, <1>4, <1>5, <1>6, <1>7 DEF Cycle, IpTxTick

LEMMA ServesRequesterStep ==
    ASSUME ResolutionInv, NEW go \in BOOLEAN, Cycle(go)
    PROVE  ServesRequester'
<1> USE RequesterStep DEF ResolutionInv, ServesRequester, Requesting, Cycle, TableTick
<1>1. tableState' \in {"CHECK_TABLE", "SEND_REQUEST"} => Requesting'
  BY DEF TableIdle, SendReply, UpdateTable, CheckTable, SendRequest, PresentResponse,
         RetryDue, IpRequest, RequestReady, Asked, ResponseValid, Waiting
<1>2. tableState' \in {"UPDATE_TABLE", "PRESENT_RESPONSE"} => Waiting'
  <2>1. CASE CheckTable(IpRequest)
    BY <2>1 DEF CheckTable, Miss, HitNow, NoStaleHit, IpRequest, RequestReady, ResponseValid, Waiting
  <2>2. CASE ~CheckTable(IpRequest)
    BY <2>2 DEF TableIdle, SendReply, UpdateTable, SendRequest, PresentResponse,
                RequestReady, ResponseValid, IpResponseReady, Waiting
  <2>3. QED
    BY <2>1, <2>2
<1>3. Exhausted' => tableState' = "IDLE" /\ Waiting'
  <2>1. Exhausted' => Asked(TxReady(go)) /\ ~IpRequest.valid
    BY TableAssumption DEF TableRegisters, RequestCounter, Exhausted, TypeOK, TableTypeOK
  <2>2. Asked(TxReady(go)) => tableState' = "IDLE"
    BY DEF Asked, TableIdle, SendReply, UpdateTable, CheckTable, SendRequest, PresentResponse
  <2>3. Asked(TxReady(go)) /\ ~IpRequest.valid => Waiting'
    BY DEF Asked, IpRequest, ResponseValid, Waiting
  <2>4. QED
    BY <2>1, <2>2, <2>3
<1>4. request_pending' => Waiting' /\ ~ResponseValid'
  <2>1. CASE Asked(TxReady(go))
    BY <2>1 DEF Asked, TableIdle, SendReply, UpdateTable, CheckTable, SendRequest, PresentResponse,
                RequestReady, IpRequest, ResponseValid, Waiting
  <2>2. CASE ~Asked(TxReady(go)) /\ request_pending'
    <3>1. request_pending /\ ~Exhausted /\ tableState # "UPDATE_TABLE"
      BY <2>2 DEF TableRegisters, RequestPending
    <3>2. Waiting /\ ~ResponseValid /\ request_ip_address = packet_ip /\ ~HitAsked
      BY <3>1 DEF ServesPacket, NoStaleHit
    <3>3. Waiting'
      BY <3>2
    <3>4. ~HitNow(IpRequest)
      BY <3>2 DEF HitNow, HitAsked, IpRequest
    <3>5. tableState # "PRESENT_RESPONSE"
      BY <3>2 DEF ResponseValid
    <3>6. ~ResponseValid'
      BY <3>1, <3>2, <3>4, <3>5 DEF TableIdle, SendReply, UpdateTable, CheckTable, SendRequest,
                                    PresentResponse, ResponseValid, Miss
    <3>7. QED
      BY <3>3, <3>6
  <2>3. QED
    BY <2>1, <2>2
<1>5. QED
  BY <1>1, <1>2, <1>3, <1>4

LEMMA ServesPacketStep ==
    ASSUME ResolutionInv, NEW go \in BOOLEAN, Cycle(go)
    PROVE  ServesPacket'
<1> USE RequesterStep DEF ResolutionInv, Cycle
<1>1. ipState' \in {"SEND_MAC_ADDRESS_REQUEST", "WAIT_MAC_ADDRESS_RESPONSE", "SEND"} =>
         packet_ip' # ZeroIP /\ ChecksumDone'
  BY DEF ServesPacket, ChecksumDone, PacketReady, IpTxTick, IpIdle, SendMacAddressRequest,
         WaitMacAddressResponse, IpSend, IpDrop, Offer, SumHeader
<1>2. Requesting' => packet_ip' \notin McastIPs
  BY DEF ServesPacket, Requesting, Waiting, PacketReady, IpTxTick, IpIdle, SendMacAddressRequest,
         WaitMacAddressResponse, IpSend, IpDrop, Offer
<1>3. tableState' = "SEND_REQUEST" => request_ip_address' = packet_ip'
  <2>1. CASE tableState = "SEND_REQUEST"
    BY <2>1 DEF ServesPacket, ServesRequester, TableTick, TableRegisters, RequestAddress, Miss
  <2>2. CASE tableState = "CHECK_TABLE"
    BY <2>2 DEF ServesPacket, ServesRequester, TableTick, TableRegisters, RequestAddress, Miss,
                CheckTable, TableIdle, SendReply, UpdateTable, SendRequest, PresentResponse,
                IpRequest, ResponseValid, Requesting, HitNow
  <2>3. CASE tableState \notin {"SEND_REQUEST", "CHECK_TABLE"}
    BY <2>3 DEF TableTick, TableIdle, SendReply, UpdateTable, CheckTable, SendRequest,
                PresentResponse
  <2>4. QED
    BY <2>1, <2>2, <2>3
<1>4. Waiting' /\ ~ResponseValid' => request_ip_address' = packet_ip'
  <2> SUFFICES ASSUME Waiting', ~ResponseValid' PROVE request_ip_address' = packet_ip'
    OBVIOUS
  <2>1. CASE Waiting
    <3>1. ~ResponseValid /\ request_ip_address = packet_ip /\ packet_ip' = packet_ip
      BY <2>1 DEF ServesPacket, Requesting, Waiting
    <3>2. ~(tableState = "CHECK_TABLE" /\ HitAsked)
      BY DEF ResponseValid, TableTick, TableIdle, SendReply, UpdateTable, CheckTable, SendRequest,
             PresentResponse, Miss
    <3>3. QED
      BY <2>1, <3>1, <3>2 DEF TableTick, TableRegisters, RequestAddress, IpRequest, Waiting
  <2>2. CASE ipState = "SEND_MAC_ADDRESS_REQUEST"
    <3>1. RequestReady(IpRequest, TxReady(go)) /\ packet_ip' = packet_ip
      BY <2>2 DEF Requesting, Waiting
    <3>2. ~(tableState = "CHECK_TABLE" /\ HitNow(IpRequest))
      BY DEF ResponseValid, TableTick, TableIdle, SendReply, UpdateTable, CheckTable, SendRequest,
             PresentResponse, Miss
    <3>3. Asked(TxReady(go))
      BY <3>1, <3>2 DEF RequestReady
    <3>4. QED
      BY <3>1, <3>3 DEF Asked, ServesPacket, TableTick, TableRegisters, RequestAddress, Miss
  <2>3. CASE ~Requesting
    BY <2>3
  <2>4. QED
    BY <2>1, <2>2, <2>3 DEF Requesting
<1>5. QED
  BY <1>1, <1>2, <1>3, <1>4 DEF ServesPacket

LEMMA NoStaleHitStep ==
    ASSUME ResolutionInv, NEW go \in BOOLEAN, Cycle(go)
    PROVE  NoStaleHit'
<1> USE RequesterStep DEF ResolutionInv, Cycle, TableTick, TableRegisters
<1> SUFFICES ASSUME HitAsked'
             PROVE  tableState' = "CHECK_TABLE" /\ Waiting' /\ ~request_pending'
  BY DEF NoStaleHit
<1>1. CASE tableState = "UPDATE_TABLE"
  BY <1>1 DEF ServesRequester, TableIdle, SendReply, UpdateTable, CheckTable, SendRequest,
              PresentResponse, RequestPending, Asked, ResponseValid, Waiting
<1>2. CASE tableState # "UPDATE_TABLE"
  <2>1. cached_valid /\ cached_ip_address' = cached_ip_address
    BY <1>2 DEF Cache, HitAsked
  <2>2. request_ip_address' # request_ip_address
    <3>1. CASE HitAsked
      BY <2>1, <3>1, AddressAssumption DEF NoStaleHit, CacheOfOneHost, RequestAddress, HitAsked
    <3>2. CASE ~HitAsked
      BY <2>1, <3>2 DEF HitAsked
    <3>3. QED
      BY <3>1, <3>2
  <2>3. CASE tableState = "CHECK_TABLE" /\ HitAsked
    BY <2>1, <2>3, AddressAssumption DEF CacheOfOneHost, RequestAddress, HitAsked
  <2>4. CASE Miss(IpRequest) /\ IpRequest.valid
    BY <2>1, <2>4 DEF Miss, HitNow, HitAsked, RequestAddress
  <2>5. QED
    BY <2>2, <2>3, <2>4 DEF RequestAddress
<1>3. QED
  BY <1>1, <1>2

LEMMA CacheOfOneHostStep ==
    ASSUME ResolutionInv, NEW go \in BOOLEAN, Cycle(go)
    PROVE  CacheOfOneHost'
<1> USE RequesterStep DEF ResolutionInv, Cycle, TableTick, TableRegisters
<1>1. rxState' # "IDLE" \/ tableState' = "UPDATE_TABLE" => rxHeader' \in Frames
  <2>1. rxState # "IDLE" => rxHeader' \in Frames
    BY FrameFields DEF CacheOfOneHost, RxTick, RxIdle, RxCheck, RxTerminate
  <2>2. rxState = "IDLE" /\ rxState' # "IDLE" => rxHeader' \in Frames
    BY DEF RxTick, RxIdle, RxCheck, RxTerminate
  <2>3. tableState' = "UPDATE_TABLE" => rxState # "IDLE"
    BY DEF TableIdle, SendReply, UpdateTable, CheckTable, SendRequest, PresentResponse, RxSource
  <2>4. QED
    BY <2>1, <2>2, <2>3
<1>2. cached_valid' => /\ cached_ip_address' \in IPs
                       /\ cached_mac_address' = MacOf[cached_ip_address']
  <2>1. CASE tableState = "UPDATE_TABLE"
    BY <2>1, FrameFields DEF CacheOfOneHost, Cache, RxSource
  <2>2. CASE tableState # "UPDATE_TABLE"
    BY <2>2 DEF CacheOfOneHost, Cache
  <2>3. QED
    BY <2>1, <2>2
<1>3. ResponseValid' => gaveUp' \/ cached_mac_address' = MacOf[packet_ip']
  <2> SUFFICES ASSUME ResponseValid' PROVE gaveUp' \/ cached_mac_address' = MacOf[packet_ip']
    OBVIOUS
  <2>1. tableState' = "PRESENT_RESPONSE" /\ Waiting'
    BY ServesRequesterStep DEF ServesRequester, ResponseValid
  <2>2. ipState' # "IDLE" /\ Requesting /\ packet_ip' = packet_ip
    BY <2>1 DEF Requesting, Waiting
  <2>3. CASE tableState = "IDLE"
    BY <2>1, <2>2, <2>3 DEF History
  <2>4. CASE tableState = "CHECK_TABLE"
    <3>1. HitAsked \/ HitNow(IpRequest)
      BY <2>1, <2>4 DEF CheckTable, TableIdle, SendReply, UpdateTable, SendRequest,
                        PresentResponse, Miss
    <3>2. cached_ip_address = packet_ip
      BY <2>4, <3>1 DEF HitAsked, HitNow, IpRequest, NoStaleHit, ServesPacket, ResponseValid
    <3>3. cached_mac_address = MacOf[packet_ip]
      BY <3>1, <3>2 DEF HitAsked, HitNow, CacheOfOneHost
    <3>4. QED
      BY <2>2, <2>4, <3>3 DEF Cache
  <2>5. CASE tableState = "PRESENT_RESPONSE"
    <3>1. gaveUp => gaveUp'
      BY <2>2 DEF History
    <3>2. cached_mac_address' = cached_mac_address
      BY <2>5 DEF Cache
    <3>3. gaveUp \/ cached_mac_address = MacOf[packet_ip]
      BY <2>5 DEF CacheOfOneHost, ResponseValid
    <3>4. MacOf[packet_ip'] = MacOf[packet_ip]
      BY <2>2
    <3>5. CASE gaveUp
      BY <3>1, <3>5
    <3>6. CASE cached_mac_address = MacOf[packet_ip]
      BY <3>2, <3>4, <3>6
    <3>7. QED
      BY <3>3, <3>5, <3>6
  <2>6. QED
    BY <2>1, <2>3, <2>4, <2>5
    DEF TableIdle, SendReply, UpdateTable, CheckTable, SendRequest, PresentResponse
<1>4. QED
  BY <1>1, <1>2, <1>3 DEF CacheOfOneHost

LEMMA TxForTableStep ==
    ASSUME ResolutionInv, NEW go \in BOOLEAN, Cycle(go)
    PROVE  TxForTable'
<1> USE DEF ResolutionInv, Cycle, TableTick
<1>1. CASE TxIdle
  <2>1. TableSends => tableState' = tableState /\ request_ip_address' = request_ip_address
    BY <1>1 DEF TxIdle, TxReady, TableSends, TableIdle, SendReply, UpdateTable, CheckTable,
                SendRequest, PresentResponse, TableRegisters, RequestAddress, Miss
  <2>2. txCounter' = 0 /\ TxWords > 0
    BY <1>1, ArpAssumption DEF TxIdle
  <2>3. txFrame = NoTx /\ txFrame' = NoTx
    BY <1>1 DEF TxIdle, TxForTable
  <2>4. QED
    BY <1>1, <2>1, <2>2, <2>3 DEF TxIdle, TxForTable, TableSends, NoTx
<1>2. CASE TxSend(go)
  <2>1. TableSends /\ request_ip_address' = request_ip_address
    BY <1>2 DEF TxSend, TxForTable, TableSends, TableRegisters, RequestAddress, Miss
  <2>2. ~TxReady(go) => tableState' = tableState
    BY <2>1 DEF TableSends, TableIdle, SendReply, UpdateTable, CheckTable, SendRequest,
                PresentResponse
  <2>3. txState' = "SEND" => TableSends' /\ txCounter' < TxWords
    BY <1>2, <2>1, <2>2, ArpAssumption
    DEF TxSend, TxForTable, TxReady, TableSends, TypeOK, ArpTypeOK
  <2>4. txFrame' # NoTx => txState' = "SEND"
    BY <1>2 DEF TxSend
  <2>5. txFrame'.op = "request" =>
           tableState' = "SEND_REQUEST" /\ txFrame'.ip = request_ip_address'
    BY <1>2, <2>1, <2>2 DEF TxSend, TxHeader, TxForTable, TableSends, NoTx
  <2>6. QED
    BY <2>3, <2>4, <2>5 DEF TxForTable
<1>3. QED
  BY <1>1, <1>2 DEF TxTick

LEMMA UnicastStep ==
    ASSUME ResolutionInv, NEW go \in BOOLEAN, Cycle(go)
    PROVE  UnicastToOwner'
<1> USE RequesterStep DEF ResolutionInv, Cycle
<1> SUFFICES ASSUME ipState' = "SEND", packet_ip' \notin McastIPs
             PROVE  target_mac' = MacOf[packet_ip'] \/ gaveUp'
  BY DEF UnicastToOwner
<1>1. CASE ipState = "SEND"
  BY <1>1 DEF UnicastToOwner, IpTxTick, IpIdle, SendMacAddressRequest, WaitMacAddressResponse,
              IpSend, IpDrop, History
<1>2. CASE Waiting
  <2>1. ResponseValid /\ target_mac' = cached_mac_address /\ packet_ip' = packet_ip
    BY <1>2 DEF Waiting, Requesting
  <2>2. gaveUp => gaveUp'
    BY DEF History
  <2>3. QED
    BY <2>1, <2>2 DEF CacheOfOneHost
<1>3. CASE ipState = "IDLE"
  BY <1>3 DEF IpTxTick, IpIdle, SendMacAddressRequest, WaitMacAddressResponse, IpSend, IpDrop,
              Offer, PacketReady
<1>4. QED
  BY <1>1, <1>2, <1>3 DEF Waiting, IpTxTick, IpIdle, SendMacAddressRequest,
                          WaitMacAddressResponse, IpSend, IpDrop

\* Without a frame between the request and the reply's first word, ARPRX's header
\* register still holds the asker's address when the reply takes it.
LEMMA ReplyStep ==
    ASSUME ~LateReply, ResolutionInv, ReplyInv, NEW go \in BOOLEAN, Cycle(go)
    PROVE  ReplyInv'
<1> USE DEF ResolutionInv, Cycle, TableTick
<1>1. ReplyWaits => rxHeader'.ip = rxHeader.ip
  <2>1. CASE RxIdle
    BY <2>1 DEF RxIdle
  <2>2. CASE RxCheck
    BY <2>2, FrameFields DEF RxCheck, CacheOfOneHost
  <2>3. CASE RxTerminate
    BY <2>3 DEF RxTerminate
  <2>4. QED
    BY <2>1, <2>2, <2>3 DEF RxTick
<1>2. tableState = "SEND_REPLY" /\ tableState' = "SEND_REPLY" => asker' = asker
  BY DEF History
<1>3. tableState' = "SEND_REPLY" => tableState \in {"IDLE", "SEND_REPLY"}
  BY DEF TableIdle, SendReply, UpdateTable, CheckTable, SendRequest, PresentResponse
<1>4. CASE tableState = "IDLE"
  <2>1. txFrame' = NoTx
    BY <1>4 DEF TxForTable, TableSends, TxTick, TxIdle, TxSend
  <2>2. tableState' = "SEND_REPLY" => rxState = "CHECK" /\ asker' = rxHeader.ip
    BY <1>4 DEF TableIdle, SendReply, UpdateTable, CheckTable, SendRequest, PresentResponse,
                RxSource, History
  <2>3. rxState = "CHECK" => rxHeader'.ip = rxHeader.ip
    BY FrameFields DEF RxTick, RxIdle, RxCheck, RxTerminate, CacheOfOneHost
  <2>4. QED
    BY <2>1, <2>2, <2>3 DEF ReplyInv, ReplyWaits, NoTx
<1>5. CASE tableState = "SEND_REPLY"
  <2>1. tableState' = IF TxReady(go) THEN "IDLE" ELSE "SEND_REPLY"
    BY <1>5 DEF TableIdle, SendReply, UpdateTable, CheckTable, SendRequest, PresentResponse
  <2>2. TxReady(go) => txFrame' = NoTx
    BY DEF TxTick, TxIdle, TxSend, TxReady
  <2>3. txFrame' \in {NoTx, txFrame} \/ (ReplyWaits /\ txFrame' = [op |-> "reply", ip |-> rxHeader.ip])
    BY <1>5 DEF TxTick, TxIdle, TxSend, TxHeader, ReplyWaits
  <2>4. txFrame' = NoTx /\ ~TxReady(go) => txFrame = NoTx
    BY <1>5 DEF TxTick, TxIdle, TxSend, TxHeader, NoTx
  <2>5. CASE TxReady(go)
    BY <2>1, <2>2, <2>5 DEF ReplyInv, ReplyWaits, NoTx
  <2>6. CASE ~TxReady(go)
    <3>1. tableState' = "SEND_REPLY" /\ asker' = asker
      BY <1>2, <1>5, <2>1, <2>6
    <3>2. txFrame'.op = "reply" => txFrame'.ip = asker
      BY <2>3 DEF ReplyInv, NoTx
    <3>3. ReplyWaits' => ReplyWaits
      BY <1>5, <2>4, <2>6 DEF ReplyWaits
    <3>4. QED
      BY <1>1, <3>1, <3>2, <3>3 DEF ReplyInv
  <2>7. QED
    BY <2>5, <2>6
<1>6. CASE tableState \notin {"IDLE", "SEND_REPLY"}
  <2>1. tableState' # "SEND_REPLY"
    BY <1>3, <1>6
  <2>2. txFrame.op # "reply"
    BY <1>6 DEF ReplyInv
  <2>3. txFrame'.op # "reply"
    BY <1>6, <2>2 DEF TxTick, TxIdle, TxSend, TxHeader, NoTx
  <2>4. QED
    BY <2>1, <2>3 DEF ReplyInv, ReplyWaits
<1>7. QED
  BY <1>4, <1>5, <1>6

-----------------------------------------------------------------------------
(* The theorems. *)

LEMMA InitInv == Init => ResolutionInv
<1> SUFFICES ASSUME Init PROVE ResolutionInv
  OBVIOUS
<1> USE AddressAssumption, TableAssumption, IpTxAssumption, ArpAssumption
        DEF Init, TableInit, IpTxInit
<1>1. TypeOK
  <2>1. TableTypeOK
    <3>1. 0 \in 0 .. MaxRequests - 1 /\ RequestTime \in 0 .. RequestTime
          /\ CacheTime \in 0 .. CacheTime
      OBVIOUS
    <3>2. QED
      BY <3>1 DEF TableTypeOK, TableStates
  <2>2. IpTxTypeOK
    BY DEF IpTxTypeOK, IpTxStates
  <2>3. ArpTypeOK
    <3>1. 0 \in 0 .. TxWords
      OBVIOUS
    <3>2. NoTx \in [op : {"none", "request", "reply"}, ip : IPAddress]
      BY DEF NoTx
    <3>3. QED
      BY <3>1, <3>2 DEF ArpTypeOK
  <2>4. QED
    BY <2>1, <2>2, <2>3 DEF TypeOK
<1>2. ServesRequester /\ ServesPacket /\ NoStaleHit /\ CacheOfOneHost
  BY DEF ServesRequester, ServesPacket, NoStaleHit, CacheOfOneHost, Exhausted, HitAsked,
         Requesting, Waiting, ResponseValid
<1>3. TxForTable /\ UnicastToOwner
  BY DEF TxForTable, UnicastToOwner, NoTx
<1>4. QED
  BY <1>1, <1>2, <1>3 DEF ResolutionInv

LEMMA StepInv == ResolutionInv /\ [Next]_vars => ResolutionInv'
<1>1. ASSUME ResolutionInv, NEW go \in BOOLEAN, Cycle(go) PROVE ResolutionInv'
  BY <1>1, TypeStep, RequesterStep, ServesRequesterStep, ServesPacketStep, NoStaleHitStep,
     CacheOfOneHostStep, TxForTableStep, UnicastStep DEF ResolutionInv
<1>2. ASSUME ResolutionInv, UNCHANGED vars PROVE ResolutionInv'
  BY <1>2
  DEF vars, tableVars, ipVars, arpVars, ResolutionInv, TypeOK, TableTypeOK, IpTxTypeOK, ArpTypeOK,
      ServesRequester, ServesPacket, NoStaleHit, CacheOfOneHost, TxForTable, UnicastToOwner,
      Requesting, Waiting, Exhausted, HitAsked, ResponseValid, ChecksumDone, TableSends
<1>3. QED
  BY <1>1, <1>2 DEF Next

\* Table, requester and ports never leave the joint states the argument rests on.
THEOREM ResolutionSafe == Spec => []ResolutionInv
  BY InitInv, StepInv, PTL DEF Spec

\* Registers stay in range: among them request_counter, a Signal(max=max_requests)
\* that is incremented without a guard.
THEOREM TypeCorrect == Spec => []TypeOK
<1>1. ResolutionInv => TypeOK
  BY DEF ResolutionInv
<1>2. QED
  BY <1>1, ResolutionSafe, PTL

\* PRESENT_RESPONSE always meets a requester in WAIT_MAC_ADDRESS_RESPONSE, so
\* the table is never stopped by a response nobody takes.
THEOREM ResponseIsAwaited == Spec => []PresentedToWaiter
<1>1. ResolutionInv => PresentedToWaiter
  BY DEF ResolutionInv, ServesRequester, PresentedToWaiter, ResponseValid
<1>2. QED
  BY <1>1, ResolutionSafe, PTL

\* request_pending and request_ip_address always speak of the packet that waits.
THEOREM RetriesForWaiter == Spec => []RetryForWaiter
<1>1. ResolutionInv => RetryForWaiter
  BY DEF ResolutionInv, ServesRequester, ServesPacket, RetryForWaiter
<1>2. QED
  BY <1>1, ResolutionSafe, PTL

\* Every ARP request on the wire asks for the address of the packet offered.
THEOREM AsksForThePacket == Spec => []AsksForWaiter
<1>1. ResolutionInv => AsksForWaiter
  BY DEF ResolutionInv, ServesRequester, ServesPacket, TxForTable, AsksForWaiter, Requesting,
         Waiting
<1>2. QED
  BY <1>1, ResolutionSafe, PTL

\* IPTX sends a unicast packet to its owner's MAC address unless the table gave up.
THEOREM PacketsReachOwner == Spec => []UnicastToOwner
<1>1. ResolutionInv => UnicastToOwner
  BY DEF ResolutionInv
<1>2. QED
  BY <1>1, ResolutionSafe, PTL

\* response.failed is never seen by IPTX: DROP and target_unreachable are dead.
THEOREM FailureIsInvisible == Spec => []FailureNeverSeen
<1>1. ResolutionInv => FailureNeverSeen
  BY DEF ResolutionInv, ServesRequester, FailureNeverSeen, ResponseValid, ResponseFailed
<1>2. QED
  BY <1>1, ResolutionSafe, PTL

\* A reply goes to the host that asked, as long as no frame comes in between the
\* request and the reply's first word: ARPTX reads the address from ARPRX's live
\* header register (arp.py:133 and 221-227), which the run arp_late_reply overwrites.
THEOREM ReplyGoesToAsker == ASSUME ~LateReply PROVE Spec => []ReplyToAsker
<1>1. Init => ResolutionInv /\ ReplyInv
  BY InitInv DEF Init, TableInit, ReplyInv, ReplyWaits, NoTx
<1>2. ResolutionInv /\ ReplyInv /\ [Next]_vars => (ResolutionInv /\ ReplyInv)'
  <2>1. ASSUME ResolutionInv, ReplyInv, NEW go \in BOOLEAN, Cycle(go) PROVE ReplyInv'
    BY <2>1, ReplyStep
  <2>2. ASSUME ReplyInv, UNCHANGED vars PROVE ReplyInv'
    BY <2>2 DEF vars, tableVars, arpVars, ReplyInv, ReplyWaits
  <2>3. QED
    BY <2>1, <2>2, StepInv DEF Next
<1>3. ReplyInv => ReplyToAsker
  BY DEF ReplyInv, ReplyToAsker
<1>4. QED
  BY <1>1, <1>2, <1>3, PTL DEF Spec
=============================================================================
