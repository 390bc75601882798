------------------------------ MODULE ArpTable ------------------------------
(***************************************************************************)
(* LiteEthARPTable (liteeth/core/arp.py): the one-entry IP/MAC cache, the  *)
(* resolution request it serves for the IP transmitter, and the ARP frames *)
(* it has sent.  One step is one cycle of the system clock.                *)
(*                                                                         *)
(* Wires are operators: what other components drive into the table comes   *)
(* as a parameter (arp = the frame ARPRX presents, req = the requester's   *)
(* request, txReady = ARPTX takes the frame, respReady = the requester     *)
(* takes the response), what the table drives is read from its registers.  *)
(***************************************************************************)
EXTENDS Addresses, Integers

CONSTANTS
    MaxRequests,  \* max_requests
    RequestTime,  \* cycles of request_timer (clk_freq//10)
    CacheTime     \* cycles of cached_timer  (clk_freq*10)

ASSUME TableAssumption ==
    /\ MaxRequests \in Nat /\ MaxRequests > 1
    /\ RequestTime \in Nat
    /\ CacheTime \in Nat

VARIABLES
    tableState,
    request_pending, request_ip_address, request_timer, request_counter,
    cached_valid, cached_ip_address, cached_mac_address, cached_timer

tableVars == << tableState,
                request_pending, request_ip_address, request_timer, request_counter,
                cached_valid, cached_ip_address, cached_mac_address, cached_timer >>

TableStates == {"IDLE", "SEND_REPLY", "UPDATE_TABLE", "CHECK_TABLE",
                "SEND_REQUEST", "PRESENT_RESPONSE"}

TableTypeOK ==
    /\ tableState \in TableStates
    /\ request_pending \in BOOLEAN
    /\ request_ip_address \in IPAddress
    /\ request_timer \in 0 .. RequestTime
    /\ request_counter \in 0 .. MaxRequests - 1
    /\ cached_valid \in BOOLEAN
    /\ cached_ip_address \in IPAddress
    /\ cached_mac_address \in MACAddress
    /\ cached_timer \in 0 .. CacheTime

TableInit ==
    /\ tableState = "IDLE"
    /\ request_pending = FALSE
    /\ request_ip_address = ZeroIP
    /\ request_timer = RequestTime
    /\ request_counter = 0
    /\ cached_valid = FALSE
    /\ cached_ip_address = ZeroIP
    /\ cached_mac_address = ZeroMAC
    /\ cached_timer = CacheTime

-----------------------------------------------------------------------------
(* Combinational signals. *)

\* All requests are spent.  Combinational on the counter, which this very
\* cycle also resets: the condition lasts one cycle.
Exhausted == request_counter = MaxRequests - 1

\* ARPTX has taken the table's request: pending is set and the counter moves.
Asked(txReady) == tableState = "SEND_REQUEST" /\ txReady

\* Fault: the timer never calls for a retry.
RetryNever == FALSE

\* The last request has waited long enough for its answer.
RetryDue == request_pending /\ request_timer = 0

\* Fault: any valid entry is an answer.
HitAny == cached_valid

\* The cache answers the request being retried, or the one presented now.
HitAsked      == cached_valid /\ request_ip_address = cached_ip_address
HitNow(req)   == cached_valid /\ ~HitAsked /\ req.ip = cached_ip_address
Miss(req)     == tableState = "CHECK_TABLE" /\ ~HitAsked /\ ~HitNow(req)

RequestReady(req, txReady) ==
    \/ tableState = "CHECK_TABLE" /\ HitNow(req) /\ req.valid
    \/ Asked(txReady)

ResponseValid  == tableState = "PRESENT_RESPONSE"
ResponseFailed == Exhausted

TableSends == tableState \in {"SEND_REPLY", "SEND_REQUEST"}

-----------------------------------------------------------------------------
(* The FSM: one action per state. *)

\* The four wake-up conditions of IDLE, in their order of priority.
TableIdle(arp, req) ==
    /\ tableState = "IDLE"
    /\ tableState' =
         IF arp.valid /\ arp.op = "request" THEN "SEND_REPLY"
         ELSE IF arp.valid /\ arp.op = "reply" /\ request_pending THEN "UPDATE_TABLE"
         ELSE IF Exhausted THEN "PRESENT_RESPONSE"
         ELSE IF req.valid \/ RetryDue THEN "CHECK_TABLE"
         ELSE "IDLE"

SendReply(txReady) ==
    /\ tableState = "SEND_REPLY"
    /\ tableState' = IF txReady THEN "IDLE" ELSE "SEND_REPLY"

UpdateTable ==
    /\ tableState = "UPDATE_TABLE"
    /\ tableState' = "CHECK_TABLE"

CheckTable(req) ==
    /\ tableState = "CHECK_TABLE"
    /\ tableState' = IF Miss(req) THEN "SEND_REQUEST" ELSE "PRESENT_RESPONSE"

SendRequest(txReady) ==
    /\ tableState = "SEND_REQUEST"
    /\ tableState' = IF txReady THEN "IDLE" ELSE "SEND_REQUEST"

PresentResponse(respReady) ==
    /\ tableState = "PRESENT_RESPONSE"
    /\ tableState' = IF respReady THEN "IDLE" ELSE "PRESENT_RESPONSE"

-----------------------------------------------------------------------------
(* The registers beside the FSM, clocked in every state. *)

\* migen's WaitTimer: counts down while wait holds, else is reloaded.
WaitTimer(wait, count, reset) ==
    IF ~wait THEN reset ELSE IF count = 0 THEN 0 ELSE count - 1

\* Fault: an answer does not end the retries.
RequestPendingKept(txReady) ==
    request_pending' = (~Exhausted /\ (request_pending \/ Asked(txReady)))

RequestPending(txReady) ==
    request_pending' =
        /\ ~(tableState = "UPDATE_TABLE" \/ Exhausted)
        /\ request_pending \/ Asked(txReady)

\* Fault: the address of an answered request is kept.
RequestAddressKept(req) ==
    request_ip_address' = IF Miss(req) /\ req.valid THEN req.ip ELSE request_ip_address

\* Fault: a new request does not replace the address of one that failed.
RequestAddressStale(req) ==
    request_ip_address' =
        IF tableState = "CHECK_TABLE" /\ HitAsked THEN ZeroIP
        ELSE IF Miss(req) /\ req.valid /\ request_ip_address = ZeroIP THEN req.ip
        ELSE request_ip_address

RequestAddress(req) ==
    request_ip_address' =
        IF tableState = "CHECK_TABLE" /\ HitAsked THEN ZeroIP
        ELSE IF Miss(req) /\ req.valid THEN req.ip
        ELSE request_ip_address

\* Fault: the limit does not reset the counter.
RequestCounterHeld(req, txReady) ==
    request_counter' =
        IF Asked(txReady) /\ req.valid THEN 0
        ELSE IF Asked(txReady) THEN request_counter + 1
        ELSE request_counter

\* Fault: the limit is counted by the timer, past the end of the register.
RequestCounterFree(req, txReady) ==
    request_counter' =
        IF Asked(txReady) /\ req.valid THEN 0
        ELSE IF Asked(txReady) \/ Exhausted THEN request_counter + 1
        ELSE request_counter

RequestCounter(req, txReady) ==
    request_counter' =
        IF Exhausted \/ (Asked(txReady) /\ req.valid) THEN 0
        ELSE IF Asked(txReady) THEN request_counter + 1
        ELSE request_counter

RequestTimer(txReady) ==
    request_timer' = WaitTimer(request_pending /\ ~Asked(txReady), request_timer, RequestTime)

\* update stores the addresses ARPRX shows this cycle; the timer ages them.
Cache(arp) ==
    IF tableState = "UPDATE_TABLE"
    THEN /\ cached_valid' = TRUE
         /\ cached_ip_address' = arp.ip
         /\ cached_mac_address' = arp.mac
         /\ cached_timer' = CacheTime
    ELSE /\ cached_valid' = (cached_valid /\ cached_timer # 0)
         /\ cached_timer' = WaitTimer(TRUE, cached_timer, CacheTime)
         /\ UNCHANGED << cached_ip_address, cached_mac_address >>

TableRegisters(arp, req, txReady) ==
    /\ RequestPending(txReady)
    /\ RequestAddress(req)
    /\ RequestCounter(req, txReady)
    /\ RequestTimer(txReady)
    /\ Cache(arp)

TableTick(arp, req, txReady, respReady) ==
    /\ \/ TableIdle(arp, req)
       \/ SendReply(txReady)
       \/ UpdateTable
       \/ CheckTable(req)
       \/ SendRequest(txReady)
       \/ PresentResponse(respReady)
    /\ TableRegisters(arp, req, txReady)
=============================================================================
