-------------------------------- MODULE TxPath --------------------------------
(***************************************************************************)
(* The transmit path of the hardware stack, one step per cycle: the echo   *)
(* buffer and ICMPTX (core/icmp.py), the UDP streamer's transmitter        *)
(* (frontend/stream.py), UDPTX (core/udp.py), the IP crossbar's arbiter    *)
(* and IPTX (core/ip.py) up to the MAC.  All headers of a packet leave in  *)
(* one beat.                                                               *)
(***************************************************************************)
EXTENDS Integers, Sequences

CONSTANTS
    Target,       \* ip_address of the UDP streamer
    EchoDepth,    \* payload_depth of the echo buffer
    ParamDepth,   \* and param_depth
    TxFifoDepth,  \* tx_fifo_depth
    SendLevel,    \* send_level
    ResolveTime,  \* cycles until the ARP table answers without a reply
    MaxWritten    \* bound on the bytes written to the streamer

TxAssumption ==
    /\ {EchoDepth, ParamDepth, TxFifoDepth, SendLevel, ResolveTime} \subseteq Nat \ {0}
    /\ SendLevel <= TxFifoDepth /\ MaxWritten \in Nat
ASSUME TxAssumption

VARIABLES
    echo,            \* PacketFIFO: bytes with their last, and parameters
    written,         \* bytes the application has written so far: 1, 2, 3, ...
    tx_fifo, level, counter, streamTx,  \* the streamer's
    udpTx, icmpTx,   \* FSMs
    grant,           \* the IP crossbar's arbiter
    ipTx, resolving, cached,  \* IPTX, cycles until the answer, cached_ip_address
    wire,            \* the packet going out: its headers, and the bytes so far
    sent             \* history: the packets that went out

txVars == << echo, written, tx_fifo, level, counter, streamTx, udpTx, icmpTx, grant,
             ipTx, resolving, cached, wire, sent >>

NoPacket == [proto |-> "none"]

TxInit ==
    /\ echo = [payload |-> << >>, params |-> << >>] /\ written = 0
    /\ tx_fifo = << >> /\ level = 0 /\ counter = 0 /\ streamTx = "IDLE"
    /\ udpTx = "IDLE" /\ icmpTx = "IDLE" /\ grant = "udp"
    /\ ipTx = "IDLE" /\ resolving = 0 /\ cached = "none" /\ wire = NoPacket /\ sent = << >>

-----------------------------------------------------------------------------
(* LiteEthICMPEcho.  PacketFIFO, external: it takes a beat while it has room for
   it and for the parameters, and gives a packet out once it has all of it. *)

EchoReady == Len(echo.payload) < EchoDepth /\ Len(echo.params) < ParamDepth

\* Fault: the carry is lost.
ReplyChecksumNoCarry(sum) == (sum + 2048) % 65536

\* msgtype goes from 8 to 0: 0x800 more, with the end-around carry.
ReplyChecksum(sum) == (sum + 2048 + (IF sum >= 63488 THEN 1 ELSE 0)) % 65536

-----------------------------------------------------------------------------
(* Senders, as IPTX's sink sees them through the arbiter, which is external:
   it moves on when the granted sender is not in a packet. *)

TxValid(u) ==
    IF u = "udp" THEN udpTx = "SEND" /\ streamTx = "SEND" ELSE icmpTx = "SEND" /\ echo.params # << >>

\* Fault: a datagram ends with what is in the FIFO now.
StreamLastNow == counter = Len(tx_fifo) + counter - 1

StreamLast == counter = level - 1

SourceLast(u) == IF u = "udp" THEN StreamLast ELSE Head(echo.payload).last

Headers(u) ==
    IF u = "udp" THEN [proto |-> "udp", ip |-> Target, length |-> level, body |-> << >>]
    ELSE [proto |-> "icmp", ip |-> Head(echo.params).src, length |-> Head(echo.params).length,
          checksum |-> ReplyChecksum(Head(echo.params).checksum), body |-> << >>]

\* A byte leaves: IPTX sends, its headers are out, and the MAC takes it.
Takes(u, idle) == grant = u /\ ipTx = "SEND" /\ wire # NoPacket /\ idle # "mac"
Ends(u, idle)  == Takes(u, idle) /\ SourceLast(u)

Requests(u, idle) == TxValid(u) /\ ~Ends(u, idle)

Arbitrate(idle) ==
    grant' = IF Requests(grant, idle) THEN grant
             ELSE IF \E u \in {"udp", "icmp"} : Requests(u, idle)
                  THEN CHOOSE u \in {"udp", "icmp"} : Requests(u, idle) ELSE grant

\* pushed: beats of the request being received; ended: its parameters.
Echo(idle, pushed, ended) ==
    /\ echo' = [payload |-> (IF Takes("icmp", idle) THEN Tail(echo.payload) ELSE echo.payload) \o pushed,
                params  |-> (IF Ends("icmp", idle) THEN Tail(echo.params) ELSE echo.params) \o ended]
    /\ icmpTx' = IF icmpTx = "IDLE" THEN (IF echo.params # << >> THEN "SEND" ELSE "IDLE")
                 ELSE IF Ends("icmp", idle) THEN "IDLE" ELSE "SEND"

\* LiteEthStream2UDPTX and UDPTX.  The application writes while there is room.
Stream(idle, writes) ==
    LET starts == streamTx = "IDLE" /\ Len(tx_fifo) >= SendLevel
        taken  == Takes("udp", idle)
    IN  /\ writes => written < MaxWritten /\ Len(tx_fifo) < TxFifoDepth
        /\ written' = IF writes THEN written + 1 ELSE written
        /\ tx_fifo' = (IF taken THEN Tail(tx_fifo) ELSE tx_fifo)
                      \o (IF writes THEN << written + 1 >> ELSE << >>)
        /\ level' = IF starts THEN Len(tx_fifo) ELSE level
        /\ counter' = IF starts THEN 0 ELSE IF taken THEN counter + 1 ELSE counter
        /\ streamTx' = IF starts THEN "SEND" ELSE IF Ends("udp", idle) THEN "IDLE" ELSE streamTx
        /\ udpTx' = IF udpTx = "IDLE" THEN (IF streamTx = "SEND" THEN "SEND" ELSE "IDLE")
                    ELSE IF Ends("udp", idle) THEN "IDLE" ELSE "SEND"

-----------------------------------------------------------------------------
(* LiteEthIPTX, and what it needs of the ARP table: an answer at once if the
   address is in the table, else when a reply comes or the retries are spent;
   without a reply the packet goes out to whom the table has.  ArpSystem has
   the table itself. *)

\* Fault: the table waits for a reply for ever.
AnsweredByReply == cached = Headers(grant).ip

Answered == cached = Headers(grant).ip \/ resolving = 0

\* reply: the sender of the ARP reply that ARPRX shows, or "none".
IpTx(idle, reply) ==
    /\ ipTx' = CASE ipTx = "IDLE" -> IF TxValid(grant) THEN "RESOLVE" ELSE "IDLE"
                 [] ipTx = "RESOLVE" -> IF Answered THEN "SEND" ELSE "RESOLVE"
                 [] OTHER -> IF Ends(grant, idle) THEN "IDLE" ELSE "SEND"
    /\ resolving' = IF ipTx # "RESOLVE" THEN ResolveTime ELSE IF resolving = 0 THEN 0 ELSE resolving - 1
    /\ cached' = IF ipTx = "RESOLVE" /\ ~Answered /\ reply # "none" THEN reply ELSE cached
    /\ LET byte == IF grant = "udp" THEN Head(tx_fifo) ELSE Head(echo.payload).byte
           now  == [wire EXCEPT !.body = Append(@, byte)]
       IN  /\ wire' = IF ipTx # "SEND" \/ idle = "mac" THEN wire
                      ELSE IF wire = NoPacket THEN Headers(grant)
                      ELSE IF Ends(grant, idle) THEN NoPacket ELSE now
           /\ sent' = IF Ends(grant, idle) THEN Append(sent, now) ELSE sent

TxNext(idle, writes, reply, pushed, ended) ==
    /\ Arbitrate(idle)
    /\ Echo(idle, pushed, ended)
    /\ Stream(idle, writes)
    /\ IpTx(idle, reply)
=============================================================================
