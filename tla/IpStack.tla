------------------------------- MODULE IpStack -------------------------------
(***************************************************************************)
(* LiteEthUDPIPCore with a UDP streamer (core/__init__.py, LiteEthIP,      *)
(* LiteEthUDP, LiteEthICMP): receive path and transmit path, which meet in *)
(* the echo buffer and in the ARP table.  An echo request is answered from *)
(* a buffer for one packet, the answer waits for an address, and the ARP   *)
(* reply with it comes in behind whatever the receive path still holds.    *)
(***************************************************************************)
EXTENDS RxPath, TxPath

vars == << configVars, rxVars, txVars >>

Init == RxInit /\ TxInit

Idlers == {"nobody", "line", "cpu", "mac", "tty", "app"}

\* Who has something to do in the cycle, and so may be idle.
MayIdle(idle) ==
    CASE idle = "line" -> k <= Len(input) /\ ~held
      [] idle = "cpu" -> cpu_fifo # << >>
      [] idle = "mac" -> ipTx = "SEND"
      [] idle = "tty" -> rx_fifo # << >>
      [] idle = "app" -> UdpSource("nobody") /\ UdpUser = "app"
      [] OTHER -> TRUE

\* What ICMPRX gives the echo buffer in the cycle.
EchoPushes(idle) == EchoSink(idle) /\ EchoReady

Cycle(idle) ==
    /\ RxNext(idle, EchoReady)
    /\ \E writes \in BOOLEAN :
         TxNext(idle, writes,
                IF arpRx = "CHECK" /\ F.op = "reply" THEN F.src ELSE "none",
                IF EchoPushes(idle) THEN << [byte |-> HwByte, last |-> IsLast] >> ELSE << >>,
                IF EchoPushes(idle) /\ IsLast
                THEN << [src |-> F.src, length |-> F.length, checksum |-> F.checksum] >> ELSE << >>)

Next == \E idle \in Idlers : MayIdle(idle) /\ Cycle(idle)

\* The clock runs, and again and again a cycle comes in which all take part: the
\* line delivers, the MAC and the CPU's SRAM writer take a beat, users read.
Spec == Init /\ [][Next]_vars /\ WF_vars(Cycle("nobody"))

-----------------------------------------------------------------------------
\* No FIFO of the stack, the echo buffer's two halves included, is pushed when
\* it is full or read when it is empty, and every counter keeps its range.
TypeOK ==
    /\ k \in 1 .. Len(input) + 1 /\ i \in Nat \ {0}
    /\ Len(hw_fifo) <= MacFifoDepth /\ Len(cpu_fifo) <= MacFifoDepth
    /\ {ipRx, udpRx, icmpRx} \subseteq {"IDLE", "RECEIVE", "DROP"}
    /\ arpRx \in {"IDLE", "CHECK", "TERMINATE"}
    /\ checksum \in 0 .. ChecksumCycles /\ count \in 0 .. Max16
    /\ Len(rx_fifo) <= RxFifoDepth /\ Len(tx_fifo) <= TxFifoDepth
    /\ Len(echo.payload) <= EchoDepth /\ Len(echo.params) <= ParamDepth
    /\ level \in 0 .. TxFifoDepth /\ counter \in 0 .. TxFifoDepth
    /\ {streamTx, udpTx, icmpTx} \subseteq {"IDLE", "SEND"} /\ grant \in {"udp", "icmp"}
    /\ ipTx \in {"IDLE", "RESOLVE", "SEND"} /\ resolving \in 0 .. ResolveTime

-----------------------------------------------------------------------------
(* What the users should see of the frames that came in. *)

\* Frames the stack is done with.
Done == IF HwValid("nobody") THEN HwHead[1] - 1 ELSE k - 1

Concerns(f, port) == /\ f.type = "ip" /\ f.ok /\ f.proto = "udp" /\ f.port = port
                     /\ port = "tty" => f.src = Partner
                     /\ port = "app" => core = "full"

\* The payload; of a datagram without one the padding, UDPRX's way.
PayloadLength(f) == IF f.length \in 1 .. f.size THEN f.length ELSE f.size

Bytes(n, length) == [b \in 1 .. length |-> << n, b >>]

Payload(n) == Bytes(n, PayloadLength(input[n]))

\* What the first frames owe the streamer's user, byte after byte, and the user of
\* the other port, datagram after datagram.
TtyOwed(frames) ==
    FlattenSeq([n \in 1 .. frames |-> IF Concerns(input[n], "tty") THEN Payload(n) ELSE << >>])
AppOwed(frames) ==
    FlattenSeq([n \in 1 .. frames |-> IF Concerns(input[n], "app") THEN << Payload(n) >> ELSE << >>])

\* The users of both ports get the payloads of the datagrams for them and nothing
\* else, each byte once, in order and cut to the UDP length, whatever padding,
\* dropped frames, foreign traffic, stalls and MAC filter do around them
\* (IPRX, UDPRX, LiteEthUDP2StreamRX, LiteEthMACCoreCrossbar).
DeliveredIntact ==
    LET stream == ttyGot \o rx_fifo
        all    == AppOwed(Len(input))
    IN  /\ IsPrefix(TtyOwed(Done), stream) /\ IsPrefix(stream, TtyOwed(Len(input)))
        /\ IsPrefix(AppOwed(Done), appGot) /\ IsPrefix(appGot, all)
        /\ appOpen # << >> => Len(all) > Len(appGot) /\ IsPrefix(appOpen, all[Len(appGot) + 1])

\* Of the frames before n, and of the one that comes in, what is not for hw_mac.
CpuOwed(n) == FlattenSeq([m \in 1 .. n |-> IF input[m].mine THEN << >> ELSE Bytes(m, Beats(input[m]))])
CpuPart    == IF k > Len(input) \/ input[k].mine THEN << >> ELSE Bytes(k, i - 1)

\* With the MAC filter the CPU gets every frame that is not for hw_mac, whole and
\* in order, each beat once, though stack and CPU fill their FIFOs at their own
\* pace and a beat moves to both at a time (mac/__init__.py:141-155).
CpuCopies == mac = "filter" => cpuGot \o cpu_fifo = CpuOwed(k - 1) \o CpuPart

\* A frame that is an echo request for us.
Asks(f) == core = "full" /\ f.type = "ip" /\ f.ok /\ f.proto = "icmp"

Asked(n)   == Cardinality({m \in 1 .. n : Asks(input[m])})
Replied(n) == Cardinality({m \in 1 .. n : sent[m].proto = "icmp"})

Answers(p, n) ==
    LET f == input[n]
    IN  /\ p.ip = f.src /\ p.length = f.length /\ p.body = Bytes(n, f.size)
        /\ p.checksum \in 0 .. Max16 /\ (p.checksum - f.checksum - 2048) % 65535 = 0

\* The echo replies are those of the requests accepted, the n-th of the n-th, sent to its
\* requester with its length and all its bytes, and with the request's checksum
\* made good for the change of type, although parameters and bytes cross in two
\* FIFOs (LiteEthICMPEcho, LiteEthICMPTX).
EchoAnswers ==
    \A n \in DOMAIN sent : sent[n].proto = "icmp" =>
      \E m \in DOMAIN input : Asks(input[m]) /\ Asked(m) = Replied(n) /\ Answers(sent[n], m)

Streamed(packets) ==
    FlattenSeq([n \in 1 .. Len(packets) |-> IF packets[n].proto = "udp" THEN packets[n].body ELSE << >>])

\* The streamer's datagrams carry the application's bytes in order and without
\* loss, and each one's header tells its length, although the FIFO fills while a
\* datagram goes out and echo replies go in between (LiteEthStream2UDPTX).
StreamInOrder ==
    LET bytes == Streamed(sent)
    IN  /\ bytes = [n \in 1 .. Len(bytes) |-> n] /\ Len(bytes) <= written
        /\ \A n \in DOMAIN sent : sent[n].proto = "udp" =>
             sent[n].ip = Target /\ sent[n].length = Len(sent[n].body)

\* An echo request with more bytes than the buffer has: PacketFIFO never gives it
\* out, and what is behind it waits for ever (icmp.py:131).
Oversize(f) == Asks(f) /\ f.size > EchoDepth

\* The stack takes every frame and sends every answer: also when a second echo
\* request stands before the ARP reply the first one's answer waits for, which
\* then goes out when the ARP table's retries are spent.
AllServed ==
    <>[](\/ \E n \in DOMAIN input : Oversize(input[n])
         \/ k > Len(input) /\ hw_fifo = << >> /\ rx_fifo = << >> /\ echo.params = << >>
            /\ echo.payload = << >> /\ ipTx = "IDLE" /\ Len(tx_fifo) < SendLevel)
=============================================================================
