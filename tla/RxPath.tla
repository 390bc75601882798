-------------------------------- MODULE RxPath --------------------------------
(***************************************************************************)
(* The receive path of the hardware stack, one step per cycle: the MAC's   *)
(* copy of every frame to the stack and to the CPU (mac/__init__.py), the  *)
(* crossbars, ARPRX, IPRX, UDPRX and ICMPRX (core/), and the UDP streamer's*)
(* receiver (frontend/stream.py).  From the MAC to the user no one keeps a *)
(* byte: ready goes back through every layer, so the one who stalls holds  *)
(* all who wait behind.                                                    *)
(*                                                                         *)
(* A frame is a record of what the receivers look at.  Its beats are its   *)
(* headers, one beat each because a Depacketizer takes a header as it      *)
(* comes, and then its bytes; << k, b >> is beat b of frame k.             *)
(***************************************************************************)
EXTENDS Integers, Sequences, SequencesExt

CONSTANTS
    Scripts,       \* the sequences of frames that may come in
    Partner,       \* ip_address of the UDP streamer
    MacFifoDepth,  \* of the MAC filter's hw_fifo and cpu_fifo
    RxFifoDepth,   \* rx_fifo_depth
    ChecksumCycles \* n_cycles of LiteEthIPV4Checksum

VARIABLES
    mac,         \* "crossbar": the stack only; "filter": the CPU, too, hw_mac given
    core,        \* "full": ICMP, two UDP ports; "small": no ICMP, one port
    input,       \* the frames
    k, i, held,  \* the beat at the MAC core's source; it is shown until it is taken
    hw_fifo, cpu_fifo,
    arpRx, ipRx, udpRx, icmpRx,  \* FSMs
    checksum,    \* LiteEthIPV4Checksum's counter
    count,       \* UDPRX's
    rx_fifo,     \* the streamer's
    cpuGot, ttyGot, appGot, appOpen  \* history: what the CPU and the users took

configVars == << mac, core, input >>
rxVars == << k, i, held, hw_fifo, cpu_fifo, arpRx, ipRx, udpRx, icmpRx, checksum, count,
             rx_fifo, cpuGot, ttyGot, appGot, appOpen >>

-----------------------------------------------------------------------------
(* Frames.  mine: target_mac is hw_mac; ok: IPRX's four tests; length: what the
   headers say of the payload; size: the bytes there are, padding included. *)

Beats(f) == CASE f.type = "ip" -> 2 + f.size [] f.type = "arp" -> 2 [] OTHER -> 1

Max16 == 65535  \* the largest value of 16 bits

RxAssumption ==
    /\ {MacFifoDepth, RxFifoDepth, ChecksumCycles} \subseteq Nat \ {0}
    /\ \A s \in Scripts : Len(s) \in Nat /\ DOMAIN s = 1 .. Len(s)
    /\ \A s \in Scripts : \A n \in DOMAIN s : s[n].type = "ip" =>
         /\ s[n].size \in 1 .. Max16 /\ s[n].length \in 0 .. Max16 - 8 /\ s[n].checksum \in 0 .. Max16
ASSUME RxAssumption

RxInit ==
    /\ mac \in {"crossbar", "filter"} /\ core \in {"full", "small"} /\ input \in Scripts
    /\ k = 1 /\ i = 1 /\ held = FALSE /\ hw_fifo = << >> /\ cpu_fifo = << >>
    /\ arpRx = "IDLE" /\ ipRx = "IDLE" /\ udpRx = "IDLE" /\ icmpRx = "IDLE"
    /\ checksum = 0 /\ count = 0 /\ rx_fifo = << >>
    /\ cpuGot = << >> /\ ttyGot = << >> /\ appGot = << >> /\ appOpen = << >>

\* The beat the stack's depacketizer gives the crossbar.  idle is who does not
\* take part in the cycle: "line", "cpu", "mac", "tty", "app" or nobody.
CoreValid(idle) == k <= Len(input) /\ (held \/ idle # "line")

HwValid(idle) == IF mac = "filter" THEN hw_fifo # << >> ELSE CoreValid(idle)
HwHead        == IF mac = "filter" THEN Head(hw_fifo) ELSE << k, i >>

F       == input[HwHead[1]]
Beat    == HwHead[2]
IsLast  == Beat = Beats(F)
HwByte  == << HwHead[1], Beat - 2 >>

-----------------------------------------------------------------------------
(* Crossbars: the Dispatcher, external, asks the parameter of the first beat;
   one user alone gets everything, whatever it is. *)

IpUser  == IF core = "small" THEN "udp" ELSE F.proto
UdpUser == IF core = "small" THEN "tty" ELSE F.port

\* valid at the users' depacketizers' sources.
IpValid(idle)    == HwValid(idle) /\ F.type = "ip" /\ Beat >= 2
UserValid(idle)  == IpValid(idle) /\ ipRx = "RECEIVE" /\ Beat >= 3
ToUdp(idle)      == UserValid(idle) /\ IpUser = "udp"
ToIcmp(idle)     == UserValid(idle) /\ IpUser = "icmp"
UdpSource(idle)  == ToUdp(idle) /\ udpRx = "RECEIVE"
EchoSink(idle)   == ToIcmp(idle) /\ icmpRx = "RECEIVE"

-----------------------------------------------------------------------------
(* ready, from the users back to the MAC.  In IDLE a receiver looks at the beat
   and leaves it. *)

\* The streamer's FIFO is asked for every datagram, also one it will not store.
TtyReady == Len(rx_fifo) < RxFifoDepth
TtyMine  == F.src = Partner /\ F.port = "tty"

UdpUserReady(idle) == CASE UdpUser = "tty" -> TtyReady
                        [] UdpUser = "app" -> idle # "app"
                        [] OTHER -> TRUE

StateReady(state, receives) == state = "DROP" \/ (state = "RECEIVE" /\ receives)

IpUserReady(idle, echoReady) ==
    \/ Beat = 2
    \/ CASE IpUser = "udp" -> StateReady(udpRx, UdpUserReady(idle))
         [] IpUser = "icmp" -> StateReady(icmpRx, echoReady)
         [] OTHER -> TRUE

HwReady(idle, echoReady) ==
    CASE F.type = "arp" -> Beat = 1 \/ arpRx = "TERMINATE"
      [] F.type = "ip" -> Beat = 1 \/ StateReady(ipRx, IpUserReady(idle, echoReady))
      [] OTHER -> TRUE

HwTakes(idle, echoReady) == HwValid(idle) /\ HwReady(idle, echoReady)

-----------------------------------------------------------------------------
(* LiteEthMACCoreCrossbar with hw_mac: each beat goes to both FIFOs in one cycle,
   or to the stack's alone if the frame is for hw_mac. *)

MacMatch == input[k].mine

\* Fault: beats move whether or not the CPU's FIFO has room.
RxReadyHw == Len(hw_fifo) < MacFifoDepth

RxReady == Len(hw_fifo) < MacFifoDepth /\ (Len(cpu_fifo) < MacFifoDepth \/ MacMatch)

CoreTakes(idle, echoReady) ==
    IF mac = "filter" THEN CoreValid(idle) /\ RxReady ELSE HwTakes(idle, echoReady)

CpuValid(idle) == CoreValid(idle) /\ RxReady /\ ~MacMatch

\* SyncFIFO, external: what comes when it is full is lost.
Fifo(q, depth, pops, pushed) ==
    (IF pops THEN Tail(q) ELSE q) \o (IF Len(q) < depth THEN pushed ELSE << >>)

Broadcast(idle, echoReady) ==
    LET takes   == CoreTakes(idle, echoReady)
        cpuPops == cpu_fifo # << >> /\ idle # "cpu"
        beat(v) == IF v THEN << << k, i >> >> ELSE << >>
    IN  /\ k' = IF takes /\ i = Beats(input[k]) THEN k + 1 ELSE k
        /\ i' = IF ~takes THEN i ELSE IF i = Beats(input[k]) THEN 1 ELSE i + 1
        /\ held' = (CoreValid(idle) /\ ~takes)
        /\ IF mac = "crossbar" THEN UNCHANGED << hw_fifo, cpu_fifo, cpuGot >>
           ELSE /\ hw_fifo' = Fifo(hw_fifo, MacFifoDepth, HwTakes(idle, echoReady), beat(takes))
                /\ cpu_fifo' = Fifo(cpu_fifo, MacFifoDepth, cpuPops, beat(CpuValid(idle)))
                /\ cpuGot' = IF cpuPops THEN Append(cpuGot, Head(cpu_fifo)) ELSE cpuGot

-----------------------------------------------------------------------------
(* The receivers. *)

\* Until the last beat is taken, in DROP as in RECEIVE.
UntilLast(state, takes) == IF takes /\ IsLast THEN "IDLE" ELSE state

\* ARPRX: source.valid is a pulse in CHECK.
ArpRxNext(idle, takes) ==
    CASE arpRx = "IDLE" -> IF HwValid(idle) /\ F.type = "arp" /\ Beat = 2 THEN "CHECK" ELSE "IDLE"
      [] arpRx = "CHECK" -> "TERMINATE"
      [] OTHER -> UntilLast(arpRx, takes)

IpRxNext(idle, takes) ==
    IF ipRx # "IDLE" THEN UntilLast(ipRx, takes)
    ELSE IF ~(IpValid(idle) /\ checksum = ChecksumCycles) THEN "IDLE"
    ELSE IF F.ok THEN "RECEIVE" ELSE "DROP"

\* Fault: the sum goes on when it is done.
ChecksumRunsOn(idle) == IF ~IpValid(idle) THEN 0 ELSE checksum + 1

\* reset while depacketizer.source is not valid.
ChecksumNext(idle) ==
    IF ~IpValid(idle) THEN 0 ELSE IF checksum = ChecksumCycles THEN checksum ELSE checksum + 1

IcmpRxNext(idle, takes) ==
    IF icmpRx # "IDLE" THEN UntilLast(icmpRx, takes)
    ELSE IF ToIcmp(idle) THEN "RECEIVE" ELSE "IDLE"

\* count == source.length - 1, at 16 bits: never met by a datagram without payload.
Cut == count = (F.length - 1) % 65536

UdpLast == IsLast \/ Cut

UdpRxNext(idle, takes) ==
    CASE udpRx = "IDLE" -> IF ~ToUdp(idle) THEN "IDLE" ELSE IF F.proto = "udp" THEN "RECEIVE" ELSE "DROP"
      [] udpRx = "RECEIVE" -> IF ~takes THEN "RECEIVE" ELSE IF IsLast THEN "IDLE"
                              ELSE IF Cut THEN "DROP" ELSE "RECEIVE"
      [] OTHER -> UntilLast(udpRx, takes)

\* Fault: the count goes on from one datagram to the next.
CountKept(takes) == IF takes /\ udpRx = "RECEIVE" THEN (count + 1) % 65536 ELSE count

CountNext(takes) == IF udpRx = "IDLE" THEN 0
                    ELSE IF takes /\ udpRx = "RECEIVE" THEN (count + 1) % 65536 ELSE count

\* The streamer, and the user behind it that reads when it likes.
Streamer(idle, stored) ==
    LET reads == rx_fifo # << >> /\ idle # "tty"
    IN  /\ rx_fifo' = Fifo(rx_fifo, RxFifoDepth, reads,
                            IF stored /\ TtyMine THEN << HwByte >> ELSE << >>)
        /\ ttyGot' = IF reads THEN Append(ttyGot, Head(rx_fifo)) ELSE ttyGot

\* The user of the other port sees where datagrams end.
App(given) ==
    /\ appOpen' = IF ~given THEN appOpen ELSE IF UdpLast THEN << >> ELSE Append(appOpen, HwByte)
    /\ appGot' = IF given /\ UdpLast THEN Append(appGot, Append(appOpen, HwByte)) ELSE appGot

RxNext(idle, echoReady) ==
    LET takes == HwTakes(idle, echoReady)
    IN  /\ Broadcast(idle, echoReady)
        /\ arpRx' = ArpRxNext(idle, takes)
        /\ ipRx' = IpRxNext(idle, takes) /\ checksum' = ChecksumNext(idle)
        /\ icmpRx' = IcmpRxNext(idle, takes)
        /\ udpRx' = UdpRxNext(idle, takes)
        /\ count' = CountNext(takes)
        /\ Streamer(idle, UdpSource(idle) /\ takes /\ UdpUser = "tty")
        /\ App(UdpSource(idle) /\ takes /\ UdpUser = "app")
        /\ UNCHANGED configVars
=============================================================================
