------------------------------ MODULE Etherbone ------------------------------
(***************************************************************************)
(* LiteEthEtherbone (liteeth/frontend/etherbone.py): the packets of a UDP  *)
(* port are dispatched to the probe or to the record receiver.  In master  *)
(* mode records become accesses of the Wishbone bus, and what reads return *)
(* is sent back as a record of writes.  In slave mode accesses of the bus  *)
(* become records, and a record of writes that comes in is the answer to   *)
(* the read that waits.  The stages are joined by valid/ready streams: a   *)
(* step is one transfer or one FSM transition.                             *)
(***************************************************************************)
EXTENDS Integers, Sequences, FiniteSets

CONSTANTS
    Modes,       \* of "master", "slave"
    Hosts,       \* IP addresses of the hosts that send packets
    Kinds,       \* the packets they send: [type, wcount, rcount]
    FifoDepth,   \* words a PacketFIFO holds
    ParamDepth,  \* whole packets a PacketFIFO holds
    ProbeWords,  \* words of a probe
    Ids          \* records are numbered modulo Ids

Types == {"record", "probe", "other"}

\* A record is its base address and the words to write, then the base return
\* address and the addresses to read; either part may be missing.
WritePart(p) == IF p.wcount > 0 THEN p.wcount + 1 ELSE 0
ReadPart(p)  == IF p.rcount > 0 THEN p.rcount + 1 ELSE 0
Length(p) == WritePart(p) + ReadPart(p)

\* A record must fit: PacketFIFO gives out a packet once it has all of it.
EtherboneAssumption ==
    /\ Modes \subseteq {"master", "slave"}
    /\ FifoDepth \in Nat \ {0} /\ ParamDepth \in Nat \ {0}
    /\ ProbeWords \in Nat \ {0} /\ Ids \in Nat \ {0}
    /\ Kinds \subseteq [type : Types, wcount : Nat, rcount : Nat]
    /\ \A k \in Kinds : k.type = "record" => Length(k) \in 1 .. FifoDepth
ASSUME EtherboneAssumption

VARIABLES
    rxState, rxPkt, rxIndex,       \* LiteEthEtherbonePacketRX and the words it passed
    probeState,                    \* LiteEthEtherboneProbe
    last_ip_address,
    rxFifo, rcvState, base, count, \* LiteEthEtherboneRecordReceiver
    mode,                          \* fixed when the core is generated
    wbState, dat_r,                \* LiteEthEtherboneWishboneMaster, or Slave
    access,                        \* what the bus asks the slave for, if pending
    txFifo, sndState,              \* LiteEthEtherboneRecordSender
    txOwner,                       \* Arbiter and LiteEthEtherbonePacketTX
    asked, lost,                   \* a read on its way to a host and back; one was lost
    overtaken                      \* history: another host's record came in meanwhile

netVars == << asked, lost >>
rxVars  == << rxState, rxPkt, rxIndex, probeState, last_ip_address, overtaken, netVars >>
rcvVars == << rxFifo, rcvState, base, count >>
cpuVars == << mode, access >>
wbVars  == << wbState, dat_r, cpuVars >>
sndVars == << txFifo, sndState >>
vars == << rxVars, rcvVars, wbVars, sndVars, txOwner >>

Sent == {[id |-> n, host |-> h, type |-> k.type, wcount |-> k.wcount, rcount |-> k.rcount] :
              n \in 0 .. Ids - 1, h \in Hosts, k \in Kinds}

\* A host answers the slave's read with a record of one write.
Answer(n, h) == [id |-> n, host |-> h, type |-> "record", wcount |-> 1, rcount |-> 0]

Packets == Sent \cup {Answer(n, h) : n \in 0 .. Ids - 1, h \in Hosts}

\* The i-th word of a packet, from 1; last is its bit in the stream.
Word(p, i) == [pkt |-> p, i |-> i, last |-> i = Length(p)]
Words == UNION {{Word(p, i) : i \in 1 .. Length(p)} : p \in {q \in Packets : q.type = "record"}}

\* A word of the stream back: what was read, and the parameters of its packet.
Replies == [word : Words, base : Words, count : Nat, last : BOOLEAN]

\* The slave's accesses, numbered, and the words it sends for them.
CpuAccesses == [pending : BOOLEAN, we : BOOLEAN, id : 0 .. Ids - 1]
Requests == [access : CpuAccesses, last : {TRUE}]

None == "none"

\* Nothing on the wire since record n; nothing in a register yet.
NoPacket(n) == [id |-> n, host |-> None, type |-> None, wcount |-> 0, rcount |-> 0]
NoWord == [pkt |-> NoPacket(0), i |-> 0, last |-> FALSE]

TypeOK ==
    /\ rxState \in {"IDLE", "RECEIVE", "DROP"}
    /\ rxPkt \in Packets \cup {NoPacket(n) : n \in 0 .. Ids - 1}
    /\ rxIndex \in 0 .. FifoDepth + ProbeWords
    /\ probeState \in {"IDLE", "PROBE_RESPONSE"}
    /\ last_ip_address \in Hosts \cup {None}
    /\ rxFifo \in Seq(Words) /\ Len(rxFifo) <= FifoDepth
    /\ rcvState \in {"IDLE", "RECEIVE_WRITES", "RECEIVE_BASE_RET_ADDR", "RECEIVE_READS"}
    /\ base \in Words \cup {NoWord}
    /\ count \in 0 .. FifoDepth
    /\ wbState \in IF mode = "master" THEN {"IDLE", "WRITE_DATA", "READ_DATA", "SEND_DATA"}
                   ELSE {"IDLE", "SEND_WRITE", "SEND_READ", "WAIT_READ"}
    /\ access \in CpuAccesses
    /\ asked \in Packets \cup {NoPacket(0)} /\ lost \in BOOLEAN
    /\ dat_r \in Words \cup {NoWord}
    /\ txFifo \in Seq(IF mode = "master" THEN Replies ELSE Requests) /\ Len(txFifo) <= FifoDepth
    /\ sndState \in {"IDLE", "SEND_BASE_ADDRESS", "SEND_DATA"}
    /\ txOwner \in {None, "probe", "record"}
    /\ overtaken \in BOOLEAN

Init ==
    /\ rxState = "IDLE" /\ rxPkt = NoPacket(0) /\ rxIndex = 0
    /\ probeState = "IDLE"
    /\ last_ip_address = None
    /\ rxFifo = << >> /\ rcvState = "IDLE" /\ base = NoWord /\ count = 0
    /\ mode \in Modes /\ wbState = "IDLE" /\ dat_r = NoWord
    /\ access = [pending |-> FALSE, we |-> FALSE, id |-> 0]
    /\ asked = NoPacket(0) /\ lost = FALSE
    /\ txFifo = << >> /\ sndState = "IDLE"
    /\ txOwner = None
    /\ overtaken = FALSE

-----------------------------------------------------------------------------
(* PacketFIFO: it takes a word while it has room for the word and for the
   packet's parameters, and gives out a packet once it has its last word. *)

HasRoom(fifo) ==
    /\ Len(fifo) < FifoDepth
    /\ Cardinality({k \in DOMAIN fifo : fifo[k].last}) < ParamDepth

Whole(fifo) == \E k \in DOMAIN fifo : fifo[k].last

-----------------------------------------------------------------------------
(* LiteEthEtherbonePacketRX, the dispatcher and the probe. *)

\* A packet whose magic is not Etherbone's is dropped.  Nobody writes to a slave
\* unasked: it would take any write for the answer.
RxIdle ==
    /\ rxState = "IDLE"
    /\ \E p \in Sent :
         /\ mode = "slave" => p.wcount = 0
         /\ p.id = IF p.type = "record" THEN (rxPkt.id + 1) % Ids ELSE rxPkt.id
         /\ rxPkt' = p
         /\ rxState' = IF p.type = "other" THEN "DROP" ELSE "RECEIVE"
    /\ UNCHANGED << rxIndex, probeState, last_ip_address, overtaken, netVars >>
    /\ UNCHANGED << rcvVars, wbVars, sndVars, txOwner >>

\* The network brings the answer to a read, or loses one or the other.
RxAnswer ==
    /\ asked.host # None
    /\ asked' = NoPacket(0)
    /\ \/ /\ rxState = "IDLE" /\ rxState' = "RECEIVE"
          /\ rxPkt' = Answer(asked.id, asked.host) /\ UNCHANGED lost
       \/ lost' = TRUE /\ UNCHANGED << rxState, rxPkt >>
    /\ UNCHANGED << rxIndex, probeState, last_ip_address, overtaken >>
    /\ UNCHANGED << rcvVars, wbVars, sndVars, txOwner >>

RxDrop ==
    /\ rxState = "DROP"
    /\ rxState' = "IDLE" /\ rxPkt' = NoPacket(rxPkt.id)
    /\ UNCHANGED << rxIndex, probeState, last_ip_address, overtaken, netVars >>
    /\ UNCHANGED << rcvVars, wbVars, sndVars, txOwner >>

Receives(type) == rxState = "RECEIVE" /\ rxPkt.type = type

\* A record of an earlier packet is still being served.
Busy == rxFifo # << >> \/ txFifo # << >> \/ rcvState # "IDLE" \/ wbState # "IDLE"

\* Fault: first is not set again.
SavesOnce == last_ip_address = None

\* first: set by reset and by each last word.
SavesAddress == rxIndex = 0

SaveAddress ==
    last_ip_address' = IF SavesAddress THEN rxPkt.host ELSE last_ip_address

\* The record's header stays in the depacketizer, which takes it at any time.
RecordHeader ==
    /\ Receives("record") /\ rxIndex = 0
    /\ rxIndex' = 1
    /\ SaveAddress
    /\ overtaken' = (Busy /\ (overtaken \/ rxPkt.host # last_ip_address))
    /\ UNCHANGED << rxState, rxPkt, probeState, netVars, rcvVars, wbVars, sndVars, txOwner >>

RecordWord ==
    /\ Receives("record") /\ rxIndex # 0
    /\ HasRoom(rxFifo)
    /\ rxFifo' = Append(rxFifo, Word(rxPkt, rxIndex))
    /\ IF rxIndex = Length(rxPkt)
       THEN rxState' = "IDLE" /\ rxPkt' = NoPacket(rxPkt.id) /\ rxIndex' = 0
       ELSE rxIndex' = rxIndex + 1 /\ UNCHANGED << rxState, rxPkt >>
    /\ SaveAddress
    /\ UNCHANGED << probeState, overtaken, netVars, rcvState, base, count, wbVars, sndVars, txOwner >>

ProbeIdle ==
    /\ Receives("probe") /\ probeState = "IDLE"
    /\ probeState' = "PROBE_RESPONSE"
    /\ UNCHANGED << rxState, rxPkt, rxIndex, last_ip_address, overtaken, netVars >>
    /\ UNCHANGED << rcvVars, wbVars, sndVars, txOwner >>

\* The probe's words go straight through to the packet transmitter.
ProbeWord ==
    /\ Receives("probe") /\ probeState = "PROBE_RESPONSE" /\ txOwner = "probe"
    /\ IF rxIndex = ProbeWords - 1
       THEN /\ rxState' = "IDLE" /\ rxPkt' = NoPacket(rxPkt.id) /\ rxIndex' = 0
            /\ probeState' = "IDLE" /\ txOwner' = None
       ELSE rxIndex' = rxIndex + 1 /\ UNCHANGED << rxState, rxPkt, probeState, txOwner >>
    /\ UNCHANGED << last_ip_address, overtaken, netVars, rcvVars, wbVars, sndVars >>

-----------------------------------------------------------------------------
(* LiteEthEtherboneRecordReceiver.  The word it presents to the bus master is
   the head of its FIFO; the packet's counts come with each of its words. *)

HeadPacket == Head(rxFifo).pkt

\* Fault: the count of the last record is kept.
CountKept == count

CountReset == 0

\* A base address is taken from the FIFO in IDLE; the base return address that
\* follows the writes is looked at, and stays there.
RcvBase ==
    /\ rcvState \in {"IDLE", "RECEIVE_BASE_RET_ADDR"} /\ Whole(rxFifo)
    /\ base' = Head(rxFifo)
    /\ count' = CountReset
    /\ IF rcvState = "IDLE"
       THEN /\ rxFifo' = Tail(rxFifo)
            /\ rcvState' = IF HeadPacket.wcount > 0 THEN "RECEIVE_WRITES" ELSE "RECEIVE_READS"
       ELSE rcvState' = "RECEIVE_READS" /\ UNCHANGED rxFifo
    /\ UNCHANGED << rxVars, wbVars, sndVars, txOwner >>

Presents(state) == rcvState = state /\ Whole(rxFifo)
LastWrite == count = HeadPacket.wcount - 1
LastRead  == count = HeadPacket.rcount - 1

\* source.valid & source.ready.  A base that is not looked at again is forgotten,
\* as is what the bus read.
Taken(last, next) ==
    /\ rxFifo' = Tail(rxFifo)
    /\ count' = count + 1
    /\ rcvState' = IF last THEN next ELSE rcvState
    /\ base' = IF rcvState' = "IDLE" THEN NoWord ELSE base

TakenWrite == Taken(LastWrite, IF HeadPacket.rcount > 0 THEN "RECEIVE_BASE_RET_ADDR" ELSE "IDLE")
TakenRead  == Taken(LastRead, "IDLE")

-----------------------------------------------------------------------------
(* LiteEthEtherboneWishboneMaster.  The bus acknowledges in the end. *)

WbIdle ==
    /\ mode = "master" /\ wbState = "IDLE"
    /\ \/ Presents("RECEIVE_WRITES") /\ wbState' = "WRITE_DATA"
       \/ Presents("RECEIVE_READS") /\ wbState' = "READ_DATA"
    /\ UNCHANGED << rxVars, rcvVars, dat_r, cpuVars, sndVars, txOwner >>

\* bus.stb & bus.ack
WbWrite ==
    /\ wbState = "WRITE_DATA" /\ Presents("RECEIVE_WRITES")
    /\ wbState' = IF LastWrite THEN "IDLE" ELSE "WRITE_DATA"
    /\ TakenWrite
    /\ UNCHANGED << rxVars, dat_r, cpuVars, sndVars, txOwner >>

WbRead ==
    /\ wbState = "READ_DATA" /\ Presents("RECEIVE_READS")
    /\ dat_r' = Head(rxFifo)
    /\ wbState' = "SEND_DATA"
    /\ UNCHANGED << rxVars, rcvVars, cpuVars, sndVars, txOwner >>

\* Fault: the next word is sent without a bus access.
AfterSendStays == IF LastRead THEN "IDLE" ELSE "SEND_DATA"

AfterSend == IF LastRead THEN "IDLE" ELSE "READ_DATA"

WbSend ==
    /\ wbState = "SEND_DATA" /\ Presents("RECEIVE_READS") /\ HasRoom(txFifo)
    /\ txFifo' = Append(txFifo, [word |-> dat_r, base |-> base,
                                 count |-> HeadPacket.rcount, last |-> LastRead])
    /\ wbState' = AfterSend
    /\ dat_r' = NoWord
    /\ TakenRead
    /\ UNCHANGED << rxVars, cpuVars, sndState, txOwner >>

-----------------------------------------------------------------------------
(* LiteEthEtherboneWishboneSlave.  The bus holds an access until it is
   acknowledged; a write is as soon as the record sender has it. *)

CpuAsks ==
    /\ mode = "slave" /\ ~access.pending
    /\ \E we \in BOOLEAN : access' = [pending |-> TRUE, we |-> we, id |-> (access.id + 1) % Ids]
    /\ UNCHANGED << rxVars, rcvVars, mode, wbState, dat_r, sndVars, txOwner >>

Acknowledge == access' = [access EXCEPT !.pending = FALSE]

SlaveSend ==
    /\ wbState \in {"SEND_WRITE", "SEND_READ"} /\ HasRoom(txFifo)
    /\ txFifo' = Append(txFifo, [access |-> access, last |-> TRUE])
    /\ IF access.we THEN Acknowledge /\ wbState' = "IDLE"
       ELSE UNCHANGED access /\ wbState' = "WAIT_READ"
    /\ UNCHANGED << rxVars, rcvVars, mode, dat_r, sndState, txOwner >>

\* Fault: whatever comes in is the answer.
AnythingSeen == TRUE

\* sink.we
AnswerSeen == rcvState = "RECEIVE_WRITES"

SlaveTakes ==
    \/ Presents("RECEIVE_WRITES") /\ TakenWrite
    \/ Presents("RECEIVE_READS") /\ TakenRead

\* What comes in is thrown away, also in the cycle in which an access is seen.
SlaveDrops ==
    /\ mode = "slave" /\ wbState = "IDLE" /\ SlaveTakes
    /\ UNCHANGED << rxVars, wbVars, sndVars, txOwner >>

SlaveIdle ==
    /\ mode = "slave" /\ wbState = "IDLE" /\ access.pending
    /\ wbState' = IF access.we THEN "SEND_WRITE" ELSE "SEND_READ"
    /\ IF Presents("RECEIVE_WRITES") \/ Presents("RECEIVE_READS") THEN SlaveTakes ELSE UNCHANGED rcvVars
    /\ UNCHANGED << rxVars, dat_r, cpuVars, sndVars, txOwner >>

\* Words are thrown away until the answer is seen.
SlaveWaitRead ==
    /\ wbState = "WAIT_READ" /\ SlaveTakes
    /\ IF AnswerSeen THEN Acknowledge /\ wbState' = "IDLE" ELSE UNCHANGED << access, wbState >>
    /\ UNCHANGED << rxVars, mode, dat_r, sndVars, txOwner >>

-----------------------------------------------------------------------------
(* LiteEthEtherboneRecordSender; the arbiter in front of the packet transmitter,
   which serves one of probe and record sender up to its last word. *)

Grant ==
    /\ txOwner = None
    /\ \/ probeState = "PROBE_RESPONSE" /\ txOwner' = "probe"
       \/ sndState = "SEND_BASE_ADDRESS" /\ txOwner' = "record"
    /\ UNCHANGED << rxVars, rcvVars, wbVars, sndVars >>

SndIdle ==
    /\ sndState = "IDLE" /\ Whole(txFifo)
    /\ sndState' = "SEND_BASE_ADDRESS"
    /\ UNCHANGED << rxVars, rcvVars, wbVars, txFifo, txOwner >>

SndBaseAddress ==
    /\ sndState = "SEND_BASE_ADDRESS" /\ txOwner = "record"
    /\ sndState' = "SEND_DATA"
    /\ UNCHANGED << rxVars, rcvVars, wbVars, txFifo, txOwner >>

\* Fault: the arbiter stays with the record sender.
OwnerKept == txOwner

\* The arbiter is free after a last word.
OwnerAfterLast == None

\* A slave's read that has left; before any record came in, its address is nobody's.
Leaves(request) ==
    IF mode = "master" \/ request.access.we THEN UNCHANGED netVars
    ELSE IF last_ip_address = None THEN lost' = TRUE /\ UNCHANGED asked
    ELSE asked' = Answer(request.access.id, last_ip_address) /\ UNCHANGED lost

SndData ==
    /\ sndState = "SEND_DATA" /\ txOwner = "record"
    /\ txFifo' = Tail(txFifo)
    /\ Leaves(Head(txFifo))
    /\ IF Head(txFifo).last
       THEN sndState' = "IDLE" /\ txOwner' = OwnerAfterLast
       ELSE UNCHANGED << sndState, txOwner >>
    /\ UNCHANGED << rxState, rxPkt, rxIndex, probeState, last_ip_address, overtaken, rcvVars, wbVars >>

RxStep  == RxDrop \/ RecordHeader \/ RecordWord \/ ProbeIdle \/ ProbeWord
BusStep == RcvBase \/ WbIdle \/ WbWrite \/ WbRead \/ WbSend \/ SlaveDrops \/ SlaveWaitRead
CpuStep == SlaveIdle \/ SlaveSend
SndStep == SndIdle \/ SndBaseAddress \/ SndData

Next == RxIdle \/ RxAnswer \/ RxStep \/ BusStep \/ CpuAsks \/ CpuStep \/ SndStep \/ Grant

\* The network need not send, but what it has it brings or loses.  Every stage is
\* clocked, the bus acknowledges and UDP takes words in the end, and the arbiter
\* goes round.
Fairness ==
    /\ WF_vars(RxStep) /\ WF_vars(BusStep) /\ WF_vars(CpuStep) /\ WF_vars(SndStep)
    /\ WF_vars(RxAnswer)
    /\ SF_vars(Grant /\ txOwner' = "probe") /\ SF_vars(Grant /\ txOwner' = "record")

Spec == Init /\ [][Next]_vars
FairSpec == Spec /\ Fairness

-----------------------------------------------------------------------------
(* Properties. *)

\* What a record asks for with one of its words.
IsWrite(w) == w.i \in 2 .. WritePart(w.pkt)
IsRead(w)  == w.i > WritePart(w.pkt) + 1
Asked(w) ==
    IF IsWrite(w)
    THEN [we |-> TRUE, base |-> Word(w.pkt, 1), offset |-> w.i - 2, word |-> w]
    ELSE [we |-> FALSE, base |-> Word(w.pkt, WritePart(w.pkt) + 1),
          offset |-> w.i - WritePart(w.pkt) - 2, word |-> w]

\* What a sequence of words asks for; bases ask for nothing.
Extended(ops, w) == IF IsWrite(w) \/ IsRead(w) THEN Append(ops, Asked(w)) ELSE ops

AskedBy(words) ==
    LET ops[k \in 0 .. Len(words)] ==
          IF k = 0 THEN << >> ELSE Extended(ops[k - 1], words[k])
    IN  ops[Len(words)]

\* The answer to a read goes to the base return address of its own record, in a
\* packet with as many words as the record has reads.
AnswerTo(op) == [word |-> op.word, base |-> op.base, count |-> op.word.pkt.rcount,
                 last |-> op.word.last]

\* The word the bus has read, and which still heads the FIFO, is no longer to do.
ReadDone == IF wbState = "SEND_DATA" THEN << Head(rxFifo) >> ELSE << >>
ToDo == IF wbState = "SEND_DATA" THEN Tail(rxFifo) ELSE rxFifo
Replied == [k \in DOMAIN txFifo |-> txFifo[k].word]

\* bus.stb: what the access does, the word its address counts from, how far, and
\* the word that is written, or is the address to read.
Bus ==
    IF \/ wbState = "WRITE_DATA" /\ Presents("RECEIVE_WRITES")
       \/ wbState = "READ_DATA" /\ Presents("RECEIVE_READS")
    THEN << [we |-> wbState = "WRITE_DATA", base |-> base, offset |-> count,
             word |-> Head(rxFifo)] >>
    ELSE << >>

Reply == IF mode = "master" /\ sndState = "SEND_DATA" /\ txOwner = "record" THEN << Head(txFifo) >> ELSE << >>

Accesses == {Asked(w) : w \in {v \in Words : IsWrite(v) \/ IsRead(v)}}

\* The accesses still to perform, and the reads still to answer.
Pending == IF mode = "master" THEN AskedBy(ToDo) ELSE << >>
Owed    == IF mode = "master" THEN AskedBy(Replied \o ReadDone) ELSE << >>

Server == INSTANCE EtherboneServer WITH
            Ops <- Accesses, Answer <- AnswerTo,
            todo <- Pending, owed <- Owed, bus <- Bus, reply <- Reply

\* The bridge performs what records ask for, in order and once, and sends back
\* what reads returned, each word under its own record's parameters.
ServesRecords == Server!Spec

\* A response goes to the host that asked, unless a record of another host came
\* in while it was being served; a probe never redirects it.
AddressedToAsker ==
    mode = "master" /\ txOwner = "record" /\ ~overtaken => last_ip_address = Head(txFifo).word.pkt.host

\* A read of the slave returns what a host answered to this very read, although
\* foreign records, those with addresses to read among them, come in at any time
\* between question and answer (WAIT_READ, etherbone.py:453-460).
ReadReturnsAnswer ==
    [][access.pending /\ ~access.we /\ ~access'.pending =>
         Head(rxFifo).pkt = Answer(access.id, Head(rxFifo).pkt.host) /\ Head(rxFifo).i = 2]_vars

\* Every packet is taken and every record is served to the end: no FIFO, no bus
\* access and no turn of the arbiter is waited for in a circle.  An access of the
\* slave ends unless a datagram was lost, which WAIT_READ waits for for ever.
InRxFifo(n) == \E k \in DOMAIN rxFifo : rxFifo[k].pkt.id = n
InTxFifo(n) ==
    \E k \in DOMAIN txFifo :
        (IF mode = "master" THEN txFifo[k].word.pkt.id ELSE txFifo[k].access.id) = n

EveryPacketServed ==
    /\ rxState # "IDLE" ~> rxState = "IDLE"
    /\ \A n \in 0 .. Ids - 1 : (InRxFifo(n) ~> ~InRxFifo(n)) /\ (InTxFifo(n) ~> ~InTxFifo(n))
    /\ access.pending ~> ~access.pending \/ lost

-----------------------------------------------------------------------------
(* Why they hold, where no record has both parts (with both, ServesRecords does
   not hold). *)

OnePart(p) == p.wcount = 0 \/ p.rcount = 0

Receiving == Receives("record") /\ rxIndex > 1

\* The packet receiver: how far it is with its packet, and who sent it.
ReceiverInv ==
    /\ mode \in Modes
    /\ rxState = "RECEIVE" => rxPkt \in Packets /\ rxPkt.type \in {"record", "probe"}
    /\ rxState # "RECEIVE" => rxIndex = 0
    /\ Receives("record") => rxIndex <= Length(rxPkt) /\ OnePart(rxPkt)
    /\ Receives("probe") => rxIndex < ProbeWords
    /\ Receives("record") /\ rxIndex > 0 => last_ip_address = rxPkt.host

\* The words of the FIFO are whole packets, one behind the other, and the first words
\* of the one that is coming in.
Follows(w, v) == IF w.last THEN v.i = 1 ELSE v = Word(w.pkt, w.i + 1)

Chained(words) == \A k \in 1 .. Len(words) - 1 : Follows(words[k], words[k + 1])

FifoInv ==
    /\ \A k \in DOMAIN rxFifo : OnePart(rxFifo[k].pkt)
    /\ Chained(rxFifo)
    /\ rxFifo # << >> =>
         IF Receiving THEN rxFifo[Len(rxFifo)] = Word(rxPkt, rxIndex - 1) ELSE rxFifo[Len(rxFifo)].last
    /\ Receiving => rxFifo # << >>

\* The record receiver: the word at the head is the one count is at.
RecordInv ==
    /\ rcvState \in {"IDLE", "RECEIVE_WRITES", "RECEIVE_READS"}
    /\ rcvState = "IDLE" /\ rxFifo # << >> => Head(rxFifo).i = 1
    /\ rcvState # "IDLE" =>
         /\ Whole(rxFifo) /\ base = Word(HeadPacket, 1) /\ Head(rxFifo).i = count + 2
         /\ count < IF rcvState = "RECEIVE_WRITES" THEN HeadPacket.wcount ELSE HeadPacket.rcount

\* The bus master serves the record at the head; an answer is that of its word.
MasterInv ==
    mode = "master" =>
        /\ wbState = "WRITE_DATA" => rcvState = "RECEIVE_WRITES"
        /\ wbState \in {"READ_DATA", "SEND_DATA"} => rcvState = "RECEIVE_READS"
        /\ wbState = "SEND_DATA" => dat_r = Head(rxFifo)
        /\ \A k \in DOMAIN txFifo :
             /\ IsRead(txFifo[k].word) /\ OnePart(txFifo[k].word.pkt)
             /\ txFifo[k] = AnswerTo(Asked(txFifo[k].word))

\* The record sender has a packet until it has sent the last word of it.
SenderInv ==
    /\ sndState # "IDLE" => Whole(txFifo)
    /\ txOwner = "record" => sndState # "IDLE"

\* Records underway are those of the host whose address is kept.
HostInv ==
    mode = "master" /\ ~overtaken =>
        /\ \A k \in DOMAIN rxFifo : rxFifo[k].pkt.host = last_ip_address
        /\ \A k \in DOMAIN txFifo : txFifo[k].word.pkt.host = last_ip_address

\* What a read of the slave is: a request to be sent, a question on the network, a
\* packet that comes in, the last word of a record; one of them, once.
ReadsInTx   == {k \in DOMAIN txFifo : ~txFifo[k].access.we}
Awaited     == asked.host # None
Coming      == Receives("record") /\ rxPkt.wcount > 0
AnswersInRx == {k \in DOMAIN rxFifo : rxFifo[k].pkt.wcount > 0 /\ rxFifo[k].last}

IsAnswer(p) == p = Answer(access.id, p.host)

SlaveInv ==
    mode = "slave" =>
        /\ wbState \in {"SEND_READ", "WAIT_READ"} => access.pending /\ ~access.we
        /\ wbState = "SEND_WRITE" => access.pending /\ access.we
        /\ \A j, k \in ReadsInTx : j = k
        /\ \A j, k \in AnswersInRx : j = k
        /\ ReadsInTx # {} => ~Awaited /\ ~Coming /\ AnswersInRx = {}
        /\ Awaited => ~Coming /\ AnswersInRx = {}
        /\ Coming => AnswersInRx = {}
        /\ ReadsInTx # {} \/ Awaited \/ Coming \/ AnswersInRx # {} => wbState = "WAIT_READ"
        /\ \A k \in ReadsInTx : txFifo[k].access.id = access.id
        /\ Awaited => IsAnswer(asked)
        /\ Coming => IsAnswer(rxPkt)
        /\ \A k \in AnswersInRx : IsAnswer(rxFifo[k].pkt)
        /\ \A k \in DOMAIN rxFifo : rxFifo[k].pkt.wcount \in {0, 1}

\* The access on the bus is the one the word at the head asks for.
BusInv == Bus # << >> => Bus = << Asked(Head(rxFifo)) >>
=============================================================================
