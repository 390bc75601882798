--------------------------- MODULE EtherboneProofs ---------------------------
(***************************************************************************)
(* Theorems about Etherbone, in master and slave mode, for any hosts, any  *)
(* records of one part that fit the packet FIFOs, and any depths of them.  *)
(***************************************************************************)
EXTENDS Etherbone, SetInduction

\* Records write or read, not both: the receiver does not serve those that do (the run
\* etherbone_mixed shows what becomes of them).
Unmixed == \A k \in Kinds : OnePart(k)

-----------------------------------------------------------------------------
(* Packets and words. *)

LEMMA BoundFacts ==
    FifoDepth \in Nat \ {0} /\ ProbeWords \in Nat \ {0} /\ Ids \in Nat \ {0} /\ 0 \in 0 .. Ids - 1
  BY EtherboneAssumption DEF EtherboneAssumption

LEMMA SentFacts ==
    ASSUME NEW p \in Sent
    PROVE  /\ p.id \in 0 .. Ids - 1 /\ p.host \in Hosts /\ p.type \in Types
           /\ p.wcount \in Nat /\ p.rcount \in Nat
           /\ p.type = "record" => Length(p) \in 1 .. FifoDepth
           /\ Unmixed => OnePart(p)
<1>1. PICK n \in 0 .. Ids - 1, h \in Hosts, k \in Kinds :
        p = [id |-> n, host |-> h, type |-> k.type, wcount |-> k.wcount, rcount |-> k.rcount]
  BY DEF Sent
<1>2. k \in [type : Types, wcount : Nat, rcount : Nat] /\ (k.type = "record" => Length(k) \in 1 .. FifoDepth)
  BY EtherboneAssumption DEF EtherboneAssumption
<1>3. p.type = k.type /\ p.wcount = k.wcount /\ p.rcount = k.rcount /\ p.id = n /\ p.host = h
  BY <1>1
<1>4. Length(p) = Length(k)
  BY <1>3 DEF Length, WritePart, ReadPart
<1>5. Unmixed => OnePart(p)
  BY <1>3 DEF Unmixed, OnePart
<1>6. QED
  BY <1>2, <1>3, <1>4, <1>5

LEMMA AnswerFacts ==
    ASSUME NEW n, NEW h
    PROVE  /\ Answer(n, h).id = n /\ Answer(n, h).host = h /\ Answer(n, h).type = "record"
           /\ Answer(n, h).wcount = 1 /\ Answer(n, h).rcount = 0
           /\ Length(Answer(n, h)) = 2 /\ OnePart(Answer(n, h))
<1>1. /\ Answer(n, h).id = n /\ Answer(n, h).host = h /\ Answer(n, h).type = "record"
      /\ Answer(n, h).wcount = 1 /\ Answer(n, h).rcount = 0
  BY DEF Answer
<1>2. Length(Answer(n, h)) = 2
  BY <1>1 DEF Length, WritePart, ReadPart
<1>3. QED
  BY <1>1, <1>2 DEF OnePart

LEMMA PacketFacts ==
    ASSUME NEW p \in Packets
    PROVE  /\ p.id \in 0 .. Ids - 1 /\ p.host \in Hosts /\ p.type \in Types
           /\ p.wcount \in Nat /\ p.rcount \in Nat /\ Length(p) \in Nat
           /\ p.type = "record" => Length(p) >= 1 /\ Length(p) < FifoDepth + ProbeWords + 1
           /\ p.type = "record" => p.wcount <= FifoDepth /\ p.rcount <= FifoDepth
<1>1. /\ p.id \in 0 .. Ids - 1 /\ p.host \in Hosts /\ p.type \in Types
      /\ p.wcount \in Nat /\ p.rcount \in Nat
      /\ p.type = "record" => Length(p) \in 1 .. FifoDepth \/ (Length(p) = 2 /\ p.wcount = 1 /\ p.rcount = 0)
  <2>1. CASE p \in Sent
    BY <2>1, SentFacts
  <2>2. CASE p \notin Sent
    <3>1. PICK n \in 0 .. Ids - 1, h \in Hosts : p = Answer(n, h)
      BY <2>2 DEF Packets
    <3>2. QED
      BY <3>1, AnswerFacts DEF Types
  <2>3. QED
    BY <2>1, <2>2
<1>2. /\ Length(p) = (IF p.wcount > 0 THEN p.wcount + 1 ELSE 0) + (IF p.rcount > 0 THEN p.rcount + 1 ELSE 0)
  BY DEF Length, WritePart, ReadPart
<1>3. QED
  BY <1>1, <1>2, BoundFacts

\* A record of one part is its base and the words behind it.
LEMMA OnePartFacts ==
    ASSUME NEW p \in Packets, p.type = "record", OnePart(p)
    PROVE  /\ Length(p) >= 2
           /\ p.wcount > 0 => p.rcount = 0 /\ Length(p) = p.wcount + 1 /\ WritePart(p) = p.wcount + 1
           /\ p.rcount > 0 => p.wcount = 0 /\ Length(p) = p.rcount + 1 /\ WritePart(p) = 0
           /\ p.wcount = 0 => p.rcount > 0
           /\ p.rcount = 0 => p.wcount > 0
<1>1. p.wcount \in Nat /\ p.rcount \in Nat /\ Length(p) >= 1
  BY PacketFacts
<1>2. p.wcount = 0 \/ p.rcount = 0
  BY DEF OnePart
<1>3. QED
  BY <1>1, <1>2 DEF Length, WritePart, ReadPart

LEMMA WordIs ==
    ASSUME NEW p, NEW i
    PROVE  /\ Word(p, i).pkt = p /\ Word(p, i).i = i
           /\ Word(p, i).last <=> i = Length(p)
  BY DEF Word

LEMMA WordIn ==
    ASSUME NEW p \in Packets, p.type = "record", NEW i \in 1 .. Length(p)
    PROVE  Word(p, i) \in Words
  BY DEF Words

LEMMA WordFacts ==
    ASSUME NEW w \in Words
    PROVE  /\ w.pkt \in Packets /\ w.pkt.type = "record" /\ w.i \in 1 .. Length(w.pkt)
           /\ w = Word(w.pkt, w.i)
           /\ w.last <=> w.i = Length(w.pkt)
           /\ w.last \in BOOLEAN
<1>1. PICK p \in Packets : p.type = "record" /\ \E i \in 1 .. Length(p) : w = Word(p, i)
  BY DEF Words
<1>a. PICK i \in 1 .. Length(p) : w = Word(p, i)
  BY <1>1
<1>2. w.pkt = p /\ w.i = i /\ (w.last <=> i = Length(p))
  BY <1>a, WordIs
<1>3. w.last \in BOOLEAN
  BY <1>a DEF Word
<1>4. QED
  BY <1>1, <1>a, <1>2, <1>3

LEMMA RoomFacts ==
    ASSUME NEW fifo, HasRoom(fifo) PROVE Len(fifo) < FifoDepth
  BY DEF HasRoom

-----------------------------------------------------------------------------
(* The packet FIFOs. *)

LEMMA TailFacts ==
    ASSUME NEW S, NEW q \in Seq(S), q # << >>
    PROVE  /\ Len(q) \in Nat \ {0} /\ Head(q) = q[1] /\ Head(q) \in S
           /\ Tail(q) \in Seq(S) /\ Len(Tail(q)) = Len(q) - 1
           /\ DOMAIN q = 1 .. Len(q) /\ DOMAIN Tail(q) = 1 .. Len(q) - 1
           /\ \A k \in DOMAIN Tail(q) : k + 1 \in DOMAIN q /\ Tail(q)[k] = q[k + 1]
<1>1. Len(q) \in Nat \ {0} /\ Head(q) = q[1]
  BY EmptySeq, LenProperties
<1>2. Head(q) \in S /\ Tail(q) \in Seq(S) /\ Len(Tail(q)) = Len(q) - 1
  BY HeadTailProperties
<1>3. DOMAIN q = 1 .. Len(q) /\ DOMAIN Tail(q) = 1 .. Len(q) - 1
  BY <1>2, LenProperties
<1>4. \A k \in DOMAIN Tail(q) : k + 1 \in DOMAIN q /\ Tail(q)[k] = q[k + 1]
  BY <1>1, <1>3
<1>5. QED
  BY <1>1, <1>2, <1>3, <1>4

LEMMA AppendFacts ==
    ASSUME NEW S, NEW q \in Seq(S), NEW w \in S
    PROVE  /\ Append(q, w) \in Seq(S) /\ Len(Append(q, w)) = Len(q) + 1 /\ Len(q) \in Nat
           /\ Append(q, w) # << >>
           /\ DOMAIN q = 1 .. Len(q) /\ DOMAIN Append(q, w) = 1 .. Len(q) + 1
           /\ \A k \in DOMAIN q : Append(q, w)[k] = q[k]
           /\ Append(q, w)[Len(q) + 1] = w
           /\ q # << >> => Head(Append(q, w)) = Head(q)
           /\ q = << >> => Head(Append(q, w)) = w
<1>1. Append(q, w) \in Seq(S) /\ Len(Append(q, w)) = Len(q) + 1 /\ Len(q) \in Nat
  BY LenProperties, AppendProperties
<1>2. DOMAIN q = 1 .. Len(q) /\ DOMAIN Append(q, w) = 1 .. Len(q) + 1
  BY <1>1, LenProperties
<1>3. \A k \in DOMAIN q : Append(q, w)[k] = q[k]
  BY <1>2, AppendProperties
<1>4. Append(q, w)[Len(q) + 1] = w
  BY AppendProperties
<1>5. Append(q, w) # << >>
  BY <1>1, EmptySeq
<1>6. Head(Append(q, w)) = Append(q, w)[1]
  BY <1>1, <1>5, HeadTailProperties
<1>7. q # << >> => Head(Append(q, w)) = Head(q)
  <2> SUFFICES ASSUME q # << >> PROVE Head(Append(q, w)) = Head(q)
    OBVIOUS
  <2>1. 1 \in DOMAIN q /\ Head(q) = q[1]
    BY TailFacts
  <2>2. QED
    BY <1>3, <1>6, <2>1
<1>8. q = << >> => Head(Append(q, w)) = w
  BY <1>4, <1>6
<1>9. QED
  BY <1>1, <1>2, <1>3, <1>4, <1>5, <1>7, <1>8

LEMMA EmptyLength == Len(<< >>) = 0
  OBVIOUS

\* A packet that is whole, and whose first word is not its last, stays whole.
LEMMA WholeTail ==
    ASSUME NEW S, NEW q \in Seq(S), Whole(q)
    PROVE  /\ q # << >>
           /\ ~Head(q).last => Tail(q) # << >> /\ Whole(Tail(q))
<1>1. PICK k \in DOMAIN q : q[k].last
  BY DEF Whole
<1>2. q # << >>
  BY <1>1
<1>3. ASSUME ~Head(q).last PROVE Tail(q) # << >> /\ Whole(Tail(q))
  <2>1. /\ Len(q) \in Nat \ {0} /\ Head(q) = q[1] /\ DOMAIN q = 1 .. Len(q)
        /\ DOMAIN Tail(q) = 1 .. Len(q) - 1
        /\ \A j \in DOMAIN Tail(q) : Tail(q)[j] = q[j + 1]
    BY <1>2, TailFacts
  <2>2. k # 1
    BY <1>1, <1>3, <2>1
  <2>3. k - 1 \in DOMAIN Tail(q) /\ k - 1 + 1 = k
    BY <1>1, <2>1, <2>2
  <2>4. Tail(q)[k - 1].last
    BY <1>1, <2>1, <2>3
  <2>5. QED
    BY <2>3, <2>4 DEF Whole
<1>4. QED
  BY <1>2, <1>3

LEMMA WholeAppend ==
    ASSUME NEW S, NEW q \in Seq(S), NEW w \in S, Whole(q) \/ w.last
    PROVE  Whole(Append(q, w))
<1>1. /\ DOMAIN q = 1 .. Len(q) /\ DOMAIN Append(q, w) = 1 .. Len(q) + 1 /\ Len(q) \in Nat
      /\ \A k \in DOMAIN q : Append(q, w)[k] = q[k]
      /\ Append(q, w)[Len(q) + 1] = w
  BY AppendFacts
<1>2. CASE Whole(q)
  <2>1. PICK k \in DOMAIN q : q[k].last
    BY <1>2 DEF Whole
  <2>2. k \in DOMAIN Append(q, w) /\ Append(q, w)[k] = q[k]
    BY <1>1
  <2>3. QED
    BY <2>1, <2>2 DEF Whole
<1>3. CASE w.last
  <2>1. Len(q) + 1 \in DOMAIN Append(q, w)
    BY <1>1
  <2>2. QED
    BY <1>1, <1>3, <2>1 DEF Whole
<1>4. QED
  BY <1>2, <1>3

LEMMA ChainTail ==
    ASSUME NEW q \in Seq(Words), q # << >>, Chained(q)
    PROVE  /\ Chained(Tail(q))
           /\ Tail(q) # << >> => Follows(Head(q), Head(Tail(q)))
<1>1. /\ Len(q) \in Nat \ {0} /\ Head(q) = q[1] /\ Tail(q) \in Seq(Words)
      /\ Len(Tail(q)) = Len(q) - 1 /\ DOMAIN Tail(q) = 1 .. Len(q) - 1
      /\ \A k \in DOMAIN Tail(q) : Tail(q)[k] = q[k + 1]
  BY TailFacts
<1>2. ASSUME NEW k \in 1 .. Len(Tail(q)) - 1 PROVE Follows(Tail(q)[k], Tail(q)[k + 1])
  <2>1. /\ k \in DOMAIN Tail(q) /\ k + 1 \in DOMAIN Tail(q) /\ k + 1 \in 1 .. Len(q) - 1
    BY <1>1
  <2>2. Tail(q)[k] = q[k + 1] /\ Tail(q)[k + 1] = q[k + 1 + 1]
    BY <1>1, <2>1
  <2>3. Follows(q[k + 1], q[k + 1 + 1])
    BY <2>1 DEF Chained
  <2>4. QED
    BY <2>2, <2>3
<1>3. ASSUME Tail(q) # << >> PROVE Follows(Head(q), Head(Tail(q)))
  <2>1. Head(Tail(q)) = Tail(q)[1] /\ 1 \in DOMAIN Tail(q)
    BY <1>1, <1>3, TailFacts
  <2>2. 1 \in 1 .. Len(q) - 1 /\ Tail(q)[1] = q[1 + 1]
    BY <1>1, <2>1
  <2>3. Follows(q[1], q[1 + 1])
    BY <2>2 DEF Chained
  <2>4. QED
    BY <1>1, <2>1, <2>2, <2>3
<1>4. QED
  BY <1>2, <1>3 DEF Chained

LEMMA NextPlace ==
    ASSUME NEW S, NEW q \in Seq(S), NEW k \in 1 .. Len(q), k # Len(q)
    PROVE  k \in 1 .. Len(q) - 1 /\ k + 1 \in DOMAIN q
  BY LenProperties

LEMMA ChainAppend ==
    ASSUME NEW q \in Seq(Words), NEW w \in Words, Chained(q),
           q # << >> => Follows(q[Len(q)], w)
    PROVE  Chained(Append(q, w))
<1>1. /\ Len(Append(q, w)) = Len(q) + 1 /\ Len(q) \in Nat
      /\ DOMAIN q = 1 .. Len(q)
      /\ \A k \in DOMAIN q : Append(q, w)[k] = q[k]
      /\ Append(q, w)[Len(q) + 1] = w
  BY AppendFacts
<1>2. ASSUME NEW k \in 1 .. Len(q) PROVE Follows(Append(q, w)[k], Append(q, w)[k + 1])
  <2>1. q # << >>
    <3>1. q = << >> => Len(q) = 0
      OBVIOUS
    <3>2. QED
      BY <3>1
  <2>2. Append(q, w)[k] = q[k]
    BY <1>1
  <2>3. CASE k = Len(q)
    BY <1>1, <2>1, <2>2, <2>3
  <2>4. CASE k # Len(q)
    <3>1. k \in 1 .. Len(q) - 1 /\ k + 1 \in DOMAIN q
      BY <2>4, NextPlace
    <3>2. Append(q, w)[k + 1] = q[k + 1] /\ Follows(q[k], q[k + 1])
      BY <1>1, <3>1 DEF Chained
    <3>3. QED
      BY <2>2, <3>2
  <2>5. QED
    BY <2>3, <2>4
<1>3. 1 .. Len(Append(q, w)) - 1 = 1 .. Len(q)
  BY <1>1
<1>4. QED
  BY <1>2, <1>3 DEF Chained

-----------------------------------------------------------------------------
(* The packet receiver. *)

LEMMA ReceiverInit == Init => ReceiverInv
  BY BoundFacts DEF Init, ReceiverInv, Receives

\* The steps of the other stages.
ServeStep == BusStep \/ CpuAsks \/ CpuStep \/ SndStep \/ Grant

LEMMA ServeStepKeeps ==
    ServeStep => UNCHANGED << rxState, rxPkt, rxIndex, probeState, last_ip_address, overtaken, mode >>
<1>1. BusStep => UNCHANGED << rxState, rxPkt, rxIndex, probeState, last_ip_address, overtaken, mode >>
  BY DEF BusStep, RcvBase, WbIdle, WbWrite, WbRead, WbSend, SlaveDrops, SlaveWaitRead, rxVars, wbVars, cpuVars
<1>2. CpuStep => UNCHANGED << rxState, rxPkt, rxIndex, probeState, last_ip_address, overtaken, mode >>
  BY DEF CpuStep, SlaveIdle, SlaveSend, rxVars, cpuVars
<1>3. SndStep \/ Grant \/ CpuAsks =>
        UNCHANGED << rxState, rxPkt, rxIndex, probeState, last_ip_address, overtaken, mode >>
  BY DEF SndStep, SndIdle, SndBaseAddress, SndData, Grant, CpuAsks, rxVars, wbVars, cpuVars
<1>4. QED
  BY <1>1, <1>2, <1>3 DEF ServeStep

LEMMA ReceiverStep ==
    ASSUME Unmixed, TypeOK, ReceiverInv, [Next]_vars
    PROVE  ReceiverInv'
<1> USE DEF Receives
<1>1. CASE RxIdle
  <2>1. PICK p \in Sent : rxPkt' = p /\ rxState' = IF p.type = "other" THEN "DROP" ELSE "RECEIVE"
    BY <1>1 DEF RxIdle
  <2>2. /\ p \in Packets /\ p.type \in Types /\ OnePart(p)
        /\ p.type = "record" => Length(p) \in 1 .. FifoDepth
    BY SentFacts DEF Packets
  <2>3. rxIndex = 0 /\ rxIndex' = rxIndex /\ mode' = mode
    BY <1>1 DEF RxIdle, ReceiverInv, wbVars, cpuVars
  <2>4. QED
    BY <2>1, <2>2, <2>3, BoundFacts DEF ReceiverInv, Types
<1>2. CASE RxAnswer
  <2>1. CASE UNCHANGED << rxState, rxPkt >>
    BY <1>2, <2>1 DEF RxAnswer, ReceiverInv, wbVars, cpuVars
  <2>2. CASE rxState = "IDLE" /\ rxState' = "RECEIVE" /\ rxPkt' = Answer(asked.id, asked.host)
    <3>1. asked \in Packets
      BY <1>2 DEF RxAnswer, TypeOK, NoPacket
    <3>2. asked.id \in 0 .. Ids - 1 /\ asked.host \in Hosts
      BY <3>1, PacketFacts
    <3>3. rxPkt' \in Packets
      BY <2>2, <3>2 DEF Packets
    <3>4. rxPkt'.type = "record" /\ Length(rxPkt)' = 2 /\ OnePart(rxPkt)'
      BY <2>2, AnswerFacts
    <3>5. rxIndex' = 0 /\ mode' = mode
      BY <1>2, <2>2 DEF RxAnswer, ReceiverInv, wbVars, cpuVars
    <3>6. QED
      BY <2>2, <3>3, <3>4, <3>5 DEF ReceiverInv
  <2>3. QED
    BY <1>2, <2>1, <2>2 DEF RxAnswer
<1>3. CASE RxDrop
  BY <1>3 DEF RxDrop, ReceiverInv, wbVars, cpuVars
<1>4. CASE RecordHeader
  <2>1. /\ rxState = "RECEIVE" /\ rxPkt.type = "record" /\ rxIndex = 0 /\ rxIndex' = 1
        /\ rxState' = rxState /\ rxPkt' = rxPkt /\ mode' = mode
        /\ last_ip_address' = rxPkt.host
    BY <1>4 DEF RecordHeader, SaveAddress, SavesAddress, wbVars, cpuVars
  <2>2. Length(rxPkt) >= 1 /\ Length(rxPkt) \in Nat
    BY <2>1, PacketFacts DEF ReceiverInv
  <2>3. QED
    BY <2>1, <2>2 DEF ReceiverInv
<1>5. CASE RecordWord
  <2>1. /\ rxState = "RECEIVE" /\ rxPkt.type = "record" /\ rxIndex # 0
        /\ last_ip_address' = last_ip_address /\ mode' = mode
        /\ IF rxIndex = Length(rxPkt)
           THEN rxState' = "IDLE" /\ rxIndex' = 0
           ELSE rxIndex' = rxIndex + 1 /\ rxState' = rxState /\ rxPkt' = rxPkt
    BY <1>5 DEF RecordWord, SaveAddress, SavesAddress, wbVars, cpuVars
  <2>2. Length(rxPkt) >= 1 /\ Length(rxPkt) \in Nat /\ rxIndex \in Nat /\ rxIndex <= Length(rxPkt)
    BY <2>1, PacketFacts, BoundFacts DEF ReceiverInv, TypeOK
  <2>3. rxIndex # Length(rxPkt) => rxIndex + 1 <= Length(rxPkt) /\ rxIndex > 0
    BY <2>1, <2>2
  <2>4. QED
    BY <2>1, <2>3 DEF ReceiverInv
<1>6. CASE ProbeIdle
  BY <1>6 DEF ProbeIdle, ReceiverInv, wbVars, cpuVars
<1>7. CASE ProbeWord
  <2>1. /\ rxState = "RECEIVE" /\ rxPkt.type = "probe" /\ mode' = mode
        /\ IF rxIndex = ProbeWords - 1
           THEN rxState' = "IDLE" /\ rxIndex' = 0
           ELSE rxIndex' = rxIndex + 1 /\ rxState' = rxState /\ rxPkt' = rxPkt
    BY <1>7 DEF ProbeWord, wbVars, cpuVars
  <2>2. rxIndex \in Nat /\ rxIndex < ProbeWords /\ ProbeWords \in Nat
    BY <2>1, BoundFacts DEF ReceiverInv, TypeOK
  <2>3. rxIndex # ProbeWords - 1 => rxIndex + 1 < ProbeWords
    BY <2>2
  <2>4. QED
    BY <2>1, <2>3 DEF ReceiverInv
<1>8. CASE ServeStep
  BY <1>8, ServeStepKeeps DEF ReceiverInv
<1>9. CASE UNCHANGED vars
  BY <1>9 DEF vars, rxVars, wbVars, cpuVars, ReceiverInv
<1>10. QED
  BY <1>1, <1>2, <1>3, <1>4, <1>5, <1>6, <1>7, <1>8, <1>9 DEF Next, RxStep, ServeStep

-----------------------------------------------------------------------------
(* The record receiver. *)

LEMMA HeadFacts ==
    ASSUME TypeOK, FifoInv, rxFifo # << >>
    PROVE  /\ Head(rxFifo) \in Words /\ HeadPacket \in Packets /\ HeadPacket.type = "record"
           /\ OnePart(HeadPacket) /\ Length(HeadPacket) >= 2
           /\ HeadPacket.wcount \in Nat /\ HeadPacket.rcount \in Nat
           /\ HeadPacket.wcount <= FifoDepth /\ HeadPacket.rcount <= FifoDepth
           /\ Head(rxFifo) = Word(HeadPacket, Head(rxFifo).i)
           /\ Head(rxFifo).i \in Nat /\ Head(rxFifo).i >= 1
           /\ Head(rxFifo).last <=> Head(rxFifo).i = Length(HeadPacket)
<1>1. rxFifo \in Seq(Words)
  BY DEF TypeOK
<1>2. 1 \in DOMAIN rxFifo /\ Head(rxFifo) = rxFifo[1] /\ Head(rxFifo) \in Words
  BY <1>1, TailFacts
<1>3. OnePart(HeadPacket)
  BY <1>2 DEF FifoInv, HeadPacket
<1>4. /\ HeadPacket \in Packets /\ HeadPacket.type = "record" /\ Head(rxFifo).i \in 1 .. Length(HeadPacket)
      /\ Head(rxFifo) = Word(HeadPacket, Head(rxFifo).i)
      /\ Head(rxFifo).last <=> Head(rxFifo).i = Length(HeadPacket)
  BY <1>2, WordFacts DEF HeadPacket
<1>5. /\ HeadPacket.wcount \in Nat /\ HeadPacket.rcount \in Nat /\ Length(HeadPacket) \in Nat
      /\ HeadPacket.wcount <= FifoDepth /\ HeadPacket.rcount <= FifoDepth
  BY <1>4, PacketFacts
<1>6. Length(HeadPacket) >= 2
  BY <1>3, <1>4, OnePartFacts
<1>7. Head(rxFifo).i \in Nat /\ Head(rxFifo).i >= 1
  BY <1>4, <1>5
<1>8. QED
  BY <1>2, <1>3, <1>4, <1>5, <1>6, <1>7

LEMMA RecordInit == Init => RecordInv
  BY DEF Init, RecordInv

\* A word that is taken is the last of its record, or the next one stands behind it.
LEMMA TakenFacts ==
    ASSUME TypeOK, FifoInv, RecordInv, SlaveTakes
    PROVE  /\ rxFifo # << >> /\ rxFifo' = Tail(rxFifo) /\ RecordInv'
           /\ count' \in 0 .. FifoDepth /\ base' \in {base, NoWord}
           /\ rcvState' = IF Head(rxFifo).last THEN "IDLE" ELSE rcvState
           /\ rcvState \in {"RECEIVE_WRITES", "RECEIVE_READS"}
           /\ ~Head(rxFifo).last => rxFifo' # << >> /\ HeadPacket' = HeadPacket
<1> DEFINE n == IF rcvState = "RECEIVE_WRITES" THEN HeadPacket.wcount ELSE HeadPacket.rcount
           final == count = n - 1
<1>1. /\ rcvState \in {"RECEIVE_WRITES", "RECEIVE_READS"}
      /\ Whole(rxFifo) /\ base = Word(HeadPacket, 1) /\ Head(rxFifo).i = count + 2 /\ count < n
  BY DEF SlaveTakes, Presents, RecordInv
<1>2. rxFifo \in Seq(Words) /\ count \in Nat
  BY BoundFacts DEF TypeOK
<1>3. rxFifo # << >>
  BY <1>1, <1>2, WholeTail
<1>4. n \in Nat /\ n <= FifoDepth /\ n > 0
  BY <1>1, <1>2, <1>3, HeadFacts
<1>5. HeadPacket \in Packets /\ HeadPacket.type = "record" /\ OnePart(HeadPacket)
  BY <1>3, HeadFacts
<1>6. Length(HeadPacket) = n + 1 /\ (rcvState = "RECEIVE_WRITES" => HeadPacket.rcount = 0)
  BY <1>4, <1>5, OnePartFacts
<1>7. Head(rxFifo).last <=> final
  <2>1. Head(rxFifo).last <=> Head(rxFifo).i = Length(HeadPacket)
    BY <1>3, HeadFacts
  <2>2. (Head(rxFifo).i = Length(HeadPacket)) <=> final
    BY <1>1, <1>2, <1>4, <1>6
  <2>3. QED
    BY <2>1, <2>2
<1>8. rcvState' = IF final THEN "IDLE" ELSE rcvState
  <2>1. CASE rcvState = "RECEIVE_WRITES"
    <3>1. ~(HeadPacket.rcount > 0)
      BY <1>6, <2>1
    <3>2. QED
      BY <2>1, <3>1 DEF SlaveTakes, Presents, TakenWrite, Taken, LastWrite
  <2>2. CASE rcvState = "RECEIVE_READS"
    BY <2>2 DEF SlaveTakes, Presents, TakenRead, Taken, LastRead
  <2>3. QED
    BY <1>1, <2>1, <2>2
<1>9. rxFifo' = Tail(rxFifo) /\ count' = count + 1 /\ base' = IF rcvState' = "IDLE" THEN NoWord ELSE base
  BY DEF SlaveTakes, TakenWrite, TakenRead, Taken
<1>10. count' \in 0 .. FifoDepth
  BY <1>1, <1>2, <1>4, <1>9, BoundFacts
<1>11. /\ Tail(rxFifo) # << >> => Follows(Head(rxFifo), Head(Tail(rxFifo)))
       /\ ~Head(rxFifo).last => Tail(rxFifo) # << >> /\ Whole(Tail(rxFifo))
  BY <1>1, <1>2, <1>3, ChainTail, WholeTail DEF FifoInv
<1>12. CASE final
  <2>1. rcvState' = "IDLE" /\ Head(rxFifo).last
    BY <1>7, <1>8, <1>12
  <2>2. rxFifo' # << >> => Head(rxFifo').i = 1
    BY <1>9, <1>11, <2>1 DEF Follows
  <2>3. RecordInv'
    BY <2>1, <2>2 DEF RecordInv
  <2>4. QED
    BY <1>1, <1>3, <1>9, <1>10, <2>1, <2>3
<1>13. CASE ~final
  <2>1. rcvState' = rcvState /\ ~Head(rxFifo).last /\ base' = base
    BY <1>1, <1>7, <1>8, <1>9, <1>13
  <2>2. Whole(rxFifo)' /\ rxFifo' # << >>
    BY <1>9, <1>11, <2>1 DEF Whole
  <2>3. Head(rxFifo') = Word(HeadPacket, Head(rxFifo).i + 1)
    BY <1>9, <1>11, <2>1 DEF Follows, HeadPacket
  <2>4. HeadPacket' = HeadPacket /\ Head(rxFifo').i = Head(rxFifo).i + 1
    BY <2>3, WordIs DEF HeadPacket
  <2>a. Head(rxFifo).i = count + 2 /\ count < n /\ count # n - 1 /\ count' = count + 1
    BY <1>1, <1>9, <1>13
  <2>5. Head(rxFifo').i = count' + 2 /\ count' < n
    <3> HIDE DEF n
    <3>1. count' < n
      BY <1>2, <1>4, <2>a
    <3>2. Head(rxFifo').i = count' + 2
      BY <1>2, <2>4, <2>a
    <3>3. QED
      BY <3>1, <3>2
  <2>6. RecordInv'
    BY <1>1, <2>1, <2>2, <2>4, <2>5 DEF RecordInv
  <2>7. QED
    BY <1>1, <1>3, <1>9, <1>10, <2>1, <2>2, <2>4, <2>6
<1>14. QED
  BY <1>12, <1>13

\* A base is never the last word of its record.
LEMMA BaseFacts ==
    ASSUME TypeOK, FifoInv, RecordInv, RcvBase
    PROVE  /\ rxFifo # << >> /\ rxFifo' = Tail(rxFifo) /\ RecordInv'
           /\ rcvState = "IDLE" /\ rcvState' \in {"RECEIVE_WRITES", "RECEIVE_READS"}
           /\ count' = 0 /\ base' = Head(rxFifo)
           /\ ~Head(rxFifo).last
           /\ rcvState' = "RECEIVE_WRITES" => HeadPacket.wcount > 0
<1>1. /\ rcvState = "IDLE" /\ Whole(rxFifo) /\ base' = Head(rxFifo) /\ count' = 0 /\ rxFifo' = Tail(rxFifo)
      /\ rcvState' = IF HeadPacket.wcount > 0 THEN "RECEIVE_WRITES" ELSE "RECEIVE_READS"
  BY DEF RcvBase, RecordInv, CountReset
<1>2. rxFifo \in Seq(Words) /\ rxFifo # << >>
  BY <1>1, WholeTail DEF TypeOK
<1>3. /\ HeadPacket \in Packets /\ HeadPacket.type = "record" /\ OnePart(HeadPacket)
      /\ HeadPacket.wcount \in Nat /\ HeadPacket.rcount \in Nat
      /\ Length(HeadPacket) >= 2 /\ Head(rxFifo) = Word(HeadPacket, Head(rxFifo).i)
  BY <1>2, HeadFacts
<1>4. Head(rxFifo).i = 1
  BY <1>1, <1>2 DEF RecordInv
<1>5. ~Head(rxFifo).last
  <2>1. Head(rxFifo).last <=> Head(rxFifo).i = Length(HeadPacket)
    BY <1>2, HeadFacts
  <2>2. Head(rxFifo).i # Length(HeadPacket)
    BY <1>3, <1>4
  <2>3. QED
    BY <2>1, <2>2
<1>6. Tail(rxFifo) # << >> /\ Whole(Tail(rxFifo))
  BY <1>1, <1>2, <1>5, WholeTail
<1>7. Head(rxFifo') = Word(HeadPacket, 2)
  <2>1. Follows(Head(rxFifo), Head(Tail(rxFifo)))
    BY <1>2, <1>6, ChainTail DEF FifoInv
  <2>2. Head(rxFifo).i + 1 = 2
    BY <1>4
  <2>3. QED
    BY <1>1, <1>5, <2>1, <2>2 DEF Follows, HeadPacket
<1>8. HeadPacket' = HeadPacket /\ Head(rxFifo').i = 2
  BY <1>7, WordIs DEF HeadPacket
<1>9. Whole(rxFifo)' /\ base' = Word(HeadPacket', 1)
  BY <1>1, <1>3, <1>4, <1>6, <1>8 DEF Whole
<1>10. HeadPacket.wcount > 0 \/ HeadPacket.rcount > 0
  BY <1>3, OnePartFacts
<1>11. RecordInv'
  <2>1. count' < IF rcvState' = "RECEIVE_WRITES" THEN HeadPacket'.wcount ELSE HeadPacket'.rcount
    BY <1>1, <1>3, <1>8, <1>10
  <2>2. Head(rxFifo').i = count' + 2
    <3>1. count' = 0
      BY <1>1
    <3>2. QED
      BY <1>8, <3>1
  <2>3. rcvState' \in {"RECEIVE_WRITES", "RECEIVE_READS"}
    BY <1>1
  <2>4. QED
    BY <1>9, <2>1, <2>2, <2>3 DEF RecordInv
<1>12. QED
  BY <1>1, <1>2, <1>5, <1>11

-----------------------------------------------------------------------------
(* The FIFO in front of it. *)

LEMMA FifoInit == Init => FifoInv
<1> SUFFICES ASSUME Init PROVE FifoInv
  OBVIOUS
<1>1. rxFifo = << >> /\ DOMAIN rxFifo = {} /\ Len(rxFifo) = 0 /\ ~Receiving
  BY DEF Init, Receiving, Receives
<1>2. 1 .. Len(rxFifo) - 1 = {}
  BY <1>1
<1>3. QED
  BY <1>1, <1>2 DEF FifoInv, Chained

\* Who moves the FIFO.
LEMMA RcvCases ==
    ASSUME [Next]_vars
    PROVE  UNCHANGED rcvVars \/ RecordWord \/ RcvBase \/ SlaveTakes
<1>1. RxIdle \/ RxAnswer \/ RxStep => UNCHANGED rcvVars \/ RecordWord
  BY DEF RxIdle, RxAnswer, RxStep, RxDrop, RecordHeader, ProbeIdle, ProbeWord
<1>2. BusStep => UNCHANGED rcvVars \/ RcvBase \/ SlaveTakes
  BY DEF BusStep, WbIdle, WbWrite, WbRead, WbSend, SlaveDrops, SlaveWaitRead, SlaveTakes
<1>3. CpuAsks \/ CpuStep => UNCHANGED rcvVars \/ SlaveTakes
  BY DEF CpuAsks, CpuStep, SlaveIdle, SlaveSend
<1>4. SndStep \/ Grant => UNCHANGED rcvVars
  BY DEF SndStep, SndIdle, SndBaseAddress, SndData, Grant
<1>5. UNCHANGED vars => UNCHANGED rcvVars
  BY DEF vars
<1>6. QED
  BY <1>1, <1>2, <1>3, <1>4, <1>5 DEF Next

\* What is received is not whole: it stays when the head of a whole packet is taken.
LEMMA FifoPop ==
    ASSUME TypeOK, ReceiverInv, FifoInv, Whole(rxFifo), rxFifo' = Tail(rxFifo),
           UNCHANGED << rxState, rxPkt, rxIndex >>
    PROVE  FifoInv'
<1>1. rxFifo \in Seq(Words) /\ rxFifo # << >>
  BY WholeTail DEF TypeOK
<1>2. /\ Len(rxFifo) \in Nat \ {0} /\ Head(rxFifo) = rxFifo[1]
      /\ rxFifo' \in Seq(Words) /\ Len(rxFifo') = Len(rxFifo) - 1
      /\ DOMAIN rxFifo = 1 .. Len(rxFifo) /\ DOMAIN rxFifo' = 1 .. Len(rxFifo) - 1
      /\ \A k \in DOMAIN rxFifo' : k + 1 \in DOMAIN rxFifo /\ rxFifo'[k] = rxFifo[k + 1]
  BY <1>1, TailFacts
<1>3. Chained(rxFifo)'
  BY <1>1, ChainTail DEF FifoInv, Chained
<1>4. \A k \in DOMAIN rxFifo' : OnePart(rxFifo'[k].pkt)
  BY <1>2 DEF FifoInv
<1>5. Receiving' <=> Receiving
  BY DEF Receiving, Receives
<1>6. rxFifo' # << >> => rxFifo'[Len(rxFifo')] = rxFifo[Len(rxFifo)]
  <2> SUFFICES ASSUME rxFifo' # << >> PROVE rxFifo'[Len(rxFifo')] = rxFifo[Len(rxFifo)]
    OBVIOUS
  <2>1. Len(rxFifo') \in DOMAIN rxFifo' /\ Len(rxFifo') + 1 = Len(rxFifo)
    BY <1>2, TailFacts
  <2>2. QED
    BY <1>2, <2>1
<1>7. Receiving => rxFifo' # << >>
  <2> SUFFICES ASSUME Receiving, rxFifo' = << >> PROVE FALSE
    OBVIOUS
  <2>1. Len(rxFifo) = 1
    <3>1. Len(rxFifo') = 0
      BY EmptyLength
    <3>2. Len(rxFifo') = Len(rxFifo) - 1 /\ Len(rxFifo) \in Nat
      BY <1>2
    <3>3. QED
      BY <3>1, <3>2
  <2>2. rxFifo[1] = Word(rxPkt, rxIndex - 1)
    BY <1>1, <2>1 DEF FifoInv
  <2>3. rxIndex \in Nat /\ rxPkt \in Packets /\ rxIndex <= Length(rxPkt) /\ Length(rxPkt) \in Nat
    BY BoundFacts, PacketFacts DEF TypeOK, ReceiverInv, Receiving, Receives
  <2>4. rxIndex - 1 # Length(rxPkt)
    BY <2>3
  <2>5. ~rxFifo[1].last
    BY <2>2, <2>4, WordIs
  <2>6. PICK k \in DOMAIN rxFifo : rxFifo[k].last
    BY DEF Whole
  <2>7. k = 1
    BY <1>2, <2>1, <2>6
  <2>8. QED
    BY <2>5, <2>6, <2>7
<1>8. QED
  <2>1. rxFifo' # << >> =>
          IF Receiving' THEN rxFifo'[Len(rxFifo')] = Word(rxPkt', rxIndex' - 1) ELSE rxFifo'[Len(rxFifo')].last
    BY <1>1, <1>5, <1>6 DEF FifoInv
  <2>2. QED
    BY <1>3, <1>4, <1>5, <1>7, <2>1 DEF FifoInv

LEMMA RecordWordFacts ==
    ASSUME TypeOK, ReceiverInv, RecordWord
    PROVE  /\ rxPkt \in Packets /\ rxPkt.type = "record" /\ OnePart(rxPkt)
           /\ rxIndex \in 1 .. Length(rxPkt) /\ rxIndex \in Nat /\ Length(rxPkt) \in Nat
           /\ Word(rxPkt, rxIndex) \in Words /\ rxFifo \in Seq(Words)
           /\ Len(rxFifo) < FifoDepth
           /\ rxFifo' = Append(rxFifo, Word(rxPkt, rxIndex))
<1>1. /\ rxState = "RECEIVE" /\ rxPkt.type = "record" /\ rxIndex # 0
      /\ rxFifo' = Append(rxFifo, Word(rxPkt, rxIndex))
      /\ HasRoom(rxFifo)
  BY DEF RecordWord, Receives
<1>2. rxPkt \in Packets /\ OnePart(rxPkt) /\ rxIndex <= Length(rxPkt) /\ rxIndex \in Nat
  BY <1>1, BoundFacts DEF ReceiverInv, Receives, TypeOK
<1>3. Length(rxPkt) \in Nat
  BY <1>2, PacketFacts
<1>4. rxIndex \in 1 .. Length(rxPkt)
  BY <1>1, <1>2, <1>3
<1>5. Word(rxPkt, rxIndex) \in Words
  BY <1>1, <1>2, <1>4, WordIn
<1>6. QED
  BY <1>1, <1>2, <1>3, <1>4, <1>5, RoomFacts DEF TypeOK

LEMMA FifoAppend ==
    ASSUME TypeOK, ReceiverInv, FifoInv, RecordWord
    PROVE  FifoInv'
<1> DEFINE w == Word(rxPkt, rxIndex)
<1>1. /\ rxPkt \in Packets /\ OnePart(rxPkt) /\ rxIndex \in 1 .. Length(rxPkt)
      /\ rxIndex \in Nat /\ Length(rxPkt) \in Nat
      /\ w \in Words /\ rxFifo \in Seq(Words) /\ rxFifo' = Append(rxFifo, w)
  BY RecordWordFacts
<1>2. w.pkt = rxPkt /\ w.i = rxIndex /\ (w.last <=> rxIndex = Length(rxPkt))
  BY WordIs
<1>3. Receives("record") /\ rxIndex # 0
  BY DEF RecordWord
<1>4. rxFifo # << >> => Follows(rxFifo[Len(rxFifo)], w)
  <2> SUFFICES ASSUME rxFifo # << >> PROVE Follows(rxFifo[Len(rxFifo)], w)
    OBVIOUS
  <2>1. CASE rxIndex > 1
    <3>1. rxFifo[Len(rxFifo)] = Word(rxPkt, rxIndex - 1)
      BY <1>3, <2>1 DEF FifoInv, Receiving
    <3>2. rxIndex - 1 # Length(rxPkt) /\ rxIndex - 1 + 1 = rxIndex
      BY <1>1
    <3>3. QED
      BY <3>1, <3>2, WordIs DEF Follows
  <2>2. CASE ~(rxIndex > 1)
    <3>1. rxFifo[Len(rxFifo)].last
      BY <2>2 DEF FifoInv, Receiving
    <3>2. rxIndex = 1
      BY <1>1, <1>3, <2>2
    <3>3. QED
      BY <1>2, <3>1, <3>2 DEF Follows
  <2>3. QED
    BY <2>1, <2>2
<1> HIDE DEF w
<1>5. /\ rxFifo' # << >> /\ Len(rxFifo') = Len(rxFifo) + 1 /\ Len(rxFifo) \in Nat
      /\ DOMAIN rxFifo = 1 .. Len(rxFifo) /\ DOMAIN rxFifo' = 1 .. Len(rxFifo) + 1
      /\ \A k \in DOMAIN rxFifo : rxFifo'[k] = rxFifo[k]
      /\ rxFifo'[Len(rxFifo) + 1] = w
  BY <1>1, AppendFacts
<1>6. Chained(rxFifo)'
  BY <1>1, <1>4, ChainAppend DEF FifoInv, Chained
<1>7. \A k \in DOMAIN rxFifo' : OnePart(rxFifo'[k].pkt)
  <2>1. \A k \in DOMAIN rxFifo' : k \in DOMAIN rxFifo \/ k = Len(rxFifo) + 1
    BY <1>5
  <2>2. QED
    BY <1>1, <1>2, <1>5, <2>1 DEF FifoInv
<1>8. CASE rxIndex = Length(rxPkt)
  <2>1. ~Receiving'
    BY <1>8 DEF RecordWord, Receiving, Receives
  <2>2. rxFifo'[Len(rxFifo')].last
    BY <1>2, <1>5, <1>8
  <2>3. QED
    BY <1>6, <1>7, <2>1, <2>2 DEF FifoInv
<1>9. CASE rxIndex # Length(rxPkt)
  <2>1. rxPkt' = rxPkt /\ rxIndex' = rxIndex + 1
    BY <1>9 DEF RecordWord
  <2>2. rxIndex' - 1 = rxIndex
    BY <1>1, <2>1
  <2>3. rxFifo'[Len(rxFifo')] = Word(rxPkt', rxIndex' - 1)
    BY <1>5, <2>1, <2>2 DEF w
  <2>4. Receiving'
    <3>1. Receives("record")'
      BY <1>3, <1>9 DEF RecordWord, Receives
    <3>2. rxIndex' > 1
      BY <1>1, <1>3, <2>1
    <3>3. QED
      BY <3>1, <3>2 DEF Receiving
  <2>5. QED
    BY <1>5, <1>6, <1>7, <2>3, <2>4 DEF FifoInv
<1>10. QED
  BY <1>8, <1>9

LEMMA FifoStep ==
    ASSUME TypeOK, ReceiverInv, FifoInv, RecordInv, [Next]_vars
    PROVE  FifoInv'
<1>1. CASE RecordWord
  BY <1>1, FifoAppend
<1>2. CASE RcvBase
  <2>1. Whole(rxFifo) /\ rxFifo' = Tail(rxFifo) /\ UNCHANGED << rxState, rxPkt, rxIndex >>
    BY <1>2, BaseFacts DEF RcvBase, rxVars
  <2>2. QED
    BY <2>1, FifoPop
<1>3. CASE SlaveTakes
  <2>1. Whole(rxFifo) /\ rxFifo' = Tail(rxFifo)
    BY <1>3 DEF SlaveTakes, Presents, TakenWrite, TakenRead, Taken
  <2>2. rxFifo # rxFifo'
    <3>1. rxFifo \in Seq(Words) /\ rxFifo # << >>
      BY <2>1, WholeTail DEF TypeOK
    <3>2. Len(rxFifo) \in Nat /\ Len(Tail(rxFifo)) = Len(rxFifo) - 1
      BY <3>1, TailFacts
    <3>3. Len(rxFifo) # Len(Tail(rxFifo))
      BY <3>2
    <3>4. QED
      BY <2>1, <3>3
  <2>3. CASE ServeStep
    BY <2>1, <2>3, ServeStepKeeps, FifoPop
  <2>4. CASE RecordWord
    BY <2>4, FifoAppend
  <2>5. CASE ~ServeStep /\ ~RecordWord
    <3>1. RxIdle \/ RxAnswer \/ RxDrop \/ RecordHeader \/ ProbeIdle \/ ProbeWord \/ UNCHANGED vars
      BY <2>5 DEF Next, RxStep, ServeStep
    <3>2. rxFifo' = rxFifo
      BY <3>1 DEF RxIdle, RxAnswer, RxDrop, RecordHeader, ProbeIdle, ProbeWord, vars, rcvVars
    <3>3. QED
      BY <2>2, <3>2
  <2>6. QED
    BY <2>3, <2>4, <2>5
<1>4. CASE UNCHANGED rcvVars /\ ~RecordWord
  <2>0. UNCHANGED rxFifo
    BY <1>4 DEF rcvVars
  <2>1. CASE UNCHANGED << rxState, rxPkt, rxIndex >>
    BY <2>0, <2>1 DEF FifoInv, Chained, Receiving, Receives
  <2>2. CASE RxIdle \/ RxAnswer \/ RxDrop \/ RecordHeader \/ ProbeWord
    <3>1. UNCHANGED << rxState, rxPkt, rxIndex >> \/ (~Receiving /\ ~Receiving')
      <4>1. RxIdle \/ RxDrop => ~Receiving /\ ~Receiving'
        BY DEF RxIdle, RxDrop, Receiving, Receives, ReceiverInv
      <4>2. RxAnswer => UNCHANGED << rxState, rxPkt, rxIndex >> \/ (~Receiving /\ ~Receiving')
        BY DEF RxAnswer, Receiving, Receives, ReceiverInv
      <4>3. RecordHeader => ~Receiving /\ ~Receiving'
        BY DEF RecordHeader, Receiving, Receives
      <4>4. ProbeWord => ~Receiving /\ ~Receiving'
        BY DEF ProbeWord, Receiving, Receives
      <4>5. QED
        BY <2>2, <4>1, <4>2, <4>3, <4>4
    <3>2. CASE ~Receiving /\ ~Receiving'
      BY <2>0, <3>2 DEF FifoInv, Chained
    <3>3. QED
      BY <2>1, <3>1, <3>2
  <2>3. CASE ServeStep \/ ProbeIdle \/ UNCHANGED vars
    BY <2>1, <2>3, ServeStepKeeps DEF ProbeIdle, vars, rxVars
  <2>4. QED
    BY <1>4, <2>2, <2>3 DEF Next, RxStep, ServeStep
<1>5. QED
  BY <1>1, <1>2, <1>3, <1>4, RcvCases

LEMMA RecordStep ==
    ASSUME TypeOK, ReceiverInv, FifoInv, RecordInv, [Next]_vars
    PROVE  RecordInv'
<1>1. CASE UNCHANGED rcvVars
  BY <1>1 DEF rcvVars, RecordInv, Whole, HeadPacket
<1>2. CASE RecordWord
  <2>1. /\ Word(rxPkt, rxIndex) \in Words /\ rxFifo \in Seq(Words)
        /\ rxFifo' = Append(rxFifo, Word(rxPkt, rxIndex))
        /\ rxIndex \in Nat
    BY <1>2, RecordWordFacts
  <2>2. rxIndex # 0 /\ Receives("record") /\ UNCHANGED << rcvState, base, count >>
    BY <1>2 DEF RecordWord
  <2>3. CASE rxFifo = << >>
    <3>1. ~(rxIndex > 1)
      BY <2>2, <2>3 DEF FifoInv, Receiving
    <3>2. rxIndex = 1
      BY <2>1, <2>2, <3>1
    <3>3. Head(rxFifo') = Word(rxPkt, 1)
      BY <2>1, <2>3, <3>2, AppendFacts
    <3>4. Head(rxFifo').i = 1
      BY <3>3, WordIs
    <3>5. rcvState = "IDLE"
      BY <2>1, <2>3, WholeTail DEF RecordInv
    <3>6. QED
      BY <2>2, <3>4, <3>5 DEF RecordInv
  <2>4. CASE rxFifo # << >>
    <3>1. Head(rxFifo') = Head(rxFifo)
      BY <2>1, <2>4, AppendFacts
    <3>2. HeadPacket' = HeadPacket
      BY <3>1 DEF HeadPacket
    <3>3. Whole(rxFifo) => Whole(rxFifo)'
      BY <2>1, WholeAppend DEF Whole
    <3>4. QED
      BY <2>2, <2>4, <3>1, <3>2, <3>3 DEF RecordInv
  <2>5. QED
    BY <2>3, <2>4
<1>3. CASE RcvBase
  BY <1>3, BaseFacts
<1>4. CASE SlaveTakes
  BY <1>4, TakenFacts
<1>5. QED
  BY <1>1, <1>2, <1>3, <1>4, RcvCases

-----------------------------------------------------------------------------
(* The bus master and the record sender. *)

\* What WbSend appends is the answer to the read at the head.
LEMMA SendFacts ==
    ASSUME TypeOK, ReceiverInv, FifoInv, RecordInv, MasterInv, WbSend
    PROVE  /\ mode = "master" /\ Len(txFifo) < FifoDepth
           /\ rxFifo # << >> /\ IsRead(Head(rxFifo))
           /\ txFifo' = Append(txFifo, AnswerTo(Asked(Head(rxFifo))))
           /\ AnswerTo(Asked(Head(rxFifo))) \in Replies
           /\ AnswerTo(Asked(Head(rxFifo))).word = Head(rxFifo)
           /\ Asked(AnswerTo(Asked(Head(rxFifo))).word) = Asked(Head(rxFifo))
<1> DEFINE w == Head(rxFifo)
           reply == [word |-> dat_r, base |-> base, count |-> HeadPacket.rcount, last |-> LastRead]
<1>1. /\ wbState = "SEND_DATA" /\ rcvState = "RECEIVE_READS" /\ Whole(rxFifo)
      /\ HasRoom(txFifo) /\ txFifo' = Append(txFifo, reply)
  BY DEF WbSend, Presents
<1>2. mode = "master"
  BY <1>1, EtherboneAssumption DEF TypeOK, ReceiverInv, EtherboneAssumption
<1>3. dat_r = w
  BY <1>1, <1>2 DEF MasterInv
<1>4. /\ base = Word(HeadPacket, 1) /\ w.i = count + 2 /\ count < HeadPacket.rcount /\ count \in Nat
  BY <1>1, BoundFacts DEF RecordInv, TypeOK
<1>5. rxFifo # << >>
  BY <1>1, WholeTail DEF TypeOK
<1>6. /\ w \in Words /\ HeadPacket \in Packets /\ HeadPacket.type = "record" /\ OnePart(HeadPacket)
      /\ HeadPacket.rcount \in Nat /\ HeadPacket.wcount \in Nat /\ Length(HeadPacket) >= 2
      /\ w.i \in Nat
  BY <1>5, HeadFacts
<1>7. HeadPacket.wcount = 0 /\ WritePart(HeadPacket) = 0 /\ Length(HeadPacket) = HeadPacket.rcount + 1
  BY <1>4, <1>6, OnePartFacts
<1>8. IsRead(w) /\ ~IsWrite(w)
  BY <1>4, <1>7 DEF IsRead, IsWrite, HeadPacket
<1>9. Asked(w).word = w /\ Asked(w).base = Word(HeadPacket, 1)
  BY <1>7, <1>8 DEF Asked, HeadPacket
<1>10. (LastRead <=> w.last) /\ w.last \in BOOLEAN
  <2>1. (w.last <=> w.i = Length(HeadPacket)) /\ w.last \in BOOLEAN
    BY <1>5, <1>6, HeadFacts, WordFacts
  <2>2. LastRead <=> w.i = Length(HeadPacket)
    BY <1>4, <1>6, <1>7 DEF LastRead
  <2>3. QED
    BY <2>1, <2>2
<1>11. LastRead = w.last
  BY <1>10 DEF LastRead
<1>12. reply = AnswerTo(Asked(w))
  BY <1>3, <1>4, <1>9, <1>11 DEF AnswerTo, HeadPacket
<1>13. Word(HeadPacket, 1) \in Words
  BY <1>6, PacketFacts, WordIn
<1>14. AnswerTo(Asked(w)) \in Replies
  BY <1>6, <1>9, <1>10, <1>13 DEF AnswerTo, Replies, HeadPacket
<1>15. AnswerTo(Asked(w)).word = w
  BY <1>9 DEF AnswerTo
<1>16. QED
  BY <1>1, <1>2, <1>5, <1>8, <1>12, <1>14, <1>15, RoomFacts

-----------------------------------------------------------------------------
(* Type correctness. *)

LEMMA TypeInit == Init => TypeOK
<1> SUFFICES ASSUME Init PROVE TypeOK
  OBVIOUS
<1>1. rxFifo \in Seq(Words) /\ Len(rxFifo) <= FifoDepth
  BY EmptyLength, BoundFacts DEF Init
<1>2. txFifo \in Seq(IF mode = "master" THEN Replies ELSE Requests) /\ Len(txFifo) <= FifoDepth
  BY EmptyLength, BoundFacts DEF Init
<1>3. 0 \in 0 .. Ids - 1 /\ 0 \in 0 .. FifoDepth + ProbeWords /\ 0 \in 0 .. FifoDepth
  BY BoundFacts
<1>4. access \in CpuAccesses
  BY <1>3 DEF Init, CpuAccesses
<1>5. rxPkt \in Packets \cup {NoPacket(n) : n \in 0 .. Ids - 1}
  BY <1>3 DEF Init
<1>6. QED
  BY <1>1, <1>2, <1>3, <1>4, <1>5 DEF Init, TypeOK

\* rxFifo, rcvState, base and count.
LEMMA RcvTyped ==
    ASSUME TypeOK, ReceiverInv, FifoInv, RecordInv, [Next]_vars
    PROVE  /\ rxFifo' \in Seq(Words) /\ Len(rxFifo') <= FifoDepth
           /\ rcvState' \in {"IDLE", "RECEIVE_WRITES", "RECEIVE_BASE_RET_ADDR", "RECEIVE_READS"}
           /\ base' \in Words \cup {NoWord}
           /\ count' \in 0 .. FifoDepth
<1>1. CASE UNCHANGED rcvVars
  BY <1>1 DEF rcvVars, TypeOK
<1>2. CASE RecordWord
  <2>1. /\ Word(rxPkt, rxIndex) \in Words /\ rxFifo \in Seq(Words)
        /\ Len(rxFifo) < FifoDepth /\ rxFifo' = Append(rxFifo, Word(rxPkt, rxIndex))
    BY <1>2, RecordWordFacts
  <2>2. rxFifo' \in Seq(Words) /\ Len(rxFifo') = Len(rxFifo) + 1 /\ Len(rxFifo) \in Nat
    BY <2>1, AppendFacts
  <2>3. Len(rxFifo') <= FifoDepth
    BY <2>1, <2>2, BoundFacts
  <2>4. UNCHANGED << rcvState, base, count >>
    BY <1>2 DEF RecordWord
  <2>5. QED
    BY <2>2, <2>3, <2>4 DEF TypeOK
<1>3. ASSUME rxFifo # << >>, rxFifo' = Tail(rxFifo) PROVE rxFifo' \in Seq(Words) /\ Len(rxFifo') <= FifoDepth
  <2>1. rxFifo \in Seq(Words) /\ Len(rxFifo) <= FifoDepth
    BY DEF TypeOK
  <2>2. rxFifo' \in Seq(Words) /\ Len(rxFifo') = Len(rxFifo) - 1 /\ Len(rxFifo) \in Nat
    BY <1>3, <2>1, TailFacts
  <2>3. QED
    BY <2>1, <2>2, BoundFacts
<1>4. CASE RcvBase
  <2>1. Head(rxFifo) \in Words
    BY <1>4, BaseFacts, HeadFacts
  <2>2. QED
    BY <1>3, <1>4, <2>1, BaseFacts, BoundFacts
<1>5. CASE SlaveTakes
  <2>1. base \in Words \cup {NoWord} /\ rcvState \in {"IDLE", "RECEIVE_WRITES", "RECEIVE_READS"}
    BY DEF TypeOK, RecordInv
  <2>2. /\ rxFifo # << >> /\ rxFifo' = Tail(rxFifo)
        /\ count' \in 0 .. FifoDepth /\ base' \in {base, NoWord}
        /\ rcvState' = "IDLE" \/ rcvState' = rcvState
    BY <1>5, TakenFacts
  <2>3. QED
    BY <1>3, <2>1, <2>2
<1>6. QED
  BY <1>1, <1>2, <1>4, <1>5, RcvCases

\* rxState, rxPkt, rxIndex, probeState, last_ip_address and overtaken.
LEMMA RxTyped ==
    ASSUME Unmixed, TypeOK, ReceiverInv, [Next]_vars
    PROVE  /\ rxState' \in {"IDLE", "RECEIVE", "DROP"}
           /\ rxPkt' \in Packets \cup {NoPacket(n) : n \in 0 .. Ids - 1}
           /\ rxIndex' \in 0 .. FifoDepth + ProbeWords
           /\ probeState' \in {"IDLE", "PROBE_RESPONSE"}
           /\ last_ip_address' \in Hosts \cup {None}
           /\ overtaken' \in BOOLEAN
<1>0. rxPkt.id \in 0 .. Ids - 1
  <2>1. CASE rxPkt \in Packets
    BY <2>1, PacketFacts
  <2>2. CASE rxPkt \notin Packets
    BY <2>2 DEF TypeOK, NoPacket
  <2>3. QED
    BY <2>1, <2>2
<1>a. NoPacket(rxPkt.id) \in {NoPacket(n) : n \in 0 .. Ids - 1}
  BY <1>0
<1>1. CASE RxIdle
  <2>1. PICK p \in Sent : rxPkt' = p /\ rxState' = IF p.type = "other" THEN "DROP" ELSE "RECEIVE"
    BY <1>1 DEF RxIdle
  <2>2. QED
    BY <1>1, <2>1 DEF RxIdle, TypeOK, Packets
<1>2. CASE RxAnswer
  <2>1. rxState' \in {"IDLE", "RECEIVE", "DROP"} /\ (rxPkt' = rxPkt \/ rxState' = "RECEIVE")
    BY <1>2 DEF RxAnswer, TypeOK
  <2>2. rxPkt' \in Packets \/ rxPkt' = rxPkt
    BY <1>2, <2>1, ReceiverStep DEF ReceiverInv
  <2>3. QED
    BY <1>2, <2>1, <2>2 DEF RxAnswer, TypeOK
<1>3. CASE RxDrop
  BY <1>3, <1>a DEF RxDrop, TypeOK
<1>4. CASE RecordHeader
  <2>1. rxPkt \in Packets
    BY <1>4 DEF RecordHeader, Receives, ReceiverInv
  <2>2. rxPkt.host \in Hosts
    BY <2>1, PacketFacts
  <2>3. rxIndex' = 1 /\ 1 \in 0 .. FifoDepth + ProbeWords
    BY <1>4, BoundFacts DEF RecordHeader
  <2>4. overtaken' \in BOOLEAN
    BY <1>4 DEF RecordHeader
  <2>5. QED
    BY <1>4, <2>2, <2>3, <2>4 DEF RecordHeader, SaveAddress, TypeOK
<1>5. CASE RecordWord
  <2>1. rxIndex \in 1 .. Length(rxPkt) /\ rxPkt \in Packets /\ rxPkt.type = "record"
    BY <1>5, RecordWordFacts
  <2>2. Length(rxPkt) < FifoDepth + ProbeWords + 1 /\ Length(rxPkt) \in Nat
    BY <2>1, PacketFacts
  <2>3. rxIndex # Length(rxPkt) => rxIndex + 1 \in 0 .. FifoDepth + ProbeWords
    BY <2>1, <2>2, BoundFacts
  <2>4. 0 \in 0 .. FifoDepth + ProbeWords
    BY BoundFacts
  <2>5. rxIndex' \in 0 .. FifoDepth + ProbeWords
    BY <1>5, <2>3, <2>4 DEF RecordWord
  <2>6. rxState' \in {"IDLE", rxState} /\ rxPkt' \in {rxPkt, NoPacket(rxPkt.id)}
    BY <1>5 DEF RecordWord
  <2>7. last_ip_address' = last_ip_address /\ UNCHANGED << probeState, overtaken >>
    BY <1>5 DEF RecordWord, SaveAddress, SavesAddress
  <2>8. QED
    BY <1>a, <2>5, <2>6, <2>7 DEF TypeOK
<1>6. CASE ProbeIdle
  BY <1>6 DEF ProbeIdle, TypeOK
<1>7. CASE ProbeWord
  <2>1. rxIndex < ProbeWords
    BY <1>7 DEF ProbeWord, ReceiverInv
  <2>2. rxIndex \in Nat
    BY BoundFacts DEF TypeOK
  <2>3. rxIndex + 1 \in 0 .. FifoDepth + ProbeWords /\ 0 \in 0 .. FifoDepth + ProbeWords
    BY <2>1, <2>2, BoundFacts
  <2>4. rxState' \in {"IDLE", rxState} /\ rxPkt' \in {rxPkt, NoPacket(rxPkt.id)}
    BY <1>7 DEF ProbeWord
  <2>5. rxIndex' \in {0, rxIndex + 1} /\ probeState' \in {"IDLE", probeState}
    BY <1>7 DEF ProbeWord
  <2>6. UNCHANGED << last_ip_address, overtaken >>
    BY <1>7 DEF ProbeWord
  <2>7. QED
    BY <1>a, <2>3, <2>4, <2>5, <2>6 DEF TypeOK
<1>8. CASE ServeStep
  BY <1>8, ServeStepKeeps DEF TypeOK
<1>9. CASE UNCHANGED vars
  BY <1>9 DEF vars, rxVars, TypeOK
<1>10. QED
  BY <1>1, <1>2, <1>3, <1>4, <1>5, <1>6, <1>7, <1>8, <1>9 DEF Next, RxStep, ServeStep

\* wbState, dat_r, access, txFifo, sndState, txOwner, asked and lost: what a step leaves
\* alone keeps its type.
Others ==
    /\ wbState \in IF mode = "master" THEN {"IDLE", "WRITE_DATA", "READ_DATA", "SEND_DATA"}
                   ELSE {"IDLE", "SEND_WRITE", "SEND_READ", "WAIT_READ"}
    /\ access \in CpuAccesses
    /\ asked \in Packets \cup {NoPacket(0)} /\ lost \in BOOLEAN
    /\ dat_r \in Words \cup {NoWord}
    /\ txFifo \in Seq(IF mode = "master" THEN Replies ELSE Requests) /\ Len(txFifo) <= FifoDepth
    /\ sndState \in {"IDLE", "SEND_BASE_ADDRESS", "SEND_DATA"}
    /\ txOwner \in {None, "probe", "record"}

LEMMA OthersTyped ==
    ASSUME TypeOK, ReceiverInv, FifoInv, RecordInv, MasterInv, SenderInv, SlaveInv, [Next]_vars
    PROVE  Others'
<1>0. Others
  BY DEF TypeOK, Others
<1>a. mode \in {"master", "slave"}
  BY EtherboneAssumption DEF ReceiverInv, EtherboneAssumption
<1>b. access \in CpuAccesses
  BY DEF TypeOK
<1>c. [access EXCEPT !.pending = FALSE] \in CpuAccesses
  BY <1>b DEF CpuAccesses
<1>1. CASE RxIdle \/ RxDrop \/ RecordHeader \/ RecordWord \/ ProbeIdle
  <2>1. UNCHANGED << mode, wbState, access, asked, lost, dat_r, txFifo, sndState, txOwner >>
    BY <1>1 DEF RxIdle, RxDrop, RecordHeader, RecordWord, ProbeIdle, netVars, wbVars, cpuVars, sndVars
  <2>2. QED
    BY <1>0, <2>1 DEF Others
<1>2. CASE RxAnswer
  <2>1. /\ UNCHANGED << mode, wbState, access, dat_r, txFifo, sndState, txOwner >>
        /\ asked' = NoPacket(0) /\ (lost' = TRUE \/ lost' = lost)
    BY <1>2 DEF RxAnswer, wbVars, cpuVars, sndVars
  <2>2. QED
    BY <1>0, <2>1 DEF Others
<1>3. CASE ProbeWord
  <2>1. /\ UNCHANGED << mode, wbState, access, asked, lost, dat_r, txFifo, sndState >>
        /\ txOwner' \in {None, txOwner}
    BY <1>3 DEF ProbeWord, netVars, wbVars, cpuVars, sndVars
  <2>2. QED
    BY <1>0, <2>1 DEF Others
<1>4. CASE RcvBase \/ SlaveDrops
  <2>1. UNCHANGED << mode, wbState, access, asked, lost, dat_r, txFifo, sndState, txOwner >>
    BY <1>4 DEF RcvBase, SlaveDrops, rxVars, netVars, wbVars, cpuVars, sndVars
  <2>2. QED
    BY <1>0, <2>1 DEF Others
<1>5. CASE WbIdle
  <2>1. /\ UNCHANGED << mode, access, asked, lost, dat_r, txFifo, sndState, txOwner >>
        /\ mode = "master" /\ wbState' \in {"WRITE_DATA", "READ_DATA"}
    BY <1>5 DEF WbIdle, rxVars, netVars, cpuVars, sndVars
  <2>2. QED
    BY <1>0, <2>1 DEF Others
<1>6. CASE WbWrite
  <2>1. /\ UNCHANGED << mode, access, asked, lost, dat_r, txFifo, sndState, txOwner >>
        /\ wbState = "WRITE_DATA" /\ wbState' \in {"IDLE", "WRITE_DATA"}
    BY <1>6 DEF WbWrite, rxVars, netVars, cpuVars, sndVars
  <2>2. QED
    BY <1>0, <2>1 DEF Others
<1>7. CASE WbRead
  <2>1. /\ UNCHANGED << mode, access, asked, lost, txFifo, sndState, txOwner >>
        /\ wbState = "READ_DATA" /\ wbState' = "SEND_DATA" /\ dat_r' = Head(rxFifo)
        /\ Whole(rxFifo)
    BY <1>7 DEF WbRead, Presents, rxVars, netVars, cpuVars, sndVars
  <2>2. Head(rxFifo) \in Words
    BY <2>1, WholeTail, HeadFacts DEF TypeOK
  <2>3. QED
    BY <1>0, <2>1, <2>2 DEF Others
<1>8. CASE WbSend
  <2>1. /\ UNCHANGED << mode, access, asked, lost, sndState, txOwner >>
        /\ dat_r' = NoWord /\ wbState' \in {"IDLE", "READ_DATA"}
    BY <1>8 DEF WbSend, AfterSend, rxVars, netVars, cpuVars
  <2>2. /\ mode = "master" /\ Len(txFifo) < FifoDepth
        /\ txFifo' = Append(txFifo, AnswerTo(Asked(Head(rxFifo))))
        /\ AnswerTo(Asked(Head(rxFifo))) \in Replies
    BY <1>8, SendFacts
  <2>3. txFifo \in Seq(Replies)
    BY <2>2 DEF TypeOK
  <2>4. txFifo' \in Seq(Replies) /\ Len(txFifo') = Len(txFifo) + 1 /\ Len(txFifo) \in Nat
    BY <2>2, <2>3, AppendFacts
  <2>5. Len(txFifo') <= FifoDepth
    BY <2>2, <2>4, BoundFacts
  <2>6. QED
    BY <1>0, <2>1, <2>2, <2>4, <2>5 DEF Others
<1>9. CASE CpuAsks
  <2>1. UNCHANGED << mode, wbState, asked, lost, dat_r, txFifo, sndState, txOwner >>
    BY <1>9 DEF CpuAsks, rxVars, netVars, sndVars
  <2>2. PICK we \in BOOLEAN : access' = [pending |-> TRUE, we |-> we, id |-> (access.id + 1) % Ids]
    BY <1>9 DEF CpuAsks
  <2>3. access.id \in 0 .. Ids - 1
    BY <1>b DEF CpuAccesses
  <2>4. (access.id + 1) % Ids \in 0 .. Ids - 1
    BY <2>3, BoundFacts
  <2>5. access' \in CpuAccesses
    BY <2>2, <2>4 DEF CpuAccesses
  <2>6. QED
    BY <1>0, <2>1, <2>5 DEF Others
<1>10. CASE SlaveIdle
  <2>1. /\ UNCHANGED << mode, access, asked, lost, dat_r, txFifo, sndState, txOwner >>
        /\ mode = "slave" /\ wbState' \in {"SEND_WRITE", "SEND_READ"}
    BY <1>10 DEF SlaveIdle, rxVars, netVars, cpuVars, sndVars
  <2>2. QED
    BY <1>0, <2>1 DEF Others
<1>11. CASE SlaveSend
  <2>1. /\ UNCHANGED << mode, asked, lost, dat_r, sndState, txOwner >>
        /\ wbState \in {"SEND_WRITE", "SEND_READ"} /\ wbState' \in {"IDLE", "WAIT_READ"}
        /\ access' \in {access, [access EXCEPT !.pending = FALSE]}
        /\ HasRoom(txFifo) /\ txFifo' = Append(txFifo, [access |-> access, last |-> TRUE])
    BY <1>11 DEF SlaveSend, Acknowledge, rxVars, netVars
  <2>2. mode # "master"
    BY <1>0, <2>1 DEF Others
  <2>3. txFifo \in Seq(Requests) /\ [access |-> access, last |-> TRUE] \in Requests
    BY <1>b, <2>2 DEF TypeOK, Requests
  <2>4. txFifo' \in Seq(Requests) /\ Len(txFifo') = Len(txFifo) + 1 /\ Len(txFifo) \in Nat
    BY <2>1, <2>3, AppendFacts
  <2>5. Len(txFifo') <= FifoDepth
    BY <2>1, <2>4, RoomFacts, BoundFacts
  <2>6. QED
    BY <1>0, <1>b, <1>c, <2>1, <2>2, <2>4, <2>5 DEF Others
<1>12. CASE SlaveWaitRead
  <2>1. /\ UNCHANGED << mode, asked, lost, dat_r, txFifo, sndState, txOwner >>
        /\ wbState = "WAIT_READ" /\ wbState' \in {"IDLE", "WAIT_READ"}
        /\ access' \in {access, [access EXCEPT !.pending = FALSE]}
    BY <1>12 DEF SlaveWaitRead, Acknowledge, rxVars, netVars, sndVars
  <2>2. QED
    BY <1>0, <1>b, <1>c, <2>1 DEF Others
<1>13. CASE Grant
  <2>1. /\ UNCHANGED << mode, wbState, access, asked, lost, dat_r, txFifo, sndState >>
        /\ txOwner' \in {"probe", "record"}
    BY <1>13 DEF Grant, rxVars, netVars, wbVars, cpuVars, sndVars
  <2>2. QED
    BY <1>0, <2>1 DEF Others
<1>14. CASE SndIdle \/ SndBaseAddress
  <2>1. /\ UNCHANGED << mode, wbState, access, asked, lost, dat_r, txFifo, txOwner >>
        /\ sndState' \in {"SEND_BASE_ADDRESS", "SEND_DATA"}
    BY <1>14 DEF SndIdle, SndBaseAddress, rxVars, netVars, wbVars, cpuVars
  <2>2. QED
    BY <1>0, <2>1 DEF Others
<1>15. CASE SndData
  <2>1. /\ UNCHANGED << mode, wbState, access, dat_r >>
        /\ txFifo' = Tail(txFifo) /\ Leaves(Head(txFifo))
        /\ sndState' \in {"IDLE", sndState} /\ txOwner' \in {None, txOwner}
        /\ sndState = "SEND_DATA"
    BY <1>15 DEF SndData, OwnerAfterLast, wbVars, cpuVars
  <2>2. txFifo # << >>
    BY <2>1, WholeTail DEF SenderInv, TypeOK
  <2>3. /\ txFifo' \in Seq(IF mode = "master" THEN Replies ELSE Requests)
        /\ Len(txFifo') = Len(txFifo) - 1 /\ Len(txFifo) \in Nat
    BY <1>0, <2>1, <2>2, TailFacts DEF Others
  <2>4. Len(txFifo') <= FifoDepth
    BY <1>0, <2>3, BoundFacts DEF Others
  <2>5. asked' \in Packets \cup {NoPacket(0)} /\ lost' \in BOOLEAN
    <3>1. CASE mode = "master" \/ UNCHANGED netVars
      BY <1>0, <2>1, <3>1 DEF Leaves, netVars, Others
    <3>2. CASE mode = "slave" /\ ~UNCHANGED netVars
      <4>1. Head(txFifo) \in Requests
        BY <2>2, <3>2, TailFacts DEF TypeOK
      <4>2. Head(txFifo).access.id \in 0 .. Ids - 1
        BY <4>1 DEF Requests, CpuAccesses
      <4>3. \/ lost' = TRUE /\ UNCHANGED asked
            \/ /\ last_ip_address # None /\ UNCHANGED lost
               /\ asked' = Answer(Head(txFifo).access.id, last_ip_address)
        BY <2>1, <3>2 DEF Leaves
      <4>4. last_ip_address # None => last_ip_address \in Hosts
        BY DEF TypeOK
      <4>5. last_ip_address # None => Answer(Head(txFifo).access.id, last_ip_address) \in Packets
        BY <4>2, <4>4 DEF Packets
      <4>6. asked \in Packets \cup {NoPacket(0)} /\ lost \in BOOLEAN
        BY <1>0 DEF Others
      <4>7. QED
        BY <4>3, <4>5, <4>6
    <3>3. QED
      BY <1>a, <3>1, <3>2
  <2>6. QED
    BY <1>0, <2>1, <2>3, <2>4, <2>5 DEF Others
<1>16. CASE UNCHANGED vars
  <2>1. UNCHANGED << mode, wbState, access, asked, lost, dat_r, txFifo, sndState, txOwner >>
    BY <1>16 DEF vars, rxVars, netVars, wbVars, cpuVars, sndVars
  <2>2. QED
    BY <1>0, <2>1 DEF Others
<1>17. QED
  BY <1>1, <1>2, <1>3, <1>4, <1>5, <1>6, <1>7, <1>8, <1>9, <1>10, <1>11, <1>12, <1>13, <1>14, <1>15, <1>16
     DEF Next, RxStep, BusStep, CpuStep, SndStep

LEMMA TypeStep ==
    ASSUME Unmixed, TypeOK, ReceiverInv, FifoInv, RecordInv, MasterInv, SenderInv, SlaveInv, [Next]_vars
    PROVE  TypeOK'
  BY RcvTyped, RxTyped, OthersTyped DEF TypeOK, Others

-----------------------------------------------------------------------------
(* The record sender. *)

\* Who moves the FIFO in front of it.
LEMMA SndCases ==
    ASSUME [Next]_vars
    PROVE  UNCHANGED txFifo \/ WbSend \/ SlaveSend \/ SndData
<1>1. RxIdle \/ RxAnswer \/ RxStep => UNCHANGED txFifo
  BY DEF RxIdle, RxAnswer, RxStep, RxDrop, RecordHeader, RecordWord, ProbeIdle, ProbeWord, sndVars
<1>2. BusStep => UNCHANGED txFifo \/ WbSend
  BY DEF BusStep, RcvBase, WbIdle, WbWrite, WbRead, SlaveDrops, SlaveWaitRead, sndVars
<1>3. CpuAsks \/ CpuStep => UNCHANGED txFifo \/ SlaveSend
  BY DEF CpuAsks, CpuStep, SlaveIdle, sndVars
<1>4. SndStep \/ Grant => UNCHANGED txFifo \/ SndData
  BY DEF SndStep, SndIdle, SndBaseAddress, Grant, sndVars
<1>5. UNCHANGED vars => UNCHANGED txFifo
  BY DEF vars, sndVars
<1>6. QED
  BY <1>1, <1>2, <1>3, <1>4, <1>5 DEF Next

LEMMA SlaveSendFacts ==
    ASSUME TypeOK, SlaveSend
    PROVE  /\ mode # "master" /\ txFifo \in Seq(Requests)
           /\ [access |-> access, last |-> TRUE] \in Requests
           /\ txFifo' = Append(txFifo, [access |-> access, last |-> TRUE])
<1>1. /\ wbState \in {"SEND_WRITE", "SEND_READ"}
      /\ txFifo' = Append(txFifo, [access |-> access, last |-> TRUE])
  BY DEF SlaveSend
<1>2. mode # "master"
  BY <1>1 DEF TypeOK
<1>3. QED
  BY <1>1, <1>2 DEF TypeOK, Requests

LEMMA SndDataFacts ==
    ASSUME TypeOK, SenderInv, SndData
    PROVE  txFifo # << >> /\ txFifo' = Tail(txFifo)
  BY WholeTail DEF SndData, SenderInv, TypeOK

LEMMA SenderInit == Init => SenderInv
  BY DEF Init, SenderInv, None

LEMMA SenderStep ==
    ASSUME TypeOK, ReceiverInv, FifoInv, RecordInv, MasterInv, SenderInv, [Next]_vars
    PROVE  SenderInv'
<1>1. CASE SndData
  <2>1. /\ sndState = "SEND_DATA" /\ txFifo' = Tail(txFifo)
        /\ IF Head(txFifo).last THEN sndState' = "IDLE" /\ txOwner' = None
           ELSE UNCHANGED << sndState, txOwner >>
    BY <1>1 DEF SndData, OwnerAfterLast
  <2>2. ~Head(txFifo).last => Whole(Tail(txFifo))
    BY <2>1, WholeTail DEF SenderInv, TypeOK
  <2>3. QED
    BY <2>1, <2>2 DEF SenderInv, Whole, None
<1>2. CASE WbSend
  <2>1. /\ txFifo' = Append(txFifo, AnswerTo(Asked(Head(rxFifo)))) /\ mode = "master"
        /\ AnswerTo(Asked(Head(rxFifo))) \in Replies
    BY <1>2, SendFacts
  <2>2. Whole(txFifo) => Whole(txFifo)'
    BY <2>1, WholeAppend DEF TypeOK, Whole
  <2>3. QED
    BY <1>2, <2>2 DEF WbSend, SenderInv
<1>3. CASE SlaveSend
  <2>1. Whole(txFifo) => Whole(txFifo)'
    BY <1>3, SlaveSendFacts, WholeAppend DEF Whole
  <2>2. QED
    BY <1>3, <2>1 DEF SlaveSend, SenderInv
<1>4. CASE UNCHANGED txFifo
  <2>1. CASE UNCHANGED << sndState, txOwner >>
    BY <1>4, <2>1 DEF SenderInv, Whole
  <2>2. CASE ProbeWord \/ Grant \/ SndIdle \/ SndBaseAddress
    BY <1>4, <2>2 DEF ProbeWord, Grant, SndIdle, SndBaseAddress, sndVars, SenderInv, Whole, None
  <2>3. CASE RxIdle \/ RxAnswer \/ RxDrop \/ RecordHeader \/ RecordWord \/ ProbeIdle
    BY <2>1, <2>3 DEF RxIdle, RxAnswer, RxDrop, RecordHeader, RecordWord, ProbeIdle, sndVars
  <2>4. CASE BusStep \/ CpuAsks \/ CpuStep
    BY <2>1, <2>4 DEF BusStep, RcvBase, WbIdle, WbWrite, WbRead, WbSend, SlaveDrops, SlaveWaitRead,
                      CpuAsks, CpuStep, SlaveIdle, SlaveSend, sndVars
  <2>5. CASE UNCHANGED vars
    BY <2>1, <2>5 DEF vars, sndVars
  <2>6. QED
    BY <1>1, <2>2, <2>3, <2>4, <2>5 DEF Next, RxStep, SndStep
<1>5. QED
  BY <1>1, <1>2, <1>3, <1>4, SndCases

-----------------------------------------------------------------------------
(* The bus master. *)

\* MasterInv, its two parts.
AtHead ==
    /\ wbState = "WRITE_DATA" => rcvState = "RECEIVE_WRITES"
    /\ wbState \in {"READ_DATA", "SEND_DATA"} => rcvState = "RECEIVE_READS"
    /\ wbState = "SEND_DATA" => dat_r = Head(rxFifo)

IsReply(r) == IsRead(r.word) /\ OnePart(r.word.pkt) /\ r = AnswerTo(Asked(r.word))

AllReplies == \A k \in DOMAIN txFifo : IsReply(txFifo[k])

LEMMA MasterParts == MasterInv <=> (mode = "master" => AtHead /\ AllReplies)
  BY DEF MasterInv, AtHead, AllReplies, IsReply

LEMMA MasterInit == Init => MasterInv
  BY DEF Init, MasterInv

LEMMA HeadKept ==
    ASSUME TypeOK, ReceiverInv, FifoInv, RecordInv, mode = "master", AtHead, [Next]_vars
    PROVE  AtHead'
<1>1. CASE WbIdle
  BY <1>1 DEF WbIdle, Presents, rcvVars, AtHead
<1>2. CASE WbWrite
  BY <1>2 DEF WbWrite, Presents, TakenWrite, Taken, AtHead
<1>3. CASE WbRead
  BY <1>3 DEF WbRead, Presents, rcvVars, AtHead
<1>4. CASE WbSend
  BY <1>4 DEF WbSend, AfterSend, Presents, TakenRead, Taken, AtHead
<1>5. CASE UNCHANGED << wbState, dat_r >> /\ (rcvState = "IDLE" \/ wbState = "IDLE")
  BY <1>5 DEF AtHead
<1>6. CASE UNCHANGED << wbState, dat_r, rcvState, rxFifo >>
  BY <1>6 DEF AtHead
<1>7. CASE RecordWord
  <2>1. UNCHANGED << wbState, dat_r, rcvState >>
    BY <1>7 DEF RecordWord, wbVars
  <2>2. CASE rcvState = "IDLE"
    BY <2>1, <2>2 DEF AtHead
  <2>3. CASE rcvState # "IDLE"
    <3>1. rxFifo # << >>
      BY <2>3, WholeTail DEF RecordInv, TypeOK
    <3>2. Head(rxFifo') = Head(rxFifo)
      BY <1>7, <3>1, RecordWordFacts, AppendFacts
    <3>3. QED
      BY <2>1, <3>2 DEF AtHead
  <2>4. QED
    BY <2>2, <2>3
<1>8. CASE RcvBase
  <2>1. rcvState = "IDLE" /\ UNCHANGED << wbState, dat_r >>
    BY <1>8, BaseFacts DEF RcvBase, wbVars
  <2>2. QED
    BY <1>5, <2>1
<1>9. ~SlaveDrops /\ ~SlaveWaitRead /\ ~SlaveIdle
  BY DEF SlaveDrops, SlaveIdle, SlaveWaitRead, TypeOK
<1>10. CASE SlaveSend
  BY <1>10 DEF SlaveSend, TypeOK
<1>11. CASE RxIdle \/ RxAnswer \/ RxDrop \/ RecordHeader \/ ProbeIdle \/ ProbeWord
  BY <1>6, <1>11 DEF RxIdle, RxAnswer, RxDrop, RecordHeader, ProbeIdle, ProbeWord, rcvVars, wbVars
<1>12. CASE CpuAsks \/ SndStep \/ Grant \/ UNCHANGED vars
  BY <1>6, <1>12 DEF CpuAsks, SndStep, SndIdle, SndBaseAddress, SndData, Grant, vars, rcvVars, wbVars
<1>13. QED
  BY <1>1, <1>2, <1>3, <1>4, <1>7, <1>8, <1>9, <1>10, <1>11, <1>12 DEF Next, RxStep, BusStep, CpuStep

LEMMA RepliesKept ==
    ASSUME TypeOK, ReceiverInv, FifoInv, RecordInv, MasterInv, SenderInv, mode = "master", [Next]_vars
    PROVE  AllReplies'
<1>0. AllReplies
  BY MasterParts
<1>1. CASE UNCHANGED txFifo
  BY <1>0, <1>1 DEF AllReplies
<1>2. CASE WbSend
  <2> DEFINE r == AnswerTo(Asked(Head(rxFifo)))
  <2>1. /\ rxFifo # << >> /\ IsRead(Head(rxFifo)) /\ txFifo' = Append(txFifo, r) /\ r \in Replies
        /\ r.word = Head(rxFifo) /\ Asked(r.word) = Asked(Head(rxFifo))
    BY <1>2, SendFacts
  <2>2. OnePart(Head(rxFifo).pkt)
    BY <2>1, HeadFacts DEF HeadPacket
  <2>3. IsReply(r)
    BY <2>1, <2>2 DEF IsReply
  <2> HIDE DEF r
  <2>4. txFifo \in Seq(Replies)
    BY DEF TypeOK
  <2>5. \A k \in DOMAIN txFifo' : k \in DOMAIN txFifo \/ k = Len(txFifo) + 1
    <3>1. DOMAIN txFifo = 1 .. Len(txFifo) /\ DOMAIN txFifo' = 1 .. Len(txFifo) + 1 /\ Len(txFifo) \in Nat
      BY <2>1, <2>4, AppendFacts
    <3>2. QED
      BY <3>1
  <2>6. /\ \A k \in DOMAIN txFifo : txFifo'[k] = txFifo[k]
        /\ txFifo'[Len(txFifo) + 1] = r
    BY <2>1, <2>4, AppendFacts
  <2>7. QED
    BY <1>0, <2>3, <2>5, <2>6 DEF AllReplies
<1>3. CASE SlaveSend
  BY <1>3, SlaveSendFacts
<1>4. CASE SndData
  <2>1. \A k \in DOMAIN txFifo' : k + 1 \in DOMAIN txFifo /\ txFifo'[k] = txFifo[k + 1]
    BY <1>4, SndDataFacts, TailFacts DEF TypeOK
  <2>2. QED
    BY <1>0, <2>1 DEF AllReplies
<1>5. QED
  BY <1>1, <1>2, <1>3, <1>4, SndCases

LEMMA ModeFixed ==
    ASSUME [Next]_vars PROVE mode' = mode
<1>1. RxIdle \/ RxAnswer \/ RxStep => mode' = mode
  BY DEF RxIdle, RxAnswer, RxStep, RxDrop, RecordHeader, RecordWord, ProbeIdle, ProbeWord, wbVars, cpuVars
<1>2. ServeStep => mode' = mode
  BY ServeStepKeeps
<1>3. UNCHANGED vars => mode' = mode
  BY DEF vars, wbVars, cpuVars
<1>4. QED
  BY <1>1, <1>2, <1>3 DEF Next, ServeStep

LEMMA MasterStep ==
    ASSUME TypeOK, ReceiverInv, FifoInv, RecordInv, MasterInv, SenderInv, [Next]_vars
    PROVE  MasterInv'
<1> SUFFICES ASSUME mode = "master" PROVE AtHead' /\ AllReplies'
  BY ModeFixed, MasterParts DEF MasterInv, AtHead, AllReplies, IsReply
<1>1. AtHead
  BY MasterParts
<1>2. QED
  BY <1>1, HeadKept, RepliesKept

-----------------------------------------------------------------------------
(* Whose records are underway. *)

\* A word that is appended to the FIFOs, and nothing else that is new.
LEMMA RxWordsFrom ==
    ASSUME TypeOK, ReceiverInv, FifoInv, RecordInv, [Next]_vars
    PROVE  \A k \in DOMAIN rxFifo' :
              \/ \E j \in DOMAIN rxFifo : rxFifo'[k] = rxFifo[j]
              \/ RecordWord /\ rxFifo'[k] = Word(rxPkt, rxIndex)
<1>0. rxFifo \in Seq(Words)
  BY DEF TypeOK
<1>1. CASE UNCHANGED rcvVars
  BY <1>1 DEF rcvVars
<1>2. CASE RecordWord
  <2> DEFINE w == Word(rxPkt, rxIndex)
  <2>1. w \in Words /\ rxFifo' = Append(rxFifo, w)
    BY <1>2, RecordWordFacts
  <2>2. /\ DOMAIN rxFifo = 1 .. Len(rxFifo) /\ DOMAIN rxFifo' = 1 .. Len(rxFifo) + 1 /\ Len(rxFifo) \in Nat
        /\ \A k \in DOMAIN rxFifo : rxFifo'[k] = rxFifo[k]
        /\ rxFifo'[Len(rxFifo) + 1] = w
    BY <1>0, <2>1, AppendFacts
  <2>3. \A k \in DOMAIN rxFifo' : k \in DOMAIN rxFifo \/ k = Len(rxFifo) + 1
    BY <2>2
  <2>4. QED
    BY <1>2, <2>2, <2>3
<1>3. CASE RcvBase \/ SlaveTakes
  <2>1. rxFifo # << >> /\ rxFifo' = Tail(rxFifo)
    BY <1>3, BaseFacts, TakenFacts
  <2>2. QED
    BY <1>0, <2>1, TailFacts
<1>4. QED
  BY <1>1, <1>2, <1>3, RcvCases

LEMMA TxWordsFrom ==
    ASSUME TypeOK, ReceiverInv, FifoInv, RecordInv, MasterInv, SenderInv, mode = "master", [Next]_vars
    PROVE  \A k \in DOMAIN txFifo' :
              \/ \E j \in DOMAIN txFifo : txFifo'[k] = txFifo[j]
              \/ rxFifo # << >> /\ txFifo'[k].word = Head(rxFifo)
<1>0. txFifo \in Seq(Replies)
  BY DEF TypeOK
<1>1. CASE UNCHANGED txFifo
  BY <1>1
<1>2. CASE WbSend
  <2> DEFINE r == AnswerTo(Asked(Head(rxFifo)))
  <2>1. /\ rxFifo # << >> /\ txFifo' = Append(txFifo, r) /\ r \in Replies
        /\ r.word = Head(rxFifo)
    BY <1>2, SendFacts
  <2> HIDE DEF r
  <2>2. /\ DOMAIN txFifo = 1 .. Len(txFifo) /\ DOMAIN txFifo' = 1 .. Len(txFifo) + 1 /\ Len(txFifo) \in Nat
        /\ \A k \in DOMAIN txFifo : txFifo'[k] = txFifo[k]
        /\ txFifo'[Len(txFifo) + 1] = r
    BY <1>0, <2>1, AppendFacts
  <2>3. \A k \in DOMAIN txFifo' : k \in DOMAIN txFifo \/ k = Len(txFifo) + 1
    BY <2>2
  <2>4. QED
    BY <2>1, <2>2, <2>3
<1>3. CASE SlaveSend
  BY <1>3, SlaveSendFacts
<1>4. CASE SndData
  BY <1>0, <1>4, SndDataFacts, TailFacts
<1>5. QED
  BY <1>1, <1>2, <1>3, <1>4, SndCases

LEMMA HostInit == Init => HostInv
  BY DEF Init, HostInv

\* Only a record's header can make the kept address another one, and it then finds out
\* whether a record is underway.
LEMMA AddressKept ==
    ASSUME ReceiverInv, [Next]_vars, ~overtaken'
    PROVE  \/ last_ip_address' = last_ip_address /\ ~overtaken
           \/ rxFifo' = << >> /\ txFifo' = << >>
<1>1. CASE RecordHeader
  <2>1. /\ last_ip_address' = rxPkt.host /\ UNCHANGED << rxFifo, txFifo >>
        /\ ~(Busy /\ (overtaken \/ rxPkt.host # last_ip_address))
    BY <1>1 DEF RecordHeader, SaveAddress, SavesAddress, rcvVars, sndVars
  <2>2. CASE Busy
    BY <2>1, <2>2
  <2>3. CASE ~Busy
    BY <2>1, <2>3 DEF Busy
  <2>4. QED
    BY <2>2, <2>3
<1>2. CASE RecordWord
  BY <1>2 DEF RecordWord, SaveAddress, SavesAddress
<1>3. CASE RxIdle \/ RxAnswer \/ RxDrop \/ ProbeIdle \/ ProbeWord \/ UNCHANGED vars
  BY <1>3 DEF RxIdle, RxAnswer, RxDrop, ProbeIdle, ProbeWord, vars, rxVars
<1>4. CASE ServeStep
  BY <1>4, ServeStepKeeps
<1>5. QED
  BY <1>1, <1>2, <1>3, <1>4 DEF Next, RxStep, ServeStep

LEMMA HostStep ==
    ASSUME TypeOK, ReceiverInv, FifoInv, RecordInv, MasterInv, SenderInv, HostInv, [Next]_vars
    PROVE  HostInv'
<1> SUFFICES ASSUME mode = "master", ~overtaken'
             PROVE  /\ \A k \in DOMAIN rxFifo' : rxFifo'[k].pkt.host = last_ip_address'
                    /\ \A k \in DOMAIN txFifo' : txFifo'[k].word.pkt.host = last_ip_address'
  BY ModeFixed DEF HostInv
<1>1. CASE rxFifo' = << >> /\ txFifo' = << >>
  BY <1>1
<1>2. CASE last_ip_address' = last_ip_address /\ ~overtaken
  <2>1. /\ \A k \in DOMAIN rxFifo : rxFifo[k].pkt.host = last_ip_address
        /\ \A k \in DOMAIN txFifo : txFifo[k].word.pkt.host = last_ip_address
    BY <1>2 DEF HostInv
  <2>2. RecordWord => Word(rxPkt, rxIndex).pkt.host = last_ip_address
    <3>1. RecordWord => rxIndex > 0 /\ Receives("record")
      BY RecordWordFacts DEF RecordWord
    <3>2. QED
      BY <3>1, WordIs DEF ReceiverInv
  <2>3. rxFifo # << >> => Head(rxFifo).pkt.host = last_ip_address
    <3>1. rxFifo # << >> => 1 \in DOMAIN rxFifo /\ Head(rxFifo) = rxFifo[1]
      BY TailFacts DEF TypeOK
    <3>2. QED
      BY <2>1, <3>1
  <2>4. \A k \in DOMAIN rxFifo' : rxFifo'[k].pkt.host = last_ip_address
    BY <2>1, <2>2, RxWordsFrom
  <2>5. \A k \in DOMAIN txFifo' : txFifo'[k].word.pkt.host = last_ip_address
    BY <2>1, <2>3, TxWordsFrom
  <2>6. QED
    BY <1>2, <2>4, <2>5
<1>3. QED
  BY <1>1, <1>2, AddressKept

-----------------------------------------------------------------------------
(* The read of a slave. *)

LEMMA SlaveInit == Init => SlaveInv
<1> SUFFICES ASSUME Init PROVE SlaveInv
  OBVIOUS
<1>1. rxFifo = << >> /\ txFifo = << >> /\ wbState = "IDLE" /\ rxState = "IDLE" /\ asked = NoPacket(0)
  BY DEF Init
<1>2. ReadsInTx = {} /\ AnswersInRx = {} /\ ~Awaited /\ ~Coming
  BY <1>1 DEF ReadsInTx, AnswersInRx, Awaited, Coming, Receives, NoPacket, None
<1>3. QED
  BY <1>1, <1>2 DEF SlaveInv

LEMMA SameShift ==
    ASSUME NEW d \in {0, 1}, NEW j \in Nat, NEW k \in Nat, j + d = k + d PROVE j = k
  OBVIOUS

\* A step that is none of the read's: the FIFOs at most lose their heads.
LEMMA ReadUntouched ==
    ASSUME SlaveInv, UNCHANGED << mode, wbState, access >>, TypeOK, TypeOK',
           NEW d \in {0, 1}, NEW e \in {0, 1},
           mode = "slave" => \A k \in ReadsInTx' : k + d \in ReadsInTx /\ txFifo'[k] = txFifo[k + d],
           \A k \in AnswersInRx' : k + e \in AnswersInRx /\ rxFifo'[k] = rxFifo[k + e],
           Coming' => Coming /\ rxPkt' = rxPkt,
           Awaited' => Awaited /\ asked' = asked,
           mode = "slave" => \A k \in DOMAIN rxFifo' : rxFifo'[k].pkt.wcount \in {0, 1}
    PROVE  SlaveInv'
<1> SUFFICES ASSUME mode = "slave" PROVE SlaveInv'
  BY DEF SlaveInv
<1>1. ReadsInTx' \subseteq Nat /\ AnswersInRx' \subseteq Nat
  <2>1. DOMAIN txFifo' \subseteq Nat /\ DOMAIN rxFifo' \subseteq Nat
    BY LenProperties DEF TypeOK
  <2>2. QED
    BY <2>1 DEF ReadsInTx, AnswersInRx
<1>2. \A j, k \in ReadsInTx' : j = k
  <2>1. \A j, k \in ReadsInTx' : j + d = k + d
    BY DEF SlaveInv
  <2>2. QED
    BY <1>1, <2>1, SameShift
<1>3. \A j, k \in AnswersInRx' : j = k
  <2>1. \A j, k \in AnswersInRx' : j + e = k + e
    BY DEF SlaveInv
  <2>2. QED
    BY <1>1, <2>1, SameShift
<1>4. /\ ReadsInTx' # {} => ReadsInTx # {}
      /\ AnswersInRx' # {} => AnswersInRx # {}
  OBVIOUS
<1>5. /\ \A k \in ReadsInTx' : txFifo'[k].access.id = access'.id
      /\ \A k \in AnswersInRx' : IsAnswer(rxFifo[k].pkt)'
      /\ Awaited' => IsAnswer(asked)'
      /\ Coming' => IsAnswer(rxPkt)'
  <2>1. \A k \in ReadsInTx : txFifo[k].access.id = access.id
    BY DEF SlaveInv
  <2>2. \A k \in ReadsInTx' : txFifo'[k].access.id = access'.id
    BY <2>1
  <2>3. \A k \in AnswersInRx : IsAnswer(rxFifo[k].pkt)
    BY DEF SlaveInv
  <2>4. \A k \in AnswersInRx' : IsAnswer(rxFifo'[k].pkt)
    BY <2>3
  <2>5. \A k \in AnswersInRx' : IsAnswer(rxFifo[k].pkt)'
    BY <2>4 DEF IsAnswer
  <2>6. Awaited' => IsAnswer(asked)'
    BY DEF SlaveInv, IsAnswer
  <2>7. Coming' => IsAnswer(rxPkt)'
    BY DEF SlaveInv, IsAnswer
  <2>8. QED
    BY <2>2, <2>5, <2>6, <2>7
<1>6. /\ ReadsInTx' # {} => ~Awaited' /\ ~Coming' /\ AnswersInRx' = {}
      /\ Awaited' => ~Coming' /\ AnswersInRx' = {}
      /\ Coming' => AnswersInRx' = {}
      /\ ReadsInTx' # {} \/ Awaited' \/ Coming' \/ AnswersInRx' # {} => wbState' = "WAIT_READ"
  BY <1>4 DEF SlaveInv
<1>7. /\ wbState' \in {"SEND_READ", "WAIT_READ"} => access'.pending /\ ~access'.we
      /\ wbState' = "SEND_WRITE" => access'.pending /\ access'.we
  BY DEF SlaveInv
<1>8. QED
  BY <1>2, <1>3, <1>5, <1>6, <1>7 DEF SlaveInv

LEMMA AnswersKept ==
    ASSUME TypeOK, UNCHANGED rxFifo
    PROVE  \A k \in AnswersInRx' : k + 0 \in AnswersInRx /\ rxFifo'[k] = rxFifo[k + 0]
<1>1. AnswersInRx' = AnswersInRx
  BY DEF AnswersInRx
<1>2. \A k \in DOMAIN rxFifo : k + 0 = k
  BY LenProperties DEF TypeOK
<1>3. QED
  BY <1>1, <1>2 DEF AnswersInRx

LEMMA AnswersPop ==
    ASSUME TypeOK, rxFifo # << >>, rxFifo' = Tail(rxFifo)
    PROVE  \A k \in AnswersInRx' : k + 1 \in AnswersInRx /\ rxFifo'[k] = rxFifo[k + 1]
<1>1. \A k \in DOMAIN rxFifo' : k + 1 \in DOMAIN rxFifo /\ rxFifo'[k] = rxFifo[k + 1]
  BY TailFacts DEF TypeOK
<1>2. QED
  BY <1>1 DEF AnswersInRx

LEMMA ReadsKept ==
    ASSUME TypeOK, UNCHANGED txFifo
    PROVE  \A k \in ReadsInTx' : k + 0 \in ReadsInTx /\ txFifo'[k] = txFifo[k + 0]
<1>1. ReadsInTx' = ReadsInTx
  BY DEF ReadsInTx
<1>2. \A k \in DOMAIN txFifo : k + 0 = k
  BY LenProperties DEF TypeOK
<1>3. QED
  BY <1>1, <1>2 DEF ReadsInTx

LEMMA ReadsPop ==
    ASSUME TypeOK, txFifo # << >>, txFifo' = Tail(txFifo)
    PROVE  \A k \in ReadsInTx' : k + 1 \in ReadsInTx /\ txFifo'[k] = txFifo[k + 1]
<1>1. \A k \in DOMAIN txFifo' : k + 1 \in DOMAIN txFifo /\ txFifo'[k] = txFifo[k + 1]
  BY TailFacts DEF TypeOK
<1>2. QED
  BY <1>1 DEF ReadsInTx

\* What is in the FIFO has been received.
LEMMA CountsKept ==
    ASSUME TypeOK, ReceiverInv, FifoInv, RecordInv, SlaveInv, mode = "slave", [Next]_vars
    PROVE  \A k \in DOMAIN rxFifo' : rxFifo'[k].pkt.wcount \in {0, 1}
<1>1. \A k \in DOMAIN rxFifo : rxFifo[k].pkt.wcount \in {0, 1}
  BY DEF SlaveInv
<1>2. RecordWord => Word(rxPkt, rxIndex).pkt.wcount \in {0, 1}
  <2> SUFFICES ASSUME RecordWord PROVE rxPkt.wcount \in {0, 1}
    BY WordIs
  <2>1. rxPkt \in Packets /\ Receives("record")
    BY RecordWordFacts DEF RecordWord
  <2>2. CASE rxPkt.wcount > 0
    <3>1. IsAnswer(rxPkt)
      BY <2>1, <2>2 DEF SlaveInv, Coming
    <3>2. QED
      BY <3>1, AnswerFacts DEF IsAnswer
  <2>3. CASE ~(rxPkt.wcount > 0)
    BY <2>1, <2>3, PacketFacts
  <2>4. QED
    BY <2>2, <2>3
<1>3. QED
  BY <1>1, <1>2, RxWordsFrom

NoRead == ReadsInTx = {} /\ ~Awaited /\ ~Coming /\ AnswersInRx = {}

LEMMA NoReadNow ==
    ASSUME SlaveInv, mode = "slave", wbState # "WAIT_READ" PROVE NoRead
  BY DEF SlaveInv, NoRead

LEMMA NoReadThen ==
    ASSUME NoRead',
           wbState' \in {"SEND_READ", "WAIT_READ"} => access'.pending /\ ~access'.we,
           wbState' = "SEND_WRITE" => access'.pending /\ access'.we,
           \A k \in DOMAIN rxFifo' : rxFifo'[k].pkt.wcount \in {0, 1}
    PROVE  SlaveInv'
  BY DEF SlaveInv, NoRead

\* The answer comes in, or is lost.
LEMMA RxAnswerStep ==
    ASSUME TypeOK, TypeOK', ReceiverInv, FifoInv, RecordInv, SlaveInv, mode = "slave", RxAnswer
    PROVE  SlaveInv'
<1>1. /\ UNCHANGED << mode, wbState, access, rxFifo, txFifo >> /\ Awaited /\ asked' = NoPacket(0)
      /\ \/ rxState = "IDLE" /\ rxState' = "RECEIVE" /\ rxPkt' = Answer(asked.id, asked.host)
         \/ UNCHANGED << rxState, rxPkt >>
  BY DEF RxAnswer, Awaited, rcvVars, wbVars, cpuVars, sndVars
<1>2. ~Awaited'
  BY <1>1 DEF Awaited, NoPacket
<1>3. \A k \in DOMAIN rxFifo' : rxFifo'[k].pkt.wcount \in {0, 1}
  BY <1>1 DEF SlaveInv
<1>4. CASE UNCHANGED << rxState, rxPkt >>
  <2>1. Coming' => Coming
    BY <1>4 DEF Coming, Receives
  <2>2. QED
    BY <1>1, <1>2, <1>3, <1>4, <2>1, ReadsKept, AnswersKept, ReadUntouched
<1>5. CASE rxPkt' = Answer(asked.id, asked.host)
  <2>1. /\ IsAnswer(asked) /\ ReadsInTx = {} /\ AnswersInRx = {} /\ wbState = "WAIT_READ"
    BY <1>1 DEF SlaveInv
  <2>2. asked.id = access.id
    BY <2>1, AnswerFacts DEF IsAnswer
  <2>3. rxPkt'.host = asked.host
    BY <1>5, AnswerFacts
  <2>4. IsAnswer(rxPkt)'
    BY <1>1, <1>5, <2>2, <2>3 DEF IsAnswer
  <2>5. ReadsInTx' = {} /\ AnswersInRx' = {}
    BY <1>1, <2>1 DEF ReadsInTx, AnswersInRx
  <2>6. access'.pending /\ ~access'.we /\ wbState' = "WAIT_READ"
    BY <1>1, <2>1 DEF SlaveInv
  <2>7. QED
    BY <1>2, <1>3, <2>4, <2>5, <2>6 DEF SlaveInv
<1>6. QED
  BY <1>1, <1>4, <1>5

\* A word of the answer, or of a foreign record, enters the FIFO.
LEMMA RecordWordStep ==
    ASSUME TypeOK, TypeOK', ReceiverInv, FifoInv, RecordInv, SlaveInv, mode = "slave", RecordWord,
           [Next]_vars
    PROVE  SlaveInv'
<1> DEFINE w == Word(rxPkt, rxIndex)
<1>1. /\ rxPkt \in Packets /\ rxPkt.type = "record" /\ OnePart(rxPkt)
      /\ rxIndex \in Nat /\ Length(rxPkt) \in Nat
      /\ w \in Words /\ rxFifo \in Seq(Words) /\ rxFifo' = Append(rxFifo, w)
  BY RecordWordFacts
<1>2. w.pkt = rxPkt /\ (w.last <=> rxIndex = Length(rxPkt))
  BY WordIs
<1> HIDE DEF w
<1>3. /\ DOMAIN rxFifo = 1 .. Len(rxFifo) /\ DOMAIN rxFifo' = 1 .. Len(rxFifo) + 1 /\ Len(rxFifo) \in Nat
      /\ \A k \in DOMAIN rxFifo : rxFifo'[k] = rxFifo[k]
      /\ rxFifo'[Len(rxFifo) + 1] = w
  BY <1>1, AppendFacts
<1>4. \A k \in DOMAIN rxFifo' : k \in DOMAIN rxFifo \/ k = Len(rxFifo) + 1
  BY <1>3
<1>5. /\ UNCHANGED << mode, wbState, access, asked, txFifo >>
      /\ IF rxIndex = Length(rxPkt) THEN rxState' = "IDLE" ELSE UNCHANGED << rxState, rxPkt >>
  BY DEF RecordWord, netVars, wbVars, cpuVars, sndVars
<1>6. \A k \in DOMAIN rxFifo' : rxFifo'[k].pkt.wcount \in {0, 1}
  BY CountsKept
<1>7. (Awaited' <=> Awaited) /\ ReadsInTx' = ReadsInTx
  BY <1>5 DEF Awaited, ReadsInTx
<1>8. CASE ~(rxPkt.wcount > 0 /\ w.last)
  <2>1. Coming' => Coming /\ rxPkt' = rxPkt
    BY <1>5 DEF Coming, Receives, RecordWord
  <2>2. \A k \in AnswersInRx' : k + 0 \in AnswersInRx /\ rxFifo'[k] = rxFifo[k + 0]
    <3>1. \A k \in AnswersInRx' : k \in AnswersInRx /\ rxFifo'[k] = rxFifo[k]
      BY <1>2, <1>3, <1>4, <1>8 DEF AnswersInRx
    <3>2. \A k \in DOMAIN rxFifo : k + 0 = k
      BY <1>3
    <3>3. QED
      BY <3>1, <3>2 DEF AnswersInRx
  <2>3. QED
    BY <1>5, <1>6, <1>7, <2>1, <2>2, ReadsKept, ReadUntouched
<1>9. CASE rxPkt.wcount > 0 /\ w.last
  <2>1. Coming /\ ~Coming'
    BY <1>2, <1>5, <1>9 DEF Coming, Receives, RecordWord
  <2>2. /\ IsAnswer(rxPkt) /\ AnswersInRx = {} /\ ReadsInTx = {} /\ ~Awaited /\ wbState = "WAIT_READ"
    BY <2>1 DEF SlaveInv
  <2>3. \A k \in AnswersInRx' : k = Len(rxFifo) + 1
    BY <1>3, <1>4, <2>2 DEF AnswersInRx
  <2>4. \A k \in AnswersInRx' : rxFifo'[k].pkt = rxPkt
    BY <1>2, <1>3, <2>3
  <2>5. \A k \in AnswersInRx' : IsAnswer(rxFifo[k].pkt)'
    BY <1>5, <2>2, <2>4 DEF IsAnswer
  <2>6. access'.pending /\ ~access'.we /\ wbState' = "WAIT_READ"
    BY <1>5, <2>2 DEF SlaveInv
  <2>7. \A j, k \in AnswersInRx' : j = k
    BY <2>3
  <2>8. QED
    BY <1>6, <1>7, <2>1, <2>2, <2>5, <2>6, <2>7 DEF SlaveInv
<1>10. QED
  BY <1>8, <1>9

\* The slave's request is put in the FIFO; it waits for the answer to a read.
LEMMA SlaveSendStep ==
    ASSUME TypeOK, TypeOK', ReceiverInv, FifoInv, RecordInv, SlaveInv, mode = "slave", SlaveSend
    PROVE  SlaveInv'
<1> DEFINE request == [access |-> access, last |-> TRUE]
<1>1. /\ UNCHANGED << mode, rxState, rxPkt, asked, rxFifo >>
      /\ wbState \in {"SEND_WRITE", "SEND_READ"}
      /\ IF access.we THEN Acknowledge /\ wbState' = "IDLE" ELSE access' = access /\ wbState' = "WAIT_READ"
  BY DEF SlaveSend, rxVars, netVars, rcvVars
<1>2. NoRead
  BY <1>1, NoReadNow
<1>3. txFifo \in Seq(Requests) /\ request \in Requests /\ txFifo' = Append(txFifo, request)
  BY SlaveSendFacts
<1>4. request.access = access
  OBVIOUS
<1> HIDE DEF request
<1>5. /\ DOMAIN txFifo = 1 .. Len(txFifo) /\ DOMAIN txFifo' = 1 .. Len(txFifo) + 1 /\ Len(txFifo) \in Nat
      /\ \A k \in DOMAIN txFifo : txFifo'[k] = txFifo[k]
      /\ txFifo'[Len(txFifo) + 1] = request
  BY <1>3, AppendFacts
<1>6. \A k \in DOMAIN txFifo' : k \in DOMAIN txFifo \/ k = Len(txFifo) + 1
  BY <1>5
<1>7. ~Awaited' /\ ~Coming' /\ AnswersInRx' = {}
  BY <1>1, <1>2 DEF NoRead, Awaited, Coming, Receives, AnswersInRx
<1>8. \A k \in ReadsInTx' : k = Len(txFifo) + 1 /\ ~access.we
  BY <1>2, <1>4, <1>5, <1>6 DEF NoRead, ReadsInTx
<1>9. \A k \in DOMAIN rxFifo' : rxFifo'[k].pkt.wcount \in {0, 1}
  BY <1>1 DEF SlaveInv
<1>10. CASE access.we
  <2>1. NoRead'
    BY <1>7, <1>8, <1>10 DEF NoRead
  <2>2. wbState' = "IDLE"
    BY <1>1, <1>10
  <2>3. QED
    BY <1>9, <2>1, <2>2, NoReadThen
<1>11. CASE ~access.we
  <2>1. access' = access /\ wbState' = "WAIT_READ"
    BY <1>1, <1>11
  <2>2. access.pending
    BY <1>1 DEF SlaveInv
  <2>3. \A k \in ReadsInTx' : txFifo'[k].access.id = access'.id
    BY <1>4, <1>5, <1>8, <2>1
  <2>4. \A j, k \in ReadsInTx' : j = k
    BY <1>8
  <2>5. AnswersInRx' = {} => (\A j, k \in AnswersInRx' : j = k) /\ \A k \in AnswersInRx' : IsAnswer(rxFifo[k].pkt)'
    OBVIOUS
  <2>6. QED
    BY <1>7, <1>9, <1>11, <2>1, <2>2, <2>3, <2>4, <2>5 DEF SlaveInv
<1>12. QED
  BY <1>10, <1>11

\* The word WAIT_READ takes for the answer is the answer.
LEMMA AnswerAtHead ==
    ASSUME TypeOK, FifoInv, RecordInv, SlaveInv, mode = "slave", SlaveTakes, AnswerSeen
    PROVE  /\ 1 \in AnswersInRx /\ Head(rxFifo) = rxFifo[1] /\ rxFifo # << >> /\ rxFifo' = Tail(rxFifo)
           /\ Head(rxFifo).i = 2 /\ IsAnswer(HeadPacket)
<1>1. rxFifo # << >> /\ rxFifo' = Tail(rxFifo) /\ rcvState = "RECEIVE_WRITES"
  BY TakenFacts DEF AnswerSeen
<1>2. Head(rxFifo).i = count + 2 /\ count < HeadPacket.wcount /\ count \in Nat
  BY <1>1, BoundFacts DEF RecordInv, TypeOK
<1>3. 1 \in DOMAIN rxFifo /\ Head(rxFifo) = rxFifo[1]
  BY <1>1, TailFacts DEF TypeOK
<1>4. HeadPacket.wcount \in {0, 1}
  BY <1>3 DEF SlaveInv, HeadPacket
<1>5. HeadPacket \in Packets /\ HeadPacket.type = "record" /\ OnePart(HeadPacket)
  BY <1>1, HeadFacts
<1>6. HeadPacket.wcount = 1 /\ count = 0
  BY <1>2, <1>4
<1>7. Length(HeadPacket) = 2
  BY <1>5, <1>6, OnePartFacts
<1>8. Head(rxFifo).i = 2 /\ Head(rxFifo).last
  BY <1>1, <1>2, <1>6, <1>7, HeadFacts
<1>9. 1 \in AnswersInRx
  BY <1>3, <1>6, <1>8 DEF AnswersInRx, HeadPacket
<1>10. IsAnswer(HeadPacket)
  BY <1>3, <1>9 DEF SlaveInv, HeadPacket
<1>11. QED
  BY <1>1, <1>3, <1>8, <1>9, <1>10

\* The answer ends the read; all else that comes in is thrown away.
LEMMA WaitReadStep ==
    ASSUME TypeOK, TypeOK', ReceiverInv, FifoInv, RecordInv, SlaveInv, mode = "slave", SlaveWaitRead,
           [Next]_vars
    PROVE  SlaveInv'
<1>1. /\ UNCHANGED << mode, rxState, rxPkt, asked, txFifo >> /\ SlaveTakes
      /\ IF AnswerSeen THEN wbState' = "IDLE" ELSE UNCHANGED << access, wbState >>
  BY DEF SlaveWaitRead, rxVars, netVars, sndVars
<1>2. rxFifo # << >> /\ rxFifo' = Tail(rxFifo)
  BY <1>1, TakenFacts
<1>3. (Awaited' <=> Awaited) /\ (Coming' <=> Coming)
  BY <1>1 DEF Awaited, Coming, Receives
<1>4. \A k \in DOMAIN rxFifo' : rxFifo'[k].pkt.wcount \in {0, 1}
  BY CountsKept
<1>5. CASE ~AnswerSeen
  BY <1>1, <1>2, <1>3, <1>4, <1>5, ReadsKept, AnswersPop, ReadUntouched
<1>6. CASE AnswerSeen
  <2>1. 1 \in AnswersInRx
    BY <1>1, <1>6, AnswerAtHead
  <2>2. ReadsInTx = {} /\ ~Awaited /\ ~Coming /\ \A j, k \in AnswersInRx : j = k
    BY <2>1 DEF SlaveInv
  <2>3. ReadsInTx' = {}
    BY <1>1, <2>2 DEF ReadsInTx
  <2>4. AnswersInRx' = {}
    <3> SUFFICES ASSUME NEW k \in AnswersInRx' PROVE FALSE
      OBVIOUS
    <3>1. k + 1 \in AnswersInRx
      BY <1>2, AnswersPop
    <3>2. k + 1 = 1
      BY <2>1, <2>2, <3>1
    <3>3. k \in Nat \ {0}
      <4>1. DOMAIN rxFifo' \subseteq Nat \ {0}
        BY LenProperties DEF TypeOK
      <4>2. QED
        BY <4>1 DEF AnswersInRx
    <3>4. QED
      BY <3>2, <3>3
  <2>5. NoRead'
    BY <1>3, <2>2, <2>3, <2>4 DEF NoRead
  <2>6. wbState' = "IDLE"
    BY <1>1, <1>6
  <2>7. QED
    BY <1>4, <2>5, <2>6, NoReadThen
<1>7. QED
  BY <1>5, <1>6

\* The request leaves; that of a read becomes a question on the network.
LEMMA SndDataStep ==
    ASSUME TypeOK, TypeOK', ReceiverInv, FifoInv, RecordInv, SenderInv, SlaveInv, mode = "slave", SndData
    PROVE  SlaveInv'
<1>1. /\ UNCHANGED << mode, rxState, rxPkt, rxFifo, access, wbState >> /\ Leaves(Head(txFifo))
  BY DEF SndData, rcvVars, wbVars, cpuVars
<1>2. txFifo # << >> /\ txFifo' = Tail(txFifo)
  BY SndDataFacts
<1>3. Head(txFifo) = txFifo[1] /\ 1 \in DOMAIN txFifo
  BY <1>2, TailFacts DEF TypeOK
<1>4. Coming' <=> Coming
  BY <1>1 DEF Coming, Receives
<1>5. \A k \in DOMAIN rxFifo' : rxFifo'[k].pkt.wcount \in {0, 1}
  BY <1>1 DEF SlaveInv
<1>6. CASE UNCHANGED asked
  <2>1. Awaited' <=> Awaited
    BY <1>6 DEF Awaited
  <2>2. QED
    BY <1>1, <1>2, <1>4, <1>5, <1>6, <2>1, AnswersKept, ReadsPop, ReadUntouched
<1>7. CASE ~UNCHANGED asked
  <2>1. /\ ~Head(txFifo).access.we /\ last_ip_address # None
        /\ asked' = Answer(Head(txFifo).access.id, last_ip_address)
    BY <1>1, <1>7 DEF Leaves, netVars
  <2>2. 1 \in ReadsInTx
    BY <1>3, <2>1 DEF ReadsInTx
  <2>3. /\ ~Coming /\ AnswersInRx = {} /\ wbState = "WAIT_READ" /\ \A j, k \in ReadsInTx : j = k
        /\ Head(txFifo).access.id = access.id
    BY <1>3, <2>2 DEF SlaveInv
  <2>4. ReadsInTx' = {}
    <3> SUFFICES ASSUME NEW k \in ReadsInTx' PROVE FALSE
      OBVIOUS
    <3>1. k + 1 \in ReadsInTx
      BY <1>2, ReadsPop
    <3>2. k + 1 = 1
      BY <2>2, <2>3, <3>1
    <3>3. k \in Nat \ {0}
      <4>1. DOMAIN txFifo' \subseteq Nat \ {0}
        BY LenProperties DEF TypeOK
      <4>2. QED
        BY <4>1 DEF ReadsInTx
    <3>4. QED
      BY <3>2, <3>3
  <2>5. AnswersInRx' = {}
    BY <1>1, <2>3 DEF AnswersInRx
  <2>6. IsAnswer(asked)'
    <3>1. asked'.host = last_ip_address
      BY <2>1, AnswerFacts
    <3>2. QED
      BY <1>1, <2>1, <2>3, <3>1 DEF IsAnswer
  <2>7. access'.pending /\ ~access'.we /\ wbState' = "WAIT_READ"
    BY <1>1, <2>3 DEF SlaveInv
  <2>8. ~Coming'
    BY <1>4, <2>3
  <2>9. QED
    BY <1>5, <2>4, <2>5, <2>6, <2>7, <2>8 DEF SlaveInv
<1>8. QED
  BY <1>6, <1>7

LEMMA SlaveStep ==
    ASSUME TypeOK, TypeOK', ReceiverInv, FifoInv, RecordInv, SenderInv, SlaveInv, [Next]_vars
    PROVE  SlaveInv'
<1> SUFFICES ASSUME mode = "slave" PROVE SlaveInv'
  BY ModeFixed DEF SlaveInv
<1>0. \A k \in DOMAIN rxFifo' : rxFifo'[k].pkt.wcount \in {0, 1}
  BY CountsKept
<1>1. CASE RxAnswer
  BY <1>1, RxAnswerStep
<1>2. CASE RecordWord
  BY <1>2, RecordWordStep
<1>3. CASE RxIdle \/ RxDrop \/ RecordHeader \/ ProbeIdle \/ ProbeWord
  <2>1. UNCHANGED << mode, wbState, access, asked, rxFifo, txFifo >>
    BY <1>3 DEF RxIdle, RxDrop, RecordHeader, ProbeIdle, ProbeWord, netVars, rcvVars, wbVars, cpuVars, sndVars
  <2>2. Coming' => Coming /\ rxPkt' = rxPkt
    <3>1. RxIdle => ~Coming'
      <4> SUFFICES ASSUME RxIdle PROVE ~(rxPkt'.wcount > 0)
        BY DEF Coming
      <4>1. PICK p \in Sent : p.wcount = 0 /\ rxPkt' = p
        BY DEF RxIdle
      <4>2. QED
        BY <4>1
    <3>2. RxDrop => ~Coming'
      BY DEF RxDrop, Coming, Receives
    <3>3. RecordHeader \/ ProbeIdle => UNCHANGED << rxState, rxPkt >>
      BY DEF RecordHeader, ProbeIdle
    <3>4. ProbeWord => UNCHANGED << rxState, rxPkt >> \/ ~Coming'
      BY DEF ProbeWord, Coming, Receives
    <3>5. QED
      BY <1>3, <3>1, <3>2, <3>3, <3>4 DEF Coming, Receives
  <2>3. Awaited' <=> Awaited
    BY <2>1 DEF Awaited
  <2>4. QED
    BY <1>0, <2>1, <2>2, <2>3, ReadsKept, AnswersKept, ReadUntouched
<1>4. CASE RcvBase \/ SlaveDrops
  <2>1. UNCHANGED << mode, wbState, access, asked, txFifo, rxState, rxPkt >>
    BY <1>4 DEF RcvBase, SlaveDrops, rxVars, netVars, wbVars, cpuVars, sndVars
  <2>2. rxFifo # << >> /\ rxFifo' = Tail(rxFifo)
    BY <1>4, BaseFacts, TakenFacts DEF SlaveDrops
  <2>3. (Awaited' <=> Awaited) /\ (Coming' <=> Coming)
    BY <2>1 DEF Awaited, Coming, Receives
  <2>4. QED
    BY <1>0, <2>1, <2>2, <2>3, ReadsKept, AnswersPop, ReadUntouched
<1>5. ~WbIdle /\ ~WbWrite /\ ~WbRead /\ ~WbSend
  BY DEF WbIdle, WbWrite, WbRead, WbSend, TypeOK
<1>6. CASE SlaveIdle
  <2>1. /\ wbState = "IDLE" /\ access.pending /\ wbState' = IF access.we THEN "SEND_WRITE" ELSE "SEND_READ"
        /\ UNCHANGED << access, asked, txFifo, rxState, rxPkt >>
        /\ UNCHANGED rxFifo \/ SlaveTakes
    BY <1>6 DEF SlaveIdle, rxVars, netVars, rcvVars, cpuVars, sndVars
  <2>2. NoRead
    BY <2>1, NoReadNow
  <2>3. AnswersInRx' = {}
    <3>1. CASE UNCHANGED rxFifo
      BY <2>2, <3>1, AnswersKept DEF NoRead
    <3>2. CASE SlaveTakes
      BY <2>2, <3>2, TakenFacts, AnswersPop DEF NoRead
    <3>3. QED
      BY <2>1, <3>1, <3>2
  <2>4. NoRead'
    BY <2>1, <2>2, <2>3 DEF NoRead, ReadsInTx, Awaited, Coming, Receives
  <2>5. QED
    BY <1>0, <2>1, <2>4, NoReadThen
<1>7. CASE SlaveSend
  BY <1>7, SlaveSendStep
<1>8. CASE SlaveWaitRead
  BY <1>8, WaitReadStep
<1>9. CASE CpuAsks
  <2>1. ~access.pending /\ UNCHANGED << wbState, asked, txFifo, rxFifo, rxState, rxPkt >>
    BY <1>9 DEF CpuAsks, rxVars, netVars, rcvVars, sndVars
  <2>2. wbState = "IDLE"
    BY <2>1 DEF SlaveInv, TypeOK
  <2>3. NoRead
    BY <2>2, NoReadNow
  <2>4. NoRead'
    BY <2>1, <2>3 DEF NoRead, ReadsInTx, Awaited, Coming, Receives, AnswersInRx
  <2>5. QED
    BY <1>0, <2>1, <2>2, <2>4, NoReadThen
<1>10. CASE SndData
  BY <1>10, SndDataStep
<1>11. CASE SndIdle \/ SndBaseAddress \/ Grant \/ UNCHANGED vars
  <2>1. UNCHANGED << mode, wbState, access, asked, rxFifo, txFifo, rxState, rxPkt >>
    BY <1>11 DEF SndIdle, SndBaseAddress, Grant, vars, rxVars, netVars, rcvVars, wbVars, cpuVars, sndVars
  <2>2. (Awaited' <=> Awaited) /\ (Coming' <=> Coming)
    BY <2>1 DEF Awaited, Coming, Receives
  <2>3. QED
    BY <1>0, <2>1, <2>2, ReadsKept, AnswersKept, ReadUntouched
<1>12. QED
  BY <1>1, <1>2, <1>3, <1>4, <1>5, <1>6, <1>7, <1>8, <1>9, <1>10, <1>11
     DEF Next, RxStep, BusStep, CpuStep, SndStep

-----------------------------------------------------------------------------
(* The theorems. *)

IInv == /\ TypeOK /\ ReceiverInv /\ FifoInv /\ RecordInv
        /\ MasterInv /\ SenderInv /\ HostInv /\ SlaveInv

LEMMA InvInit == Init => IInv
  BY TypeInit, ReceiverInit, FifoInit, RecordInit, MasterInit, SenderInit, HostInit, SlaveInit DEF IInv

LEMMA InvStep == Unmixed /\ IInv /\ [Next]_vars => IInv'
<1> SUFFICES ASSUME Unmixed, IInv, [Next]_vars PROVE IInv'
  OBVIOUS
<1>0. TypeOK /\ ReceiverInv /\ FifoInv /\ RecordInv /\ MasterInv /\ SenderInv /\ HostInv /\ SlaveInv
  BY DEF IInv
<1>1. TypeOK'
  BY <1>0, TypeStep
<1>2. ReceiverInv' /\ FifoInv' /\ RecordInv'
  BY <1>0, ReceiverStep, FifoStep, RecordStep
<1>3. MasterInv' /\ SenderInv' /\ HostInv'
  BY <1>0, MasterStep, SenderStep, HostStep
<1>4. SlaveInv'
  BY <1>0, <1>1, SlaveStep
<1>5. QED
  BY <1>1, <1>2, <1>3, <1>4 DEF IInv

\* Receiver, bus and sender agree, in every reachable state, on the record they are at.
THEOREM BridgeSafe == ASSUME Unmixed PROVE Spec => []IInv
<1>1. IInv /\ [Next]_vars => IInv'
  BY InvStep
<1>2. QED
  BY InvInit, <1>1, PTL DEF Spec

\* Every register holds a value of its type and no packet FIFO ever holds more words than
\* its depth, PacketFIFO (etherbone.py:182, 258).
THEOREM EtherboneTypeCorrect == ASSUME Unmixed PROVE Spec => []TypeOK
<1>1. IInv => TypeOK
  BY DEF IInv
<1>2. QED
  BY BridgeSafe, <1>1, PTL

\* The record sender's packets go to the address saved when a record came in
\* (etherbone.py:318-324, 336): the asker's, unless a record of another host came in
\* while one was served.
THEOREM ResponseToAsker == ASSUME Unmixed PROVE Spec => []AddressedToAsker
<1>1. IInv => AddressedToAsker
  <2> SUFFICES ASSUME IInv, mode = "master", txOwner = "record", ~overtaken
               PROVE  last_ip_address = Head(txFifo).word.pkt.host
    BY DEF AddressedToAsker
  <2>1. Whole(txFifo)
    BY DEF IInv, SenderInv
  <2>2. txFifo # << >>
    BY <2>1, WholeTail DEF IInv, TypeOK
  <2>3. 1 \in DOMAIN txFifo /\ Head(txFifo) = txFifo[1]
    BY <2>2, TailFacts DEF IInv, TypeOK
  <2>4. QED
    BY <2>3 DEF IInv, HostInv
<1>2. QED
  BY BridgeSafe, <1>1, PTL

\* The bus slave ends a read with the answer to it and with nothing else, whatever comes
\* in at WAIT_READ (etherbone.py:453-460).
THEOREM ReadReturnsItsAnswer == ASSUME Unmixed PROVE Spec => ReadReturnsAnswer
<1> DEFINE A == access.pending /\ ~access.we /\ ~access'.pending =>
                  Head(rxFifo).pkt = Answer(access.id, Head(rxFifo).pkt.host) /\ Head(rxFifo).i = 2
<1>1. IInv /\ [Next]_vars => [A]_vars
  <2> SUFFICES ASSUME IInv, [Next]_vars, access.pending, ~access.we, ~access'.pending
               PROVE  Head(rxFifo).pkt = Answer(access.id, Head(rxFifo).pkt.host) /\ Head(rxFifo).i = 2
    OBVIOUS
  <2>1. access.pending # access'.pending
    OBVIOUS
  <2>2. access' # access
    BY <2>1
  <2>3. CASE SlaveWaitRead
    <3>1. wbState = "WAIT_READ" /\ SlaveTakes /\ AnswerSeen
      BY <2>2, <2>3 DEF SlaveWaitRead
    <3>2. mode = "slave"
      BY <3>1, EtherboneAssumption DEF IInv, TypeOK, ReceiverInv, EtherboneAssumption
    <3>3. Head(rxFifo).i = 2 /\ IsAnswer(HeadPacket)
      BY <3>1, <3>2, AnswerAtHead DEF IInv
    <3>4. QED
      BY <3>3 DEF IsAnswer, HeadPacket
  <2>4. CASE SlaveSend
    BY <2>2, <2>4 DEF SlaveSend
  <2>5. CASE CpuAsks
    BY <2>5 DEF CpuAsks
  <2>6. CASE RxIdle \/ RxAnswer \/ RxStep
    BY <2>2, <2>6 DEF RxIdle, RxAnswer, RxStep, RxDrop, RecordHeader, RecordWord, ProbeIdle, ProbeWord,
                      wbVars, cpuVars
  <2>7. CASE RcvBase \/ WbIdle \/ WbWrite \/ WbRead \/ WbSend \/ SlaveDrops \/ SlaveIdle
    BY <2>2, <2>7 DEF RcvBase, WbIdle, WbWrite, WbRead, WbSend, SlaveDrops, SlaveIdle, wbVars, cpuVars
  <2>8. CASE SndStep \/ Grant \/ UNCHANGED vars
    BY <2>2, <2>8 DEF SndStep, SndIdle, SndBaseAddress, SndData, Grant, vars, wbVars, cpuVars
  <2>9. QED
    BY <2>3, <2>4, <2>5, <2>6, <2>7, <2>8 DEF Next, BusStep, CpuStep
<1>2. QED
  BY BridgeSafe, <1>1, PTL DEF Spec, ReadReturnsAnswer

LEMMA BusAsked == IInv => BusInv
<1> SUFFICES ASSUME IInv, Bus # << >> PROVE Bus = << Asked(Head(rxFifo)) >>
  BY DEF BusInv
<1>1. \/ wbState = "WRITE_DATA" /\ rcvState = "RECEIVE_WRITES" /\ Whole(rxFifo)
      \/ wbState = "READ_DATA" /\ rcvState = "RECEIVE_READS" /\ Whole(rxFifo)
  BY DEF Bus, Presents
<1>2. Bus = << [we |-> wbState = "WRITE_DATA", base |-> base, offset |-> count, word |-> Head(rxFifo)] >>
  BY DEF Bus
<1>3. rxFifo # << >>
  BY <1>1, WholeTail DEF IInv, TypeOK
<1>4. /\ base = Word(HeadPacket, 1) /\ Head(rxFifo).i = count + 2 /\ count \in Nat
      /\ count < IF rcvState = "RECEIVE_WRITES" THEN HeadPacket.wcount ELSE HeadPacket.rcount
  BY <1>1, BoundFacts DEF IInv, RecordInv, TypeOK
<1>5. /\ HeadPacket \in Packets /\ HeadPacket.type = "record" /\ OnePart(HeadPacket)
      /\ HeadPacket.wcount \in Nat /\ HeadPacket.rcount \in Nat
  BY <1>3, HeadFacts DEF IInv
<1>6. CASE rcvState = "RECEIVE_WRITES"
  <2>1. count < HeadPacket.wcount
    BY <1>4, <1>6
  <2>2. WritePart(HeadPacket) = HeadPacket.wcount + 1
    BY <1>4, <1>5, <2>1, OnePartFacts
  <2>3. count + 2 \in 2 .. WritePart(HeadPacket) /\ count + 2 - 2 = count
    BY <1>4, <1>5, <2>1, <2>2
  <2>4. IsWrite(Head(rxFifo))
    BY <1>4, <2>3 DEF IsWrite, HeadPacket
  <2>a. Head(rxFifo).i - 2 = count /\ base = Word(Head(rxFifo).pkt, 1)
    BY <1>4, <2>3 DEF HeadPacket
  <2>5. Asked(Head(rxFifo)) = [we |-> TRUE, base |-> base, offset |-> count, word |-> Head(rxFifo)]
    BY <2>4, <2>a, Zenon DEF Asked
  <2>6. (wbState = "WRITE_DATA") = TRUE
    BY <1>1, <1>6
  <2>7. QED
    BY <1>2, <2>5, <2>6
<1>7. CASE rcvState = "RECEIVE_READS"
  <2>1. count < HeadPacket.rcount
    BY <1>4, <1>7
  <2>2. WritePart(HeadPacket) = 0
    BY <1>4, <1>5, <2>1, OnePartFacts
  <2>3. count + 2 \notin 2 .. WritePart(HeadPacket) /\ count + 2 - 0 - 2 = count /\ 0 + 1 = 1
    BY <1>4, <2>2
  <2>4. ~IsWrite(Head(rxFifo))
    BY <1>4, <2>3 DEF IsWrite, HeadPacket
  <2>a. /\ Head(rxFifo).i - WritePart(Head(rxFifo).pkt) - 2 = count
        /\ WritePart(Head(rxFifo).pkt) + 1 = 1 /\ base = Word(Head(rxFifo).pkt, 1)
    BY <1>4, <2>2, <2>3 DEF HeadPacket
  <2>5. Asked(Head(rxFifo)) = [we |-> FALSE, base |-> base, offset |-> count, word |-> Head(rxFifo)]
    BY <2>4, <2>a, Zenon DEF Asked
  <2>6. (wbState = "WRITE_DATA") = FALSE
    BY <1>1, <1>7
  <2>7. QED
    BY <1>2, <2>5, <2>6
<1>8. QED
  BY <1>1, <1>6, <1>7

\* What the master drives on the bus (etherbone.py:364-388), kind, base address, offset
\* and data, is what the record at the head asks for with its next word.
THEOREM AccessIsAsked == ASSUME Unmixed PROVE Spec => []BusInv
  BY BridgeSafe, BusAsked, PTL

-----------------------------------------------------------------------------
(* What a sequence of words asks for. *)

Asks(w) == IsWrite(w) \/ IsRead(w)

\* AskedBy's recursion, over the first n words.
Runs(f, words, n) ==
    f = [k \in 0 .. n |-> IF k = 0 THEN << >> ELSE Extended(f[k - 1], words[k])]

LEMMA RunExists ==
    ASSUME NEW words, NEW n \in Nat PROVE \E f : Runs(f, words, n)
<1> DEFINE G == {m \in Nat : \E f : Runs(f, words, m)}
<1>1. 0 \in G
  <2>1. Runs([k \in 0 .. 0 |-> << >>], words, 0)
    BY DEF Runs
  <2>2. QED
    BY <2>1
<1>2. ASSUME NEW m \in G PROVE m + 1 \in G
  <2>1. PICK f : Runs(f, words, m)
    OBVIOUS
  <2> DEFINE g == [k \in 0 .. m + 1 |-> IF k = m + 1 THEN Extended(f[m], words[m + 1]) ELSE f[k]]
  <2>2. \A k \in 0 .. m : f[k] = IF k = 0 THEN << >> ELSE Extended(f[k - 1], words[k])
    BY <2>1 DEF Runs
  <2>3. \A k \in 0 .. m : g[k] = f[k] /\ k # m + 1
    OBVIOUS
  <2>4. g[m + 1] = Extended(f[m], words[m + 1])
    OBVIOUS
  <2>5. ASSUME NEW k \in 0 .. m + 1
        PROVE  g[k] = IF k = 0 THEN << >> ELSE Extended(g[k - 1], words[k])
    <3>1. CASE k = m + 1
      <4>1. k # 0 /\ k - 1 = m /\ m \in 0 .. m
        BY <3>1
      <4>2. QED
        BY <2>3, <2>4, <3>1, <4>1
    <3>2. CASE k # m + 1
      <4>1. k \in 0 .. m /\ (k # 0 => k - 1 \in 0 .. m)
        BY <3>2
      <4>2. QED
        BY <2>2, <2>3, <4>1
    <3>3. QED
      BY <3>1, <3>2
  <2>6. g = [k \in 0 .. m + 1 |-> g[k]]
    OBVIOUS
  <2> HIDE DEF g
  <2>7. Runs(g, words, m + 1)
    BY <2>5, <2>6 DEF Runs
  <2>8. QED
    BY <2>7
<1>3. G = Nat
  <2>1. G \in SUBSET Nat
    OBVIOUS
  <2> HIDE DEF G
  <2>2. QED
    BY <1>1, <1>2, <2>1, NatInduct
<1>4. QED
  BY <1>3

LEMMA RunsAgree ==
    ASSUME NEW f, NEW g, NEW u, NEW v, NEW n \in Nat, NEW m \in Nat, n <= m,
           Runs(f, u, n), Runs(g, v, m), \A k \in 1 .. n : u[k] = v[k]
    PROVE  f[n] = g[n]
<1> DEFINE G == {k \in Nat : k <= n => f[k] = g[k]}
<1>1. /\ \A k \in 0 .. n : f[k] = IF k = 0 THEN << >> ELSE Extended(f[k - 1], u[k])
      /\ \A k \in 0 .. m : g[k] = IF k = 0 THEN << >> ELSE Extended(g[k - 1], v[k])
  BY DEF Runs
<1>2. 0 \in G
  BY <1>1
<1>3. ASSUME NEW k \in G PROVE k + 1 \in G
  <2> SUFFICES ASSUME k + 1 <= n PROVE f[k + 1] = g[k + 1]
    OBVIOUS
  <2>1. k + 1 \in 0 .. n /\ k + 1 \in 0 .. m /\ k + 1 \in 1 .. n /\ k + 1 # 0 /\ k + 1 - 1 = k /\ k <= n
    OBVIOUS
  <2>2. f[k + 1] = Extended(f[k], u[k + 1]) /\ g[k + 1] = Extended(g[k], v[k + 1])
    BY <1>1, <2>1
  <2>3. QED
    BY <2>1, <2>2
<1>4. G = Nat
  <2>1. G \in SUBSET Nat
    OBVIOUS
  <2> HIDE DEF G
  <2>2. QED
    BY <1>2, <1>3, <2>1, NatInduct
<1>5. n \in G
  BY <1>4
<1>6. QED
  BY <1>5

LEMMA AskedByRun ==
    ASSUME NEW words \in Seq(Words)
    PROVE  \E f : Runs(f, words, Len(words)) /\ AskedBy(words) = f[Len(words)]
<1>1. AskedBy(words) = (CHOOSE f : Runs(f, words, Len(words)))[Len(words)]
  BY DEF AskedBy, Runs
<1>2. Len(words) \in Nat
  BY LenProperties
<1>3. \E f : Runs(f, words, Len(words))
  BY <1>2, RunExists
<1>4. QED
  BY <1>1, <1>3

LEMMA AskedByEmpty == AskedBy(<< >>) = << >>
<1>1. << >> \in Seq(Words)
  OBVIOUS
<1>2. PICK f : Runs(f, << >>, Len(<< >>)) /\ AskedBy(<< >>) = f[Len(<< >>)]
  BY <1>1, AskedByRun
<1>3. f[0] = << >>
  BY <1>2, EmptyLength DEF Runs
<1>4. QED
  BY <1>2, <1>3, EmptyLength

LEMMA AskedByAppend ==
    ASSUME NEW words \in Seq(Words), NEW w \in Words
    PROVE  AskedBy(Append(words, w)) = Extended(AskedBy(words), w)
<1> DEFINE more == Append(words, w)
           n == Len(words)
<1>1. /\ more \in Seq(Words) /\ Len(more) = n + 1 /\ n \in Nat
      /\ \A k \in 1 .. n : words[k] = more[k]
      /\ more[n + 1] = w
  BY AppendFacts
<1>2. PICK f : Runs(f, words, n) /\ AskedBy(words) = f[n]
  BY AskedByRun
<1>3. PICK g : Runs(g, more, n + 1) /\ AskedBy(more) = g[n + 1]
  BY <1>1, AskedByRun
<1> HIDE DEF more, n
<1>4. f[n] = g[n]
  <2>1. n + 1 \in Nat /\ n <= n + 1
    BY <1>1
  <2>2. QED
    BY <1>1, <1>2, <1>3, <2>1, RunsAgree
<1>5. g[n + 1] = Extended(g[n], w)
  <2>1. n + 1 \in 0 .. n + 1 /\ n + 1 # 0 /\ n + 1 - 1 = n
    BY <1>1
  <2>2. QED
    BY <1>1, <1>3, <2>1 DEF Runs
<1>6. QED
  BY <1>2, <1>3, <1>4, <1>5 DEF more

LEMMA AppendBehind ==
    ASSUME NEW S, NEW s \in Seq(S), NEW e \in S, s # << >>
    PROVE  /\ Append(s, e) # << >> /\ Head(Append(s, e)) = Head(s)
           /\ Tail(Append(s, e)) = Append(Tail(s), e)
  BY HeadTailAppend, AppendProperties

\* The head of the words is at the head of what they ask for.
HeadLaw(words) ==
    IF Asks(Head(words))
    THEN /\ AskedBy(words) # << >>
         /\ Head(AskedBy(words)) = Asked(Head(words)) /\ Tail(AskedBy(words)) = AskedBy(Tail(words))
    ELSE AskedBy(Tail(words)) = AskedBy(words)

LEMMA AskedIn == ASSUME NEW w \in Words, Asks(w) PROVE Asked(w) \in Accesses
  BY DEF Asks, Accesses

LEMMA AskedByTyped ==
    ASSUME NEW words \in Seq(Words) PROVE AskedBy(words) \in Seq(Accesses)
<1> DEFINE G == {q \in Seq(Words) : AskedBy(q) \in Seq(Accesses)}
<1>1. << >> \in G
  <2>1. << >> \in Seq(Words) /\ << >> \in Seq(Accesses)
    BY EmptySeq
  <2>2. QED
    BY <2>1, AskedByEmpty
<1>2. ASSUME NEW q \in G, NEW w \in Words PROVE Append(q, w) \in G
  <2>1. AskedBy(Append(q, w)) = Extended(AskedBy(q), w) /\ Append(q, w) \in Seq(Words)
    BY AskedByAppend, AppendProperties
  <2>2. Extended(AskedBy(q), w) \in Seq(Accesses)
    <3>1. CASE Asks(w)
      <4>1. Asked(w) \in Accesses
        BY <3>1, AskedIn
      <4>2. Append(AskedBy(q), Asked(w)) \in Seq(Accesses)
        BY <4>1, AppendProperties
      <4>3. QED
        BY <3>1, <4>2 DEF Extended, Asks
    <3>2. CASE ~Asks(w)
      BY <3>2 DEF Extended, Asks
    <3>3. QED
      BY <3>1, <3>2
  <2>3. QED
    BY <2>1, <2>2
<1>3. G = Seq(Words)
  <2>1. G \in SUBSET Seq(Words)
    OBVIOUS
  <2> HIDE DEF G
  <2>2. QED
    BY <1>1, <1>2, <2>1, SeqInduct
<1>4. QED
  BY <1>3

LEMMA AskedByHead ==
    ASSUME NEW words \in Seq(Words), words # << >> PROVE HeadLaw(words)
<1> DEFINE G == {q \in Seq(Words) : q # << >> => HeadLaw(q)}
<1>1. << >> \in G
  OBVIOUS
<1>2. ASSUME NEW q \in G, NEW w \in Words PROVE Append(q, w) \in G
  <2> DEFINE more == Append(q, w)
  <2>1. more \in Seq(Words) /\ AskedBy(more) = Extended(AskedBy(q), w)
    BY AskedByAppend, AppendProperties
  <2>2. /\ Head(more) = IF q = << >> THEN w ELSE Head(q)
        /\ Tail(more) = IF q = << >> THEN << >> ELSE Append(Tail(q), w)
    BY HeadTailAppend
  <2> HIDE DEF more
  <2>3. CASE q = << >>
    <3>1. Head(more) = w /\ AskedBy(Tail(more)) = << >> /\ AskedBy(more) = Extended(<< >>, w)
      BY <2>1, <2>2, <2>3, AskedByEmpty
    <3>2. CASE Asks(w)
      <4>1. << >> \in Seq(Accesses) /\ Asked(w) \in Accesses
        BY <3>2, AskedIn
      <4>2. /\ Append(<< >>, Asked(w)) # << >> /\ Head(Append(<< >>, Asked(w))) = Asked(w)
            /\ Tail(Append(<< >>, Asked(w))) = << >>
        BY <4>1, HeadTailAppend, AppendProperties
      <4>3. AskedBy(more) = Append(<< >>, Asked(w))
        BY <3>1, <3>2 DEF Extended, Asks
      <4>4. HeadLaw(more)
        BY <3>1, <3>2, <4>2, <4>3 DEF HeadLaw
      <4>5. QED
        BY <2>1, <4>4 DEF more
    <3>3. CASE ~Asks(w)
      <4>1. AskedBy(more) = << >>
        BY <3>1, <3>3 DEF Extended, Asks
      <4>2. HeadLaw(more)
        BY <3>1, <3>3, <4>1 DEF HeadLaw
      <4>3. QED
        BY <2>1, <4>2 DEF more
    <3>4. QED
      BY <3>2, <3>3
  <2>4. CASE q # << >>
    <3>1. Head(more) = Head(q) /\ Tail(more) = Append(Tail(q), w) /\ HeadLaw(q)
      BY <2>2, <2>4
    <3>2. Tail(q) \in Seq(Words)
      BY <2>4, HeadTailProperties
    <3>3. AskedBy(Tail(more)) = Extended(AskedBy(Tail(q)), w)
      BY <3>1, <3>2, AskedByAppend
    <3>4. AskedBy(q) \in Seq(Accesses)
      BY AskedByTyped
    <3>5. CASE ~Asks(Head(q))
      <4>1. HeadLaw(more)
        BY <2>1, <3>1, <3>3, <3>5 DEF HeadLaw
      <4>2. QED
        BY <2>1, <4>1 DEF more
    <3>6. CASE Asks(Head(q))
      <4>1. /\ AskedBy(q) # << >> /\ Head(AskedBy(q)) = Asked(Head(q))
            /\ Tail(AskedBy(q)) = AskedBy(Tail(q))
        BY <3>1, <3>6 DEF HeadLaw
      <4>2. /\ Extended(AskedBy(q), w) # << >>
            /\ Head(Extended(AskedBy(q), w)) = Head(AskedBy(q))
            /\ Tail(Extended(AskedBy(q), w)) = Extended(Tail(AskedBy(q)), w)
        <5>1. CASE Asks(w)
          <6>1. Asked(w) \in Accesses
            BY <5>1, AskedIn
          <6>2. /\ Append(AskedBy(q), Asked(w)) # << >>
                /\ Head(Append(AskedBy(q), Asked(w))) = Head(AskedBy(q))
                /\ Tail(Append(AskedBy(q), Asked(w))) = Append(Tail(AskedBy(q)), Asked(w))
            BY <3>4, <4>1, <6>1, AppendBehind
          <6>3. QED
            BY <5>1, <6>2 DEF Extended, Asks
        <5>2. CASE ~Asks(w)
          BY <4>1, <5>2 DEF Extended, Asks
        <5>3. QED
          BY <5>1, <5>2
      <4>3. HeadLaw(more)
        BY <2>1, <3>1, <3>3, <3>6, <4>1, <4>2 DEF HeadLaw
      <4>4. QED
        BY <2>1, <4>3 DEF more
    <3>7. QED
      BY <3>5, <3>6
  <2>5. QED
    BY <2>3, <2>4
<1>3. G = Seq(Words)
  <2>1. G \in SUBSET Seq(Words)
    OBVIOUS
  <2> HIDE DEF G
  <2>2. QED
    BY <1>1, <1>2, <2>1, SeqInduct
<1>4. QED
  BY <1>3

-----------------------------------------------------------------------------
(* The bridge implements the server. *)

\* The word the receiver presents asks for an access.
LEMMA HeadAsks ==
    ASSUME TypeOK, FifoInv, RecordInv, rcvState # "IDLE"
    PROVE  /\ rxFifo # << >> /\ Head(rxFifo) \in Words /\ Asks(Head(rxFifo))
           /\ rcvState = "RECEIVE_WRITES" => Asked(Head(rxFifo)).we = TRUE
           /\ rcvState = "RECEIVE_READS" => Asked(Head(rxFifo)).we = FALSE /\ IsRead(Head(rxFifo))
<1>1. rxFifo # << >>
  BY WholeTail DEF RecordInv, TypeOK
<1>2. /\ Head(rxFifo).i = count + 2 /\ count \in Nat
      /\ count < IF rcvState = "RECEIVE_WRITES" THEN HeadPacket.wcount ELSE HeadPacket.rcount
      /\ rcvState \in {"RECEIVE_WRITES", "RECEIVE_READS"}
  BY BoundFacts DEF RecordInv, TypeOK
<1>3. /\ HeadPacket \in Packets /\ HeadPacket.type = "record" /\ OnePart(HeadPacket)
      /\ HeadPacket.wcount \in Nat /\ HeadPacket.rcount \in Nat /\ Head(rxFifo) \in Words
  BY <1>1, HeadFacts
<1>4. CASE rcvState = "RECEIVE_WRITES"
  <2>1. count < HeadPacket.wcount
    BY <1>2, <1>4
  <2>2. WritePart(HeadPacket) = HeadPacket.wcount + 1
    BY <1>2, <1>3, <2>1, OnePartFacts
  <2>3. count + 2 \in 2 .. WritePart(HeadPacket)
    BY <1>2, <1>3, <2>1, <2>2
  <2>4. IsWrite(Head(rxFifo))
    BY <1>2, <2>3 DEF IsWrite, HeadPacket
  <2>5. QED
    BY <1>1, <1>3, <1>4, <2>4 DEF Asked, Asks
<1>5. CASE rcvState = "RECEIVE_READS"
  <2>1. count < HeadPacket.rcount
    BY <1>2, <1>5
  <2>2. WritePart(HeadPacket) = 0
    BY <1>2, <1>3, <2>1, OnePartFacts
  <2>3. count + 2 \notin 2 .. WritePart(HeadPacket) /\ count + 2 > WritePart(HeadPacket) + 1
    BY <1>2, <2>2
  <2>4. ~IsWrite(Head(rxFifo)) /\ IsRead(Head(rxFifo))
    BY <1>2, <2>3 DEF IsWrite, IsRead, HeadPacket
  <2>5. QED
    BY <1>1, <1>3, <1>5, <2>4 DEF Asked, Asks
<1>6. QED
  BY <1>2, <1>4, <1>5

\* What a word that is taken from the FIFO was asked for.
LEMMA RxHeadLaw ==
    ASSUME TypeOK, rxFifo # << >> PROVE HeadLaw(rxFifo) /\ Tail(rxFifo) \in Seq(Words)
  BY AskedByHead, HeadTailProperties DEF TypeOK

LEMMA RepliedFacts ==
    ASSUME TypeOK, mode = "master"
    PROVE  /\ Replied \in Seq(Words) /\ Len(Replied) = Len(txFifo)
           /\ \A k \in DOMAIN txFifo : Replied[k] = txFifo[k].word
           /\ DOMAIN Replied = DOMAIN txFifo /\ DOMAIN txFifo = 1 .. Len(txFifo) /\ Len(txFifo) \in Nat
<1>1. txFifo \in Seq(Replies)
  BY DEF TypeOK
<1>2. DOMAIN txFifo = 1 .. Len(txFifo) /\ Len(txFifo) \in Nat
  BY <1>1, LenProperties
<1>3. \A k \in DOMAIN txFifo : txFifo[k].word \in Words
  <2>1. \A k \in DOMAIN txFifo : txFifo[k] \in Replies
    BY <1>1, <1>2, ElementOfSeq
  <2>2. QED
    BY <2>1 DEF Replies
<1>4. Replied \in [1 .. Len(txFifo) -> Words]
  BY <1>2, <1>3 DEF Replied
<1>5. Replied \in Seq(Words) /\ Len(Replied) = Len(txFifo)
  BY <1>2, <1>4
<1>6. QED
  BY <1>2, <1>4, <1>5 DEF Replied

\* Owed: the reads in the send FIFO and the one the bus has done.
LEMMA OwedFacts ==
    ASSUME TypeOK, FifoInv, RecordInv, MasterInv, mode = "master"
    PROVE  /\ Replied \o ReadDone \in Seq(Words)
           /\ wbState # "SEND_DATA" => Replied \o ReadDone = Replied
           /\ wbState = "SEND_DATA" => /\ Replied \o ReadDone = Append(Replied, Head(rxFifo))
                                       /\ Head(rxFifo) \in Words /\ Asks(Head(rxFifo))
<1>1. Replied \in Seq(Words)
  BY RepliedFacts
<1>2. CASE wbState # "SEND_DATA"
  <2>1. ReadDone = << >>
    BY <1>2 DEF ReadDone
  <2>2. Replied \o << >> = Replied
    BY <1>1, ConcatEmptySeq
  <2>3. QED
    BY <1>1, <1>2, <2>1, <2>2
<1>3. CASE wbState = "SEND_DATA"
  <2>1. ReadDone = << Head(rxFifo) >>
    BY <1>3 DEF ReadDone
  <2>2. Head(rxFifo) \in Words /\ Asks(Head(rxFifo))
    BY <1>3, HeadAsks DEF MasterInv
  <2>3. /\ Append(Replied, Head(rxFifo)) = Replied \o << Head(rxFifo) >>
        /\ Append(Replied, Head(rxFifo)) \in Seq(Words)
    BY <1>1, <2>2, AppendIsConcat, AppendProperties
  <2>4. QED
    BY <1>3, <2>1, <2>2, <2>3
<1>4. QED
  BY <1>2, <1>3

\* The oldest answer in the send FIFO is that to the oldest read.
LEMMA OldestOwed ==
    ASSUME TypeOK, FifoInv, RecordInv, MasterInv, mode = "master", txFifo # << >>
    PROVE  /\ Owed # << >> /\ AnswerTo(Head(Owed)) = Head(txFifo)
           /\ Tail(Owed) = AskedBy(Tail(Replied \o ReadDone))
           /\ Tail(Replied \o ReadDone) = Tail(Replied) \o ReadDone
           /\ Tail(Replied) \in Seq(Words) /\ Replied # << >>
<1> DEFINE owed == Replied \o ReadDone
<1>1. /\ Replied \in Seq(Words) /\ 1 \in DOMAIN txFifo /\ Head(txFifo) = txFifo[1]
      /\ Replied[1] = txFifo[1].word /\ Len(Replied) = Len(txFifo) /\ Len(txFifo) \in Nat \ {0}
  BY RepliedFacts, TailFacts DEF TypeOK
<1>2. Replied # << >>
  BY <1>1, EmptyLength
<1>3. Head(Replied) = txFifo[1].word /\ Tail(Replied) \in Seq(Words)
  BY <1>1, <1>2, HeadTailProperties
<1>4. /\ IsRead(txFifo[1].word) /\ txFifo[1] = AnswerTo(Asked(txFifo[1].word))
  BY <1>1 DEF MasterInv
<1>5. owed \in Seq(Words) /\ owed # << >> /\ Head(owed) = Head(Replied)
      /\ Tail(owed) = Tail(Replied) \o ReadDone
  <2>1. CASE wbState # "SEND_DATA"
    <3>1. owed = Replied /\ ReadDone = << >>
      BY <2>1, OwedFacts DEF ReadDone
    <3>2. Tail(Replied) \o << >> = Tail(Replied)
      BY <1>3, ConcatEmptySeq
    <3>3. QED
      BY <1>1, <1>2, <3>1, <3>2
  <2>2. CASE wbState = "SEND_DATA"
    <3>1. owed = Append(Replied, Head(rxFifo)) /\ Head(rxFifo) \in Words /\ ReadDone = << Head(rxFifo) >>
      BY <2>2, OwedFacts DEF ReadDone
    <3>2. /\ owed \in Seq(Words) /\ owed # << >> /\ Head(owed) = Head(Replied)
          /\ Tail(owed) = Append(Tail(Replied), Head(rxFifo))
      BY <1>1, <1>2, <3>1, AppendBehind, AppendProperties
    <3>3. Append(Tail(Replied), Head(rxFifo)) = Tail(Replied) \o << Head(rxFifo) >>
      BY <1>3, <3>1, AppendIsConcat
    <3>4. QED
      BY <3>1, <3>2, <3>3
  <2>3. QED
    BY <2>1, <2>2
<1>6. Owed = AskedBy(owed)
  BY DEF Owed
<1> HIDE DEF owed
<1>7. HeadLaw(owed)
  BY <1>5, AskedByHead
<1>8. Asks(Head(owed))
  BY <1>3, <1>4, <1>5 DEF Asks
<1>9. Owed # << >> /\ Head(Owed) = Asked(txFifo[1].word) /\ Tail(Owed) = AskedBy(Tail(owed))
  BY <1>3, <1>5, <1>6, <1>7, <1>8 DEF HeadLaw
<1>10. QED
  BY <1>1, <1>2, <1>3, <1>4, <1>5, <1>9 DEF owed

OutputsInv ==
    /\ Bus = << >> \/ (Pending # << >> /\ Bus = << Head(Pending) >>)
    /\ Reply = << >> \/ (Owed # << >> /\ Reply = << AnswerTo(Head(Owed)) >>)

LEMMA OutputsAre == IInv => OutputsInv
<1> SUFFICES ASSUME IInv PROVE OutputsInv
  OBVIOUS
<1>0. TypeOK /\ FifoInv /\ RecordInv /\ MasterInv /\ SenderInv
  BY DEF IInv
<1>1. ASSUME Bus # << >> PROVE Pending # << >> /\ Bus = << Head(Pending) >>
  <2>1. /\ wbState \in {"WRITE_DATA", "READ_DATA"} /\ rcvState # "IDLE"
    BY <1>1 DEF Bus, Presents
  <2>2. mode = "master"
    BY <1>0, <2>1 DEF TypeOK
  <2>3. Pending = AskedBy(rxFifo)
    BY <2>1, <2>2 DEF Pending, ToDo
  <2>4. rxFifo # << >> /\ Asks(Head(rxFifo)) /\ HeadLaw(rxFifo)
    BY <1>0, <2>1, HeadAsks, RxHeadLaw
  <2>5. Bus = << Asked(Head(rxFifo)) >>
    BY <1>1, BusAsked DEF BusInv
  <2>6. QED
    BY <2>3, <2>4, <2>5 DEF HeadLaw
<1>2. ASSUME Reply # << >> PROVE Owed # << >> /\ Reply = << AnswerTo(Head(Owed)) >>
  <2>1. mode = "master" /\ sndState # "IDLE" /\ Reply = << Head(txFifo) >>
    BY <1>2 DEF Reply
  <2>2. txFifo # << >>
    BY <1>0, <2>1, WholeTail DEF SenderInv, TypeOK
  <2>3. QED
    BY <1>0, <2>1, <2>2, OldestOwed
<1>3. QED
  BY <1>1, <1>2 DEF OutputsInv

LEMMA ServerInit == Init => Server!Init
<1> SUFFICES ASSUME Init PROVE Server!Init
  OBVIOUS
<1>1. /\ rxFifo = << >> /\ txFifo = << >> /\ wbState = "IDLE" /\ sndState = "IDLE"
  BY DEF Init
<1>2. Bus = << >> /\ Reply = << >> /\ ReadDone = << >> /\ ToDo = << >>
  BY <1>1 DEF Bus, Reply, ReadDone, ToDo
<1>3. Replied = << >>
  <2>1. DOMAIN txFifo = 1 .. 0
    BY <1>1
  <2>2. QED
    BY <2>1 DEF Replied
<1>4. << >> \o << >> = << >>
  <2>1. << >> \in Seq({})
    BY EmptySeq
  <2>2. QED
    BY <2>1, ConcatEmptySeq
<1>5. Pending = << >> /\ Owed = << >>
  BY <1>2, <1>3, <1>4, AskedByEmpty DEF Pending, Owed
<1>6. QED
  BY <1>2, <1>5 DEF Server!Init

\* A word that comes in asks for one access more, or for none.
LEMMA RecordWordAsks ==
    ASSUME TypeOK, ReceiverInv, FifoInv, RecordInv, MasterInv, mode = "master", mode' = mode, RecordWord
    PROVE  Server!Step
<1> DEFINE w == Word(rxPkt, rxIndex)
<1>1. w \in Words /\ rxFifo \in Seq(Words) /\ rxFifo' = Append(rxFifo, w)
  BY RecordWordFacts
<1>2. UNCHANGED << wbState, txFifo >>
  BY DEF RecordWord, wbVars, sndVars
<1> HIDE DEF w
<1>3. ToDo \in Seq(Words) /\ ToDo' = Append(ToDo, w) /\ ReadDone' = ReadDone
  <2>1. CASE wbState = "SEND_DATA"
    <3>1. rxFifo # << >>
      BY <2>1, HeadAsks DEF MasterInv
    <3>2. /\ Tail(rxFifo) \in Seq(Words) /\ Head(rxFifo') = Head(rxFifo)
          /\ Tail(rxFifo') = Append(Tail(rxFifo), w)
      BY <1>1, <3>1, AppendBehind, HeadTailProperties
    <3>3. QED
      BY <1>2, <2>1, <3>2 DEF ToDo, ReadDone
  <2>2. CASE wbState # "SEND_DATA"
    BY <1>1, <1>2, <2>2 DEF ToDo, ReadDone
  <2>3. QED
    BY <2>1, <2>2
<1>4. Pending' = Extended(Pending, w)
  BY <1>1, <1>3, AskedByAppend DEF Pending
<1>5. Owed' = Owed
  BY <1>2, <1>3 DEF Owed, Replied
<1>6. CASE Asks(w)
  <2>1. Asked(w) \in Accesses /\ Pending' = Append(Pending, Asked(w))
    BY <1>1, <1>4, <1>6, AskedIn DEF Extended, Asks
  <2>2. QED
    BY <1>5, <2>1 DEF Server!Step, Server!Ask
<1>7. CASE ~Asks(w)
  <2>1. Pending' = Pending
    BY <1>4, <1>7 DEF Extended, Asks
  <2>2. QED
    BY <1>5, <2>1 DEF Server!Step
<1>8. QED
  BY <1>6, <1>7

\* A base asks for nothing.
LEMMA BaseAsksNothing ==
    ASSUME TypeOK, FifoInv, RecordInv, MasterInv, mode = "master", mode' = mode, RcvBase
    PROVE  Server!Step
<1>1. rxFifo # << >> /\ rxFifo' = Tail(rxFifo) /\ rcvState = "IDLE" /\ UNCHANGED << wbState, txFifo >>
  BY BaseFacts DEF RcvBase, wbVars, sndVars
<1>2. Head(rxFifo).i = 1 /\ HeadPacket \in Packets /\ HeadPacket.wcount \in Nat
  BY <1>1, HeadFacts DEF RecordInv
<1>3. WritePart(HeadPacket) \in Nat
  BY <1>2 DEF WritePart
<1>4. 1 \notin 2 .. WritePart(HeadPacket) /\ ~(1 > WritePart(HeadPacket) + 1)
  BY <1>3
<1>5. ~Asks(Head(rxFifo))
  BY <1>2, <1>4 DEF Asks, IsWrite, IsRead, HeadPacket
<1>6. wbState # "SEND_DATA"
  BY <1>1 DEF MasterInv
<1>7. HeadLaw(rxFifo)
  BY <1>1, RxHeadLaw
<1>8. Pending' = Pending
  BY <1>1, <1>5, <1>6, <1>7 DEF Pending, ToDo, HeadLaw
<1>9. Owed' = Owed
  BY <1>1, <1>6 DEF Owed, Replied, ReadDone
<1>10. QED
  BY <1>8, <1>9 DEF Server!Step

\* The acknowledge of a write, or of a read, performs the access on the bus.
LEMMA AcknowledgePerforms ==
    ASSUME IInv, mode = "master", mode' = mode, WbWrite \/ WbRead
    PROVE  Server!Step
<1>0. TypeOK /\ FifoInv /\ RecordInv /\ MasterInv
  BY DEF IInv
<1>1. /\ Bus # << >> /\ rcvState # "IDLE" /\ wbState # "SEND_DATA" /\ UNCHANGED txFifo
      /\ WbWrite => rcvState = "RECEIVE_WRITES"
      /\ WbRead => rcvState = "RECEIVE_READS"
  BY DEF WbWrite, WbRead, Bus, Presents, sndVars
<1>2. Bus = << Asked(Head(rxFifo)) >> /\ Bus[1] = Asked(Head(rxFifo))
  BY <1>1, BusAsked DEF BusInv
<1>3. /\ Head(rxFifo) \in Words /\ Asks(Head(rxFifo)) /\ rxFifo # << >>
      /\ rcvState = "RECEIVE_WRITES" => Asked(Head(rxFifo)).we = TRUE
      /\ rcvState = "RECEIVE_READS" => Asked(Head(rxFifo)).we = FALSE
  BY <1>0, <1>1, HeadAsks
<1>4. Tail(Pending) = AskedBy(Tail(rxFifo))
  BY <1>0, <1>1, <1>3, RxHeadLaw DEF Pending, ToDo, HeadLaw
<1>5. Owed = AskedBy(Replied)
  BY <1>0, <1>1, OwedFacts DEF Owed
<1>6. CASE WbWrite
  <2>1. rxFifo' = Tail(rxFifo) /\ wbState' # "SEND_DATA"
    BY <1>1, <1>6 DEF WbWrite, TakenWrite, Taken
  <2>2. Pending' = Tail(Pending)
    BY <1>4, <2>1 DEF Pending, ToDo
  <2>3. Owed' = Owed
    BY <1>1, <2>1 DEF Owed, Replied, ReadDone
  <2>4. QED
    BY <1>1, <1>2, <1>3, <1>6, <2>2, <2>3 DEF Server!Step, Server!Perform
<1>7. CASE WbRead
  <2>1. rxFifo' = rxFifo /\ wbState' = "SEND_DATA"
    BY <1>7 DEF WbRead, rcvVars
  <2>2. Pending' = Tail(Pending)
    BY <1>4, <2>1 DEF Pending, ToDo
  <2>3. Owed' = AskedBy(Replied \o << Head(rxFifo) >>)
    BY <1>1, <2>1 DEF Owed, Replied, ReadDone
  <2>4. Replied \in Seq(Words)
    BY <1>0, RepliedFacts
  <2>5. Replied \o << Head(rxFifo) >> = Append(Replied, Head(rxFifo))
    BY <1>3, <2>4, AppendIsConcat
  <2>6. Owed' = Extended(AskedBy(Replied), Head(rxFifo))
    BY <1>3, <2>3, <2>4, <2>5, AskedByAppend
  <2>7. Owed' = Append(Owed, Asked(Head(rxFifo)))
    BY <1>3, <1>5, <2>6 DEF Extended, Asks
  <2>8. QED
    BY <1>1, <1>2, <1>3, <1>7, <2>2, <2>7 DEF Server!Step, Server!Perform
<1>8. QED
  BY <1>6, <1>7

\* Handing the answer to the record sender changes nothing of what is promised.
LEMMA SendOwesTheSame ==
    ASSUME TypeOK, ReceiverInv, FifoInv, RecordInv, MasterInv, mode = "master", mode' = mode, WbSend
    PROVE  Server!Step
<1> DEFINE w == Head(rxFifo)
           r == AnswerTo(Asked(w))
<1>1. /\ wbState = "SEND_DATA" /\ wbState' # "SEND_DATA" /\ rxFifo' = Tail(rxFifo)
  BY DEF WbSend, AfterSend, TakenRead, Taken
<1>2. rxFifo # << >> /\ txFifo' = Append(txFifo, r) /\ r \in Replies /\ r.word = w /\ w \in Words
  BY SendFacts, HeadFacts
<1>3. Pending' = Pending
  BY <1>1 DEF Pending, ToDo
<1>4. Replied \in Seq(Words) /\ txFifo \in Seq(Replies) /\ Len(Replied) = Len(txFifo)
      /\ \A k \in DOMAIN txFifo : Replied[k] = txFifo[k].word
  BY RepliedFacts DEF TypeOK
<1> HIDE DEF r, w
<1>5. /\ DOMAIN txFifo = 1 .. Len(txFifo) /\ DOMAIN txFifo' = 1 .. Len(txFifo) + 1 /\ Len(txFifo) \in Nat
      /\ \A k \in DOMAIN txFifo : txFifo'[k] = txFifo[k]
      /\ txFifo'[Len(txFifo) + 1] = r
  BY <1>2, <1>4, AppendFacts
<1>6. Replied' = Append(Replied, w)
  <2>1. /\ Append(Replied, w) \in Seq(Words) /\ DOMAIN Append(Replied, w) = 1 .. Len(txFifo) + 1
        /\ DOMAIN Replied = 1 .. Len(txFifo)
        /\ \A k \in DOMAIN Replied : Append(Replied, w)[k] = Replied[k]
        /\ Append(Replied, w)[Len(txFifo) + 1] = w
    BY <1>2, <1>4, AppendFacts
  <2>2. Append(Replied, w) \in [1 .. Len(txFifo) + 1 -> Words]
    BY <2>1, LenProperties
  <2>3. ASSUME NEW k \in 1 .. Len(txFifo) + 1 PROVE txFifo'[k].word = Append(Replied, w)[k]
    <3>1. k \in DOMAIN txFifo \/ k = Len(txFifo) + 1
      BY <1>5
    <3>2. QED
      BY <1>2, <1>4, <1>5, <2>1, <3>1
  <2>4. Replied' = [k \in 1 .. Len(txFifo) + 1 |-> txFifo'[k].word]
    BY <1>5 DEF Replied
  <2>5. QED
    BY <2>2, <2>3, <2>4
<1>7. ReadDone' = << >> /\ Replied' \o << >> = Replied'
  <2>1. Replied' \in Seq(Words)
    BY <1>2, <1>4, <1>6, AppendProperties
  <2>2. QED
    BY <1>1, <2>1, ConcatEmptySeq DEF ReadDone
<1>8. Owed = AskedBy(Append(Replied, w))
  BY <1>1, OwedFacts DEF Owed, w
<1>9. Owed' = Owed
  BY <1>6, <1>7, <1>8 DEF Owed
<1>10. QED
  BY <1>3, <1>9 DEF Server!Step

\* The word that leaves is the answer to the oldest read.
LEMMA DataAnswersOldest ==
    ASSUME IInv, mode = "master", mode' = mode, SndData
    PROVE  Server!Step
<1>0. TypeOK /\ FifoInv /\ RecordInv /\ MasterInv /\ SenderInv
  BY DEF IInv
<1>1. /\ sndState = "SEND_DATA" /\ txOwner = "record" /\ txFifo' = Tail(txFifo)
      /\ UNCHANGED << rxFifo, wbState >>
  BY DEF SndData, rcvVars, wbVars
<1>2. txFifo \in Seq(Replies) /\ txFifo # << >>
  BY <1>0, <1>1, WholeTail DEF SenderInv, TypeOK
<1>3. Reply # << >>
  BY <1>1 DEF Reply
<1>4. /\ Tail(Owed) = AskedBy(Tail(Replied) \o ReadDone)
      /\ Tail(Replied) \in Seq(Words) /\ Replied # << >> /\ Replied \in Seq(Words)
      /\ \A k \in DOMAIN txFifo : Replied[k] = txFifo[k].word
      /\ Len(Replied) = Len(txFifo)
  BY <1>0, <1>2, OldestOwed, RepliedFacts
<1>5. /\ Len(txFifo) \in Nat \ {0} /\ DOMAIN Tail(txFifo) = 1 .. Len(txFifo) - 1
      /\ \A k \in DOMAIN Tail(txFifo) : k + 1 \in DOMAIN txFifo /\ Tail(txFifo)[k] = txFifo[k + 1]
  BY <1>2, TailFacts
<1>6. /\ DOMAIN Tail(Replied) = 1 .. Len(txFifo) - 1
      /\ \A k \in DOMAIN Tail(Replied) : Tail(Replied)[k] = Replied[k + 1]
  BY <1>4, TailFacts
<1>7. Replied' = Tail(Replied)
  <2>1. Replied' = [k \in 1 .. Len(txFifo) - 1 |-> Tail(txFifo)[k].word]
    BY <1>1, <1>5 DEF Replied
  <2>2. \A k \in 1 .. Len(txFifo) - 1 : Tail(txFifo)[k].word = Tail(Replied)[k]
    BY <1>4, <1>5, <1>6
  <2>3. Tail(Replied) \in [1 .. Len(txFifo) - 1 -> Words]
    BY <1>4, <1>6, LenProperties
  <2>4. QED
    BY <2>1, <2>2, <2>3
<1>8. ReadDone' = ReadDone /\ ToDo' = ToDo
  BY <1>1 DEF ReadDone, ToDo
<1>9. Owed' = Tail(Owed)
  BY <1>4, <1>7, <1>8 DEF Owed
<1>10. Pending' = Pending
  BY <1>8 DEF Pending
<1>11. QED
  BY <1>3, <1>9, <1>10 DEF Server!Step, Server!Send

\* What moves nothing through the FIFOs and performs nothing on the bus changes nothing
\* of what is promised.
LEMMA QuietStep ==
    ASSUME mode' = mode, UNCHANGED << rxFifo, txFifo >>,
           wbState' = wbState \/ (wbState # "SEND_DATA" /\ wbState' # "SEND_DATA")
    PROVE  Server!Step
<1>1. ReadDone' = ReadDone /\ ToDo' = ToDo /\ Replied' = Replied
  BY DEF ReadDone, ToDo, Replied
<1>2. UNCHANGED << Pending, Owed >>
  BY <1>1 DEF Pending, Owed
<1>3. QED
  BY <1>2 DEF Server!Step

\* The slave promises none of this.
LEMMA SlaveHasNone ==
    TypeOK /\ mode # "master" => Bus = << >> /\ Reply = << >> /\ Pending = << >> /\ Owed = << >>
  BY DEF TypeOK, Bus, Reply, Pending, Owed

LEMMA SlaveActions ==
    ASSUME TypeOK, mode = "master"
    PROVE  ~(SlaveDrops \/ SlaveIdle \/ SlaveSend \/ SlaveWaitRead \/ CpuAsks)
  BY DEF TypeOK, SlaveDrops, SlaveIdle, SlaveSend, SlaveWaitRead, CpuAsks

LEMMA MasterServes ==
    ASSUME IInv, mode = "master", mode' = mode, [Next]_vars
    PROVE  Server!Step
<1>0. TypeOK /\ ReceiverInv /\ FifoInv /\ RecordInv /\ MasterInv
  BY DEF IInv
<1>1. CASE RecordWord
  BY <1>0, <1>1, RecordWordAsks
<1>2. CASE RcvBase
  BY <1>0, <1>2, BaseAsksNothing
<1>3. CASE WbWrite \/ WbRead
  BY <1>3, AcknowledgePerforms
<1>4. CASE WbSend
  BY <1>0, <1>4, SendOwesTheSame
<1>5. CASE SndData
  BY <1>5, DataAnswersOldest
<1>6. CASE RxIdle \/ RxAnswer \/ RxDrop \/ RecordHeader \/ ProbeIdle \/ ProbeWord
  <2>1. UNCHANGED << rxFifo, txFifo, wbState >>
    BY <1>6 DEF RxIdle, RxAnswer, RxDrop, RecordHeader, ProbeIdle, ProbeWord, rcvVars, wbVars, sndVars
  <2>2. QED
    BY <2>1, QuietStep
<1>7. CASE WbIdle \/ SndIdle \/ SndBaseAddress \/ Grant \/ UNCHANGED vars
  <2>1. UNCHANGED << rxFifo, txFifo >>
    BY <1>7 DEF WbIdle, SndIdle, SndBaseAddress, Grant, vars, rcvVars, wbVars, sndVars
  <2>2. wbState' = wbState \/ (wbState # "SEND_DATA" /\ wbState' # "SEND_DATA")
    BY <1>7 DEF WbIdle, SndIdle, SndBaseAddress, Grant, vars, rcvVars, wbVars, sndVars
  <2>3. QED
    BY <2>1, <2>2, QuietStep
<1>8. QED
  BY <1>0, <1>1, <1>2, <1>3, <1>4, <1>5, <1>6, <1>7, SlaveActions
     DEF Next, RxStep, BusStep, CpuStep, SndStep

LEMMA ServerStep == IInv /\ IInv' /\ [Next]_vars => [Server!Next]_(Server!vars)
<1> SUFFICES ASSUME IInv, IInv', [Next]_vars PROVE [Server!Next]_(Server!vars)
  OBVIOUS
<1>0. TypeOK /\ mode' = mode /\ TypeOK'
  BY ModeFixed DEF IInv
<1>1. CASE mode # "master"
  <2>1. (TypeOK /\ mode # "master" => Bus = << >> /\ Reply = << >> /\ Pending = << >> /\ Owed = << >>)'
    BY SlaveHasNone, PTL
  <2>2. QED
    BY <1>0, <1>1, <2>1, SlaveHasNone DEF Server!vars
<1>2. CASE mode = "master"
  <2>1. IInv' => OutputsInv'
    BY OutputsAre, PTL
  <2>2. Server!Outputs
    BY <2>1 DEF OutputsInv, Server!Outputs
  <2>3. Server!Step
    BY <1>0, <1>2, MasterServes
  <2>4. QED
    BY <2>2, <2>3 DEF Server!Next
<1>3. QED
  BY <1>1, <1>2

\* The bridge implements EtherboneServer: whatever the receiver, the packet FIFOs, the bus
\* master and the record sender do in between, the accesses that records ask for are
\* performed in order and once (etherbone.py:343-419), and what reads returned is sent in
\* that order under the parameters of its own record (etherbone.py:258-315).
THEOREM ImplementsServer == ASSUME Unmixed PROVE Spec => ServesRecords
<1>1. IInv /\ IInv' /\ [Next]_vars => [Server!Next]_(Server!vars)
  BY ServerStep
<1>2. QED
  BY BridgeSafe, ServerInit, <1>1, PTL DEF Spec, ServesRecords, Server!Spec
=============================================================================
