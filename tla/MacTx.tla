-------------------------------- MODULE MacTx --------------------------------
(***************************************************************************)
(* The transmit side of the hybrid MAC.  Software puts frames into memory  *)
(* slots that LiteEthMACSRAMReader sends word by word (mac/sram.py); the   *)
(* words are cut into bytes and ended at last_be (mac/last_be.py); the     *)
(* arbiter of LiteEthMACCoreCrossbar (mac/__init__.py) chooses between     *)
(* them and the hardware stack's frames.  Across the clock domain crossing *)
(* the frame is padded, given its CRC, its preamble and the interpacket    *)
(* gap (mac/core.py and the stages it joins).                              *)
(* A SysCycle is one cycle of the system clock for everything before the   *)
(* crossing.  Behind it the stages are joined by valid/ready handshakes,   *)
(* and a step is one transfer or one FSM transition.                       *)
(***************************************************************************)
EXTENDS EthFrame

CONSTANTS
    NSlots,      \* ntxslots
    WordBytes,   \* bytes in a word of the slots, 4
    LengthRange, \* 2**lengthbits
    CountRange,  \* 2**16, of the padding's counter
    CpuSizes,    \* sizes of the frames software sends
    HwSizes,     \* sizes of the frames the hardware stack sends
    Depth,       \* bytes in the clock domain crossing
    GapLength,   \* eth_interpacket_gap
    Tags         \* a sender's frames are numbered modulo Tags

MacTxAssumption ==
    /\ NSlots \in Nat \ {0} /\ WordBytes \in Nat \ {0} /\ LengthRange \in Nat \ {0}
    /\ Depth \in Nat \ {0} /\ GapLength \in Nat \ {0} /\ Tags \in Nat \ {0}
    /\ CountRange \in Nat /\ MinLength <= CountRange
    \* A shorter frame makes length - 4 wrap: see the README.
    /\ \A n \in CpuSizes : n \in WordBytes .. LengthRange - WordBytes
    /\ HwSizes \subseteq Nat \ {0}
    /\ \A n \in CpuSizes \cup HwSizes : n <= CountRange
ASSUME MacTxAssumption

Slots == 0 .. NSlots - 1
Senders == {"cpu", "hw"}
SizesOf(s) == IF s = "cpu" THEN CpuSizes ELSE HwSizes
FramesOf(s) == [from : {s}, tag : 0 .. Tags - 1, size : SizesOf(s)]
Frames == UNION {FramesOf(s) : s \in Senders}

VARIABLES
    slot,                     \* the frame in each slot's memory, << >> before the first
    free,                     \* the slots software may write
    cmd, stat,                \* the reader's FIFOs of commands and of statuses
    reader, counter, stamp,   \* its FSM, address and timestamp register
    mux, lastbe,              \* the converter's byte and LiteEthMACTXLastBE
    hw,                       \* what the packetizer still presents of its frame
    arbiter,                  \* tx_arbiter_fsm
    cdc,                      \* the bytes in the clock domain crossing
    padding, count,           \* LiteEthMACPaddingInserter
    buf,                      \* the buffer on the CRC inserter's sink
    crcState, crc, cnt,       \* LiteEthMACCRCInserter; crc is what reg covers
    preamble, preCount,       \* LiteEthMACPreambleInserter
    gap, gapCount,            \* LiteEthMACGap
    wire,                     \* what the PHY got since the last gap
    tag,                      \* by sender, the number of the next frame
    owed                      \* history: by sender, the frames handed in and not on the wire

softVars   == << slot, free >>
readerVars == << cmd, stat, reader, counter, stamp >>
muxVars    == << mux, lastbe, hw, arbiter >>
sysVars    == << softVars, readerVars, muxVars, tag >>
padVars    == << padding, count >>
crcVars    == << crcState, crc, cnt >>
outVars    == << preamble, preCount, gap, gapCount, wire >>
vars == << sysVars, cdc, padVars, buf, crcVars, outVars, owed >>

Token(b, last) == [byte |-> b, last |-> last]

TypeOK ==
    /\ \A s \in Slots : slot[s] \in FramesOf("cpu") \cup {<< >>}
    /\ free \subseteq Slots
    /\ \A i \in DOMAIN cmd : cmd[i] \in [slot : Slots, length : CpuSizes]
    /\ \A i \in DOMAIN stat : stat[i] \in [slot : Slots, stamp : 0 .. Tags - 1]
    /\ Len(cmd) <= NSlots /\ Len(stat) <= NSlots
    /\ reader \in {"IDLE", "SEND", "END"}
    /\ counter \in 0 .. LengthRange - 1 /\ stamp \in 0 .. Tags - 1
    /\ mux \in 0 .. WordBytes - 1 /\ lastbe \in {"COPY", "WAIT-LAST"}
    /\ \A i \in DOMAIN hw : hw[i].last = (i = Len(hw))
    /\ arbiter \in {"IDLE", "WISHBONE", "CROSSBAR"}
    /\ Len(cdc) <= Depth /\ Len(buf) <= 1
    /\ padding \in {"IDLE", "PADDING"} /\ count \in 0 .. CountRange - 1
    /\ padding = "PADDING" => count \in 1 .. MinLength - 1
    /\ crcState \in {"IDLE", "COPY", "CRC"} /\ cnt \in 0 .. CrcLength - 1
    /\ preamble \in {"IDLE", "PREAMBLE", "COPY"} /\ preCount \in 0 .. PreambleLength - 1
    /\ gap \in {"COPY", "GAP"} /\ gapCount \in 0 .. GapLength - 1
    /\ tag \in [Senders -> 0 .. Tags - 1]
    /\ \A s \in Senders : \A i \in DOMAIN owed[s] : owed[s][i] \in FramesOf(s)

Init ==
    /\ slot = [s \in Slots |-> << >>] /\ free = Slots
    /\ cmd = << >> /\ stat = << >> /\ reader = "IDLE" /\ counter = 0 /\ stamp = 0
    /\ mux = 0 /\ lastbe = "COPY" /\ hw = << >> /\ arbiter = "IDLE" /\ cdc = << >>
    /\ padding = "IDLE" /\ count = 0 /\ buf = << >>
    /\ crcState = "IDLE" /\ crc = << >> /\ cnt = CrcLength - 1
    /\ preamble = "IDLE" /\ preCount = 0 /\ gap = "COPY" /\ gapCount = 0 /\ wire = << >>
    /\ tag = [s \in Senders |-> 0] /\ owed = [s \in Senders |-> << >>]

-----------------------------------------------------------------------------
(* Before the crossing: what is presented in this cycle, and what is taken. *)

\* Both sides have lengthbits bits; software's shortest frame has a word.
LastWord == counter >= (Head(cmd).length - WordBytes) % LengthRange

\* The byte that last_be marks in the last word.
LastByte == LastWord /\ Head(cmd).length % WordBytes = (mux + 1) % WordBytes

CpuByte == Token(BodyByte(slot[Head(cmd).slot], counter + mux + 1), LastByte)

CpuValid == reader = "SEND" /\ lastbe = "COPY"
HwValid  == hw # << >>
Room     == Len(cdc) < Depth
CpuTaken == CpuValid /\ arbiter = "WISHBONE" /\ Room
HwTaken  == HwValid /\ arbiter = "CROSSBAR" /\ Room

\* LiteEthMACTXLastBE also takes what comes after the last byte, and drops it.
ByteTaken == CpuTaken \/ (reader = "SEND" /\ lastbe = "WAIT-LAST")
WordTaken == ByteTaken /\ mux = WordBytes - 1

-----------------------------------------------------------------------------
(* The components of a SysCycle. *)

\* Software writes a slot of its own and starts it; a status gives a slot back.
Commands == {<< [slot |-> s, length |-> n] >> : s \in free, n \in CpuSizes}
CpuFrame(n) == [from |-> "cpu", tag |-> tag["cpu"], size |-> n]

Software(start, clear) ==
    /\ slot' = [s \in Slots |-> IF start # << >> /\ s = start[1].slot
                                THEN CpuFrame(start[1].length) ELSE slot[s]]
    /\ free' = (free \ {c.slot : c \in {start[i] : i \in DOMAIN start}})
                 \cup (IF clear THEN {Head(stat).slot} ELSE {})

PopsCommand == reader = "END"

\* Fault: the slot's number is not looked at when the timestamp is latched.
StampLate == reader = "END"

StampLatched == reader = "IDLE" /\ cmd # << >>

\* Fault: no status in a cycle in which software clears the event.
StatusUnlessCleared(clear) == reader = "END" /\ ~clear

PushesStatus(clear) == reader = "END"

\* A SyncFIFO that is full ignores what is written to it.
Pushed(fifo, entries) == IF Len(fifo) < NSlots THEN entries ELSE << >>

ReaderFifos(start, clear) ==
    LET done == IF PushesStatus(clear) THEN << [slot |-> Head(cmd).slot, stamp |-> stamp] >>
                                       ELSE << >>
    IN  /\ cmd'  = (IF PopsCommand THEN Tail(cmd) ELSE cmd) \o Pushed(cmd, start)
        /\ stat' = (IF clear THEN Tail(stat) ELSE stat) \o Pushed(stat, done)

ReaderFsm ==
    /\ stamp' = IF StampLatched THEN slot[Head(cmd).slot].tag ELSE stamp
    /\ counter' = IF reader = "IDLE" THEN 0
                  ELSE IF WordTaken THEN (counter + WordBytes) % LengthRange ELSE counter
    /\ reader' = CASE reader = "IDLE" -> IF cmd # << >> THEN "SEND" ELSE "IDLE"
                   [] reader = "SEND" -> IF WordTaken /\ LastWord THEN "END" ELSE "SEND"
                   [] reader = "END"  -> "IDLE"

\* Fault: the rest of the last word is passed on.
NeverWaits == FALSE

WaitsForLast == CpuTaken /\ LastByte /\ mux < WordBytes - 1

Cutter ==
    /\ mux' = IF ByteTaken THEN (mux + 1) % WordBytes ELSE mux
    /\ lastbe' = CASE lastbe = "COPY" -> IF WaitsForLast THEN "WAIT-LAST" ELSE "COPY"
                   [] lastbe = "WAIT-LAST" -> IF WordTaken /\ LastWord THEN "COPY" ELSE "WAIT-LAST"

\* Fault: software's path is kept as long as it has something to send.
ReleasedWhenIdle == CpuTaken /\ LastByte /\ cmd = << >>

ReleasedByCpu == CpuTaken /\ LastByte

Arbiter ==
    arbiter' = CASE arbiter = "IDLE" -> IF CpuValid THEN "WISHBONE"
                                        ELSE IF HwValid THEN "CROSSBAR" ELSE "IDLE"
                 [] arbiter = "WISHBONE" -> IF ReleasedByCpu THEN "IDLE" ELSE "WISHBONE"
                 [] arbiter = "CROSSBAR" -> IF HwTaken /\ Head(hw).last THEN "IDLE" ELSE "CROSSBAR"

\* The hardware stack's frames, as the packetizer presents them.
Offers == {<< [from |-> "hw", tag |-> tag["hw"], size |-> n] >> : n \in HwSizes}
Tokens(f) == [i \in 1 .. f.size |-> Token(BodyByte(f, i), i = f.size)]

Stack(offer) ==
    hw' = IF offer # << >> THEN Tokens(offer[1]) ELSE IF HwTaken THEN Tail(hw) ELSE hw

Crossing ==
    cdc' = IF CpuTaken THEN Append(cdc, CpuByte)
           ELSE IF HwTaken THEN Append(cdc, Head(hw)) ELSE cdc

HandedIn(start, offer) ==
    LET given == [cpu |-> IF start = << >> THEN << >> ELSE << CpuFrame(start[1].length) >>,
                  hw  |-> offer]
    IN  /\ owed' = [s \in Senders |-> owed[s] \o given[s]]
        /\ tag'  = [s \in Senders |-> (tag[s] + Len(given[s])) % Tags]

SysCycle ==
    \E start \in {<< >>} \cup Commands, clear \in {FALSE} \cup {stat # << >>},
       offer \in {<< >>} \cup (IF hw = << >> THEN Offers ELSE {}) :
        /\ Software(start, clear) /\ ReaderFifos(start, clear) /\ ReaderFsm
        /\ Cutter /\ Arbiter /\ Stack(offer) /\ Crossing /\ HandedIn(start, offer)
        /\ UNCHANGED << padVars, buf, crcVars, outVars >>

-----------------------------------------------------------------------------
(* Behind the crossing, towards the PHY. *)

\* Fault: one byte too many.
PaddingDoneLate == count >= MinLength

PaddingDone == count >= MinLength - 1

CountNext(last) == IF last /\ PaddingDone THEN 0 ELSE (count + 1) % CountRange

Padding_IDLE ==
    /\ padding = "IDLE" /\ cdc # << >> /\ buf = << >>
    /\ LET t == Head(cdc) IN
        /\ buf' = << Token(t.byte, t.last /\ PaddingDone) >>
        /\ count' = CountNext(t.last)
        /\ padding' = IF t.last /\ ~PaddingDone THEN "PADDING" ELSE "IDLE"
    /\ cdc' = Tail(cdc)
    /\ UNCHANGED << sysVars, crcVars, outVars, owed >>

Padding_PADDING ==
    /\ padding = "PADDING" /\ buf = << >>
    /\ buf' = << Token(Zero, PaddingDone) >>
    /\ count' = CountNext(TRUE)
    /\ padding' = IF PaddingDone THEN "IDLE" ELSE "PADDING"
    /\ UNCHANGED << sysVars, cdc, crcVars, outVars, owed >>

\* reg and cnt are reset all the time the inserter is in IDLE.
Crc_IDLE ==
    /\ crcState = "IDLE" /\ buf # << >>
    /\ crcState' = "COPY" /\ crc' = << >> /\ cnt' = CrcLength - 1
    /\ UNCHANGED << sysVars, cdc, padVars, buf, outVars, owed >>

CrcValid == (crcState = "COPY" /\ buf # << >>) \/ crcState = "CRC"

Preamble_IDLE ==
    /\ preamble = "IDLE" /\ CrcValid
    /\ preamble' = "PREAMBLE" /\ preCount' = 0
    /\ UNCHANGED << sysVars, cdc, padVars, buf, crcVars, gap, gapCount, wire, owed >>

\* The PHY takes a byte when it is ready, outside the gap.
Preamble_PREAMBLE ==
    /\ preamble = "PREAMBLE" /\ gap = "COPY"
    /\ wire' = Append(wire, PreambleByte(preCount + 1))
    /\ IF preCount = PreambleLength - 1
       THEN preamble' = "COPY" /\ UNCHANGED preCount
       ELSE preCount' = preCount + 1 /\ UNCHANGED preamble
    /\ UNCHANGED << sysVars, cdc, padVars, buf, crcVars, gap, gapCount, owed >>

Crc_COPY ==
    /\ crcState = "COPY" /\ buf # << >> /\ preamble = "COPY" /\ gap = "COPY"
    /\ wire' = Append(wire, buf[1].byte)
    /\ crc' = Append(crc, buf[1].byte)
    /\ crcState' = IF buf[1].last THEN "CRC" ELSE "COPY"
    /\ buf' = << >>
    /\ UNCHANGED << sysVars, cdc, padVars, cnt, preamble, preCount, gap, gapCount, owed >>

\* The frame on the wire is one its sender is no longer owed.
SentFrom(w) == w[PreambleLength + 1].frame.from

Crc_CRC ==
    /\ crcState = "CRC" /\ preamble = "COPY" /\ gap = "COPY"
    /\ wire' = Append(wire, CrcByte(crc, CrcLength - cnt))
    /\ IF cnt = 0
       THEN /\ crcState' = "IDLE" /\ preamble' = "IDLE"
            /\ gap' = "GAP" /\ gapCount' = 0
            /\ owed' = [owed EXCEPT ![SentFrom(wire)] = Tail(@)]
            /\ UNCHANGED cnt
       ELSE cnt' = cnt - 1 /\ UNCHANGED << crcState, preamble, gap, gapCount, owed >>
    /\ UNCHANGED << sysVars, cdc, padVars, buf, crc, preCount >>

Gap_GAP ==
    /\ gap = "GAP"
    /\ IF gapCount = GapLength - 1
       THEN gap' = "COPY" /\ wire' = << >> /\ UNCHANGED gapCount
       ELSE gapCount' = gapCount + 1 /\ UNCHANGED << gap, wire >>
    /\ UNCHANGED << sysVars, cdc, padVars, buf, crcVars, preamble, preCount, owed >>

TxCycle ==
    \/ Padding_IDLE \/ Padding_PADDING
    \/ Crc_IDLE \/ Crc_COPY \/ Crc_CRC
    \/ Preamble_IDLE \/ Preamble_PREAMBLE
    \/ Gap_GAP

Next == SysCycle \/ TxCycle

\* Both clocks run, and the PHY is ready again and again.
Fairness == WF_vars(SysCycle) /\ WF_vars(TxCycle)

Spec == Init /\ [][Next]_vars
FairSpec == Spec /\ Fairness

-----------------------------------------------------------------------------
(* Properties. *)

\* No slot is lost or in two places: each is software's, or has one command, or
\* one status, never both.  Software with a status FIFO that dropped an entry
\* would wait for its slot for ever.
SlotsAccounted ==
    \A s \in Slots :
        LET commands == {i \in DOMAIN cmd : cmd[i].slot = s}
            statuses == {i \in DOMAIN stat : stat[i].slot = s}
        IN  \/ s \in free /\ commands = {} /\ statuses = {}
            \/ \E i \in DOMAIN cmd : s \notin free /\ commands = {i} /\ statuses = {}
            \/ \E i \in DOMAIN stat : s \notin free /\ commands = {} /\ statuses = {i}

\* A status carries the timestamp latched when its own frame began, though the
\* register is shared and the FIFO is read whenever software comes to it.
StampOfItsFrame == \A i \in DOMAIN stat : stat[i].stamp = slot[stat[i].slot].tag

\* Frames leave whole, padded and framed, one after the other and in their
\* sender's order, whatever back-pressure there is: the pipeline implements
\* FrameChannel.
Sent == IF gap = "GAP" THEN wire ELSE << >>
Channel == INSTANCE FrameChannel WITH sent <- Sent
SendsFrames == Channel!Spec

\* No frame waits for ever, though the arbiter prefers software: its path is
\* silent for a cycle after each of its frames.
EveryFrameSent ==
    \A s \in Senders : \A n \in 0 .. Tags - 1 :
        LET waits == owed[s] # << >> /\ Head(owed[s]).tag = n
        IN  waits ~> ~waits

-----------------------------------------------------------------------------
(* Why a slot is in one place, and the stamp its frame's. *)

Commanded == [slot : Slots, length : CpuSizes]
Statuses  == [slot : Slots, stamp : 0 .. Tags - 1]

SlotsOf(fifo)  == {fifo[i].slot : i \in 1 .. Len(fifo)}
Distinct(fifo) == \A i, j \in 1 .. Len(fifo) : fifo[i].slot = fifo[j].slot => i = j

\* Software's slots, the commands' and the statuses' make up all the slots, each
\* once; the command at the head, and with it its frame, stays while it is sent.
PlacesInv ==
    /\ cmd \in Seq(Commanded) /\ stat \in Seq(Statuses)
    /\ reader \in {"IDLE", "SEND", "END"}
    /\ tag["cpu"] \in 0 .. Tags - 1 /\ stamp \in 0 .. Tags - 1
    /\ slot \in [Slots -> FramesOf("cpu") \cup {<< >>}]
    /\ Distinct(cmd) /\ Distinct(stat)
    /\ free \cup SlotsOf(cmd) \cup SlotsOf(stat) = Slots
    /\ free \cap SlotsOf(cmd) = {} /\ free \cap SlotsOf(stat) = {}
    /\ SlotsOf(cmd) \cap SlotsOf(stat) = {}
    /\ \A s \in Slots \ free : slot[s] \in FramesOf("cpu")
    /\ reader # "IDLE" => cmd # << >> /\ stamp = slot[Head(cmd).slot].tag
    /\ \A i \in 1 .. Len(stat) : stat[i].stamp = slot[stat[i].slot].tag

-----------------------------------------------------------------------------
(* Why frames leave whole and in order. *)

FrameToken(f, i) == Token(BodyByte(f, i), i = f.size)
FrameTokens == {FrameToken(f, i) : f \in Frames, i \in 1 .. CountRange}
PaddedToken(f, i) == Token(Padded(f)[i], i = PaddedLength(f))

\* The reader is at a word of the frame at the head of its commands, the converter at a
\* byte of that; both the frame's bytes and its end are yet to come, or have been.
CpuFrameAtHead == slot[Head(cmd).slot]
CpuPassed == counter + mux

CpuInv ==
    /\ \A i \in 1 .. Len(cmd) : cmd[i].length = slot[cmd[i].slot].size
    /\ mux \in 0 .. WordBytes - 1 /\ lastbe \in {"COPY", "WAIT-LAST"} /\ counter \in 0 .. LengthRange - 1
    /\ reader # "SEND" => mux = 0 /\ lastbe = "COPY"
    /\ reader = "SEND" =>
         /\ counter % WordBytes = 0 /\ counter < Head(cmd).length
         /\ lastbe = "COPY" => CpuPassed < Head(cmd).length
         /\ lastbe = "WAIT-LAST" => LastWord /\ CpuPassed >= Head(cmd).length
    /\ arbiter = "WISHBONE" => CpuValid
    /\ CpuValid /\ arbiter # "WISHBONE" => CpuPassed = 0

\* The stack's side presents the rest of one frame.
RestOf(f, k) ==
    /\ f \in FramesOf("hw") /\ k \in 1 .. f.size /\ Len(hw) = f.size - k + 1
    /\ \A i \in 1 .. Len(hw) : hw[i] = FrameToken(f, k + i - 1)
    /\ k > 1 => arbiter = "CROSSBAR"

HwInv ==
    /\ hw \in Seq(FrameTokens) /\ (hw # << >> => RestOf(hw[1].byte.frame, hw[1].byte.at))
    /\ arbiter \in {"IDLE", "WISHBONE", "CROSSBAR"}
    /\ arbiter = "CROSSBAR" => hw # << >>

\* The byte last passed, if its frame has more of them.
Mark(f, i) == << f, i >>
MarkOf(t) == IF t.last THEN << >> ELSE Mark(t.byte.frame, t.byte.at)
Goes(m, t) == IF m = << >> THEN t.byte.at = 1 ELSE t.byte = BodyByte(m[1], m[2] + 1)

EntryMark ==
    IF arbiter = "WISHBONE" /\ CpuPassed > 0 THEN Mark(CpuFrameAtHead, CpuPassed)
    ELSE IF arbiter = "CROSSBAR" /\ hw[1].byte.at > 1 THEN Mark(hw[1].byte.frame, hw[1].byte.at - 1)
    ELSE << >>

\* The frame in the CRC inserter, and the one in the padding inserter.
OutFrame == IF crc # << >> THEN crc[1].frame ELSE buf[1].byte.frame
InFrame  == IF crcState = "COPY" THEN OutFrame ELSE buf[1].byte.frame
InPassed == IF crcState = "COPY" THEN Len(crc) + Len(buf) ELSE Len(buf)

ExitMark == IF padding = "IDLE" /\ count > 0 THEN Mark(InFrame, count) ELSE << >>

\* In the crossing frames stand byte behind byte, one frame behind the other.
Chained(before, tokens, after) ==
    /\ tokens = << >> => after = before
    /\ tokens # << >> => Goes(before, tokens[1]) /\ MarkOf(tokens[Len(tokens)]) = after
    /\ \A i \in 1 .. Len(tokens) - 1 : Goes(MarkOf(tokens[i]), tokens[i + 1])

CrossingInv == cdc \in Seq(FrameTokens) /\ Len(cdc) <= Depth /\ Chained(ExitMark, cdc, EntryMark)

\* Padding inserter, buffer and CRC inserter hold the first bytes of the padded frame.
PaddedInv ==
    /\ buf # << >> => /\ InFrame \in Frames
                      /\ buf = << PaddedToken(InFrame, IF crcState = "COPY" THEN Len(crc) + 1 ELSE 1) >>
    /\ crcState \in {"IDLE", "COPY", "CRC"}
    /\ crcState # "IDLE" => OutFrame \in Frames
    /\ crcState = "COPY" => /\ crc # << >> \/ buf # << >>
                            /\ crc \in {SubSeq(Padded(OutFrame), 1, n) : n \in 0 .. PaddedLength(OutFrame) - 1}
    /\ crcState = "CRC" => crc = Padded(OutFrame)
    /\ IF InPassed = 0 \/ InPassed = PaddedLength(InFrame) THEN count = 0 /\ padding = "IDLE"
       ELSE /\ count = InPassed /\ count < PaddedLength(InFrame)
            /\ padding = IF count < InFrame.size THEN "IDLE" ELSE "PADDING"

\* The wire has the first bytes of the framed frame.
OnWire ==
    CASE preamble = "IDLE" -> 0
      [] preamble = "PREAMBLE" -> preCount
      [] preamble = "COPY" -> PreambleLength + Len(crc)
                                + (IF crcState = "CRC" THEN CrcLength - 1 - cnt ELSE 0)

WireInv ==
    /\ preamble \in {"IDLE", "PREAMBLE", "COPY"} /\ preCount \in 0 .. PreambleLength - 1
    /\ gap \in {"COPY", "GAP"} /\ gapCount \in 0 .. GapLength - 1 /\ cnt \in 0 .. CrcLength - 1
    /\ preamble = "PREAMBLE" => crcState = "COPY"
    /\ preamble = "COPY" => crcState # "IDLE"
    /\ crcState = "CRC" => preamble = "COPY"
    /\ crcState = "COPY" => cnt = CrcLength - 1 /\ (preamble # "COPY" => crc = << >>)
    /\ gap = "GAP" => /\ wire \in {Framed(f) : f \in Frames} /\ preamble # "COPY"
                      /\ preamble = "PREAMBLE" => preCount = 0
    /\ gap = "COPY" => wire = IF OnWire = 0 THEN << >> ELSE SubSeq(Framed(OutFrame), 1, OnWire)

\* What a sender is owed: its frames behind the crossing, in it, and before it.
From(s, f) == IF f.from = s THEN << f >> ELSE << >>

Opened(s, t) == IF t.byte.at = 1 THEN From(s, t.byte.frame) ELSE << >>

Begun(s, tokens) ==
    LET frames[k \in 0 .. Len(tokens)] ==
          IF k = 0 THEN << >> ELSE frames[k - 1] \o Opened(s, tokens[k])
    IN  frames[Len(tokens)]

Inside(s) ==
    (IF crcState # "IDLE" THEN From(s, OutFrame) ELSE << >>)
      \o (IF crcState # "COPY" /\ buf # << >> THEN From(s, buf[1].byte.frame) ELSE << >>)

CpuBegun == reader = "END" \/ lastbe = "WAIT-LAST" \/ (arbiter = "WISHBONE" /\ CpuPassed > 0)

\* The commands whose frames have no byte in the crossing yet.
Unbegun == IF CpuBegun THEN Tail(cmd) ELSE cmd
FramesAt(commands, memory) == [i \in 1 .. Len(commands) |-> memory[commands[i].slot]]

Waiting(s) ==
    IF s = "cpu" THEN FramesAt(Unbegun, slot)
    ELSE IF hw # << >> /\ hw[1].byte.at = 1 THEN << hw[1].byte.frame >> ELSE << >>

OwedInv == owed = [s \in Senders |-> Inside(s) \o Begun(s, cdc) \o Waiting(s)]
=============================================================================
