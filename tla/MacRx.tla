-------------------------------- MODULE MacRx --------------------------------
(***************************************************************************)
(* The receive side of the MAC core in the PHY's clock domain: the         *)
(* preamble checker (mac/preamble.py), the buffer behind it and the CRC    *)
(* checker (mac/crc.py), as mac/core.py joins them.  One step is one cycle *)
(* of the receive clock.  The PHY brings bursts of bytes, whole frames and *)
(* others, and cannot be held back; what takes the frames may be not ready *)
(* for a cycle.                                                            *)
(***************************************************************************)
EXTENDS EthFrame

CONSTANTS
    Frames,     \* the frames that are sent
    Bursts,     \* the bytes between two silences of the PHY: frames and debris
    MaxStalls   \* bound on the cycles the receiver of the frames is not ready

ASSUME MacRxAssumption == MaxStalls \in Nat /\ \A b \in Bursts : b # << >>

VARIABLES
    burst, pos,     \* the last burst begun and the bytes the PHY gave of it
    silent,         \* the PHY gave no byte in the last cycle
    preamble,       \* LiteEthMACPreambleChecker's FSM
    buf,            \* the buffer on the CRC checker's sink
    state,          \* LiteEthMACCRCChecker's FSM
    crc, fifo,      \* the bytes reg covers, and those held back
    out,            \* the bytes of a frame handed on so far
    delivered,      \* the frame whose last byte was handed on in the last cycle
    verdict,        \* what was made of the burst
    stalls,
    overlapped      \* history: a frame began before the last byte of another was taken

wireVars == << burst, pos, silent >>
vars == << wireVars, preamble, buf, state, crc, fifo, out, delivered, verdict, stalls,
           overlapped >>

Verdicts == {"none", "preamble error", "good", "crc error"}

TypeOK ==
    /\ burst \in Bursts \cup {<< >>} /\ pos \in 0 .. Len(burst) /\ silent \in BOOLEAN
    /\ preamble \in {"PREAMBLE", "COPY"} /\ Len(buf) <= 1
    /\ state \in {"RESET", "IDLE", "COPY"}
    /\ Len(fifo) <= CrcLength /\ Len(delivered) <= 1
    /\ state = "IDLE" => crc = << >> /\ fifo = << >>
    /\ state = "COPY" => Len(fifo) \in 1 .. Len(crc)
    /\ verdict \in Verdicts /\ stalls \in 0 .. MaxStalls /\ overlapped \in BOOLEAN

Init ==
    /\ burst = << >> /\ pos = 0 /\ silent = TRUE
    /\ preamble = "PREAMBLE" /\ buf = << >> /\ state = "RESET" /\ crc = << >> /\ fifo = << >>
    /\ out = << >> /\ delivered = << >> /\ verdict = "none" /\ stalls = 0
    /\ overlapped = FALSE

-----------------------------------------------------------------------------
(* What is on the streams in a cycle: p is the PHY's byte, if there is one, and
   ready what takes the frames says. *)

Token(b, last) == [byte |-> b, last |-> last]

IsLast(p) == p # << >> /\ p[1].last

Full == Len(fifo) = CrcLength

Valid      == buf # << >> /\ Full
Out(ready) == Valid /\ ready
In(ready)  == buf # << >> /\ (~Full \/ Out(ready))

\* Whether s is a sequence with its CRC behind it: what the residue shows.
WithCrc(s) ==
    LET n == Len(s) - CrcLength
    IN  n >= 0 /\ SubSeq(s, n + 1, Len(s)) = Crc(SubSeq(s, 1, n))

\* crc.error looks at the byte on the sink too.
CrcError == ~WithCrc(Append(crc, buf[1].byte))

-----------------------------------------------------------------------------
(* The stages. *)

\* Fault: a delimiter starts a frame even where the burst ends.
StartSeenAtEnd(p) == p # << >> /\ p[1].byte = StartOfFrame

StartSeen(p) == p # << >> /\ ~p[1].last /\ p[1].byte = StartOfFrame

BufReady(ready) == buf = << >> \/ In(ready)

PreambleFsm(p, ready) ==
    preamble' = CASE preamble = "PREAMBLE" -> IF StartSeen(p) THEN "COPY" ELSE "PREAMBLE"
                  [] preamble = "COPY" -> IF IsLast(p) /\ BufReady(ready) THEN "PREAMBLE" ELSE "COPY"

\* The PHY does not wait: a byte the buffer has no room for is lost.
Buffer(p, ready) ==
    buf' = IF BufReady(ready) THEN (IF preamble = "COPY" THEN p ELSE << >>) ELSE buf

\* Fault: no cycle in RESET between two frames.
CrcFsmNoReset(ready) ==
    state' = CASE state = "RESET" -> "IDLE"
               [] state = "IDLE" -> IF In(ready) THEN "COPY" ELSE "IDLE"
               [] state = "COPY" -> IF In(ready) /\ buf[1].last THEN "IDLE" ELSE "COPY"

CrcFsm(ready) ==
    state' = CASE state = "RESET" -> "IDLE"
               [] state = "IDLE" -> IF In(ready) THEN "COPY" ELSE "IDLE"
               [] state = "COPY" -> IF In(ready) /\ buf[1].last THEN "RESET" ELSE "COPY"

\* Fault: reg is reset, the FIFO is not.
FifoKept(ready) ==
    (IF Out(ready) THEN Tail(fifo) ELSE fifo) \o (IF In(ready) THEN << buf[1].byte >> ELSE << >>)

FifoNext(ready) ==
    IF state = "RESET" THEN << >>
    ELSE (IF Out(ready) THEN Tail(fifo) ELSE fifo)
           \o (IF In(ready) THEN << buf[1].byte >> ELSE << >>)

CrcRegister(ready) ==
    /\ fifo' = FifoNext(ready)
    /\ crc' = IF state = "RESET" THEN << >>
              ELSE IF In(ready) THEN Append(crc, buf[1].byte) ELSE crc

\* The frame leaves with its error bit on its last byte.
Deliver(p, ready) ==
    LET bytes == Append(out, Head(fifo))
        ends  == Out(ready) /\ buf[1].last
    IN  /\ out' = IF ends THEN << >> ELSE IF Out(ready) THEN bytes ELSE out
        /\ delivered' = IF ends THEN << [bytes |-> bytes, error |-> CrcError] >> ELSE << >>
        /\ verdict' = IF ends THEN (IF CrcError THEN "crc error" ELSE "good")
                      ELSE IF preamble = "PREAMBLE" /\ IsLast(p) THEN "preamble error"
                      ELSE IF p # << >> /\ pos = Len(burst) THEN "none" ELSE verdict

Stages(p, ready) ==
    /\ PreambleFsm(p, ready) /\ Buffer(p, ready)
    /\ CrcFsm(ready) /\ CrcRegister(ready) /\ Deliver(p, ready)
    /\ overlapped' = (overlapped \/ (preamble' = "COPY" /\ IsLast(buf')))

\* stalls counts the cycles in which a byte was presented and not taken.
Receive(p) ==
    \E ready \in BOOLEAN :
        /\ ready \/ (Valid /\ stalls < MaxStalls)
        /\ stalls' = IF ready THEN stalls ELSE stalls + 1
        /\ Stages(p, ready)

\* rx_dv falls between two bursts: their bytes are never in successive cycles.
NewBurst ==
    /\ pos = Len(burst) /\ silent
    /\ \E b \in Bursts : burst' = b /\ Receive(<< Token(b[1], Len(b) = 1) >>)
    /\ pos' = 1 /\ silent' = FALSE

NextByte ==
    /\ pos < Len(burst)
    /\ Receive(<< Token(burst[pos + 1], pos + 1 = Len(burst)) >>)
    /\ pos' = pos + 1 /\ silent' = FALSE /\ UNCHANGED burst

NoByte ==
    /\ Receive(<< >>)
    /\ silent' = TRUE /\ UNCHANGED << burst, pos >>

Next == NewBurst \/ NextByte \/ NoByte

Spec == Init /\ [][Next]_vars

-----------------------------------------------------------------------------
(* Properties. *)

\* A frame handed on without error is one that was sent, whole and padded: no
\* debris, no byte lost to a stall, no rest of an earlier burst passes for one.
\* (Not so once a stall has outlasted the pause between two frames: the first byte of
\* the second is then in the buffer in the cycle spent in RESET, where source is
\* still valid and hands on a byte of the first.)
CleanFramesWereSent ==
    \A i \in DOMAIN delivered :
        ~overlapped /\ ~delivered[i].error => delivered[i].bytes \in {Padded(f) : f \in Frames}

\* What follows a burst's first start-of-frame delimiter; a burst that ends with
\* it, or has none, has no frame.
Starts(b) == {i \in 1 .. Len(b) - 1 : b[i] = StartOfFrame}
First(b)  == CHOOSE i \in Starts(b) : \A j \in Starts(b) : i <= j
Rest(b)   == SubSeq(b, First(b) + 1, Len(b))

Judgement(b) ==
    IF Starts(b) = {} THEN "preamble error"
    ELSE IF Len(Rest(b)) <= CrcLength THEN "none"
    ELSE IF WithCrc(Rest(b)) THEN "good" ELSE "crc error"

\* The burst is over and through, and the receiver was ready all the time.
Judged == burst # << >> /\ pos = Len(burst) /\ silent /\ buf = << >> /\ stalls = 0

\* Every burst gets the judgement it deserves on its own, whatever came before
\* it and however close: nothing of a burst is left in the checkers for the next.
EveryBurstJudged == Judged => verdict = Judgement(burst) /\ out = << >>

\* The error bit is "set to 0 on last when CRC OK" (mac/crc.py): a frame that
\* arrives whole is handed on as good.
GoodWhenCrcOk == Judged /\ burst \in {Framed(f) : f \in Frames} => verdict = "good"

-----------------------------------------------------------------------------
(* Why they hold. *)

Tokens(Bytes) == [byte : Bytes, last : BOOLEAN]

\* The registers, with bytes of the given set; the FIFO is never longer than a CRC.
RegisterInv(Bytes) ==
    /\ burst \in Bursts \cup {<< >>} /\ pos \in 0 .. Len(burst) /\ silent \in BOOLEAN
    /\ preamble \in {"PREAMBLE", "COPY"} /\ state \in {"RESET", "IDLE", "COPY"}
    /\ buf \in Seq(Tokens(Bytes)) /\ Len(buf) <= 1
    /\ crc \in Seq(Bytes) /\ fifo \in Seq(Bytes) /\ Len(fifo) <= CrcLength
    /\ out \in Seq(Bytes) /\ Len(delivered) <= 1
    /\ state = "IDLE" => crc = << >> /\ fifo = << >>
    /\ state = "COPY" => Len(fifo) \in 1 .. Len(crc)
    /\ verdict \in Verdicts /\ stalls \in 0 .. MaxStalls /\ overlapped \in BOOLEAN

\* Between the delimiter and the last byte, what has been handed on and what is held
\* back are what reg covers; the cycle in RESET finds no byte in the buffer.
CoverInv ==
    ~overlapped =>
        /\ IsLast(buf) => preamble = "PREAMBLE"
        /\ state = "RESET" => buf = << >>
        /\ state # "COPY" => out = << >>
        /\ state = "COPY" => crc = out \o fifo /\ (out # << >> => Full)
        /\ CleanFramesWereSent

\* Without stalls a burst is before, in or behind its frame, and the bytes of the
\* frame are in the buffer and in the register, none lost and none from before.
FirstStart(f) == f \in Starts(burst) /\ \A j \in Starts(burst) : f <= j

Before ==
    /\ preamble = "PREAMBLE" /\ buf = << >> /\ out = << >>
    /\ state = "IDLE" \/ (burst = << >> /\ state = "RESET")
    /\ \A i \in Starts(burst) : pos < i
    /\ burst # << >> => verdict = IF pos = Len(burst) THEN "preamble error" ELSE "none"

Inside(f) ==
    /\ FirstStart(f) /\ f <= pos /\ (pos < Len(burst) \/ buf # << >>)
    /\ preamble = IF pos < Len(burst) THEN "COPY" ELSE "PREAMBLE"
    /\ buf = IF silent \/ pos = f THEN << >> ELSE << Token(burst[pos], pos = Len(burst)) >>
    /\ state = IF pos - Len(buf) = f THEN "IDLE" ELSE "COPY"
    /\ crc = SubSeq(burst, f + 1, pos - Len(buf))
    /\ verdict = "none"

Behind(f) ==
    /\ FirstStart(f) /\ pos = Len(burst) /\ silent
    /\ preamble = "PREAMBLE" /\ buf = << >> /\ out = << >> /\ state \in {"RESET", "IDLE"}
    /\ verdict = Judgement(burst)

PipeInv ==
    stalls = 0 => ~overlapped /\ (Before \/ \E f \in Starts(burst) : Inside(f) \/ Behind(f))
=============================================================================
