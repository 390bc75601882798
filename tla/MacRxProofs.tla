---------------------------- MODULE MacRxProofs -----------------------------
(***************************************************************************)
(* Theorems about MacRx, for any bursts of bytes, any lengths of preamble, *)
(* frames and CRC, and any stalls.                                         *)
(***************************************************************************)
EXTENDS MacRx, SequenceTheorems, TLAPS

\* The bytes on the wire are of this set.
Carried(Bytes) == Bursts \subseteq Seq(Bytes)

\* And a CRC among them is a sent frame's: whatever happened to the bytes underway,
\* it made no CRC of anything else.
Honest(Bytes) == \A c : CrcByte(c, CrcLength) \in Bytes => c \in {Padded(f) : f \in Frames}

\* What the PHY gives in a cycle.
Given(Bytes) == {<< >>} \cup {<< Token(b, l) >> : b \in Bytes, l \in BOOLEAN}

LEMMA GivenByte ==
    ASSUME NEW Bytes, NEW b \in Bytes, NEW l \in BOOLEAN PROVE << Token(b, l) >> \in Given(Bytes)
  BY DEF Given

LEMMA CrcLengthFacts == CrcLength \in Nat \ {0}
  BY FrameAssumption DEF FrameAssumption

\* Every step is a cycle of the stages with a byte of the burst or none.
LEMMA CycleOf ==
    ASSUME NEW Bytes, Carried(Bytes), RegisterInv(Bytes), Next
    PROVE  /\ \E p \in Given(Bytes) : Receive(p)
           /\ burst' \in Bursts \cup {<< >>} /\ pos' \in 0 .. Len(burst') /\ silent' \in BOOLEAN
<1>1. CASE NewBurst
  <2>1. PICK b \in Bursts : burst' = b /\ Receive(<< Token(b[1], Len(b) = 1) >>)
    BY <1>1 DEF NewBurst
  <2>2. b \in Seq(Bytes) /\ Len(b) \in Nat \ {0}
    BY EmptySeq, MacRxAssumption DEF Carried
  <2>3. b[1] \in Bytes /\ 1 \in 0 .. Len(b)
    BY <2>2, ElementOfSeq
  <2>4. << Token(b[1], Len(b) = 1) >> \in Given(Bytes)
    <3>1. (Len(b) = 1) \in BOOLEAN
      OBVIOUS
    <3>2. QED
      BY <2>3, <3>1, GivenByte
  <2>5. QED
    BY <1>1, <2>1, <2>3, <2>4 DEF NewBurst
<1>2. CASE NextByte
  <2>1. burst \in Seq(Bytes)
    <3>1. CASE burst \in Bursts
      BY <3>1 DEF Carried
    <3>2. CASE burst = << >>
      BY <3>2, EmptySeq
    <3>3. QED
      BY <3>1, <3>2 DEF RegisterInv
  <2>a. Len(burst) \in Nat /\ pos \in 0 .. Len(burst) /\ pos < Len(burst)
    BY <1>2, <2>1, LenProperties DEF RegisterInv, NextByte
  <2>2. pos + 1 \in 1 .. Len(burst)
    BY <2>a
  <2>3. burst[pos + 1] \in Bytes
    BY <2>1, <2>2, ElementOfSeq
  <2>4. << Token(burst[pos + 1], pos + 1 = Len(burst)) >> \in Given(Bytes)
    <3>1. (pos + 1 = Len(burst)) \in BOOLEAN
      OBVIOUS
    <3>2. QED
      BY <2>3, <3>1, GivenByte
  <2>5. pos' = pos + 1 /\ silent' = FALSE /\ burst' = burst
    BY <1>2 DEF NextByte
  <2>6. pos' \in 0 .. Len(burst')
    BY <2>a, <2>5
  <2>7. Receive(<< Token(burst[pos + 1], pos + 1 = Len(burst)) >>)
    BY <1>2 DEF NextByte
  <2>8. \E p \in Given(Bytes) : Receive(p)
    BY <2>4, <2>7
  <2>9. QED
    BY <2>5, <2>6, <2>8 DEF RegisterInv
<1>3. CASE NoByte
  BY <1>3 DEF NoByte, Given, RegisterInv
<1>4. QED
  BY <1>1, <1>2, <1>3 DEF Next

\* Out implies In: a byte leaves the FIFO only as one comes in.
LEMMA Transfers ==
    ASSUME NEW Bytes, RegisterInv(Bytes), NEW ready \in BOOLEAN
    PROVE  /\ Out(ready) => In(ready) /\ Full /\ fifo # << >>
           /\ In(ready) /\ ~Out(ready) => Len(fifo) < CrcLength
           /\ In(ready) => /\ buf[1].byte \in Bytes /\ buf[1].last \in BOOLEAN
                           /\ buf = << buf[1] >>
           /\ fifo = << >> => ~Full
<1>1. Len(fifo) \in Nat /\ Len(buf) \in Nat /\ CrcLength \in Nat \ {0} /\ Len(fifo) <= CrcLength
  BY LenProperties, CrcLengthFacts DEF RegisterInv
<1>2. fifo = << >> => Len(fifo) = 0
  OBVIOUS
<1>3. buf # << >> => /\ Len(buf) = 1 /\ buf[1] \in Tokens(Bytes)
                     /\ buf = << buf[1] >>
  <2> SUFFICES ASSUME buf # << >> PROVE Len(buf) = 1 /\ buf[1] \in Tokens(Bytes) /\ buf = << buf[1] >>
    OBVIOUS
  <2>a. buf \in Seq(Tokens(Bytes)) /\ Len(buf) <= 1
    BY DEF RegisterInv
  <2>b. Len(buf) # 0
    BY <2>a, EmptySeq
  <2>1. Len(buf) = 1 /\ buf \in Seq(Tokens(Bytes))
    BY <1>1, <2>a, <2>b
  <2>2. buf[1] \in Tokens(Bytes)
    BY <2>1, ElementOfSeq
  <2>3. << buf[1] >> \in Seq(Tokens(Bytes)) /\ Len(<< buf[1] >>) = 1
    BY <2>2
  <2>4. buf = << buf[1] >>
    BY <2>1, <2>3, SeqEqual
  <2>5. QED
    BY <2>1, <2>2, <2>4
<1>4. In(ready) => buf[1].byte \in Bytes /\ buf[1].last \in BOOLEAN /\ buf = << buf[1] >>
  BY <1>3 DEF In, Tokens
<1>5. In(ready) /\ ~Out(ready) => Len(fifo) < CrcLength
  BY <1>1 DEF In, Full
<1>6. Out(ready) => In(ready) /\ Full /\ fifo # << >>
  BY <1>1, <1>2 DEF Out, In, Valid, Full
<1>7. QED
  BY <1>1, <1>2, <1>4, <1>5, <1>6 DEF Full

\* The CRC checker's FIFO and register.
LEMMA CrcStep ==
    ASSUME NEW Bytes, RegisterInv(Bytes), NEW ready \in BOOLEAN, CrcFsm(ready), CrcRegister(ready)
    PROVE  /\ state' \in {"RESET", "IDLE", "COPY"}
           /\ crc' \in Seq(Bytes) /\ fifo' \in Seq(Bytes) /\ Len(fifo') <= CrcLength
           /\ state' = "IDLE" => crc' = << >> /\ fifo' = << >>
           /\ state' = "COPY" => Len(fifo') \in 1 .. Len(crc')
<1> DEFINE kept == IF Out(ready) THEN Tail(fifo) ELSE fifo
           next == kept \o (IF In(ready) THEN << buf[1].byte >> ELSE << >>)
<1>1. /\ crc \in Seq(Bytes) /\ Len(crc) \in Nat /\ CrcLength \in Nat \ {0}
      /\ fifo \in Seq(Bytes) /\ Len(fifo) \in Nat /\ Len(fifo) <= CrcLength
  BY LenProperties, CrcLengthFacts DEF RegisterInv
<1>2. /\ kept \in Seq(Bytes) /\ Len(kept) \in Nat
      /\ In(ready) => Len(kept) < CrcLength
      /\ Len(kept) = IF Out(ready) THEN Len(fifo) - 1 ELSE Len(fifo)
  <2>1. CASE Out(ready)
    <3>1. fifo # << >> /\ In(ready) /\ kept = Tail(fifo)
      BY <2>1, Transfers
    <3>2. kept \in Seq(Bytes) /\ Len(kept) = Len(fifo) - 1
      BY <1>1, <3>1, HeadTailProperties
    <3>3. QED
      BY <1>1, <2>1, <3>2, LenProperties
  <2>2. CASE ~Out(ready)
    BY <1>1, <2>2, Transfers
  <2>3. QED
    BY <2>1, <2>2
<1> HIDE DEF kept
<1>3. ASSUME In(ready)
      PROVE  /\ next \in Seq(Bytes) /\ Len(next) = Len(kept) + 1
             /\ Append(crc, buf[1].byte) \in Seq(Bytes)
             /\ Len(Append(crc, buf[1].byte)) = Len(crc) + 1
  <2>1. buf[1].byte \in Bytes
    BY <1>3, Transfers
  <2>2. next = Append(kept, buf[1].byte)
    BY <1>2, <1>3, <2>1, AppendIsConcat
  <2>3. QED
    BY <1>1, <1>2, <2>1, <2>2, AppendProperties
<1>4. ASSUME ~In(ready) PROVE next = fifo /\ kept = fifo
  <2>1. kept = fifo
    BY <1>4, Transfers DEF kept
  <2>2. QED
    BY <1>1, <1>4, <2>1, ConcatEmptySeq
<1>5. fifo' = IF state = "RESET" THEN << >> ELSE next
  BY DEF CrcRegister, FifoNext, kept
<1>6. crc' = IF state = "RESET" THEN << >>
             ELSE IF In(ready) THEN Append(crc, buf[1].byte) ELSE crc
  BY DEF CrcRegister
<1> HIDE DEF next
<1>7. CASE state = "RESET"
  <2>1. state' = "IDLE" /\ crc' = << >> /\ fifo' = << >>
    BY <1>5, <1>6, <1>7 DEF CrcFsm
  <2>2. QED
    BY <1>1, <2>1, EmptySeq
<1>8. CASE state = "IDLE"
  <2>1. crc = << >> /\ fifo = << >>
    BY <1>8 DEF RegisterInv
  <2>2. state' = IF In(ready) THEN "COPY" ELSE "IDLE"
    BY <1>8 DEF CrcFsm
  <2>3. CASE In(ready)
    <3>1. Len(crc) = 0 /\ Len(fifo) = 0 /\ ~Out(ready)
      <4>1. Len(crc) = 0 /\ Len(fifo) = 0
        BY <2>1
      <4>2. QED
        BY <2>1, <4>1, Transfers
    <3>2. Len(kept) = 0
      BY <1>2, <3>1
    <3>3. state' = "COPY" /\ crc' = Append(crc, buf[1].byte) /\ fifo' = next
      BY <1>5, <1>6, <1>8, <2>2, <2>3
    <3>4. Len(fifo') = 1 /\ Len(crc') = 1
      BY <1>3, <2>3, <3>1, <3>2, <3>3
    <3>5. crc' \in Seq(Bytes) /\ fifo' \in Seq(Bytes)
      BY <1>3, <2>3, <3>3
    <3>6. Len(fifo') <= CrcLength /\ Len(fifo') \in 1 .. Len(crc')
      BY <1>1, <3>4
    <3>7. QED
      BY <3>3, <3>5, <3>6
  <2>4. CASE ~In(ready)
    BY <1>1, <1>4, <1>5, <1>6, <1>8, <2>1, <2>2, <2>4
  <2>5. QED
    BY <2>3, <2>4
<1>9. CASE state = "COPY"
  <2>1. Len(fifo) \in 1 .. Len(crc)
    BY <1>9 DEF RegisterInv
  <2>2. state' \in {"RESET", "COPY"}
    BY <1>9 DEF CrcFsm
  <2>3. CASE In(ready)
    <3>1. Len(kept) <= Len(crc) /\ Len(kept) < CrcLength
      BY <1>1, <1>2, <2>1, <2>3
    <3>2. QED
      BY <1>1, <1>2, <1>3, <1>5, <1>6, <1>9, <2>2, <2>3, <3>1
  <2>4. CASE ~In(ready)
    BY <1>1, <1>4, <1>5, <1>6, <1>9, <2>1, <2>2, <2>4
  <2>5. QED
    BY <2>3, <2>4
<1>10. QED
  BY <1>7, <1>8, <1>9 DEF RegisterInv

\* The preamble checker, the buffer and what is handed on.
LEMMA StreamStep ==
    ASSUME NEW Bytes, RegisterInv(Bytes), NEW p \in Given(Bytes), NEW ready \in BOOLEAN,
           PreambleFsm(p, ready), Buffer(p, ready), Deliver(p, ready)
    PROVE  /\ preamble' \in {"PREAMBLE", "COPY"} /\ verdict' \in Verdicts
           /\ buf' \in Seq(Tokens(Bytes)) /\ Len(buf') <= 1
           /\ out' \in Seq(Bytes) /\ Len(delivered') <= 1
<1>1. preamble' \in {"PREAMBLE", "COPY"}
  BY DEF PreambleFsm, RegisterInv
<1>2. verdict' \in Verdicts
  BY DEF Deliver, RegisterInv, Verdicts
<1>3. p \in Seq(Tokens(Bytes)) /\ Len(p) <= 1
  <2>1. CASE p = << >>
    BY <2>1
  <2>2. CASE p # << >>
    <3>1. PICK b \in Bytes, l \in BOOLEAN : p = << Token(b, l) >>
      BY <2>2 DEF Given
    <3>2. Token(b, l) \in Tokens(Bytes)
      BY DEF Token, Tokens
    <3>3. QED
      BY <3>1, <3>2
  <2>3. QED
    BY <2>1, <2>2
<1>4. buf' \in {p, << >>, buf}
  BY DEF Buffer
<1>5. buf' \in Seq(Tokens(Bytes)) /\ Len(buf') <= 1
  <2>1. << >> \in Seq(Tokens(Bytes)) /\ Len(<< >>) <= 1
    OBVIOUS
  <2>2. buf \in Seq(Tokens(Bytes)) /\ Len(buf) <= 1
    BY DEF RegisterInv
  <2>3. QED
    BY <1>3, <1>4, <2>1, <2>2
<1>6. out' \in Seq(Bytes)
  <2>1. out \in Seq(Bytes) /\ fifo \in Seq(Bytes)
    BY DEF RegisterInv
  <2>2. CASE Out(ready)
    <3>1. Head(fifo) \in Bytes
      BY <2>1, <2>2, Transfers, HeadTailProperties
    <3>2. Append(out, Head(fifo)) \in Seq(Bytes) /\ << >> \in Seq(Bytes)
      BY <2>1, <3>1
    <3>3. QED
      BY <2>1, <3>2 DEF Deliver
  <2>3. CASE ~Out(ready)
    BY <2>1, <2>3 DEF Deliver
  <2>4. QED
    BY <2>2, <2>3
<1>7. Len(delivered') <= 1
  <2>1. CASE delivered' = << >>
    BY <2>1
  <2>2. CASE delivered' # << >>
    <3>1. PICK r : delivered' = << r >>
      BY <2>2 DEF Deliver
    <3>2. Len(<< r >>) = 1
      OBVIOUS
    <3>3. QED
      BY <3>1, <3>2
  <2>3. QED
    BY <2>1, <2>2
<1>8. QED
  BY <1>1, <1>2, <1>5, <1>6, <1>7

LEMMA RegistersStart ==
    ASSUME NEW Bytes, Init PROVE RegisterInv(Bytes)
<1>1. << >> \in Seq(Bytes) /\ << >> \in Seq(Tokens(Bytes)) /\ Len(<< >>) = 0
  OBVIOUS
<1>2. 0 \in 0 .. MaxStalls /\ 0 <= CrcLength
  BY MacRxAssumption, CrcLengthFacts
<1>3. burst \in Bursts \cup {<< >>} /\ pos \in 0 .. Len(burst) /\ silent \in BOOLEAN
  BY <1>1 DEF Init
<1>4. /\ buf \in Seq(Tokens(Bytes)) /\ Len(buf) <= 1
      /\ crc \in Seq(Bytes) /\ fifo \in Seq(Bytes) /\ Len(fifo) <= CrcLength
      /\ out \in Seq(Bytes) /\ Len(delivered) <= 1
  BY <1>1, <1>2 DEF Init
<1>5. QED
  BY <1>2, <1>3, <1>4 DEF Init, RegisterInv, Verdicts

LEMMA RegistersStep ==
    ASSUME NEW Bytes, Carried(Bytes), RegisterInv(Bytes), [Next]_vars PROVE RegisterInv(Bytes)'
<1>1. CASE Next
  <2>1. /\ burst' \in Bursts \cup {<< >>} /\ pos' \in 0 .. Len(burst') /\ silent' \in BOOLEAN
        /\ \E p \in Given(Bytes) : Receive(p)
    BY <1>1, CycleOf
  <2>2. PICK p \in Given(Bytes) : Receive(p)
    BY <2>1
  <2>3. PICK ready \in BOOLEAN :
            /\ ready \/ (Valid /\ stalls < MaxStalls)
            /\ stalls' = IF ready THEN stalls ELSE stalls + 1
            /\ Stages(p, ready)
    BY <2>2 DEF Receive
  <2>4. stalls' \in 0 .. MaxStalls
    BY <2>3, MacRxAssumption DEF RegisterInv
  <2>5. overlapped' \in BOOLEAN
    BY <2>3 DEF Stages
  <2>6. /\ preamble' \in {"PREAMBLE", "COPY"} /\ verdict' \in Verdicts
        /\ buf' \in Seq(Tokens(Bytes)) /\ Len(buf') <= 1
        /\ out' \in Seq(Bytes) /\ Len(delivered') <= 1
    BY <2>3, StreamStep DEF Stages
  <2>7. /\ state' \in {"RESET", "IDLE", "COPY"}
        /\ crc' \in Seq(Bytes) /\ fifo' \in Seq(Bytes) /\ Len(fifo') <= CrcLength
        /\ state' = "IDLE" => crc' = << >> /\ fifo' = << >>
        /\ state' = "COPY" => Len(fifo') \in 1 .. Len(crc')
    BY <2>3, CrcStep DEF Stages
  <2>8. QED
    BY <2>1, <2>4, <2>5, <2>6, <2>7 DEF RegisterInv
<1>2. CASE UNCHANGED vars
  BY <1>2 DEF vars, wireVars, RegisterInv
<1>3. QED
  BY <1>1, <1>2

\* Every register keeps its type, whatever the PHY brings: the CRC checker's FIFO
\* never holds more than a CRC, and in COPY never more than reg covers.
THEOREM ReceiverTypeCorrect ==
    ASSUME NEW Bytes, Carried(Bytes) PROVE Spec => []TypeOK
<1>1. Init => RegisterInv(Bytes)
  BY RegistersStart
<1>2. RegisterInv(Bytes) /\ [Next]_vars => RegisterInv(Bytes)'
  BY RegistersStep
<1>3. RegisterInv(Bytes) => TypeOK
  BY DEF RegisterInv, TypeOK
<1>4. QED
  BY <1>1, <1>2, <1>3, PTL DEF Spec

-----------------------------------------------------------------------------
(* Frames handed on without error. *)

\* A byte leaves the FIFO as one comes in: they still cover the same sequence.
LEMMA Shift ==
    ASSUME NEW Bytes, RegisterInv(Bytes), NEW b \in Bytes, fifo # << >>
    PROVE  Append(out \o fifo, b) = Append(out, Head(fifo)) \o Append(Tail(fifo), b)
<1>0. out \in Seq(Bytes) /\ fifo \in Seq(Bytes)
  BY DEF RegisterInv
<1>1. Len(fifo) \in Nat \ {0} /\ Tail(fifo) \in Seq(Bytes) /\ Len(Tail(fifo)) = Len(fifo) - 1
  BY <1>0, EmptySeq, HeadTailProperties, LenProperties
<1>2. Head(fifo) \in Bytes /\ Head(fifo) = fifo[1]
  BY <1>0, HeadTailProperties
<1>3. Len(out) \in Nat /\ Len(out \o fifo) = Len(out) + Len(fifo) /\ out \o fifo \in Seq(Bytes)
  BY <1>0, LenProperties, ConcatProperties
<1>4. Append(out, Head(fifo)) \in Seq(Bytes) /\ Append(Tail(fifo), b) \in Seq(Bytes)
  BY <1>0, <1>1, <1>2
<1> DEFINE left == Append(out \o fifo, b)
           right == Append(out, Head(fifo)) \o Append(Tail(fifo), b)
<1>5. left \in Seq(Bytes) /\ right \in Seq(Bytes)
  BY <1>3, <1>4, ConcatProperties
<1>6. Len(left) = Len(out) + Len(fifo) + 1 /\ Len(right) = Len(left)
  BY <1>0, <1>1, <1>2, <1>3, <1>4, AppendProperties, ConcatProperties
<1>7. ASSUME NEW i \in 1 .. Len(left) PROVE left[i] = right[i]
  BY <1>0, <1>1, <1>2, <1>3, <1>4, <1>6, <1>7
<1>8. QED
  BY <1>5, <1>6, <1>7, SeqEqual

\* The last byte of a sequence with its CRC behind it is the CRC's last byte.
LEMMA LastOfCrc ==
    ASSUME NEW S, NEW a \in Seq(S), NEW c \in Seq(S), Len(c) = CrcLength, WithCrc(a \o c)
    PROVE  c[CrcLength] = CrcByte(a, CrcLength)
<1> DEFINE s == a \o c
<1>1. s \in Seq(S) /\ Len(a) \in Nat /\ Len(s) = Len(a) + CrcLength /\ CrcLength \in Nat \ {0}
  BY LenProperties, ConcatProperties, CrcLengthFacts
<1>2. Len(s) - CrcLength = Len(a)
  BY <1>1
<1>3. SubSeq(s, Len(a) + 1, Len(s)) = Crc(SubSeq(s, 1, Len(a)))
  BY <1>2 DEF WithCrc
<1>4. SubSeq(s, 1, Len(a)) = a
  <2>1. SubSeq(s, 1, Len(a)) \in Seq(S) /\ Len(SubSeq(s, 1, Len(a))) = Len(a)
    BY <1>1
  <2>2. ASSUME NEW i \in 1 .. Len(a) PROVE SubSeq(s, 1, Len(a))[i] = a[i]
    BY <1>1, <2>2
  <2>3. QED
    BY <2>1, <2>2, SeqEqual
<1>5. SubSeq(s, Len(a) + 1, Len(s))[CrcLength] = c[CrcLength]
  BY <1>1
<1>6. Crc(a)[CrcLength] = CrcByte(a, CrcLength)
  BY <1>1 DEF Crc
<1>7. QED
  BY <1>3, <1>4, <1>5, <1>6

\* What a cycle does to the FIFO, reg and what has been handed on, by state.
LEMMA CoverCases ==
    ASSUME NEW Bytes, RegisterInv(Bytes), NEW p \in Given(Bytes), NEW ready \in BOOLEAN,
           Stages(p, ready)
    PROVE  /\ ~In(ready) /\ state # "RESET" => crc' = crc /\ fifo' = fifo
           /\ ~Out(ready) => out' = out /\ delivered' = << >>
           /\ In(ready) /\ ~Out(ready) /\ state # "RESET" =>
                crc' = Append(crc, buf[1].byte) /\ fifo' = Append(fifo, buf[1].byte)
           /\ Out(ready) /\ state # "RESET" =>
                crc' = Append(crc, buf[1].byte) /\ fifo' = Append(Tail(fifo), buf[1].byte)
           /\ Out(ready) /\ ~buf[1].last => delivered' = << >> /\ out' = Append(out, Head(fifo))
           /\ Out(ready) /\ buf[1].last =>
                /\ out' = << >>
                /\ delivered' = << [bytes |-> Append(out, Head(fifo)), error |-> CrcError] >>
<1>1. /\ Out(ready) => In(ready) /\ Full /\ fifo # << >>
      /\ In(ready) => buf[1].byte \in Bytes
  BY Transfers
<1>2. fifo \in Seq(Bytes)
  BY DEF RegisterInv
<1>3. fifo' = FifoNext(ready) /\ crc' = IF state = "RESET" THEN << >>
             ELSE IF In(ready) THEN Append(crc, buf[1].byte) ELSE crc
  BY DEF Stages, CrcRegister
<1>4. /\ out' = IF Out(ready) /\ buf[1].last THEN << >>
                ELSE IF Out(ready) THEN Append(out, Head(fifo)) ELSE out
      /\ delivered' = IF Out(ready) /\ buf[1].last
                      THEN << [bytes |-> Append(out, Head(fifo)), error |-> CrcError] >> ELSE << >>
  BY DEF Stages, Deliver
<1>5. ~In(ready) /\ state # "RESET" => fifo' = fifo
  <2> SUFFICES ASSUME ~In(ready), state # "RESET" PROVE fifo' = fifo
    OBVIOUS
  <2>1. fifo' = fifo \o << >>
    BY <1>1, <1>3 DEF FifoNext
  <2>2. QED
    BY <1>2, <2>1, ConcatEmptySeq
<1>6. In(ready) /\ ~Out(ready) /\ state # "RESET" => fifo' = Append(fifo, buf[1].byte)
  <2> SUFFICES ASSUME In(ready), ~Out(ready), state # "RESET" PROVE fifo' = Append(fifo, buf[1].byte)
    OBVIOUS
  <2>1. fifo' = fifo \o << buf[1].byte >>
    BY <1>3 DEF FifoNext
  <2>2. QED
    BY <1>1, <1>2, <2>1, AppendIsConcat
<1>7. Out(ready) /\ state # "RESET" => fifo' = Append(Tail(fifo), buf[1].byte)
  <2> SUFFICES ASSUME Out(ready), state # "RESET" PROVE fifo' = Append(Tail(fifo), buf[1].byte)
    OBVIOUS
  <2>1. fifo' = Tail(fifo) \o << buf[1].byte >>
    BY <1>1, <1>3 DEF FifoNext
  <2>2. Tail(fifo) \in Seq(Bytes) /\ buf[1].byte \in Bytes
    BY <1>1, <1>2, HeadTailProperties
  <2>3. QED
    BY <2>1, <2>2, AppendIsConcat
<1>8. QED
  BY <1>1, <1>3, <1>4, <1>5, <1>6, <1>7

LEMMA DeliveredWasSent ==
    ASSUME NEW Bytes, Honest(Bytes), RegisterInv(Bytes), NEW ready \in BOOLEAN,
           Out(ready), crc = out \o fifo, ~CrcError
    PROVE  Append(out, Head(fifo)) \in {Padded(f) : f \in Frames}
<1> DEFINE a == Append(out, Head(fifo))
           c == Append(Tail(fifo), buf[1].byte)
<1>1. fifo # << >> /\ buf[1].byte \in Bytes /\ Full
  BY Transfers
<1>2. out \in Seq(Bytes) /\ fifo \in Seq(Bytes) /\ CrcLength \in Nat \ {0}
  BY CrcLengthFacts DEF RegisterInv
<1>3. Head(fifo) \in Bytes /\ Tail(fifo) \in Seq(Bytes) /\ Len(Tail(fifo)) = Len(fifo) - 1
  BY <1>1, <1>2, HeadTailProperties
<1>4. a \in Seq(Bytes) /\ c \in Seq(Bytes) /\ Len(c) = CrcLength /\ c[CrcLength] = buf[1].byte
  <2>1. Len(Tail(fifo)) = CrcLength - 1
    BY <1>1, <1>3 DEF Full
  <2>2. a \in Seq(Bytes)
    BY <1>2, <1>3, AppendProperties
  <2>3. c \in Seq(Bytes) /\ Len(c) = Len(Tail(fifo)) + 1 /\ c[Len(Tail(fifo)) + 1] = buf[1].byte
    BY <1>1, <1>3, AppendProperties
  <2>4. QED
    BY <1>2, <2>1, <2>2, <2>3
<1>5. Append(crc, buf[1].byte) = a \o c
  <2>1. Append(out \o fifo, buf[1].byte) = Append(out, Head(fifo)) \o Append(Tail(fifo), buf[1].byte)
    <3>1. PICK b \in Bytes : b = buf[1].byte
      BY <1>1
    <3>2. QED
      BY <1>1, <3>1, Shift
  <2>2. QED
    BY <2>1
<1>6. WithCrc(a \o c)
  BY <1>5 DEF CrcError
<1> HIDE DEF a, c
<1>7. buf[1].byte = CrcByte(a, CrcLength)
  BY <1>4, <1>6, LastOfCrc
<1>8. a \in {Padded(f) : f \in Frames}
  BY <1>1, <1>7 DEF Honest
<1>9. QED
  BY <1>8 DEF a

LEMMA CoverStep ==
    ASSUME NEW Bytes, Honest(Bytes), RegisterInv(Bytes), CoverInv,
           NEW p \in Given(Bytes), NEW ready \in BOOLEAN, Stages(p, ready), ~overlapped'
    PROVE  /\ IsLast(buf') => preamble' = "PREAMBLE"
           /\ state' = "RESET" => buf' = << >>
           /\ state' # "COPY" => out' = << >>
           /\ state' = "COPY" => crc' = out' \o fifo' /\ (out' # << >> => Full')
           /\ \A i \in DOMAIN delivered' :
                ~delivered'[i].error => delivered'[i].bytes \in {Padded(f) : f \in Frames}
<1>1. ~overlapped /\ ~(preamble' = "COPY" /\ IsLast(buf'))
  BY DEF Stages
<1>2. /\ IsLast(buf) => preamble = "PREAMBLE"
      /\ state = "RESET" => buf = << >>
      /\ state # "COPY" => out = << >>
      /\ state = "COPY" => crc = out \o fifo /\ (out # << >> => Full)
  BY <1>1 DEF CoverInv
<1>3. preamble' \in {"PREAMBLE", "COPY"}
  BY StreamStep DEF Stages
<1>4. /\ Out(ready) => In(ready) /\ Full /\ fifo # << >>
      /\ In(ready) /\ ~Out(ready) => ~Full
      /\ In(ready) => buf # << >> /\ buf[1].byte \in Bytes
      /\ fifo = << >> => ~Full
  BY Transfers DEF In
<1>5. /\ crc \in Seq(Bytes) /\ fifo \in Seq(Bytes) /\ out \in Seq(Bytes)
      /\ state \in {"RESET", "IDLE", "COPY"}
      /\ state = "IDLE" => crc = << >> /\ fifo = << >>
  BY DEF RegisterInv
<1>6. state' = CASE state = "RESET" -> "IDLE"
               [] state = "IDLE" -> IF In(ready) THEN "COPY" ELSE "IDLE"
               [] state = "COPY" -> IF In(ready) /\ buf[1].last THEN "RESET" ELSE "COPY"
  BY DEF Stages, CrcFsm
<1>7. Out(ready) => state = "COPY"
  BY <1>2, <1>4, <1>5 DEF In
<1>8. state' = "RESET" => buf' = << >>
  <2> SUFFICES ASSUME state' = "RESET" PROVE buf' = << >>
    OBVIOUS
  <2>1. In(ready) /\ buf[1].last
    BY <1>5, <1>6
  <2>2. preamble = "PREAMBLE"
    BY <1>2, <1>4, <2>1 DEF IsLast
  <2>3. QED
    BY <2>1, <2>2 DEF Stages, Buffer, BufReady
<1>9. state' # "COPY" => out' = << >>
  <2>1. CASE Out(ready)
    BY <1>4, <1>6, <1>7, <2>1, CoverCases
  <2>2. CASE ~Out(ready)
    <3>1. out' = out
      BY <2>2, CoverCases
    <3>2. state = "COPY" /\ state' # "COPY" => out = << >>
      BY <1>2, <1>4, <1>6, <2>2
    <3>3. QED
      BY <1>2, <3>1, <3>2
  <2>3. QED
    BY <2>1, <2>2
<1>10. state' = "COPY" => crc' = out' \o fifo' /\ (out' # << >> => Full')
  <2> SUFFICES ASSUME state' = "COPY" PROVE crc' = out' \o fifo' /\ (out' # << >> => Full')
    OBVIOUS
  <2>1. CASE state = "IDLE"
    <3>1. In(ready) /\ ~Out(ready) /\ crc = << >> /\ fifo = << >> /\ out = << >>
      BY <1>2, <1>5, <1>6, <1>7, <2>1
    <3>2. crc' = Append(<< >>, buf[1].byte) /\ fifo' = Append(<< >>, buf[1].byte) /\ out' = << >>
      BY <2>1, <3>1, CoverCases
    <3>3. fifo' \in Seq(Bytes)
      BY <1>4, <3>1, <3>2
    <3>4. QED
      BY <3>2, <3>3, ConcatEmptySeq
  <2>2. CASE state = "COPY" /\ ~In(ready)
    <3>1. ~Out(ready)
      BY <1>4, <2>2
    <3>2. crc' = crc /\ fifo' = fifo /\ out' = out
      BY <2>2, <3>1, CoverCases
    <3>3. QED
      BY <1>2, <2>2, <3>2 DEF Full
  <2>3. CASE state = "COPY" /\ In(ready) /\ ~Out(ready)
    <3>1. out = << >> /\ crc = fifo
      <4>1. out = << >> /\ crc = out \o fifo
        BY <1>2, <1>4, <2>3
      <4>2. QED
        BY <1>5, <4>1, ConcatEmptySeq
    <3>2. crc' = Append(crc, buf[1].byte) /\ fifo' = Append(fifo, buf[1].byte) /\ out' = out
      BY <2>3, CoverCases
    <3>3. fifo' \in Seq(Bytes)
      BY <1>4, <1>5, <2>3, <3>2
    <3>4. QED
      BY <3>1, <3>2, <3>3, ConcatEmptySeq
  <2>4. CASE state = "COPY" /\ Out(ready)
    <3>1. ~buf[1].last
      BY <1>4, <1>6, <2>4
    <3>2. /\ crc' = Append(crc, buf[1].byte) /\ fifo' = Append(Tail(fifo), buf[1].byte)
          /\ out' = Append(out, Head(fifo))
      BY <2>4, <3>1, CoverCases
    <3>3. fifo # << >> /\ buf[1].byte \in Bytes /\ crc = out \o fifo /\ Full
      BY <1>2, <1>4, <2>4
    <3>4. crc' = out' \o fifo'
      <4>1. out \in Seq(Bytes) /\ fifo \in Seq(Bytes) /\ fifo # << >> /\ buf[1].byte \in Bytes
        BY <1>5, <3>3
      <4>2. Append(out \o fifo, buf[1].byte) = Append(out, Head(fifo)) \o Append(Tail(fifo), buf[1].byte)
        <5>1. PICK b \in Bytes : b = buf[1].byte
          BY <4>1
        <5>2. QED
          BY <4>1, <5>1, Shift
      <4>3. QED
        BY <3>2, <3>3, <4>2
    <3>5. Full'
      <4>1. Len(Tail(fifo)) = Len(fifo) - 1 /\ Tail(fifo) \in Seq(Bytes) /\ Len(fifo) \in Nat \ {0}
        BY <1>5, <3>3, EmptySeq, HeadTailProperties, LenProperties
      <4>2. Len(fifo') = Len(fifo)
        BY <3>2, <3>3, <4>1, AppendProperties
      <4>3. QED
        BY <3>3, <4>2 DEF Full
    <3>6. QED
      BY <3>4, <3>5
  <2>5. QED
    BY <1>5, <1>6, <2>1, <2>2, <2>3, <2>4
<1>11. ASSUME NEW i \in DOMAIN delivered', ~delivered'[i].error
       PROVE  delivered'[i].bytes \in {Padded(f) : f \in Frames}
  <2>1. delivered' # << >>
    BY <1>11
  <2>2. /\ Out(ready) /\ buf[1].last
        /\ delivered' = << [bytes |-> Append(out, Head(fifo)), error |-> CrcError] >>
    BY <2>1, CoverCases
  <2>3. i = 1 /\ ~CrcError /\ delivered'[i].bytes = Append(out, Head(fifo))
    BY <1>11, <2>2
  <2>4. crc = out \o fifo
    BY <1>2, <1>7, <2>2
  <2>5. QED
    BY <2>2, <2>3, <2>4, DeliveredWasSent
<1>12. QED
  BY <1>1, <1>3, <1>8, <1>9, <1>10, <1>11

LEMMA CoverKept ==
    ASSUME NEW Bytes, Carried(Bytes), Honest(Bytes), RegisterInv(Bytes), CoverInv, [Next]_vars
    PROVE  CoverInv'
<1>1. CASE Next
  <2>1. PICK p \in Given(Bytes) : Receive(p)
    BY <1>1, CycleOf
  <2>2. PICK ready \in BOOLEAN : Stages(p, ready)
    BY <2>1 DEF Receive
  <2>3. CASE ~overlapped'
    <3>1. /\ IsLast(buf') => preamble' = "PREAMBLE"
          /\ state' = "RESET" => buf' = << >>
          /\ state' # "COPY" => out' = << >>
          /\ state' = "COPY" => crc' = out' \o fifo' /\ (out' # << >> => Full')
          /\ \A i \in DOMAIN delivered' :
               ~delivered'[i].error => delivered'[i].bytes \in {Padded(f) : f \in Frames}
      BY <2>2, <2>3, CoverStep
    <3>2. QED
      BY <3>1 DEF CoverInv, CleanFramesWereSent
  <2>4. CASE overlapped'
    BY <2>4 DEF CoverInv
  <2>5. QED
    BY <2>3, <2>4
<1>2. CASE UNCHANGED vars
  BY <1>2 DEF vars, wireVars, CoverInv, CleanFramesWereSent, Full
<1>3. QED
  BY <1>1, <1>2

\* A frame handed on without error is one that was sent, whole and padded: what has
\* been handed on and what the FIFO holds are together what reg covers, so a residue
\* that is right finds a CRC in the FIFO and the byte on the sink, and a CRC there was
\* is a sent frame's.
THEOREM CleanFrameWasSent ==
    ASSUME NEW Bytes, Carried(Bytes), Honest(Bytes) PROVE Spec => []CleanFramesWereSent
<1> DEFINE IInv == RegisterInv(Bytes) /\ CoverInv
<1>1. Init => IInv
  <2> SUFFICES ASSUME Init PROVE IInv
    OBVIOUS
  <2>1. RegisterInv(Bytes)
    BY RegistersStart
  <2>2. CoverInv
    BY DEF Init, CoverInv, CleanFramesWereSent, IsLast
  <2>3. QED
    BY <2>1, <2>2
<1>2. IInv /\ [Next]_vars => IInv'
  <2> SUFFICES ASSUME RegisterInv(Bytes), CoverInv, [Next]_vars PROVE IInv'
    OBVIOUS
  <2>1. RegisterInv(Bytes)'
    BY RegistersStep
  <2>2. CoverInv'
    BY CoverKept
  <2>3. QED
    BY <2>1, <2>2
<1>3. IInv => CleanFramesWereSent
  BY DEF CoverInv, CleanFramesWereSent
<1>4. QED
  BY <1>1, <1>2, <1>3, PTL DEF Spec

-----------------------------------------------------------------------------
(* What is made of a burst. *)

\* No burst leaves a single byte behind its delimiter.  The checker never comes out of
\* COPY for one (GoodWhenCrcOk is violated).
NoRunt == \A b \in Bursts : Starts(b) # {} => Len(Rest(b)) # 1

\* Where the burst is.
LEMMA Places ==
    ASSUME NEW Bytes, Carried(Bytes), RegisterInv(Bytes)
    PROVE  /\ burst \in Seq(Bytes) /\ Len(burst) \in Nat /\ pos \in 0 .. Len(burst)
           /\ Starts(burst) \subseteq 1 .. Len(burst) - 1
           /\ burst # << >> => burst \in Bursts
           /\ Starts(burst) # {} => burst # << >>
<1>1. burst \in Seq(Bytes)
  <2>1. CASE burst \in Bursts
    BY <2>1 DEF Carried
  <2>2. CASE burst = << >>
    BY <2>2, EmptySeq
  <2>3. QED
    BY <2>1, <2>2 DEF RegisterInv
<1>2. Len(burst) \in Nat /\ pos \in 0 .. Len(burst)
  BY <1>1, LenProperties DEF RegisterInv
<1>3. Starts(burst) \subseteq 1 .. Len(burst) - 1
  BY DEF Starts
<1>4. Starts(burst) # {} => burst # << >>
  <2> SUFFICES ASSUME Starts(burst) # {}, burst = << >> PROVE FALSE
    OBVIOUS
  <2>1. Len(burst) = 0
    OBVIOUS
  <2>2. QED
    BY <1>3, <2>1
<1>5. QED
  BY <1>1, <1>2, <1>3, <1>4 DEF RegisterInv

\* The first start-of-frame delimiter is the only first one.
LEMMA FirstIs ==
    ASSUME NEW Bytes, Carried(Bytes), RegisterInv(Bytes), NEW f \in Starts(burst), FirstStart(f)
    PROVE  /\ First(burst) = f /\ f \in 1 .. Len(burst) - 1
           /\ Rest(burst) = SubSeq(burst, f + 1, Len(burst))
           /\ Len(Rest(burst)) = Len(burst) - f
<1>1. /\ Starts(burst) \subseteq 1 .. Len(burst) - 1 /\ Len(burst) \in Nat
      /\ burst \in Seq(Bytes)
  BY Places
<1>2. \A j \in Starts(burst) : f <= j
  BY DEF FirstStart
<1>3. \A g \in Starts(burst) : (\A j \in Starts(burst) : g <= j) => g = f
  <2> TAKE g \in Starts(burst)
  <2> HAVE \A j \in Starts(burst) : g <= j
  <2>1. g <= f /\ f <= g /\ g \in 1 .. Len(burst) - 1 /\ f \in 1 .. Len(burst) - 1
    BY <1>1, <1>2
  <2>2. QED
    BY <1>1, <2>1
<1>4. First(burst) = f
  BY <1>2, <1>3 DEF First
<1>5. Rest(burst) = SubSeq(burst, f + 1, Len(burst))
  BY <1>4 DEF Rest
<1>6. Len(SubSeq(burst, f + 1, Len(burst))) = Len(burst) - f
  BY <1>1
<1>7. QED
  BY <1>1, <1>4, <1>5, <1>6

\* One byte more of the burst.
LEMMA OneMore ==
    ASSUME NEW Bytes, Carried(Bytes), RegisterInv(Bytes), NEW f \in Nat, NEW k \in Nat,
           f < k, k <= Len(burst)
    PROVE  Append(SubSeq(burst, f + 1, k - 1), burst[k]) = SubSeq(burst, f + 1, k)
<1>1. burst \in Seq(Bytes) /\ Len(burst) \in Nat
  BY Places
<1> DEFINE a == SubSeq(burst, f + 1, k - 1)
           c == SubSeq(burst, f + 1, k)
<1>2. a \in Seq(Bytes) /\ c \in Seq(Bytes) /\ Len(a) = k - 1 - f /\ Len(c) = k - f
  BY <1>1
<1>3. burst[k] \in Bytes
  BY <1>1, ElementOfSeq
<1>4. Append(a, burst[k]) \in Seq(Bytes) /\ Len(Append(a, burst[k])) = k - f
  BY <1>2, <1>3
<1>5. ASSUME NEW i \in 1 .. k - f PROVE Append(a, burst[k])[i] = c[i]
  <2>1. CASE i = k - f
    BY <1>1, <1>2, <1>3, <2>1
  <2>2. CASE i # k - f
    <3>1. i \in 1 .. k - 1 - f
      BY <1>5, <2>2
    <3>2. QED
      BY <1>1, <1>2, <1>3, <3>1
  <2>3. QED
    BY <2>1, <2>2
<1>6. QED
  BY <1>2, <1>4, <1>5, SeqEqual

\* With an empty buffer nothing moves behind the preamble checker.
LEMMA NothingIn ==
    ASSUME NEW Bytes, RegisterInv(Bytes), NEW p \in Given(Bytes), NEW ready \in BOOLEAN,
           Stages(p, ready), buf = << >>
    PROVE  /\ out' = out /\ (state # "RESET" => state' = state)
           /\ state # "RESET" => crc' = crc /\ fifo' = fifo
           /\ state = "RESET" => state' = "IDLE" /\ crc' = << >>
           /\ buf' = IF preamble = "COPY" THEN p ELSE << >>
           /\ verdict' = IF preamble = "PREAMBLE" /\ IsLast(p) THEN "preamble error"
                         ELSE IF p # << >> /\ pos = Len(burst) THEN "none" ELSE verdict
<1>1. ~In(ready) /\ ~Out(ready) /\ BufReady(ready)
  BY DEF In, Out, Valid, BufReady
<1>2. out' = out /\ (state # "RESET" => crc' = crc /\ fifo' = fifo)
  BY <1>1, CoverCases
<1>3. state = "RESET" => state' = "IDLE" /\ crc' = << >>
  BY DEF Stages, CrcFsm, CrcRegister
<1>4. state # "RESET" => state' = state
  BY <1>1 DEF Stages, CrcFsm, RegisterInv
<1>5. buf' = IF preamble = "COPY" THEN p ELSE << >>
  BY <1>1 DEF Stages, Buffer
<1>6. verdict' = IF preamble = "PREAMBLE" /\ IsLast(p) THEN "preamble error"
                 ELSE IF p # << >> /\ pos = Len(burst) THEN "none" ELSE verdict
  BY <1>1 DEF Stages, Deliver
<1>7. QED
  BY <1>2, <1>3, <1>4, <1>5, <1>6

\* No delimiter yet, and nothing in the buffer or the register.
Searching ==
    /\ preamble = "PREAMBLE" /\ buf = << >> /\ out = << >> /\ state \in {"RESET", "IDLE"}
    /\ pos = Len(burst) \/ verdict = "none"

\* p is the byte of the burst the PHY comes to, and there was no delimiter before it.
Reaches(p) ==
    /\ p # << >> /\ p[1].byte = burst'[pos'] /\ (p[1].last <=> pos' = Len(burst'))
    /\ burst' # << >> /\ pos' \in 1 .. Len(burst') /\ \A i \in Starts(burst') : pos' <= i

\* A byte of a burst that has not had its delimiter yet: it is it, or not.
LEMMA LookForStart ==
    ASSUME NEW Bytes, RegisterInv(Bytes), RegisterInv(Bytes)', Carried(Bytes), Searching,
           NEW p \in Given(Bytes), NEW ready \in BOOLEAN, Stages(p, ready), Reaches(p)
    PROVE  /\ ~(preamble' = "COPY" /\ IsLast(buf'))
           /\ (Before \/ \E f \in Starts(burst) : Inside(f))'
<1>0. /\ buf = << >> /\ out = << >> /\ state \in {"RESET", "IDLE"} /\ preamble = "PREAMBLE"
      /\ pos = Len(burst) \/ verdict = "none"
  BY DEF Searching
<1>1. /\ out' = << >> /\ state' = "IDLE" /\ crc' = << >> /\ buf' = << >>
      /\ verdict' = IF IsLast(p) THEN "preamble error"
                    ELSE IF p # << >> /\ pos = Len(burst) THEN "none" ELSE verdict
  <2>1. state = "IDLE" => crc = << >>
    BY <1>0 DEF RegisterInv
  <2>2. /\ out' = out /\ (state # "RESET" => state' = state)
        /\ state # "RESET" => crc' = crc /\ fifo' = fifo
        /\ state = "RESET" => state' = "IDLE" /\ crc' = << >>
        /\ buf' = IF preamble = "COPY" THEN p ELSE << >>
        /\ verdict' = IF preamble = "PREAMBLE" /\ IsLast(p) THEN "preamble error"
                      ELSE IF p # << >> /\ pos = Len(burst) THEN "none" ELSE verdict
    BY <1>0, NothingIn
  <2>3. QED
    BY <1>0, <2>1, <2>2
<1>2. preamble' = IF StartSeen(p) THEN "COPY" ELSE "PREAMBLE"
  BY <1>0 DEF Stages, PreambleFsm
<1>4. verdict' = IF pos' = Len(burst') THEN "preamble error" ELSE "none"
  <2>1. p # << >> /\ (IsLast(p) <=> pos' = Len(burst'))
    BY DEF IsLast, Reaches
  <2>2. QED
    BY <1>0, <1>1, <2>1
<1>5. /\ Len(burst') \in Nat /\ pos' \in 1 .. Len(burst') /\ burst' # << >>
      /\ \A i \in Starts(burst') : pos' <= i
  <2>1. burst' \in Bursts \cup {<< >>}
    BY DEF RegisterInv
  <2>2. burst' \in Seq(Bytes)
    BY <2>1, EmptySeq DEF Carried
  <2>3. QED
    BY <2>2, LenProperties DEF Reaches
<1>6. StartSeen(p) <=> pos' \in Starts(burst')
  BY <1>5 DEF StartSeen, Starts, Reaches
<1>7. CASE StartSeen(p)
  <2>1. PICK f \in Starts(burst') : f = pos'
    BY <1>6, <1>7
  <2>2. f \in Nat /\ f < Len(burst')
    BY <1>5, <2>1 DEF Starts
  <2>3. SubSeq(burst', f + 1, f) = << >>
    BY <2>2
  <2>4. FirstStart(f)'
    BY <1>5, <2>1 DEF FirstStart
  <2>5. Len(buf') = 0
    BY <1>1
  <2>a. f = pos'
    BY <2>1
  <2>b. pos' < Len(burst') /\ f <= pos' /\ pos' # Len(burst')
    BY <1>5, <2>2, <2>a
  <2>c. pos' - Len(buf') = f
    <3>1. f - Len(buf') = f - 0 /\ f - 0 = f
      BY <2>2, <2>5
    <3>2. QED
      BY <2>a, <3>1
  <2>6. pos' - Len(buf') = f /\ pos' < Len(burst') /\ f <= pos' /\ pos' # Len(burst')
    BY <2>b, <2>c
  <2>7. preamble' = "COPY" /\ verdict' = "none"
    BY <1>2, <1>4, <1>7, <2>6
  <2>8. crc' = SubSeq(burst', f + 1, pos' - Len(buf'))
    BY <1>1, <2>3, <2>6
  <2>9. Inside(f)'
    BY <1>1, <1>5, <2>1, <2>4, <2>6, <2>7, <2>8 DEF Inside
  <2>10. QED
    BY <1>1, <2>9 DEF IsLast
<1>8. CASE ~StartSeen(p)
  <2>1. \A i \in Starts(burst') : pos' < i
    <3> TAKE i \in Starts(burst')
    <3>1. i # pos' /\ pos' <= i /\ i \in 1 .. Len(burst') - 1
      BY <1>5, <1>6, <1>8 DEF Starts
    <3>2. QED
      BY <1>5, <3>1
  <2>2. preamble' = "PREAMBLE"
    BY <1>2, <1>8
  <2>3. Before'
    BY <1>1, <1>4, <2>1, <2>2 DEF Before
  <2>4. QED
    BY <2>2, <2>3
<1>9. QED
  BY <1>7, <1>8

\* A byte in the buffer is taken by a CRC checker that is never held up.
LEMMA ByteTaken ==
    ASSUME NEW Bytes, Carried(Bytes), RegisterInv(Bytes), NEW f \in Starts(burst), Inside(f),
           NEW p \in Given(Bytes), NEW ready \in BOOLEAN, ready = TRUE, Stages(p, ready),
           buf # << >>
    PROVE  /\ f < pos /\ In(ready) /\ (Out(ready) <=> Full) /\ pos - Len(buf) = pos - 1
           /\ (buf[1].last <=> pos = Len(burst))
           /\ Append(crc, buf[1].byte) = SubSeq(burst, f + 1, pos)
           /\ crc' = SubSeq(burst, f + 1, pos)
           /\ state' = IF pos = Len(burst) /\ state = "COPY" THEN "RESET" ELSE "COPY"
           /\ buf' = IF pos < Len(burst) THEN p ELSE << >>
<1>1. buf = << Token(burst[pos], pos = Len(burst)) >> /\ pos # f /\ f <= pos
  BY DEF Inside
<1>2. buf[1].byte = burst[pos] /\ (buf[1].last <=> pos = Len(burst)) /\ Len(buf) = 1
  BY <1>1 DEF Token
<1>3. In(ready) /\ (Out(ready) <=> Full) /\ BufReady(ready)
  BY DEF In, Out, Valid, BufReady
<1>4. /\ f \in 1 .. Len(burst) - 1 /\ pos \in 0 .. Len(burst) /\ Len(burst) \in Nat /\ f < pos
  BY <1>1, Places
<1>5. pos - Len(buf) = pos - 1
  BY <1>2
<1>6. /\ crc = SubSeq(burst, f + 1, pos - 1) /\ state \in {"IDLE", "COPY"}
      /\ preamble = IF pos < Len(burst) THEN "COPY" ELSE "PREAMBLE"
  BY <1>5 DEF Inside
<1>7. Append(crc, buf[1].byte) = SubSeq(burst, f + 1, pos)
  <2>1. PICK k \in Nat : k = pos
    BY <1>4
  <2>2. Append(SubSeq(burst, f + 1, k - 1), burst[k]) = SubSeq(burst, f + 1, k)
    BY <1>4, <2>1, OneMore
  <2>3. QED
    BY <1>2, <1>6, <2>1, <2>2
<1>8. crc' = Append(crc, buf[1].byte)
  BY <1>3, <1>6 DEF Stages, CrcRegister
<1>9. state' = IF pos = Len(burst) /\ state = "COPY" THEN "RESET" ELSE "COPY"
  BY <1>2, <1>3, <1>6 DEF Stages, CrcFsm
<1>10. buf' = IF pos < Len(burst) THEN p ELSE << >>
  BY <1>3, <1>6 DEF Stages, Buffer
<1>11. QED
  BY <1>2, <1>3, <1>4, <1>5, <1>7, <1>8, <1>9, <1>10

\* Inside the frame, before its last byte.
LEMMA FrameGoesOn ==
    ASSUME NEW Bytes, Carried(Bytes), RegisterInv(Bytes), NEW f \in Starts(burst), Inside(f),
           NEW p \in Given(Bytes), NEW ready \in BOOLEAN, ready = TRUE, Stages(p, ready),
           pos < Len(burst)
    PROVE  /\ state' = IF pos = f THEN "IDLE" ELSE "COPY"
           /\ crc' = SubSeq(burst, f + 1, pos) /\ buf' = p /\ verdict' = "none"
           /\ preamble' = IF IsLast(p) THEN "PREAMBLE" ELSE "COPY"
<1>1. preamble = "COPY" /\ verdict = "none" /\ pos # Len(burst)
  BY DEF Inside
<1>2. f \in 1 .. Len(burst) - 1 /\ pos \in 0 .. Len(burst) /\ Len(burst) \in Nat
  BY Places
<1>3. CASE buf = << >>
  <2>1. pos - 0 = pos /\ Len(buf) = 0
    BY <1>2, <1>3
  <2>2. pos - Len(buf) = pos
    BY <2>1
  <2>3. state = (IF pos = f THEN "IDLE" ELSE "COPY") /\ crc = SubSeq(burst, f + 1, pos)
    BY <2>2 DEF Inside
  <2>4. state' = state /\ crc' = crc /\ buf' = p /\ verdict' = "none"
    BY <1>1, <1>3, <2>3, NothingIn
  <2>5. BufReady(ready)
    BY <1>3 DEF BufReady
  <2>6. preamble' = IF IsLast(p) THEN "PREAMBLE" ELSE "COPY"
    BY <1>1, <2>5 DEF Stages, PreambleFsm
  <2>7. QED
    BY <2>3, <2>4, <2>6
<1>4. CASE buf # << >>
  <2>1. /\ f < pos /\ In(ready) /\ ~buf[1].last
        /\ crc' = SubSeq(burst, f + 1, pos) /\ state' = "COPY" /\ buf' = p
    BY <1>1, <1>4, ByteTaken
  <2>2. pos # f
    BY <1>2, <2>1
  <2>3. verdict' = "none"
    BY <1>1, <2>1 DEF Stages, Deliver
  <2>4. preamble' = IF IsLast(p) THEN "PREAMBLE" ELSE "COPY"
    BY <1>1, <2>1 DEF Stages, PreambleFsm, BufReady
  <2>5. QED
    BY <2>1, <2>2, <2>3, <2>4
<1>5. QED
  BY <1>3, <1>4

\* The last byte of a frame that is no runt: the judgement.
LEMMA FrameEnds ==
    ASSUME NEW Bytes, Carried(Bytes), RegisterInv(Bytes), CoverInv, ~overlapped, NoRunt,
           NEW f \in Starts(burst), Inside(f),
           NEW p \in Given(Bytes), p = << >>, NEW ready \in BOOLEAN, ready = TRUE, Stages(p, ready),
           pos = Len(burst)
    PROVE  /\ state' = "RESET" /\ out' = << >> /\ buf' = << >> /\ preamble' = "PREAMBLE"
           /\ verdict' = Judgement(burst)
<1>1. preamble = "PREAMBLE" /\ verdict = "none" /\ buf # << >> /\ FirstStart(f)
  BY Places DEF Inside
<1>2. /\ Rest(burst) = SubSeq(burst, f + 1, Len(burst)) /\ Len(Rest(burst)) = Len(burst) - f
      /\ f \in 1 .. Len(burst) - 1 /\ Len(burst) \in Nat
  BY <1>1, FirstIs, Places
<1>3. Len(burst) - f # 1
  <2>1. burst \in Bursts /\ Starts(burst) # {}
    BY Places
  <2>2. QED
    BY <1>2, <2>1 DEF NoRunt
<1>4. /\ In(ready) /\ (Out(ready) <=> Full) /\ buf[1].last /\ pos - Len(buf) = Len(burst) - 1
      /\ Append(crc, buf[1].byte) = Rest(burst)
      /\ state' = (IF state = "COPY" THEN "RESET" ELSE "COPY") /\ buf' = << >>
  BY <1>1, <1>2, ByteTaken
<1>5. state = "COPY" /\ crc = SubSeq(burst, f + 1, Len(burst) - 1)
  <2>1. Len(burst) - 1 # f
    BY <1>2, <1>3
  <2>2. QED
    BY <1>4, <2>1 DEF Inside
<1>6. crc = out \o fifo /\ (out # << >> => Full)
  BY <1>5 DEF CoverInv
<1>7. Len(crc) = Len(burst) - 1 - f
  <2>1. burst \in Seq(Bytes)
    BY Places
  <2>2. QED
    BY <1>2, <1>5, <2>1
<1>8. /\ out \in Seq(Bytes) /\ fifo \in Seq(Bytes) /\ Len(out) \in Nat /\ Len(fifo) \in Nat
      /\ CrcLength \in Nat \ {0} /\ Len(fifo) <= CrcLength
  BY CrcLengthFacts, LenProperties DEF RegisterInv
<1>9. Len(crc) = Len(out) + Len(fifo)
  BY <1>6, <1>8, ConcatProperties
<1>10. preamble' = "PREAMBLE"
  BY <1>1 DEF Stages, PreambleFsm, StartSeen
<1>11. ~IsLast(p)
  BY DEF IsLast
<1>12. CASE Full
  <2>1. ~(Len(Rest(burst)) <= CrcLength)
    BY <1>2, <1>7, <1>8, <1>9, <1>12 DEF Full
  <2>2. Judgement(burst) = IF WithCrc(Rest(burst)) THEN "good" ELSE "crc error"
    BY <2>1 DEF Judgement
  <2>3. verdict' = IF CrcError THEN "crc error" ELSE "good"
    BY <1>4, <1>12 DEF Stages, Deliver
  <2>4. CrcError <=> ~WithCrc(Rest(burst))
    BY <1>4 DEF CrcError
  <2>5. out' = << >>
    BY <1>4, <1>12 DEF Stages, Deliver
  <2>6. QED
    BY <1>4, <1>5, <1>10, <2>2, <2>3, <2>4, <2>5
<1>13. CASE ~Full
  <2>1. out = << >> /\ ~Out(ready)
    BY <1>4, <1>6, <1>13
  <2>2. Len(fifo) < CrcLength /\ Len(out) = 0
    BY <1>8, <1>13, <2>1 DEF Full
  <2>3. Len(Rest(burst)) <= CrcLength
    BY <1>2, <1>7, <1>8, <1>9, <2>2
  <2>4. Judgement(burst) = "none"
    BY <2>3 DEF Judgement
  <2>5. verdict' = "none" /\ out' = << >>
    BY <1>1, <1>11, <2>1 DEF Stages, Deliver
  <2>6. QED
    BY <1>4, <1>5, <1>10, <2>4, <2>5
<1>14. QED
  BY <1>12, <1>13

\* A cycle without stall is a cycle of the stages in which all are ready.
LEMMA NoStall ==
    ASSUME NEW Bytes, RegisterInv(Bytes), PipeInv, NEW p, Receive(p), stalls' = 0
    PROVE  /\ \E ready \in BOOLEAN : ready = TRUE /\ Stages(p, ready)
           /\ ~overlapped /\ (Before \/ \E f \in Starts(burst) : Inside(f) \/ Behind(f))
           /\ ~(preamble' = "COPY" /\ IsLast(buf')) => ~overlapped'
<1>1. PICK ready \in BOOLEAN :
        /\ stalls' = IF ready THEN stalls ELSE stalls + 1
        /\ Stages(p, ready)
  BY DEF Receive
<1>2. stalls \in Nat
  BY MacRxAssumption DEF RegisterInv
<1>3. stalls + 1 # 0
  BY <1>2
<1>4. ready = TRUE /\ stalls = 0
  BY <1>1, <1>3
<1>5. overlapped' = (overlapped \/ (preamble' = "COPY" /\ IsLast(buf')))
  BY <1>1 DEF Stages
<1>6. ~overlapped
  BY <1>4 DEF PipeInv
<1>7. QED
  BY <1>1, <1>4, <1>5, <1>6 DEF PipeInv

\* The PHY gives a byte.
LEMMA ByteStep ==
    ASSUME NEW Bytes, Carried(Bytes), RegisterInv(Bytes), RegisterInv(Bytes)', PipeInv,
           NewBurst \/ NextByte, stalls' = 0
    PROVE  ~overlapped' /\ (Before \/ \E f \in Starts(burst) : Inside(f) \/ Behind(f))'
<1>1. PICK p \in Given(Bytes) :
        /\ Receive(p) /\ p = << Token(burst'[pos'], pos' = Len(burst')) >>
        /\ pos' \in 1 .. Len(burst') /\ silent' = FALSE
        /\ \/ pos = Len(burst) /\ silent /\ pos' = 1
           \/ pos < Len(burst) /\ pos' = pos + 1 /\ burst' = burst
  <2>1. CASE NewBurst
    <3>1. PICK b \in Bursts : burst' = b /\ Receive(<< Token(b[1], Len(b) = 1) >>)
      BY <2>1 DEF NewBurst
    <3>2. b \in Seq(Bytes) /\ Len(b) \in Nat \ {0} /\ pos' = 1
      BY <2>1, EmptySeq, MacRxAssumption DEF Carried, NewBurst
    <3>3. b[1] \in Bytes /\ pos' \in 1 .. Len(burst')
      BY <3>1, <3>2, ElementOfSeq
    <3>4. (Len(b) = 1) \in BOOLEAN
      OBVIOUS
    <3>5. << Token(b[1], Len(b) = 1) >> \in Given(Bytes)
      BY <3>3, <3>4, GivenByte
    <3>6. pos = Len(burst) /\ silent /\ silent' = FALSE
      BY <2>1 DEF NewBurst
    <3>7. << Token(b[1], Len(b) = 1) >> = << Token(burst'[pos'], pos' = Len(burst')) >>
      <4>1. (Len(b) = 1) = (pos' = Len(burst'))
        BY <3>1, <3>2
      <4>2. QED
        BY <3>1, <3>2, <4>1
    <3>8. QED
      BY <3>1, <3>2, <3>3, <3>5, <3>6, <3>7
  <2>2. CASE NextByte
    <3>1. /\ pos < Len(burst) /\ pos' = pos + 1 /\ silent' = FALSE /\ burst' = burst
          /\ Receive(<< Token(burst[pos + 1], pos + 1 = Len(burst)) >>)
      BY <2>2 DEF NextByte
    <3>2. burst \in Seq(Bytes) /\ Len(burst) \in Nat /\ pos \in 0 .. Len(burst)
      BY Places
    <3>3. pos + 1 \in 1 .. Len(burst) /\ burst[pos + 1] \in Bytes
      BY <3>1, <3>2, ElementOfSeq
    <3>4. (pos + 1 = Len(burst)) \in BOOLEAN
      OBVIOUS
    <3>5. << Token(burst[pos + 1], pos + 1 = Len(burst)) >> \in Given(Bytes)
      BY <3>3, <3>4, GivenByte
    <3>6. QED
      BY <3>1, <3>3, <3>5
  <2>3. QED
    BY <2>1, <2>2
<1>2. PICK ready \in BOOLEAN : ready = TRUE /\ Stages(p, ready)
  BY <1>1, NoStall
<1>3. /\ Before \/ \E f \in Starts(burst) : Inside(f) \/ Behind(f)
      /\ ~(preamble' = "COPY" /\ IsLast(buf')) => ~overlapped'
  BY <1>1, NoStall
<1>4. Len(burst) \in Nat /\ pos \in 0 .. Len(burst)
  BY Places
<1>5. p # << >> /\ p[1].byte = burst'[pos'] /\ (p[1].last <=> pos' = Len(burst'))
  BY <1>1 DEF Token
<1>6. burst' # << >>
  <2>1. burst' = << >> => Len(burst') = 0
    OBVIOUS
  <2>2. QED
    BY <1>1, <2>1
<1>7. ASSUME Searching, \A i \in Starts(burst') : pos' <= i
      PROVE  ~overlapped' /\ (Before \/ \E f \in Starts(burst) : Inside(f) \/ Behind(f))'
  <2>1. Reaches(p)
    BY <1>1, <1>5, <1>6, <1>7 DEF Reaches
  <2>2. /\ ~(preamble' = "COPY" /\ IsLast(buf'))
        /\ (Before \/ \E f \in Starts(burst) : Inside(f))'
    BY <1>2, <1>7, <2>1, LookForStart
  <2>3. QED
    BY <1>3, <2>2
<1>8. CASE pos = Len(burst) /\ silent /\ pos' = 1
  <2>1. Searching
    <3>1. CASE Before
      BY <1>8, <3>1 DEF Before, Searching
    <3>2. CASE \E f \in Starts(burst) : Inside(f) \/ Behind(f)
      <4>1. PICK f \in Starts(burst) : Inside(f) \/ Behind(f)
        BY <3>2
      <4>2. ~Inside(f)
        BY <1>4, <1>8 DEF Inside
      <4>3. QED
        BY <1>8, <4>1, <4>2 DEF Behind, Searching
    <3>3. QED
      BY <1>3, <3>1, <3>2
  <2>2. \A i \in Starts(burst') : pos' <= i
    <3>1. \A i \in Starts(burst') : i \in 1 .. Len(burst') - 1
      BY DEF Starts
    <3>2. QED
      BY <1>8, <3>1
  <2>3. QED
    BY <1>7, <2>1, <2>2
<1>9. CASE pos < Len(burst) /\ pos' = pos + 1 /\ burst' = burst
  <2>1. CASE Before
    <3>1. Searching
      <4>1. pos # Len(burst) /\ burst # << >>
        BY <1>4, <1>6, <1>9
      <4>2. QED
        BY <2>1, <4>1 DEF Before, Searching
    <3>2. \A i \in Starts(burst) : pos < i /\ i \in 1 .. Len(burst) - 1
      BY <2>1 DEF Before, Starts
    <3>3. \A i \in Starts(burst') : pos' <= i
      BY <1>4, <1>9, <3>2
    <3>4. QED
      BY <1>7, <3>1, <3>3
  <2>2. ASSUME NEW f \in Starts(burst), Inside(f)
        PROVE  ~overlapped' /\ Inside(f)'
    <3>1. /\ state' = IF pos = f THEN "IDLE" ELSE "COPY"
          /\ crc' = SubSeq(burst, f + 1, pos) /\ buf' = p /\ verdict' = "none"
          /\ preamble' = IF IsLast(p) THEN "PREAMBLE" ELSE "COPY"
      BY <1>2, <1>9, <2>2, FrameGoesOn
    <3>2. f \in 1 .. Len(burst) - 1 /\ f <= pos /\ FirstStart(f)
      BY <2>2, Places DEF Inside
    <3>3. FirstStart(f)'
      BY <1>9, <3>2 DEF FirstStart
    <3>4. f <= pos' /\ pos' # f /\ (pos' < Len(burst') <=> ~(pos' = Len(burst')))
      BY <1>1, <1>4, <1>9, <3>2
    <3>5. buf' = << Token(burst'[pos'], pos' = Len(burst')) >> /\ buf' # << >> /\ Len(buf') = 1
      BY <1>1, <3>1
    <3>6. pos' - Len(buf') = pos
      <4>1. Len(buf') = 1
        BY <3>5
      <4>2. pos + 1 - Len(buf') = pos
        BY <1>4, <4>1
      <4>3. pos' \in Nat /\ pos' = pos + 1
        BY <1>4, <1>9
      <4>4. QED
        BY <1>4, <4>1, <4>3
    <3>7. preamble' = IF pos' < Len(burst') THEN "COPY" ELSE "PREAMBLE"
      BY <1>5, <3>1, <3>4 DEF IsLast
    <3>8. Inside(f)'
      <4>1. /\ state' = IF pos' - Len(buf') = f THEN "IDLE" ELSE "COPY"
            /\ crc' = SubSeq(burst', f + 1, pos' - Len(buf'))
        BY <1>9, <3>1, <3>6
      <4>2. buf' = IF silent' \/ pos' = f THEN << >>
                   ELSE << Token(burst'[pos'], pos' = Len(burst')) >>
        BY <1>1, <3>4, <3>5
      <4>3. QED
        BY <3>1, <3>3, <3>4, <3>5, <3>7, <4>1, <4>2 DEF Inside
    <3>9. ~(preamble' = "COPY" /\ IsLast(buf'))
      BY <3>1
    <3>10. QED
      BY <1>3, <3>8, <3>9
  <2>3. ASSUME NEW f \in Starts(burst), Behind(f) PROVE FALSE
    BY <1>4, <1>9, <2>3 DEF Behind
  <2>4. QED
    BY <1>3, <1>9, <2>1, <2>2, <2>3
<1>10. QED
  BY <1>1, <1>8, <1>9

\* The PHY gives none.
LEMMA SilentStep ==
    ASSUME NEW Bytes, Carried(Bytes), RegisterInv(Bytes), CoverInv, PipeInv, NoRunt,
           NoByte, stalls' = 0
    PROVE  ~overlapped' /\ (Before \/ \E f \in Starts(burst) : Inside(f) \/ Behind(f))'
<1>1. Receive(<< >>) /\ silent' = TRUE /\ burst' = burst /\ pos' = pos
  BY DEF NoByte
<1>2. PICK p \in Given(Bytes) : p = << >>
  BY DEF Given
<1>3. PICK ready \in BOOLEAN : ready = TRUE /\ Stages(p, ready)
  BY <1>1, <1>2, NoStall
<1>4. /\ ~overlapped
      /\ Before \/ \E f \in Starts(burst) : Inside(f) \/ Behind(f)
      /\ ~(preamble' = "COPY" /\ IsLast(buf')) => ~overlapped'
  BY <1>1, <1>2, NoStall
<1>5. ~IsLast(p) /\ ~StartSeen(p)
  BY <1>2 DEF IsLast, StartSeen
<1>6. Len(burst) \in Nat /\ pos \in 0 .. Len(burst)
  BY Places
<1>7. ASSUME buf = << >>, preamble = "PREAMBLE", state \in {"RESET", "IDLE"}
      PROVE  /\ out' = out /\ state' = "IDLE" /\ buf' = << >> /\ verdict' = verdict
             /\ preamble' = "PREAMBLE" /\ ~overlapped'
  <2>1. out' = out /\ state' = "IDLE" /\ buf' = << >> /\ verdict' = verdict
    BY <1>2, <1>3, <1>5, <1>7, NothingIn
  <2>2. preamble' = "PREAMBLE"
    BY <1>3, <1>5, <1>7 DEF Stages, PreambleFsm
  <2>3. QED
    BY <1>4, <2>1, <2>2
<1>8. CASE Before
  <2>1. buf = << >> /\ preamble = "PREAMBLE" /\ state \in {"RESET", "IDLE"} /\ out = << >>
    BY <1>8 DEF Before
  <2>2. /\ out' = << >> /\ state' = "IDLE" /\ buf' = << >> /\ verdict' = verdict
        /\ preamble' = "PREAMBLE" /\ ~overlapped'
    BY <1>7, <2>1
  <2>3. Before'
    BY <1>1, <1>8, <2>2 DEF Before
  <2>4. QED
    BY <2>2, <2>3
<1>9. ASSUME NEW f \in Starts(burst), Behind(f)
      PROVE  ~overlapped' /\ Behind(f)'
  <2>1. buf = << >> /\ preamble = "PREAMBLE" /\ state \in {"RESET", "IDLE"} /\ out = << >>
    BY <1>9 DEF Behind
  <2>2. /\ out' = << >> /\ state' = "IDLE" /\ buf' = << >> /\ verdict' = verdict
        /\ preamble' = "PREAMBLE" /\ ~overlapped'
    BY <1>7, <2>1
  <2>3. Behind(f)'
    BY <1>1, <1>9, <2>2 DEF Behind, FirstStart
  <2>4. QED
    BY <2>2, <2>3
<1>10. ASSUME NEW f \in Starts(burst), Inside(f), pos < Len(burst)
       PROVE  ~overlapped' /\ Inside(f)'
  <2>1. /\ state' = IF pos = f THEN "IDLE" ELSE "COPY"
        /\ crc' = SubSeq(burst, f + 1, pos) /\ buf' = p /\ verdict' = "none"
        /\ preamble' = IF IsLast(p) THEN "PREAMBLE" ELSE "COPY"
    BY <1>3, <1>10, FrameGoesOn
  <2>2. buf' = << >> /\ preamble' = "COPY"
    BY <1>2, <1>5, <2>1
  <2>3. f <= pos /\ FirstStart(f)'
    BY <1>1, <1>10 DEF Inside, FirstStart
  <2>4. pos' - Len(buf') = pos
    <3>1. pos - 0 = pos
      BY <1>6
    <3>2. Len(buf') = 0
      BY <2>2
    <3>3. QED
      BY <1>1, <3>1, <3>2
  <2>5. /\ state' = IF pos' - Len(buf') = f THEN "IDLE" ELSE "COPY"
        /\ crc' = SubSeq(burst', f + 1, pos' - Len(buf'))
    BY <1>1, <2>1, <2>4
  <2>6. Inside(f)'
    BY <1>1, <1>10, <2>1, <2>2, <2>3, <2>5 DEF Inside
  <2>7. QED
    BY <1>4, <2>2, <2>6 DEF IsLast
<1>11. ASSUME NEW f \in Starts(burst), Inside(f), pos = Len(burst)
       PROVE  ~overlapped' /\ Behind(f)'
  <2>1. /\ state' = "RESET" /\ out' = << >> /\ buf' = << >> /\ preamble' = "PREAMBLE"
        /\ verdict' = Judgement(burst)
    BY <1>2, <1>3, <1>4, <1>11, FrameEnds
  <2>2. FirstStart(f)'
    BY <1>1, <1>11 DEF Inside, FirstStart
  <2>3. Behind(f)'
    BY <1>1, <1>11, <2>1, <2>2 DEF Behind
  <2>4. QED
    BY <1>4, <2>1, <2>3
<1>12. ASSUME NEW f \in Starts(burst), Inside(f) PROVE pos < Len(burst) \/ pos = Len(burst)
  BY <1>6
<1>13. QED
  BY <1>1, <1>4, <1>8, <1>9, <1>10, <1>11, <1>12

\* Every burst is judged on its own where nothing stalls, whatever came before it:
\* the checker is back in IDLE, its register and FIFO empty, before the next byte
\* reaches it, and every byte behind the delimiter is covered once.
THEOREM BurstIsJudged ==
    ASSUME NEW Bytes, Carried(Bytes), Honest(Bytes), NoRunt PROVE Spec => []EveryBurstJudged
<1> DEFINE IInv == RegisterInv(Bytes) /\ CoverInv /\ PipeInv
<1>1. Init => IInv
  <2> SUFFICES ASSUME Init PROVE IInv
    OBVIOUS
  <2>1. RegisterInv(Bytes)
    BY RegistersStart
  <2>2. CoverInv
    BY DEF Init, CoverInv, CleanFramesWereSent, IsLast
  <2>3. Starts(burst) = {}
    <3>1. burst = << >> /\ burst \in Seq(Bytes)
      BY EmptySeq DEF Init
    <3>2. Len(burst) = 0
      BY <3>1
    <3>3. QED
      BY <3>2 DEF Starts
  <2>4. PipeInv
    BY <2>3 DEF Init, PipeInv, Before
  <2>5. QED
    BY <2>1, <2>2, <2>4
<1>2. IInv /\ [Next]_vars => IInv'
  <2> SUFFICES ASSUME RegisterInv(Bytes), CoverInv, PipeInv, [Next]_vars PROVE IInv'
    OBVIOUS
  <2>1. RegisterInv(Bytes)'
    BY RegistersStep
  <2>2. CoverInv'
    BY CoverKept
  <2>3. PipeInv'
    <3>1. CASE Next
      <4> SUFFICES ASSUME stalls' = 0
                   PROVE  ~overlapped' /\ (Before \/ \E f \in Starts(burst) : Inside(f) \/ Behind(f))'
        BY DEF PipeInv
      <4>1. CASE NewBurst \/ NextByte
        BY <2>1, <4>1, ByteStep
      <4>2. CASE NoByte
        BY <4>2, SilentStep
      <4>3. QED
        BY <3>1, <4>1, <4>2 DEF Next
    <3>2. CASE UNCHANGED vars
      BY <3>2 DEF vars, wireVars, PipeInv, Before, Inside, Behind, FirstStart
    <3>3. QED
      BY <3>1, <3>2
  <2>4. QED
    BY <2>1, <2>2, <2>3
<1>3. IInv => EveryBurstJudged
  <2> SUFFICES ASSUME RegisterInv(Bytes), PipeInv, Judged
               PROVE  verdict = Judgement(burst) /\ out = << >>
    BY DEF EveryBurstJudged
  <2>1. Before \/ \E f \in Starts(burst) : Inside(f) \/ Behind(f)
    BY DEF PipeInv, Judged
  <2>2. burst # << >> /\ pos = Len(burst) /\ silent /\ buf = << >>
    BY DEF Judged
  <2>3. Len(burst) \in Nat /\ Starts(burst) \subseteq 1 .. Len(burst) - 1
    BY Places
  <2>4. CASE Before
    <3>1. Starts(burst) = {}
      <4>1. \A i \in Starts(burst) : Len(burst) < i /\ i \in 1 .. Len(burst) - 1
        BY <2>2, <2>3, <2>4 DEF Before
      <4>2. QED
        BY <2>3, <4>1
    <3>2. QED
      BY <2>2, <2>4, <3>1 DEF Before, Judgement
  <2>5. ASSUME NEW f \in Starts(burst), Inside(f) PROVE FALSE
    BY <2>2, <2>3, <2>5 DEF Inside
  <2>6. QED
    BY <2>1, <2>4, <2>5 DEF Behind
<1>4. QED
  BY <1>1, <1>2, <1>3, PTL DEF Spec
=============================================================================
