------------------------------ MODULE EthFrame ------------------------------
(***************************************************************************)
(* The shape of a frame, as the MAC core puts it on the wire and takes it  *)
(* off: preamble and start-of-frame delimiter, the frame padded to its     *)
(* least length, and its CRC.  A byte of a frame is named by the frame and *)
(* its place in it.  The CRC is ideal: its bytes name what they cover, so  *)
(* two different sequences never have the same one.                        *)
(***************************************************************************)
EXTENDS Integers, Sequences

CONSTANTS
    PreambleLength,  \* bytes of preamble with its delimiter, 64//dw
    MinLength,       \* least length of a frame without its CRC, 60
    CrcLength        \* bytes of CRC, crc.width//dw

FrameAssumption ==
    PreambleLength \in Nat \ {0} /\ MinLength \in Nat \ {0} /\ CrcLength \in Nat \ {0}
ASSUME FrameAssumption

BodyByte(f, i) == [frame |-> f, at |-> i]
Zero == [pad |-> 0]

\* eth_preamble is 0x55 seven times and then 0xd5, the start of the frame.
PreambleByte(k) == [sfd |-> k = PreambleLength]
StartOfFrame == [sfd |-> TRUE]

Preamble == [k \in 1 .. PreambleLength |-> PreambleByte(k)]
PaddedLength(f) == IF f.size < MinLength THEN MinLength ELSE f.size
Padded(f) == [i \in 1 .. PaddedLength(f) |-> IF i <= f.size THEN BodyByte(f, i) ELSE Zero]
CrcByte(covered, k) == [crc |-> covered, at |-> k]
Crc(covered) == [k \in 1 .. CrcLength |-> CrcByte(covered, k)]

Framed(f) == Preamble \o Padded(f) \o Crc(Padded(f))
=============================================================================
