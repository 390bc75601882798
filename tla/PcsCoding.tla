------------------------------ MODULE PcsCoding ------------------------------
(***************************************************************************)
(* The transmit and receive paths of the 1000BASE-X / SGMII PCS            *)
(* (liteeth/phy/pcs_1000basex.py), one step per cycle of the 125 MHz       *)
(* clock: which code group goes out, what is made of one that comes in,    *)
(* and the timers that repeat every byte at the slower SGMII speeds.  A    *)
(* code group is a record that says what it is; 8b/10b itself, and with    *)
(* it the disparity, is the encoder's.                                     *)
(***************************************************************************)
EXTENDS Integers

CONSTANTS
    Bytes,      \* what frames are made of
    Reload100,  \* the timer at 100 Mb/s, 9
    Reload10    \* the timer at 10 Mb/s, 99

CodingAssumption == Reload100 \in Nat /\ Reload10 \in Nat /\ Reload100 <= Reload10
ASSUME CodingAssumption

-----------------------------------------------------------------------------
(* Code groups and configuration registers. *)

Comma       == [k |-> "K28.5"]
StartGroup  == [k |-> "K27.7"]  \* /S/
EndGroup    == [k |-> "K29.7"]  \* /T/
Extend      == [k |-> "K23.7"]  \* /R/
Config1     == [d |-> "D21.5"]
Config2     == [d |-> "D2.2"]
IdleGroup   == [d |-> "D16.2"]  \* or D5.6, as the disparity wants it
Invalid     == [k |-> "none"]   \* no code group, or one nobody sends

IsK(g) == "k" \in DOMAIN g

\* The bits of a configuration register the PCS looks at or sets: 0, 5, 11:10,
\* 15 and 14.  full_duplex and sgmii are in the half that is sent first.
ConfigRegs == [sgmii : BOOLEAN, full_duplex : BOOLEAN, speed : 0 .. 3, up : BOOLEAN, ack : BOOLEAN]

NoAbility == [sgmii |-> FALSE, full_duplex |-> FALSE, speed |-> 0, up |-> FALSE, ack |-> FALSE]

\* (config_reg | 1) == 1
IsEmpty(reg) == ~reg.full_duplex /\ reg.speed = 0 /\ ~reg.up /\ ~reg.ack

\* equal but for the acknowledge bit: config_reg | 0x4000
SameAbility(r1, r2) == [r1 EXCEPT !.ack = TRUE] = [r2 EXCEPT !.ack = TRUE]

Lsb(reg) == [lsb |-> reg]
Msb(reg) == [msb |-> reg]

Joined(lsb, msb) == [msb EXCEPT !.sgmii = lsb.sgmii, !.full_duplex = lsb.full_duplex]

\* The byte that /S/ stands for; it is received as 0x55.
Preamble55 == [preamble |-> 0]
Data(byte) == [byte |-> byte]

-----------------------------------------------------------------------------
(* The timer of both paths: it runs while bytes pass and is loaded otherwise.
   The reserved speed loads nothing. *)

Reload(speed, timer) ==
    CASE speed = 0 -> Reload10 [] speed = 1 -> Reload100 [] speed = 2 -> 0 [] OTHER -> timer

TimerNext(timer, enable, speed) ==
    IF ~enable \/ timer = 0 THEN Reload(speed, timer) ELSE timer - 1

-----------------------------------------------------------------------------
(* TransmitPath.  in is what it is given in the cycle: config_stb, config_reg,
   tx_stb, tx_data and sgmii_speed. *)

TxStates == {"START", "CONFIG_D", "CONFIG_REG_LSB", "CONFIG_REG_MSB", "IDLE", "DATA",
             "CARRIER_EXTEND_1", "CARRIER_EXTEND_2"}

\* The parity of the code group that goes out: 0 is even.
TxReset == [fsm |-> "START", parity |-> 0, c_type |-> FALSE, config_reg |-> NoAbility, timer |-> 0]

TxBegins(s, in) == s.fsm = "START" /\ ~in.config_stb /\ in.tx_stb
TxTimed(s, in)  == TxBegins(s, in) \/ (s.fsm = "DATA" /\ in.tx_stb)

TxGroup(s, in) ==
    CASE s.fsm = "START" -> IF TxBegins(s, in) THEN StartGroup ELSE Comma
      [] s.fsm = "CONFIG_D" -> IF s.c_type THEN Config2 ELSE Config1
      [] s.fsm = "CONFIG_REG_LSB" -> Lsb(s.config_reg)
      [] s.fsm = "CONFIG_REG_MSB" -> Msb(s.config_reg)
      [] s.fsm = "IDLE" -> IdleGroup
      [] s.fsm = "DATA" -> IF in.tx_stb THEN Data(in.tx_data) ELSE EndGroup
      [] OTHER -> Extend

\* Fault: a byte is taken in every cycle, whatever the speed.
TxAckAtOnce(s, in) == s.fsm \in {"START", "DATA"}

\* Outside a frame bytes are discarded; within one each stays until it has been
\* repeated often enough.
TxAck(s, in) ==
    \/ s.fsm \in {"START", "DATA"} /\ ~TxTimed(s, in)
    \/ TxTimed(s, in) /\ s.timer = 0

\* Fault: one /R/ always, wherever the frame ends.
ExtendsOnce(s) == "START"

\* The second /R/ brings the next /K28.5/ back to an even code group.
AfterExtend(s) == IF s.parity = 1 THEN "START" ELSE "CARRIER_EXTEND_2"

TxFsm(s, in) ==
    CASE s.fsm = "START" -> IF in.config_stb THEN "CONFIG_D"
                            ELSE IF in.tx_stb THEN "DATA" ELSE "IDLE"
      [] s.fsm = "CONFIG_D" -> "CONFIG_REG_LSB"
      [] s.fsm = "CONFIG_REG_LSB" -> "CONFIG_REG_MSB"
      [] s.fsm = "DATA" -> IF in.tx_stb THEN "DATA" ELSE "CARRIER_EXTEND_1"
      [] s.fsm = "CARRIER_EXTEND_1" -> AfterExtend(s)
      [] OTHER -> "START"

TxNext(s, in) ==
    [fsm        |-> TxFsm(s, in),
     parity     |-> 1 - s.parity,
     c_type     |-> IF s.fsm = "CONFIG_D" THEN ~s.c_type ELSE s.c_type,
     config_reg |-> IF s.fsm = "START" /\ in.config_stb THEN in.config_reg ELSE s.config_reg,
     timer      |-> TimerNext(s.timer, TxTimed(s, in), in.sgmii_speed)]

-----------------------------------------------------------------------------
(* ReceivePath, and the registers PCS puts behind it: g is the code group of
   the cycle.  valid and data are source's, seen_config_reg, config_reg and
   seen_valid_ci go to the negotiation. *)

RxStates == {"START", "K28_5", "CONFIG_REG_LSB", "CONFIG_REG_MSB", "DATA"}

RxReset == [fsm |-> "START", lsb |-> NoAbility, config_reg |-> NoAbility, seen_config_reg |-> FALSE,
            timer |-> 0, rx_en_d |-> FALSE, valid |-> FALSE, data |-> Preamble55]

RxBegins(s, g) == s.fsm \in {"START", "CONFIG_REG_LSB"} /\ g = StartGroup
RxEn(s, g)     == RxBegins(s, g) \/ (s.fsm = "DATA" /\ ~IsK(g))

SeenValidCi(s, g) == s.fsm = "K28_5" /\ g \in {Config1, Config2, IdleGroup}

\* The last byte is known to be the last when the next code group is here.
RxLast(s, g) == ~RxEn(s, g) /\ s.rx_en_d

RxFsm(s, g) ==
    CASE s.fsm = "START" -> IF g = Comma THEN "K28_5" ELSE IF RxBegins(s, g) THEN "DATA" ELSE "START"
      [] s.fsm = "K28_5" -> IF g \in {Config1, Config2} THEN "CONFIG_REG_LSB" ELSE "START"
      [] s.fsm = "CONFIG_REG_LSB" -> IF RxBegins(s, g) THEN "DATA"
                                     ELSE IF IsK(g) THEN "START" ELSE "CONFIG_REG_MSB"
      [] s.fsm = "DATA" -> IF IsK(g) THEN "START" ELSE "DATA"
      [] OTHER -> "START"

Sampled(s, g, speed) == s.timer = 0

RxNext(s, g, speed) ==
    LET loads(state) == s.fsm = state /\ ~IsK(g)
    IN  [fsm             |-> RxFsm(s, g),
         lsb             |-> IF loads("CONFIG_REG_LSB") THEN g.lsb ELSE s.lsb,
         config_reg      |-> IF loads("CONFIG_REG_MSB") THEN Joined(s.lsb, g.msb) ELSE s.config_reg,
         seen_config_reg |-> loads("CONFIG_REG_MSB"),
         timer           |-> TimerNext(s.timer, RxEn(s, g), speed),
         rx_en_d         |-> RxEn(s, g),
         valid           |-> RxEn(s, g) /\ Sampled(s, g, speed),
         data            |-> IF RxEn(s, g) /\ ~RxBegins(s, g) THEN g ELSE Preamble55]
=============================================================================
