------------------------------- MODULE PinPhys -------------------------------
(***************************************************************************)
(* The PHYs that are a few registers between the MAC and the pins of an    *)
(* Ethernet chip: MII, RMII, GMII, GMII/MII, RGMII for five FPGA families  *)
(* and the simulation model, and the gearbox between the 1000BASE-X PCS    *)
(* and a transceiver (liteeth/phy/).  One step is one cycle of the         *)
(* Ethernet clock.  What one station's transmitter drives reaches another  *)
(* one's receiver; the receiving station comes out of reset at any point   *)
(* of what is on the wire, and is always ready for the bytes it gets.      *)
(*                                                                         *)
(* A byte is the sequence of its parts, in the order they go out: nibbles, *)
(* dibits, or the byte itself; a part is << tag, byte, part >>.            *)
(***************************************************************************)
EXTENDS Integers, Sequences

CONSTANTS
    PinKinds,        \* the PHYs looked at, of AllPinKinds
    FrameBytes,      \* length of a frame
    MinGap,          \* cycles without a byte between two frames
    WireDelay,       \* dibits an RMII chip holds back
    HwResetCycles,   \* cycles of LiteEthPHYHWReset
    TickCycles,      \* Ethernet cycles per tick of the mode detection, 1024
    MiiRatio,        \* system cycles per Ethernet cycle in MII mode
    MaxSpeedChanges  \* bound on how often the chip renegotiates its speed

RgmiiKinds  == {"s7rgmii", "usrgmii", "ecp5rgmii", "s6rgmii", "altera_rgmii"}
AllPinKinds == {"mii", "rmii", "gmii", "gmii_mii", "model", "gearbox"} \cup RgmiiKinds

PinAssumption ==
    /\ PinKinds \subseteq AllPinKinds
    /\ {FrameBytes, MinGap, WireDelay, HwResetCycles, TickCycles, MiiRatio} \subseteq Nat \ {0}
    /\ MiiRatio > 1 /\ MaxSpeedChanges \in Nat
ASSUME PinAssumption

VARIABLES
    kind,     \* the PHY, fixed when the core is generated
    hwReset,  \* cycles of reset left at the receiving station
    send,     \* what the transmitter is given, and its converter's position
    txPads,   \* tx_en and tx_data, by mode: those of GMII/MII's two PHYs
    wire,     \* what was on them in the last cycles
    gear,     \* the gearbox's registers, and the transceivers'
    recv,     \* the receiver's registers
    received, \* bytes since the last end of a frame
    whole,    \* nothing has happened to the frame since it began
    due,      \* tag of the next frame to come out
    speed,    \* the mode the chip runs in
    calm,     \* cycles since it changed, up to SettleCycles
    changes,  \* changes so far
    detect    \* LiteEthGMIIMIIModeDetection

pinVars == << kind, hwReset, send, txPads, wire, gear, recv, received, whole, due, speed, calm, changes, detect >>

-----------------------------------------------------------------------------
(* Parts of bytes.  Mode is the mode detected; all other PHYs have but one. *)

Modes == {"GMII", "MII"}
Mode  == detect.mode

Narrow == kind \in {"mii", "rmii"} \/ Mode = "MII"

\* Both nibbles go in one cycle over RGMII.
PartsPerByte == IF kind = "rmii" THEN 4 ELSE IF kind \in RgmiiKinds \/ Narrow THEN 2 ELSE 1

ByteParts(tag, i) == [p \in 1 .. PartsPerByte |-> << tag, i, p >>]
Frame(tag) == [i \in 1 .. FrameBytes |-> ByteParts(tag, i)]

Silence == [dv |-> FALSE, data |-> << >>]

-----------------------------------------------------------------------------
(* Transmitters.  The converter of MII and RMII holds a byte until its last
   part is out; the others take one every cycle.  tx_en and tx_data are
   registers, or the output cells of DDR pins. *)

SendsByte == send.i > 0

SinkReady == Narrow => send.mux = PartsPerByte

\* Converters, GMII's registers, the simulation model's wires.
NarrowPads == [dv |-> SendsByte, data |-> IF SendsByte THEN << << send.tag, send.i, send.mux >> >> ELSE << >>]
WidePads   == [dv |-> SendsByte, data |-> IF SendsByte THEN << << send.tag, send.i, 1 >> >> ELSE << >>]
ModelPads  == WidePads

\* A DDR cell takes what it drives at either edge in one cycle: i1 or D1, the low
\* half of the byte, then i2 or D2.
OutputCells(dv, byte) == [dv |-> dv, data |-> IF dv THEN << byte[1], byte[2] >> ELSE << >>]

SentByte == ByteParts(send.tag, send.i)

\* ODDR, ODDRE1, DDROutput before a delay, ODDR2 aligned to C0, DDROutput.
SevenSeriesPads == OutputCells(SendsByte, SentByte)
UltraScalePads  == OutputCells(SendsByte, SentByte)
Ecp5Pads        == OutputCells(SendsByte, SentByte)
Spartan6Pads    == OutputCells(SendsByte, SentByte)
AlteraPads      == OutputCells(SendsByte, SentByte)

DrivenPads ==
    CASE kind = "s7rgmii" -> SevenSeriesPads
      [] kind = "usrgmii" -> UltraScalePads
      [] kind = "ecp5rgmii" -> Ecp5Pads
      [] kind = "s6rgmii" -> Spartan6Pads
      [] kind = "altera_rgmii" -> AlteraPads
      [] kind = "model" -> ModelPads
      [] OTHER -> IF Narrow THEN NarrowPads ELSE WidePads

\* A frame's bytes come one after the other, then a gap, the MAC's.
SendNext ==
    IF ~SendsByte
    THEN \/ send' = [send EXCEPT !.gap = IF @ > 0 THEN @ - 1 ELSE 0]
         \/ send.gap = 0 /\ send' = [send EXCEPT !.i = 1]
    ELSE LET mux == IF ~Narrow THEN send.mux ELSE IF SinkReady THEN 1 ELSE send.mux + 1
         IN  send' = CASE ~SinkReady -> [send EXCEPT !.mux = mux]
                       [] SinkReady /\ send.i < FrameBytes -> [send EXCEPT !.i = @ + 1, !.mux = mux]
                       [] OTHER -> [tag |-> 1 - send.tag, i |-> 0, mux |-> mux, gap |-> MinGap]

\* GMII/MII registers the pads of the selected PHY once more.
WireLength == IF kind = "rmii" THEN WireDelay ELSE 1

WireNext == SubSeq(<< txPads[Mode] >> \o wire, 1, WireLength)

Oldest == wire[WireLength]
Newest == wire[1]

\* What the receiver's pads see.  An RMII chip has crs_dv follow the carrier:
\* it is up before the first dibit is, and once the carrier is gone it is low
\* with the first dibit of each nibble that is still to come.
RxPads ==
    IF kind # "rmii" THEN Oldest
    ELSE [Oldest EXCEPT !.dv = Newest.dv \/ (Oldest.dv /\ Oldest.data[1][3] \in {2, 4})]

-----------------------------------------------------------------------------
(* The gearbox.  Its pads are the group the PCS sends; the half clocks have an
   edge in every other cycle, tx_edge and rx_edge say whether in this one. *)

GearReset(tx_edge, rx_edge) ==
    [tx_edge |-> tx_edge, rx_edge |-> rx_edge, buf |-> << Silence, Silence >>,
     tx_data_half |-> << Silence, Silence >>, bits |-> << Silence, Silence >>,
     rx_data_half |-> << Silence, Silence >>, phase_half |-> 0, phase_half_rereg |-> 0]

\* The transceivers: one group after the other, and at the other end, the place
\* where the pairs begin being its own, the last two.
Serial == gear.tx_data_half[IF gear.tx_edge THEN 2 ELSE 1]
Deserialised(s) ==
    [s EXCEPT !.bits = << @[2], Serial >>,
              !.rx_data_half = IF s.rx_edge THEN s.bits ELSE @]

\* buf shifts, and is taken by the half clock.
GearTx(s, tx_data) ==
    [s EXCEPT !.buf = << @[2], tx_data >>, !.tx_data_half = IF s.tx_edge THEN s.buf ELSE @]

\* The half clock's copy of phase_half, which only its own clock's reset clears.
GearPhase(s, reset) ==
    [s EXCEPT !.phase_half = IF reset THEN 0 ELSE 1 - @,
              !.phase_half_rereg = IF s.rx_edge THEN s.phase_half ELSE @]

\* rx_data's next value.
GearRx == gear.rx_data_half[IF gear.phase_half = gear.phase_half_rereg THEN 2 ELSE 1]

GearNext ==
    IF kind # "gearbox" THEN gear
    ELSE [GearPhase(GearTx(Deserialised(gear), txPads["GMII"]), hwReset > 0)
            EXCEPT !.tx_edge = ~@, !.rx_edge = ~@]

-----------------------------------------------------------------------------
(* StrideConverter, external: parts are put together until there are enough or
   the last one comes; the byte is offered in the next cycle. *)

ConverterReset == [demux |-> 0, data |-> << >>, valid |-> FALSE, last |-> FALSE]

ConverterNext(c, ratio, part, valid, last) ==
    LET full == c.demux = ratio - 1 \/ last
    IN  IF ~valid THEN [c EXCEPT !.valid = FALSE, !.last = ~c.valid /\ @]
        ELSE [demux |-> IF full THEN 0 ELSE c.demux + 1,
              data  |-> (IF c.demux = 0 THEN << >> ELSE c.data) \o part,
              valid |-> full,
              last  |-> last \/ (~c.valid /\ c.last)]

-----------------------------------------------------------------------------
(* Receivers.  recv is one record for all of them; a PHY uses some fields:
   pads, pads_d  registered rx_dv or crs_dv, and rx_data
   fall          the nibble sampled at the falling edge
   fsm, reg      RMII's FSM and its MultiRegs; converter.sink.valid of MII
   reset         the converter's reset, registered by MII
   conv          the converter
   valid, data   source's registers *)

Empty == [valid |-> FALSE, data |-> << >>]

MiiRx(s, pads) ==
    [s EXCEPT !.pads = pads, !.reset = ~pads.dv, !.reg[1].valid = TRUE,
              !.conv = IF s.reset THEN ConverterReset
                       ELSE ConverterNext(@, 2, s.pads.data, s.reg[1].valid, ~pads.dv)]

\* Fault: the frame ends with the first cycle crs_dv is low.
RmiiEndsAtOnce(s) == s.fsm = "RECEIVE" /\ ~s.pads.dv

RmiiEnds(s) == s.fsm = "RECEIVE" /\ ~s.pads.dv /\ ~s.pads_d.dv

\* A frame starts with the first dibit that is not zero; mark says which one
\* is, for the dibits after the preamble's.
RmiiStarts(s, mark) ==
    s.fsm = "IDLE" /\ s.pads.dv /\ s.pads.data # << >> /\ (s.pads.data[1][2] = 1 \/ mark)

RmiiRx(s, pads, mark) ==
    LET active == s.fsm = "RECEIVE" \/ RmiiStarts(s, mark)
    IN  [s EXCEPT !.pads = pads, !.pads_d = s.pads,
                  !.fsm  = IF active /\ ~RmiiEnds(s) THEN "RECEIVE" ELSE "IDLE",
                  !.reg  = << [valid |-> active, data |-> IF active THEN s.pads.data ELSE << >>], @[1] >>,
                  !.conv = IF ~active THEN ConverterReset
                           ELSE ConverterNext(@, 4, s.reg[2].data, s.reg[2].valid, RmiiEnds(s))]

\* dv_d is source.valid.
GmiiRx(s, pads) == [s EXCEPT !.valid = pads.dv, !.data = pads.data]

ModelRx(s, pads) == [s EXCEPT !.valid = pads.dv, !.data = pads.data]

GearboxRx(s) == [s EXCEPT !.valid = GearRx.dv, !.data = GearRx.data]

\* GMII/MII: both receivers behind one more register.
GmiiMiiRx(s, pads) ==
    LET mii == MiiRx(s, s.pads_d)
    IN  [mii EXCEPT !.pads_d = pads, !.valid = s.pads_d.dv, !.data = s.pads_d.data]

-----------------------------------------------------------------------------
(* RGMII receivers.  pads is what the input cells give: both nibbles of a byte
   at once with 7-Series, UltraScale and ECP5; with Spartan-6 and Altera the
   nibble of the falling edge, which ends data, comes a cycle later. *)

Lagging == kind \in {"s6rgmii", "altera_rgmii"}

Nibble(data, n) == IF data = << >> THEN << >> ELSE << data[n] >>

DdrInput(s, pads) ==
    IF ~Lagging THEN [s EXCEPT !.pads = pads]
    ELSE [s EXCEPT !.pads = [dv |-> pads.dv, data |-> << Nibble(pads.data, 1), s.fall >>],
                   !.fall = Nibble(pads.data, 2)]

SevenSeriesRx(s, pads) == [DdrInput(s, pads) EXCEPT !.valid = s.pads.dv, !.data = s.pads.data]

UltraScaleRx(s, pads) == SevenSeriesRx(s, pads)

Ecp5Rx(s, pads) ==
    [DdrInput(s, pads) EXCEPT !.pads_d = s.pads, !.valid = s.pads_d.dv, !.data = s.pads_d.data]

\* Cat(rx_data_reg[:4], rx_data[4:])
Spartan6Rx(s, pads) ==
    [DdrInput(s, pads) EXCEPT !.pads_d = s.pads, !.valid = s.pads_d.dv,
        !.data = s.pads_d.data[1] \o s.pads.data[2]]

\* rx_data_delay_h, then rx_data_reg.
AlteraRx(s, pads) ==
    [DdrInput(s, pads) EXCEPT
        !.pads_d = s.pads,
        !.reg[1] = [valid |-> s.pads_d.dv, data |-> s.pads_d.data[1] \o s.pads.data[2]],
        !.valid  = s.reg[1].valid, !.data = s.reg[1].data]

-----------------------------------------------------------------------------
(* The receiver as a whole. *)

LagReset == IF Lagging THEN [dv |-> FALSE, data |-> << << >>, << >> >>] ELSE Silence

RecvReset ==
    [pads |-> LagReset, pads_d |-> LagReset, fall |-> << >>, fsm |-> "IDLE", reg |-> << Empty, Empty >>,
     reset |-> FALSE, conv |-> ConverterReset, valid |-> FALSE, data |-> << >>]

\* DDR input cells, and GMII/MII's first registers, have no reset.
HeldInReset(pads) ==
    CASE kind \in RgmiiKinds -> DdrInput([RecvReset EXCEPT !.fall = recv.fall], pads)
      [] kind = "gmii_mii" -> [RecvReset EXCEPT !.pads_d = pads]
      [] OTHER -> RecvReset

RecvNext(pads, mark) ==
    CASE hwReset > 0 -> HeldInReset(pads)
      [] hwReset = 0 /\ kind = "mii" -> MiiRx(recv, pads)
      [] hwReset = 0 /\ kind = "rmii" -> RmiiRx(recv, pads, mark)
      [] hwReset = 0 /\ kind = "gmii" -> GmiiRx(recv, pads)
      [] hwReset = 0 /\ kind = "model" -> ModelRx(recv, pads)
      [] hwReset = 0 /\ kind = "gearbox" -> GearboxRx(recv)
      [] hwReset = 0 /\ kind = "gmii_mii" -> GmiiMiiRx(recv, pads)
      [] hwReset = 0 /\ kind = "s7rgmii" -> SevenSeriesRx(recv, pads)
      [] hwReset = 0 /\ kind = "usrgmii" -> UltraScaleRx(recv, pads)
      [] hwReset = 0 /\ kind = "ecp5rgmii" -> Ecp5Rx(recv, pads)
      [] hwReset = 0 /\ kind = "s6rgmii" -> Spartan6Rx(recv, pads)
      [] hwReset = 0 /\ kind = "altera_rgmii" -> AlteraRx(recv, pads)

\* What source.last looks at beside source.valid: the register before it, or
\* the pads themselves; a gearbox has no last, the PCS finds the end in the next
\* group.
Following(pads) ==
    CASE kind \in {"gmii", "model"} -> pads.dv
      [] kind = "gearbox" -> GearRx.dv
      [] kind = "gmii_mii" -> recv.pads_d.dv
      [] kind \in {"s7rgmii", "usrgmii"} -> recv.pads.dv
      [] kind \in {"ecp5rgmii", "s6rgmii"} -> recv.pads_d.dv
      [] OTHER -> recv.reg[1].valid

Source(pads) ==
    IF Narrow THEN [valid |-> recv.conv.valid, data |-> recv.conv.data, last |-> recv.conv.last]
    ELSE [valid |-> recv.valid, data |-> recv.data, last |-> recv.valid /\ ~Following(pads)]

-----------------------------------------------------------------------------
(* Mode detection: a tick every TickCycles of the Ethernet clock, and how many
   system clock cycles pass between two of them.  The system clock has 125 MHz. *)

SysCycles == IF speed = "MII" THEN MiiRatio ELSE 1

Threshold == (TickCycles * 105) \div 100

\* Fault: IDLE does not clear the counter.
CountGoesOn(tick) ==
    CASE detect.fsm = "IDLE" -> [detect EXCEPT !.fsm = IF tick THEN "COUNT" ELSE @]
      [] detect.fsm = "COUNT" -> [detect EXCEPT !.sys_counter = (@ + SysCycles) % 64,
                                                !.fsm = IF tick THEN "DETECTION" ELSE @]
      [] OTHER -> [detect EXCEPT !.mode = IF detect.sys_counter > Threshold THEN "MII" ELSE "GMII",
                                 !.fsm = "IDLE"]

DetectNext(tick) ==
    CASE detect.fsm = "IDLE" -> [detect EXCEPT !.sys_counter = 0, !.fsm = IF tick THEN "COUNT" ELSE @]
      [] detect.fsm = "COUNT" -> [detect EXCEPT !.sys_counter = @ + SysCycles,
                                                !.fsm = IF tick THEN "DETECTION" ELSE @]
      [] OTHER -> [detect EXCEPT !.mode = IF detect.sys_counter > Threshold THEN "MII" ELSE "GMII",
                                 !.fsm = "IDLE"]

\* A change in the middle of a count may be seen at its end or at the next one's.
SettleCycles == 4 * TickCycles + 2

-----------------------------------------------------------------------------
(* The PHY as a whole. *)

PinInit ==
    /\ kind \in PinKinds /\ hwReset = HwResetCycles
    /\ send = [tag |-> 0, i |-> 0, mux |-> 1, gap |-> 0]
    /\ txPads = [m \in Modes |-> Silence] /\ wire = [n \in 1 .. WireLength |-> Silence]
    /\ \E tx_edge, rx_edge \in (IF kind = "gearbox" THEN BOOLEAN ELSE {FALSE}) :
         gear = GearReset(tx_edge, rx_edge)
    /\ recv = RecvReset /\ received = << >> /\ whole = FALSE /\ due = 0
    /\ speed \in (IF kind = "gmii_mii" THEN Modes ELSE {"GMII"}) /\ calm = 0 /\ changes = 0
    /\ detect = [mode |-> "GMII", fsm |-> "IDLE", eth_counter |-> 0, sys_counter |-> 0]

Begins == ~SendsByte /\ send'.i > 0

\* A frame is followed from its first part, sent by a converter at its start to a
\* receiver out of reset, while both run in the chip's mode.
Follows ==
    LET out == Source(RxPads)
    IN  /\ whole' = /\ whole \/ Begins
                    /\ Begins => hwReset = 0 /\ (Narrow => send.mux = 1)
                    /\ Mode = speed' /\ Mode = detect'.mode
        /\ due' = IF Begins THEN send.tag ELSE IF out.valid /\ out.last THEN 1 - due ELSE due
        /\ received' = IF Begins \/ out.last THEN << >>
                       ELSE IF out.valid THEN Append(received, out.data) ELSE received

PinNext ==
    /\ hwReset' = IF hwReset > 0 THEN hwReset - 1 ELSE 0
    /\ SendNext
    /\ txPads' = [m \in Modes |-> IF m = Mode THEN DrivenPads ELSE Silence]
    /\ wire' = WireNext /\ gear' = GearNext
    /\ \E mark \in (IF kind = "rmii" THEN BOOLEAN ELSE {TRUE}) : recv' = RecvNext(RxPads, mark)
    /\ detect' = IF kind # "gmii_mii" THEN detect
                 ELSE [DetectNext(detect.eth_counter = 0) EXCEPT !.eth_counter = (@ + 1) % TickCycles]
    /\ \/ /\ calm' = IF calm < SettleCycles /\ kind = "gmii_mii" THEN calm + 1 ELSE calm
          /\ UNCHANGED << speed, changes >>
       \/ /\ kind = "gmii_mii" /\ changes < MaxSpeedChanges
          /\ changes' = changes + 1 /\ calm' = 0
          /\ speed' \in Modes \ {speed}
    /\ Follows /\ UNCHANGED kind
=============================================================================
