------------------------------- MODULE PhyLink -------------------------------
(***************************************************************************)
(* A station's physical layer: the core is generated with one PHY, either  *)
(* the PCS with its transceiver or one that is registers between the MAC   *)
(* and the pins.  (LiteEthPHY in liteeth/phy/__init__.py chooses among     *)
(* MII, GMII and GMII/MII by the pads it is given; the others are made by  *)
(* name.)                                                                  *)
(***************************************************************************)
EXTENDS PcsLink, PinPhys

VARIABLE layer  \* "pcs" or "pins"

vars == << layer, linkVars, pinVars >>

Init ==
    /\ layer \in {"pcs", "pins"}
    /\ LinkInit /\ PinInit
    \* what is not generated does not vary
    /\ layer = "pcs" => kind = (CHOOSE k \in PinKinds \ {"gmii_mii"} : TRUE)
    /\ layer = "pins" => /\ talker = "pcs" /\ ability = (CHOOSE a \in Abilities : TRUE)
                         /\ xcvr = XcvrReset(CHOOSE t \in Transceivers : TRUE)

PcsStep == layer = "pcs" /\ LinkNext /\ UNCHANGED << layer, pinVars >>
PinStep == layer = "pins" /\ PinNext /\ UNCHANGED << layer, linkVars >>

Next == PcsStep \/ PinStep

\* The clock runs.
Spec == Init /\ [][Next]_vars /\ WF_vars(PcsStep) /\ WF_vars(PinStep)

-----------------------------------------------------------------------------
(* Types. *)

PathsTypeOK ==
    /\ tx \in [Ends -> [fsm : TxStates, parity : {0, 1}, c_type : BOOLEAN, config_reg : ConfigRegs,
                        timer : 0 .. Reload10]]
    /\ \A e \in Ends :
         /\ rx[e].fsm \in RxStates /\ rx[e].timer \in 0 .. Reload10
         /\ {rx[e].lsb, rx[e].config_reg} \subseteq ConfigRegs
         /\ {rx[e].seen_config_reg, rx[e].rx_en_d, rx[e].valid} \subseteq BOOLEAN
         /\ rx[e].data = Preamble55 \/ rx[e].data.byte \in Bytes

LinkTypeOK ==
    /\ an \in [fsm : AnStates, fsm_inited : BOOLEAN, more_ack : 0 .. MoreAckTime,
               counter : 0 .. CheckPeriod, tick : BOOLEAN, ok : BOOLEAN]
    /\ heard.c_counter \in 0 .. 4
    /\ {heard.previous, heard.preack, heard.link_partner} \subseteq ConfigRegs
    /\ xcvr.txInit \in TxInitStates /\ xcvr.rxInit \in RxInitStates
    /\ xcvr.drp \in {"config", "masked"} /\ xcvr.cdr_lock_counter \in 0 .. CdrLockTime
    /\ peer.fsm \in PeerStates /\ peer.timer \in 0 .. LinkTime
    /\ offer \in 0 .. FrameSize /\ Len(burst) \in 0 .. FrameSize /\ Len(got) \in 0 .. FrameSize

PinTypeOK ==
    /\ send \in [tag : {0, 1}, i : 0 .. FrameBytes, mux : 1 .. 4, gap : 0 .. MinGap]
    /\ recv.fsm \in {"IDLE", "RECEIVE"}
    /\ recv.conv.demux \in 0 .. (IF kind = "rmii" THEN 3 ELSE 1)
    /\ Len(recv.conv.data) \in 0 .. (IF kind = "rmii" THEN 4 ELSE 2)
    /\ detect \in [mode : Modes, fsm : {"IDLE", "COUNT", "DETECTION"}, eth_counter : 0 .. TickCycles - 1,
                   sys_counter : 0 .. MiiRatio * TickCycles]

\* Every register stays in its range: no counter of the negotiation, the
\* transceiver start-up or the converters runs past its end.
TypeOK == PathsTypeOK /\ LinkTypeOK /\ PinTypeOK

-----------------------------------------------------------------------------
(* Properties of the link. *)

\* How often a byte is repeated, but for the first time.
Repeats == Reload(PeerSpeed, 0)

\* What came out of the other end, the first byte being 0x55 if /S/ took its place.
AsReceived(bytes, repeats) ==
    [i \in 1 .. Len(bytes) |-> IF i = 1 /\ repeats = 0 THEN Preamble55 ELSE Data(bytes[i])]

\* While both ends are up, the bytes of a frame come out as they went in, each
\* once at any SGMII speed, and last comes with the last of them: TransmitPath's
\* and ReceivePath's timers repeat and sample in step (phy/pcs_1000basex.py).
BytesAsSent ==
    Up /\ burst # << 0 >> =>
      LET r == rx[Other(talker)]
      IN  /\ Len(got) <= Len(burst) /\ got = SubSeq(AsReceived(burst, Repeats), 1, Len(got))
          /\ RxLast(r, Group(Other(talker))) => r.valid /\ Len(got) + 1 = Len(burst)

\* /K28.5/ and every other code group that opens an ordered set are on even
\* places whatever the frames' lengths and however negotiation and frames follow
\* each other: a receiver aligns to them (parity, phy/pcs_1000basex.py:139-154).
CommaOnEven == \A e \in Ends : tx[e].fsm \in {"START", "CONFIG_REG_LSB"} => tx[e].parity = 0

\* The PCS does not go on to COMPLETE_ACKNOWLEDGE or LINK_OK with a partner
\* that has not seen its ability, although its own ability match may be from before
\* the partner began again (AUTONEG_WAIT_ACK, phy/pcs_1000basex.py:363-386).  This needs
\* a partner whose break, LinkTime, outlasts more_ack_timer: a 1000BASE-X one's link
\* timer does, an SGMII one's 1.6 ms do not, and with LinkTime < MoreAckTime the PCS
\* does go on with a partner that began again in the meantime.
NoHalfUp ==
    an.fsm \in {"AUTONEG_SEND_MORE_ACK", "RUNNING"} /\ line.fault = "none" /\ ~deaf =>
        peer.fsm # "ABILITY"

\* However restarts fall into the DRP sequence, register 0x011 has its configured
\* value whenever the sequence is over or not begun (GTPRxInit, phy/a7_gtp.py).
DrpRestored == xcvr.rxInit \in {"WAIT_ENABLE", "DONE"} => xcvr.drp = "config"

\* After a partner's restart or a cut of both directions, at any moment of the
\* negotiation, of a frame or of a transceiver reset, the link comes up and stays
\* up.  A line lost in one direction only makes one end restart; the other
\* one stays in LINK_OK and the PCS waits for ever (phy/pcs_1000basex.py:352-394).
\* Like NoHalfUp this needs LinkTime > MoreAckTime: a shorter break, as of an SGMII
\* partner that restarts, goes by unseen, and the partner may wait for an ability
\* that the PCS, in LINK_OK, no longer sends.
LinkStaysUp == <>[](layer = "pcs" => Up \/ deaf)

-----------------------------------------------------------------------------
(* Why bytes come out as they went in. *)

\* A receiver that is at a group of an ordered set or of a frame is at the one its
\* transmitter sends.
InStep(s, r) ==
    /\ r.fsm = "K28_5" => s.fsm \in {"CONFIG_D", "IDLE"}
    /\ r.fsm = "CONFIG_REG_LSB" => s.fsm = "CONFIG_REG_LSB"
    /\ r.fsm = "CONFIG_REG_MSB" => s.fsm = "CONFIG_REG_MSB" /\ r.lsb = s.config_reg
    /\ r.fsm = "DATA" => s.fsm = "DATA"
    /\ r.rx_en_d <=> r.fsm = "DATA"
    /\ r.valid => r.rx_en_d

StepInv == \A e \in Ends : InStep(tx[Other(e)], rx[e])

\* The PCS has heard of nothing but the partner's registers, so its speed is the
\* partner's once it has heard of any.
PartnersRegs == {NoAbility, ability, [ability EXCEPT !.ack = TRUE]}
PartnerInv ==
    {tx["peer"].config_reg, rx["pcs"].config_reg, heard.link_partner} \subseteq PartnersRegs

\* The receiver of the PCS is reset, and the PCS about to begin again.
CutOff == Other(talker) = "pcs" /\ rx["pcs"] = RxReset /\ heard.link_partner = NoAbility

\* What has come out of a frame is what has been taken of it, but for the byte that
\* comes out now; both ends' timers are at the same repetition.
Came ==
    LET s == tx[talker]
        r == rx[Other(talker)]
    IN  s.fsm = "DATA" =>
          /\ r.fsm = "DATA" /\ r.timer = s.timer
          /\ offer = 0 => r.valid
          /\ Repeats = 0 => burst # << >>
          /\ IF r.valid THEN Len(got) + 1 = Len(burst) /\ r.data = AsReceived(burst, Repeats)[Len(burst)]
             ELSE Len(got) = Len(burst)

FrameInv ==
    LET s == tx[talker]
        r == rx[Other(talker)]
    IN  /\ offer \in 0 .. FrameSize
        /\ offer = 1 => s.fsm \in {"START", "DATA"}
        /\ burst \in Seq(1 .. FrameSize) \cup {<< 0 >>}
        /\ burst = << 0 >> => got = << >>
        /\ burst # << 0 >> => /\ Len(got) <= Len(burst) /\ got = SubSeq(AsReceived(burst, Repeats), 1, Len(got))
                              /\ Len(burst) <= IF offer > 0 /\ s.fsm = "DATA" THEN offer - 1 ELSE FrameSize
        /\ Up /\ s.fsm = "START" /\ offer = 1 => s.timer = Repeats /\ (CutOff \/ r.timer = Repeats)
        /\ Up /\ burst # << 0 >> => CutOff \/ Came

-----------------------------------------------------------------------------
(* Properties of the pins. *)

\* A frame sent to a receiver out of reset comes out whole: each byte from its
\* own parts, in order, last with the last byte and with no other, and all of it
\* before the next frame begins, also when a broken frame, an RMII chip's
\* toggling crs_dv or a change of mode was there just before (phy/*.py).
FramesIntact ==
    LET out == Source(RxPads)
        now == Append(received, out.data)
    IN  whole => /\ out.valid => /\ Len(now) <= FrameBytes /\ now = SubSeq(Frame(due), 1, Len(now))
                                 /\ out.last <=> Len(now) = FrameBytes
                 /\ out.last => out.valid
                 /\ send.i = 0 /\ send.gap = 0 => due = send.tag /\ received = << >>

\* Once the chip's speed has not changed for four ticks the mode is the chip's,
\* although a count may have begun at the speed before (phy/gmii_mii.py:148-173).
ModeFollowsClock == kind = "gmii_mii" /\ calm = SettleCycles => Mode = speed
=============================================================================
