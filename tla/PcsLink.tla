------------------------------- MODULE PcsLink -------------------------------
(***************************************************************************)
(* A 1000BASE-X / SGMII link: the PCS of liteeth/phy/pcs_1000basex.py with  *)
(* its negotiation and its watch on the line, the transceiver start-up     *)
(* that its restarts set off (phy/a7_gtp.py, phy/*_1000basex.py), and a    *)
(* link partner.  One step is one cycle; the clocks of the two directions  *)
(* run at the same pace, a pulse crosses between them in one cycle; to the *)
(* system clock it takes CrossTime.                                        *)
(*                                                                         *)
(* The partner is external: a station that negotiates the way the PCS's    *)
(* code expects.  It sends empty registers for a while, its ability until  *)
(* it has seen the PCS's, an acknowledge until it has seen one, and idles  *)
(* after that; it begins again when it is told to, hears empty registers   *)
(* or loses the line.  On the line it codes as the PCS does.               *)
(***************************************************************************)
EXTENDS PcsCoding, Sequences

CONSTANTS
    Abilities,    \* what the partner may advertise
    Transceivers, \* "gtp": 7-Series, whose receiver has an FSM; "gth": UltraScale
    CheckPeriod,  \* checker_max_val: cycles between two looks at checker_ok
    MoreAckTime,  \* cycles of more_ack_timer
    CrossTime,    \* cycles of the synchronizer of restart
    CdrLockTime,  \* cycles to wait for the receiver's clock
    LinkTime,     \* cycles the partner sends empty registers, or acknowledges on
    Faults,       \* what may befall the link, of FaultKinds
    MaxFaults,    \* bound on the faults
    CutTime,      \* cycles a cut lasts
    FrameSize     \* bytes of a frame, at most; at least two

FaultKinds == {"restart", "cut", "deaf"}

LinkAssumption ==
    /\ Abilities \subseteq ConfigRegs /\ \A a \in Abilities : ~IsEmpty(a) /\ ~a.ack
    /\ Transceivers \subseteq {"gtp", "gth"} /\ Faults \subseteq FaultKinds
    /\ {CheckPeriod, MoreAckTime, CrossTime, CdrLockTime, LinkTime, CutTime} \subseteq Nat \ {0}
    /\ FrameSize \in Nat \ {0, 1} /\ 1 .. FrameSize \subseteq Bytes
    /\ MaxFaults \in Nat
ASSUME LinkAssumption

Ends == {"pcs", "peer"}

VARIABLES
    tx, rx,       \* by end: TransmitPath and ReceivePath
    an,           \* the PCS's negotiation, what is in the transmit clock's domain
    heard,        \* and what is in the receive clock's
    xcvr,         \* the transceiver's start-up, and its kind
    peer,         \* the partner's negotiation
    ability,      \* what the partner advertises
    talker, offer,\* who sends frames, and the byte it offers, 0 for none
    burst, got,   \* bytes taken since the last /S/, and those that came out
    line,         \* "good", or which fault is on and for how long
    faults, deaf  \* faults so far; the PCS alone lost the line, so it alone restarts

linkVars == << tx, rx, an, heard, xcvr, peer, ability, talker, offer, burst, got, line, faults, deaf >>

-----------------------------------------------------------------------------
(* The PCS's registers. *)

AnStates == {"AUTONEG_WAIT_ABI", "AUTONEG_WAIT_ACK", "AUTONEG_SEND_MORE_ACK", "RUNNING"}

AnReset == [fsm |-> "AUTONEG_WAIT_ABI", fsm_inited |-> FALSE, more_ack |-> MoreAckTime,
            counter |-> 0, tick |-> FALSE, ok |-> FALSE]

HeardReset == [c_counter |-> 0, previous |-> NoAbility, preack |-> NoAbility,
               link_partner |-> NoAbility, abi |-> FALSE, ack |-> FALSE, ci |-> FALSE]

Running == an.fsm = "RUNNING"
Lost == an.tick /\ ~an.ok

\* Fault: a partner that begins again is not noticed.
RestartIfLost == Lost

\* In RUNNING a register that says nothing is a partner that begins again.
Restart == Lost \/ (Running /\ IsEmpty(heard.link_partner))

AutonegAck == an.fsm \in {"AUTONEG_WAIT_ACK", "AUTONEG_SEND_MORE_ACK"}

ConfigStb == CASE Running -> FALSE
               [] an.fsm = "AUTONEG_WAIT_ABI" -> an.fsm_inited
               [] OTHER -> TRUE

\* is_sgmii | (~is_sgmii << 5) | (autoneg_ack << 14): the inversion is done at
\* the width of the register, so that every bit from 6 on, the acknowledge bit
\* among them, is set whatever autoneg_ack is.
ConfigReg ==
    LET sgmii == heard.link_partner.sgmii
    IN  [sgmii |-> sgmii, full_duplex |-> ~sgmii, speed |-> 3, up |-> TRUE, ack |-> TRUE]

SgmiiSpeed == IF heard.link_partner.sgmii THEN heard.link_partner.speed ELSE 2

-----------------------------------------------------------------------------
(* PCS: the negotiation FSM.  A restart is stated last and wins. *)

\* Fault: an acknowledge of any ability ends the wait.
AckOfAny == heard.abi

AckSeen == heard.ack

AnFsm ==
    IF Restart THEN "AUTONEG_WAIT_ABI"
    ELSE CASE an.fsm = "AUTONEG_WAIT_ABI" /\ heard.abi -> "AUTONEG_WAIT_ACK"
           [] an.fsm = "AUTONEG_WAIT_ACK" /\ AckSeen -> "AUTONEG_SEND_MORE_ACK"
           [] an.fsm = "AUTONEG_SEND_MORE_ACK" /\ an.more_ack = 0 -> "RUNNING"
           [] OTHER -> an.fsm

AnNext ==
    [fsm        |-> AnFsm,
     fsm_inited |-> an.fsm_inited \/ (an.fsm = "AUTONEG_WAIT_ABI" /\ heard.abi),
     more_ack   |-> IF an.fsm # "AUTONEG_SEND_MORE_ACK" THEN MoreAckTime
                    ELSE IF an.more_ack = 0 THEN 0 ELSE an.more_ack - 1,
     counter    |-> IF an.counter = 0 THEN CheckPeriod ELSE an.counter - 1,
     tick       |-> an.counter = 0,
     ok         |-> (an.ok \/ heard.ci) /\ ~an.tick]

\* The receive side: two equal registers in successive ordered sets match.
HeardNext(r, g) ==
    LET reg     == r.config_reg
        abi     == /\ r.seen_config_reg /\ heard.c_counter = 1
                   /\ SameAbility(heard.previous, reg) /\ ~IsEmpty(reg)
        ackSeen == abi /\ heard.previous.ack /\ reg.ack /\ SameAbility(heard.preack, reg)
    IN  [c_counter    |-> IF r.seen_config_reg THEN 4
                          ELSE IF heard.c_counter # 0 THEN heard.c_counter - 1 ELSE 0,
         previous     |-> IF r.seen_config_reg THEN reg ELSE heard.previous,
         preack       |-> IF abi THEN heard.previous ELSE heard.preack,
         link_partner |-> IF r.seen_config_reg THEN reg ELSE heard.link_partner,
         abi          |-> abi,
         ack          |-> ackSeen,
         ci           |-> SeenValidCi(r, g)]

-----------------------------------------------------------------------------
(* Transceivers.  Restarts reach the 7-Series receiver's FSM as a pulse, and
   UltraScale's receiver as its reset.  The clock of the receive path stops
   while cdr_locked is low, and its registers are reset. *)

RxInitStates == {"WAIT_ENABLE", "GTRXRESET", "DRP_READ_ISSUE", "DRP_READ_WAIT", "DRP_MOD_ISSUE",
                 "DRP_MOD_WAIT", "WAIT_PMARST_FALL", "DRP_RESTORE_ISSUE", "DRP_RESTORE_WAIT", "DONE"}

TxInitStates == {"WAIT", "QPLL_RESET", "WAIT_QPLL_LOCK", "DONE"}

\* drp is the external register at 0x011: "config" as it was configured, "masked"
\* with bit 11 cleared; drpvalue what was read of it.  pma counts down to the
\* fall of rx_pma_reset_done, external too, and restart to the pulse's arrival.
XcvrReset(kind) ==
    [kind |-> kind, txInit |-> "WAIT", rxInit |-> "WAIT_ENABLE", drp |-> "config", drpvalue |-> "config",
     pma |-> 0, restart |-> 0, rx_reset |-> TRUE, cdr_lock_counter |-> 0, cdr_locked |-> FALSE]

TxReady == xcvr.txInit = "DONE"
RxReady == xcvr.cdr_locked

\* The FSM goes through WAIT, QPLL_RESET and WAIT_QPLL_LOCK; the lock comes in time.
GtpTxInit ==
    CASE xcvr.txInit = "WAIT" -> "QPLL_RESET"
      [] xcvr.txInit = "QPLL_RESET" -> "WAIT_QPLL_LOCK"
      [] OTHER -> "DONE"

\* UltraScale holds pll_reset for a time after power is good, then waits for the lock.
UltraScaleTxInit ==
    CASE xcvr.txInit = "WAIT" -> "WAIT_QPLL_LOCK"
      [] OTHER -> "DONE"

\* Fault: a restart is taken up in any state.
RestartsAnywhere(restart) == IF restart THEN "WAIT_ENABLE" ELSE xcvr.rxInit

\* restart is looked at in DONE only.
RestartsDone(restart) == IF restart /\ xcvr.rxInit = "DONE" THEN "WAIT_ENABLE" ELSE xcvr.rxInit

Restored == xcvr.drpvalue

RxInitFsm(restart) ==
    CASE RestartsDone(restart) # xcvr.rxInit -> RestartsDone(restart)
      [] xcvr.rxInit = "WAIT_ENABLE" -> IF TxReady THEN "GTRXRESET" ELSE "WAIT_ENABLE"
      [] xcvr.rxInit = "GTRXRESET" -> "DRP_READ_ISSUE"
      [] xcvr.rxInit = "DRP_READ_ISSUE" -> "DRP_READ_WAIT"
      [] xcvr.rxInit = "DRP_READ_WAIT" -> "DRP_MOD_ISSUE"
      [] xcvr.rxInit = "DRP_MOD_ISSUE" -> "DRP_MOD_WAIT"
      [] xcvr.rxInit = "DRP_MOD_WAIT" -> "WAIT_PMARST_FALL"
      [] xcvr.rxInit = "WAIT_PMARST_FALL" -> IF xcvr.pma = 1 THEN "DRP_RESTORE_ISSUE" ELSE "WAIT_PMARST_FALL"
      [] xcvr.rxInit = "DRP_RESTORE_ISSUE" -> "DRP_RESTORE_WAIT"
      [] OTHER -> "DONE"

HoldsReset == {"GTRXRESET", "DRP_READ_ISSUE", "DRP_READ_WAIT", "DRP_MOD_ISSUE", "DRP_MOD_WAIT"}

GtpRxReset == xcvr.rxInit \in HoldsReset
UltraScaleRxReset(restart) == ~TxReady \/ restart

XcvrNext(restart) ==
    [xcvr EXCEPT
       !.txInit   = IF xcvr.kind = "gtp" THEN GtpTxInit ELSE UltraScaleTxInit,
       !.rxInit   = IF xcvr.kind = "gtp" THEN RxInitFsm(xcvr.restart = 1) ELSE @,
       !.restart  = IF restart THEN CrossTime ELSE IF @ > 0 THEN @ - 1 ELSE 0,
       !.drp      = CASE xcvr.rxInit = "DRP_MOD_ISSUE" -> "masked"
                      [] xcvr.rxInit = "DRP_RESTORE_ISSUE" -> Restored
                      [] OTHER -> @,
       !.drpvalue = IF xcvr.rxInit = "DRP_READ_WAIT" THEN xcvr.drp ELSE @,
       !.pma      = IF xcvr.rxInit \in HoldsReset THEN 2 ELSE IF @ > 0 THEN @ - 1 ELSE 0,
       !.rx_reset = IF xcvr.kind = "gtp" THEN GtpRxReset ELSE UltraScaleRxReset(restart),
       !.cdr_lock_counter = IF xcvr.rx_reset THEN 0
                            ELSE IF @ # CdrLockTime THEN @ + 1 ELSE @,
       !.cdr_locked = ~xcvr.rx_reset /\ (@ \/ xcvr.cdr_lock_counter = CdrLockTime)]

-----------------------------------------------------------------------------
(* The partner, external.  It needs two equal registers, too. *)

PeerStates == {"BREAK", "ABILITY", "ACK", "COMPLETE", "OK"}

PeerReset == [fsm |-> "BREAK", timer |-> LinkTime, previous |-> NoAbility, match |-> "none"]

PeerConfigReg ==
    CASE peer.fsm = "BREAK" -> NoAbility
      [] peer.fsm = "ABILITY" -> ability
      [] OTHER -> [ability EXCEPT !.ack = TRUE]

PeerSpeed == IF ability.sgmii THEN ability.speed ELSE 2

PeerMatch(r) ==
    IF ~r.seen_config_reg \/ ~SameAbility(peer.previous, r.config_reg) THEN "none"
    ELSE IF IsEmpty(r.config_reg) THEN "empty"
    ELSE IF r.config_reg.ack /\ peer.previous.ack THEN "ack" ELSE "ability"

PeerFsm ==
    IF peer.fsm = "BREAK" THEN IF peer.timer = 0 THEN "ABILITY" ELSE "BREAK"
    ELSE IF peer.match = "empty" THEN "BREAK"
    ELSE CASE peer.fsm = "ABILITY" /\ peer.match \in {"ability", "ack"} -> "ACK"
           [] peer.fsm = "ACK" /\ peer.match = "ack" -> "COMPLETE"
           [] peer.fsm = "COMPLETE" /\ peer.timer = 0 -> "OK"
           [] OTHER -> peer.fsm

PeerNext(r, lost) ==
    IF lost THEN PeerReset
    ELSE [fsm      |-> PeerFsm,
          timer    |-> IF PeerFsm # peer.fsm \/ peer.fsm \notin {"BREAK", "COMPLETE"} THEN LinkTime
                       ELSE IF peer.timer = 0 THEN 0 ELSE peer.timer - 1,
          previous |-> IF r.seen_config_reg THEN r.config_reg ELSE peer.previous,
          match    |-> PeerMatch(r)]

-----------------------------------------------------------------------------
(* What each end's paths are given in a cycle. *)

TxIn(e) ==
    [config_stb  |-> IF e = "pcs" THEN ConfigStb ELSE peer.fsm # "OK",
     config_reg  |-> IF e = "pcs" THEN ConfigReg ELSE PeerConfigReg,
     sgmii_speed |-> IF e = "pcs" THEN SgmiiSpeed ELSE PeerSpeed,
     tx_stb      |-> e = talker /\ offer > 0,
     tx_data     |-> offer]

Other(e) == IF e = "pcs" THEN "peer" ELSE "pcs"

\* A cut takes both directions, deafness the one to the PCS.
Silent(e) == IF e = "pcs" THEN line.fault # "none" ELSE line.fault = "cut" \/ ~TxReady

Group(e) == IF Silent(e) THEN Invalid ELSE TxGroup(tx[Other(e)], TxIn(Other(e)))

Up == Running /\ peer.fsm = "OK" /\ line.fault = "none"

LinkInit ==
    /\ tx = [e \in Ends |-> TxReset] /\ rx = [e \in Ends |-> RxReset]
    /\ an = AnReset /\ heard = HeardReset
    /\ \E kind \in Transceivers : xcvr = XcvrReset(kind)
    /\ peer = PeerReset /\ ability \in Abilities
    /\ talker \in Ends /\ offer = 0 /\ burst = << >> /\ got = << >>
    /\ line = [fault |-> "none", time |-> 0] /\ faults = 0 /\ deaf = FALSE

\* The transceiver's clocks run once it is ready; until then the registers of
\* the PCS they drive are in reset.
PathsNext ==
    /\ tx' = [e \in Ends |-> IF e = "pcs" /\ ~TxReady THEN TxReset ELSE TxNext(tx[e], TxIn(e))]
    /\ rx' = [pcs  |-> IF RxReady THEN RxNext(rx["pcs"], Group("pcs"), SgmiiSpeed) ELSE RxReset,
              peer |-> RxNext(rx["peer"], Group("peer"), PeerSpeed)]
    /\ an' = IF TxReady THEN AnNext ELSE AnReset
    /\ heard' = IF RxReady THEN HeardNext(rx["pcs"], Group("pcs")) ELSE HeardReset
    /\ xcvr' = XcvrNext(TxReady /\ Restart)

\* A sender offers the bytes of a frame one after the other; once both ends are up
\* it begins when it likes, but for the MAC's gap that lets idles out in between.
Offer ==
    /\ UNCHANGED talker
    /\ IF offer = 0
       THEN offer' \in (IF Up /\ tx[talker].fsm = "IDLE" THEN {0, 1} ELSE {0})
       ELSE IF ~TxAck(tx[talker], TxIn(talker)) THEN offer' = offer
       ELSE offer' \in (IF offer = 1 THEN {2} ELSE IF offer < FrameSize THEN {0, offer + 1} ELSE {0})

\* Frames are followed from their first byte on while both ends are up; << 0 >>
\* stands for one that began or ended otherwise.
Follow ==
    LET s      == tx[talker]
        in     == TxIn(talker)
        r      == rx[Other(talker)]
        taken  == TxTimed(s, in) /\ TxAck(s, in)
        begins == TxBegins(s, in)
        before == IF begins THEN << >> ELSE burst
    IN  /\ burst' = IF ~Up \/ (IF begins THEN offer # 1 ELSE burst = << 0 >>) THEN << 0 >>
                    ELSE IF taken THEN Append(before, offer) ELSE before
        /\ got' = IF r.valid /\ Up /\ burst # << 0 >> THEN Append(got, r.data)
                  ELSE IF s.fsm \in {"START", "IDLE"} \/ ~Up THEN << >> ELSE got

Fault(kind) ==
    /\ kind \in Faults /\ faults < MaxFaults /\ line.fault = "none" /\ TxReady
    /\ faults' = faults + 1
    /\ deaf' = (deaf \/ kind = "deaf")
    /\ line' = IF kind = "restart" THEN line ELSE [fault |-> kind, time |-> CutTime]
    /\ peer' = PeerNext(rx["peer"], kind = "restart")

NoFault ==
    /\ UNCHANGED << faults, deaf >>
    /\ line' = IF line.fault = "none" THEN line
               ELSE IF line.time = 1 THEN [fault |-> "none", time |-> 0]
               ELSE [line EXCEPT !.time = @ - 1]
    /\ peer' = PeerNext(rx["peer"], Group("peer") = Invalid)

LinkNext ==
    /\ PathsNext /\ Offer /\ Follow /\ UNCHANGED ability
    /\ NoFault \/ \E kind \in FaultKinds : Fault(kind)
=============================================================================
