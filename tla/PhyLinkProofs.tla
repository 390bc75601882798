---------------------------- MODULE PhyLinkProofs ----------------------------
(***************************************************************************)
(* Theorems about PhyLink, for any timers, abilities, faults and clocks.   *)
(***************************************************************************)
EXTENDS PhyLink, SequenceTheorems, TLAPS

-----------------------------------------------------------------------------
(* Commas: which parity the code group of each state has. *)

ParityOK(t) ==
    /\ t.fsm \in TxStates /\ t.parity \in {0, 1}
    /\ t.fsm \in {"START", "CONFIG_REG_LSB"} => t.parity = 0
    /\ t.fsm \in {"CONFIG_D", "CONFIG_REG_MSB", "IDLE", "CARRIER_EXTEND_2"} => t.parity = 1

ParityInv == \A e \in Ends : ParityOK(tx[e])

\* However long a frame, its /R/s bring the path back to START on an even place.
LEMMA ParityStep ==
    ASSUME NEW s, NEW in, ParityOK(s)
    PROVE  ParityOK(TxNext(s, in))
<1>1. /\ TxNext(s, in).fsm = TxFsm(s, in)
      /\ TxNext(s, in).parity = 1 - s.parity
  BY DEF TxNext
<1>2. 1 - s.parity \in {0, 1}
  BY DEF ParityOK
<1>3. CASE s.fsm \in {"START", "CONFIG_REG_LSB"}
  <2>1. s.parity = 0 /\ TxFsm(s, in) \in {"CONFIG_D", "DATA", "IDLE", "CONFIG_REG_MSB"}
    BY <1>3 DEF ParityOK, TxFsm
  <2>2. QED
    BY <1>1, <2>1 DEF ParityOK, TxStates
<1>4. CASE s.fsm \in {"CONFIG_D", "CONFIG_REG_MSB", "IDLE", "CARRIER_EXTEND_2"}
  <2>1. s.parity = 1 /\ TxFsm(s, in) \in {"CONFIG_REG_LSB", "START"}
    BY <1>4 DEF ParityOK, TxFsm
  <2>2. QED
    BY <1>1, <2>1 DEF ParityOK, TxStates
<1>5. CASE s.fsm = "DATA"
  <2>1. TxFsm(s, in) \in {"DATA", "CARRIER_EXTEND_1"}
    BY <1>5 DEF TxFsm
  <2>2. QED
    BY <1>1, <1>2, <2>1 DEF ParityOK, TxStates
<1>6. CASE s.fsm = "CARRIER_EXTEND_1"
  <2>1. TxFsm(s, in) = AfterExtend(s)
    BY <1>6 DEF TxFsm
  <2>2. \/ s.parity = 1 /\ AfterExtend(s) = "START"
        \/ s.parity = 0 /\ AfterExtend(s) = "CARRIER_EXTEND_2"
    BY DEF AfterExtend, ParityOK
  <2>3. QED
    BY <1>1, <2>1, <2>2 DEF ParityOK, TxStates
<1>7. QED
  BY <1>3, <1>4, <1>5, <1>6 DEF ParityOK, TxStates

LEMMA ParityReset == ParityOK(TxReset)
  BY DEF ParityOK, TxReset, TxStates

LEMMA ParityInit == Init => ParityInv
<1>1. SUFFICES ASSUME Init, NEW e \in Ends PROVE ParityOK(tx[e])
  BY DEF ParityInv
<1>2. tx[e] = TxReset
  BY <1>1 DEF Init, LinkInit
<1>3. QED
  BY <1>2, ParityReset

LEMMA ParityPreserved == ParityInv /\ [Next]_vars => ParityInv'
<1>1. SUFFICES ASSUME ParityInv, [Next]_vars, NEW e \in Ends PROVE ParityOK(tx'[e])
  BY DEF ParityInv
<1>2. ParityOK(tx[e])
  BY <1>1 DEF ParityInv
<1>3. CASE PcsStep
  <2>1. tx'[e] = TxReset \/ tx'[e] = TxNext(tx[e], TxIn(e))
    BY <1>3 DEF PcsStep, LinkNext, PathsNext
  <2>2. QED
    BY <1>2, <2>1, ParityReset, ParityStep
<1>4. CASE PinStep \/ UNCHANGED vars
  <2>1. tx' = tx
    BY <1>4 DEF PinStep, vars, linkVars
  <2>2. QED
    BY <1>2, <2>1
<1>5. QED
  BY <1>1, <1>3, <1>4 DEF Next

\* Every code group that opens an ordered set is on an even place, for any order of
\* configuration, idles and frames of any length, and any restarts
\* (pcs_1000basex.py:139-154).
THEOREM CommasAligned == Spec => []CommaOnEven
<1>1. ParityInv => CommaOnEven
  BY DEF ParityInv, ParityOK, CommaOnEven
<1>2. QED
  BY <1>1, ParityInit, ParityPreserved, PTL DEF Spec

-----------------------------------------------------------------------------
(* The transceiver's register 0x011. *)

XcvrType ==
    [kind : {"gtp", "gth"}, txInit : TxInitStates, rxInit : RxInitStates,
     drp : {"config", "masked"}, drpvalue : {"config", "masked"}, pma : 0 .. 2, restart : 0 .. CrossTime,
     rx_reset : BOOLEAN, cdr_lock_counter : 0 .. CdrLockTime, cdr_locked : BOOLEAN]

\* The bit is cleared only between the write that clears it and the one that
\* restores it, and what the latter writes was read before the former.  An
\* UltraScale transceiver has no such FSM: its state stays the first one.
DrpInv ==
    /\ xcvr \in XcvrType
    /\ xcvr.kind # "gtp" => xcvr.rxInit = "WAIT_ENABLE"
    /\ xcvr.rxInit \notin {"DRP_MOD_WAIT", "WAIT_PMARST_FALL", "DRP_RESTORE_ISSUE"} => xcvr.drp = "config"
    /\ xcvr.rxInit \in {"DRP_MOD_ISSUE", "DRP_MOD_WAIT", "WAIT_PMARST_FALL", "DRP_RESTORE_ISSUE"} =>
         xcvr.drpvalue = "config"

LEMMA DrpInit == Init => DrpInv
<1>1. SUFFICES ASSUME Init PROVE DrpInv
  OBVIOUS
<1>2. PICK kd \in Transceivers : xcvr = XcvrReset(kd)
  BY <1>1 DEF Init, LinkInit
<1>3. kd \in {"gtp", "gth"} /\ CrossTime \in Nat /\ CdrLockTime \in Nat
  BY LinkAssumption DEF LinkAssumption
<1>4. QED
  BY <1>2, <1>3 DEF DrpInv, XcvrType, XcvrReset, TxInitStates, RxInitStates

\* Where the FSM may go, by what the register and the copy of it are.
LEMMA RxInitStep ==
    ASSUME xcvr.rxInit \in RxInitStates, NEW restart
    PROVE  \/ /\ xcvr.rxInit \in {"WAIT_ENABLE", "GTRXRESET", "DRP_READ_ISSUE", "DRP_RESTORE_ISSUE",
                                  "DRP_RESTORE_WAIT", "DONE"}
              /\ RxInitFsm(restart) \in {"WAIT_ENABLE", "GTRXRESET", "DRP_READ_ISSUE", "DRP_READ_WAIT",
                                         "DRP_RESTORE_WAIT", "DONE"}
           \/ xcvr.rxInit = "DRP_READ_WAIT" /\ RxInitFsm(restart) = "DRP_MOD_ISSUE"
           \/ xcvr.rxInit = "DRP_MOD_ISSUE" /\ RxInitFsm(restart) = "DRP_MOD_WAIT"
           \/ /\ xcvr.rxInit \in {"DRP_MOD_WAIT", "WAIT_PMARST_FALL"}
              /\ RxInitFsm(restart) \in {"WAIT_PMARST_FALL", "DRP_RESTORE_ISSUE"}
<1>1. CASE RestartsDone(restart) # xcvr.rxInit
  <2>1. xcvr.rxInit = "DONE" /\ RestartsDone(restart) = "WAIT_ENABLE"
    BY <1>1, Zenon DEF RestartsDone
  <2>2. RxInitFsm(restart) = "WAIT_ENABLE"
    BY <1>1, <2>1 DEF RxInitFsm
  <2>3. QED
    BY <2>1, <2>2
<1>2. CASE RestartsDone(restart) = xcvr.rxInit
  <2>1. CASE xcvr.rxInit \in {"WAIT_ENABLE", "WAIT_PMARST_FALL"}
    <3>1. RxInitFsm(restart) \in IF xcvr.rxInit = "WAIT_ENABLE" THEN {"GTRXRESET", "WAIT_ENABLE"}
                                 ELSE {"DRP_RESTORE_ISSUE", "WAIT_PMARST_FALL"}
      BY <1>2, <2>1 DEF RxInitFsm
    <3>2. QED
      BY <2>1, <3>1
  <2>2. CASE xcvr.rxInit \notin {"WAIT_ENABLE", "WAIT_PMARST_FALL"}
    BY <1>2, <2>2 DEF RxInitFsm, RxInitStates
  <2>3. QED
    BY <2>1, <2>2
<1>3. QED
  BY <1>1, <1>2

\* What a cycle makes of the transceiver's registers.
LEMMA XcvrStep ==
    ASSUME xcvr \in XcvrType, NEW restart
    PROVE  /\ XcvrNext(restart) \in XcvrType /\ XcvrNext(restart).kind = xcvr.kind
           /\ XcvrNext(restart).rxInit = IF xcvr.kind = "gtp" THEN RxInitFsm(xcvr.restart = 1) ELSE xcvr.rxInit
           /\ XcvrNext(restart).drp = IF xcvr.rxInit = "DRP_MOD_ISSUE" THEN "masked"
                                      ELSE IF xcvr.rxInit = "DRP_RESTORE_ISSUE" THEN xcvr.drpvalue ELSE xcvr.drp
           /\ XcvrNext(restart).drpvalue = IF xcvr.rxInit = "DRP_READ_WAIT" THEN xcvr.drp ELSE xcvr.drpvalue
<1> DEFINE txInit   == IF xcvr.kind = "gtp" THEN GtpTxInit ELSE UltraScaleTxInit
           rxInit   == IF xcvr.kind = "gtp" THEN RxInitFsm(xcvr.restart = 1) ELSE xcvr.rxInit
           rst      == IF restart THEN CrossTime ELSE IF xcvr.restart > 0 THEN xcvr.restart - 1 ELSE 0
           drp      == CASE xcvr.rxInit = "DRP_MOD_ISSUE" -> "masked"
                         [] xcvr.rxInit = "DRP_RESTORE_ISSUE" -> Restored
                         [] OTHER -> xcvr.drp
           drpvalue == IF xcvr.rxInit = "DRP_READ_WAIT" THEN xcvr.drp ELSE xcvr.drpvalue
           pma      == IF xcvr.rxInit \in HoldsReset THEN 2 ELSE IF xcvr.pma > 0 THEN xcvr.pma - 1 ELSE 0
           rx_reset == IF xcvr.kind = "gtp" THEN GtpRxReset ELSE UltraScaleRxReset(restart)
           counter  == IF xcvr.rx_reset THEN 0
                       ELSE IF xcvr.cdr_lock_counter # CdrLockTime THEN xcvr.cdr_lock_counter + 1
                       ELSE xcvr.cdr_lock_counter
           locked   == ~xcvr.rx_reset /\ (xcvr.cdr_locked \/ xcvr.cdr_lock_counter = CdrLockTime)
<1>1. XcvrNext(restart) =
        [xcvr EXCEPT !.txInit = txInit, !.rxInit = rxInit, !.restart = rst, !.drp = drp,
                     !.drpvalue = drpvalue, !.pma = pma, !.rx_reset = rx_reset,
                     !.cdr_lock_counter = counter, !.cdr_locked = locked]
  BY Zenon DEF XcvrNext
<1>2. txInit \in TxInitStates
  BY DEF GtpTxInit, UltraScaleTxInit, TxInitStates
<1>3. rxInit \in RxInitStates
  <2>1. xcvr.rxInit \in RxInitStates
    BY DEF XcvrType
  <2>2. RxInitFsm(xcvr.restart = 1) \in RxInitStates
    BY <2>1, RxInitStep DEF RxInitStates
  <2>3. QED
    BY <2>1, <2>2
<1>4. rst \in 0 .. CrossTime
  <2>1. xcvr.restart \in 0 .. CrossTime /\ CrossTime \in Nat
    BY LinkAssumption DEF XcvrType, LinkAssumption
  <2>2. (IF xcvr.restart > 0 THEN xcvr.restart - 1 ELSE 0) \in 0 .. CrossTime /\ CrossTime \in 0 .. CrossTime
    BY <2>1
  <2>3. QED
    BY <2>2, Zenon
<1>5. /\ drp \in {"config", "masked"} /\ drpvalue \in {"config", "masked"}
      /\ drp = IF xcvr.rxInit = "DRP_MOD_ISSUE" THEN "masked"
               ELSE IF xcvr.rxInit = "DRP_RESTORE_ISSUE" THEN xcvr.drpvalue ELSE xcvr.drp
  BY DEF XcvrType, Restored
<1>6. pma \in 0 .. 2
  BY DEF XcvrType
<1>7. rx_reset \in BOOLEAN
  <2>1. GtpRxReset \in BOOLEAN
    BY DEF GtpRxReset
  <2>2. UltraScaleRxReset(restart) \in BOOLEAN
    BY DEF UltraScaleRxReset
  <2>3. QED
    BY <2>1, <2>2, Zenon
<1>8. counter \in 0 .. CdrLockTime
  <2>1. xcvr.cdr_lock_counter \in 0 .. CdrLockTime /\ CdrLockTime \in Nat
    BY LinkAssumption DEF XcvrType, LinkAssumption
  <2>2. /\ 0 \in 0 .. CdrLockTime
        /\ (IF xcvr.cdr_lock_counter # CdrLockTime THEN xcvr.cdr_lock_counter + 1
            ELSE xcvr.cdr_lock_counter) \in 0 .. CdrLockTime
    BY <2>1
  <2>3. QED
    BY <2>2, Zenon
<1>9. locked \in BOOLEAN
  BY Zenon
<1> HIDE DEF txInit, rxInit, rst, drp, drpvalue, pma, rx_reset, counter, locked
<1>10. XcvrNext(restart) \in XcvrType
  BY <1>1, <1>2, <1>3, <1>4, <1>5, <1>6, <1>7, <1>8, <1>9 DEF XcvrType
<1>11. /\ XcvrNext(restart).kind = xcvr.kind /\ XcvrNext(restart).rxInit = rxInit
       /\ XcvrNext(restart).drp = drp /\ XcvrNext(restart).drpvalue = drpvalue
  BY <1>1 DEF XcvrType
<1>12. QED
  BY <1>5, <1>10, <1>11, Zenon DEF rxInit, drpvalue

LEMMA DrpPreserved == DrpInv /\ [Next]_vars => DrpInv'
<1>1. SUFFICES ASSUME DrpInv, [Next]_vars PROVE DrpInv'
  OBVIOUS
<1>2. xcvr \in XcvrType /\ xcvr.rxInit \in RxInitStates
  BY <1>1 DEF DrpInv, XcvrType
<1>3. CASE PcsStep
  <2>1. xcvr' = XcvrNext(TxReady /\ Restart)
    BY <1>3 DEF PcsStep, LinkNext, PathsNext
  <2>2. CASE xcvr.kind = "gtp"
    <3>1. xcvr'.rxInit = RxInitFsm(xcvr.restart = 1)
      BY <1>2, <2>1, <2>2, XcvrStep
    <3>2. /\ xcvr' \in XcvrType /\ xcvr'.kind = "gtp"
          /\ xcvr'.drp = IF xcvr.rxInit = "DRP_MOD_ISSUE" THEN "masked"
                         ELSE IF xcvr.rxInit = "DRP_RESTORE_ISSUE" THEN xcvr.drpvalue ELSE xcvr.drp
          /\ xcvr'.drpvalue = IF xcvr.rxInit = "DRP_READ_WAIT" THEN xcvr.drp ELSE xcvr.drpvalue
      BY <1>2, <2>1, <2>2, XcvrStep
    <3>3. CASE /\ xcvr.rxInit \in {"WAIT_ENABLE", "GTRXRESET", "DRP_READ_ISSUE", "DRP_RESTORE_ISSUE",
                                   "DRP_RESTORE_WAIT", "DONE"}
               /\ xcvr'.rxInit \in {"WAIT_ENABLE", "GTRXRESET", "DRP_READ_ISSUE", "DRP_READ_WAIT",
                                    "DRP_RESTORE_WAIT", "DONE"}
      BY <1>1, <3>2, <3>3 DEF DrpInv
    <3>4. CASE xcvr.rxInit = "DRP_READ_WAIT" /\ xcvr'.rxInit = "DRP_MOD_ISSUE"
      BY <1>1, <3>2, <3>4 DEF DrpInv
    <3>5. CASE xcvr.rxInit = "DRP_MOD_ISSUE" /\ xcvr'.rxInit = "DRP_MOD_WAIT"
      BY <1>1, <3>2, <3>5 DEF DrpInv
    <3>6. CASE /\ xcvr.rxInit \in {"DRP_MOD_WAIT", "WAIT_PMARST_FALL"}
               /\ xcvr'.rxInit \in {"WAIT_PMARST_FALL", "DRP_RESTORE_ISSUE"}
      BY <1>1, <3>2, <3>6 DEF DrpInv
    <3>7. QED
      BY <1>2, <3>1, <3>3, <3>4, <3>5, <3>6, RxInitStep, Zenon
  <2>3. CASE xcvr.kind # "gtp"
    <3>1. xcvr'.rxInit = xcvr.rxInit
      BY <1>2, <2>1, <2>3, XcvrStep
    <3>2. xcvr' \in XcvrType /\ xcvr.rxInit = "WAIT_ENABLE"
      BY <1>1, <1>2, <2>1, <2>3, XcvrStep DEF DrpInv
    <3>3. xcvr'.drp = xcvr.drp
      BY <1>2, <2>1, <3>2, XcvrStep
    <3>4. QED
      BY <1>1, <3>1, <3>2, <3>3 DEF DrpInv
  <2>4. QED
    BY <2>2, <2>3
<1>4. CASE PinStep \/ UNCHANGED vars
  <2>1. xcvr' = xcvr
    BY <1>4 DEF PinStep, vars, linkVars
  <2>2. QED
    BY <1>1, <2>1 DEF DrpInv, XcvrType, TxInitStates, RxInitStates
<1>5. QED
  BY <1>1, <1>3, <1>4 DEF Next

\* Restarts, which reach the FSM at any moment, never leave the register masked, nor
\* have the masked value taken for the configured one (a7_gtp.py:152-221).
THEOREM DrpAlwaysRestored == Spec => []DrpRestored
<1>1. DrpInv => DrpRestored
  BY DEF DrpInv, DrpRestored
<1>2. QED
  BY <1>1, DrpInit, DrpPreserved, PTL DEF Spec

-----------------------------------------------------------------------------
(* The mode detection of GMII/MII. *)

\* Cycles since the tick that COUNT, or IDLE after a detection, began with.
Elapsed == IF detect.eth_counter = 0 THEN TickCycles - 1 ELSE detect.eth_counter - 1

\* As long as the speed has not changed since the tick, the count is what the speed
\* makes of the cycles elapsed; the mode is the speed once a whole count has been.
DetectInv ==
    /\ detect \in [mode : Modes, fsm : {"IDLE", "COUNT", "DETECTION"}, eth_counter : 0 .. TickCycles - 1,
                   sys_counter : Nat]
    /\ speed \in Modes /\ calm \in 0 .. SettleCycles
    /\ detect.fsm = "COUNT" => /\ calm >= Elapsed => detect.sys_counter = Elapsed * SysCycles
                               /\ calm > 2 * TickCycles + Elapsed => Mode = speed
    /\ detect.fsm = "DETECTION" => /\ Elapsed = 0
                                   /\ calm >= TickCycles => detect.sys_counter = TickCycles * SysCycles
                                   /\ calm > 3 * TickCycles => Mode = speed
    /\ detect.fsm = "IDLE" => (calm > TickCycles + Elapsed => Mode = speed)

LEMMA ClockFacts ==
    /\ TickCycles \in Nat \ {0} /\ MiiRatio \in Nat /\ MiiRatio > 1 /\ SettleCycles \in Nat
    /\ SettleCycles > 3 * TickCycles
  BY PinAssumption DEF PinAssumption, SettleCycles

\* A count in MII mode is above the threshold, a count in GMII mode is not.
LEMMA ThresholdBetween ==
    /\ Threshold \in Nat /\ ~(TickCycles * 1 > Threshold) /\ TickCycles * MiiRatio > Threshold
<1>1. TickCycles \in Nat \ {0} /\ MiiRatio \in Nat /\ MiiRatio >= 2
  BY ClockFacts
<1>2. /\ Threshold \in Nat /\ Threshold < TickCycles * 2 /\ TickCycles <= Threshold
  BY <1>1 DEF Threshold
<1>3. TickCycles * MiiRatio >= TickCycles * 2
  <2>1. TickCycles * (MiiRatio - 2) >= 0
    BY <1>1
  <2>2. QED
    BY <1>1, <2>1
<1>4. QED
  BY <1>1, <1>2, <1>3

LEMMA DetectInit == Init => DetectInv
<1> SUFFICES ASSUME Init PROVE DetectInv
  OBVIOUS
<1>1. /\ detect = [mode |-> "GMII", fsm |-> "IDLE", eth_counter |-> 0, sys_counter |-> 0]
      /\ calm = 0 /\ speed \in Modes
  BY DEF Init, PinInit, Modes
<1>2. 0 \in 0 .. TickCycles - 1 /\ 0 \in 0 .. SettleCycles
  BY ClockFacts
<1>3. detect.fsm = "IDLE" /\ Elapsed = TickCycles - 1
  BY <1>1 DEF Elapsed
<1>4. ~(calm > TickCycles + Elapsed)
  BY <1>1, <1>3, ClockFacts
<1>5. QED
  BY <1>1, <1>2, <1>3, <1>4 DEF DetectInv, Modes

\* A cycle of the detection: the counter of ticks goes round, and the FSM goes on when it
\* is at its start.
LEMMA DetectCycle ==
    ASSUME DetectInv,
           detect' = [DetectNext(detect.eth_counter = 0) EXCEPT !.eth_counter = (@ + 1) % TickCycles]
    PROVE  /\ detect'.eth_counter \in 0 .. TickCycles - 1
           /\ Elapsed \in 0 .. TickCycles - 1
           /\ detect.eth_counter = 0 => Elapsed = TickCycles - 1 /\ Elapsed' = 0
           /\ detect.eth_counter # 0 => Elapsed' = Elapsed + 1 /\ Elapsed' < TickCycles
<1>1. /\ detect.eth_counter \in 0 .. TickCycles - 1
      /\ DetectNext(detect.eth_counter = 0).eth_counter = detect.eth_counter
  BY DEF DetectInv, DetectNext
<1>2. /\ DOMAIN DetectNext(detect.eth_counter = 0) = {"mode", "fsm", "eth_counter", "sys_counter"}
  BY DEF DetectInv, DetectNext
<1>3. detect'.eth_counter = (detect.eth_counter + 1) % TickCycles
  BY <1>1, <1>2
<1> DEFINE e == detect.eth_counter
<1>4. e \in 0 .. TickCycles - 1 /\ TickCycles \in Nat \ {0} /\ detect'.eth_counter = (e + 1) % TickCycles
  BY <1>1, <1>3, ClockFacts
<1>5. Elapsed = (IF e = 0 THEN TickCycles - 1 ELSE e - 1)
      /\ Elapsed' = (IF detect'.eth_counter = 0 THEN TickCycles - 1 ELSE detect'.eth_counter - 1)
  BY DEF Elapsed
<1> HIDE DEF e
<1>6. detect'.eth_counter = IF e + 1 = TickCycles THEN 0 ELSE e + 1
  <2>1. CASE e + 1 = TickCycles
    <3>1. TickCycles % TickCycles = 0
      BY <1>4
    <3>2. QED
      BY <1>4, <2>1, <3>1
  <2>2. CASE e + 1 # TickCycles
    <3>1. e + 1 \in 0 .. TickCycles - 1
      BY <1>4, <2>2
    <3>2. (e + 1) % TickCycles = e + 1
      BY <1>4, <3>1
    <3>3. QED
      BY <1>4, <2>2, <3>2
  <2>3. QED
    BY <2>1, <2>2
<1>7. e = 0 => Elapsed = TickCycles - 1 /\ Elapsed' = 0
  BY <1>4, <1>5, <1>6
<1>8. e # 0 => Elapsed' = Elapsed + 1 /\ Elapsed' < TickCycles
  BY <1>4, <1>5, <1>6
<1>9. detect'.eth_counter \in 0 .. TickCycles - 1 /\ Elapsed \in 0 .. TickCycles - 1
  BY <1>4, <1>5, <1>6
<1>10. QED
  BY <1>7, <1>8, <1>9 DEF e

LEMMA DetectFields ==
    ASSUME DetectInv,
           detect' = [DetectNext(detect.eth_counter = 0) EXCEPT !.eth_counter = (@ + 1) % TickCycles]
    PROVE  /\ detect.fsm = "IDLE" =>
                /\ detect'.sys_counter = 0 /\ detect'.mode = detect.mode
                /\ detect'.fsm = IF detect.eth_counter = 0 THEN "COUNT" ELSE "IDLE"
           /\ detect.fsm = "COUNT" =>
                /\ detect'.sys_counter = detect.sys_counter + SysCycles /\ detect'.mode = detect.mode
                /\ detect'.fsm = IF detect.eth_counter = 0 THEN "DETECTION" ELSE "COUNT"
           /\ detect.fsm = "DETECTION" =>
                /\ detect'.sys_counter = detect.sys_counter /\ detect'.fsm = "IDLE"
                /\ detect'.mode = IF detect.sys_counter > Threshold THEN "MII" ELSE "GMII"
           /\ detect' \in [mode : Modes, fsm : {"IDLE", "COUNT", "DETECTION"},
                           eth_counter : 0 .. TickCycles - 1, sys_counter : Nat]
<1> DEFINE d == DetectNext(detect.eth_counter = 0)
           e == (d.eth_counter + 1) % TickCycles
<1>1. detect \in [mode : Modes, fsm : {"IDLE", "COUNT", "DETECTION"}, eth_counter : 0 .. TickCycles - 1,
                  sys_counter : Nat]
  BY DEF DetectInv
<1>2. SysCycles \in Nat
  BY ClockFacts DEF SysCycles
<1>3. detect' = [d EXCEPT !.eth_counter = e]
  OBVIOUS
<1>4. detect'.eth_counter \in 0 .. TickCycles - 1
  BY DetectCycle
<1> HIDE DEF e
<1>5. CASE detect.fsm = "IDLE"
  <2>1. d = [detect EXCEPT !.sys_counter = 0, !.fsm = IF detect.eth_counter = 0 THEN "COUNT" ELSE "IDLE"]
    BY <1>5 DEF DetectNext
  <2> HIDE DEF d
  <2>2. /\ detect'.sys_counter = 0 /\ detect'.mode = detect.mode
        /\ detect'.fsm = IF detect.eth_counter = 0 THEN "COUNT" ELSE "IDLE"
    BY <1>1, <1>3, <2>1
  <2>3. detect' = [mode |-> detect.mode, fsm |-> IF detect.eth_counter = 0 THEN "COUNT" ELSE "IDLE",
                   eth_counter |-> detect'.eth_counter, sys_counter |-> 0]
    BY <1>1, <1>3, <2>1
  <2>4. QED
    BY <1>1, <1>4, <1>5, <2>2, <2>3
<1>6. CASE detect.fsm = "COUNT"
  <2>1. d = [detect EXCEPT !.sys_counter = detect.sys_counter + SysCycles,
                           !.fsm = IF detect.eth_counter = 0 THEN "DETECTION" ELSE "COUNT"]
    BY <1>6 DEF DetectNext
  <2>2. detect.sys_counter + SysCycles \in Nat
    BY <1>1, <1>2
  <2> HIDE DEF d
  <2>3. QED
    BY <1>1, <1>3, <1>4, <1>6, <2>1, <2>2
<1>7. CASE detect.fsm = "DETECTION"
  <2>1. d = [detect EXCEPT !.mode = IF detect.sys_counter > Threshold THEN "MII" ELSE "GMII",
                           !.fsm = "IDLE"]
    BY <1>7 DEF DetectNext
  <2> HIDE DEF d
  <2>2. QED
    BY <1>1, <1>3, <1>4, <1>7, <2>1 DEF Modes
<1>8. QED
  BY <1>1, <1>5, <1>6, <1>7

\* calm tells how long the speed has been what it is.
CalmStep ==
    /\ speed' \in Modes /\ calm' \in 0 .. SettleCycles
    /\ calm' = 0 \/ (speed' = speed /\ calm' <= calm + 1)

LEMMA CalmKept == ASSUME DetectInv, PinNext, kind = "gmii_mii" PROVE CalmStep
<1>1. calm \in 0 .. SettleCycles /\ speed \in Modes /\ SettleCycles \in Nat
  BY ClockFacts DEF DetectInv
<1>2. CASE calm' = 0
  <2>1. speed' \in Modes
    BY <1>1, <1>2 DEF PinNext
  <2>2. QED
    BY <1>1, <1>2, <2>1 DEF CalmStep
<1>3. CASE calm' # 0
  <2>1. calm' = IF calm < SettleCycles /\ kind = "gmii_mii" THEN calm + 1 ELSE calm
    BY <1>3 DEF PinNext
  <2>2. speed' = speed
    BY <1>3 DEF PinNext
  <2>3. calm' \in 0 .. SettleCycles /\ calm' <= calm + 1
    BY <1>1, <2>1
  <2>4. QED
    BY <1>1, <2>2, <2>3 DEF CalmStep
<1>4. QED
  BY <1>2, <1>3

LEMMA CountOfSpeed ==
    /\ SysCycles \in Nat
    /\ TickCycles * SysCycles > Threshold <=> speed = "MII"
  BY ThresholdBetween, ClockFacts DEF SysCycles

LEMMA DetectStep ==
    ASSUME DetectInv, CalmStep,
           detect' = [DetectNext(detect.eth_counter = 0) EXCEPT !.eth_counter = (@ + 1) % TickCycles]
    PROVE  DetectInv'
<1> DEFINE N == TickCycles
<1>1. /\ N \in Nat \ {0} /\ Elapsed \in 0 .. N - 1 /\ Elapsed' \in Nat
      /\ detect.eth_counter = 0 => Elapsed = N - 1 /\ Elapsed' = 0
      /\ detect.eth_counter # 0 => Elapsed' = Elapsed + 1 /\ Elapsed' < N
  BY DetectCycle, ClockFacts
<1>2. calm \in Nat /\ calm' \in Nat /\ (calm' = 0 \/ (speed' = speed /\ calm' <= calm + 1))
  BY ClockFacts DEF CalmStep, DetectInv
<1>3. SysCycles \in Nat /\ detect.sys_counter \in Nat
  BY CountOfSpeed DEF DetectInv
<1>4. speed' = speed => SysCycles' = SysCycles
  BY DEF SysCycles
<1>5. Mode = detect.mode /\ Mode' = detect'.mode
  BY DEF Mode
<1> HIDE DEF N
<1>6. detect' \in [mode : Modes, fsm : {"IDLE", "COUNT", "DETECTION"},
                   eth_counter : 0 .. TickCycles - 1, sys_counter : Nat]
      /\ speed' \in Modes /\ calm' \in 0 .. SettleCycles
  BY DetectFields DEF CalmStep
<1>7. CASE detect.fsm = "IDLE" /\ detect.eth_counter # 0
  <2>1. detect'.fsm = "IDLE" /\ detect'.mode = detect.mode
    BY <1>7, DetectFields
  <2>2. calm' > N + Elapsed' => calm > N + Elapsed /\ speed' = speed
    BY <1>1, <1>2, <1>7
  <2>3. calm > N + Elapsed => Mode = speed
    BY <1>7 DEF DetectInv, N
  <2>4. QED
    BY <1>5, <1>6, <2>1, <2>2, <2>3 DEF DetectInv, N
<1>8. CASE detect.fsm = "IDLE" /\ detect.eth_counter = 0
  <2>1. detect'.fsm = "COUNT" /\ detect'.mode = detect.mode /\ detect'.sys_counter = 0
    BY <1>8, DetectFields
  <2>2. calm' > 2 * N + Elapsed' => calm > N + Elapsed /\ speed' = speed
    BY <1>1, <1>2, <1>8
  <2>3. calm > N + Elapsed => Mode = speed
    BY <1>8 DEF DetectInv, N
  <2>4. Elapsed' * SysCycles' = 0
    <3>1. Elapsed' = 0 /\ SysCycles' \in Nat
      BY <1>1, <1>8, ClockFacts DEF SysCycles
    <3>2. QED
      BY <3>1
  <2>5. QED
    BY <1>5, <1>6, <2>1, <2>2, <2>3, <2>4 DEF DetectInv, N
<1>9. CASE detect.fsm = "COUNT"
  <2>1. /\ detect'.mode = detect.mode /\ detect'.sys_counter = detect.sys_counter + SysCycles
        /\ detect'.fsm = IF detect.eth_counter = 0 THEN "DETECTION" ELSE "COUNT"
    BY <1>9, DetectFields
  <2>2. calm >= Elapsed => detect'.sys_counter = (Elapsed + 1) * SysCycles
    <3>1. calm >= Elapsed => detect.sys_counter = Elapsed * SysCycles
      BY <1>9 DEF DetectInv
    <3>2. Elapsed * SysCycles + SysCycles = (Elapsed + 1) * SysCycles
      BY <1>1, <1>3
    <3>3. QED
      BY <2>1, <3>1, <3>2
  <2>3. calm > 2 * N + Elapsed => Mode = speed
    BY <1>9 DEF DetectInv, N
  <2>4. CASE detect.eth_counter # 0
    <3>1. calm' > 2 * N + Elapsed' => calm > 2 * N + Elapsed /\ speed' = speed
      BY <1>1, <1>2, <2>4
    <3>2. calm' >= Elapsed' => calm >= Elapsed /\ speed' = speed /\ Elapsed' = Elapsed + 1
      BY <1>1, <1>2, <2>4
    <3>3. calm' >= Elapsed' => detect'.sys_counter = Elapsed' * SysCycles'
      BY <1>4, <2>2, <3>2
    <3>4. QED
      BY <1>5, <1>6, <2>1, <2>3, <2>4, <3>1, <3>3 DEF DetectInv, N
  <2>5. CASE detect.eth_counter = 0
    <3>1. calm' > 3 * N => calm > 2 * N + Elapsed /\ speed' = speed
      BY <1>1, <1>2, <2>5
    <3>2. calm' >= N => calm >= Elapsed /\ speed' = speed
      BY <1>1, <1>2, <2>5
    <3>3. Elapsed + 1 = N /\ Elapsed' = 0
      BY <1>1, <2>5
    <3>4. calm' >= N => detect'.sys_counter = N * SysCycles'
      BY <1>4, <2>2, <3>2, <3>3
    <3>5. QED
      BY <1>5, <1>6, <2>1, <2>3, <2>5, <3>1, <3>3, <3>4 DEF DetectInv, N
  <2>6. QED
    BY <2>4, <2>5
<1>10. CASE detect.fsm = "DETECTION"
  <2>1. /\ detect'.fsm = "IDLE"
        /\ detect'.mode = IF detect.sys_counter > Threshold THEN "MII" ELSE "GMII"
    BY <1>10, DetectFields
  <2>2. Elapsed = 0 /\ (calm >= N => detect.sys_counter = N * SysCycles)
    BY <1>10 DEF DetectInv, N
  <2>3. calm >= N => detect'.mode = speed
    BY <2>1, <2>2, CountOfSpeed DEF DetectInv, Modes, N
  <2>4. calm' > N + Elapsed' => calm >= N /\ speed' = speed
    BY <1>1, <1>2, <2>2
  <2>5. QED
    BY <1>5, <1>6, <2>1, <2>3, <2>4 DEF DetectInv, N
<1>11. QED
  BY <1>7, <1>8, <1>9, <1>10 DEF DetectInv

\* The mode is the chip's once the speed has been the same for long enough, for any
\* length of a tick and any ratio of the clocks, whatever a count began with
\* (gmii_mii.py:148-173).
THEOREM ModeIsTheChips == Spec => []ModeFollowsClock
<1> DEFINE IInv == kind = "gmii_mii" => DetectInv
<1>1. Init => IInv
  BY DetectInit
<1>2. IInv /\ [Next]_vars => IInv'
  <2> SUFFICES ASSUME IInv, [Next]_vars, kind' = "gmii_mii" PROVE DetectInv'
    OBVIOUS
  <2>1. CASE PinStep
    <3>1. kind = "gmii_mii" /\ DetectInv /\ PinNext
      BY <2>1 DEF PinStep, PinNext
    <3>2. detect' = [DetectNext(detect.eth_counter = 0) EXCEPT !.eth_counter = (@ + 1) % TickCycles]
      BY <3>1 DEF PinNext
    <3>3. QED
      BY <3>1, <3>2, CalmKept, DetectStep
  <2>2. CASE PcsStep \/ UNCHANGED vars
    <3>1. UNCHANGED << kind, detect, speed, calm >>
      BY <2>2 DEF PcsStep, vars, pinVars
    <3>2. QED
      BY <3>1 DEF DetectInv, Elapsed, Mode, SysCycles
  <2>3. QED
    BY <2>1, <2>2 DEF Next
<1>3. IInv => ModeFollowsClock
  <2> SUFFICES ASSUME DetectInv, calm = SettleCycles PROVE Mode = speed
    BY DEF ModeFollowsClock
  <2>1. detect.eth_counter \in 0 .. TickCycles - 1 /\ TickCycles \in Nat \ {0}
        /\ SettleCycles = 4 * TickCycles + 2
    BY ClockFacts DEF DetectInv, SettleCycles
  <2>2. Elapsed < TickCycles /\ Elapsed \in Nat
    BY <2>1 DEF Elapsed
  <2>3. calm > TickCycles + Elapsed /\ calm > 2 * TickCycles + Elapsed /\ calm > 3 * TickCycles
    BY <2>1, <2>2
  <2>4. QED
    BY <2>3 DEF DetectInv
<1>4. QED
  BY <1>1, <1>2, <1>3, PTL DEF Spec

-----------------------------------------------------------------------------
(* Code groups: a receiver follows its transmitter. *)

LEMMA GroupFacts ==
    /\ IsK(Comma) /\ IsK(StartGroup) /\ IsK(EndGroup) /\ IsK(Extend) /\ IsK(Invalid)
    /\ ~IsK(Config1) /\ ~IsK(Config2) /\ ~IsK(IdleGroup)
    /\ \A c : ~IsK(Lsb(c)) /\ ~IsK(Msb(c)) /\ ~IsK(Data(c))
    /\ Comma \notin {StartGroup, EndGroup, Extend, Invalid}
    /\ StartGroup \notin {EndGroup, Extend, Invalid}
    /\ IdleGroup \notin {Config1, Config2}
<1>1. /\ Comma.k = "K28.5" /\ StartGroup.k = "K27.7" /\ EndGroup.k = "K29.7" /\ Extend.k = "K23.7"
      /\ Invalid.k = "none" /\ Config1.d = "D21.5" /\ Config2.d = "D2.2" /\ IdleGroup.d = "D16.2"
  BY DEF Comma, StartGroup, EndGroup, Extend, Invalid, Config1, Config2, IdleGroup
<1>2. IsK(Comma) /\ IsK(StartGroup) /\ IsK(EndGroup) /\ IsK(Extend) /\ IsK(Invalid)
  BY DEF IsK, Comma, StartGroup, EndGroup, Extend, Invalid
<1>3. ~IsK(Config1) /\ ~IsK(Config2) /\ ~IsK(IdleGroup)
  BY DEF IsK, Config1, Config2, IdleGroup
<1>4. \A c : ~IsK(Lsb(c)) /\ ~IsK(Msb(c)) /\ ~IsK(Data(c))
  BY DEF IsK, Lsb, Msb, Data
<1>5. QED
  BY <1>1, <1>2, <1>3, <1>4

\* Which code groups tell in which state they were sent.
LEMMA GroupTells ==
    ASSUME NEW s, NEW in, s.fsm \in TxStates
    PROVE  /\ TxGroup(s, in) = Comma => s.fsm = "START" /\ ~TxBegins(s, in)
           /\ TxGroup(s, in) = StartGroup <=> TxBegins(s, in)
           /\ s.fsm = "CONFIG_D" => ~IsK(TxGroup(s, in))
           /\ s.fsm = "CONFIG_REG_LSB" => TxGroup(s, in) = Lsb(s.config_reg)
           /\ s.fsm = "CONFIG_REG_MSB" => TxGroup(s, in) = Msb(s.config_reg)
           /\ s.fsm = "IDLE" => TxGroup(s, in) = IdleGroup
           /\ s.fsm = "DATA" => TxGroup(s, in) = IF in.tx_stb THEN Data(in.tx_data) ELSE EndGroup
<1>1. CASE s.fsm = "START"
  BY <1>1, GroupFacts DEF TxGroup
<1>2. CASE s.fsm # "START"
  <2>1. ~TxBegins(s, in)
    BY <1>2 DEF TxBegins
  <2>2. /\ s.fsm = "CONFIG_D" => TxGroup(s, in) \in {Config1, Config2}
        /\ s.fsm = "CONFIG_REG_LSB" => TxGroup(s, in) = Lsb(s.config_reg)
        /\ s.fsm = "CONFIG_REG_MSB" => TxGroup(s, in) = Msb(s.config_reg)
        /\ s.fsm = "IDLE" => TxGroup(s, in) = IdleGroup
        /\ s.fsm = "DATA" => TxGroup(s, in) = IF in.tx_stb THEN Data(in.tx_data) ELSE EndGroup
        /\ s.fsm \in {"CARRIER_EXTEND_1", "CARRIER_EXTEND_2"} => TxGroup(s, in) = Extend
    BY DEF TxGroup
  <2>3. TxGroup(s, in) \notin {Comma, StartGroup}
    BY <1>2, <2>2, GroupFacts DEF TxStates
  <2>4. QED
    BY <1>2, <2>1, <2>2, <2>3, GroupFacts
<1>3. QED
  BY <1>1, <1>2

LEMMA TxFields ==
    ASSUME NEW s, NEW in
    PROVE  /\ TxNext(s, in).fsm = TxFsm(s, in)
           /\ TxNext(s, in).config_reg = IF s.fsm = "START" /\ in.config_stb THEN in.config_reg
                                         ELSE s.config_reg
           /\ TxNext(s, in).timer = TimerNext(s.timer, TxTimed(s, in), in.sgmii_speed)
  BY DEF TxNext

LEMMA RxFields ==
    ASSUME NEW s, NEW g, NEW speeds
    PROVE  /\ RxNext(s, g, speeds).fsm = RxFsm(s, g)
           /\ RxNext(s, g, speeds).lsb = IF s.fsm = "CONFIG_REG_LSB" /\ ~IsK(g) THEN g.lsb ELSE s.lsb
           /\ RxNext(s, g, speeds).config_reg = IF s.fsm = "CONFIG_REG_MSB" /\ ~IsK(g)
                                                THEN Joined(s.lsb, g.msb) ELSE s.config_reg
           /\ RxNext(s, g, speeds).timer = TimerNext(s.timer, RxEn(s, g), speeds)
           /\ RxNext(s, g, speeds).rx_en_d = RxEn(s, g)
           /\ RxNext(s, g, speeds).valid <=> RxEn(s, g) /\ s.timer = 0
           /\ RxNext(s, g, speeds).data = IF RxEn(s, g) /\ ~RxBegins(s, g) THEN g ELSE Preamble55
  BY DEF RxNext, Sampled

\* A receiver in step stays in step, whatever it is given in place of what was sent
\* is no code group.
LEMMA StaysInStep ==
    ASSUME NEW s, NEW r, NEW in, NEW g, NEW speeds, s.fsm \in TxStates, r.fsm \in RxStates,
           InStep(s, r), g \in {TxGroup(s, in), Invalid}
    PROVE  InStep(TxNext(s, in), RxNext(r, g, speeds)) /\ RxFsm(r, g) \in RxStates
<1> DEFINE n == TxNext(s, in)
           m == RxNext(r, g, speeds)
<1>1. /\ n.fsm = TxFsm(s, in) /\ m.fsm = RxFsm(r, g)
      /\ s.fsm # "START" => n.config_reg = s.config_reg
      /\ r.fsm = "CONFIG_REG_LSB" /\ ~IsK(g) => m.lsb = g.lsb
  BY TxFields, RxFields
<1>2. m.rx_en_d = RxEn(r, g) /\ (m.valid => RxEn(r, g))
  BY RxFields
<1> SUFFICES InStep(n, m) /\ m.fsm \in RxStates
  BY <1>1
<1> HIDE DEF n, m
<1>3. IsK(Invalid) /\ Invalid # Comma /\ Invalid # StartGroup
  BY GroupFacts
<1>4. CASE r.fsm = "START"
  <2>1. CASE g = Comma
    <3>1. s.fsm = "START" /\ ~TxBegins(s, in)
      BY <1>3, <2>1, GroupTells
    <3>2. n.fsm \in {"CONFIG_D", "IDLE"}
      BY <1>1, <3>1 DEF TxFsm, TxBegins
    <3>3. m.fsm = "K28_5" /\ ~RxEn(r, g)
      BY <1>1, <1>4, <2>1, GroupFacts DEF RxFsm, RxEn, RxBegins
    <3>4. QED
      BY <1>1, <1>2, <3>2, <3>3 DEF InStep, RxStates
  <2>2. CASE g = StartGroup
    <3>1. TxBegins(s, in)
      BY <1>3, <2>2, GroupTells
    <3>2. n.fsm = "DATA"
      BY <1>1, <3>1 DEF TxFsm, TxBegins
    <3>3. m.fsm = "DATA" /\ RxEn(r, g)
      BY <1>1, <1>4, <2>2, GroupFacts DEF RxFsm, RxEn, RxBegins
    <3>4. QED
      BY <1>1, <1>2, <3>2, <3>3 DEF InStep, RxStates
  <2>3. CASE g \notin {Comma, StartGroup}
    <3>1. m.fsm = "START" /\ ~RxEn(r, g)
      BY <1>1, <1>4, <2>3 DEF RxFsm, RxEn, RxBegins
    <3>2. QED
      BY <1>1, <1>2, <3>1 DEF InStep, RxStates
  <2>4. QED
    BY <2>1, <2>2, <2>3
<1>5. CASE r.fsm = "K28_5"
  <2>1. ~RxEn(r, g) /\ m.fsm = IF g \in {Config1, Config2} THEN "CONFIG_REG_LSB" ELSE "START"
    BY <1>1, <1>5 DEF RxFsm, RxEn, RxBegins
  <2>2. s.fsm \in {"CONFIG_D", "IDLE"}
    BY <1>5 DEF InStep
  <2>3. CASE g \in {Config1, Config2}
    <3>1. s.fsm = "CONFIG_D"
      BY <1>3, <2>2, <2>3, GroupFacts, GroupTells
    <3>2. n.fsm = "CONFIG_REG_LSB"
      BY <1>1, <3>1 DEF TxFsm
    <3>3. QED
      BY <1>1, <1>2, <2>1, <2>3, <3>2 DEF InStep, RxStates
  <2>4. CASE g \notin {Config1, Config2}
    BY <1>1, <1>2, <2>1, <2>4 DEF InStep, RxStates
  <2>5. QED
    BY <2>3, <2>4
<1>6. CASE r.fsm = "CONFIG_REG_LSB"
  <2>1. s.fsm = "CONFIG_REG_LSB" /\ g \in {Lsb(s.config_reg), Invalid}
    BY <1>6, GroupTells DEF InStep
  <2>2. ~TxBegins(s, in) /\ g # StartGroup
    BY <1>3, <2>1, GroupFacts DEF TxBegins
  <2>3. ~RxEn(r, g) /\ m.fsm = IF IsK(g) THEN "START" ELSE "CONFIG_REG_MSB"
    BY <1>1, <1>6, <2>2 DEF RxFsm, RxEn, RxBegins
  <2>4. CASE IsK(g)
    BY <1>1, <1>2, <2>3, <2>4 DEF InStep, RxStates
  <2>5. CASE ~IsK(g)
    <3>1. g.lsb = s.config_reg
      BY <1>3, <2>1, <2>5 DEF Lsb
    <3>2. n.fsm = "CONFIG_REG_MSB" /\ n.config_reg = s.config_reg
      BY <1>1, <2>1 DEF TxFsm
    <3>3. m.lsb = n.config_reg
      BY <1>1, <1>6, <2>5, <3>1, <3>2
    <3>4. QED
      BY <1>1, <1>2, <2>3, <2>5, <3>2, <3>3 DEF InStep, RxStates
  <2>6. QED
    BY <2>4, <2>5
<1>7. CASE r.fsm = "CONFIG_REG_MSB"
  <2>1. m.fsm = "START" /\ ~RxEn(r, g)
    BY <1>1, <1>7 DEF RxFsm, RxEn, RxBegins
  <2>2. QED
    BY <1>1, <1>2, <2>1 DEF InStep, RxStates
<1>8. CASE r.fsm = "DATA"
  <2>1. s.fsm = "DATA"
    BY <1>8 DEF InStep
  <2>2. m.fsm = IF IsK(g) THEN "START" ELSE "DATA"
    BY <1>1, <1>8 DEF RxFsm
  <2>3. RxEn(r, g) <=> ~IsK(g)
    BY <1>8 DEF RxEn, RxBegins, IsK
  <2>4. CASE IsK(g)
    BY <1>1, <1>2, <2>2, <2>3, <2>4 DEF InStep, RxStates
  <2>5. CASE ~IsK(g)
    <3>1. in.tx_stb
      BY <1>3, <2>1, <2>5, GroupFacts, GroupTells
    <3>2. n.fsm = "DATA"
      BY <1>1, <2>1, <3>1 DEF TxFsm
    <3>3. QED
      BY <1>1, <1>2, <2>2, <2>3, <2>5, <3>2 DEF InStep, RxStates
  <2>6. QED
    BY <2>4, <2>5
<1>9. QED
  BY <1>4, <1>5, <1>6, <1>7, <1>8 DEF RxStates

\* Where nothing comes in, and after a reset, a receiver is at START.
LEMMA InStepAlone ==
    ASSUME NEW s, NEW r, NEW speeds, r.fsm \in RxStates
    PROVE  InStep(s, RxReset) /\ InStep(s, RxNext(r, Invalid, speeds)) /\ RxFsm(r, Invalid) = "START"
<1>1. RxFsm(r, Invalid) = "START" /\ ~RxEn(r, Invalid)
  BY GroupFacts DEF RxFsm, RxEn, RxBegins, RxStates
<1>2. /\ RxNext(r, Invalid, speeds).fsm = "START" /\ RxNext(r, Invalid, speeds).rx_en_d = RxEn(r, Invalid)
      /\ RxNext(r, Invalid, speeds).valid => RxEn(r, Invalid)
  BY <1>1, RxFields
<1>3. InStep(s, RxNext(r, Invalid, speeds))
  BY <1>1, <1>2 DEF InStep
<1>4. InStep(s, RxReset)
  BY DEF InStep, RxReset
<1>5. QED
  BY <1>1, <1>3, <1>4

-----------------------------------------------------------------------------
(* Registers and timers of the two paths, and what the PCS has heard. *)

TxRegs == [fsm : TxStates, parity : {0, 1}, c_type : BOOLEAN, config_reg : ConfigRegs, timer : 0 .. Repeats]
RxData == {Preamble55} \cup {Data(b) : b \in Bytes}
RxRegs == [fsm : RxStates, lsb : ConfigRegs, config_reg : ConfigRegs, seen_config_reg : BOOLEAN,
           timer : 0 .. Repeats, rx_en_d : BOOLEAN, valid : BOOLEAN,
           data : RxData]

PathInv ==
    /\ ability \in Abilities /\ talker \in Ends /\ offer \in 0 .. FrameSize /\ got \in Seq(RxData)
    /\ tx \in [Ends -> TxRegs] /\ rx \in [Ends -> RxRegs]
    /\ StepInv /\ PartnerInv

LEMMA RegFacts ==
    /\ NoAbility \in ConfigRegs /\ IsEmpty(NoAbility)
    /\ \A c \in ConfigRegs : Joined(c, c) = c
    /\ \A c, d \in ConfigRegs : Joined(c, d) \in ConfigRegs
    /\ \A c : Lsb(c).lsb = c /\ Msb(c).msb = c
<1>1. NoAbility \in ConfigRegs /\ IsEmpty(NoAbility)
  BY DEF NoAbility, ConfigRegs, IsEmpty
<1>2. \A c \in ConfigRegs : Joined(c, c) = c
  BY DEF Joined, ConfigRegs
<1>3. \A c, d \in ConfigRegs : Joined(c, d) \in ConfigRegs
  BY DEF Joined, ConfigRegs
<1>4. \A c : Lsb(c).lsb = c /\ Msb(c).msb = c
  BY DEF Lsb, Msb
<1>5. QED
  BY <1>1, <1>2, <1>3, <1>4

LEMMA AbilityFacts ==
    ASSUME ability \in Abilities
    PROVE  /\ PartnersRegs \subseteq ConfigRegs /\ PeerSpeed \in 0 .. 3
           /\ PeerConfigReg \in PartnersRegs /\ ability \in ConfigRegs
           /\ \A c \in PartnersRegs \ {NoAbility} : c.sgmii = ability.sgmii /\ c.speed = ability.speed
<1>1. ability \in ConfigRegs
  BY LinkAssumption DEF LinkAssumption
<1>2. /\ [ability EXCEPT !.ack = TRUE] \in ConfigRegs
      /\ [ability EXCEPT !.ack = TRUE].sgmii = ability.sgmii
      /\ [ability EXCEPT !.ack = TRUE].speed = ability.speed
  BY <1>1 DEF ConfigRegs
<1>3. PartnersRegs \subseteq ConfigRegs
  BY <1>1, <1>2, RegFacts DEF PartnersRegs
<1>4. PeerSpeed \in 0 .. 3
  BY <1>1 DEF PeerSpeed, ConfigRegs
<1>5. PeerConfigReg \in PartnersRegs
  BY DEF PeerConfigReg, PartnersRegs
<1>6. \A c \in PartnersRegs \ {NoAbility} : c.sgmii = ability.sgmii /\ c.speed = ability.speed
  BY <1>2 DEF PartnersRegs
<1>7. QED
  BY <1>1, <1>3, <1>4, <1>5, <1>6

\* The PCS runs at 1 Gb/s or at the partner's speed, the latter once it has heard of it.
LEMMA SpeedFacts ==
    ASSUME ability \in Abilities, PartnerInv
    PROVE  /\ SgmiiSpeed \in {2, PeerSpeed}
           /\ ~IsEmpty(heard.link_partner) => SgmiiSpeed = PeerSpeed
<1>1. CASE heard.link_partner = NoAbility
  BY <1>1, RegFacts DEF SgmiiSpeed, NoAbility
<1>2. CASE heard.link_partner # NoAbility
  <2>1. heard.link_partner \in PartnersRegs \ {NoAbility}
    BY <1>2 DEF PartnerInv
  <2>2. heard.link_partner.sgmii = ability.sgmii /\ heard.link_partner.speed = ability.speed
    BY <2>1, AbilityFacts
  <2>3. QED
    BY <2>2 DEF SgmiiSpeed, PeerSpeed
<1>3. QED
  BY <1>1, <1>2

LEMMA TimerFacts ==
    ASSUME ability \in Abilities
    PROVE  /\ Repeats \in 0 .. Reload10
           /\ \A t \in 0 .. Repeats : Reload(PeerSpeed, t) = Repeats
           /\ \A t \in 0 .. Repeats : \A en :
                /\ ~en \/ t = 0 => TimerNext(t, en, PeerSpeed) = Repeats
                /\ \A sp \in {2, PeerSpeed} : TimerNext(t, en, sp) \in 0 .. Repeats
<1>1. PeerSpeed \in 0 .. 3 /\ Reload10 \in Nat /\ Reload100 \in Nat /\ Reload100 <= Reload10
  BY AbilityFacts, CodingAssumption DEF CodingAssumption
<1>2. Repeats = IF PeerSpeed = 0 THEN Reload10 ELSE IF PeerSpeed = 1 THEN Reload100 ELSE 0
  BY <1>1 DEF Repeats, Reload
<1>3. Repeats \in 0 .. Reload10
  BY <1>1, <1>2
<1>4. ASSUME NEW t \in 0 .. Repeats
      PROVE  Reload(PeerSpeed, t) = Repeats /\ Reload(2, t) = 0
  BY <1>1, <1>2 DEF Reload
<1>5. ASSUME NEW t \in 0 .. Repeats, NEW en
      PROVE  /\ ~en \/ t = 0 => TimerNext(t, en, PeerSpeed) = Repeats
             /\ \A sp \in {2, PeerSpeed} : TimerNext(t, en, sp) \in 0 .. Repeats
  <2>1. \A sp \in {2, PeerSpeed} : Reload(sp, t) \in 0 .. Repeats
    BY <1>3, <1>4
  <2>2. t # 0 => t - 1 \in 0 .. Repeats
    BY <1>3
  <2>3. QED
    BY <1>4, <2>1, <2>2 DEF TimerNext
<1>6. QED
  BY <1>3, <1>4, <1>5

LEMMA TxTyped ==
    ASSUME ability \in Abilities, NEW s \in TxRegs, NEW in, in.config_reg \in ConfigRegs,
           in.sgmii_speed \in {2, PeerSpeed}
    PROVE  TxNext(s, in) \in TxRegs
<1> DEFINE timer == TimerNext(s.timer, TxTimed(s, in), in.sgmii_speed)
           c_type == IF s.fsm = "CONFIG_D" THEN ~s.c_type ELSE s.c_type
           reg == IF s.fsm = "START" /\ in.config_stb THEN in.config_reg ELSE s.config_reg
<1>1. s.fsm \in TxStates /\ s.parity \in {0, 1} /\ s.config_reg \in ConfigRegs /\ s.timer \in 0 .. Repeats
  BY DEF TxRegs
<1>2. TxFsm(s, in) \in TxStates
  BY <1>1 DEF TxFsm, AfterExtend, TxStates
<1>3. c_type \in BOOLEAN
  <2>1. s.c_type \in BOOLEAN
    BY DEF TxRegs
  <2>2. QED
    BY <2>1, Zenon
<1>4. timer \in 0 .. Repeats
  BY <1>1, TimerFacts
<1>5. reg \in ConfigRegs /\ 1 - s.parity \in {0, 1}
  BY <1>1
<1>6. TxNext(s, in) = [fsm |-> TxFsm(s, in), parity |-> 1 - s.parity, c_type |-> c_type,
                       config_reg |-> reg, timer |-> timer]
  BY Zenon DEF TxNext
<1> HIDE DEF timer, c_type, reg
<1>7. QED
  BY <1>2, <1>3, <1>4, <1>5, <1>6 DEF TxRegs

LEMMA RxTyped ==
    ASSUME ability \in Abilities, NEW s \in TxRegs, NEW r \in RxRegs, NEW in, NEW g,
           InStep(s, r), g \in {TxGroup(s, in), Invalid}, in.tx_stb => in.tx_data \in Bytes,
           NEW sp \in {2, PeerSpeed}
    PROVE  RxNext(r, g, sp) \in RxRegs
<1> DEFINE timer == TimerNext(r.timer, RxEn(r, g), sp)
           lsb == IF r.fsm = "CONFIG_REG_LSB" /\ ~IsK(g) THEN g.lsb ELSE r.lsb
           reg == IF r.fsm = "CONFIG_REG_MSB" /\ ~IsK(g) THEN Joined(r.lsb, g.msb) ELSE r.config_reg
           seen == r.fsm = "CONFIG_REG_MSB" /\ ~IsK(g)
           valid == RxEn(r, g) /\ Sampled(r, g, sp)
           data == IF RxEn(r, g) /\ ~RxBegins(r, g) THEN g ELSE Preamble55
<1>1. /\ r.fsm \in RxStates /\ r.lsb \in ConfigRegs /\ r.config_reg \in ConfigRegs
      /\ r.timer \in 0 .. Repeats /\ s.fsm \in TxStates /\ s.config_reg \in ConfigRegs
  BY DEF RxRegs, TxRegs
<1>2. RxFsm(r, g) \in RxStates
  BY <1>1, StaysInStep
<1>3. timer \in 0 .. Repeats
  BY <1>1, TimerFacts
<1>4. lsb \in ConfigRegs
  <2>1. r.fsm = "CONFIG_REG_LSB" /\ ~IsK(g) => g = Lsb(s.config_reg)
    BY <1>1, GroupFacts, GroupTells DEF InStep
  <2>2. QED
    BY <1>1, <2>1, RegFacts
<1>5. reg \in ConfigRegs
  <2>1. r.fsm = "CONFIG_REG_MSB" /\ ~IsK(g) => g = Msb(s.config_reg)
    BY <1>1, GroupFacts, GroupTells DEF InStep
  <2>2. QED
    BY <1>1, <2>1, RegFacts
<1>6. data \in RxData
  <2>1. RxEn(r, g) /\ ~RxBegins(r, g) => s.fsm = "DATA" /\ ~IsK(g)
    BY DEF RxEn, InStep
  <2>2. s.fsm = "DATA" /\ ~IsK(g) => g \in {Data(b) : b \in Bytes}
    BY <1>1, GroupFacts, GroupTells
  <2>3. QED
    BY <2>1, <2>2 DEF RxData
<1>7. seen \in BOOLEAN /\ valid \in BOOLEAN
  BY Zenon
<1>8. RxEn(r, g) \in BOOLEAN
  BY Zenon DEF RxEn
<1>9. RxNext(r, g, sp) = [fsm |-> RxFsm(r, g), lsb |-> lsb, config_reg |-> reg, seen_config_reg |-> seen,
                          timer |-> timer, rx_en_d |-> RxEn(r, g), valid |-> valid, data |-> data]
  BY Zenon DEF RxNext
<1> HIDE DEF timer, lsb, reg, seen, valid, data
<1>10. QED
  BY <1>2, <1>3, <1>4, <1>5, <1>6, <1>7, <1>8, <1>9 DEF RxRegs

LEMMA ResetsTyped == ASSUME ability \in Abilities PROVE TxReset \in TxRegs /\ RxReset \in RxRegs
<1>1. 0 \in 0 .. Repeats
  BY TimerFacts, CodingAssumption DEF CodingAssumption
<1>2. QED
  BY <1>1, RegFacts DEF TxReset, RxReset, TxRegs, RxRegs, TxStates, RxStates, RxData

\* What the PCS's paths are given, and what comes to an end.
LEMMA InputFacts ==
    ASSUME PathInv, NEW e \in Ends
    PROVE  /\ TxIn(e).config_reg \in ConfigRegs /\ TxIn(e).sgmii_speed \in {2, PeerSpeed}
           /\ TxIn(e).tx_stb => TxIn(e).tx_data \in Bytes
           /\ (TxIn(e).tx_stb <=> e = talker /\ offer > 0) /\ TxIn(e).tx_data = offer
           /\ TxIn("peer").config_reg \in PartnersRegs
           /\ Other(e) \in Ends /\ Other(Other(e)) = e
           /\ Group(e) \in {TxGroup(tx[Other(e)], TxIn(Other(e))), Invalid}
<1>1. heard.link_partner \in ConfigRegs /\ ability \in Abilities /\ PartnerInv
  BY AbilityFacts DEF PathInv, PartnerInv
<1>2. ConfigReg \in ConfigRegs
  <2>1. heard.link_partner.sgmii \in BOOLEAN
    BY <1>1 DEF ConfigRegs
  <2>2. QED
    BY <2>1 DEF ConfigReg, ConfigRegs
<1>3. PeerConfigReg \in PartnersRegs /\ PeerConfigReg \in ConfigRegs
  BY <1>1, AbilityFacts
<1>4. TxIn(e).config_reg \in ConfigRegs /\ TxIn("peer").config_reg \in PartnersRegs
  BY <1>2, <1>3 DEF TxIn
<1>5. TxIn(e).sgmii_speed \in {2, PeerSpeed}
  BY <1>1, SpeedFacts DEF TxIn
<1>6. (TxIn(e).tx_stb <=> e = talker /\ offer > 0) /\ TxIn(e).tx_data = offer
  BY DEF TxIn
<1>7. TxIn(e).tx_stb => TxIn(e).tx_data \in Bytes
  BY <1>6, LinkAssumption DEF PathInv, LinkAssumption
<1>8. Other(e) \in Ends /\ Other(Other(e)) = e
  BY DEF Ends, Other
<1>9. Group(e) \in {TxGroup(tx[Other(e)], TxIn(Other(e))), Invalid}
  BY Zenon DEF Group
<1>10. QED
  BY <1>4, <1>5, <1>6, <1>7, <1>8, <1>9

LEMMA PathInit == Init => PathInv
<1>1. SUFFICES ASSUME Init PROVE PathInv
  OBVIOUS
<1>2. /\ tx = [e \in Ends |-> TxReset] /\ rx = [e \in Ends |-> RxReset] /\ heard = HeardReset
      /\ ability \in Abilities /\ talker \in Ends /\ offer = 0 /\ got = << >>
  BY <1>1 DEF Init, LinkInit
<1>3. tx \in [Ends -> TxRegs] /\ rx \in [Ends -> RxRegs]
  BY <1>2, ResetsTyped
<1>4. StepInv
  BY <1>2, InStepAlone, ResetsTyped DEF StepInv, RxRegs
<1>5. PartnerInv
  <2>1. tx["peer"].config_reg = NoAbility /\ rx["pcs"].config_reg = NoAbility
        /\ heard.link_partner = NoAbility
    BY <1>2 DEF Ends, TxReset, RxReset, HeardReset
  <2>2. QED
    BY <2>1 DEF PartnerInv, PartnersRegs
<1>6. offer \in 0 .. FrameSize /\ got \in Seq(RxData)
  BY <1>2, LinkAssumption DEF LinkAssumption
<1>7. QED
  BY <1>2, <1>3, <1>4, <1>5, <1>6 DEF PathInv

\* What the two paths of each end do in a cycle.
LEMMA PathsCycle ==
    ASSUME PathInv, PcsStep
    PROVE  /\ \A e \in Ends : tx'[e] = IF e = "pcs" /\ ~TxReady THEN TxReset ELSE TxNext(tx[e], TxIn(e))
           /\ rx'["pcs"] = IF RxReady THEN RxNext(rx["pcs"], Group("pcs"), SgmiiSpeed) ELSE RxReset
           /\ rx'["peer"] = RxNext(rx["peer"], Group("peer"), PeerSpeed)
           /\ tx' \in [Ends -> TxRegs] /\ rx' \in [Ends -> RxRegs] /\ StepInv'
<1>1. /\ tx' = [e \in Ends |-> IF e = "pcs" /\ ~TxReady THEN TxReset ELSE TxNext(tx[e], TxIn(e))]
      /\ rx' = [pcs  |-> IF RxReady THEN RxNext(rx["pcs"], Group("pcs"), SgmiiSpeed) ELSE RxReset,
                peer |-> RxNext(rx["peer"], Group("peer"), PeerSpeed)]
  BY DEF PcsStep, LinkNext, PathsNext
<1>2. \A e \in Ends : tx'[e] = IF e = "pcs" /\ ~TxReady THEN TxReset ELSE TxNext(tx[e], TxIn(e))
  BY <1>1
<1>3. /\ rx'["pcs"] = IF RxReady THEN RxNext(rx["pcs"], Group("pcs"), SgmiiSpeed) ELSE RxReset
      /\ rx'["peer"] = RxNext(rx["peer"], Group("peer"), PeerSpeed)
      /\ DOMAIN rx' = Ends
  BY <1>1 DEF Ends
<1>4. /\ ability \in Abilities /\ PartnerInv /\ StepInv /\ "pcs" \in Ends /\ "peer" \in Ends
      /\ \A e \in Ends : tx[e] \in TxRegs /\ rx[e] \in RxRegs
                         /\ tx[e].fsm \in TxStates /\ rx[e].fsm \in RxStates
  BY DEF PathInv, Ends, TxRegs, RxRegs
<1>5. \A e \in Ends : tx'[e] \in TxRegs
  BY <1>2, <1>4, InputFacts, TxTyped, ResetsTyped
<1>6. ASSUME NEW e \in Ends, NEW sp \in {2, PeerSpeed}
      PROVE  RxNext(rx[e], Group(e), sp) \in RxRegs
  <2>1. InStep(tx[Other(e)], rx[e])
    BY <1>4 DEF StepInv
  <2>2. Other(e) \in Ends /\ tx[Other(e)] \in TxRegs
    BY <1>4, InputFacts
  <2>3. TxIn(Other(e)).tx_stb => TxIn(Other(e)).tx_data \in Bytes
    BY <2>2, InputFacts
  <2>4. Group(e) \in {TxGroup(tx[Other(e)], TxIn(Other(e))), Invalid}
    BY InputFacts
  <2>5. QED
    BY <1>4, <2>1, <2>2, <2>3, <2>4, RxTyped
<1>7. rx'["pcs"] \in RxRegs /\ rx'["peer"] \in RxRegs
  BY <1>3, <1>4, <1>6, SpeedFacts, ResetsTyped
<1>8. tx' \in [Ends -> TxRegs]
  BY <1>1, <1>2, <1>5
<1>9. rx' \in [Ends -> RxRegs]
  <2>1. rx' = [e \in Ends |-> rx'[e]]
    BY <1>1 DEF Ends
  <2>2. \A e \in Ends : rx'[e] \in RxRegs
    BY <1>7 DEF Ends
  <2>3. QED
    BY <2>1, <2>2
<1>10. ASSUME NEW e \in Ends, NEW sp
       PROVE  InStep(TxNext(tx[Other(e)], TxIn(Other(e))), RxNext(rx[e], Group(e), sp))
  <2>1. /\ InStep(tx[Other(e)], rx[e]) /\ Other(e) \in Ends
        /\ Group(e) \in {TxGroup(tx[Other(e)], TxIn(Other(e))), Invalid}
    BY <1>4, InputFacts DEF StepInv
  <2>2. QED
    BY <1>4, <2>1, StaysInStep
<1>11. InStep(tx'[Other("pcs")], rx'["pcs"])
  <2>1. Other("pcs") = "peer"
    BY DEF Other
  <2>2. tx'["peer"] = TxNext(tx["peer"], TxIn("peer"))
    BY <1>2, <1>4
  <2>3. CASE RxReady
    <3>1. rx'["pcs"] = RxNext(rx["pcs"], Group("pcs"), SgmiiSpeed)
      BY <1>3, <2>3
    <3>2. QED
      BY <1>4, <1>10, <2>1, <2>2, <3>1
  <2>4. CASE ~RxReady
    BY <1>3, <1>4, <2>4, InStepAlone
  <2>5. QED
    BY <2>3, <2>4
<1>12. InStep(tx'[Other("peer")], rx'["peer"])
  <2>1. Other("peer") = "pcs"
    BY DEF Other
  <2>2. CASE TxReady
    <3>1. tx'["pcs"] = TxNext(tx["pcs"], TxIn("pcs"))
      BY <1>2, <1>4, <2>2
    <3>2. QED
      BY <1>3, <1>4, <1>10, <2>1, <3>1
  <2>3. CASE ~TxReady
    <3>1. Group("peer") = Invalid
      BY <2>3 DEF Group, Silent
    <3>2. QED
      BY <1>3, <1>4, <3>1, InStepAlone
  <2>4. QED
    BY <2>2, <2>3
<1>13. StepInv'
  <2>1. \A e \in Ends : InStep(tx'[Other(e)], rx'[e])
    BY <1>11, <1>12 DEF Ends
  <2>2. QED
    BY <2>1 DEF StepInv
<1>14. QED
  BY <1>2, <1>3, <1>8, <1>9, <1>13

LEMMA PartnerStep == ASSUME PathInv, PcsStep PROVE PartnerInv'
<1>1. /\ ability \in Abilities /\ ability' = ability /\ PartnerInv /\ StepInv /\ "pcs" \in Ends /\ "peer" \in Ends
      /\ tx["peer"] \in TxRegs /\ rx["pcs"] \in RxRegs
      /\ rx["pcs"].fsm \in RxStates /\ tx["peer"].fsm \in TxStates
  BY DEF PathInv, PcsStep, LinkNext, Ends, TxRegs, RxRegs
<1>2. PartnersRegs' = PartnersRegs
  BY <1>1 DEF PartnersRegs
<1>3. /\ PartnersRegs \subseteq ConfigRegs /\ NoAbility \in PartnersRegs
      /\ {tx["peer"].config_reg, rx["pcs"].config_reg, heard.link_partner} \subseteq PartnersRegs
  BY <1>1, AbilityFacts DEF PartnersRegs, PartnerInv
<1>4. tx'["peer"].config_reg \in PartnersRegs
  <2>1. tx'["peer"] = TxNext(tx["peer"], TxIn("peer"))
    BY <1>1, PathsCycle
  <2>2. TxIn("peer").config_reg \in PartnersRegs
    BY <1>1, InputFacts
  <2>3. QED
    BY <1>3, <2>1, <2>2, TxFields
<1>5. rx'["pcs"].config_reg \in PartnersRegs
  <2> DEFINE r == rx["pcs"]
             g == Group("pcs")
             c == tx["peer"].config_reg
  <2>1. rx'["pcs"] \in {RxNext(r, g, SgmiiSpeed), RxReset}
    BY PathsCycle
  <2>2. RxReset.config_reg \in PartnersRegs
    BY <1>3 DEF RxReset
  <2>3. r.fsm = "CONFIG_REG_MSB" /\ ~IsK(g) => Joined(r.lsb, g.msb) = c
    <3>1. InStep(tx["peer"], r) /\ g \in {TxGroup(tx["peer"], TxIn("peer")), Invalid}
      BY <1>1, InputFacts DEF StepInv, Other
    <3>2. r.fsm = "CONFIG_REG_MSB" => tx["peer"].fsm = "CONFIG_REG_MSB" /\ r.lsb = c
      BY <3>1 DEF InStep
    <3>3. tx["peer"].fsm = "CONFIG_REG_MSB" /\ ~IsK(g) => g = Msb(c)
      BY <1>1, <3>1, GroupFacts, GroupTells
    <3>4. c \in ConfigRegs
      BY <1>3
    <3>5. QED
      BY <3>2, <3>3, <3>4, RegFacts
  <2>4. RxNext(r, g, SgmiiSpeed).config_reg \in {c, r.config_reg}
    BY <2>3, RxFields
  <2>5. QED
    BY <1>3, <2>1, <2>2, <2>4
<1>6. heard'.link_partner \in PartnersRegs
  <2>1. heard' = IF RxReady THEN HeardNext(rx["pcs"], Group("pcs")) ELSE HeardReset
    BY DEF PcsStep, LinkNext, PathsNext
  <2>2. HeardNext(rx["pcs"], Group("pcs")).link_partner \in {rx["pcs"].config_reg, heard.link_partner}
    BY DEF HeardNext
  <2>3. HeardReset.link_partner = NoAbility
    BY DEF HeardReset
  <2>4. QED
    BY <1>3, <2>1, <2>2, <2>3
<1>7. QED
  BY <1>2, <1>4, <1>5, <1>6 DEF PartnerInv

LEMMA OfferStep == ASSUME PathInv, Offer PROVE offer' \in 0 .. FrameSize
<1>1. offer \in 0 .. FrameSize /\ FrameSize \in Nat \ {0, 1}
  BY LinkAssumption DEF PathInv, LinkAssumption
<1>2. offer' \in {0, 1, 2, offer} \/ (offer < FrameSize /\ offer' = offer + 1)
  BY Zenon DEF Offer
<1>3. QED
  BY <1>1, <1>2

LEMMA GotStep == ASSUME PathInv, Follow PROVE got' \in Seq(RxData)
<1>1. got \in Seq(RxData) /\ rx[Other(talker)].data \in RxData
  BY InputFacts DEF PathInv, RxRegs
<1>2. got' \in {Append(got, rx[Other(talker)].data), << >>, got}
  BY Zenon DEF Follow
<1>3. Append(got, rx[Other(talker)].data) \in Seq(RxData) /\ << >> \in Seq(RxData)
  BY <1>1
<1>4. QED
  BY <1>1, <1>2, <1>3, Zenon

LEMMA PathPreserved == PathInv /\ [Next]_vars => PathInv'
<1>1. SUFFICES ASSUME PathInv, [Next]_vars PROVE PathInv'
  OBVIOUS
<1>2. CASE PcsStep
  <2>1. ability' = ability /\ talker' = talker /\ Offer /\ Follow
    BY <1>2 DEF PcsStep, LinkNext, Offer
  <2>2. tx' \in [Ends -> TxRegs] /\ rx' \in [Ends -> RxRegs] /\ StepInv'
    BY <1>1, <1>2, PathsCycle
  <2>3. TxRegs' = TxRegs /\ RxRegs' = RxRegs
    BY <2>1 DEF TxRegs, RxRegs, Repeats, PeerSpeed
  <2>4. PartnerInv' /\ offer' \in 0 .. FrameSize /\ got' \in Seq(RxData)
    BY <1>1, <1>2, <2>1, PartnerStep, OfferStep, GotStep
  <2>5. QED
    BY <1>1, <2>1, <2>2, <2>3, <2>4 DEF PathInv
<1>3. CASE PinStep \/ UNCHANGED vars
  <2>1. UNCHANGED << tx, rx, heard, ability, talker, offer, got >>
    BY <1>3 DEF PinStep, vars, linkVars
  <2>2. TxRegs' = TxRegs /\ RxRegs' = RxRegs /\ StepInv' = StepInv /\ PartnerInv' = PartnerInv
    BY <2>1 DEF TxRegs, RxRegs, Repeats, PeerSpeed, StepInv, PartnerInv, PartnersRegs
  <2>3. QED
    BY <1>1, <2>1, <2>2 DEF PathInv
<1>4. QED
  BY <1>1, <1>2, <1>3 DEF Next

-----------------------------------------------------------------------------
(* Frames. *)

\* The negotiation runs on the clock of a transceiver that is ready.
ReadyInv == Running => TxReady

LEMMA ReadyInit == Init => ReadyInv
  BY DEF Init, LinkInit, AnReset, ReadyInv, Running

LEMMA ReadyPreserved == DrpInv /\ ReadyInv /\ [Next]_vars => ReadyInv'
<1>1. SUFFICES ASSUME DrpInv, ReadyInv, [Next]_vars PROVE ReadyInv'
  OBVIOUS
<1>2. CASE PcsStep
  <2>1. xcvr' = XcvrNext(TxReady /\ Restart) /\ an' = IF TxReady THEN AnNext ELSE AnReset
    BY <1>2 DEF PcsStep, LinkNext, PathsNext
  <2>2. CASE TxReady
    <3>1. xcvr.txInit = "DONE" /\ xcvr \in XcvrType
      BY <1>1, <2>2 DEF TxReady, DrpInv
    <3>2. (IF xcvr.kind = "gtp" THEN GtpTxInit ELSE UltraScaleTxInit) = "DONE"
      BY <3>1 DEF GtpTxInit, UltraScaleTxInit
    <3>3. xcvr'.txInit = "DONE"
      BY <2>1, <3>1, <3>2, Zenon DEF XcvrNext, XcvrType
    <3>4. QED
      BY <3>3 DEF ReadyInv, TxReady
  <2>3. CASE ~TxReady
    BY <2>1, <2>3 DEF AnReset, ReadyInv, Running
  <2>4. QED
    BY <2>2, <2>3
<1>3. CASE PinStep \/ UNCHANGED vars
  BY <1>1, <1>3 DEF PinStep, vars, linkVars, ReadyInv, Running, TxReady
<1>4. QED
  BY <1>1, <1>2, <1>3 DEF Next

-----------------------------------------------------------------------------
(* What has come out of a frame, by place. *)

Passed(b, out, n) == Len(out) <= Len(b) /\ out = SubSeq(AsReceived(b, n), 1, Len(out))

LEMMA PassedByPlace ==
    ASSUME NEW S, NEW T, NEW b \in Seq(S), NEW out \in Seq(T), NEW n
    PROVE  Passed(b, out, n) <=> /\ Len(out) <= Len(b)
                                 /\ \A i \in 1 .. Len(out) : out[i] = AsReceived(b, n)[i]
<1>1. Len(b) \in Nat /\ Len(out) \in Nat /\ DOMAIN out = 1 .. Len(out)
  OBVIOUS
<1>2. AsReceived(b, n) \in Seq({AsReceived(b, n)[i] : i \in 1 .. Len(b)}) /\ Len(AsReceived(b, n)) = Len(b)
  BY <1>1 DEF AsReceived
<1> DEFINE a == AsReceived(b, n)
<1> HIDE DEF a
<1>3. SubSeq(a, 1, Len(out)) = [i \in 1 .. Len(out) |-> a[i]]
  BY <1>1
<1>4. out = [i \in 1 .. Len(out) |-> out[i]]
  BY <1>1
<1>5. out = SubSeq(a, 1, Len(out)) <=> \A i \in 1 .. Len(out) : out[i] = a[i]
  BY <1>3, <1>4, Zenon
<1>6. QED
  BY <1>5 DEF Passed, a

LEMMA PassedNone == ASSUME NEW S, NEW b \in Seq(S), NEW n PROVE Passed(b, << >>, n)
<1>1. << >> \in Seq(S) /\ Len(<< >>) <= Len(b)
  OBVIOUS
<1>2. \A i \in 1 .. Len(<< >>) : << >>[i] = AsReceived(b, n)[i]
  OBVIOUS
<1>3. QED
  BY <1>1, <1>2, PassedByPlace, Zenon

\* A byte more is taken.
LEMMA PassedMore ==
    ASSUME NEW S, NEW T, NEW b \in Seq(S), NEW out \in Seq(T), NEW n, NEW x \in S, Passed(b, out, n)
    PROVE  Passed(Append(b, x), out, n)
<1>1. /\ Len(out) <= Len(b) /\ \A i \in 1 .. Len(out) : out[i] = AsReceived(b, n)[i]
  BY PassedByPlace
<1>2. Append(b, x) \in Seq(S) /\ Len(Append(b, x)) = Len(b) + 1
  OBVIOUS
<1>3. ASSUME NEW i \in 1 .. Len(b) PROVE AsReceived(Append(b, x), n)[i] = AsReceived(b, n)[i]
  <2>1. Append(b, x)[i] = b[i] /\ i \in 1 .. Len(Append(b, x))
    BY <1>2
  <2>2. QED
    BY <2>1 DEF AsReceived
<1>4. /\ Len(out) <= Len(Append(b, x))
      /\ \A i \in 1 .. Len(out) : out[i] = AsReceived(Append(b, x), n)[i]
  BY <1>1, <1>2, <1>3
<1>5. QED
  BY <1>2, <1>4, PassedByPlace

\* A byte more has come out.
LEMMA PassedOne ==
    ASSUME NEW S, NEW T, NEW b \in Seq(S), NEW out \in Seq(T), NEW n, NEW d \in T, Passed(b, out, n),
           Len(out) + 1 = Len(b), d = AsReceived(b, n)[Len(b)]
    PROVE  Passed(b, Append(out, d), n)
<1>1. \A i \in 1 .. Len(out) : out[i] = AsReceived(b, n)[i]
  BY PassedByPlace
<1>2. Append(out, d) \in Seq(T) /\ Len(Append(out, d)) = Len(b)
  OBVIOUS
<1>3. ASSUME NEW i \in 1 .. Len(b) PROVE Append(out, d)[i] = AsReceived(b, n)[i]
  <2>1. CASE i = Len(b)
    BY <2>1
  <2>2. CASE i # Len(b)
    <3>1. i \in 1 .. Len(out) /\ Append(out, d)[i] = out[i]
      BY <2>2
    <3>2. QED
      BY <1>1, <3>1
  <2>3. QED
    BY <2>1, <2>2
<1>4. /\ Len(Append(out, d)) <= Len(b)
      /\ \A i \in 1 .. Len(Append(out, d)) : Append(out, d)[i] = AsReceived(b, n)[i]
  BY <1>2, <1>3
<1>5. QED
  BY <1>2, <1>4, PassedByPlace, Zenon

-----------------------------------------------------------------------------
(* A cycle of a frame. *)

\* What the frame's observer makes of the cycle.
LEMMA FollowCases ==
    ASSUME PathInv, Follow, burst = << 0 >> => got = << >>,
           NEW s, NEW r, NEW timed, s = tx[talker], r = rx[Other(talker)],
           timed <=> offer > 0 /\ s.timer = 0
    PROVE  \/ burst' = << 0 >> /\ got' = << >>
           \/ /\ Up /\ s.fsm = "START" /\ TxBegins(s, TxIn(talker)) /\ offer = 1
              /\ got' = << >> /\ burst' = IF timed THEN << 1 >> ELSE << >>
           \/ /\ Up /\ s.fsm = "DATA" /\ burst # << 0 >>
              /\ got' = (IF r.valid THEN Append(got, r.data) ELSE got)
              /\ burst' = IF timed THEN Append(burst, offer) ELSE burst
           \/ /\ Up /\ s.fsm # "DATA" /\ ~TxBegins(s, TxIn(talker)) /\ burst # << 0 >>
              /\ burst' = burst /\ got' \in {<< >>, got}
<1> DEFINE in == TxIn(talker)
           begins == TxBegins(s, in)
           before == IF begins THEN << >> ELSE burst
           taken == TxTimed(s, in) /\ TxAck(s, in)
<1>1. /\ burst' = IF ~Up \/ (IF begins THEN offer # 1 ELSE burst = << 0 >>) THEN << 0 >>
                  ELSE IF taken THEN Append(before, offer) ELSE before
      /\ got' = IF r.valid /\ Up /\ burst # << 0 >> THEN Append(got, r.data)
                ELSE IF s.fsm \in {"START", "IDLE"} \/ ~Up THEN << >> ELSE got
  BY Zenon DEF Follow
<1>2. in.tx_stb <=> offer > 0
  BY InputFacts DEF PathInv
<1>3. InStep(s, r)
  <2>1. talker \in Ends /\ Other(talker) \in Ends /\ Other(Other(talker)) = talker /\ StepInv
    BY InputFacts DEF PathInv
  <2>2. InStep(tx[Other(Other(talker))], rx[Other(talker)])
    BY <2>1 DEF StepInv
  <2>3. QED
    BY <2>1, <2>2
<1>4. r.valid => s.fsm = "DATA"
  BY <1>3 DEF InStep
<1>5. begins => s.fsm = "START"
  BY DEF TxBegins
<1>6. taken <=> (begins \/ (s.fsm = "DATA" /\ offer > 0)) /\ s.timer = 0
  BY <1>2, <1>5 DEF TxTimed, TxAck
<1>7. begins => offer > 0
  BY <1>2 DEF TxBegins
<1>8. Append(<< >>, 1) = << 1 >>
  OBVIOUS
<1>9. CASE ~Up
  BY <1>1, <1>9
<1>10. CASE Up /\ begins /\ offer # 1
  BY <1>1, <1>4, <1>5, <1>10
<1>11. CASE Up /\ begins /\ offer = 1
  <2>1. taken <=> timed
    BY <1>6, <1>7, <1>11
  <2>2. burst' = IF timed THEN << 1 >> ELSE << >>
    BY <1>1, <1>8, <1>11, <2>1
  <2>3. got' = << >>
    BY <1>1, <1>4, <1>5, <1>11
  <2>4. QED
    BY <1>5, <1>11, <2>2, <2>3
<1>12. CASE Up /\ ~begins /\ burst = << 0 >>
  BY <1>1, <1>12
<1>13. CASE Up /\ ~begins /\ burst # << 0 >> /\ s.fsm = "DATA"
  <2>1. taken <=> timed
    BY <1>6, <1>13
  <2>2. burst' = IF timed THEN Append(burst, offer) ELSE burst
    BY <1>1, <1>13, <2>1
  <2>3. got' = IF r.valid THEN Append(got, r.data) ELSE got
    BY <1>1, <1>13
  <2>4. QED
    BY <1>13, <2>2, <2>3
<1>14. CASE Up /\ ~begins /\ burst # << 0 >> /\ s.fsm # "DATA"
  <2>1. ~taken /\ ~r.valid
    BY <1>4, <1>6, <1>14
  <2>2. burst' = burst /\ got' \in {<< >>, got}
    BY <1>1, <1>14, <2>1
  <2>3. QED
    BY <1>14, <2>2
<1>15. QED
  BY <1>9, <1>10, <1>11, <1>12, <1>13, <1>14

\* What is offered next.
LEMMA OfferCases ==
    ASSUME PathInv, Offer, NEW s, s = tx[talker], offer = 1 => s.fsm \in {"START", "DATA"}
    PROVE  /\ offer' = 1 => \/ offer = 0 /\ Up /\ s.fsm = "IDLE"
                            \/ offer = 1 /\ TxTimed(s, TxIn(talker)) /\ s.timer # 0
           /\ s.fsm = "DATA" \/ TxBegins(s, TxIn(talker)) =>
                /\ offer = 0 => offer' = 0
                /\ offer > 0 /\ s.timer # 0 => offer' = offer
                /\ offer > 0 /\ s.timer = 0 => offer' \in {0, offer + 1} /\ (offer = 1 => offer' = 2)
<1> DEFINE in == TxIn(talker)
<1>1. offer \in Nat /\ FrameSize \in Nat
  BY LinkAssumption DEF PathInv, LinkAssumption
<1>2. in.tx_stb <=> offer > 0
  BY InputFacts DEF PathInv
<1>3. IF offer = 0
      THEN offer' \in (IF Up /\ s.fsm = "IDLE" THEN {0, 1} ELSE {0})
      ELSE IF ~TxAck(s, in) THEN offer' = offer
      ELSE offer' \in (IF offer = 1 THEN {2} ELSE IF offer < FrameSize THEN {0, offer + 1} ELSE {0})
  BY Zenon DEF Offer
<1>4. TxBegins(s, in) => s.fsm = "START" /\ offer > 0
  BY <1>2 DEF TxBegins
<1>5. s.fsm \in {"START", "DATA"} => (TxAck(s, in) <=> ~TxTimed(s, in) \/ s.timer = 0)
  BY DEF TxAck
<1>6. TxTimed(s, in) <=> TxBegins(s, in) \/ (s.fsm = "DATA" /\ offer > 0)
  BY <1>2 DEF TxTimed
<1>7. offer' = 1 => \/ offer = 0 /\ Up /\ s.fsm = "IDLE"
                    \/ offer = 1 /\ TxTimed(s, in) /\ s.timer # 0
  <2>1. CASE offer = 0
    BY <1>3, <2>1
  <2>2. CASE offer = 1
    BY <1>1, <1>3, <1>5, <2>2
  <2>3. CASE offer > 1
    BY <1>1, <1>3, <2>3
  <2>4. QED
    BY <1>1, <2>1, <2>2, <2>3
<1>8. s.fsm = "DATA" \/ TxBegins(s, in) =>
                /\ offer = 0 => offer' = 0
                /\ offer > 0 /\ s.timer # 0 => offer' = offer
                /\ offer > 0 /\ s.timer = 0 => offer' \in {0, offer + 1} /\ (offer = 1 => offer' = 2)
  BY <1>1, <1>3, <1>4, <1>5, <1>6
<1>9. QED
  BY <1>7, <1>8

\* While the link is up and stays up both ends run at the partner's speed, and nothing is
\* lost between them; only the PCS's receiver may be reset.
LEMMA UpCycle ==
    ASSUME PathInv, ReadyInv, PcsStep, Up, Running'
    PROVE  /\ ~CutOff
           /\ tx'[talker] = TxNext(tx[talker], TxIn(talker)) /\ TxIn(talker).sgmii_speed = PeerSpeed
           /\ Group(Other(talker)) = TxGroup(tx[talker], TxIn(talker))
           /\ \/ rx'[Other(talker)] = RxNext(rx[Other(talker)], Group(Other(talker)), PeerSpeed)
              \/ CutOff'
<1>1. Running /\ line.fault = "none" /\ talker \in Ends /\ talker' = talker /\ ability \in Abilities /\ PartnerInv
  BY DEF Up, PathInv, PcsStep, LinkNext, Offer
<1>2. TxReady
  BY <1>1 DEF ReadyInv
<1>3. /\ an' = AnNext /\ heard' = IF RxReady THEN HeardNext(rx["pcs"], Group("pcs")) ELSE HeardReset
  BY <1>2 DEF PcsStep, LinkNext, PathsNext
<1>4. ~Restart
  <2>1. an'.fsm = AnFsm
    BY <1>3 DEF AnNext
  <2>2. Restart => AnFsm = "AUTONEG_WAIT_ABI"
    BY DEF AnFsm
  <2>3. QED
    BY <2>1, <2>2 DEF Running
<1>5. ~IsEmpty(heard.link_partner)
  BY <1>1, <1>4 DEF Restart
<1>6. SgmiiSpeed = PeerSpeed
  BY <1>1, <1>5, SpeedFacts
<1>7. ~CutOff
  BY <1>5, RegFacts DEF CutOff
<1>8. tx'[talker] = TxNext(tx[talker], TxIn(talker)) /\ TxIn(talker).sgmii_speed = PeerSpeed
  BY <1>1, <1>2, <1>6, PathsCycle DEF TxIn
<1>9. Group(Other(talker)) = TxGroup(tx[talker], TxIn(talker))
  <2>1. Other(Other(talker)) = talker
    BY <1>1, InputFacts
  <2>2. ~Silent(Other(talker))
    BY <1>1, <1>2 DEF Silent
  <2>3. QED
    BY <2>1, <2>2 DEF Group
<1>10. \/ rx'[Other(talker)] = RxNext(rx[Other(talker)], Group(Other(talker)), PeerSpeed)
       \/ CutOff'
  <2>1. CASE Other(talker) = "peer"
    BY <2>1, PathsCycle
  <2>2. CASE Other(talker) = "pcs" /\ RxReady
    BY <1>6, <2>2, PathsCycle
  <2>3. CASE Other(talker) = "pcs" /\ ~RxReady
    <3>1. rx'["pcs"] = RxReset /\ heard'.link_partner = NoAbility
      BY <1>3, <2>3, PathsCycle DEF HeardReset
    <3>2. Other(talker)' = "pcs"
      BY <1>1, <2>3 DEF Other
    <3>3. QED
      BY <3>1, <3>2 DEF CutOff
  <2>4. QED
    BY <2>1, <2>2, <2>3 DEF Other
<1>11. QED
  BY <1>7, <1>8, <1>9, <1>10

\* The sender is at DATA after a cycle in which it sends a byte, and after no other.
LEMMA DataNext ==
    ASSUME PathInv, PcsStep, NEW s, s = tx[talker]
    PROVE  /\ tx'[talker].fsm = "DATA" => TxBegins(s, TxIn(talker)) \/ (s.fsm = "DATA" /\ offer > 0)
           /\ tx'[talker].fsm = "START" => \/ tx'[talker] = TxReset /\ ~TxReady /\ talker = "pcs"
                                           \/ ~TxTimed(s, TxIn(talker))
<1>1. talker \in Ends /\ s \in TxRegs /\ s.fsm \in TxStates
  BY DEF PathInv, TxRegs
<1>2. TxIn(talker).tx_stb <=> offer > 0
  BY <1>1, InputFacts
<1>3. \/ tx'[talker] = TxReset /\ ~TxReady /\ talker = "pcs"
      \/ tx'[talker].fsm = TxFsm(s, TxIn(talker))
  BY <1>1, PathsCycle, TxFields
<1>4. TxReset.fsm = "START"
  BY DEF TxReset
<1>5. TxFsm(s, TxIn(talker)) = "DATA" <=> TxTimed(s, TxIn(talker))
  BY <1>1 DEF TxFsm, TxTimed, TxBegins, AfterExtend, TxStates
<1>6. TxTimed(s, TxIn(talker)) => TxBegins(s, TxIn(talker)) \/ (s.fsm = "DATA" /\ offer > 0)
  BY <1>2 DEF TxTimed
<1>7. QED
  BY <1>3, <1>4, <1>5, <1>6

\* The bytes of a frame, and how many have come out.
BurstInv ==
    /\ burst \in Seq(1 .. FrameSize) \cup {<< 0 >>}
    /\ burst = << 0 >> => got = << >>
    /\ burst # << 0 >> => /\ Passed(burst, got, Repeats)
                          /\ Len(burst) <= IF offer > 0 /\ tx[talker].fsm = "DATA" THEN offer - 1 ELSE FrameSize

LEMMA SeqFacts ==
    /\ << >> \in Seq(1 .. FrameSize) /\ << 1 >> \in Seq(1 .. FrameSize)
    /\ << >> # << 0 >> /\ Len(<< >>) = 0 /\ Len(<< 1 >>) = 1
    /\ << 0 >> \notin Seq(1 .. FrameSize)
<1>1. 1 \in 1 .. FrameSize
  BY LinkAssumption DEF LinkAssumption
<1>2. << >> \in Seq(1 .. FrameSize) /\ << 1 >> \in Seq(1 .. FrameSize)
  BY <1>1
<1>3. ASSUME << 0 >> \in Seq(1 .. FrameSize) PROVE FALSE
  <2>1. << 0 >>[1] \in 1 .. FrameSize
    BY <1>3
  <2>2. QED
    BY <2>1
<1>4. QED
  BY <1>2, <1>3

LEMMA BurstStep ==
    ASSUME PathInv, FrameInv, PcsStep
    PROVE  BurstInv'
<1>1. PICK s, r : s = tx[talker] /\ r = rx[Other(talker)]
  OBVIOUS
<1>2. PICK timed : timed <=> offer > 0 /\ s.timer = 0
  OBVIOUS
<1>3. /\ Follow /\ Offer /\ talker' = talker /\ ability' = ability /\ PathInv
      /\ FrameSize \in Nat \ {0, 1} /\ offer \in 0 .. FrameSize /\ offer' \in 0 .. FrameSize
  BY OfferStep, LinkAssumption DEF PcsStep, LinkNext, Offer, PathInv, LinkAssumption
<1>4. Repeats' = Repeats
  BY <1>3 DEF Repeats, PeerSpeed
<1>5. /\ burst \in Seq(1 .. FrameSize) \cup {<< 0 >>} /\ (burst = << 0 >> => got = << >>)
      /\ burst # << 0 >> => /\ Passed(burst, got, Repeats) /\ burst \in Seq(1 .. FrameSize)
                            /\ Len(burst) <= IF offer > 0 /\ s.fsm = "DATA" THEN offer - 1 ELSE FrameSize
      /\ offer = 1 => s.fsm \in {"START", "DATA"}
      /\ got \in Seq(RxData) /\ r.data \in RxData
  <2>1. r.data \in RxData /\ got \in Seq(RxData)
    BY <1>1, InputFacts DEF PathInv, RxRegs
  <2>2. QED
    BY <1>1, <2>1 DEF FrameInv, Passed
<1>6. tx'[talker].fsm = "DATA" => TxBegins(s, TxIn(talker)) \/ (s.fsm = "DATA" /\ offer > 0)
  BY <1>1, DataNext
<1> DEFINE bound(n) == n <= IF offer' > 0 /\ tx'[talker].fsm = "DATA" THEN offer' - 1 ELSE FrameSize
<1>7. SUFFICES \/ burst' = << 0 >> /\ got' = << >>
               \/ /\ burst' \in Seq(1 .. FrameSize) /\ Passed(burst', got', Repeats) /\ bound(Len(burst'))
  BY <1>3, <1>4, SeqFacts DEF BurstInv
<1>8. CASE burst' = << 0 >> /\ got' = << >>
  BY <1>8
<1>9. CASE /\ Up /\ s.fsm = "START" /\ TxBegins(s, TxIn(talker)) /\ offer = 1
           /\ got' = << >> /\ burst' = IF timed THEN << 1 >> ELSE << >>
  <2>1. burst' \in Seq(1 .. FrameSize) /\ Len(burst') = IF timed THEN 1 ELSE 0
    <3>1. CASE timed
      BY <1>9, <3>1, SeqFacts
    <3>2. CASE ~timed
      BY <1>9, <3>2, SeqFacts
    <3>3. QED
      BY <3>1, <3>2
  <2>2. Passed(burst', got', Repeats)
    BY <1>9, <2>1, PassedNone
  <2>3. offer' = IF timed THEN 2 ELSE 1
    BY <1>1, <1>2, <1>3, <1>5, <1>9, OfferCases
  <2>4. bound(Len(burst'))
    BY <1>3, <2>1, <2>3
  <2>5. QED
    BY <2>1, <2>2, <2>4
<1>10. CASE /\ Up /\ s.fsm = "DATA" /\ burst # << 0 >>
            /\ got' = (IF r.valid THEN Append(got, r.data) ELSE got)
            /\ burst' = IF timed THEN Append(burst, offer) ELSE burst
  <2>1. burst \in Seq(1 .. FrameSize) /\ (offer > 0 => offer \in 1 .. FrameSize)
    BY <1>3, <1>5, <1>10
  <2>2. burst' \in Seq(1 .. FrameSize) /\ Len(burst') = IF timed THEN Len(burst) + 1 ELSE Len(burst)
    <3>1. CASE timed
      <4>1. offer \in 1 .. FrameSize /\ burst' = Append(burst, offer)
        BY <1>2, <1>10, <2>1, <3>1
      <4>2. QED
        BY <2>1, <3>1, <4>1
    <3>2. CASE ~timed
      BY <1>10, <2>1, <3>2
    <3>3. QED
      BY <3>1, <3>2
  <2>3. Passed(burst, got', Repeats) /\ got' \in Seq(RxData)
    <3>1. CASE ~r.valid
      BY <1>5, <1>10, <3>1
    <3>2. CASE r.valid
      <4>1. Len(got) + 1 = Len(burst) /\ r.data = AsReceived(burst, Repeats)[Len(burst)]
        <5>1. ~CutOff
          BY <1>1, <3>2 DEF CutOff, RxReset
        <5>2. Came
          BY <1>10, <5>1 DEF FrameInv
        <5>3. QED
          BY <1>1, <1>10, <3>2, <5>2 DEF Came
      <4>2. got' = Append(got, r.data)
        BY <1>10, <3>2
      <4>3. Passed(burst, Append(got, r.data), Repeats)
        BY <1>5, <1>10, <2>1, <4>1, PassedOne
      <4>4. Append(got, r.data) \in Seq(RxData)
        BY <1>5
      <4>5. QED
        BY <4>2, <4>3, <4>4
    <3>3. QED
      BY <3>1, <3>2
  <2>4. Passed(burst', got', Repeats)
    <3>1. CASE timed
      <4>1. offer \in 1 .. FrameSize /\ burst' = Append(burst, offer)
        BY <1>2, <1>10, <2>1, <3>1
      <4>2. Passed(Append(burst, offer), got', Repeats)
        BY <2>1, <2>3, <4>1, PassedMore
      <4>3. QED
        BY <4>1, <4>2
    <3>2. CASE ~timed
      BY <1>10, <2>3, <3>2
    <3>3. QED
      BY <3>1, <3>2
  <2>5. bound(Len(burst'))
    <3>1. Len(burst) \in Nat /\ Len(burst) <= IF offer > 0 THEN offer - 1 ELSE FrameSize
      BY <1>5, <1>10, <2>1
    <3>2. /\ offer = 0 => offer' = 0
          /\ offer > 0 /\ s.timer # 0 => offer' = offer
          /\ offer > 0 /\ s.timer = 0 => offer' \in {0, offer + 1}
      BY <1>1, <1>3, <1>5, <1>10, OfferCases
    <3>3. CASE timed
      BY <1>2, <1>3, <2>2, <3>1, <3>2, <3>3
    <3>4. CASE ~timed
      BY <1>2, <1>3, <2>2, <3>1, <3>2, <3>4
    <3>5. QED
      BY <3>3, <3>4
  <2>6. QED
    BY <2>2, <2>4, <2>5
<1>11. CASE /\ Up /\ s.fsm # "DATA" /\ ~TxBegins(s, TxIn(talker)) /\ burst # << 0 >>
            /\ burst' = burst /\ got' \in {<< >>, got}
  <2>1. tx'[talker].fsm # "DATA"
    BY <1>6, <1>11
  <2>2. bound(Len(burst'))
    BY <1>5, <1>11, <2>1
  <2>3. Passed(burst', got', Repeats)
    BY <1>5, <1>11, PassedNone
  <2>4. QED
    BY <1>5, <1>11, <2>2, <2>3
<1>12. QED
  BY <1>1, <1>2, <1>3, <1>5, <1>8, <1>9, <1>10, <1>11, FollowCases

\* The first byte waits at the start of a frame, both timers loaded.
LEMMA FirstByteStep ==
    ASSUME PathInv, ReadyInv, FrameInv, PcsStep, offer' = 1
    PROVE  /\ tx'[talker].fsm \in {"START", "DATA"}
           /\ Up /\ Running' /\ tx'[talker].fsm = "START" =>
                /\ tx'[talker].timer = Repeats
                /\ CutOff' \/ rx'[Other(talker)].timer = Repeats
<1>1. PICK s, r : s = tx[talker] /\ r = rx[Other(talker)]
  OBVIOUS
<1>2. /\ Offer /\ talker \in Ends /\ ability \in Abilities /\ s.fsm \in TxStates
      /\ s.timer \in 0 .. Repeats /\ r.timer \in 0 .. Repeats
      /\ offer = 1 => s.fsm \in {"START", "DATA"}
  BY <1>1, InputFacts DEF PcsStep, LinkNext, PathInv, TxRegs, RxRegs, FrameInv
<1>3. \/ offer = 0 /\ Up /\ s.fsm = "IDLE"
      \/ offer = 1 /\ TxTimed(s, TxIn(talker)) /\ s.timer # 0
  BY <1>1, <1>2, OfferCases
<1>4. tx'[talker] = TxReset \/ tx'[talker] = TxNext(s, TxIn(talker))
  BY <1>1, <1>2, PathsCycle
<1>5. CASE offer = 0 /\ Up /\ s.fsm = "IDLE"
  <2>1. tx'[talker].fsm = "START"
    BY <1>4, <1>5, TxFields DEF TxReset, TxFsm
  <2>2. ASSUME Running' PROVE tx'[talker].timer = Repeats /\ (CutOff' \/ rx'[Other(talker)].timer = Repeats)
    <3>1. /\ tx'[talker] = TxNext(s, TxIn(talker)) /\ TxIn(talker).sgmii_speed = PeerSpeed
          /\ Group(Other(talker)) = TxGroup(s, TxIn(talker))
          /\ CutOff' \/ rx'[Other(talker)] = RxNext(r, Group(Other(talker)), PeerSpeed)
      BY <1>1, <1>5, <2>2, UpCycle
    <3>2. ~TxBegins(s, TxIn(talker)) /\ ~TxTimed(s, TxIn(talker))
      BY <1>5 DEF TxTimed, TxBegins
    <3>3. tx'[talker].timer = Repeats
      BY <1>2, <3>1, <3>2, TxFields, TimerFacts
    <3>4. ~RxEn(r, Group(Other(talker)))
      <4>1. Group(Other(talker)) # StartGroup
        BY <1>2, <3>1, <3>2, GroupTells
      <4>2. r.fsm # "DATA"
        <5>1. InStep(tx[Other(Other(talker))], r) /\ Other(Other(talker)) = talker
          BY <1>1, <1>2, InputFacts DEF PathInv, StepInv
        <5>2. QED
          BY <1>1, <1>5, <5>1 DEF InStep
      <4>3. QED
        BY <4>1, <4>2 DEF RxEn, RxBegins
    <3>5. CutOff' \/ rx'[Other(talker)].timer = Repeats
      BY <1>2, <3>1, <3>4, RxFields, TimerFacts
    <3>6. QED
      BY <3>3, <3>5
  <2>3. QED
    BY <2>1, <2>2
<1>6. CASE offer = 1 /\ TxTimed(s, TxIn(talker)) /\ s.timer # 0
  <2>1. TxFsm(s, TxIn(talker)) = "DATA"
    BY <1>6 DEF TxTimed, TxBegins, TxFsm
  <2>2. tx'[talker].fsm \in {"START", "DATA"}
    BY <1>4, <2>1, TxFields DEF TxReset
  <2>3. ASSUME Up, Running' PROVE tx'[talker].fsm # "START"
    <3>1. tx'[talker] = TxNext(s, TxIn(talker))
      BY <1>1, <2>3, UpCycle
    <3>2. QED
      BY <2>1, <3>1, TxFields
  <2>4. QED
    BY <2>2, <2>3
<1>7. QED
  BY <1>3, <1>5, <1>6

\* Within a frame the byte that comes out is the one last taken.
LEMMA CameStep ==
    ASSUME PathInv, ReadyInv, FrameInv, PcsStep, Up, Running', burst' # << 0 >>, ~(CutOff'),
           tx'[talker].fsm = "DATA",
           NEW m, m = rx'[Other(talker)]
    PROVE  /\ m.fsm = "DATA" /\ m.timer = tx'[talker].timer
           /\ offer' = 0 => m.valid
           /\ Repeats = 0 => burst' # << >>
           /\ IF m.valid THEN Len(got') + 1 = Len(burst') /\ m.data = AsReceived(burst', Repeats)[Len(burst')]
              ELSE Len(got') = Len(burst')
<1>1. PICK s, r, g, in : s = tx[talker] /\ r = rx[Other(talker)] /\ g = TxGroup(s, in) /\ in = TxIn(talker)
  OBVIOUS
<1>2. PICK timed : timed <=> offer > 0 /\ s.timer = 0
  OBVIOUS
<1>3. /\ Follow /\ Offer /\ talker \in Ends /\ ability \in Abilities /\ s.fsm \in TxStates
      /\ s.timer \in 0 .. Repeats /\ r.timer \in 0 .. Repeats /\ r.fsm \in RxStates
      /\ offer \in 0 .. FrameSize /\ FrameSize \in Nat /\ Repeats \in Nat
      /\ got \in Seq(RxData)
  <2>1. Repeats \in Nat
    BY TimerFacts, CodingAssumption DEF PathInv, CodingAssumption
  <2>2. QED
    BY <1>1, <2>1, InputFacts, LinkAssumption
       DEF PcsStep, LinkNext, PathInv, TxRegs, RxRegs, FrameInv, LinkAssumption
<1>4. /\ tx'[talker] = TxNext(s, in) /\ in.sgmii_speed = PeerSpeed /\ ~CutOff
      /\ m = RxNext(r, g, PeerSpeed)
  BY <1>1, UpCycle
<1>5. in.tx_stb /\ in.tx_data = offer /\ offer > 0 /\ TxTimed(s, in)
  <2>1. TxBegins(s, in) \/ (s.fsm = "DATA" /\ offer > 0)
    BY <1>1, DataNext
  <2>2. (in.tx_stb <=> offer > 0) /\ in.tx_data = offer
    BY <1>1, <1>3, InputFacts
  <2>3. QED
    BY <2>1, <2>2 DEF TxBegins, TxTimed
<1>6. tx'[talker].timer = IF s.timer = 0 THEN Repeats ELSE s.timer - 1
  BY <1>3, <1>4, <1>5, TxFields, TimerFacts DEF TimerNext
<1>7. ASSUME RxEn(r, g), r.timer = s.timer
      PROVE  m.timer = tx'[talker].timer /\ (m.valid <=> timed)
  <2>1. m.timer = IF r.timer = 0 THEN Repeats ELSE r.timer - 1
    BY <1>3, <1>4, <1>7, RxFields, TimerFacts DEF TimerNext
  <2>2. m.valid <=> r.timer = 0
    BY <1>4, <1>7, RxFields
  <2>3. QED
    BY <1>2, <1>5, <1>6, <1>7, <2>1, <2>2
<1>8. InStep(s, r)
  BY <1>1, <1>3, InputFacts DEF PathInv, StepInv
<1>9. CASE s.fsm = "START"
  <2>1. TxBegins(s, in) /\ g = StartGroup
    BY <1>1, <1>3, <1>5, <1>9, GroupTells DEF TxTimed
  <2>2. r.fsm = "START"
    BY <1>3, <1>8, <1>9 DEF InStep, RxStates
  <2>3. /\ Up /\ offer = 1 /\ got' = << >> /\ burst' = IF timed THEN << 1 >> ELSE << >>
    <3>1. burst = << 0 >> => got = << >>
      BY DEF FrameInv
    <3>2. QED
      BY <1>1, <1>2, <1>3, <1>9, <2>1, <3>1, FollowCases, Zenon
  <2>4. s.timer = Repeats /\ r.timer = Repeats
    BY <1>1, <1>4, <1>9, <2>3 DEF FrameInv
  <2>5. RxEn(r, g) /\ RxBegins(r, g) /\ m.fsm = "DATA" /\ m.data = Preamble55
    <3>1. RxBegins(r, g) /\ RxFsm(r, g) = "DATA"
      BY <2>1, <2>2, GroupFacts DEF RxBegins, RxFsm
    <3>2. QED
      BY <1>4, <3>1, RxFields DEF RxEn
  <2>6. m.timer = tx'[talker].timer /\ (m.valid <=> timed) /\ (timed <=> Repeats = 0)
    BY <1>2, <1>5, <1>7, <2>4, <2>5
  <2>7. offer' # 0
    BY <1>1, <1>3, <1>9, <2>1, <2>3, OfferCases DEF FrameInv
  <2>8. CASE timed
    <3>1. Repeats = 0 /\ m.valid /\ burst' = << 1 >> /\ got' = << >>
      BY <2>3, <2>6, <2>8
    <3>2. AsReceived(<< 1 >>, Repeats)[1] = Preamble55
      BY <3>1 DEF AsReceived
    <3>3. Len(<< 1 >>) = 1 /\ Len(<< >>) = 0 /\ << 1 >> # << >>
      OBVIOUS
    <3>4. QED
      BY <2>5, <2>6, <2>7, <3>1, <3>2, <3>3
  <2>9. CASE ~timed
    BY <2>3, <2>5, <2>6, <2>7, <2>9
  <2>10. QED
    BY <2>8, <2>9
<1>10. CASE s.fsm = "DATA"
  <2>1. g = Data(offer) /\ ~IsK(g)
    BY <1>1, <1>3, <1>5, <1>10, GroupTells, GroupFacts
  <2>2. /\ burst # << 0 >> /\ got' = (IF r.valid THEN Append(got, r.data) ELSE got)
        /\ burst' = IF timed THEN Append(burst, offer) ELSE burst
    <3>1. burst = << 0 >> => got = << >>
      BY DEF FrameInv
    <3>2. ~TxBegins(s, in)
      BY <1>10 DEF TxBegins
    <3>3. QED
      BY <1>1, <1>2, <1>3, <1>10, <3>1, <3>2, FollowCases, Zenon
  <2>3. /\ r.fsm = "DATA" /\ r.timer = s.timer /\ (Repeats = 0 => burst # << >>)
        /\ burst \in Seq(1 .. FrameSize)
        /\ r.valid => Len(burst) = Len(got) + 1
        /\ ~r.valid => Len(burst) = Len(got)
    BY <1>1, <1>4, <1>10, <2>2 DEF FrameInv, Came
  <2>4. RxEn(r, g) /\ ~RxBegins(r, g) /\ m.fsm = "DATA" /\ m.data = Data(offer)
    <3>1. RxEn(r, g) /\ ~RxBegins(r, g) /\ RxFsm(r, g) = "DATA"
      BY <2>1, <2>3 DEF RxEn, RxBegins, RxFsm
    <3>2. QED
      BY <1>4, <2>1, <3>1, RxFields
  <2>5. m.timer = tx'[talker].timer /\ (m.valid <=> timed)
    BY <1>7, <2>3, <2>4
  <2>6. offer' = 0 => timed
    BY <1>1, <1>2, <1>3, <1>5, <1>10, OfferCases DEF FrameInv
  <2>7. offer \in 1 .. FrameSize
    BY <1>3, <1>5
  <2>8. Len(got') = Len(burst)
    <3>1. CASE r.valid
      <4>1. r.data \in RxData
        BY <1>1, <1>3, InputFacts DEF PathInv, RxRegs
      <4>2. got' = Append(got, r.data)
        BY <2>2, <3>1
      <4>3. QED
        BY <1>3, <2>3, <3>1, <4>1, <4>2
    <3>2. CASE ~r.valid
      BY <2>2, <2>3, <3>2
    <3>3. QED
      BY <3>1, <3>2
  <2>9. CASE timed
    <3>1. burst' = Append(burst, offer) /\ m.valid
      BY <2>2, <2>5, <2>9
    <3>2. /\ Len(Append(burst, offer)) = Len(burst) + 1 /\ Len(burst) \in Nat
          /\ Append(burst, offer)[Len(burst) + 1] = offer /\ Append(burst, offer) # << >>
      BY <2>3, <2>7
    <3>3. ~(Len(burst) + 1 = 1 /\ Repeats = 0)
      BY <2>3, <3>2
    <3>4. AsReceived(Append(burst, offer), Repeats)[Len(burst) + 1] = Data(offer)
      BY <3>2, <3>3 DEF AsReceived
    <3>5. QED
      BY <2>4, <2>5, <2>8, <3>1, <3>2, <3>4
  <2>10. CASE ~timed
    <3>1. burst' = burst /\ ~m.valid
      BY <2>2, <2>5, <2>10
    <3>2. QED
      BY <2>3, <2>4, <2>5, <2>6, <2>10, <2>8, <3>1
  <2>11. QED
    BY <2>9, <2>10
<1>11. QED
  BY <1>5, <1>9, <1>10 DEF TxTimed, TxBegins

LEMMA FrameInit == Init => FrameInv
<1>1. SUFFICES ASSUME Init PROVE FrameInv
  OBVIOUS
<1>2. /\ offer = 0 /\ burst = << >> /\ got = << >> /\ ~Running
      /\ tx = [e \in Ends |-> TxReset] /\ talker \in Ends
  BY <1>1 DEF Init, LinkInit, AnReset, Running
<1>3. tx[talker].fsm = "START" /\ FrameSize \in Nat
  BY <1>2, LinkAssumption DEF TxReset, LinkAssumption
<1>4. /\ burst \in Seq(1 .. FrameSize) /\ burst # << 0 >> /\ Len(burst) = 0
      /\ Len(got) <= Len(burst) /\ got = SubSeq(AsReceived(burst, Repeats), 1, Len(got))
  <2>1. Passed(burst, got, Repeats)
    BY <1>2, SeqFacts, PassedNone
  <2>2. QED
    BY <1>2, <2>1, SeqFacts DEF Passed
<1>5. ~Up
  BY <1>2 DEF Up
<1>6. QED
  BY <1>2, <1>3, <1>4, <1>5 DEF FrameInv

LEMMA FramePreserved == PathInv /\ ReadyInv /\ FrameInv /\ [Next]_vars => FrameInv'
<1>1. SUFFICES ASSUME PathInv, ReadyInv, FrameInv, [Next]_vars PROVE FrameInv'
  OBVIOUS
<1>2. CASE PcsStep
  <2>1. /\ Offer /\ Follow /\ talker' = talker /\ ability' = ability /\ talker \in Ends
    BY <1>1, <1>2 DEF PcsStep, LinkNext, Offer, PathInv
  <2>2. Other(talker)' = Other(talker) /\ Repeats' = Repeats
    BY <2>1 DEF Other, Repeats, PeerSpeed
  <2>3. offer' \in 0 .. FrameSize
    BY <1>1, <2>1, OfferStep
  <2>4. BurstInv'
    BY <1>1, <1>2, BurstStep
  <2>5. offer' = 1 => /\ tx'[talker].fsm \in {"START", "DATA"}
                      /\ Up /\ Running' /\ tx'[talker].fsm = "START" =>
                           /\ tx'[talker].timer = Repeats
                           /\ CutOff' \/ rx'[Other(talker)].timer = Repeats
    BY <1>1, <1>2, FirstByteStep
  <2>6. Up' => Running'
    BY DEF Up
  <2>7. burst' # << 0 >> => Up
    BY <2>1 DEF Follow
  <2>8. Up' /\ offer' = 1 /\ tx'[talker].fsm = "START" =>
          tx'[talker].timer = Repeats /\ (CutOff' \/ rx'[Other(talker)].timer = Repeats)
    <3>1. SUFFICES ASSUME Up', offer' = 1, tx'[talker].fsm = "START" PROVE Up
      BY <2>5, <2>6
    <3>2. offer = 1 => tx[talker].fsm \in {"START", "DATA"}
      BY <1>1 DEF FrameInv
    <3>3. Up \/ TxTimed(tx[talker], TxIn(talker))
      <4>1. PICK s : s = tx[talker]
        OBVIOUS
      <4>2. \/ offer = 0 /\ Up /\ s.fsm = "IDLE"
            \/ offer = 1 /\ TxTimed(s, TxIn(talker)) /\ s.timer # 0
        BY <1>1, <2>1, <3>1, <3>2, <4>1, OfferCases
      <4>3. QED
        BY <4>1, <4>2
    <3>4. TxTimed(tx[talker], TxIn(talker)) => talker = "pcs" /\ ~TxReady
      BY <1>1, <1>2, <3>1, DataNext
    <3>5. TxReady
      <4>1. an' = IF TxReady THEN AnNext ELSE AnReset
        BY <1>2 DEF PcsStep, LinkNext, PathsNext
      <4>2. QED
        BY <2>6, <3>1, <4>1 DEF AnReset, Running
    <3>6. QED
      BY <3>3, <3>4, <3>5
  <2>9. Up' /\ burst' # << 0 >> => CutOff' \/ Came'
    <3>1. SUFFICES ASSUME Up', burst' # << 0 >>, ~(CutOff'), tx'[talker].fsm = "DATA"
                   PROVE  LET m == rx'[Other(talker)]
                          IN  /\ m.fsm = "DATA" /\ m.timer = tx'[talker].timer
                              /\ offer' = 0 => m.valid
                              /\ Repeats = 0 => burst' # << >>
                              /\ IF m.valid THEN /\ Len(got') + 1 = Len(burst')
                                                 /\ m.data = AsReceived(burst', Repeats)[Len(burst')]
                                 ELSE Len(got') = Len(burst')
      BY <2>1, <2>2 DEF Came
    <3>2. QED
      BY <1>1, <1>2, <2>6, <2>7, <3>1, CameStep
  <2>10. QED
    BY <2>1, <2>2, <2>3, <2>4, <2>5, <2>8, <2>9 DEF FrameInv, BurstInv, Passed
<1>3. CASE PinStep \/ UNCHANGED vars
  <2>1. UNCHANGED linkVars
    BY <1>3 DEF PinStep, vars
  <2>2. QED
    BY <1>1, <2>1 DEF linkVars, FrameInv, Came, CutOff, Up, Running, Repeats, PeerSpeed, Other
<1>4. QED
  BY <1>1, <1>2, <1>3 DEF Next

\* Frames come out of the other end as they went in, last with the last byte and never before,
\* at any speed and with any repetition, for frames of any length, through restarts and
\* cuts at any moment (TransmitPath and ReceivePath, pcs_1000basex.py:55-168, 192-289).
THEOREM FramesCross == Spec => []BytesAsSent
<1> DEFINE IInv == DrpInv /\ PathInv /\ ReadyInv /\ FrameInv
<1>1. Init => IInv
  BY DrpInit, PathInit, ReadyInit, FrameInit
<1>2. IInv /\ [Next]_vars => IInv'
  BY DrpPreserved, PathPreserved, ReadyPreserved, FramePreserved
<1>3. IInv => BytesAsSent
  <2>1. SUFFICES ASSUME PathInv, ReadyInv, FrameInv, Up, burst # << 0 >>
                 PROVE  /\ Len(got) <= Len(burst) /\ got = SubSeq(AsReceived(burst, Repeats), 1, Len(got))
                        /\ RxLast(rx[Other(talker)], Group(Other(talker))) =>
                             rx[Other(talker)].valid /\ Len(got) + 1 = Len(burst)
    BY DEF BytesAsSent
  <2>2. SUFFICES ASSUME RxLast(rx[Other(talker)], Group(Other(talker)))
                 PROVE  rx[Other(talker)].valid /\ Len(got) + 1 = Len(burst)
    BY <2>1 DEF FrameInv
  <2>3. PICK s, r, g : s = tx[talker] /\ r = rx[Other(talker)] /\ g = Group(Other(talker))
    OBVIOUS
  <2>4. talker \in Ends /\ Other(Other(talker)) = talker /\ s.fsm \in TxStates /\ InStep(s, r)
    BY <2>1, <2>3, InputFacts DEF PathInv, TxRegs, StepInv
  <2>5. r.fsm = "DATA" /\ s.fsm = "DATA" /\ IsK(g) /\ r.rx_en_d
    BY <2>2, <2>3, <2>4 DEF RxLast, RxEn, InStep
  <2>6. g = TxGroup(s, TxIn(talker))
    <3>1. ~Silent(Other(talker))
      BY <2>1 DEF Silent, Up, ReadyInv
    <3>2. QED
      BY <2>3, <2>4, <3>1 DEF Group
  <2>7. offer = 0
    <3>1. ~TxIn(talker).tx_stb
      BY <2>4, <2>5, <2>6, GroupTells, GroupFacts
    <3>2. QED
      BY <2>1, <2>4, <3>1, InputFacts DEF PathInv
  <2>8. ~CutOff
    BY <2>3, <2>5 DEF CutOff, RxReset
  <2>9. QED
    BY <2>1, <2>3, <2>5, <2>7, <2>8 DEF FrameInv, Came
<1>4. QED
  BY <1>1, <1>2, <1>3, PTL DEF Spec

-----------------------------------------------------------------------------
(* Types of the link. *)

AnRegs == [fsm : AnStates, fsm_inited : BOOLEAN, more_ack : 0 .. MoreAckTime,
           counter : 0 .. CheckPeriod, tick : BOOLEAN, ok : BOOLEAN]

LinkInv ==
    /\ an \in AnRegs
    /\ heard.c_counter \in 0 .. 4 /\ {heard.previous, heard.preack} \subseteq ConfigRegs
    /\ peer.fsm \in PeerStates /\ peer.timer \in 0 .. LinkTime

LEMMA ResetAnTyped == AnReset \in AnRegs
<1>1. MoreAckTime \in Nat /\ CheckPeriod \in Nat
  BY LinkAssumption DEF LinkAssumption
<1>2. QED
  BY <1>1 DEF AnReset, AnRegs, AnStates

LEMMA LinkInvInit == Init => LinkInv
<1>1. SUFFICES ASSUME Init PROVE LinkInv
  OBVIOUS
<1>2. an = AnReset /\ heard = HeardReset /\ peer = PeerReset
  BY <1>1 DEF Init, LinkInit
<1>3. LinkTime \in Nat
  BY LinkAssumption DEF LinkAssumption
<1>4. heard.c_counter \in 0 .. 4 /\ {heard.previous, heard.preack} \subseteq ConfigRegs
  BY <1>2, RegFacts DEF HeardReset
<1>5. peer.fsm \in PeerStates /\ peer.timer \in 0 .. LinkTime
  BY <1>2, <1>3 DEF PeerReset, PeerStates
<1>6. QED
  BY <1>2, <1>4, <1>5, ResetAnTyped DEF LinkInv

LEMMA AnTyped == ASSUME an \in AnRegs PROVE AnNext \in AnRegs
<1> DEFINE inited   == an.fsm_inited \/ (an.fsm = "AUTONEG_WAIT_ABI" /\ heard.abi)
           more_ack == IF an.fsm # "AUTONEG_SEND_MORE_ACK" THEN MoreAckTime
                       ELSE IF an.more_ack = 0 THEN 0 ELSE an.more_ack - 1
           counter  == IF an.counter = 0 THEN CheckPeriod ELSE an.counter - 1
           ok       == (an.ok \/ heard.ci) /\ ~an.tick
           tick     == an.counter = 0
<1>1. MoreAckTime \in Nat /\ CheckPeriod \in Nat /\ an.fsm \in AnStates
  BY LinkAssumption DEF LinkAssumption, AnRegs
<1>2. AnFsm \in AnStates
  BY <1>1 DEF AnFsm, AnStates
<1>3. inited \in BOOLEAN /\ ok \in BOOLEAN /\ tick \in BOOLEAN
  BY Zenon
<1>4. more_ack \in 0 .. MoreAckTime
  BY <1>1 DEF AnRegs
<1>5. counter \in 0 .. CheckPeriod
  BY <1>1 DEF AnRegs
<1>6. AnNext = [fsm |-> AnFsm, fsm_inited |-> inited, more_ack |-> more_ack, counter |-> counter,
                tick |-> tick, ok |-> ok]
  BY Zenon DEF AnNext
<1> HIDE DEF inited, more_ack, counter, ok, tick
<1>7. QED
  BY <1>2, <1>3, <1>4, <1>5, <1>6 DEF AnRegs

LEMMA HeardTyped ==
    ASSUME PathInv, LinkInv, NEW g
    PROVE  LET h == HeardNext(rx["pcs"], g)
           IN  h.c_counter \in 0 .. 4 /\ {h.previous, h.preack} \subseteq ConfigRegs
<1> DEFINE h == HeardNext(rx["pcs"], g)
<1>1. rx["pcs"].config_reg \in ConfigRegs
  BY DEF PathInv, Ends, RxRegs
<1>2. /\ heard.c_counter \in 0 .. 4 /\ heard.previous \in ConfigRegs /\ heard.preack \in ConfigRegs
  BY DEF LinkInv
<1>3. h.c_counter = IF rx["pcs"].seen_config_reg THEN 4
                    ELSE IF heard.c_counter # 0 THEN heard.c_counter - 1 ELSE 0
  BY Zenon DEF HeardNext
<1>4. h.previous \in {rx["pcs"].config_reg, heard.previous} /\ h.preack \in {heard.previous, heard.preack}
  BY DEF HeardNext
<1>5. h.c_counter \in 0 .. 4
  BY <1>2, <1>3
<1>6. QED
  BY <1>1, <1>2, <1>4, <1>5

LEMMA PeerTyped ==
    ASSUME LinkInv, NEW r, NEW lost
    PROVE  PeerNext(r, lost).fsm \in PeerStates /\ PeerNext(r, lost).timer \in 0 .. LinkTime
<1>1. LinkTime \in Nat /\ peer.fsm \in PeerStates /\ peer.timer \in 0 .. LinkTime
  BY LinkAssumption DEF LinkAssumption, LinkInv
<1>2. PeerFsm \in PeerStates
  BY <1>1 DEF PeerFsm, PeerStates
<1>3. CASE lost
  BY <1>1, <1>3 DEF PeerNext, PeerReset, PeerStates
<1>4. CASE ~lost
  <2>1. /\ PeerNext(r, lost).fsm = PeerFsm
        /\ PeerNext(r, lost).timer \in {LinkTime, IF peer.timer = 0 THEN 0 ELSE peer.timer - 1}
    BY <1>4 DEF PeerNext
  <2>2. QED
    BY <1>1, <1>2, <2>1
<1>5. QED
  BY <1>3, <1>4

LEMMA LinkInvPreserved == PathInv /\ LinkInv /\ [Next]_vars => LinkInv'
<1>1. SUFFICES ASSUME PathInv, LinkInv, [Next]_vars PROVE LinkInv'
  OBVIOUS
<1>2. CASE PcsStep
  <2>1. /\ an' = IF TxReady THEN AnNext ELSE AnReset
        /\ heard' = IF RxReady THEN HeardNext(rx["pcs"], Group("pcs")) ELSE HeardReset
    BY <1>2 DEF PcsStep, LinkNext, PathsNext
  <2>2. an' \in AnRegs
    BY <1>1, <2>1, AnTyped, ResetAnTyped DEF LinkInv
  <2>3. heard'.c_counter \in 0 .. 4 /\ {heard'.previous, heard'.preack} \subseteq ConfigRegs
    <3>1. CASE RxReady
      BY <1>1, <2>1, <3>1, HeardTyped
    <3>2. CASE ~RxReady
      BY <2>1, <3>2, RegFacts DEF HeardReset
    <3>3. QED
      BY <3>1, <3>2
  <2>4. \E lost : peer' = PeerNext(rx["peer"], lost)
    <3>1. NoFault \/ \E k \in FaultKinds : Fault(k)
      BY <1>2 DEF PcsStep, LinkNext
    <3>2. CASE NoFault
      BY <3>2 DEF NoFault
    <3>3. ASSUME NEW k \in FaultKinds, Fault(k) PROVE \E lost : peer' = PeerNext(rx["peer"], lost)
      BY <3>3 DEF Fault
    <3>4. QED
      BY <3>1, <3>2, <3>3
  <2>5. peer'.fsm \in PeerStates /\ peer'.timer \in 0 .. LinkTime
    BY <1>1, <2>4, PeerTyped
  <2>6. QED
    BY <2>2, <2>3, <2>5 DEF LinkInv
<1>3. CASE PinStep \/ UNCHANGED vars
  <2>1. UNCHANGED << an, heard, peer >>
    BY <1>3 DEF PinStep, vars, linkVars
  <2>2. QED
    BY <1>1, <2>1 DEF LinkInv
<1>4. QED
  BY <1>1, <1>2, <1>3 DEF Next

LEMMA LinkTyped == DrpInv /\ PathInv /\ FrameInv /\ LinkInv => PathsTypeOK /\ LinkTypeOK
<1>1. SUFFICES ASSUME DrpInv, PathInv, FrameInv, LinkInv PROVE PathsTypeOK /\ LinkTypeOK
  OBVIOUS
<1>2. Repeats \in 0 .. Reload10 /\ Reload10 \in Nat
  BY <1>1, TimerFacts, CodingAssumption DEF PathInv, CodingAssumption
<1>3. PathsTypeOK
  <2>1. 0 .. Repeats \subseteq 0 .. Reload10
    BY <1>2
  <2>2. TxRegs \subseteq [fsm : TxStates, parity : {0, 1}, c_type : BOOLEAN, config_reg : ConfigRegs,
                          timer : 0 .. Reload10]
    BY <2>1 DEF TxRegs
  <2>3. ASSUME NEW e \in Ends
        PROVE  /\ rx[e].fsm \in RxStates /\ rx[e].timer \in 0 .. Reload10
               /\ {rx[e].lsb, rx[e].config_reg} \subseteq ConfigRegs
               /\ {rx[e].seen_config_reg, rx[e].rx_en_d, rx[e].valid} \subseteq BOOLEAN
               /\ rx[e].data = Preamble55 \/ rx[e].data.byte \in Bytes
    <3>1. rx[e] \in RxRegs
      BY <1>1 DEF PathInv
    <3>2. rx[e].data \in RxData
      BY <3>1 DEF RxRegs
    <3>3. rx[e].data = Preamble55 \/ rx[e].data.byte \in Bytes
      BY <3>2 DEF RxData, Data
    <3>4. QED
      BY <2>1, <3>1, <3>3 DEF RxRegs
  <2>4. tx \in [Ends -> TxRegs]
    BY <1>1 DEF PathInv
  <2>5. tx \in [Ends -> [fsm : TxStates, parity : {0, 1}, c_type : BOOLEAN, config_reg : ConfigRegs,
                         timer : 0 .. Reload10]]
    BY <2>2, <2>4
  <2>6. QED
    BY <2>3, <2>5 DEF PathsTypeOK
<1>4. LinkTypeOK
  <2>1. an \in [fsm : AnStates, fsm_inited : BOOLEAN, more_ack : 0 .. MoreAckTime,
                counter : 0 .. CheckPeriod, tick : BOOLEAN, ok : BOOLEAN]
    BY <1>1 DEF LinkInv, AnRegs
  <2>2. heard.c_counter \in 0 .. 4 /\ {heard.previous, heard.preack, heard.link_partner} \subseteq ConfigRegs
    BY <1>1, AbilityFacts DEF LinkInv, PathInv, PartnerInv
  <2>3. /\ xcvr.txInit \in TxInitStates /\ xcvr.rxInit \in RxInitStates
        /\ xcvr.drp \in {"config", "masked"} /\ xcvr.cdr_lock_counter \in 0 .. CdrLockTime
    BY <1>1 DEF DrpInv, XcvrType
  <2>4. peer.fsm \in PeerStates /\ peer.timer \in 0 .. LinkTime /\ offer \in 0 .. FrameSize
    BY <1>1 DEF LinkInv, PathInv
  <2>5. Len(burst) \in 0 .. FrameSize /\ Len(got) \in 0 .. FrameSize
    <3>1. FrameSize \in Nat \ {0, 1} /\ got \in Seq(RxData) /\ offer \in 0 .. FrameSize
      BY <1>1, LinkAssumption DEF PathInv, LinkAssumption
    <3>2. CASE burst = << 0 >>
      <4>1. got = << >>
        BY <1>1, <3>2 DEF FrameInv
      <4>2. Len(<< 0 >>) = 1 /\ Len(<< >>) = 0
        OBVIOUS
      <4>3. QED
        BY <3>1, <3>2, <4>1, <4>2
    <3>3. CASE burst # << 0 >>
      <4>1. /\ burst \in Seq(1 .. FrameSize) /\ Len(got) <= Len(burst)
            /\ Len(burst) <= IF offer > 0 /\ tx[talker].fsm = "DATA" THEN offer - 1 ELSE FrameSize
        BY <1>1, <3>3 DEF FrameInv
      <4>2. Len(burst) \in Nat /\ Len(got) \in Nat
        BY <3>1, <4>1
      <4>3. Len(burst) <= FrameSize
        BY <3>1, <4>1, <4>2
      <4>4. QED
        BY <3>1, <4>1, <4>2, <4>3
    <3>4. QED
      BY <3>2, <3>3
  <2>6. QED
    BY <2>1, <2>2, <2>3, <2>4, <2>5 DEF LinkTypeOK
<1>5. QED
  BY <1>3, <1>4

-----------------------------------------------------------------------------
(* The negotiation against a partner that begins again. *)

\* Cycles for which the partner goes on with the frame in the middle of which it began again.
BytesLeft(o) == (FrameSize - o) * (Repeats + 1)
More == IF talker = "peer" /\ offer > 0 THEN BytesLeft(offer) + tx["peer"].timer + 1 ELSE 0

\* The partner, its transmitter at s, sends empty registers only, and the PCS, its receiver at
\* r and its registers at h, has heard of one and of nothing else since.
Clean(s)   == /\ s.fsm \in {"START", "CONFIG_D", "CONFIG_REG_LSB", "CONFIG_REG_MSB"}
              /\ s.fsm # "START" => s.config_reg = NoAbility
Told(r, h) == IsEmpty(h.link_partner) /\ (r.seen_config_reg => IsEmpty(r.config_reg))

\* The receiver is at the empty register that is sent.
Hears(s, r) ==
    IF s.fsm = "START" THEN r.seen_config_reg /\ IsEmpty(r.config_reg)
    ELSE s.config_reg = NoAbility /\ r.fsm = IF s.fsm = "CONFIG_D" THEN "K28_5" ELSE s.fsm

\* Cycles until the PCS has heard that the partner begins again, at most; more are those of a frame.
ToHear(s, r, h, more) ==
    IF Clean(s) /\ Told(r, h) THEN 0
    ELSE LET full == IF Hears(s, r) THEN 0 ELSE 4
         IN  CASE s.fsm = "DATA" -> 8 + more
               [] s.fsm = "CARRIER_EXTEND_1" -> 7
               [] s.fsm \in {"CARRIER_EXTEND_2", "IDLE"} -> 6
               [] s.fsm = "CONFIG_D" -> full + 4
               [] s.fsm = "CONFIG_REG_LSB" -> full + 3
               [] s.fsm = "CONFIG_REG_MSB" -> full + 2
               [] OTHER -> full + 1

\* With t cycles to go, every acknowledge that is on its way, in the transmitter, the receiver or
\* the PCS's registers, leaves time for more_ack_timer and for a restart after it, and so
\* does what is left of the timer.
AckWithin(s, r, h, n, t) ==
    /\ s.config_reg.ack => /\ s.fsm = "CONFIG_D" => MoreAckTime + 7 <= t
                           /\ s.fsm = "CONFIG_REG_LSB" => MoreAckTime + 6 <= t
                           /\ s.fsm = "CONFIG_REG_MSB" => MoreAckTime + 5 <= t
    /\ r.seen_config_reg /\ r.config_reg.ack => MoreAckTime + 4 <= t
    /\ h.ack => MoreAckTime + 3 <= t
    /\ n.fsm = "AUTONEG_SEND_MORE_ACK" => n.more_ack + 2 <= t
    /\ n.fsm = "RUNNING" => 1 <= t

\* timer is 0 in the last cycle of the break.
BreakInv ==
    /\ line.fault \in {"none", "cut", "deaf"} /\ (line.fault = "deaf" => deaf)
    /\ ~deaf /\ peer.fsm = "BREAK" =>
         /\ AckWithin(tx["peer"], rx["pcs"], heard, an, peer.timer + 1)
         /\ ToHear(tx["peer"], rx["pcs"], heard, More) <= peer.timer
    /\ ~deaf /\ peer.fsm = "ABILITY" => AckWithin(tx["peer"], rx["pcs"], heard, an, 0)

\* The partner's break outlasts more_ack_timer and the way of a register from its transmitter to
\* the PCS's negotiation; and a frame at the slowest speed, and the way of a register after it.
EnoughBreak == LinkTime >= MoreAckTime + 6 /\ LinkTime >= FrameSize * (Reload10 + 1) + 8

LEMMA LinkNumbers ==
    /\ LinkTime \in Nat /\ MoreAckTime \in Nat /\ FrameSize \in Nat \ {0, 1} /\ Reload10 \in Nat
  BY LinkAssumption, CodingAssumption DEF LinkAssumption, CodingAssumption

\* Products of naturals, for the solver.
LEMMA OneMore == \A a, b \in Nat : (a + 1) * b = a * b + b /\ a * b \in Nat
  OBVIOUS

LEMMA Monotone == \A a, b, c \in Nat : a <= b => a * c <= b * c
<1>1. SUFFICES ASSUME NEW a \in Nat, NEW b \in Nat, NEW c \in Nat, a <= b PROVE a * c <= b * c
  OBVIOUS
<1>2. (b - a) * c \in Nat
  <2>1. b - a \in Nat
    BY <1>1
  <2>2. QED
    BY <2>1, OneMore
<1>3. (b - a) * c = b * c - a * c
  BY <1>1
<1>4. a * c \in Nat /\ b * c \in Nat
  BY <1>1, OneMore
<1>5. QED
  BY <1>2, <1>3, <1>4

LEMMA BytesLeftFacts ==
    ASSUME ability \in Abilities, NEW o \in 1 .. FrameSize
    PROVE  /\ BytesLeft(o) \in Nat /\ Repeats \in Nat
           /\ BytesLeft(o) + Repeats + 1 <= FrameSize * (Reload10 + 1)
           /\ o < FrameSize => BytesLeft(o) = BytesLeft(o + 1) + Repeats + 1
<1>1. /\ Repeats \in Nat /\ Repeats <= Reload10 /\ FrameSize \in Nat /\ o \in Nat /\ o <= FrameSize
      /\ o >= 1 /\ Reload10 \in Nat /\ FrameSize - o \in Nat
  BY TimerFacts, LinkNumbers
<1> DEFINE n == Repeats + 1
           m == Reload10 + 1
           k == FrameSize - o
<1>2. n \in Nat /\ m \in Nat /\ n <= m /\ k \in Nat /\ k + 1 <= FrameSize /\ k + 1 \in Nat
  BY <1>1
<1>3. BytesLeft(o) = k * n
  BY DEF BytesLeft
<1>4. o < FrameSize => k - 1 \in Nat /\ BytesLeft(o + 1) = (k - 1) * n
  BY <1>1 DEF BytesLeft
<1> HIDE DEF n, m, k
<1>5. k * n \in Nat /\ (k + 1) * n = k * n + n
  BY <1>2, OneMore
<1>6. (k + 1) * n <= FrameSize * n
  BY <1>1, <1>2, Monotone
<1>7. n * FrameSize <= m * FrameSize
  BY <1>1, <1>2, Monotone
<1>8. n * FrameSize = FrameSize * n /\ m * FrameSize = FrameSize * m
  BY <1>1, <1>2
<1>9. FrameSize * n \in Nat /\ FrameSize * m \in Nat
  BY <1>1, <1>2, OneMore
<1>10. k * n + n <= FrameSize * m
  BY <1>5, <1>6, <1>7, <1>8, <1>9, <1>2
<1>11. o < FrameSize => k * n = (k - 1) * n + n
  <2>1. SUFFICES ASSUME o < FrameSize PROVE k * n = (k - 1) * n + n
    OBVIOUS
  <2>2. PICK j \in Nat : j = k - 1
    BY <1>4, <2>1
  <2>3. (j + 1) * n = j * n + n /\ j + 1 = k
    BY <1>2, <2>2, OneMore
  <2>4. QED
    BY <2>2, <2>3
<1>12. n = Repeats + 1 /\ m = Reload10 + 1
  BY DEF n, m
<1>13. BytesLeft(o) + Repeats + 1 <= FrameSize * (Reload10 + 1)
  <2>1. BytesLeft(o) + n <= FrameSize * m
    BY <1>3, <1>10
  <2>2. BytesLeft(o) + n = BytesLeft(o) + Repeats + 1
    BY <1>1, <1>3, <1>5, <1>12
  <2>3. FrameSize * m = FrameSize * (Reload10 + 1)
    BY <1>12
  <2>4. QED
    BY <2>1, <2>2, <2>3
<1>14. o < FrameSize => BytesLeft(o) = BytesLeft(o + 1) + Repeats + 1
  <2>1. SUFFICES ASSUME o < FrameSize PROVE BytesLeft(o) = BytesLeft(o + 1) + Repeats + 1
    OBVIOUS
  <2>2. (k - 1) * n \in Nat
    BY <1>2, <1>4, <2>1, OneMore
  <2>3. BytesLeft(o) = BytesLeft(o + 1) + n /\ BytesLeft(o + 1) \in Nat
    BY <1>3, <1>4, <1>11, <2>1, <2>2
  <2>4. QED
    BY <1>1, <1>12, <2>3
<1>15. QED
  BY <1>1, <1>3, <1>5, <1>13, <1>14

LEMMA MoreBound ==
    ASSUME PathInv
    PROVE  /\ More \in Nat /\ More <= FrameSize * (Reload10 + 1)
           /\ FrameSize * (Reload10 + 1) \in Nat
           /\ More = 0 <=> ~TxIn("peer").tx_stb
<1>1. /\ ability \in Abilities /\ offer \in 0 .. FrameSize /\ talker \in Ends
      /\ tx["peer"].timer \in 0 .. Repeats /\ FrameSize \in Nat /\ Reload10 \in Nat /\ Repeats \in Nat
  BY LinkNumbers, TimerFacts DEF PathInv, TxRegs, Ends
<1>2. FrameSize * (Reload10 + 1) \in Nat
  <2>1. Reload10 + 1 \in Nat
    BY <1>1
  <2>2. QED
    BY <1>1, <2>1, OneMore
<1>3. TxIn("peer").tx_stb <=> talker = "peer" /\ offer > 0
  BY DEF TxIn
<1>4. CASE talker = "peer" /\ offer > 0
  <2>1. offer \in 1 .. FrameSize
    BY <1>1, <1>4
  <2>2. /\ BytesLeft(offer) \in Nat /\ BytesLeft(offer) + Repeats + 1 <= FrameSize * (Reload10 + 1)
    BY <1>1, <2>1, BytesLeftFacts
  <2>3. More = BytesLeft(offer) + tx["peer"].timer + 1
    BY <1>4 DEF More
  <2>4. More \in Nat /\ More # 0 /\ More <= FrameSize * (Reload10 + 1)
    BY <1>1, <1>2, <2>2, <2>3
  <2>5. QED
    BY <1>2, <1>3, <1>4, <2>4
<1>5. CASE ~(talker = "peer" /\ offer > 0)
  <2>1. More = 0
    BY <1>5 DEF More
  <2>2. QED
    BY <1>2, <1>3, <1>5, <2>1
<1>6. QED
  BY <1>4, <1>5

\* A byte leaves after its repetitions, and the next is one of the frame's, or none.
LEMMA MoreStep ==
    ASSUME PathInv, PathInv', PcsStep, tx["peer"].fsm = "DATA", More > 0
    PROVE  More' < More
<1>1. /\ ability \in Abilities /\ ability' = ability /\ offer \in 0 .. FrameSize /\ talker \in Ends
      /\ tx["peer"] \in TxRegs /\ tx["peer"].timer \in 0 .. Repeats /\ FrameSize \in Nat \ {0, 1}
      /\ Repeats \in Nat /\ Offer /\ talker' = talker
  BY LinkNumbers, TimerFacts DEF PathInv, TxRegs, Ends, PcsStep, LinkNext, Offer
<1>2. talker = "peer" /\ offer > 0 /\ More = BytesLeft(offer) + tx["peer"].timer + 1
  BY DEF More
<1>3. Repeats' = Repeats
  BY <1>1 DEF Repeats, PeerSpeed
<1>4. TxTimed(tx["peer"], TxIn("peer")) /\ tx'["peer"] = TxNext(tx["peer"], TxIn("peer"))
  BY <1>1, <1>2, PathsCycle DEF TxTimed, TxIn, Ends
<1>5. tx'["peer"].timer = TimerNext(tx["peer"].timer, TRUE, TxIn("peer").sgmii_speed)
      /\ tx'["peer"].timer \in 0 .. Repeats
  <2>1. tx'["peer"].timer = TimerNext(tx["peer"].timer, TxTimed(tx["peer"], TxIn("peer")), TxIn("peer").sgmii_speed)
    BY <1>4, TxFields
  <2>2. TxIn("peer").sgmii_speed = PeerSpeed
    BY DEF TxIn
  <2>3. tx'["peer"].timer \in 0 .. Repeats
    BY <1>1, <2>1, <2>2, TimerFacts
  <2>4. QED
    BY <1>4, <2>1, <2>3 DEF TimerNext
<1>6. offer \in 1 .. FrameSize /\ BytesLeft(offer) \in Nat
      /\ (offer < FrameSize => BytesLeft(offer) = BytesLeft(offer + 1) + Repeats + 1)
  <2>1. offer \in 1 .. FrameSize
    BY <1>1, <1>2
  <2>2. QED
    BY <1>1, <2>1, BytesLeftFacts
<1>7. More' = IF offer' > 0 THEN BytesLeft(offer') + tx'["peer"].timer + 1 ELSE 0
  <2>1. \A o : (FrameSize - o) * (Repeats' + 1) = BytesLeft(o)
    BY <1>3 DEF BytesLeft
  <2>2. QED
    BY <1>1, <1>2, <2>1 DEF More, BytesLeft
<1>8. CASE tx["peer"].timer = 0
  <2>1. offer' = 0 \/ (offer < FrameSize /\ offer' = offer + 1)
    <3>1. TxAck(tx["peer"], TxIn("peer"))
      BY <1>4, <1>8 DEF TxAck
    <3>2. offer' \in (IF offer = 1 THEN {2} ELSE IF offer < FrameSize THEN {0, offer + 1} ELSE {0})
      BY <1>1, <1>2, <3>1 DEF Offer
    <3>3. QED
      BY <1>1, <3>2
  <2>2. CASE offer' = 0
    BY <1>2, <1>6, <1>7, <1>8, <2>2
  <2>3. CASE offer < FrameSize /\ offer' = offer + 1
    <3>1. offer + 1 \in 1 .. FrameSize
      BY <1>1, <1>6, <2>3
    <3>2. BytesLeft(offer + 1) \in Nat
      BY <1>1, <3>1, BytesLeftFacts
    <3>3. More' = BytesLeft(offer + 1) + tx'["peer"].timer + 1
      BY <1>7, <2>3, <3>1
    <3>4. More = BytesLeft(offer + 1) + Repeats + 1 + 1
      BY <1>1, <1>2, <1>6, <1>8, <2>3, <3>2
    <3> DEFINE b == BytesLeft(offer + 1)
               t == tx'["peer"].timer
    <3>5. b \in Nat /\ t \in 0 .. Repeats /\ Repeats \in Nat
      BY <1>1, <1>5, <3>2
    <3>6. More' = b + t + 1 /\ More = b + Repeats + 1 + 1
      BY <3>3, <3>4
    <3> HIDE DEF b, t
    <3>7. QED
      BY <3>5, <3>6
  <2>4. QED
    BY <2>1, <2>2, <2>3
<1>9. CASE tx["peer"].timer # 0
  <2>1. ~TxAck(tx["peer"], TxIn("peer")) /\ offer # 0
    BY <1>1, <1>2, <1>4, <1>9 DEF TxAck
  <2>2. offer' = offer
    BY <1>1, <1>2, <2>1 DEF Offer
  <2>3. tx'["peer"].timer = tx["peer"].timer - 1
    BY <1>5, <1>9 DEF TimerNext
  <2>4. QED
    BY <1>1, <1>2, <1>6, <1>7, <2>2, <2>3
<1>10. QED
  BY <1>8, <1>9

LEMMA ToHearCases ==
    ASSUME NEW s, NEW r, NEW h, NEW more \in Nat, s.fsm \in TxStates
    PROVE  LET w == ToHear(s, r, h, more)
           IN  /\ w \in 0 .. 8 + more
               /\ Clean(s) /\ Told(r, h) => w = 0
               /\ ~(Clean(s) /\ Told(r, h)) =>
                    /\ w > 0
                    /\ s.fsm = "DATA" => w = 8 + more
                    /\ s.fsm = "CARRIER_EXTEND_1" => w = 7
                    /\ s.fsm \in {"CARRIER_EXTEND_2", "IDLE"} => w = 6
                    /\ s.fsm = "CONFIG_D" => w = IF Hears(s, r) THEN 4 ELSE 8
                    /\ s.fsm = "CONFIG_REG_LSB" => w = IF Hears(s, r) THEN 3 ELSE 7
                    /\ s.fsm = "CONFIG_REG_MSB" => w = IF Hears(s, r) THEN 2 ELSE 6
                    /\ s.fsm = "START" => w = IF Hears(s, r) THEN 1 ELSE 5
<1>1. /\ Clean(s) /\ Told(r, h) => ToHear(s, r, h, more) = 0
      /\ ~(Clean(s) /\ Told(r, h)) =>
           /\ s.fsm = "DATA" => ToHear(s, r, h, more) = 8 + more
           /\ s.fsm = "CARRIER_EXTEND_1" => ToHear(s, r, h, more) = 7
           /\ s.fsm \in {"CARRIER_EXTEND_2", "IDLE"} => ToHear(s, r, h, more) = 6
  BY DEF ToHear
<1>2. ~(Clean(s) /\ Told(r, h)) =>
        /\ s.fsm = "CONFIG_D" => ToHear(s, r, h, more) = IF Hears(s, r) THEN 4 ELSE 8
        /\ s.fsm = "CONFIG_REG_LSB" => ToHear(s, r, h, more) = IF Hears(s, r) THEN 3 ELSE 7
  BY DEF ToHear
<1>3. ~(Clean(s) /\ Told(r, h)) =>
        /\ s.fsm = "CONFIG_REG_MSB" => ToHear(s, r, h, more) = IF Hears(s, r) THEN 2 ELSE 6
        /\ s.fsm = "START" => ToHear(s, r, h, more) = IF Hears(s, r) THEN 1 ELSE 5
  BY DEF ToHear
<1>4. QED
  BY <1>1, <1>2, <1>3 DEF TxStates

\* When the break begins, it is long enough, whatever was sent before.
LEMMA BreakBegins ==
    EnoughBreak /\ PathInv /\ LinkInv =>
      /\ AckWithin(tx["peer"], rx["pcs"], heard, an, LinkTime + 1)
      /\ ToHear(tx["peer"], rx["pcs"], heard, More) \in 0 .. LinkTime
<1>1. SUFFICES ASSUME EnoughBreak, PathInv, LinkInv
               PROVE  /\ AckWithin(tx["peer"], rx["pcs"], heard, an, LinkTime + 1)
                      /\ ToHear(tx["peer"], rx["pcs"], heard, More) \in 0 .. LinkTime
  OBVIOUS
<1>2. /\ LinkTime \in Nat /\ MoreAckTime \in Nat /\ LinkTime >= MoreAckTime + 6
      /\ LinkTime >= FrameSize * (Reload10 + 1) + 8 /\ FrameSize * (Reload10 + 1) \in Nat
      /\ an.more_ack \in 0 .. MoreAckTime /\ tx["peer"].fsm \in TxStates
      /\ More \in Nat /\ More <= FrameSize * (Reload10 + 1)
  BY <1>1, LinkNumbers, MoreBound DEF EnoughBreak, LinkInv, AnRegs, PathInv, TxRegs, Ends
<1>3. AckWithin(tx["peer"], rx["pcs"], heard, an, LinkTime + 1)
  BY <1>2 DEF AckWithin
<1>4. ToHear(tx["peer"], rx["pcs"], heard, More) \in 0 .. 8 + More
  BY <1>2, ToHearCases
<1>5. QED
  BY <1>2, <1>3, <1>4

LEMMA BreakBeginsNext ==
    (EnoughBreak /\ PathInv /\ LinkInv)' =>
      (/\ AckWithin(tx["peer"], rx["pcs"], heard, an, LinkTime + 1)
       /\ ToHear(tx["peer"], rx["pcs"], heard, More) \in 0 .. LinkTime)'
  BY BreakBegins, PTL

\* What the partner's transmitter does in a cycle of the break or of its ability.
LEMMA BreakSends ==
    ASSUME PathInv, PcsStep, peer.fsm \in {"BREAK", "ABILITY"},
           NEW s, s = tx["peer"], NEW n, n = tx'["peer"]
    PROVE  /\ s.fsm \in TxStates /\ n.fsm \in TxStates /\ ~TxBegins(s, TxIn("peer"))
           /\ s.fsm = "START" => /\ n.fsm = "CONFIG_D" /\ ~n.config_reg.ack
                                 /\ peer.fsm = "BREAK" => n.config_reg = NoAbility
           /\ s.fsm # "START" => n.config_reg = s.config_reg
           /\ s.fsm = "CONFIG_D" => n.fsm = "CONFIG_REG_LSB"
           /\ s.fsm = "CONFIG_REG_LSB" => n.fsm = "CONFIG_REG_MSB"
           /\ s.fsm \in {"CONFIG_REG_MSB", "IDLE", "CARRIER_EXTEND_2"} => n.fsm = "START"
           /\ s.fsm = "CARRIER_EXTEND_1" => n.fsm \in {"START", "CARRIER_EXTEND_2"}
           /\ s.fsm = "DATA" => n.fsm = IF More = 0 THEN "CARRIER_EXTEND_1" ELSE "DATA"
<1>1. /\ s \in TxRegs /\ s.fsm \in TxStates /\ ability \in Abilities
      /\ n = TxNext(s, TxIn("peer"))
  BY PathsCycle DEF PathInv, Ends, TxRegs
<1>2. TxIn("peer").config_stb /\ TxIn("peer").config_reg = PeerConfigReg
  BY DEF TxIn
<1>3. ~PeerConfigReg.ack /\ (peer.fsm = "BREAK" => PeerConfigReg = NoAbility)
  <2>1. ~ability.ack
    BY <1>1, LinkAssumption DEF LinkAssumption
  <2>2. ~NoAbility.ack
    BY DEF NoAbility
  <2>3. QED
    BY <2>1, <2>2 DEF PeerConfigReg
<1>4. ~TxBegins(s, TxIn("peer"))
  BY <1>2 DEF TxBegins
<1>5. n.fsm = TxFsm(s, TxIn("peer"))
      /\ n.config_reg = IF s.fsm = "START" THEN PeerConfigReg ELSE s.config_reg
  BY <1>1, <1>2, TxFields
<1>6. TxFsm(s, TxIn("peer")) \in TxStates
  BY <1>1 DEF TxFsm, AfterExtend, TxStates
<1>7. /\ s.fsm = "START" => n.fsm = "CONFIG_D"
      /\ s.fsm = "CONFIG_D" => n.fsm = "CONFIG_REG_LSB"
      /\ s.fsm = "CONFIG_REG_LSB" => n.fsm = "CONFIG_REG_MSB"
      /\ s.fsm \in {"CONFIG_REG_MSB", "IDLE", "CARRIER_EXTEND_2"} => n.fsm = "START"
      /\ s.fsm = "CARRIER_EXTEND_1" => n.fsm \in {"START", "CARRIER_EXTEND_2"}
      /\ s.fsm = "DATA" => n.fsm = IF TxIn("peer").tx_stb THEN "DATA" ELSE "CARRIER_EXTEND_1"
  BY <1>2, <1>5 DEF TxFsm, AfterExtend
<1>8. More = 0 <=> ~TxIn("peer").tx_stb
  BY MoreBound
<1>9. QED
  BY <1>1, <1>3, <1>4, <1>5, <1>6, <1>7, <1>8

\* What the PCS makes of a group that comes to it from a transmitter in a break.
LEMMA BreakReceives ==
    ASSUME NEW s, NEW r, NEW in, NEW g, NEW speeds, NEW n, s.fsm \in TxStates, r.fsm \in RxStates,
           s.config_reg \in ConfigRegs, InStep(s, r), g = TxGroup(s, in), ~TxBegins(s, in),
           n = RxNext(r, g, speeds)
    PROVE  /\ s.fsm = "START" => n.fsm = "K28_5"
           /\ s.fsm = "CONFIG_D" /\ r.fsm = "K28_5" => n.fsm = "CONFIG_REG_LSB"
           /\ s.fsm = "CONFIG_REG_LSB" /\ r.fsm = "CONFIG_REG_LSB" => n.fsm = "CONFIG_REG_MSB"
           /\ s.fsm = "CONFIG_REG_MSB" /\ r.fsm = "CONFIG_REG_MSB" => n.seen_config_reg
           /\ n.seen_config_reg => /\ s.fsm = "CONFIG_REG_MSB"
                                   /\ n.config_reg = s.config_reg
<1>1. n.fsm = RxFsm(r, g) /\ (n.seen_config_reg <=> r.fsm = "CONFIG_REG_MSB" /\ ~IsK(g))
  BY DEF RxNext
<1>2. n.config_reg = IF r.fsm = "CONFIG_REG_MSB" /\ ~IsK(g) THEN Joined(r.lsb, g.msb) ELSE r.config_reg
  BY RxFields
<1>3. s.fsm = "START" => n.fsm = "K28_5"
  <2>1. SUFFICES ASSUME s.fsm = "START" PROVE n.fsm = "K28_5"
    OBVIOUS
  <2>2. r.fsm = "START"
    BY <2>1 DEF InStep, RxStates
  <2>3. g = Comma
    BY <2>1 DEF TxGroup
  <2>4. QED
    BY <1>1, <2>2, <2>3 DEF RxFsm
<1>4. s.fsm = "CONFIG_D" /\ r.fsm = "K28_5" => n.fsm = "CONFIG_REG_LSB"
  <2>1. SUFFICES ASSUME s.fsm = "CONFIG_D", r.fsm = "K28_5" PROVE n.fsm = "CONFIG_REG_LSB"
    OBVIOUS
  <2>2. g \in {Config1, Config2}
    BY <2>1 DEF TxGroup
  <2>3. QED
    BY <1>1, <2>1, <2>2 DEF RxFsm
<1>5. s.fsm = "CONFIG_REG_LSB" /\ r.fsm = "CONFIG_REG_LSB" => n.fsm = "CONFIG_REG_MSB"
  <2>1. SUFFICES ASSUME s.fsm = "CONFIG_REG_LSB", r.fsm = "CONFIG_REG_LSB" PROVE n.fsm = "CONFIG_REG_MSB"
    OBVIOUS
  <2>2. g = Lsb(s.config_reg) /\ ~IsK(g) /\ g # StartGroup
    BY <2>1, GroupFacts, GroupTells
  <2>3. QED
    BY <1>1, <2>1, <2>2 DEF RxFsm, RxBegins
<1>6. r.fsm = "CONFIG_REG_MSB" => /\ s.fsm = "CONFIG_REG_MSB" /\ n.seen_config_reg
                                  /\ n.config_reg = s.config_reg
  <2>1. SUFFICES ASSUME r.fsm = "CONFIG_REG_MSB"
                 PROVE  s.fsm = "CONFIG_REG_MSB" /\ n.seen_config_reg /\ n.config_reg = s.config_reg
    OBVIOUS
  <2>2. s.fsm = "CONFIG_REG_MSB" /\ r.lsb = s.config_reg
    BY <2>1 DEF InStep
  <2>3. g = Msb(s.config_reg) /\ ~IsK(g) /\ g.msb = s.config_reg
    BY <2>2, GroupFacts, GroupTells, RegFacts
  <2>4. QED
    BY <1>1, <1>2, <2>1, <2>2, <2>3, RegFacts
<1>7. QED
  BY <1>1, <1>3, <1>4, <1>5, <1>6

LEMMA BreakHeard ==
    ASSUME PathInv, PcsStep, peer.fsm \in {"BREAK", "ABILITY"}, TxReady, line.fault = "none",
           NEW s, s = tx["peer"], NEW r, r = rx["pcs"], NEW m, m = rx'["pcs"]
    PROVE  \/ m = RxReset /\ heard' = HeardReset
           \/ /\ s.fsm = "START" => m.fsm = "K28_5"
              /\ s.fsm = "CONFIG_D" /\ r.fsm = "K28_5" => m.fsm = "CONFIG_REG_LSB"
              /\ s.fsm = "CONFIG_REG_LSB" /\ r.fsm = "CONFIG_REG_LSB" => m.fsm = "CONFIG_REG_MSB"
              /\ s.fsm = "CONFIG_REG_MSB" /\ r.fsm = "CONFIG_REG_MSB" => m.seen_config_reg
              /\ m.seen_config_reg => s.fsm = "CONFIG_REG_MSB" /\ m.config_reg = s.config_reg
              /\ heard'.link_partner = IF r.seen_config_reg THEN r.config_reg ELSE heard.link_partner
              /\ heard'.ack => r.seen_config_reg /\ r.config_reg.ack
<1>1. /\ s \in TxRegs /\ r \in RxRegs /\ s.fsm \in TxStates /\ r.fsm \in RxStates
      /\ s.config_reg \in ConfigRegs /\ InStep(s, r)
  <2>1. Other("pcs") = "peer" /\ "pcs" \in Ends /\ "peer" \in Ends
    BY DEF Other, Ends
  <2>2. QED
    BY <2>1 DEF PathInv, TxRegs, RxRegs, StepInv
<1>2. Group("pcs") = TxGroup(s, TxIn("peer")) /\ ~TxBegins(s, TxIn("peer"))
  BY BreakSends DEF Group, Silent, Other
<1>3. heard' = IF RxReady THEN HeardNext(r, Group("pcs")) ELSE HeardReset
  BY DEF PcsStep, LinkNext, PathsNext
<1>4. CASE ~RxReady
  BY <1>3, <1>4, PathsCycle
<1>5. CASE RxReady
  <2>1. m = RxNext(r, Group("pcs"), SgmiiSpeed) /\ heard' = HeardNext(r, Group("pcs"))
    BY <1>3, <1>5, PathsCycle
  <2>2. heard'.link_partner = IF r.seen_config_reg THEN r.config_reg ELSE heard.link_partner
    BY <2>1 DEF HeardNext
  <2>3. heard'.ack => r.seen_config_reg /\ r.config_reg.ack
    BY <2>1 DEF HeardNext
  <2>4. /\ s.fsm = "START" => m.fsm = "K28_5"
        /\ s.fsm = "CONFIG_D" /\ r.fsm = "K28_5" => m.fsm = "CONFIG_REG_LSB"
        /\ s.fsm = "CONFIG_REG_LSB" /\ r.fsm = "CONFIG_REG_LSB" => m.fsm = "CONFIG_REG_MSB"
        /\ s.fsm = "CONFIG_REG_MSB" /\ r.fsm = "CONFIG_REG_MSB" => m.seen_config_reg
        /\ m.seen_config_reg => s.fsm = "CONFIG_REG_MSB" /\ m.config_reg = s.config_reg
    BY <1>1, <1>2, <2>1, BreakReceives
  <2>5. QED
    BY <2>2, <2>3, <2>4
<1>6. QED
  BY <1>4, <1>5

LEMMA MoreNat == PathInv => More \in Nat
  BY MoreBound

LEMMA MoreNatNext == PathInv' => (More \in Nat)'
  BY MoreNat, PTL

\* Every cycle of the break brings the PCS nearer to hearing of it; what it has heard stays.
LEMMA HearStep ==
    ASSUME PathInv, PathInv', PcsStep, peer.fsm = "BREAK", TxReady, line.fault = "none",
           NEW v, v = ToHear(tx["peer"], rx["pcs"], heard, More),
           NEW w, w = ToHear(tx'["peer"], rx'["pcs"], heard', More')
    PROVE  v \in Nat /\ w \in Nat /\ (v = 0 => w = 0) /\ (v > 0 => w < v)
<1>1. PICK s, n, r, m : s = tx["peer"] /\ n = tx'["peer"] /\ r = rx["pcs"] /\ m = rx'["pcs"]
  OBVIOUS
<1>2. /\ s.fsm \in TxStates /\ n.fsm \in TxStates
      /\ s.fsm = "START" => n.fsm = "CONFIG_D" /\ n.config_reg = NoAbility
      /\ s.fsm # "START" => n.config_reg = s.config_reg
      /\ s.fsm = "CONFIG_D" => n.fsm = "CONFIG_REG_LSB"
      /\ s.fsm = "CONFIG_REG_LSB" => n.fsm = "CONFIG_REG_MSB"
      /\ s.fsm \in {"CONFIG_REG_MSB", "IDLE", "CARRIER_EXTEND_2"} => n.fsm = "START"
      /\ s.fsm = "CARRIER_EXTEND_1" => n.fsm \in {"START", "CARRIER_EXTEND_2"}
      /\ s.fsm = "DATA" => n.fsm = IF More = 0 THEN "CARRIER_EXTEND_1" ELSE "DATA"
  BY <1>1, BreakSends
<1>3. \/ m = RxReset /\ heard' = HeardReset
      \/ /\ s.fsm = "START" => m.fsm = "K28_5"
         /\ s.fsm = "CONFIG_D" /\ r.fsm = "K28_5" => m.fsm = "CONFIG_REG_LSB"
         /\ s.fsm = "CONFIG_REG_LSB" /\ r.fsm = "CONFIG_REG_LSB" => m.fsm = "CONFIG_REG_MSB"
         /\ s.fsm = "CONFIG_REG_MSB" /\ r.fsm = "CONFIG_REG_MSB" => m.seen_config_reg
         /\ m.seen_config_reg => s.fsm = "CONFIG_REG_MSB" /\ m.config_reg = s.config_reg
         /\ heard'.link_partner = IF r.seen_config_reg THEN r.config_reg ELSE heard.link_partner
  BY <1>1, BreakHeard
<1>4. More \in Nat /\ More' \in Nat /\ (s.fsm = "DATA" /\ More > 0 => More' < More)
  BY <1>1, MoreNat, MoreNatNext, MoreStep
<1>5. m = RxReset /\ heard' = HeardReset => Told(m, heard')
  <2>1. ~RxReset.seen_config_reg /\ HeardReset.link_partner = NoAbility
    BY DEF RxReset, HeardReset
  <2>2. QED
    BY <2>1, RegFacts DEF Told
<1>6. PICK a, b \in Nat : a = More /\ b = More'
  BY <1>4
<1>7. v = ToHear(s, r, heard, a) /\ w = ToHear(n, m, heard', b)
  BY <1>1, <1>6
<1>8. v \in 0 .. 8 + a /\ w \in 0 .. 8 + b
  BY <1>2, <1>7, ToHearCases
<1>9. CASE Clean(s) /\ Told(r, heard)
  <2>1. Clean(n)
    BY <1>2, <1>9 DEF Clean
  <2>2. Told(m, heard')
    <3>1. CASE m = RxReset /\ heard' = HeardReset
      BY <1>5, <3>1
    <3>2. CASE ~(m = RxReset /\ heard' = HeardReset)
      <4>1. m.seen_config_reg => IsEmpty(m.config_reg)
        BY <1>3, <1>9, <3>2, RegFacts DEF Clean
      <4>2. IsEmpty(heard'.link_partner)
        BY <1>3, <1>9, <3>2 DEF Told
      <4>3. QED
        BY <4>1, <4>2 DEF Told
    <3>3. QED
      BY <3>1, <3>2
  <2>3. v = 0 /\ w = 0
    BY <1>2, <1>7, <1>9, <2>1, <2>2, ToHearCases
  <2>4. QED
    BY <2>3
<1>10. CASE ~(Clean(s) /\ Told(r, heard))
  <2>1. w = 0 \/ ~(Clean(n) /\ Told(m, heard'))
    BY <1>2, <1>7, ToHearCases
  <2>2. v > 0
    BY <1>2, <1>7, <1>10, ToHearCases
  <2> SUFFICES ASSUME ~(Clean(n) /\ Told(m, heard')) PROVE w < v
    BY <1>8, <2>1, <2>2
  <2>3. n.fsm = "START" => w <= 5
    BY <1>2, <1>7, ToHearCases
  <2>4. CASE s.fsm = "DATA" /\ More > 0
    <3>1. n.fsm = "DATA" /\ v = 8 + a
      BY <1>2, <1>7, <1>10, <2>4, ToHearCases
    <3>2. w = 8 + b
      BY <1>2, <1>7, <3>1, ToHearCases
    <3>3. b < a
      BY <1>4, <1>6, <2>4
    <3>4. QED
      BY <3>1, <3>2, <3>3
  <2>5. CASE s.fsm = "DATA" /\ More = 0
    <3>1. n.fsm = "CARRIER_EXTEND_1" /\ v = 8 + a
      BY <1>2, <1>7, <1>10, <2>5, ToHearCases
    <3>2. w = 7
      BY <1>2, <1>7, <3>1, ToHearCases
    <3>3. QED
      BY <3>1, <3>2
  <2>6. CASE s.fsm = "CARRIER_EXTEND_1"
    <3>1. v = 7 /\ n.fsm \in {"START", "CARRIER_EXTEND_2"}
      BY <1>2, <1>7, <1>10, <2>6, ToHearCases
    <3>2. n.fsm = "CARRIER_EXTEND_2" => w = 6
      BY <1>2, <1>7, ToHearCases
    <3>3. QED
      BY <1>8, <2>3, <3>1, <3>2
  <2>7. CASE s.fsm \in {"CARRIER_EXTEND_2", "IDLE"}
    <3>1. v = 6 /\ n.fsm = "START"
      BY <1>2, <1>7, <1>10, <2>7, ToHearCases
    <3>2. QED
      BY <1>8, <2>3, <3>1
  <2>8. CASE s.fsm = "START"
    <3>1. n.fsm = "CONFIG_D" /\ n.config_reg = NoAbility /\ Clean(n)
      BY <1>2, <2>8 DEF Clean
    <3>2. ~(m = RxReset /\ heard' = HeardReset) /\ ~Told(m, heard')
      BY <1>5, <3>1
    <3>3. m.fsm = "K28_5" /\ ~m.seen_config_reg
          /\ heard'.link_partner = IF r.seen_config_reg THEN r.config_reg ELSE heard.link_partner
      BY <1>3, <2>8, <3>2
    <3>4. ~Hears(s, r)
      BY <2>8, <3>2, <3>3 DEF Hears, Told
    <3>5. Hears(n, m)
      BY <3>1, <3>3 DEF Hears
    <3>6. v = 5
      BY <1>2, <1>7, <1>10, <2>8, <3>4, ToHearCases
    <3>7. w = 4
      BY <1>2, <1>7, <3>1, <3>5, ToHearCases
    <3>8. QED
      BY <3>6, <3>7
  <2>9. CASE s.fsm = "CONFIG_D"
    <3>1. n.fsm = "CONFIG_REG_LSB" /\ n.config_reg = s.config_reg
      BY <1>2, <2>9
    <3>2. Hears(s, r) => Hears(n, m)
      <4>1. SUFFICES ASSUME Hears(s, r) PROVE Hears(n, m)
        OBVIOUS
      <4>2. s.config_reg = NoAbility /\ r.fsm = "K28_5"
        BY <2>9, <4>1 DEF Hears
      <4>3. ~(m = RxReset /\ heard' = HeardReset)
        BY <1>5, <3>1, <4>2 DEF Clean
      <4>4. m.fsm = "CONFIG_REG_LSB"
        BY <1>3, <2>9, <4>2, <4>3
      <4>5. QED
        BY <3>1, <4>2, <4>4 DEF Hears
    <3>3. v = IF Hears(s, r) THEN 4 ELSE 8
      BY <1>2, <1>7, <1>10, <2>9, ToHearCases
    <3>4. w = IF Hears(n, m) THEN 3 ELSE 7
      BY <1>2, <1>7, <3>1, ToHearCases
    <3>5. QED
      BY <3>2, <3>3, <3>4
  <2>10. CASE s.fsm = "CONFIG_REG_LSB"
    <3>1. n.fsm = "CONFIG_REG_MSB" /\ n.config_reg = s.config_reg
      BY <1>2, <2>10
    <3>2. Hears(s, r) => Hears(n, m)
      <4>1. SUFFICES ASSUME Hears(s, r) PROVE Hears(n, m)
        OBVIOUS
      <4>2. s.config_reg = NoAbility /\ r.fsm = "CONFIG_REG_LSB"
        BY <2>10, <4>1 DEF Hears
      <4>3. ~(m = RxReset /\ heard' = HeardReset)
        BY <1>5, <3>1, <4>2 DEF Clean
      <4>4. m.fsm = "CONFIG_REG_MSB"
        BY <1>3, <2>10, <4>2, <4>3
      <4>5. QED
        BY <3>1, <4>2, <4>4 DEF Hears
    <3>3. v = IF Hears(s, r) THEN 3 ELSE 7
      BY <1>2, <1>7, <1>10, <2>10, ToHearCases
    <3>4. w = IF Hears(n, m) THEN 2 ELSE 6
      BY <1>2, <1>7, <3>1, ToHearCases
    <3>5. QED
      BY <3>2, <3>3, <3>4
  <2>11. CASE s.fsm = "CONFIG_REG_MSB"
    <3>1. n.fsm = "START" /\ n.config_reg = s.config_reg
      BY <1>2, <2>11
    <3>2. Hears(s, r) => Hears(n, m)
      <4>1. SUFFICES ASSUME Hears(s, r) PROVE Hears(n, m)
        OBVIOUS
      <4>2. s.config_reg = NoAbility /\ r.fsm = "CONFIG_REG_MSB"
        BY <2>11, <4>1 DEF Hears
      <4>3. ~(m = RxReset /\ heard' = HeardReset)
        BY <1>5, <3>1, <4>2 DEF Clean
      <4>4. m.seen_config_reg /\ m.config_reg = s.config_reg
        BY <1>3, <2>11, <4>2, <4>3
      <4>5. QED
        BY <3>1, <4>2, <4>4, RegFacts DEF Hears
    <3>3. v = IF Hears(s, r) THEN 2 ELSE 6
      BY <1>2, <1>7, <1>10, <2>11, ToHearCases
    <3>4. w = IF Hears(n, m) THEN 1 ELSE 5
      BY <1>2, <1>7, <3>1, ToHearCases
    <3>5. QED
      BY <3>2, <3>3, <3>4
  <2>12. s.fsm = "DATA" => More > 0 \/ More = 0
    BY <1>4
  <2>13. QED
    BY <1>2, <2>4, <2>5, <2>6, <2>7, <2>8, <2>9, <2>10, <2>11, <2>12 DEF TxStates
<1>11. QED
  <2>1. CASE Clean(s) /\ Told(r, heard)
    BY <1>9, <2>1
  <2>2. QED
    BY <1>9, <1>10

\* With every cycle of the break, and of the partner's ability after it, there is one less to go.
LEMMA AckStep ==
    ASSUME PathInv, LinkInv, PcsStep, peer.fsm \in {"BREAK", "ABILITY"}, TxReady, line.fault = "none",
           NEW t \in Nat, AckWithin(tx["peer"], rx["pcs"], heard, an, t),
           Running /\ ~IsEmpty(heard.link_partner) => 2 <= t,
           NEW u \in Nat, u = IF t = 0 THEN 0 ELSE t - 1
    PROVE  AckWithin(tx'["peer"], rx'["pcs"], heard', an', u)
<1>1. PICK s, n, r, m : s = tx["peer"] /\ n = tx'["peer"] /\ r = rx["pcs"] /\ m = rx'["pcs"]
  OBVIOUS
<1>2. /\ s.fsm \in TxStates
      /\ s.fsm = "START" => n.fsm = "CONFIG_D" /\ ~n.config_reg.ack
      /\ s.fsm # "START" => n.config_reg = s.config_reg
      /\ s.fsm = "CONFIG_D" => n.fsm = "CONFIG_REG_LSB"
      /\ s.fsm = "CONFIG_REG_LSB" => n.fsm = "CONFIG_REG_MSB"
      /\ s.fsm \in {"CONFIG_REG_MSB", "IDLE", "CARRIER_EXTEND_2"} => n.fsm = "START"
      /\ s.fsm = "CARRIER_EXTEND_1" => n.fsm \in {"START", "CARRIER_EXTEND_2"}
      /\ s.fsm = "DATA" => n.fsm \in {"CARRIER_EXTEND_1", "DATA"}
  BY <1>1, BreakSends
<1>3. \/ m = RxReset /\ heard' = HeardReset
      \/ /\ m.seen_config_reg => s.fsm = "CONFIG_REG_MSB" /\ m.config_reg = s.config_reg
         /\ heard'.ack => r.seen_config_reg /\ r.config_reg.ack
  BY <1>1, BreakHeard
<1>4. /\ m.seen_config_reg => s.fsm = "CONFIG_REG_MSB" /\ m.config_reg = s.config_reg
      /\ heard'.ack => r.seen_config_reg /\ r.config_reg.ack
  <2>1. ~RxReset.seen_config_reg /\ ~HeardReset.ack
    BY DEF RxReset, HeardReset
  <2>2. QED
    BY <1>3, <2>1
<1>5. /\ MoreAckTime \in Nat /\ an.more_ack \in 0 .. MoreAckTime
      /\ AckWithin(s, r, heard, an, t)
  BY <1>1, LinkNumbers DEF LinkInv, AnRegs
<1>6. an' = AnNext
  BY DEF PcsStep, LinkNext, PathsNext
<1>7. an'.fsm = AnFsm /\ an'.more_ack = IF an.fsm # "AUTONEG_SEND_MORE_ACK" THEN MoreAckTime
                                        ELSE IF an.more_ack = 0 THEN 0 ELSE an.more_ack - 1
  BY <1>6 DEF AnNext
<1>8. n.config_reg.ack => /\ n.fsm = "CONFIG_D" => MoreAckTime + 7 <= u
                          /\ n.fsm = "CONFIG_REG_LSB" => MoreAckTime + 6 <= u
                          /\ n.fsm = "CONFIG_REG_MSB" => MoreAckTime + 5 <= u
  BY <1>2, <1>5 DEF AckWithin, TxStates
<1>9. m.seen_config_reg /\ m.config_reg.ack => MoreAckTime + 4 <= u
  BY <1>4, <1>5 DEF AckWithin
<1>10. heard'.ack => MoreAckTime + 3 <= u
  BY <1>4, <1>5 DEF AckWithin
<1>11. an'.fsm = "AUTONEG_SEND_MORE_ACK" => an'.more_ack + 2 <= u
  <2>1. SUFFICES ASSUME an'.fsm = "AUTONEG_SEND_MORE_ACK" PROVE an'.more_ack + 2 <= u
    OBVIOUS
  <2>2. \/ an.fsm = "AUTONEG_WAIT_ACK" /\ heard.ack
        \/ an.fsm = "AUTONEG_SEND_MORE_ACK" /\ an.more_ack # 0
    BY <1>7, <2>1 DEF AnFsm, AckSeen
  <2>3. CASE an.fsm = "AUTONEG_WAIT_ACK" /\ heard.ack
    <3>1. MoreAckTime + 3 <= t /\ an'.more_ack = MoreAckTime
      BY <1>5, <1>7, <2>3 DEF AckWithin
    <3>2. QED
      BY <1>5, <3>1
  <2>4. CASE an.fsm = "AUTONEG_SEND_MORE_ACK" /\ an.more_ack # 0
    <3>1. an.more_ack + 2 <= t /\ an'.more_ack = an.more_ack - 1
      BY <1>5, <1>7, <2>4 DEF AckWithin
    <3>2. QED
      BY <1>5, <3>1
  <2>5. QED
    BY <2>2, <2>3, <2>4
<1>12. an'.fsm = "RUNNING" => 1 <= u
  <2>1. SUFFICES ASSUME an'.fsm = "RUNNING" PROVE 1 <= u
    OBVIOUS
  <2>2. \/ an.fsm = "AUTONEG_SEND_MORE_ACK" /\ an.more_ack = 0
        \/ an.fsm = "RUNNING" /\ ~Restart
    BY <1>7, <2>1 DEF AnFsm
  <2>3. CASE an.fsm = "AUTONEG_SEND_MORE_ACK" /\ an.more_ack = 0
    <3>1. an.more_ack + 2 <= t
      BY <1>5, <2>3 DEF AckWithin
    <3>2. QED
      BY <2>3, <3>1
  <2>4. CASE an.fsm = "RUNNING" /\ ~Restart
    <3>1. 2 <= t
      BY <2>4 DEF Restart, Running
    <3>2. QED
      BY <3>1
  <2>5. QED
    BY <2>2, <2>3, <2>4
<1>13. AckWithin(n, m, heard', an', u)
  BY <1>8, <1>9, <1>10, <1>11, <1>12 DEF AckWithin
<1>14. QED
  BY <1>1, <1>13

\* The partner is at the beginning of a break, in the middle of one, at its end, or past it.
LEMMA PeerCases ==
    ASSUME LinkInv, BreakInv, PcsStep, ~deaf'
    PROVE  /\ ~deaf
           /\ \/ peer'.fsm = "BREAK" /\ peer'.timer = LinkTime
              \/ peer'.fsm \notin {"BREAK", "ABILITY"}
              \/ /\ TxReady /\ line.fault = "none"
                 /\ \/ /\ peer.fsm = "BREAK" /\ peer'.fsm = "BREAK"
                       /\ peer.timer > 0 /\ peer'.timer = peer.timer - 1
                    \/ peer.fsm = "BREAK" /\ peer'.fsm = "ABILITY" /\ peer.timer = 0
                    \/ peer.fsm = "ABILITY" /\ peer'.fsm = "ABILITY"
<1>1. peer.timer \in 0 .. LinkTime /\ LinkTime \in Nat /\ peer.fsm \in PeerStates
  BY LinkNumbers DEF LinkInv
<1>2. PeerReset.fsm = "BREAK" /\ PeerReset.timer = LinkTime
  BY DEF PeerReset
<1>3. ~deaf /\ \/ peer' = PeerReset
               \/ TxReady /\ line.fault = "none" /\ peer' = PeerNext(rx["peer"], FALSE)
  <2>1. NoFault \/ \E k \in FaultKinds : Fault(k)
    BY DEF PcsStep, LinkNext
  <2>2. CASE NoFault
    <3>1. ~deaf
      BY <2>2 DEF NoFault
    <3>2. CASE Group("peer") = Invalid
      BY <2>2, <3>2 DEF NoFault, PeerNext
    <3>3. CASE Group("peer") # Invalid
      <4>1. ~Silent("peer")
        BY <3>3 DEF Group
      <4>2. TxReady /\ line.fault # "cut"
        BY <4>1 DEF Silent
      <4>3. line.fault = "none"
        BY <3>1, <4>2 DEF BreakInv
      <4>4. peer' = PeerNext(rx["peer"], FALSE)
        BY <2>2, <3>3 DEF NoFault
      <4>5. QED
        BY <3>1, <4>2, <4>3, <4>4
    <3>4. QED
      BY <3>1, <3>2, <3>3
  <2>3. ASSUME NEW k \in FaultKinds, Fault(k)
        PROVE  ~deaf /\ \/ peer' = PeerReset
                        \/ TxReady /\ line.fault = "none" /\ peer' = PeerNext(rx["peer"], FALSE)
    <3>1. /\ TxReady /\ line.fault = "none" /\ peer' = PeerNext(rx["peer"], k = "restart")
          /\ deaf' = (deaf \/ k = "deaf")
      BY <2>3 DEF Fault
    <3>2. ~deaf
      BY <3>1
    <3>3. CASE k = "restart"
      BY <3>1, <3>2, <3>3 DEF PeerNext
    <3>4. CASE k # "restart"
      BY <3>1, <3>2, <3>4 DEF PeerNext
    <3>5. QED
      BY <3>3, <3>4
  <2>4. QED
    BY <2>1, <2>2, <2>3
<1>4. CASE peer' = PeerReset
  BY <1>2, <1>3, <1>4
<1>5. CASE TxReady /\ line.fault = "none" /\ peer' = PeerNext(rx["peer"], FALSE)
  <2>1. /\ peer'.fsm = PeerFsm
        /\ peer'.timer = IF PeerFsm # peer.fsm \/ peer.fsm \notin {"BREAK", "COMPLETE"} THEN LinkTime
                         ELSE IF peer.timer = 0 THEN 0 ELSE peer.timer - 1
    BY <1>5 DEF PeerNext
  <2>2. CASE peer.fsm = "BREAK"
    <3>1. PeerFsm = IF peer.timer = 0 THEN "ABILITY" ELSE "BREAK"
      BY <2>2 DEF PeerFsm
    <3>2. CASE peer.timer = 0
      <4>1. peer'.fsm = "ABILITY"
        BY <2>1, <3>1, <3>2
      <4>2. QED
        BY <1>3, <1>5, <2>2, <3>2, <4>1
    <3>3. CASE peer.timer # 0
      <4>1. peer'.fsm = "BREAK" /\ peer'.timer = peer.timer - 1
        BY <2>1, <2>2, <3>1, <3>3
      <4>2. peer.timer > 0
        BY <1>1, <3>3
      <4>3. QED
        BY <1>3, <1>5, <2>2, <4>1, <4>2
    <3>4. QED
      BY <3>2, <3>3
  <2>3. CASE peer.fsm # "BREAK"
    <3>1. PeerFsm = "ABILITY" => peer.fsm = "ABILITY"
      BY <1>1, <2>3 DEF PeerFsm, PeerStates
    <3>2. PeerFsm = "BREAK" => peer'.timer = LinkTime
      BY <2>1, <2>3
    <3>3. QED
      BY <1>3, <1>5, <2>1, <3>1, <3>2
  <2>4. QED
    BY <2>2, <2>3
<1>6. QED
  BY <1>3, <1>4, <1>5

LEMMA BreakInit == EnoughBreak /\ Init => BreakInv
<1>1. SUFFICES ASSUME EnoughBreak, Init PROVE BreakInv
  OBVIOUS
<1>2. PathInv /\ LinkInv /\ LinkTime \in Nat
  BY <1>1, PathInit, LinkInvInit, LinkNumbers
<1>3. line.fault = "none" /\ peer.fsm = "BREAK" /\ peer.timer = LinkTime
  BY <1>1 DEF Init, LinkInit, PeerReset
<1>4. /\ AckWithin(tx["peer"], rx["pcs"], heard, an, LinkTime + 1)
      /\ ToHear(tx["peer"], rx["pcs"], heard, More) \in 0 .. LinkTime
  BY <1>1, <1>2, BreakBegins
<1>5. ToHear(tx["peer"], rx["pcs"], heard, More) <= LinkTime
  BY <1>2, <1>4
<1>6. QED
  BY <1>3, <1>4, <1>5 DEF BreakInv

LEMMA LineStep == ASSUME BreakInv, PcsStep
                  PROVE  line'.fault \in {"none", "cut", "deaf"} /\ (line'.fault = "deaf" => deaf')
<1>1. line.fault \in {"none", "cut", "deaf"} /\ (line.fault = "deaf" => deaf)
  BY DEF BreakInv
<1>2. NoFault \/ \E k \in FaultKinds : Fault(k)
  BY DEF PcsStep, LinkNext
<1>3. CASE NoFault
  <2>1. deaf' = deaf /\ line'.fault \in {"none", line.fault}
    <3>1. CASE line.fault = "none" \/ line.time = 1
      BY <1>3, <3>1 DEF NoFault
    <3>2. CASE line.fault # "none" /\ line.time # 1
      BY <1>3, <3>2 DEF NoFault
    <3>3. QED
      BY <3>1, <3>2
  <2>2. QED
    BY <1>1, <2>1
<1>4. ASSUME NEW k \in FaultKinds, Fault(k)
      PROVE  line'.fault \in {"none", "cut", "deaf"} /\ (line'.fault = "deaf" => deaf')
  <2>1. /\ deaf' = (deaf \/ k = "deaf") /\ k \in {"restart", "cut", "deaf"}
        /\ line' = IF k = "restart" THEN line ELSE [fault |-> k, time |-> CutTime]
    BY <1>4 DEF Fault, FaultKinds
  <2>2. QED
    BY <1>1, <2>1
<1>5. QED
  BY <1>2, <1>3, <1>4

LEMMA BreakPreserved ==
    EnoughBreak /\ PathInv /\ LinkInv /\ PathInv' /\ LinkInv' /\ BreakInv /\ [Next]_vars => BreakInv'
<1>1. SUFFICES ASSUME EnoughBreak, PathInv, LinkInv, PathInv', LinkInv', BreakInv, [Next]_vars
               PROVE  BreakInv'
  OBVIOUS
<1>2. CASE PcsStep
  <2> DEFINE v == ToHear(tx["peer"], rx["pcs"], heard, More)
             w == ToHear(tx'["peer"], rx'["pcs"], heard', More')
             Acks(t) == AckWithin(tx'["peer"], rx'["pcs"], heard', an', t)
  <2>1. line'.fault \in {"none", "cut", "deaf"} /\ (line'.fault = "deaf" => deaf')
    BY <1>1, <1>2, LineStep
  <2>2. LinkTime \in Nat /\ peer.timer \in 0 .. LinkTime /\ peer'.timer \in 0 .. LinkTime
    BY <1>1, LinkNumbers DEF LinkInv
  <2>3. Acks(LinkTime + 1) /\ w \in 0 .. LinkTime
    <3>1. EnoughBreak'
      BY <1>1 DEF EnoughBreak
    <3>2. QED
      BY <1>1, <3>1, BreakBeginsNext
  <2>4. SUFFICES ASSUME ~deaf'
                 PROVE  /\ peer'.fsm = "BREAK" => Acks(peer'.timer + 1) /\ w <= peer'.timer
                        /\ peer'.fsm = "ABILITY" => Acks(0)
    BY <2>1 DEF BreakInv
  <2>5. CASE peer'.fsm = "BREAK" /\ peer'.timer = LinkTime
    <3>1. w <= LinkTime
      BY <2>2, <2>3
    <3>2. QED
      BY <2>3, <2>5, <3>1
  <2>6. CASE peer'.fsm \notin {"BREAK", "ABILITY"}
    BY <2>6
  <2>7. CASE /\ ~deaf /\ TxReady /\ line.fault = "none"
             /\ peer.fsm = "BREAK"
             /\ \/ peer'.fsm = "BREAK" /\ peer.timer > 0 /\ peer'.timer = peer.timer - 1
                \/ peer'.fsm = "ABILITY" /\ peer.timer = 0
    <3>1. AckWithin(tx["peer"], rx["pcs"], heard, an, peer.timer + 1) /\ v <= peer.timer
      BY <1>1, <2>7 DEF BreakInv
    <3>2. v \in Nat /\ w \in Nat /\ (v = 0 => w = 0) /\ (v > 0 => w < v)
      BY <1>1, <1>2, <2>7, HearStep
    <3> HIDE DEF w
    <3>3. Running /\ ~IsEmpty(heard.link_partner) => 2 <= peer.timer + 1
      <4>1. SUFFICES ASSUME ~IsEmpty(heard.link_partner) PROVE 2 <= peer.timer + 1
        OBVIOUS
      <4>2. ~Told(rx["pcs"], heard)
        BY <4>1 DEF Told
      <4>3. tx["peer"].fsm \in TxStates /\ More \in Nat
        BY <1>1, MoreNat DEF PathInv, Ends, TxRegs
      <4>4. v > 0
        BY <4>2, <4>3, ToHearCases
      <4> HIDE DEF v
      <4>5. QED
        BY <2>2, <3>1, <3>2, <4>4
    <3> HIDE DEF v
    <3>4. peer.timer + 1 \in Nat /\ peer.timer \in Nat
          /\ peer.timer = IF peer.timer + 1 = 0 THEN 0 ELSE (peer.timer + 1) - 1
      BY <2>2
    <3>5. Acks(peer.timer)
      BY <1>1, <1>2, <2>7, <3>1, <3>3, <3>4, AckStep
    <3> HIDE DEF Acks
    <3>6. CASE peer'.fsm = "BREAK" /\ peer.timer > 0 /\ peer'.timer = peer.timer - 1
      <4>1. peer'.timer + 1 = peer.timer /\ w <= peer'.timer
        BY <2>2, <3>1, <3>2, <3>6
      <4>2. QED
        BY <3>5, <3>6, <4>1
    <3>7. CASE peer'.fsm = "ABILITY" /\ peer.timer = 0
      BY <3>5, <3>7
    <3>8. QED
      BY <2>7, <3>6, <3>7
  <2>8. CASE /\ ~deaf /\ TxReady /\ line.fault = "none"
             /\ peer.fsm = "ABILITY" /\ peer'.fsm = "ABILITY"
    <3>1. AckWithin(tx["peer"], rx["pcs"], heard, an, 0)
      BY <1>1, <2>8 DEF BreakInv
    <3>2. ~Running
      BY <3>1 DEF AckWithin, Running
    <3>3. 0 \in Nat /\ 0 = IF 0 = 0 THEN 0 ELSE 0 - 1
      OBVIOUS
    <3>4. Acks(0)
      BY <1>1, <1>2, <2>8, <3>1, <3>2, <3>3, AckStep
    <3>5. QED
      BY <2>8, <3>4
  <2>9. QED
    <3>1. /\ ~deaf
          /\ \/ peer'.fsm = "BREAK" /\ peer'.timer = LinkTime
             \/ peer'.fsm \notin {"BREAK", "ABILITY"}
             \/ /\ TxReady /\ line.fault = "none"
                /\ \/ /\ peer.fsm = "BREAK" /\ peer'.fsm = "BREAK"
                      /\ peer.timer > 0 /\ peer'.timer = peer.timer - 1
                   \/ peer.fsm = "BREAK" /\ peer'.fsm = "ABILITY" /\ peer.timer = 0
                   \/ peer.fsm = "ABILITY" /\ peer'.fsm = "ABILITY"
      BY <1>1, <1>2, <2>4, PeerCases
    <3> HIDE DEF w, Acks
    <3>2. QED
      BY <2>5, <2>6, <2>7, <2>8, <3>1
<1>3. CASE PinStep \/ UNCHANGED vars
  <2>1. UNCHANGED linkVars
    BY <1>3 DEF PinStep, vars
  <2>2. UNCHANGED << tx, rx, an, heard, peer, ability, talker, offer, line, deaf >>
    BY <2>1 DEF linkVars
  <2>3. More' = More
    BY <2>2 DEF More, BytesLeft, Repeats, PeerSpeed
  <2>4. QED
    BY <1>1, <2>2, <2>3 DEF BreakInv, AckWithin, ToHear, Clean, Told, Hears
<1>4. QED
  BY <1>1, <1>2, <1>3 DEF Next

\* The PCS never goes on with a partner that has not seen its ability, for any abilities, timers,
\* frames and faults of both directions, if the partner's break outlasts more_ack_timer by what a
\* register takes to reach the negotiation, and a frame (AUTONEG_WAIT_ACK and
\* AUTONEG_SEND_MORE_ACK, pcs_1000basex.py:363-386).
THEOREM NoHalfLink == ASSUME EnoughBreak PROVE Spec => []NoHalfUp
<1> DEFINE IInv == PathInv /\ LinkInv /\ BreakInv
<1>1. Init => IInv
  BY PathInit, LinkInvInit, BreakInit
<1>2. IInv /\ [Next]_vars => IInv'
  <2>1. PathInv /\ LinkInv /\ [Next]_vars => PathInv' /\ LinkInv'
    BY PathPreserved, LinkInvPreserved
  <2>2. QED
    BY <2>1, BreakPreserved
<1>3. IInv => NoHalfUp
  <2>1. SUFFICES ASSUME LinkInv, BreakInv, an.fsm \in {"AUTONEG_SEND_MORE_ACK", "RUNNING"}, ~deaf,
                        peer.fsm = "ABILITY"
                 PROVE  FALSE
    BY DEF NoHalfUp
  <2>2. AckWithin(tx["peer"], rx["pcs"], heard, an, 0)
    BY <2>1 DEF BreakInv
  <2>3. an.more_ack \in Nat
    BY <2>1, LinkNumbers DEF LinkInv, AnRegs
  <2>4. QED
    BY <2>1, <2>2, <2>3 DEF AckWithin
<1>4. QED
  BY <1>1, <1>2, <1>3, PTL DEF Spec

-----------------------------------------------------------------------------
(* Types of the pins. *)

\* The count of the system clock between two ticks is at most what MII mode makes of it.
CountInv ==
    /\ detect \in [mode : Modes, fsm : {"IDLE", "COUNT", "DETECTION"}, eth_counter : 0 .. TickCycles - 1,
                   sys_counter : Nat]
    /\ kind = "gmii_mii" => DetectInv
    /\ detect.sys_counter <= (IF detect.fsm = "COUNT" THEN Elapsed ELSE TickCycles) * MiiRatio

LEMMA CountInit == Init => CountInv
<1>1. SUFFICES ASSUME Init PROVE CountInv
  OBVIOUS
<1>2. DetectInv
  BY <1>1, DetectInit
<1>3. detect.fsm = "IDLE" /\ detect.sys_counter = 0
  BY <1>1 DEF Init, PinInit
<1>4. 0 <= TickCycles * MiiRatio
  BY ClockFacts
<1>5. QED
  BY <1>2, <1>3, <1>4 DEF CountInv, DetectInv

LEMMA CountStep == ASSUME CountInv, PinNext PROVE CountInv'
<1>1. CASE kind # "gmii_mii"
  <2>1. detect' = detect /\ kind' # "gmii_mii"
    BY <1>1 DEF PinNext
  <2>2. QED
    BY <2>1 DEF CountInv, Elapsed
<1>2. CASE kind = "gmii_mii"
  <2>1. /\ DetectInv /\ kind' = kind
        /\ detect' = [DetectNext(detect.eth_counter = 0) EXCEPT !.eth_counter = (@ + 1) % TickCycles]
    BY <1>2 DEF PinNext, CountInv
  <2>2. DetectInv'
    BY <1>2, <2>1, CalmKept, DetectStep
  <2>3. SysCycles \in Nat /\ SysCycles <= MiiRatio /\ MiiRatio \in Nat /\ TickCycles \in Nat \ {0}
    BY ClockFacts DEF SysCycles
  <2>4. /\ Elapsed \in 0 .. TickCycles - 1 /\ detect.sys_counter \in Nat
        /\ detect.eth_counter = 0 => Elapsed = TickCycles - 1 /\ Elapsed' = 0
        /\ detect.eth_counter # 0 => Elapsed' = Elapsed + 1
    BY <2>1, DetectCycle DEF DetectInv
  <2>5. detect'.sys_counter <= (IF detect'.fsm = "COUNT" THEN Elapsed' ELSE TickCycles) * MiiRatio
    <3>1. CASE detect.fsm = "IDLE"
      <4>1. detect'.sys_counter = 0 /\ detect'.fsm = IF detect.eth_counter = 0 THEN "COUNT" ELSE "IDLE"
        BY <2>1, <3>1, DetectFields
      <4>2. 0 <= TickCycles * MiiRatio /\ 0 * MiiRatio = 0
        BY <2>3
      <4>3. QED
        BY <2>4, <4>1, <4>2
    <3>2. CASE detect.fsm = "COUNT"
      <4>1. /\ detect'.sys_counter = detect.sys_counter + SysCycles
            /\ detect'.fsm = IF detect.eth_counter = 0 THEN "DETECTION" ELSE "COUNT"
        BY <2>1, <3>2, DetectFields
      <4>2. detect.sys_counter <= Elapsed * MiiRatio
        BY <3>2 DEF CountInv
      <4>3. (Elapsed + 1) * MiiRatio = Elapsed * MiiRatio + MiiRatio /\ Elapsed * MiiRatio \in Nat
        BY <2>3, <2>4
      <4>4. detect'.sys_counter <= (Elapsed + 1) * MiiRatio
        BY <2>3, <2>4, <4>1, <4>2, <4>3
      <4>5. CASE detect.eth_counter = 0
        <5>1. Elapsed + 1 = TickCycles /\ detect'.fsm = "DETECTION"
          BY <2>3, <2>4, <4>1, <4>5
        <5>2. QED
          BY <4>4, <5>1
      <4>6. CASE detect.eth_counter # 0
        <5>1. Elapsed' = Elapsed + 1 /\ detect'.fsm = "COUNT"
          BY <2>4, <4>1, <4>6
        <5>2. QED
          BY <4>4, <5>1
      <4>7. QED
        BY <4>5, <4>6
    <3>3. CASE detect.fsm = "DETECTION"
      <4>1. detect'.sys_counter = detect.sys_counter /\ detect'.fsm = "IDLE"
        BY <2>1, <3>3, DetectFields
      <4>2. detect.sys_counter <= TickCycles * MiiRatio
        BY <3>3 DEF CountInv
      <4>3. QED
        BY <4>1, <4>2
    <3>4. QED
      BY <2>1, <3>1, <3>2, <3>3 DEF DetectInv
  <2>6. QED
    BY <1>2, <2>1, <2>2, <2>5 DEF CountInv, DetectInv
<1>3. QED
  BY <1>1, <1>2

\* What the transmitter is given, and where its converter is.
Ratio == IF kind = "rmii" THEN 4 ELSE 2

SendInv ==
    /\ kind \in AllPinKinds /\ Mode \in Modes
    /\ send \in [tag : {0, 1}, i : 0 .. FrameBytes, mux : 1 .. Ratio, gap : 0 .. MinGap]

LEMMA PinConstants == FrameBytes \in Nat \ {0} /\ MinGap \in Nat \ {0} /\ WireDelay \in Nat \ {0}
  BY PinAssumption DEF PinAssumption

LEMMA SendInit == Init => SendInv
<1>1. SUFFICES ASSUME Init PROVE SendInv
  OBVIOUS
<1>2. kind \in AllPinKinds /\ send = [tag |-> 0, i |-> 0, mux |-> 1, gap |-> 0] /\ Mode = "GMII"
  BY <1>1, PinAssumption DEF Init, PinInit, Mode, PinAssumption
<1>3. 1 \in 1 .. Ratio
  BY DEF Ratio
<1>4. QED
  BY <1>2, <1>3, PinConstants DEF SendInv, Modes

LEMMA SendStep ==
    ASSUME SendInv, SendNext
    PROVE  send' \in [tag : {0, 1}, i : 0 .. FrameBytes, mux : 1 .. Ratio, gap : 0 .. MinGap]
<1>1. /\ send.tag \in {0, 1} /\ send.i \in 0 .. FrameBytes /\ send.mux \in 1 .. Ratio /\ send.gap \in 0 .. MinGap
      /\ send = [tag |-> send.tag, i |-> send.i, mux |-> send.mux, gap |-> send.gap]
      /\ FrameBytes \in Nat \ {0} /\ MinGap \in Nat \ {0} /\ Ratio \in {2, 4}
  BY PinConstants DEF SendInv, Ratio
<1>2. Narrow => PartsPerByte = Ratio
  BY DEF Narrow, PartsPerByte, Ratio
<1>3. CASE ~SendsByte
  <2>1. \/ send' = [send EXCEPT !.gap = IF send.gap > 0 THEN send.gap - 1 ELSE 0]
        \/ send' = [send EXCEPT !.i = 1]
    BY <1>3 DEF SendNext
  <2>2. (IF send.gap > 0 THEN send.gap - 1 ELSE 0) \in 0 .. MinGap /\ 1 \in 0 .. FrameBytes
    BY <1>1
  <2>3. QED
    BY <1>1, <2>1, <2>2
<1>4. CASE SendsByte
  <2> DEFINE mux == IF ~Narrow THEN send.mux ELSE IF SinkReady THEN 1 ELSE send.mux + 1
  <2>1. \/ send' = [send EXCEPT !.mux = mux]
        \/ send.i < FrameBytes /\ send' = [send EXCEPT !.i = send.i + 1, !.mux = mux]
        \/ send' = [tag |-> 1 - send.tag, i |-> 0, mux |-> mux, gap |-> MinGap]
    BY <1>4 DEF SendNext
  <2>2. mux \in 1 .. Ratio
    BY <1>1, <1>2 DEF SinkReady
  <2>3. 1 - send.tag \in {0, 1} /\ MinGap \in 0 .. MinGap /\ 0 \in 0 .. FrameBytes
    BY <1>1
  <2>4. send.i < FrameBytes => send.i + 1 \in 0 .. FrameBytes
    BY <1>1
  <2> HIDE DEF mux
  <2>5. CASE send' = [send EXCEPT !.mux = mux]
    BY <1>1, <2>2, <2>5
  <2>6. CASE send.i < FrameBytes /\ send' = [send EXCEPT !.i = send.i + 1, !.mux = mux]
    <3>1. send' = [tag |-> send.tag, i |-> send.i + 1, mux |-> mux, gap |-> send.gap]
      BY <1>1, <2>6
    <3>2. QED
      BY <1>1, <2>2, <2>4, <2>6, <3>1
  <2>7. CASE send' = [tag |-> 1 - send.tag, i |-> 0, mux |-> mux, gap |-> MinGap]
    BY <2>2, <2>3, <2>7
  <2>8. QED
    BY <2>1, <2>5, <2>6, <2>7
<1>5. QED
  BY <1>3, <1>4

\* What goes over the wires of the PHYs whose receivers have a converter: one part of a
\* byte at a time, or none.
Parts == {<< tag, i, p >> : tag \in {0, 1}, i \in 0 .. FrameBytes, p \in 1 .. 4}
Few   == {q \in Seq(Parts) : Len(q) <= 1}
Pads  == [dv : BOOLEAN, data : Few]

WireInv ==
    kind \notin RgmiiKinds => /\ txPads \in [Modes -> Pads]
                              /\ wire \in Seq(Pads) /\ Len(wire) = WireLength

LEMMA SilentPads == Silence \in Pads
<1>1. << >> \in Few
  BY DEF Few
<1>2. QED
  BY <1>1 DEF Silence, Pads

LEMMA DrivenTyped == ASSUME SendInv, kind \notin RgmiiKinds PROVE DrivenPads \in Pads
<1>1. send.tag \in {0, 1} /\ send.i \in 0 .. FrameBytes /\ send.mux \in 1 .. 4
  BY DEF SendInv, Ratio
<1>2. DrivenPads \in {NarrowPads, WidePads}
  BY DEF DrivenPads, RgmiiKinds, ModelPads
<1>3. SendsByte \in BOOLEAN
  BY DEF SendsByte
<1>4. ASSUME NEW p \in 1 .. 4 PROVE << << send.tag, send.i, p >> >> \in Few
  <2>1. << send.tag, send.i, p >> \in Parts
    BY <1>1 DEF Parts
  <2> DEFINE x == << send.tag, send.i, p >>
  <2> HIDE DEF x
  <2>2. << x >> \in Seq(Parts) /\ Len(<< x >>) = 1
    BY <2>1 DEF x
  <2>3. QED
    BY <2>2 DEF Few, x
<1>5. NarrowPads \in Pads /\ WidePads \in Pads
  <2>1. << >> \in Few /\ << << send.tag, send.i, send.mux >> >> \in Few /\ << << send.tag, send.i, 1 >> >> \in Few
    BY <1>1, <1>4 DEF Few
  <2>2. QED
    BY <1>3, <2>1 DEF NarrowPads, WidePads, Pads
<1>6. QED
  BY <1>2, <1>5

LEMMA WireInit == Init => WireInv
<1>1. SUFFICES ASSUME Init PROVE txPads \in [Modes -> Pads] /\ wire \in Seq(Pads) /\ Len(wire) = WireLength
  BY DEF WireInv
<1>2. txPads = [m \in Modes |-> Silence] /\ wire = [n \in 1 .. WireLength |-> Silence]
  BY <1>1 DEF Init, PinInit
<1>3. WireLength \in Nat
  BY PinConstants DEF WireLength
<1>4. QED
  BY <1>2, <1>3, SilentPads

LEMMA WireStep == ASSUME SendInv, WireInv, PinNext PROVE WireInv'
<1>1. kind' = kind /\ WireLength' = WireLength /\ WireLength \in Nat \ {0}
  BY PinConstants DEF PinNext, WireLength
<1>2. SUFFICES ASSUME kind \notin RgmiiKinds
               PROVE  txPads' \in [Modes -> Pads] /\ wire' \in Seq(Pads) /\ Len(wire') = WireLength
  BY <1>1 DEF WireInv
<1>3. txPads \in [Modes -> Pads] /\ wire \in Seq(Pads) /\ Len(wire) = WireLength /\ Mode \in Modes
  BY <1>2 DEF WireInv, SendInv
<1>4. txPads' \in [Modes -> Pads]
  BY <1>2, DrivenTyped, SilentPads DEF PinNext
<1>5. PICK x : x = txPads[Mode] /\ x \in Pads
  BY <1>3
<1>6. wire' = SubSeq(<< x >> \o wire, 1, WireLength)
  BY <1>5 DEF PinNext, WireNext
<1> DEFINE long == << x >> \o wire
<1>7. long \in Seq(Pads) /\ Len(long) = WireLength + 1
  BY <1>1, <1>3, <1>5
<1> HIDE DEF long
<1>8. SubSeq(long, 1, WireLength) \in Seq(Pads) /\ Len(SubSeq(long, 1, WireLength)) = WireLength
  BY <1>1, <1>7
<1>9. QED
  BY <1>4, <1>6, <1>8 DEF long

LEMMA RxPadsTyped == ASSUME WireInv, kind \notin RgmiiKinds PROVE RxPads \in Pads
<1>1. WireLength \in 1 .. WireLength /\ 1 \in 1 .. WireLength
  BY PinConstants DEF WireLength
<1>2. Oldest \in Pads /\ Newest \in Pads
  BY <1>1 DEF WireInv, Oldest, Newest
<1> DEFINE dv == Newest.dv \/ (Oldest.dv /\ Oldest.data[1][3] \in {2, 4})
<1>3. dv \in BOOLEAN
  BY Zenon
<1>4. RxPads \in {Oldest, [Oldest EXCEPT !.dv = dv]}
  BY Zenon DEF RxPads
<1> HIDE DEF dv
<1>5. QED
  BY <1>2, <1>3, <1>4 DEF Pads

\* A converter has as many parts of its byte as it counts.
ConvOK(c, ratio) ==
    /\ DOMAIN c = {"demux", "data", "valid", "last"}
    /\ c.demux \in 0 .. ratio - 1 /\ c.data \in Seq(Parts) /\ Len(c.data) <= ratio
    /\ c.demux > 0 => Len(c.data) <= c.demux

LEMMA ConvResetOK == ASSUME NEW ratio \in {2, 4} PROVE ConvOK(ConverterReset, ratio)
  BY DEF ConvOK, ConverterReset

LEMMA ConverterStep ==
    ASSUME NEW c, NEW ratio \in {2, 4}, ConvOK(c, ratio), NEW part \in Few, NEW valid, NEW last
    PROVE  ConvOK(ConverterNext(c, ratio, part, valid, last), ratio)
<1> DEFINE n == ConverterNext(c, ratio, part, valid, last)
           full == c.demux = ratio - 1 \/ last
<1>1. CASE ~valid
  <2>1. n = [c EXCEPT !.valid = FALSE, !.last = ~c.valid /\ c.last]
    BY <1>1, Zenon DEF ConverterNext
  <2> DEFINE l == ~c.valid /\ c.last
  <2> HIDE DEF l, n
  <2>2. n = [c EXCEPT !.valid = FALSE, !.last = l]
    BY <2>1 DEF l
  <2>3. DOMAIN n = DOMAIN c /\ n.demux = c.demux /\ n.data = c.data
    BY <2>2 DEF ConvOK
  <2>4. QED
    BY <2>3 DEF ConvOK, n
<1>2. CASE valid
  <2> DEFINE before == IF c.demux = 0 THEN << >> ELSE c.data
  <2>1. /\ DOMAIN n = {"demux", "data", "valid", "last"}
        /\ n.demux = (IF full THEN 0 ELSE c.demux + 1) /\ n.data = before \o part
    BY <1>2 DEF ConverterNext
  <2>2. /\ c.demux \in 0 .. ratio - 1 /\ before \in Seq(Parts) /\ Len(before) <= c.demux
        /\ part \in Seq(Parts) /\ Len(part) <= 1
    BY DEF ConvOK, Few
  <2> HIDE DEF n, before
  <2>3. before \o part \in Seq(Parts) /\ Len(before \o part) <= c.demux + 1 /\ Len(before \o part) \in Nat
    BY <2>2
  <2>4. c.demux + 1 <= ratio /\ (~full => c.demux + 1 \in 0 .. ratio - 1)
    BY <2>2
  <2>5. n.demux \in 0 .. ratio - 1 /\ (n.demux > 0 => n.demux = c.demux + 1)
    <3>1. n.demux = 0 \/ (~full /\ n.demux = c.demux + 1)
      BY <2>1
    <3>2. QED
      BY <2>4, <3>1
  <2>6. QED
    BY <2>1, <2>2, <2>3, <2>4, <2>5 DEF ConvOK, n
<1>3. QED
  BY <1>1, <1>2

Fields == {"pads", "pads_d", "fall", "fsm", "reg", "reset", "conv", "valid", "data"}
Converting == {"mii", "rmii", "gmii_mii"}

RecvOK(s) ==
    /\ DOMAIN s = Fields /\ s.fsm \in {"IDLE", "RECEIVE"} /\ ConvOK(s.conv, Ratio)
    /\ kind \in Converting => s.pads.data \in Few /\ s.pads_d.data \in Few
    /\ kind = "rmii" => s.reg[1].data \in Few /\ s.reg[2].data \in Few

LEMMA RecvResetOK == RecvOK(RecvReset)
<1>1. ConvOK(ConverterReset, Ratio) /\ << >> \in Few
  BY ConvResetOK DEF Ratio, Few
<1>2. kind \in Converting => LagReset.data = << >>
  BY DEF LagReset, Lagging, Converting, Silence
<1>3. Empty.data = << >>
  BY DEF Empty
<1>4. QED
  BY <1>1, <1>2, <1>3 DEF RecvReset, RecvOK, Fields

\* A PHY without a converter leaves it alone.
LEMMA OtherFields ==
    ASSUME kind \notin Converting, NEW s, NEW n, RecvOK(s),
           DOMAIN n = DOMAIN s /\ n.fsm = s.fsm /\ n.conv = s.conv
    PROVE  RecvOK(n)
  BY DEF RecvOK, Converting

LEMMA DdrFields ==
    ASSUME NEW s, NEW pads, DOMAIN s = Fields
    PROVE  LET n == DdrInput(s, pads) IN DOMAIN n = DOMAIN s /\ n.fsm = s.fsm /\ n.conv = s.conv
<1>1. CASE ~Lagging
  BY <1>1 DEF DdrInput, Fields
<1>2. CASE Lagging
  <2> DEFINE p == [dv |-> pads.dv, data |-> << Nibble(pads.data, 1), s.fall >>]
             f == Nibble(pads.data, 2)
  <2>1. DdrInput(s, pads) = [s EXCEPT !.pads = p, !.fall = f]
    BY <1>2 DEF DdrInput
  <2> HIDE DEF p, f
  <2>2. QED
    BY <2>1 DEF Fields
<1>3. QED
  BY <1>1, <1>2

LEMMA RgmiiFields ==
    ASSUME NEW pads, DOMAIN recv = Fields,
           NEW n \in {SevenSeriesRx(recv, pads), UltraScaleRx(recv, pads), Ecp5Rx(recv, pads),
                      Spartan6Rx(recv, pads), AlteraRx(recv, pads)}
    PROVE  DOMAIN n = DOMAIN recv /\ n.fsm = recv.fsm /\ n.conv = recv.conv
<1> DEFINE d == DdrInput(recv, pads)
<1>1. DOMAIN d = DOMAIN recv /\ d.fsm = recv.fsm /\ d.conv = recv.conv
  BY DdrFields
<1>2. \E a, b, e : \/ n = [d EXCEPT !.valid = a, !.data = b]
                   \/ n = [d EXCEPT !.pads_d = e, !.valid = a, !.data = b]
                   \/ \E f : n = [d EXCEPT !.pads_d = e, !.reg[1] = f, !.valid = a, !.data = b]
  <2>1. CASE n \in {SevenSeriesRx(recv, pads), UltraScaleRx(recv, pads)}
    BY <2>1, Zenon DEF SevenSeriesRx, UltraScaleRx
  <2>2. CASE n \in {Ecp5Rx(recv, pads), Spartan6Rx(recv, pads)}
    BY <2>2, Zenon DEF Ecp5Rx, Spartan6Rx
  <2>3. CASE n = AlteraRx(recv, pads)
    BY <2>3, Zenon DEF AlteraRx
  <2>4. QED
    BY <2>1, <2>2, <2>3
<1> HIDE DEF d
<1>3. QED
  BY <1>1, <1>2 DEF Fields

LEMMA MiiStep ==
    ASSUME kind \in {"mii", "gmii_mii"}, NEW s, RecvOK(s), NEW pads \in Pads
    PROVE  RecvOK(MiiRx(s, pads))
<1> DEFINE conv == IF s.reset THEN ConverterReset
                   ELSE ConverterNext(s.conv, 2, s.pads.data, s.reg[1].valid, ~pads.dv)
           reset == ~pads.dv
           reg == [s.reg EXCEPT ![1].valid = TRUE]
           n == MiiRx(s, pads)
<1>1. Ratio = 2 /\ kind \in Converting /\ kind # "rmii"
  BY DEF Ratio, Converting
<1>2. ConvOK(conv, Ratio)
  <2>1. ConvOK(s.conv, 2) /\ s.pads.data \in Few
    BY <1>1 DEF RecvOK
  <2>2. ConvOK(ConverterReset, 2) /\ ConvOK(ConverterNext(s.conv, 2, s.pads.data, s.reg[1].valid, ~pads.dv), 2)
    BY <2>1, ConvResetOK, ConverterStep
  <2>3. QED
    BY <1>1, <2>2
<1>3. DOMAIN s = Fields
  BY DEF RecvOK
<1>4. n = [s EXCEPT !.pads = pads, !.reset = reset, !.reg = reg, !.conv = conv]
  BY <1>3 DEF MiiRx, Fields
<1> HIDE DEF conv, reset, reg, n
<1>5. /\ DOMAIN n = Fields /\ n.fsm = s.fsm /\ n.conv = conv /\ n.pads = pads /\ n.pads_d = s.pads_d
  BY <1>3, <1>4 DEF Fields
<1>6. QED
  BY <1>1, <1>2, <1>5 DEF RecvOK, Pads, n

LEMMA RmiiStep ==
    ASSUME kind = "rmii", NEW s, RecvOK(s), NEW pads \in Pads, NEW mark
    PROVE  RecvOK(RmiiRx(s, pads, mark))
<1> DEFINE active == s.fsm = "RECEIVE" \/ RmiiStarts(s, mark)
           conv == IF ~active THEN ConverterReset
                   ELSE ConverterNext(s.conv, 4, s.reg[2].data, s.reg[2].valid, RmiiEnds(s))
           fsm == IF active /\ ~RmiiEnds(s) THEN "RECEIVE" ELSE "IDLE"
           first == [valid |-> active, data |-> IF active THEN s.pads.data ELSE << >>]
           n == RmiiRx(s, pads, mark)
<1>1. Ratio = 4 /\ kind \in Converting
  BY DEF Ratio, Converting
<1>2. /\ DOMAIN s = Fields /\ ConvOK(s.conv, 4) /\ s.pads.data \in Few
      /\ s.reg[1].data \in Few /\ s.reg[2].data \in Few
  BY <1>1 DEF RecvOK
<1>3. ConvOK(conv, Ratio)
  BY <1>1, <1>2, ConvResetOK, ConverterStep
<1>4. first.data \in Few
  BY <1>2 DEF Few
<1>5. fsm \in {"IDLE", "RECEIVE"}
  OBVIOUS
<1>6. n = [s EXCEPT !.pads = pads, !.pads_d = s.pads, !.fsm = fsm, !.reg = << first, s.reg[1] >>, !.conv = conv]
  BY Zenon DEF RmiiRx
<1> HIDE DEF conv, fsm, first, n
<1>7. /\ DOMAIN n = Fields /\ n.fsm = fsm /\ n.conv = conv /\ n.pads = pads /\ n.pads_d = s.pads
      /\ n.reg = << first, s.reg[1] >>
  BY <1>2, <1>6 DEF Fields
<1>8. n.reg[1] = first /\ n.reg[2] = s.reg[1]
  BY <1>7
<1>9. QED
  BY <1>1, <1>2, <1>3, <1>4, <1>5, <1>7, <1>8 DEF RecvOK, Pads, n

LEMMA GmiiMiiStep ==
    ASSUME kind = "gmii_mii", NEW s, RecvOK(s), NEW pads \in Pads
    PROVE  RecvOK(GmiiMiiRx(s, pads))
<1> DEFINE conv == IF s.reset THEN ConverterReset
                   ELSE ConverterNext(s.conv, 2, s.pads.data, s.reg[1].valid, ~s.pads_d.dv)
           mii == MiiRx(s, s.pads_d)
           n == GmiiMiiRx(s, pads)
<1>1. Ratio = 2 /\ kind \in Converting /\ kind # "rmii"
  BY DEF Ratio, Converting
<1>2. DOMAIN s = Fields /\ s.pads_d.data \in Few /\ s.pads.data \in Few /\ ConvOK(s.conv, 2)
  BY <1>1 DEF RecvOK
<1>3. ConvOK(conv, Ratio)
  BY <1>1, <1>2, ConvResetOK, ConverterStep
<1> DEFINE reset == ~s.pads_d.dv
           reg == [s.reg EXCEPT ![1].valid = TRUE]
<1>4. mii = [s EXCEPT !.pads = s.pads_d, !.reset = reset, !.reg = reg, !.conv = conv]
  BY <1>2 DEF MiiRx, Fields
<1> HIDE DEF conv, reset, reg, mii
<1>5. /\ DOMAIN mii = Fields /\ mii.fsm = s.fsm /\ mii.conv = conv /\ mii.pads = s.pads_d
  BY <1>2, <1>4 DEF Fields
<1>6. n = [mii EXCEPT !.pads_d = pads, !.valid = s.pads_d.dv, !.data = s.pads_d.data]
  BY Zenon DEF GmiiMiiRx, mii
<1> HIDE DEF n
<1>7. /\ DOMAIN n = Fields /\ n.fsm = s.fsm /\ n.conv = conv /\ n.pads = s.pads_d /\ n.pads_d = pads
  BY <1>5, <1>6 DEF Fields
<1>8. QED
  BY <1>1, <1>2, <1>3, <1>7 DEF RecvOK, Pads, n

LEMMA HeldOK == ASSUME WireInv, kind \in AllPinKinds PROVE RecvOK(HeldInReset(RxPads))
<1>1. RecvOK(RecvReset) /\ DOMAIN RecvReset = Fields
  BY RecvResetOK DEF RecvOK
<1>2. CASE kind \in RgmiiKinds
  <2> DEFINE s == [RecvReset EXCEPT !.fall = recv.fall]
  <2>1. DOMAIN s = Fields /\ s.fsm = RecvReset.fsm /\ s.conv = RecvReset.conv
    BY <1>1 DEF Fields
  <2>2. HeldInReset(RxPads) = DdrInput(s, RxPads)
    BY <1>2 DEF HeldInReset, RgmiiKinds
  <2> HIDE DEF s
  <2>3. QED
    BY <1>1, <1>2, <2>1, <2>2, DdrFields, OtherFields DEF RgmiiKinds, Converting
<1>3. CASE kind = "gmii_mii"
  <2>1. RxPads.data \in Few
    BY <1>3, RxPadsTyped DEF RgmiiKinds, Pads
  <2>2. HeldInReset(RxPads) = [RecvReset EXCEPT !.pads_d = RxPads]
    BY <1>3 DEF HeldInReset, RgmiiKinds
  <2>3. /\ DOMAIN [RecvReset EXCEPT !.pads_d = RxPads] = Fields
        /\ [RecvReset EXCEPT !.pads_d = RxPads].fsm = RecvReset.fsm
        /\ [RecvReset EXCEPT !.pads_d = RxPads].conv = RecvReset.conv
        /\ [RecvReset EXCEPT !.pads_d = RxPads].pads = RecvReset.pads
        /\ [RecvReset EXCEPT !.pads_d = RxPads].pads_d = RxPads
    BY <1>1 DEF Fields
  <2>4. QED
    BY <1>1, <1>3, <2>1, <2>2, <2>3 DEF RecvOK
<1>4. CASE kind \notin RgmiiKinds /\ kind # "gmii_mii"
  BY <1>1, <1>4 DEF HeldInReset
<1>5. QED
  BY <1>2, <1>3, <1>4

LEMMA RecvStep ==
    ASSUME WireInv, RecvOK(recv), kind \in AllPinKinds, hwReset \in Nat, NEW mark
    PROVE  RecvOK(RecvNext(RxPads, mark))
<1> DEFINE n == RecvNext(RxPads, mark)
<1>1. CASE hwReset > 0
  BY <1>1, HeldOK DEF RecvNext
<1>2. CASE hwReset = 0
  <2>1. ~(hwReset > 0) /\ DOMAIN recv = Fields
    BY <1>2 DEF RecvOK
  <2>2. CASE kind = "mii"
    BY <1>2, <2>1, <2>2, MiiStep, RxPadsTyped DEF RecvNext, RgmiiKinds
  <2>3. CASE kind = "rmii"
    BY <1>2, <2>1, <2>3, RmiiStep, RxPadsTyped DEF RecvNext, RgmiiKinds
  <2>4. CASE kind = "gmii_mii"
    BY <1>2, <2>1, <2>4, GmiiMiiStep, RxPadsTyped DEF RecvNext, RgmiiKinds
  <2>5. CASE kind \in {"gmii", "model", "gearbox"}
    <3>1. n \in {GmiiRx(recv, RxPads), ModelRx(recv, RxPads), GearboxRx(recv)}
      BY <1>2, <2>1, <2>5 DEF RecvNext
    <3>2. \E a, b : n = [recv EXCEPT !.valid = a, !.data = b]
      BY <3>1 DEF GmiiRx, ModelRx, GearboxRx
    <3> HIDE DEF n
    <3>3. DOMAIN n = DOMAIN recv /\ n.fsm = recv.fsm /\ n.conv = recv.conv
      BY <2>1, <3>2 DEF Fields
    <3>4. RecvOK(n)
      BY <2>5, <3>3, OtherFields DEF Converting
    <3>5. QED
      BY <3>4 DEF n
  <2>6. CASE kind \in RgmiiKinds
    <3>1. n \in {SevenSeriesRx(recv, RxPads), UltraScaleRx(recv, RxPads), Ecp5Rx(recv, RxPads),
                 Spartan6Rx(recv, RxPads), AlteraRx(recv, RxPads)}
      BY <1>2, <2>1, <2>6 DEF RecvNext, RgmiiKinds
    <3> HIDE DEF n
    <3>2. DOMAIN n = DOMAIN recv /\ n.fsm = recv.fsm /\ n.conv = recv.conv
      BY <2>1, <3>1, RgmiiFields
    <3>3. RecvOK(n)
      BY <2>6, <3>2, OtherFields DEF Converting, RgmiiKinds
    <3>4. QED
      BY <3>3 DEF n
  <2>7. QED
    BY <2>2, <2>3, <2>4, <2>5, <2>6 DEF AllPinKinds
<1>3. QED
  BY <1>1, <1>2

PinInv == CountInv /\ SendInv /\ WireInv /\ RecvOK(recv) /\ hwReset \in Nat

LEMMA PinInvInit == Init => PinInv
<1>1. SUFFICES ASSUME Init PROVE RecvOK(recv) /\ hwReset \in Nat
  BY CountInit, SendInit, WireInit DEF PinInv
<1>2. recv = RecvReset /\ hwReset = HwResetCycles
  BY <1>1 DEF Init, PinInit
<1>3. QED
  BY <1>2, RecvResetOK, PinAssumption DEF PinAssumption

LEMMA PinInvPreserved == PinInv /\ [Next]_vars => PinInv'
<1>1. SUFFICES ASSUME PinInv, [Next]_vars PROVE PinInv'
  OBVIOUS
<1>2. CASE PinStep
  <2>1. PinNext /\ kind' = kind /\ kind \in AllPinKinds
    BY <1>1, <1>2 DEF PinStep, PinNext, PinInv, SendInv
  <2>2. CountInv'
    BY <1>1, <2>1, CountStep DEF PinInv
  <2>3. SendInv'
    <3>1. send' \in [tag : {0, 1}, i : 0 .. FrameBytes, mux : 1 .. Ratio, gap : 0 .. MinGap]
      BY <1>1, <2>1, SendStep DEF PinInv, PinNext
    <3>2. Ratio' = Ratio /\ Mode' \in Modes
      BY <2>1, <2>2 DEF Ratio, Mode, CountInv
    <3>3. QED
      BY <2>1, <3>1, <3>2 DEF SendInv
  <2>4. WireInv'
    BY <1>1, <2>1, WireStep DEF PinInv
  <2>5. RecvOK(recv)'
    <3>1. PICK mark : recv' = RecvNext(RxPads, mark)
      BY <2>1 DEF PinNext
    <3>2. RecvOK(recv')
      BY <1>1, <2>1, <3>1, RecvStep DEF PinInv
    <3>3. Ratio' = Ratio
      BY <2>1 DEF Ratio
    <3>4. QED
      BY <2>1, <3>2, <3>3 DEF RecvOK
  <2>6. hwReset' \in Nat
    BY <1>1, <2>1 DEF PinInv, PinNext
  <2>7. QED
    BY <2>2, <2>3, <2>4, <2>5, <2>6 DEF PinInv
<1>3. CASE PcsStep \/ UNCHANGED vars
  <2>1. UNCHANGED << kind, hwReset, send, txPads, wire, recv, detect, speed, calm >>
    BY <1>3 DEF PcsStep, vars, pinVars
  <2>2. CountInv' /\ SendInv'
    BY <1>1, <2>1 DEF PinInv, CountInv, DetectInv, Elapsed, SendInv, Mode, SysCycles, Ratio
  <2>3. WireInv' /\ RecvOK(recv)'
    BY <1>1, <2>1 DEF PinInv, WireInv, WireLength, RecvOK, Ratio
  <2>4. QED
    BY <1>1, <2>1, <2>2, <2>3 DEF PinInv
<1>4. QED
  BY <1>1, <1>2, <1>3 DEF Next

LEMMA PinsTyped == PinInv => PinTypeOK
<1>1. SUFFICES ASSUME PinInv PROVE PinTypeOK
  OBVIOUS
<1>2. send \in [tag : {0, 1}, i : 0 .. FrameBytes, mux : 1 .. 4, gap : 0 .. MinGap]
  BY <1>1 DEF PinInv, SendInv, Ratio
<1>3. /\ recv.fsm \in {"IDLE", "RECEIVE"}
      /\ recv.conv.demux \in 0 .. (IF kind = "rmii" THEN 3 ELSE 1)
      /\ Len(recv.conv.data) \in 0 .. (IF kind = "rmii" THEN 4 ELSE 2)
  <2>1. /\ recv.fsm \in {"IDLE", "RECEIVE"} /\ recv.conv.demux \in 0 .. Ratio - 1
        /\ recv.conv.data \in Seq(Parts) /\ Len(recv.conv.data) <= Ratio
    BY <1>1 DEF PinInv, RecvOK, ConvOK
  <2>2. QED
    BY <2>1 DEF Ratio
<1>4. detect \in [mode : Modes, fsm : {"IDLE", "COUNT", "DETECTION"}, eth_counter : 0 .. TickCycles - 1,
                  sys_counter : 0 .. MiiRatio * TickCycles]
  <2>1. /\ detect \in [mode : Modes, fsm : {"IDLE", "COUNT", "DETECTION"}, eth_counter : 0 .. TickCycles - 1,
                       sys_counter : Nat]
        /\ detect.sys_counter <= (IF detect.fsm = "COUNT" THEN Elapsed ELSE TickCycles) * MiiRatio
    BY <1>1 DEF PinInv, CountInv
  <2>2. Elapsed <= TickCycles /\ Elapsed \in Nat /\ TickCycles \in Nat /\ MiiRatio \in Nat
    BY <2>1, ClockFacts DEF Elapsed
  <2>3. Elapsed * MiiRatio <= TickCycles * MiiRatio
    <3>1. (TickCycles - Elapsed) * MiiRatio >= 0
      BY <2>2
    <3>2. (TickCycles - Elapsed) * MiiRatio = TickCycles * MiiRatio - Elapsed * MiiRatio
      BY <2>2
    <3>3. Elapsed * MiiRatio \in Int /\ TickCycles * MiiRatio \in Int
      BY <2>2
    <3>4. QED
      BY <3>1, <3>2, <3>3
  <2>4. TickCycles * MiiRatio = MiiRatio * TickCycles /\ MiiRatio * TickCycles \in Nat
    BY <2>2
  <2>5. detect.sys_counter <= MiiRatio * TickCycles
    <3>1. CASE detect.fsm = "COUNT"
      BY <2>1, <2>2, <2>3, <2>4, <3>1
    <3>2. CASE detect.fsm # "COUNT"
      BY <2>1, <2>4, <3>2
    <3>3. QED
      BY <3>1, <3>2
  <2>6. detect.sys_counter \in 0 .. MiiRatio * TickCycles
    BY <2>1, <2>4, <2>5
  <2>7. QED
    BY <2>1, <2>6
<1>5. QED
  BY <1>2, <1>3, <1>4 DEF PinTypeOK

\* No counter of the negotiation, of the transceiver's start-up, of the bytes' repetition, of
\* a converter or of the mode detection runs past its end, for any timers, fault or gap
\* (pcs_1000basex.py, a7_gtp.py, gmii_mii.py, mii.py, rmii.py).
THEOREM PhyTypeCorrect == Spec => []TypeOK
<1> DEFINE IInv == DrpInv /\ PathInv /\ ReadyInv /\ FrameInv /\ LinkInv /\ PinInv
<1>1. Init => IInv
  BY DrpInit, PathInit, ReadyInit, FrameInit, LinkInvInit, PinInvInit
<1>2. IInv /\ [Next]_vars => IInv'
  BY DrpPreserved, PathPreserved, ReadyPreserved, FramePreserved, LinkInvPreserved, PinInvPreserved
<1>3. IInv => TypeOK
  BY LinkTyped, PinsTyped DEF TypeOK
<1>4. QED
  BY <1>1, <1>2, <1>3, PTL DEF Spec

-----------------------------------------------------------------------------
(* Frames over the pins.  Every register between the sender's converter and  *)
(* the source holds what was sent a fixed number of cycles before, from the  *)
(* first part of a followed frame on; the state of converters and FSMs is a  *)
(* function of that distance.                                                *)

\* How many cycles the transmitter needs for a byte.
Cycles == IF kind = "rmii" THEN 4 ELSE IF Narrow THEN 2 ELSE 1

\* Where the sender is: cycles since the first part of the frame it sends, or sent
\* last, and cycles since that frame's end, -1 inside of it.
At ==
    [kind     |-> kind,
     followed |-> whole,
     cycles   |-> Cycles,
     size     |-> FrameBytes * Cycles,
     tag      |-> IF SendsByte THEN send.tag ELSE 1 - send.tag,
     place    |-> IF SendsByte THEN (send.i - 1) * Cycles + (IF Narrow THEN send.mux - 1 ELSE 0)
                  ELSE FrameBytes * Cycles + MinGap - send.gap,
     idle     |-> IF SendsByte THEN -1 ELSE MinGap - send.gap]

\* What is on the pads n cycles after the frame's first part.
Item(a, n) ==
    IF n \notin 0 .. a.size - 1 THEN Silence
    ELSE [dv   |-> TRUE,
          data |-> IF a.kind \in RgmiiKinds THEN << << a.tag, n + 1, 1 >>, << a.tag, n + 1, 2 >> >>
                   ELSE << << a.tag, n \div a.cycles + 1, (n % a.cycles) + 1 >> >>]

\* A register d cycles behind the sender holds a followed frame's part, and is known to
\* be silent once the sender has been idle for as long.
It(a, d)    == IF a.followed THEN Item(a, a.place - d) ELSE Silence
Known(a, d) == a.followed \/ a.idle >= d

\* A register that holds what was sent d cycles ago, if that is known.
Kept(a, d, dv, data) == Known(a, d) => dv = It(a, d).dv /\ data = It(a, d).data

\* The transmitter's registers and what is on the wire.
WiresAt(a) ==
    /\ txPads = [m \in Modes |-> txPads[m]] /\ wire = [j \in 1 .. WireLength |-> wire[j]]
    /\ a.idle >= 1 => \A m \in Modes : txPads[m] = Silence
    /\ Known(a, 1) => txPads[Mode] = It(a, 1)
    /\ \A j \in 1 .. WireLength : Known(a, j + 1) => wire[j] = It(a, j + 1)

\* The converter, when it has got the n-th part.
ConvAt(a, n) ==
    IF ~a.followed \/ n \notin 0 .. a.size - 1 THEN ConverterReset
    ELSE [demux |-> ((n % a.cycles) + 1) % a.cycles,
          data  |-> [p \in 1 .. (n % a.cycles) + 1 |-> << a.tag, n \div a.cycles + 1, p >>],
          valid |-> n % a.cycles = a.cycles - 1,
          last  |-> n = a.size - 1]

RegTyped(s) == DOMAIN s.reg = 1 .. 2 /\ DOMAIN s.reg[1] = {"valid", "data"}

\* MII's receiver, its pads d cycles behind; the converter is reset until the first
\* part after a frame's end.
MiiAt(a, d, s) ==
    /\ RegTyped(s) /\ s.reg[1].valid \in BOOLEAN
    /\ Kept(a, d, s.pads.dv, s.pads.data)
    /\ Known(a, d) /\ s.reg[1].valid => s.reset = ~It(a, d).dv
    /\ s.reg[1].valid \/ (~a.followed /\ s.conv = ConverterReset)
    /\ a.idle >= d + 1 => s.conv = ConverterReset
    /\ a.followed /\ a.cycles = 2 => s.conv = ConvAt(a, a.place - (d + 1))

\* crs_dv, when the chip gets one part and gives another one.
CrsAt(a, d, e) == It(a, d).dv \/ (It(a, e).dv /\ It(a, e).data[1][3] \in {2, 4})

\* RMII's receiver p cycles after the frame's first part left the chip.
RmiiPlace(a, w, p, s) ==
    /\ s.fsm = IF p \in 3 .. a.size + 3 THEN "RECEIVE" ELSE "IDLE"
    /\ (s.reg[1].valid <=> p \in 3 .. a.size + 4) /\ s.reg[1].data = It(a, w + 3).data
    /\ (s.reg[2].valid <=> p \in 4 .. a.size + 5) /\ s.reg[2].data = It(a, w + 4).data
    /\ s.conv = ConvAt(a, p - 5)

RmiiAt(a, w, s) ==
    /\ Known(a, w + 2) => s.pads.dv = CrsAt(a, 3, w + 2) /\ s.pads.data = It(a, w + 2).data
    /\ Known(a, w + 3) => s.pads_d.dv = CrsAt(a, 4, w + 3)
    /\ a.idle >= w + 4 => s.fsm = "IDLE"
    /\ a.idle >= w + 5 => s.reg[1] = Empty /\ s.conv = ConverterReset
    /\ a.idle >= w + 6 => s.reg[2] = Empty
    /\ a.followed => RmiiPlace(a, w, a.place - w, s)

Phased == gear.rx_edge <=> gear.phase_half = gear.phase_half_rereg

GearTyped ==
    /\ DOMAIN gear = {"tx_edge", "rx_edge", "buf", "tx_data_half", "bits", "rx_data_half", "phase_half", "phase_half_rereg"}
    /\ {gear.phase_half, gear.phase_half_rereg} \subseteq {0, 1}
    /\ {gear.tx_edge, gear.rx_edge} \subseteq BOOLEAN

\* The gearbox.  Where the half clock's edge falls decides which half of a pair is where;
\* phase_half's copy is in step with it from the first edge after a followed frame began.
GearAt(a) ==
    /\ GearTyped
    /\ a.followed => Phased \/ a.place = 0 \/ (a.place = 1 /\ gear.rx_edge)
    /\ Known(a, 2) => gear.buf[2] = It(a, 2)
    /\ Known(a, 3) => gear.buf[1] = It(a, 3)
    /\ LET d == IF gear.tx_edge THEN 4 ELSE 3
       IN  /\ Known(a, d) => gear.tx_data_half[2] = It(a, d)
           /\ Known(a, d + 1) => gear.tx_data_half[1] = It(a, d + 1)
    /\ Known(a, 5) => gear.bits[2] = It(a, 5)
    /\ Known(a, 6) => gear.bits[1] = It(a, 6)
    /\ LET d == IF gear.rx_edge THEN 7 ELSE 6
       IN  /\ Known(a, d) => gear.rx_data_half[2] = It(a, d)
           /\ Known(a, d + 1) => gear.rx_data_half[1] = It(a, d + 1)
    /\ Known(a, 9) => recv.valid = It(a, 8).dv /\ recv.data = It(a, 8).data

\* Spartan-6 and Altera: the nibble of the falling edge is a cycle late.
LagAt(a) ==
    /\ Known(a, 3) => /\ recv.pads.dv = It(a, 3).dv /\ recv.pads.data[1] = Nibble(It(a, 3).data, 1)
                      /\ recv.fall = Nibble(It(a, 3).data, 2)
    /\ Known(a, 4) => /\ recv.pads.data[2] = Nibble(It(a, 4).data, 2)
                      /\ recv.pads_d.dv = It(a, 4).dv /\ recv.pads_d.data[1] = Nibble(It(a, 4).data, 1)

\* The receiver's registers.
RecvAt(a) ==
    CASE kind \in {"gmii", "model"} -> Kept(a, 3, recv.valid, recv.data)
      [] kind \in {"s7rgmii", "usrgmii"} -> Kept(a, 3, recv.pads.dv, recv.pads.data) /\ Kept(a, 4, recv.valid, recv.data)
      [] kind = "ecp5rgmii" -> /\ Kept(a, 3, recv.pads.dv, recv.pads.data) /\ Kept(a, 4, recv.pads_d.dv, recv.pads_d.data)
                               /\ Kept(a, 5, recv.valid, recv.data)
      [] kind = "s6rgmii" -> /\ LagAt(a) /\ recv.reg = << recv.reg[1], recv.reg[2] >>
                             /\ Kept(a, 5, recv.valid, recv.data)
      [] kind = "altera_rgmii" -> /\ LagAt(a) /\ recv.reg = << recv.reg[1], recv.reg[2] >>
                                  /\ Kept(a, 5, recv.reg[1].valid, recv.reg[1].data) /\ Kept(a, 6, recv.valid, recv.data)
      [] kind = "gearbox" -> GearAt(a)
      [] kind = "mii" -> MiiAt(a, 3, recv)
      [] kind = "gmii_mii" -> /\ Kept(a, 3, recv.pads_d.dv, recv.pads_d.data) /\ MiiAt(a, 4, recv)
                              /\ Kept(a, 4, recv.valid, recv.data)
      [] kind = "rmii" -> RmiiAt(a, WireDelay, recv)

\* How long a byte takes from the sender to the source.
Delay ==
    CASE kind \in {"gmii", "model"} -> 3
      [] kind \in {"s7rgmii", "usrgmii", "mii"} -> 4
      [] kind \in {"ecp5rgmii", "s6rgmii"} -> 5
      [] kind = "altera_rgmii" -> 6
      [] kind = "gearbox" -> 8
      [] kind = "gmii_mii" -> IF Narrow THEN 5 ELSE 4
      [] kind = "rmii" -> WireDelay + 5

\* What the source gives, and what has come out, when it is at the n-th part.
SourceAt(a, n) ==
    LET out == Source(RxPads)
    IN  a.followed =>
          /\ out.valid <=> n \in 0 .. a.size - 1 /\ n % a.cycles = a.cycles - 1
          /\ out.valid => out.data = ByteParts(a.tag, n \div a.cycles + 1)
          /\ out.last <=> n = a.size - 1

FirstBytes(tag, m) == [i \in 1 .. m |-> ByteParts(tag, i)]

ReceivedAt(a, n) ==
    a.followed => /\ due = IF n < a.size THEN a.tag ELSE 1 - a.tag
                  /\ received = FirstBytes(a.tag, IF n \in 0 .. a.size - 1 THEN n \div a.cycles ELSE 0)

\* Everything follows from the sender's place.
PlaceInv ==
    /\ WiresAt(At) /\ RecvAt(At) /\ ReceivedAt(At, At.place - Delay)
    /\ whole => hwReset = 0

\* The MAC's gap, 12 bytes (mac/gap.py), is longer than any receiver needs for its last
\* byte, and an RMII chip holds back less than a frame.
EnoughGap == MinGap >= 9 /\ MinGap >= WireDelay + 6 /\ WireDelay <= 4 * FrameBytes

Placed(a) ==
    /\ a.followed \in BOOLEAN /\ a.cycles \in {1, 2, 4} /\ a.size = FrameBytes * a.cycles
    /\ a.size \in Nat \ {0} /\ a.tag \in {0, 1} /\ a.place \in Nat /\ a.idle \in -1 .. MinGap
    /\ IF a.idle = -1 THEN a.place < a.size ELSE a.place = a.size + a.idle

\* The sender goes on, from a to b.
Moves(a, b) ==
    /\ Placed(a) /\ Placed(b) /\ b.kind = a.kind
    /\ b.idle <= 0 \/ a.idle = b.idle - 1 \/ (a.idle = MinGap /\ b.idle = MinGap)
    /\ b.followed =>
         \/ a.idle = MinGap /\ b.place = 0
         \/ /\ a.followed /\ b.cycles = a.cycles /\ b.size = a.size /\ b.tag = a.tag
            /\ b.place = a.place + 1 \/ (b.place = a.place /\ a.idle = MinGap /\ b.idle = MinGap)

LEMMA ItemSilent ==
    ASSUME NEW a, NEW n \in Int, a.size \in Nat, n < 0 \/ n >= a.size PROVE Item(a, n) = Silence
<1>1. n \notin 0 .. a.size - 1
  OBVIOUS
<1>2. QED
  BY <1>1 DEF Item

LEMMA ItemSame ==
    ASSUME NEW a, NEW b, NEW n, b.kind = a.kind, b.cycles = a.cycles, b.size = a.size, b.tag = a.tag
    PROVE  Item(b, n) = Item(a, n)
  BY Zenon DEF Item

\* What is known of a register is known of the next one, one cycle later.
LEMMA ShiftIt ==
    ASSUME NEW a, NEW b, Moves(a, b), NEW d \in Nat, d < MinGap, Known(b, d + 1)
    PROVE  Known(a, d) /\ It(b, d + 1) = It(a, d)
<1>1. /\ Placed(a) /\ Placed(b) /\ MinGap \in Nat
      /\ b.idle <= 0 \/ a.idle = b.idle - 1 \/ (a.idle = MinGap /\ b.idle = MinGap)
      /\ a.size \in Nat /\ b.size \in Nat /\ a.place \in Nat /\ b.place \in Nat
      /\ a.idle \in -1 .. MinGap /\ b.idle \in -1 .. MinGap
      /\ a.idle # -1 => a.place = a.size + a.idle
      /\ b.idle # -1 => b.place = b.size + b.idle
  BY PinConstants DEF Moves, Placed
<1>2. CASE b.followed /\ a.idle = MinGap /\ b.place = 0
  <2>1. a.place - d \in Int /\ a.place - d >= a.size /\ a.idle >= d
    BY <1>1, <1>2
  <2>2. b.place - (d + 1) \in Int /\ b.place - (d + 1) < 0
    BY <1>1, <1>2
  <2>3. It(a, d) = Silence
    BY <1>1, <2>1, ItemSilent DEF It
  <2>4. It(b, d + 1) = Silence
    BY <1>1, <2>2, ItemSilent DEF It
  <2>5. QED
    BY <2>1, <2>3, <2>4 DEF Known
<1>3. CASE b.followed /\ ~(a.idle = MinGap /\ b.place = 0)
  <2>1. /\ a.followed /\ b.cycles = a.cycles /\ b.size = a.size /\ b.tag = a.tag /\ b.kind = a.kind
        /\ b.place = a.place + 1 \/ (b.place = a.place /\ a.idle = MinGap /\ b.idle = MinGap)
    BY <1>3 DEF Moves
  <2>2. CASE b.place = a.place + 1
    <3>1. b.place - (d + 1) = a.place - d
      BY <1>1, <2>2
    <3>2. QED
      BY <1>3, <2>1, <3>1, ItemSame DEF It, Known
  <2>3. CASE b.place = a.place /\ a.idle = MinGap /\ b.idle = MinGap
    <3>1. a.place - d \in Int /\ a.place - d >= a.size
      BY <1>1, <2>3
    <3>2. b.place - (d + 1) \in Int /\ b.place - (d + 1) >= b.size
      BY <1>1, <2>1, <2>3
    <3>3. QED
      BY <1>1, <1>3, <2>1, <3>1, <3>2, ItemSilent DEF It, Known
  <2>4. QED
    BY <2>1, <2>2, <2>3
<1>4. CASE ~b.followed
  <2>1. b.idle >= d + 1
    BY <1>4 DEF Known
  <2>2. a.idle >= d
    BY <1>1, <2>1
  <2>3. It(a, d) = Silence
    <3>1. a.place - d \in Int /\ a.place - d >= a.size
      BY <1>1, <2>2
    <3>2. QED
      BY <1>1, <3>1, ItemSilent DEF It
  <2>4. QED
    BY <1>4, <2>2, <2>3 DEF It, Known
<1>5. QED
  BY <1>2, <1>3, <1>4

\* The sender's place.
LEMMA AtFields ==
    /\ At.kind = kind /\ At.followed = whole /\ At.cycles = Cycles /\ At.size = FrameBytes * Cycles
    /\ At.tag = IF SendsByte THEN send.tag ELSE 1 - send.tag
    /\ At.place = IF SendsByte THEN (send.i - 1) * Cycles + (IF Narrow THEN send.mux - 1 ELSE 0)
                  ELSE FrameBytes * Cycles + MinGap - send.gap
    /\ At.idle = IF SendsByte THEN -1 ELSE MinGap - send.gap
BY DEF At

LEMMA SendFields ==
    ASSUME SendInv
    PROVE  /\ send.tag \in {0, 1} /\ send.i \in 0 .. FrameBytes /\ send.gap \in 0 .. MinGap
           /\ send.mux \in Nat \ {0} /\ (Narrow => send.mux <= Cycles /\ PartsPerByte = Cycles)
           /\ Cycles \in {1, 2, 4} /\ FrameBytes \in Nat \ {0} /\ MinGap \in Nat \ {0}
           /\ (SendsByte <=> send.i > 0) /\ (~Narrow => Cycles = 1)
<1>1. Narrow => PartsPerByte = Ratio /\ Cycles = Ratio
  BY DEF Narrow, PartsPerByte, Ratio, Cycles
<1>2. Cycles \in {1, 2, 4} /\ (~Narrow => Cycles = 1)
  BY DEF Cycles, Narrow
<1>3. Ratio \in Nat
  BY DEF Ratio
<1>4. QED
  BY <1>1, <1>2, <1>3, PinConstants DEF SendInv, SendsByte

\* A place, for any number of cycles.
LEMMA PlaceBounds ==
    ASSUME NEW c \in {1, 2, 4}, NEW f \in Nat \ {0}, NEW i \in 1 .. f, NEW m \in 0 .. c - 1
    PROVE  /\ (i - 1) * c + m \in 0 .. f * c - 1 /\ f * c \in Nat \ {0}
           /\ ((i - 1) * c + m) \div c = i - 1 /\ ((i - 1) * c + m) % c = m
           /\ m < c - 1 => (i - 1) * c + (m + 1) = (i - 1) * c + m + 1
           /\ m = c - 1 => ((i + 1) - 1) * c = (i - 1) * c + m + 1
           /\ m = c - 1 /\ i = f => f * c = (i - 1) * c + m + 1
<1>1. CASE c = 1
  BY <1>1
<1>2. CASE c = 2
  BY <1>2
<1>3. CASE c = 4
  BY <1>3
<1>4. QED
  BY <1>1, <1>2, <1>3

\* The place in a byte.
Part == IF Narrow THEN send.mux - 1 ELSE 0

LEMMA SendPlace ==
    ASSUME SendInv, SendsByte
    PROVE  /\ send.i \in 1 .. FrameBytes /\ Part \in 0 .. Cycles - 1
           /\ At.place = (send.i - 1) * Cycles + Part
<1>1. Part \in 0 .. Cycles - 1
  BY SendFields DEF Part
<1>2. send.i \in 1 .. FrameBytes
  BY SendFields
<1>3. At.place = (send.i - 1) * Cycles + Part
  BY AtFields DEF Part
<1>4. QED
  BY <1>1, <1>2, <1>3

LEMMA AtPlaced == ASSUME SendInv, whole \in BOOLEAN PROVE Placed(At)
<1>1. PICK c \in {1, 2, 4}, f \in Nat \ {0}, z \in {FrameBytes * Cycles} : c = Cycles /\ f = FrameBytes /\ z = f * c
  BY SendFields
<1>2. z \in Nat \ {0}
  BY <1>1, PlaceBounds
<1>3. CASE SendsByte
  <2>1. send.i \in 1 .. f /\ Part \in 0 .. c - 1 /\ At.place = (send.i - 1) * c + Part
    BY <1>1, <1>3, SendPlace
  <2>2. At.place \in 0 .. z - 1
    BY <1>1, <2>1, PlaceBounds
  <2>3. At.idle = -1 /\ At.tag \in {0, 1}
    BY <1>3, AtFields, SendFields
  <2>4. QED
    BY <1>1, <1>2, <2>2, <2>3, AtFields, SendFields DEF Placed
<1>4. CASE ~SendsByte
  <2>1. At.idle = MinGap - send.gap /\ At.tag = 1 - send.tag /\ At.place = z + MinGap - send.gap
    BY <1>1, <1>4, AtFields
  <2>2. At.idle \in 0 .. MinGap /\ At.tag \in {0, 1} /\ At.place = z + At.idle
    BY <1>2, <2>1, SendFields
  <2>3. QED
    BY <1>1, <1>2, <2>2, AtFields, SendFields DEF Placed
<1>5. QED
  BY <1>3, <1>4

LEMMA ModeStays ==
    ASSUME PinNext, whole'
    PROVE  /\ Mode' = Mode /\ (Narrow' <=> Narrow) /\ Cycles' = Cycles
           /\ (whole \/ Begins) /\ (Begins => hwReset = 0 /\ (Narrow => send.mux = 1))
<1>1. whole' = /\ whole \/ Begins
               /\ Begins => hwReset = 0 /\ (Narrow => send.mux = 1)
               /\ Mode = speed' /\ Mode = detect'.mode
  BY DEF PinNext, Follows
<1>2. Mode' = Mode /\ kind' = kind
  BY <1>1 DEF Mode, PinNext
<1>3. (Narrow' <=> Narrow) /\ Cycles' = Cycles
  BY <1>2 DEF Narrow, Cycles
<1>4. QED
  BY <1>1, <1>2, <1>3

\* What a cycle makes of the sender.
LEMMA SendCases ==
    ASSUME SendInv, PinNext
    PROVE  \/ ~SendsByte /\ ~SendsByte' /\ send'.tag = send.tag /\ send'.gap = (IF send.gap > 0 THEN send.gap - 1 ELSE 0)
           \/ Begins /\ ~SendsByte /\ SendsByte' /\ send.gap = 0 /\ send'.tag = send.tag /\ send'.i = 1 /\ send'.mux = send.mux
           \/ SendsByte /\ SendsByte' /\ send'.tag = send.tag /\ send'.i = send.i /\ Narrow
                /\ send.mux < Cycles /\ send'.mux = send.mux + 1
           \/ SendsByte /\ SendsByte' /\ send'.tag = send.tag /\ send'.i = send.i + 1 /\ send.i < FrameBytes
                /\ (Narrow => send.mux = Cycles /\ send'.mux = 1)
           \/ SendsByte /\ ~SendsByte' /\ send'.tag = 1 - send.tag /\ send.i = FrameBytes /\ send'.gap = MinGap
                /\ (Narrow => send.mux = Cycles)
<1>1. /\ send = [tag |-> send.tag, i |-> send.i, mux |-> send.mux, gap |-> send.gap] /\ SendNext
  BY DEF SendInv, PinNext
<1>2. /\ SendsByte <=> send.i > 0
      /\ SendsByte' <=> send'.i > 0
  BY DEF SendsByte
<1>3. CASE ~SendsByte
  <2>1. \/ send' = [send EXCEPT !.gap = IF @ > 0 THEN @ - 1 ELSE 0]
        \/ send.gap = 0 /\ send' = [send EXCEPT !.i = 1]
    BY <1>1, <1>3 DEF SendNext
  <2>2. CASE send' = [send EXCEPT !.gap = IF @ > 0 THEN @ - 1 ELSE 0]
    <3>1. send'.i = send.i /\ send'.tag = send.tag /\ send'.gap = (IF send.gap > 0 THEN send.gap - 1 ELSE 0)
      BY <1>1, <2>2
    <3>2. QED
      BY <1>2, <1>3, <3>1
  <2>3. CASE send.gap = 0 /\ send' = [send EXCEPT !.i = 1]
    <3>1. send'.i = 1 /\ send'.tag = send.tag /\ send'.mux = send.mux /\ send.gap = 0
      BY <1>1, <2>3
    <3>2. QED
      BY <1>2, <1>3, <3>1 DEF Begins
  <2>4. QED
    BY <2>1, <2>2, <2>3
<1>4. CASE SendsByte
  <2> DEFINE mux == IF ~Narrow THEN send.mux ELSE IF SinkReady THEN 1 ELSE send.mux + 1
  <2>1. /\ ~SinkReady => send' = [send EXCEPT !.mux = mux]
        /\ SinkReady /\ send.i < FrameBytes => send' = [send EXCEPT !.i = send.i + 1, !.mux = mux]
        /\ SinkReady /\ ~(send.i < FrameBytes) => send' = [tag |-> 1 - send.tag, i |-> 0, mux |-> mux, gap |-> MinGap]
    BY <1>1, <1>4 DEF SendNext
  <2>2. /\ SinkReady <=> (Narrow => send.mux = Cycles)
        /\ send.i \in 1 .. FrameBytes /\ FrameBytes \in Nat /\ send.mux \in Nat
        /\ Narrow => send.mux <= Cycles
        /\ Cycles \in Nat
    <3>1. Narrow => PartsPerByte = Cycles
      BY SendFields
    <3>2. SinkReady <=> (Narrow => send.mux = Cycles)
      BY <3>1 DEF SinkReady
    <3>3. QED
      BY <3>2, <1>4, SendFields
  <2>3. mux = IF ~Narrow THEN send.mux ELSE IF SinkReady THEN 1 ELSE send.mux + 1
    OBVIOUS
  <2> HIDE DEF mux
  <2>4. CASE ~SinkReady
    <3>1. send'.i = send.i /\ send'.tag = send.tag /\ send'.mux = mux
      BY <1>1, <2>1, <2>4
    <3>2. Narrow /\ send.mux < Cycles /\ mux = send.mux + 1
      BY <2>2, <2>3, <2>4
    <3>3. QED
      BY <1>2, <1>4, <3>1, <3>2
  <2>5. CASE SinkReady /\ send.i < FrameBytes
    <3>1. send'.i = send.i + 1 /\ send'.tag = send.tag /\ send'.mux = mux
      BY <1>1, <2>1, <2>5
    <3>2. SendsByte'
      BY <1>2, <2>2, <3>1
    <3>3. QED
      BY <1>4, <2>2, <2>3, <2>5, <3>1, <3>2
  <2>6. CASE SinkReady /\ ~(send.i < FrameBytes)
    <3>1. send'.i = 0 /\ send'.tag = 1 - send.tag /\ send'.gap = MinGap
      BY <1>1, <2>1, <2>6
    <3>2. ~SendsByte' /\ send.i = FrameBytes
      BY <1>2, <2>2, <2>6, <3>1
    <3>3. QED
      BY <1>4, <2>2, <2>6, <3>1, <3>2
  <2>7. QED
    BY <2>4, <2>5, <2>6
<1>5. QED
  BY <1>3, <1>4

LEMMA PlacedIf == SendInv /\ whole \in BOOLEAN => Placed(At)
BY AtPlaced

LEMMA NextPlaced == (SendInv /\ whole \in BOOLEAN)' => Placed(At)'
BY PlacedIf, PTL

LEMMA AtNext ==
    /\ At'.kind = kind' /\ At'.followed = whole' /\ At'.cycles = Cycles' /\ At'.size = FrameBytes * Cycles'
    /\ At'.tag = IF SendsByte' THEN send'.tag ELSE 1 - send'.tag
    /\ At'.place = IF SendsByte' THEN (send'.i - 1) * Cycles' + (IF Narrow' THEN send'.mux - 1 ELSE 0)
                   ELSE FrameBytes * Cycles' + MinGap - send'.gap
    /\ At'.idle = IF SendsByte' THEN -1 ELSE MinGap - send'.gap
BY DEF At

LEMMA AtMoves ==
    ASSUME SendInv, SendInv', whole \in BOOLEAN, whole' \in BOOLEAN, PinNext PROVE Moves(At, At')
<1>1. Placed(At) /\ Placed(At') /\ At'.kind = At.kind
  <2>1. kind' = kind
    BY DEF PinNext
  <2>2. QED
    BY <2>1, AtPlaced, NextPlaced, AtFields, AtNext DEF Placed
<1>2. PICK c \in {1, 2, 4}, f \in Nat \ {0}, z, l \in Nat \ {0} :
        c = Cycles /\ f = FrameBytes /\ z = f * c /\ l = MinGap /\ At.size = z /\ At.cycles = c
  BY SendFields, AtFields
<1>3. z \in Nat \ {0}
  BY <1>2, PlaceBounds
<1>4. At'.idle <= 0 \/ At.idle = At'.idle - 1 \/ (At.idle = MinGap /\ At'.idle = MinGap)
  <2>1. /\ send.gap \in 0 .. MinGap
        /\ At.idle = IF SendsByte THEN -1 ELSE MinGap - send.gap
        /\ At'.idle = IF SendsByte' THEN -1 ELSE MinGap - send'.gap
    BY SendFields, AtFields, AtNext
  <2>2. \/ ~SendsByte /\ ~SendsByte' /\ send'.gap = (IF send.gap > 0 THEN send.gap - 1 ELSE 0)
        \/ SendsByte'
        \/ ~SendsByte' /\ send'.gap = MinGap
    BY SendCases
  <2>3. QED
    BY <1>2, <2>1, <2>2
<1>5. ASSUME whole'
      PROVE  \/ At.idle = MinGap /\ At'.place = 0
             \/ /\ whole /\ At'.cycles = At.cycles /\ At'.size = At.size /\ At'.tag = At.tag
                /\ At'.place = At.place + 1 \/ (At'.place = At.place /\ At.idle = MinGap /\ At'.idle = MinGap)
  <2>1. /\ (Narrow' <=> Narrow) /\ Cycles' = c /\ (whole \/ Begins)
        /\ Begins /\ Narrow => send.mux = 1
    BY <1>2, <1>5, ModeStays
  <2>a. /\ At'.cycles = c /\ At'.size = z
        /\ At'.tag = IF SendsByte' THEN send'.tag ELSE 1 - send'.tag
        /\ SendsByte' => At'.place = (send'.i - 1) * c + (IF Narrow' THEN send'.mux - 1 ELSE 0)
        /\ ~SendsByte' => At'.place = z + MinGap - send'.gap
        /\ At'.idle = IF SendsByte' THEN -1 ELSE MinGap - send'.gap
    <3>0. Cycles' = c /\ FrameBytes = f /\ f * c = z
      BY <1>2, <2>1
    <3>1. FrameBytes * Cycles' = z
      BY <3>0
    <3>2. At'.cycles = c /\ At'.size = z
      BY <2>1, <3>1, AtNext, Zenon
    <3>3. SendsByte' => At'.place = (send'.i - 1) * c + (IF Narrow' THEN send'.mux - 1 ELSE 0)
      <4>1. SendsByte' => At'.place = (send'.i - 1) * Cycles' + (IF Narrow' THEN send'.mux - 1 ELSE 0)
        BY AtNext, Zenon
      <4>2. QED
        BY <2>1, <4>1, Zenon
    <3>4. ~SendsByte' => At'.place = z + MinGap - send'.gap
      <4>1. ~SendsByte' => At'.place = FrameBytes * Cycles' + MinGap - send'.gap
        BY AtNext, Zenon
      <4>2. QED
        BY <3>1, <4>1, Zenon
    <3>5. QED
      BY <3>2, <3>3, <3>4, AtNext, Zenon
  <2>b. (IF Narrow' THEN send'.mux - 1 ELSE 0) = (IF Narrow THEN send'.mux - 1 ELSE 0)
    <3>1. CASE Narrow
      BY <2>1, <3>1, Zenon
    <3>2. CASE ~Narrow
      BY <2>1, <3>2, Zenon
    <3>3. QED
      BY <3>1, <3>2, Zenon
  <2>n. /\ At'.cycles = c /\ At'.size = z
        /\ At'.tag = IF SendsByte' THEN send'.tag ELSE 1 - send'.tag
        /\ SendsByte' => At'.place = (send'.i - 1) * c + (IF Narrow THEN send'.mux - 1 ELSE 0)
        /\ ~SendsByte' => At'.place = z + MinGap - send'.gap
        /\ At'.idle = IF SendsByte' THEN -1 ELSE MinGap - send'.gap
    BY <2>a, <2>b, Zenon
  <2>2. At'.cycles = At.cycles /\ At'.size = At.size
    BY <1>2, <2>a, Zenon
  <2>c. /\ ~SendsByte => At.place = z + MinGap - send.gap
        /\ At.idle = IF SendsByte THEN -1 ELSE MinGap - send.gap
        /\ At.tag = IF SendsByte THEN send.tag ELSE 1 - send.tag
    BY <1>2, AtFields, Zenon
  <2>3. CASE Begins /\ ~SendsByte /\ SendsByte' /\ send.gap = 0 /\ send'.i = 1 /\ send'.mux = send.mux
    <3>1. At.idle = MinGap
      BY <1>2, <2>3, AtFields
    <3>2. At'.place = (1 - 1) * c + (IF Narrow THEN 1 - 1 ELSE 0)
      BY <2>1, <2>3, <2>n
    <3>3. QED
      BY <1>2, <3>1, <3>2
  <2>4. CASE ~SendsByte /\ ~SendsByte' /\ send'.tag = send.tag /\ send'.gap = (IF send.gap > 0 THEN send.gap - 1 ELSE 0)
    <3>1. /\ At.place = z + MinGap - send.gap /\ At'.place = z + MinGap - send'.gap
          /\ At.idle = MinGap - send.gap /\ At'.idle = MinGap - send'.gap /\ At.tag = At'.tag
      BY <1>2, <2>1, <2>4, <2>c, <2>n
    <3>2. send.gap \in 0 .. MinGap
      BY SendFields
    <3>3. At'.place = At.place + 1 \/ (At'.place = At.place /\ At.idle = MinGap /\ At'.idle = MinGap)
      BY <1>2, <1>3, <2>4, <3>1, <3>2
    <3>4. ~Begins
      BY <2>4 DEF Begins, SendsByte
    <3>5. QED
      BY <2>1, <2>2, <3>1, <3>3, <3>4
  <2>5. CASE SendsByte
    <3>1. /\ send.i \in 1 .. f /\ Part \in 0 .. c - 1 /\ At.place = (send.i - 1) * c + Part
          /\ At.tag = send.tag /\ ~Begins /\ send.tag \in {0, 1} /\ whole
      BY <1>2, <2>1, <2>5, SendPlace, AtFields, SendFields DEF Begins
    <3>2. PICK i \in 1 .. f, m \in 0 .. c - 1 : i = send.i /\ m = Part
      BY <3>1
    <3>3. Part = IF Narrow THEN send.mux - 1 ELSE 0
      BY DEF Part
    <3>4. /\ m < c - 1 => (i - 1) * c + (m + 1) = (i - 1) * c + m + 1
          /\ m = c - 1 => ((i + 1) - 1) * c = (i - 1) * c + m + 1
          /\ m = c - 1 /\ i = f => z = (i - 1) * c + m + 1
          /\ (i - 1) * c + m \in Nat
      BY <1>2, PlaceBounds
    <3>5. At.place = (i - 1) * c + m
      BY <3>1, <3>2
    <3>6. Narrow => send.mux \in 1 .. c
      BY <1>2, SendFields
    <3>7. ~Narrow => c = 1
      BY <1>2, SendFields
    <3>8. CASE /\ SendsByte' /\ send'.tag = send.tag /\ send'.i = send.i /\ Narrow
               /\ send.mux < Cycles /\ send'.mux = send.mux + 1
      <4>1. m < c - 1 /\ At'.place = (i - 1) * c + (send'.mux - 1) /\ send'.mux - 1 = m + 1 /\ At'.tag = At.tag
        BY <1>2, <2>1, <3>1, <3>2, <3>3, <3>6, <3>8, <2>c, <2>n
      <4>2. QED
        BY <2>2, <3>1, <3>4, <3>5, <4>1
    <3>9. CASE /\ SendsByte' /\ send'.tag = send.tag /\ send'.i = send.i + 1
               /\ (Narrow => send.mux = Cycles /\ send'.mux = 1)
      <4>0. At'.tag = At.tag
        BY <2>5, <3>9, <2>c, <2>n
      <4>m. m = c - 1
        <5>1. CASE Narrow
          BY <1>2, <3>2, <3>3, <3>9, <5>1
        <5>2. CASE ~Narrow
          BY <3>2, <3>3, <3>7, <5>2
        <5>3. QED
          BY <5>1, <5>2
      <4>1. m = c - 1 /\ At'.tag = At.tag
        BY <4>0, <4>m
      <4>2. At'.place = ((i + 1) - 1) * c + (IF Narrow THEN send'.mux - 1 ELSE 0)
        BY <2>1, <3>2, <3>9, <2>c, <2>n
      <4>3. (IF Narrow THEN send'.mux - 1 ELSE 0) = 0
        BY <3>9
      <4>4. At'.place = (i - 1) * c + m + 1
        BY <3>4, <4>1, <4>2, <4>3
      <4>5. QED
        BY <2>2, <3>1, <3>5, <4>1, <4>4
    <3>10. CASE /\ ~SendsByte' /\ send'.tag = 1 - send.tag /\ send.i = FrameBytes /\ send'.gap = MinGap
                /\ (Narrow => send.mux = Cycles)
      <4>1. m = c - 1 /\ i = f
        <5>1. CASE Narrow
          BY <1>2, <3>2, <3>3, <3>10, <5>1
        <5>2. CASE ~Narrow
          BY <1>2, <3>2, <3>3, <3>7, <3>10, <5>2
        <5>3. QED
          BY <5>1, <5>2
      <4>2. At'.place = z + MinGap - MinGap /\ At'.tag = 1 - (1 - send.tag)
        BY <1>2, <2>1, <3>10, <2>c, <2>n
      <4>3. At'.place = (i - 1) * c + m + 1 /\ At'.tag = send.tag
        BY <1>2, <1>3, <3>1, <3>4, <4>1, <4>2
      <4>4. QED
        BY <2>2, <3>1, <3>5, <4>3
    <3>11. QED
      BY <2>5, <3>8, <3>9, <3>10, SendCases
  <2>6. QED
    BY <2>3, <2>4, <2>5, SendCases
<1>6. QED
  BY <1>1, <1>4, <1>5, AtFields, AtNext DEF Moves

\* Only GMII/MII has a mode to detect.
OneMode == kind # "gmii_mii" => Mode = "GMII"

LEMMA KindFacts ==
    ASSUME kind \in AllPinKinds, OneMode
    PROVE  /\ kind \in RgmiiKinds => PartsPerByte = 2 /\ Cycles = 1 /\ ~Narrow
           /\ kind \notin RgmiiKinds => PartsPerByte = Cycles
           /\ kind \notin {"mii", "rmii", "gmii_mii"} => ~Narrow
           /\ kind \in {"mii", "rmii"} => Narrow
           /\ kind = "rmii" <=> Cycles = 4
           /\ kind = "mii" => Cycles = 2
           /\ kind = "gmii_mii" => Cycles = IF Narrow THEN 2 ELSE 1
<1>1. kind \notin {"mii", "rmii", "gmii_mii"} => ~Narrow
  BY DEF OneMode, Narrow
<1>2. kind \in RgmiiKinds => kind \notin {"mii", "rmii", "gmii_mii"}
  BY DEF RgmiiKinds
<1>3. QED
  BY <1>1, <1>2 DEF Narrow, PartsPerByte, Cycles

\* What the transmitter drives is the frame's part at its place.
LEMMA Drives ==
    ASSUME SendInv, OneMode, SendsByte PROVE DrivenPads = Item(At, At.place)
<1>0. PICK c \in {1, 2, 4}, f \in Nat \ {0} : c = Cycles /\ f = FrameBytes
  BY SendFields
<1>1. PICK i \in 1 .. f, m \in 0 .. c - 1 : c = Cycles /\ f = FrameBytes /\ i = send.i /\ m = Part
  BY <1>0, SendPlace
<1>2. PICK n \in Nat : n = (i - 1) * c + m
  OBVIOUS
<1>3. At.place = n /\ At.tag = send.tag /\ At.size = f * c /\ At.cycles = c /\ At.kind = kind
  BY <1>1, <1>2, SendPlace, AtFields
<1>4. n \in 0 .. f * c - 1 /\ n \div c = i - 1 /\ n % c = m
  BY <1>2, PlaceBounds
<1>5. Item(At, n) = [dv   |-> TRUE,
                     data |-> IF kind \in RgmiiKinds THEN << << send.tag, n + 1, 1 >>, << send.tag, n + 1, 2 >> >>
                              ELSE << << send.tag, n \div c + 1, (n % c) + 1 >> >>]
  BY <1>3, <1>4, Zenon DEF Item
<1>6. kind \in AllPinKinds
  BY DEF SendInv
<1>7. CASE kind \in RgmiiKinds
  <2>1. c = 1 /\ m = 0 /\ n + 1 = i /\ PartsPerByte = 2
    BY <1>1, <1>2, <1>6, <1>7, KindFacts
  <2>2. SentByte[1] = << send.tag, i, 1 >> /\ SentByte[2] = << send.tag, i, 2 >>
    BY <1>1, <2>1 DEF SentByte, ByteParts
  <2>3. DrivenPads = OutputCells(TRUE, SentByte)
    <3>1. SendsByte = TRUE
      BY DEF SendsByte
    <3>2. DrivenPads = OutputCells(SendsByte, SentByte)
      BY <1>7 DEF DrivenPads, RgmiiKinds, SevenSeriesPads, UltraScalePads, Ecp5Pads, Spartan6Pads, AlteraPads
    <3>3. QED
      BY <3>1, <3>2
  <2>4. DrivenPads = [dv |-> TRUE, data |-> << << send.tag, i, 1 >>, << send.tag, i, 2 >> >>]
    BY <2>2, <2>3, Zenon DEF OutputCells
  <2>5. QED
    BY <1>3, <1>5, <1>7, <2>1, <2>4, Zenon
<1>8. CASE kind \notin RgmiiKinds
  <2>1. DrivenPads = [dv |-> TRUE, data |-> << << send.tag, i, m + 1 >> >>]
    <3>1. SendsByte = TRUE
      BY DEF SendsByte
    <3>2. CASE Narrow
      <4>1. m + 1 = send.mux
        BY <1>1, <3>2, SendFields DEF Part
      <4>2. DrivenPads = NarrowPads
        BY <1>6, <1>8, <3>2, KindFacts DEF DrivenPads, RgmiiKinds
      <4>3. QED
        BY <1>1, <3>1, <4>1, <4>2, Zenon DEF NarrowPads
    <3>3. CASE ~Narrow
      <4>1. m + 1 = 1
        BY <1>1, <3>3 DEF Part
      <4>2. DrivenPads = WidePads
        BY <1>8, <3>3 DEF DrivenPads, RgmiiKinds, ModelPads
      <4>3. QED
        BY <1>1, <3>1, <4>1, <4>2, Zenon DEF WidePads
    <3>4. QED
      BY <3>2, <3>3
  <2>2. n \div c + 1 = i /\ (n % c) + 1 = m + 1
    BY <1>4
  <2>3. QED
    BY <1>3, <1>5, <1>8, <2>1, <2>2, Zenon
<1>9. QED
  BY <1>7, <1>8

LEMMA DrivesIt == ASSUME SendInv, OneMode, whole \in BOOLEAN, Known(At, 0) PROVE DrivenPads = It(At, 0)
<1>1. CASE SendsByte
  <2>1. whole
    BY <1>1, AtFields DEF Known
  <2>2. At.place - 0 = At.place /\ At.followed
    BY <2>1, AtPlaced, AtFields DEF Placed
  <2>3. QED
    BY <1>1, <2>2, Drives, Zenon DEF It
<1>2. CASE ~SendsByte
  <2>1. DrivenPads = Silence
    <3>1. DrivenPads \in {OutputCells(SendsByte, SentByte), ModelPads, NarrowPads, WidePads}
      BY DEF DrivenPads, SevenSeriesPads, UltraScalePads, Ecp5Pads, Spartan6Pads, AlteraPads
    <3>2. SendsByte = FALSE
      BY <1>2 DEF SendsByte
    <3>3. QED
      BY <3>1, <3>2, Zenon DEF OutputCells, ModelPads, NarrowPads, WidePads, Silence
  <2>2. It(At, 0) = Silence
    <3>1. At.idle # -1 /\ Placed(At)
      BY <1>2, AtPlaced, AtFields, SendFields
    <3>2. At.place - 0 \in Int /\ At.size \in Nat /\ At.place - 0 >= At.size
      BY <3>1 DEF Placed
    <3>3. QED
      BY <3>2, ItemSilent DEF It
  <2>3. QED
    BY <2>1, <2>2
<1>3. QED
  BY <1>1, <1>2

LEMMA IdleIt ==
    ASSUME NEW a, Placed(a), NEW d \in Nat, a.idle >= d PROVE It(a, d) = Silence
<1>1. a.place - d \in Int /\ a.size \in Nat /\ a.place - d >= a.size
  <2>1. a.idle \in Int /\ a.idle # -1 /\ a.size \in Nat /\ a.place \in Nat
    BY PinConstants DEF Placed
  <2>2. a.place = a.size + a.idle
    BY <2>1 DEF Placed
  <2>3. QED
    BY <2>1, <2>2
<1>2. QED
  BY <1>1, ItemSilent DEF It

\* The wire is a shift register.
LEMMA WireShifts ==
    ASSUME NEW w, NEW x, NEW n \in Nat \ {0}, w = [j \in 1 .. n |-> w[j]]
    PROVE  LET v == SubSeq(<< x >> \o w, 1, n)
           IN  v = [j \in 1 .. n |-> v[j]] /\ v[1] = x /\ \A j \in 2 .. n : v[j] = w[j - 1]
<1> DEFINE S == {x} \cup {w[j] : j \in 1 .. n}
           l == << x >> \o w
<1>1. w \in Seq(S) /\ Len(w) = n
  <2>1. w \in [1 .. n -> S]
    OBVIOUS
  <2> HIDE DEF S
  <2>2. w \in Seq(S)
    BY <2>1
  <2>3. Len(w) = n
    BY <2>2, LenProperties, <2>1
  <2>4. QED
    BY <2>2, <2>3
<1>2. << x >> \in Seq(S) /\ Len(<< x >>) = 1 /\ << x >>[1] = x
  OBVIOUS
<1> HIDE DEF S
<1>3. l \in Seq(S) /\ Len(l) = n + 1 /\ l[1] = x /\ \A j \in 2 .. n + 1 : l[j] = w[j - 1]
  BY <1>1, <1>2, ConcatProperties
<1> HIDE DEF l
<1>4. /\ SubSeq(l, 1, n) = [j \in 1 .. n |-> SubSeq(l, 1, n)[j]]
      /\ \A j \in 1 .. n : SubSeq(l, 1, n)[j] = l[j]
  BY <1>3
<1>5. QED
  BY <1>3, <1>4 DEF l

PlaceTyped == OneMode /\ whole \in BOOLEAN

\* One cycle of the pins.
PinCycle == PinInv /\ PinInv' /\ PlaceTyped /\ PlaceTyped' /\ PinNext

LEMMA CycleMoves == ASSUME PinCycle PROVE Moves(At, At')
<1>1. SendInv /\ SendInv' /\ whole \in BOOLEAN /\ whole' \in BOOLEAN /\ PinNext
  BY DEF PinCycle, PinInv, PlaceTyped
<1>2. QED
  BY <1>1, AtMoves

LEMMA CycleShifts ==
    ASSUME PinCycle, NEW d \in Nat, d < MinGap, Known(At', d + 1)
    PROVE  Known(At, d) /\ It(At', d + 1) = It(At, d)
<1>1. PICK a, b : a = At /\ b = At'
  OBVIOUS
<1>2. Moves(a, b) /\ Known(b, d + 1)
  BY <1>1, CycleMoves
<1>3. Known(a, d) /\ It(b, d + 1) = It(a, d)
  BY <1>2, ShiftIt
<1>4. QED
  BY <1>1, <1>3

LEMMA PadsStep ==
    ASSUME PinCycle
    PROVE  /\ At'.idle >= 1 => \A m \in Modes : txPads'[m] = Silence
           /\ Known(At', 1) => txPads'[Mode'] = It(At', 1)
<1>1. /\ txPads' = [m \in Modes |-> IF m = Mode THEN DrivenPads ELSE Silence]
      /\ Mode \in Modes /\ Mode' \in Modes /\ 0 \in Nat /\ 0 < MinGap /\ 0 + 1 = 1
      /\ SendInv /\ OneMode /\ whole \in BOOLEAN
  BY PinConstants DEF PinCycle, PinNext, PinInv, SendInv, PlaceTyped
<1>2. Known(At', 1) => Known(At, 0) /\ It(At', 1) = It(At, 0) /\ DrivenPads = It(At, 0)
  BY <1>1, CycleShifts, DrivesIt
<1>3. At'.idle >= 1 => DrivenPads = Silence /\ It(At', 1) = Silence
  <2>1. SUFFICES ASSUME At'.idle >= 1 PROVE DrivenPads = Silence /\ It(At', 1) = Silence
    OBVIOUS
  <2>2. PICK b : b = At' /\ Placed(b) /\ b.idle >= 1
    BY <2>1, CycleMoves DEF Moves
  <2>3. Known(b, 1) /\ It(b, 1) = Silence
    BY <2>2, IdleIt DEF Known
  <2>4. QED
    BY <1>2, <2>2, <2>3
<1>4. At'.idle >= 1 => \A m \in Modes : txPads'[m] = Silence
  BY <1>1, <1>3
<1>5. Known(At', 1) => txPads'[Mode'] = It(At', 1)
  <2>1. CASE whole'
    <3>1. Mode' = Mode
      BY <2>1, ModeStays DEF PinCycle
    <3>2. QED
      BY <1>1, <1>2, <3>1
  <2>2. CASE ~whole'
    <3>1. Known(At', 1) => At'.idle >= 1
      BY <2>2, AtNext DEF Known
    <3>2. QED
      BY <1>1, <1>3, <1>4, <3>1
  <2>3. QED
    BY <2>1, <2>2
<1>6. QED
  BY <1>4, <1>5

LEMMA WiresStep == ASSUME EnoughGap, PinCycle, WiresAt(At) PROVE WiresAt(At)'
<1>1. PICK n, l : n = WireLength /\ n \in Nat \ {0} /\ l = MinGap /\ l \in Nat /\ n < l
  BY PinConstants DEF WireLength, EnoughGap
<1>2. WireLength' = n
  BY <1>1 DEF WireLength, PinCycle, PinNext
<1>3. /\ wire = [j \in 1 .. n |-> wire[j]] /\ txPads = [m \in Modes |-> txPads[m]]
      /\ Known(At, 1) => txPads[Mode] = It(At, 1)
      /\ \A j \in 1 .. n : Known(At, j + 1) => wire[j] = It(At, j + 1)
  BY <1>1 DEF WiresAt
<1>4. /\ wire' = [j \in 1 .. n |-> wire'[j]] /\ wire'[1] = txPads[Mode]
      /\ \A j \in 2 .. n : wire'[j] = wire[j - 1]
  <2>1. PICK x : x = txPads[Mode]
    OBVIOUS
  <2>2. wire' = SubSeq(<< x >> \o wire, 1, n)
    BY <1>1, <2>1 DEF PinCycle, PinNext, WireNext
  <2>3. QED
    BY <1>1, <1>3, <2>1, <2>2, WireShifts
<1>5. ASSUME NEW j \in 1 .. n, Known(At', j + 1) PROVE wire'[j] = It(At', j + 1)
  <2>1. j \in Nat /\ j < MinGap /\ 1 <= j /\ j <= n
    BY <1>1, <1>5
  <2>2. Known(At, j) /\ It(At', j + 1) = It(At, j)
    BY <1>5, <2>1, CycleShifts
  <2>3. CASE j = 1
    BY <1>3, <1>4, <2>2, <2>3
  <2>4. CASE j # 1
    <3>1. PICK k \in 1 .. n : j = k + 1 /\ k = j - 1 /\ j \in 2 .. n
      BY <1>1, <2>1, <2>4
    <3>2. wire'[j] = wire[k]
      BY <1>4, <3>1
    <3>3. wire[k] = It(At, k + 1)
      BY <1>3, <2>2, <3>1
    <3>4. QED
      BY <2>2, <3>1, <3>2, <3>3
  <2>5. QED
    BY <2>3, <2>4
<1>6. txPads' = [m \in Modes |-> txPads'[m]]
  BY DEF PinCycle, PinNext
<1>7. QED
  BY <1>2, <1>4, <1>5, <1>6, PadsStep DEF WiresAt

\* What a cycle starts from.
PlaceCycle == EnoughGap /\ PinCycle /\ WiresAt(At) /\ (whole => hwReset = 0)

LEMMA CycleFacts ==
    ASSUME PlaceCycle
    PROVE  /\ EnoughGap /\ PinCycle /\ WiresAt(At) /\ kind \in AllPinKinds /\ hwReset \in Nat /\ DOMAIN recv = Fields
           /\ kind' = kind /\ At.kind = kind /\ At'.kind = kind /\ At.followed = whole /\ At'.followed = whole'
           /\ whole \in BOOLEAN /\ whole' \in BOOLEAN /\ Placed(At) /\ Placed(At') /\ MinGap \in Nat /\ MinGap >= 9
<1>1. kind \in AllPinKinds /\ hwReset \in Nat /\ DOMAIN recv = Fields /\ kind' = kind
  BY DEF PlaceCycle, PinCycle, PinInv, SendInv, RecvOK, PinNext
<1>2. At.kind = kind /\ At'.kind = kind /\ At.followed = whole /\ At'.followed = whole'
  BY <1>1, AtFields, AtNext
<1>3. Placed(At) /\ Placed(At')
  BY CycleMoves DEF PlaceCycle, Moves
<1>4. MinGap \in Nat /\ MinGap >= 9
  BY PinConstants DEF PlaceCycle, EnoughGap
<1>5. QED
  BY <1>1, <1>2, <1>3, <1>4 DEF PlaceCycle, PinCycle, PlaceTyped

LEMMA ResetUnfollowed == ASSUME PlaceCycle, hwReset > 0 PROVE whole' = FALSE /\ At'.followed = FALSE
<1>1. hwReset # 0 /\ whole' \in BOOLEAN /\ whole \in BOOLEAN /\ PinNext
  BY CycleFacts DEF PinCycle
<1>2. ~whole
  BY <1>1 DEF PlaceCycle
<1>3. ~whole'
  BY <1>1, <1>2, ModeStays
<1>4. QED
  BY <1>1, <1>3, CycleFacts

LEMMA KeptShift ==
    ASSUME PlaceCycle, NEW d \in Nat, d < 9, NEW dv, NEW data, Kept(At, d, dv, data)
    PROVE  Kept(At', d + 1, dv, data)
<1>1. d < MinGap /\ PinCycle
  BY CycleFacts
<1>2. Known(At', d + 1) => Known(At, d) /\ It(At', d + 1) = It(At, d)
  BY <1>1, CycleShifts
<1>3. QED
  BY <1>2 DEF Kept

LEMMA KeptReset ==
    ASSUME NEW a, a.followed = FALSE, NEW d PROVE Kept(a, d, FALSE, << >>) /\ It(a, d) = Silence
  BY DEF Kept, It, Silence

\* What the pads see was on the transmitter's registers a cycle before.
LEMMA PadsIt == ASSUME PlaceCycle, kind # "rmii" PROVE Known(At, 2) => RxPads = It(At, 2)
<1>1. WireLength = 1
  BY DEF WireLength
<1>2. Known(At, 1 + 1) => wire[1] = It(At, 1 + 1)
  BY <1>1, CycleFacts DEF WiresAt
<1>3. QED
  BY <1>1, <1>2 DEF RxPads, Oldest

LEMMA PadsKept == ASSUME PlaceCycle, kind # "rmii" PROVE Kept(At, 2, RxPads.dv, RxPads.data)
  BY PadsIt DEF Kept

\* What the receiver does, but for the dibit RMII waits for.
LEMMA RecvCycle ==
    ASSUME PlaceCycle
    PROVE  \E mark : recv' = RecvNext(RxPads, mark)
  BY CycleFacts DEF PinCycle, PinNext

LEMMA GmiiAt ==
    ASSUME PlaceCycle, kind \in {"gmii", "model"}, Kept(At, 3, recv.valid, recv.data)
    PROVE  Kept(At', 3, recv'.valid, recv'.data)
<1>1. PICK mark : recv' = RecvNext(RxPads, mark)
  BY RecvCycle
<1>2. CASE hwReset > 0
  <2>1. recv' = RecvReset
    BY <1>1, <1>2 DEF RecvNext, HeldInReset, RgmiiKinds
  <2>2. recv'.valid = FALSE /\ recv'.data = << >>
    BY <2>1 DEF RecvReset
  <2>3. QED
    BY <1>2, <2>2, ResetUnfollowed, KeptReset
<1>3. CASE hwReset = 0
  <2>1. recv' = GmiiRx(recv, RxPads)
    BY <1>1, <1>3 DEF RecvNext, GmiiRx, ModelRx
  <2>2. recv'.valid = RxPads.dv /\ recv'.data = RxPads.data
    BY <2>1, CycleFacts DEF GmiiRx, Fields
  <2>3. Kept(At', 2 + 1, RxPads.dv, RxPads.data)
    BY PadsKept, KeptShift
  <2>4. QED
    BY <2>2, <2>3
<1>4. QED
  BY <1>2, <1>3, CycleFacts

LEMMA InputAt ==
    ASSUME PlaceCycle, kind \in {"s7rgmii", "usrgmii", "ecp5rgmii"}
    PROVE  /\ Kept(At', 3, recv'.pads.dv, recv'.pads.data)
           /\ hwReset > 0 => recv'.valid = FALSE /\ recv'.data = << >> /\ recv'.pads_d = Silence
           /\ hwReset = 0 /\ kind # "ecp5rgmii" => recv'.valid = recv.pads.dv /\ recv'.data = recv.pads.data
           /\ hwReset = 0 /\ kind = "ecp5rgmii" =>
                recv'.pads_d = recv.pads /\ recv'.valid = recv.pads_d.dv /\ recv'.data = recv.pads_d.data
<1>1. PICK mark : recv' = RecvNext(RxPads, mark)
  BY RecvCycle
<1>2. /\ recv'.pads = RxPads
      /\ hwReset > 0 => recv'.valid = FALSE /\ recv'.data = << >> /\ recv'.pads_d = Silence
      /\ hwReset = 0 /\ kind # "ecp5rgmii" => recv'.valid = recv.pads.dv /\ recv'.data = recv.pads.data
      /\ hwReset = 0 /\ kind = "ecp5rgmii" =>
           recv'.pads_d = recv.pads /\ recv'.valid = recv.pads_d.dv /\ recv'.data = recv.pads_d.data
  <2>1. ~Lagging /\ LagReset = Silence /\ kind \in RgmiiKinds
    BY DEF Lagging, LagReset, RgmiiKinds
  <2>2. CASE hwReset > 0
    <3>1. recv' = HeldInReset(RxPads)
      BY <1>1, <2>2 DEF RecvNext
    <3>2. HeldInReset(RxPads) = DdrInput([RecvReset EXCEPT !.fall = recv.fall], RxPads)
      BY <2>1 DEF HeldInReset
    <3>3. recv' = [[RecvReset EXCEPT !.fall = recv.fall] EXCEPT !.pads = RxPads]
      BY <2>1, <3>1, <3>2, Zenon DEF DdrInput
    <3>4. recv'.pads = RxPads /\ recv'.valid = FALSE /\ recv'.data = << >> /\ recv'.pads_d = LagReset
      BY <3>3 DEF RecvReset
    <3>5. ~(hwReset = 0)
      BY <2>2
    <3>6. QED
      BY <2>1, <3>4, <3>5
  <2>3. CASE hwReset = 0 /\ kind # "ecp5rgmii"
    <3>1. recv' = [[recv EXCEPT !.pads = RxPads] EXCEPT !.valid = recv.pads.dv, !.data = recv.pads.data]
      BY <1>1, <2>1, <2>3 DEF RecvNext, SevenSeriesRx, UltraScaleRx, DdrInput
    <3>2. QED
      BY <2>3, <3>1, CycleFacts DEF Fields
  <2>4. CASE hwReset = 0 /\ kind = "ecp5rgmii"
    <3>1. recv' = [[recv EXCEPT !.pads = RxPads]
                     EXCEPT !.pads_d = recv.pads, !.valid = recv.pads_d.dv, !.data = recv.pads_d.data]
      BY <1>1, <2>1, <2>4 DEF RecvNext, Ecp5Rx, DdrInput
    <3>2. QED
      BY <2>4, <3>1, CycleFacts DEF Fields
  <2>5. hwReset > 0 \/ (hwReset = 0 /\ kind # "ecp5rgmii") \/ (hwReset = 0 /\ kind = "ecp5rgmii")
    BY CycleFacts
  <2>6. QED
    BY <2>2, <2>3, <2>4, <2>5, Zenon
<1>3. Kept(At', 2 + 1, RxPads.dv, RxPads.data)
  BY PadsKept, KeptShift
<1>4. QED
  BY <1>2, <1>3

LEMMA SevenSeriesAt ==
    ASSUME PlaceCycle, kind \in {"s7rgmii", "usrgmii"}, Kept(At, 3, recv.pads.dv, recv.pads.data)
    PROVE  Kept(At', 3, recv'.pads.dv, recv'.pads.data) /\ Kept(At', 4, recv'.valid, recv'.data)
<1>1. CASE hwReset > 0
  BY <1>1, InputAt, ResetUnfollowed, KeptReset
<1>2. CASE hwReset = 0
  <2>1. Kept(At', 3 + 1, recv.pads.dv, recv.pads.data)
    BY KeptShift
  <2>2. QED
    BY <1>2, <2>1, InputAt
<1>3. QED
  BY <1>1, <1>2, CycleFacts

LEMMA Ecp5At ==
    ASSUME PlaceCycle, kind = "ecp5rgmii", Kept(At, 3, recv.pads.dv, recv.pads.data),
           Kept(At, 4, recv.pads_d.dv, recv.pads_d.data)
    PROVE  /\ Kept(At', 3, recv'.pads.dv, recv'.pads.data) /\ Kept(At', 4, recv'.pads_d.dv, recv'.pads_d.data)
           /\ Kept(At', 5, recv'.valid, recv'.data)
<1>1. CASE hwReset > 0
  <2>1. recv'.pads_d.dv = FALSE /\ recv'.pads_d.data = << >> /\ recv'.valid = FALSE /\ recv'.data = << >>
    <3>1. recv'.pads_d = Silence /\ recv'.valid = FALSE /\ recv'.data = << >>
      BY <1>1, InputAt
    <3>2. Silence.dv = FALSE /\ Silence.data = << >>
      BY DEF Silence
    <3>3. QED
      BY <3>1, <3>2
  <2>2. QED
    BY <1>1, <2>1, InputAt, ResetUnfollowed, KeptReset
<1>2. CASE hwReset = 0
  <2>1. Kept(At', 3 + 1, recv.pads.dv, recv.pads.data) /\ Kept(At', 4 + 1, recv.pads_d.dv, recv.pads_d.data)
    BY KeptShift
  <2>2. QED
    BY <1>2, <2>1, InputAt
<1>3. QED
  BY <1>1, <1>2, CycleFacts

\* Both nibbles of what is on RGMII's pads, one after the other.
LEMMA NibblesJoin ==
    ASSUME NEW a, a.kind \in RgmiiKinds, NEW d
    PROVE  Nibble(It(a, d).data, 1) \o Nibble(It(a, d).data, 2) = It(a, d).data
<1>1. ASSUME NEW x, NEW y PROVE Nibble(<< x, y >>, 1) \o Nibble(<< x, y >>, 2) = << x, y >>
  <2>1. << x, y >> # << >> /\ << x, y >>[1] = x /\ << x, y >>[2] = y
    OBVIOUS
  <2>2. Nibble(<< x, y >>, 1) = << x >> /\ Nibble(<< x, y >>, 2) = << y >>
    BY <2>1 DEF Nibble
  <2>3. << x >> \o << y >> = << x, y >>
    <3> DEFINE S == {x, y}
               l == << x >> \o << y >>
    <3>1. << x >> \in Seq(S) /\ << y >> \in Seq(S) /\ << x, y >> \in Seq(S) /\ Len(<< x >>) = 1 /\ Len(<< y >>) = 1
      OBVIOUS
    <3> HIDE DEF S
    <3>2. l \in Seq(S) /\ Len(l) = 2 /\ l[1] = x /\ l[2] = y
      BY <3>1, ConcatProperties
    <3> HIDE DEF l
    <3>3. Len(<< x, y >>) = 2 /\ \A i \in 1 .. 2 : l[i] = << x, y >>[i]
      BY <3>2
    <3>4. l = << x, y >>
      BY <3>1, <3>2, <3>3, SeqEqual
    <3>5. QED
      BY <3>4 DEF l
  <2>4. QED
    BY <2>2, <2>3
<1>2. Nibble(<< >>, 1) \o Nibble(<< >>, 2) = << >>
  <2>1. Nibble(<< >>, 1) = << >> /\ Nibble(<< >>, 2) = << >> /\ << >> \o << >> = << >>
    BY DEF Nibble
  <2>2. QED
    BY <2>1
<1>3. PICK n : n = a.place - d
  OBVIOUS
<1>4. CASE a.followed /\ n \in 0 .. a.size - 1
  <2>1. It(a, d) = [dv |-> TRUE, data |-> << << a.tag, n + 1, 1 >>, << a.tag, n + 1, 2 >> >>]
    BY <1>3, <1>4, Zenon DEF It, Item
  <2>2. It(a, d).data = << << a.tag, n + 1, 1 >>, << a.tag, n + 1, 2 >> >>
    BY <2>1
  <2>3. QED
    BY <1>1, <2>2
<1>5. CASE ~(a.followed /\ n \in 0 .. a.size - 1)
  <2>1. It(a, d) = Silence
    BY <1>3, <1>5, Zenon DEF It, Item
  <2>2. It(a, d).data = << >>
    BY <2>1 DEF Silence
  <2>3. QED
    BY <1>2, <2>2
<1>6. QED
  BY <1>4, <1>5

LEMMA LagCells ==
    ASSUME PlaceCycle, Lagging, recv.reg = << recv.reg[1], recv.reg[2] >>
    PROVE  /\ recv'.pads = [dv |-> RxPads.dv, data |-> << Nibble(RxPads.data, 1), recv.fall >>]
           /\ recv'.fall = Nibble(RxPads.data, 2)
           /\ recv'.reg = << recv'.reg[1], recv'.reg[2] >>
           /\ hwReset > 0 => /\ recv'.valid = FALSE /\ recv'.data = << >> /\ recv'.reg[1] = Empty
                             /\ recv'.pads_d.dv = FALSE /\ recv'.pads_d.data[1] = << >>
           /\ hwReset = 0 => recv'.pads_d = recv.pads
           /\ hwReset = 0 /\ kind = "s6rgmii" =>
                recv'.valid = recv.pads_d.dv /\ recv'.data = recv.pads_d.data[1] \o recv.pads.data[2]
           /\ hwReset = 0 /\ kind = "altera_rgmii" =>
                /\ recv'.valid = recv.reg[1].valid /\ recv'.data = recv.reg[1].data
                /\ recv'.reg[1].valid = recv.pads_d.dv
                /\ recv'.reg[1].data = recv.pads_d.data[1] \o recv.pads.data[2]
<1>1. PICK mark : recv' = RecvNext(RxPads, mark)
  BY RecvCycle
<1> DEFINE cells == [dv |-> RxPads.dv, data |-> << Nibble(RxPads.data, 1), recv.fall >>]
           fall == Nibble(RxPads.data, 2)
<1>2. kind \in {"s6rgmii", "altera_rgmii"} /\ kind \in RgmiiKinds
  BY DEF Lagging, RgmiiKinds
<1>3. CASE hwReset > 0
  <2>1. recv' = DdrInput([RecvReset EXCEPT !.fall = recv.fall], RxPads)
    <3>1. recv' = HeldInReset(RxPads)
      BY <1>1, <1>3 DEF RecvNext
    <3>2. HeldInReset(RxPads) = DdrInput([RecvReset EXCEPT !.fall = recv.fall], RxPads)
      BY <1>2 DEF HeldInReset
    <3>3. QED
      BY <3>1, <3>2
  <2>2. [RecvReset EXCEPT !.fall = recv.fall].fall = recv.fall
    BY DEF RecvReset
  <2>3. recv' = [[RecvReset EXCEPT !.fall = recv.fall] EXCEPT !.pads = cells, !.fall = fall]
    BY <2>1, <2>2, Zenon DEF DdrInput
  <2> HIDE DEF cells, fall
  <2>4. recv'.pads = cells /\ recv'.fall = fall /\ recv'.valid = FALSE /\ recv'.data = << >>
        /\ recv'.pads_d = LagReset /\ recv'.reg = << Empty, Empty >>
    BY <2>3 DEF RecvReset
  <2>5. recv'.pads_d.dv = FALSE /\ recv'.pads_d.data[1] = << >> /\ recv'.reg[1] = Empty
    BY <2>4 DEF LagReset
  <2>6. ~(hwReset = 0) /\ recv'.reg = << recv'.reg[1], recv'.reg[2] >>
    BY <1>3, <2>4
  <2>7. QED
    BY <2>4, <2>5, <2>6 DEF cells, fall
<1>4. CASE hwReset = 0 /\ kind = "s6rgmii"
  <2>1. recv' = [[recv EXCEPT !.pads = cells, !.fall = fall]
                    EXCEPT !.pads_d = recv.pads, !.valid = recv.pads_d.dv, !.data = recv.pads_d.data[1] \o recv.pads.data[2]]
    BY <1>1, <1>4 DEF RecvNext, Spartan6Rx, DdrInput, Lagging
  <2> HIDE DEF cells, fall
  <2>2. /\ recv'.pads = cells /\ recv'.fall = fall /\ recv'.pads_d = recv.pads
        /\ recv'.valid = recv.pads_d.dv /\ recv'.data = recv.pads_d.data[1] \o recv.pads.data[2]
    BY <2>1, CycleFacts DEF Fields
  <2>3. ~(hwReset > 0) /\ kind # "altera_rgmii" /\ recv'.reg = recv.reg
    BY <1>4, <2>1, CycleFacts DEF Fields
  <2>4. QED
    BY <1>4, <2>2, <2>3 DEF cells, fall
<1>5. CASE hwReset = 0 /\ kind = "altera_rgmii"
  <2> DEFINE first == [valid |-> recv.pads_d.dv, data |-> recv.pads_d.data[1] \o recv.pads.data[2]]
  <2>1. recv' = [[recv EXCEPT !.pads = cells, !.fall = fall]
                    EXCEPT !.pads_d = recv.pads, !.reg[1] = first, !.valid = recv.reg[1].valid, !.data = recv.reg[1].data]
    BY <1>1, <1>5 DEF RecvNext, AlteraRx, DdrInput, Lagging
  <2> HIDE DEF cells, fall, first
  <2>2. /\ recv'.pads = cells /\ recv'.fall = fall /\ recv'.pads_d = recv.pads
        /\ recv'.valid = recv.reg[1].valid /\ recv'.data = recv.reg[1].data
        /\ recv'.reg = [recv.reg EXCEPT ![1] = first]
    BY <2>1, CycleFacts DEF Fields
  <2>3. recv'.reg[1] = first /\ recv'.reg = << recv'.reg[1], recv'.reg[2] >>
    BY <2>2
  <2>4. first.valid = recv.pads_d.dv /\ first.data = recv.pads_d.data[1] \o recv.pads.data[2]
    BY DEF first
  <2>5. ~(hwReset > 0) /\ kind # "s6rgmii"
    BY <1>5
  <2>6. QED
    BY <1>5, <2>2, <2>3, <2>4, <2>5 DEF cells, fall
<1>6. hwReset > 0 \/ (hwReset = 0 /\ kind = "s6rgmii") \/ (hwReset = 0 /\ kind = "altera_rgmii")
  BY <1>2, CycleFacts
<1>7. QED
  BY <1>3, <1>4, <1>5, <1>6, Zenon


\* One cycle later one register further.
LEMMA ShiftsOn ==
    ASSUME PlaceCycle, NEW d \in Nat, d < 9
    PROVE  Known(At', d + 1) => Known(At, d) /\ It(At', d + 1) = It(At, d)
<1>1. d < MinGap /\ PinCycle
  BY CycleFacts
<1>2. QED
  BY <1>1, CycleShifts

LEMMA LagStep ==
    ASSUME PlaceCycle, Lagging, LagAt(At), recv.reg = << recv.reg[1], recv.reg[2] >>
    PROVE  LagAt(At)'
<1> DEFINE n == It(At', 3)
           o == It(At', 4)
<1>1. kind # "rmii"
  BY DEF Lagging
<1>2. Known(At', 3) => Known(At, 2) /\ n = It(At, 2) /\ RxPads = n
  <2>1. 2 + 1 = 3
    OBVIOUS
  <2>2. QED
    BY <1>1, <2>1, ShiftsOn, PadsIt
<1>3. Known(At', 4) => Known(At, 3) /\ o = It(At, 3)
  <2>1. 3 + 1 = 4
    OBVIOUS
  <2>2. QED
    BY <2>1, ShiftsOn
<1>4. LagAt(At)' <=>
        /\ Known(At', 3) => /\ recv'.pads.dv = n.dv /\ recv'.pads.data[1] = Nibble(n.data, 1)
                            /\ recv'.fall = Nibble(n.data, 2)
        /\ Known(At', 4) => /\ recv'.pads.data[2] = Nibble(o.data, 2)
                            /\ recv'.pads_d.dv = o.dv /\ recv'.pads_d.data[1] = Nibble(o.data, 1)
  BY DEF LagAt
<1>5. /\ recv'.pads.dv = RxPads.dv /\ recv'.pads.data[1] = Nibble(RxPads.data, 1)
      /\ recv'.pads.data[2] = recv.fall /\ recv'.fall = Nibble(RxPads.data, 2)
  <2>1. /\ recv'.pads = [dv |-> RxPads.dv, data |-> << Nibble(RxPads.data, 1), recv.fall >>]
        /\ recv'.fall = Nibble(RxPads.data, 2)
    BY LagCells, Zenon
  <2>2. PICK x, y, z : x = Nibble(RxPads.data, 1) /\ y = recv.fall /\ z = RxPads.dv
    OBVIOUS
  <2>3. recv'.pads = [dv |-> z, data |-> << x, y >>]
    BY <2>1, <2>2, Zenon
  <2>4. recv'.pads.dv = z /\ recv'.pads.data[1] = x /\ recv'.pads.data[2] = y
    BY <2>3
  <2>5. QED
    BY <2>1, <2>2, <2>4
<1>6. Known(At', 3) => /\ recv'.pads.dv = n.dv /\ recv'.pads.data[1] = Nibble(n.data, 1)
                       /\ recv'.fall = Nibble(n.data, 2)
  BY <1>2, <1>5
<1>7. Known(At', 4) => recv'.pads.data[2] = Nibble(o.data, 2)
  BY <1>3, <1>5 DEF LagAt
<1>8. Known(At', 4) => recv'.pads_d.dv = o.dv /\ recv'.pads_d.data[1] = Nibble(o.data, 1)
  <2>1. CASE hwReset > 0
    <3>1. o = Silence
      BY <2>1, ResetUnfollowed, KeptReset
    <3>2. recv'.pads_d.dv = FALSE /\ recv'.pads_d.data[1] = << >>
      BY <2>1, LagCells
    <3>3. o.dv = FALSE /\ o.data = << >> /\ Nibble(<< >>, 1) = << >>
      BY <3>1 DEF Silence, Nibble
    <3>4. QED
      BY <3>2, <3>3
  <2>2. CASE hwReset = 0
    <3>1. recv'.pads_d = recv.pads
      BY <2>2, LagCells
    <3>2. QED
      BY <1>3, <3>1 DEF LagAt
  <2>3. QED
    BY <2>1, <2>2, CycleFacts
<1>9. QED
  BY <1>4, <1>6, <1>7, <1>8

\* The byte put together from nibbles of two cycles.
LEMMA LagByte ==
    ASSUME PlaceCycle, Lagging, LagAt(At), recv.reg = << recv.reg[1], recv.reg[2] >>, hwReset = 0
    PROVE  Kept(At', 5, recv.pads_d.dv, recv.pads_d.data[1] \o recv.pads.data[2])
<1> DEFINE o == It(At, 4)
<1>1. Known(At', 5) => Known(At, 4) /\ It(At', 5) = o
  <2>1. 4 + 1 = 5
    OBVIOUS
  <2>2. QED
    BY <2>1, ShiftsOn
<1>2. Nibble(o.data, 1) \o Nibble(o.data, 2) = o.data
  <2>1. At.kind \in RgmiiKinds
    BY CycleFacts DEF Lagging, RgmiiKinds
  <2>2. QED
    BY <2>1, NibblesJoin
<1>3. Known(At, 4) => recv.pads_d.dv = o.dv /\ recv.pads_d.data[1] \o recv.pads.data[2] = o.data
  BY <1>2 DEF LagAt
<1>4. QED
  BY <1>1, <1>3 DEF Kept

LEMMA Spartan6At ==
    ASSUME PlaceCycle, kind = "s6rgmii", LagAt(At), recv.reg = << recv.reg[1], recv.reg[2] >>
    PROVE  Kept(At', 5, recv'.valid, recv'.data)
<1>1. Lagging
  BY DEF Lagging
<1>2. CASE hwReset > 0
  BY <1>1, <1>2, LagCells, ResetUnfollowed, KeptReset
<1>3. CASE hwReset = 0
  BY <1>1, <1>3, LagCells, LagByte
<1>4. QED
  BY <1>2, <1>3, CycleFacts

LEMMA AlteraAt ==
    ASSUME PlaceCycle, kind = "altera_rgmii", LagAt(At), recv.reg = << recv.reg[1], recv.reg[2] >>,
           Kept(At, 5, recv.reg[1].valid, recv.reg[1].data)
    PROVE  Kept(At', 5, recv'.reg[1].valid, recv'.reg[1].data) /\ Kept(At', 6, recv'.valid, recv'.data)
<1>1. Lagging
  BY DEF Lagging
<1>2. CASE hwReset > 0
  <2>1. /\ recv'.valid = FALSE /\ recv'.data = << >> /\ recv'.reg[1].valid = FALSE /\ recv'.reg[1].data = << >>
    <3>1. recv'.valid = FALSE /\ recv'.data = << >> /\ recv'.reg[1] = Empty
      BY <1>1, <1>2, LagCells
    <3>2. Empty.valid = FALSE /\ Empty.data = << >>
      BY DEF Empty
    <3>3. QED
      BY <3>1, <3>2
  <2>2. QED
    BY <1>2, <2>1, ResetUnfollowed, KeptReset
<1>3. CASE hwReset = 0
  <2>1. /\ recv'.valid = recv.reg[1].valid /\ recv'.data = recv.reg[1].data
        /\ recv'.reg[1].valid = recv.pads_d.dv /\ recv'.reg[1].data = recv.pads_d.data[1] \o recv.pads.data[2]
    BY <1>1, <1>3, LagCells
  <2>2. Kept(At', 5, recv'.reg[1].valid, recv'.reg[1].data)
    BY <1>1, <1>3, <2>1, LagByte
  <2>3. Kept(At', 5 + 1, recv.reg[1].valid, recv.reg[1].data)
    BY KeptShift
  <2>4. QED
    BY <2>1, <2>2, <2>3
<1>4. QED
  BY <1>2, <1>3, CycleFacts

LEMMA GearFields ==
    ASSUME PlaceCycle, kind = "gearbox", GearTyped
    PROVE  /\ GearTyped'
           /\ gear'.tx_edge = ~gear.tx_edge /\ gear'.rx_edge = ~gear.rx_edge
           /\ gear'.buf[1] = gear.buf[2] /\ gear'.buf[2] = txPads["GMII"]
           /\ gear'.tx_data_half = IF gear.tx_edge THEN gear.buf ELSE gear.tx_data_half
           /\ gear'.bits[1] = gear.bits[2]
           /\ gear'.bits[2] = gear.tx_data_half[IF gear.tx_edge THEN 2 ELSE 1]
           /\ gear'.rx_data_half = IF gear.rx_edge THEN gear.bits ELSE gear.rx_data_half
           /\ hwReset = 0 => gear'.phase_half = 1 - gear.phase_half
           /\ gear'.phase_half_rereg = IF gear.rx_edge THEN gear.phase_half ELSE gear.phase_half_rereg
<1> DEFINE pads == txPads["GMII"]
           reset == hwReset > 0
           half == IF gear.tx_edge THEN gear.buf ELSE gear.tx_data_half
           rxHalf == IF gear.rx_edge THEN gear.bits ELSE gear.rx_data_half
           phase == IF reset THEN 0 ELSE 1 - gear.phase_half
           rereg == IF gear.rx_edge THEN gear.phase_half ELSE gear.phase_half_rereg
           G == {"tx_edge", "rx_edge", "buf", "tx_data_half", "bits", "rx_data_half", "phase_half", "phase_half_rereg"}
<1>1. gear' = [GearPhase(GearTx(Deserialised(gear), pads), reset) EXCEPT !.tx_edge = ~@, !.rx_edge = ~@]
  BY CycleFacts DEF PinCycle, PinNext, GearNext
<1>2. PICK d : d = Deserialised(gear)
  OBVIOUS
<1>3. PICK serial : serial = Serial
  OBVIOUS
<1>4. d = [gear EXCEPT !.bits = << gear.bits[2], serial >>, !.rx_data_half = rxHalf]
  BY <1>2, <1>3 DEF Deserialised
<1> HIDE DEF rxHalf
<1>5. /\ DOMAIN d = G /\ d.bits = << gear.bits[2], serial >> /\ d.rx_data_half = rxHalf
      /\ d.tx_edge = gear.tx_edge /\ d.rx_edge = gear.rx_edge /\ d.buf = gear.buf /\ d.tx_data_half = gear.tx_data_half
      /\ d.phase_half = gear.phase_half /\ d.phase_half_rereg = gear.phase_half_rereg
  BY <1>4 DEF GearTyped
<1>6. PICK t : t = GearTx(d, pads)
  OBVIOUS
<1>7. t = [d EXCEPT !.buf = << gear.buf[2], pads >>, !.tx_data_half = half]
  BY <1>5, <1>6 DEF GearTx
<1> HIDE DEF half, pads
<1>8. /\ DOMAIN t = G /\ t.bits = d.bits /\ t.rx_data_half = rxHalf /\ t.buf = << gear.buf[2], pads >> /\ t.tx_data_half = half
      /\ t.tx_edge = gear.tx_edge /\ t.rx_edge = gear.rx_edge
      /\ t.phase_half = gear.phase_half /\ t.phase_half_rereg = gear.phase_half_rereg
  BY <1>5, <1>7
<1>9. PICK p : p = GearPhase(t, reset)
  OBVIOUS
<1>10. p = [t EXCEPT !.phase_half = phase, !.phase_half_rereg = rereg]
  BY <1>8, <1>9 DEF GearPhase
<1> HIDE DEF phase, rereg
<1>11. /\ DOMAIN p = G /\ p.bits = d.bits /\ p.rx_data_half = rxHalf /\ p.buf = << gear.buf[2], pads >> /\ p.tx_data_half = half
       /\ p.tx_edge = gear.tx_edge /\ p.rx_edge = gear.rx_edge /\ p.phase_half = phase /\ p.phase_half_rereg = rereg
  BY <1>8, <1>10
<1>12. gear' = [p EXCEPT !.tx_edge = ~gear.tx_edge, !.rx_edge = ~gear.rx_edge]
  BY <1>1, <1>2, <1>6, <1>9, <1>11
<1>13. /\ DOMAIN gear' = G /\ gear'.bits = d.bits /\ gear'.rx_data_half = rxHalf /\ gear'.buf = << gear.buf[2], pads >>
       /\ gear'.tx_data_half = half /\ gear'.phase_half = phase /\ gear'.phase_half_rereg = rereg
  BY <1>11, <1>12
<1>14. gear'.tx_edge = ~gear.tx_edge /\ gear'.rx_edge = ~gear.rx_edge
  BY <1>11, <1>12
<1>15. phase \in {0, 1} /\ rereg \in {0, 1} /\ (hwReset = 0 => phase = 1 - gear.phase_half)
  BY DEF phase, rereg, GearTyped
<1>16. GearTyped'
  <2>1. gear'.tx_edge \in BOOLEAN /\ gear'.rx_edge \in BOOLEAN
    BY <1>14, Zenon
  <2>2. QED
    BY <1>13, <1>15, <2>1 DEF GearTyped
<1>17. gear'.bits[1] = gear.bits[2] /\ gear'.bits[2] = serial /\ gear'.buf[1] = gear.buf[2] /\ gear'.buf[2] = pads
  BY <1>5, <1>13
<1>18. serial = gear.tx_data_half[IF gear.tx_edge THEN 2 ELSE 1]
  BY <1>3, Zenon DEF Serial
<1>19. /\ gear'.tx_data_half = half /\ gear'.rx_data_half = rxHalf /\ gear'.phase_half_rereg = rereg
       /\ (hwReset = 0 => gear'.phase_half = 1 - gear.phase_half)
  BY <1>13, <1>15
<1>20. QED
  BY <1>14, <1>16, <1>17, <1>18, <1>19, Zenon DEF half, rxHalf, rereg, pads

LEMMA KnownLess ==
    ASSUME NEW a, Placed(a), NEW d \in Nat, NEW e \in Nat, e <= d, Known(a, d) PROVE Known(a, e)
<1>1. a.idle \in Int
  BY PinConstants DEF Placed
<1>2. QED
  BY <1>1 DEF Known

\* Before a followed frame's first part is through, what is on the way is silence.
LEMMA NotYet ==
    ASSUME NEW a, Placed(a), NEW d \in Nat, a.place < d \/ ~a.followed PROVE It(a, d) = Silence
<1>1. CASE a.followed
  <2>1. a.place - d \in Int /\ a.place - d < 0 /\ a.size \in Nat
    BY <1>1 DEF Placed
  <2>2. QED
    BY <2>1, ItemSilent DEF It
<1>2. CASE ~a.followed
  BY <1>2 DEF It
<1>3. QED
  BY <1>1, <1>2

\* What the gearbox's receiver takes from the pair, whichever half it is.
LEMMA GearSees ==
    ASSUME NEW a, Placed(a), GearAt(a), Known(a, 8) PROVE GearRx = It(a, 7)
<1>1. PICK same : same = (gear.phase_half = gear.phase_half_rereg) /\ same \in BOOLEAN
  OBVIOUS
<1>2. GearRx = gear.rx_data_half[IF same THEN 2 ELSE 1]
  BY <1>1, Zenon DEF GearRx
<1>3. /\ gear.rx_edge \in BOOLEAN /\ Known(a, 7) /\ Known(a, 6)
      /\ a.followed => (gear.rx_edge <=> same) \/ a.place = 0 \/ (a.place = 1 /\ gear.rx_edge)
  <2>1. Known(a, 7) /\ Known(a, 6)
    BY KnownLess
  <2>2. QED
    BY <1>1, <2>1 DEF GearAt, GearTyped, Phased
<1>4. /\ gear.rx_edge => gear.rx_data_half[2] = It(a, 7) /\ gear.rx_data_half[1] = It(a, 8)
      /\ ~gear.rx_edge => gear.rx_data_half[2] = It(a, 6) /\ gear.rx_data_half[1] = It(a, 7)
  BY <1>3 DEF GearAt
<1>5. CASE gear.rx_edge <=> same
  BY <1>2, <1>4, <1>5
<1>6. CASE ~(gear.rx_edge <=> same)
  <2>1. ~a.followed \/ a.place <= 1
    BY <1>3, <1>6
  <2>2. It(a, 6) = Silence /\ It(a, 7) = Silence /\ It(a, 8) = Silence
    BY <2>1, NotYet DEF Placed
  <2>3. QED
    BY <1>2, <1>3, <1>4, <2>2
<1>7. QED
  BY <1>5, <1>6

LEMMA PhaseStep ==
    ASSUME PlaceCycle, kind = "gearbox", GearAt(At), At'.followed
    PROVE  Phased' \/ At'.place = 0 \/ (At'.place = 1 /\ gear'.rx_edge)
<1>1. SUFFICES ASSUME At'.place # 0 PROVE Phased' \/ (At'.place = 1 /\ gear'.rx_edge)
  OBVIOUS
<1>2. hwReset = 0
  BY ResetUnfollowed, CycleFacts
<1>3. PICK x \in BOOLEAN, h \in {0, 1}, r \in {0, 1} :
         x = gear.rx_edge /\ h = gear.phase_half /\ r = gear.phase_half_rereg
  BY DEF GearAt, GearTyped
<1>4. /\ gear'.rx_edge = ~x /\ gear'.phase_half = 1 - h
      /\ gear'.phase_half_rereg = IF x THEN h ELSE r
  BY <1>2, <1>3, GearFields DEF GearAt
<1>5. Phased' <=> (~x <=> 1 - h = IF x THEN h ELSE r)
  BY <1>4 DEF Phased
<1>6. /\ At.followed /\ Placed(At) /\ Placed(At') /\ MinGap \in Nat \ {0}
      /\ At'.place = At.place + 1 \/ (At'.place = At.place /\ At.idle = MinGap /\ At'.idle = MinGap)
  BY <1>1, CycleMoves, CycleFacts, PinConstants DEF Moves
<1>7. (x <=> h = r) \/ At.place = 0 \/ (At.place = 1 /\ x)
  BY <1>3, <1>6 DEF GearAt, Phased
<1>8. At.place = 0 => At'.place = 1
  BY <1>6 DEF Placed
<1>9. CASE (x <=> h = r) \/ x
  BY <1>3, <1>5, <1>9
<1>10. CASE ~x /\ ~(x <=> h = r)
  BY <1>3, <1>4, <1>7, <1>8, <1>10
<1>11. QED
  BY <1>9, <1>10

LEMMA GearStep == ASSUME PlaceCycle, kind = "gearbox", GearAt(At) PROVE GearAt(At)'
<1> DEFINE b == At'
           K(d) == Known(b, d)
           I(d) == It(b, d)
<1>1. ASSUME NEW d \in 0 .. 8 PROVE K(d + 1) => Known(At, d) /\ I(d + 1) = It(At, d)
  BY <1>1, ShiftsOn
<1>2. /\ K(2) => Known(At, 1) /\ I(2) = It(At, 1)
      /\ K(3) => Known(At, 2) /\ I(3) = It(At, 2)
      /\ K(4) => Known(At, 3) /\ I(4) = It(At, 3)
      /\ K(5) => Known(At, 4) /\ I(5) = It(At, 4)
      /\ K(6) => Known(At, 5) /\ I(6) = It(At, 5)
      /\ K(7) => Known(At, 6) /\ I(7) = It(At, 6)
      /\ K(8) => Known(At, 7) /\ I(8) = It(At, 7)
      /\ K(9) => Known(At, 8)
  <2>1. /\ 1 + 1 = 2 /\ 2 + 1 = 3 /\ 3 + 1 = 4 /\ 4 + 1 = 5 /\ 5 + 1 = 6 /\ 6 + 1 = 7 /\ 7 + 1 = 8 /\ 8 + 1 = 9
        /\ {1, 2, 3, 4, 5, 6, 7, 8} \subseteq 0 .. 8
    OBVIOUS
  <2> HIDE DEF K, I
  <2>2. QED
    BY <1>1, <2>1
<1>3. PICK te \in BOOLEAN, re \in BOOLEAN : te = gear.tx_edge /\ re = gear.rx_edge
  BY DEF GearAt, GearTyped
<1> HIDE DEF K, I
<1>4. /\ Known(At, 1) => txPads["GMII"] = It(At, 1)
      /\ Known(At, 2) => gear.buf[2] = It(At, 2)
      /\ Known(At, 3) => gear.buf[1] = It(At, 3)
      /\ te => (Known(At, 4) => gear.tx_data_half[2] = It(At, 4)) /\ (Known(At, 5) => gear.tx_data_half[1] = It(At, 5))
      /\ ~te => (Known(At, 3) => gear.tx_data_half[2] = It(At, 3)) /\ (Known(At, 4) => gear.tx_data_half[1] = It(At, 4))
      /\ Known(At, 5) => gear.bits[2] = It(At, 5)
      /\ Known(At, 6) => gear.bits[1] = It(At, 6)
      /\ re => (Known(At, 7) => gear.rx_data_half[2] = It(At, 7)) /\ (Known(At, 8) => gear.rx_data_half[1] = It(At, 8))
      /\ ~re => (Known(At, 6) => gear.rx_data_half[2] = It(At, 6)) /\ (Known(At, 7) => gear.rx_data_half[1] = It(At, 7))
  <2>1. Known(At, 1) => txPads["GMII"] = It(At, 1)
    <3>1. Mode = "GMII"
      BY CycleFacts DEF PinCycle, PlaceTyped, OneMode
    <3>2. QED
      BY <3>1, CycleFacts DEF WiresAt
  <2>2. QED
    BY <1>3, <2>1 DEF GearAt
<1>5. /\ GearTyped' /\ gear'.tx_edge = ~te /\ gear'.rx_edge = ~re
      /\ gear'.buf[1] = gear.buf[2] /\ gear'.buf[2] = txPads["GMII"]
      /\ te => gear'.tx_data_half = gear.buf /\ gear'.bits[2] = gear.tx_data_half[2]
      /\ ~te => gear'.tx_data_half = gear.tx_data_half /\ gear'.bits[2] = gear.tx_data_half[1]
      /\ gear'.bits[1] = gear.bits[2]
      /\ re => gear'.rx_data_half = gear.bits
      /\ ~re => gear'.rx_data_half = gear.rx_data_half
  <2>1. GearTyped
    BY DEF GearAt
  <2>2. QED
    BY <1>3, <2>1, GearFields
<1>6. /\ K(2) => gear'.buf[2] = I(2)
      /\ K(3) => gear'.buf[1] = I(3)
      /\ K(5) => gear'.bits[2] = I(5)
      /\ K(6) => gear'.bits[1] = I(6)
  BY <1>2, <1>3, <1>4, <1>5
<1>7. LET d == IF gear'.tx_edge THEN 4 ELSE 3
      IN  /\ K(d) => gear'.tx_data_half[2] = I(d)
          /\ K(d + 1) => gear'.tx_data_half[1] = I(d + 1)
  <2>1. CASE te
    <3>1. (K(3) => gear'.tx_data_half[2] = I(3)) /\ (K(4) => gear'.tx_data_half[1] = I(4)) /\ gear'.tx_edge = FALSE
      BY <1>2, <1>4, <1>5, <2>1
    <3>2. QED
      BY <3>1
  <2>2. CASE ~te
    <3>1. (K(4) => gear'.tx_data_half[2] = I(4)) /\ (K(5) => gear'.tx_data_half[1] = I(5)) /\ gear'.tx_edge = TRUE
      BY <1>2, <1>4, <1>5, <2>2
    <3>2. QED
      BY <3>1
  <2>3. QED
    BY <2>1, <2>2
<1>8. LET d == IF gear'.rx_edge THEN 7 ELSE 6
      IN  /\ K(d) => gear'.rx_data_half[2] = I(d)
          /\ K(d + 1) => gear'.rx_data_half[1] = I(d + 1)
  <2>1. CASE re
    <3>1. (K(6) => gear'.rx_data_half[2] = I(6)) /\ (K(7) => gear'.rx_data_half[1] = I(7)) /\ gear'.rx_edge = FALSE
      BY <1>2, <1>4, <1>5, <2>1
    <3>2. QED
      BY <3>1
  <2>2. CASE ~re
    <3>1. (K(7) => gear'.rx_data_half[2] = I(7)) /\ (K(8) => gear'.rx_data_half[1] = I(8)) /\ gear'.rx_edge = TRUE
      BY <1>2, <1>4, <1>5, <2>2
    <3>2. QED
      BY <3>1
  <2>3. QED
    BY <2>1, <2>2
<1>9. b.followed => Phased' \/ b.place = 0 \/ (b.place = 1 /\ gear'.rx_edge)
  BY PhaseStep
<1>10. K(9) => recv'.valid = I(8).dv /\ recv'.data = I(8).data
  <2>1. PICK mark : recv' = RecvNext(RxPads, mark)
    BY RecvCycle
  <2>2. CASE hwReset > 0
    <3>1. recv' = RecvReset
      BY <2>1, <2>2 DEF RecvNext, HeldInReset, RgmiiKinds
    <3>2. recv'.valid = FALSE /\ recv'.data = << >>
      BY <3>1 DEF RecvReset
    <3>3. I(8) = Silence
      BY <2>2, ResetUnfollowed, KeptReset DEF I
    <3>4. Silence.dv = FALSE /\ Silence.data = << >>
      BY DEF Silence
    <3>5. I(8).dv = FALSE /\ I(8).data = << >>
      BY <3>3, <3>4, Zenon
    <3>6. QED
      BY <3>2, <3>5
  <2>3. CASE hwReset = 0
    <3>1. recv' = GearboxRx(recv)
      BY <2>1, <2>3 DEF RecvNext
    <3>2. recv'.valid = GearRx.dv /\ recv'.data = GearRx.data
      BY <3>1, CycleFacts DEF GearboxRx, Fields
    <3>3. K(9) => K(8)
      <4>1. 8 \in Nat /\ 9 \in Nat /\ 8 <= 9 /\ Placed(b)
        BY CycleFacts
      <4>2. QED
        BY <4>1, KnownLess DEF K
    <3>4. Known(At, 8) => GearRx = It(At, 7)
      BY GearSees, CycleFacts
    <3>5. QED
      BY <1>2, <3>2, <3>3, <3>4
  <2>4. QED
    BY <2>2, <2>3, CycleFacts
<1>11. QED
  BY <1>5, <1>6, <1>7, <1>8, <1>9, <1>10 DEF GearAt, K, I

LEMMA OneMorePart ==
    ASSUME NEW t, NEW i, NEW m \in Nat
    PROVE  [p \in 1 .. m |-> << t, i, p >>] \o << << t, i, m + 1 >> >> = [p \in 1 .. m + 1 |-> << t, i, p >>]
<1> DEFINE T(p) == << t, i, p >>
           S == {T(p) : p \in Nat}
           c == [p \in 1 .. m |-> T(p)]
           e == << T(m + 1) >>
           l == [p \in 1 .. m + 1 |-> T(p)]
<1>1. \A p \in Nat : T(p) \in S
  OBVIOUS
<1> HIDE DEF S
<1> HIDE DEF T
<1>2. c \in Seq(S) /\ Len(c) = m /\ \A p \in 1 .. m : c[p] = T(p)
  BY <1>1
<1>3. e \in Seq(S) /\ Len(e) = 1 /\ e[1] = T(m + 1)
  BY <1>1
<1>4. l \in Seq(S) /\ Len(l) = m + 1 /\ \A p \in 1 .. m + 1 : l[p] = T(p)
  BY <1>1
<1> HIDE DEF c, e, l
<1>5. /\ c \o e \in Seq(S) /\ Len(c \o e) = m + 1
      /\ \A p \in 1 .. m + 1 : (c \o e)[p] = IF p <= m THEN c[p] ELSE e[p - m]
  <2>1. /\ c \o e \in Seq(S) /\ Len(c \o e) = Len(c) + Len(e)
        /\ \A p \in 1 .. Len(c) + Len(e) : (c \o e)[p] = IF p <= Len(c) THEN c[p] ELSE e[p - Len(c)]
    BY <1>2, <1>3, ConcatProperties
  <2>2. Len(c) = m /\ Len(e) = 1
    BY <1>2, <1>3
  <2> HIDE <1>2, <1>3
  <2>3. QED
    BY <2>1, <2>2
<1>6. ASSUME NEW p \in 1 .. m + 1 PROVE (c \o e)[p] = l[p]
  <2>1. CASE p <= m
    BY <1>2, <1>4, <1>5, <2>1
  <2>2. CASE p = m + 1
    BY <1>3, <1>4, <1>5, <2>2
  <2>3. p <= m \/ p = m + 1
    OBVIOUS
  <2>4. QED
    BY <2>1, <2>2, <2>3
<1>7. c \o e = l
  BY <1>4, <1>5, <1>6, SeqEqual
<1>8. QED
  BY <1>7 DEF c, e, l, T

LEMMA PlaceParts ==
    ASSUME NEW r \in {2, 4}, NEW f \in Nat \ {0}, NEW n \in 0 .. f * r - 1
    PROVE  /\ f * r \in Nat \ {0} /\ n \div r \in Nat /\ n % r \in 0 .. r - 1
           /\ n = f * r - 1 => n % r = r - 1
           /\ n > 0 /\ n % r > 0 => (n - 1) % r = (n % r) - 1 /\ (n - 1) \div r = n \div r
           /\ n > 0 /\ n % r = 0 => (n - 1) % r = r - 1
<1>1. CASE r = 2
  <2>1. n \in Nat /\ f * 2 \in Nat \ {0}
    BY <1>1
  <2>2. n \div 2 \in Nat /\ n % 2 \in 0 .. 1
    BY <2>1
  <2>3. n = f * 2 - 1 => n % 2 = 1
    BY <2>1
  <2>4. /\ n > 0 /\ n % 2 > 0 => (n - 1) % 2 = (n % 2) - 1 /\ (n - 1) \div 2 = n \div 2
        /\ n > 0 /\ n % 2 = 0 => (n - 1) % 2 = 1
    BY <2>1
  <2>5. QED
    BY <1>1, <2>1, <2>2, <2>3, <2>4
<1>2. CASE r = 4
  <2>1. n \in Nat /\ f * 4 \in Nat \ {0}
    BY <1>2
  <2>2. n \div 4 \in Nat /\ n % 4 \in 0 .. 3
    BY <2>1
  <2>3. n = f * 4 - 1 => n % 4 = 3
    BY <2>1
  <2>4. /\ n > 0 /\ n % 4 > 0 => (n - 1) % 4 = (n % 4) - 1 /\ (n - 1) \div 4 = n \div 4
        /\ n > 0 /\ n % 4 = 0 => (n - 1) % 4 = 3
    BY <2>1
  <2>5. QED
    BY <1>2, <2>1, <2>2, <2>3, <2>4
<1>3. QED
  BY <1>1, <1>2

Converted(a, r, n, last) ==
    ConverterNext(ConvAt(a, n - 1), r, << << a.tag, n \div r + 1, (n % r) + 1 >> >>, TRUE, last)

LEMMA ConvAdds ==
    ASSUME NEW r \in {2, 4}, NEW f \in Nat \ {0}, NEW a, a.followed, a.cycles = r, a.size = f * r,
           NEW n \in 0 .. f * r - 1, NEW last \in BOOLEAN, last <=> n = f * r - 1
    PROVE  Converted(a, r, n, last) = ConvAt(a, n)
<1>1. PICK z, q, m : z = f * r /\ q = n \div r /\ m = n % r
  OBVIOUS
<1>2. /\ z \in Nat \ {0} /\ q \in Nat /\ m \in 0 .. r - 1 /\ n \in 0 .. z - 1
      /\ n = z - 1 => m = r - 1
      /\ n > 0 /\ m > 0 => (n - 1) % r = m - 1 /\ (n - 1) \div r = q
      /\ n > 0 /\ m = 0 => (n - 1) % r = r - 1
      /\ n = 0 => m = 0
  <2>1. n = 0 => n % r = 0
    <3>1. 0 % 2 = 0 /\ 0 % 4 = 0
      OBVIOUS
    <3>2. QED
      BY <3>1
  <2>2. /\ f * r \in Nat \ {0} /\ n \div r \in Nat /\ n % r \in 0 .. r - 1
        /\ n = f * r - 1 => n % r = r - 1
        /\ n > 0 /\ n % r > 0 => (n - 1) % r = (n % r) - 1 /\ (n - 1) \div r = n \div r
        /\ n > 0 /\ n % r = 0 => (n - 1) % r = r - 1
    BY PlaceParts
  <2>3. QED
    BY <1>1, <2>1, <2>2, Zenon
<1>a. m \in Nat
  BY <1>2
<1>b. [p \in 1 .. m |-> << a.tag, q + 1, p >>] \o << << a.tag, q + 1, m + 1 >> >> =
        [p \in 1 .. m + 1 |-> << a.tag, q + 1, p >>]
  BY <1>a, OneMorePart
<1> DEFINE c == ConvAt(a, n - 1)
           part == << << a.tag, q + 1, m + 1 >> >>
           full == m = r - 1
<1>3. c.demux = m /\ c.last = FALSE /\ (m > 0 => c.data = [p \in 1 .. m |-> << a.tag, q + 1, p >>])
  <2>1. CASE n = 0
    <3>1. n - 1 \notin 0 .. a.size - 1
      BY <2>1
    <3>2. c = ConverterReset
      BY <3>1, Zenon DEF ConvAt
    <3>3. QED
      BY <1>2, <2>1, <3>2 DEF ConverterReset
  <2>2. CASE n > 0
    <3>1. n - 1 \in 0 .. a.size - 1 /\ n - 1 # a.size - 1
      BY <1>1, <1>2, <2>2
    <3>2. PICK k, j : k = (n - 1) % r /\ j = (n - 1) \div r
      OBVIOUS
    <3>3. c = [demux |-> (k + 1) % r, data |-> [p \in 1 .. k + 1 |-> << a.tag, j + 1, p >>],
               valid |-> k = r - 1, last |-> n - 1 = a.size - 1]
      BY <3>1, <3>2, Zenon DEF ConvAt
    <3>4. (k + 1) % r = m /\ (m > 0 => k + 1 = m /\ j = q)
      <4>1. CASE m > 0
        <5>1. k + 1 = m /\ j = q /\ m \in 0 .. r - 1
          BY <1>2, <2>2, <3>2, <4>1
        <5>2. m % r = m
          <6>1. CASE r = 2
            BY <5>1, <6>1
          <6>2. CASE r = 4
            BY <5>1, <6>2
          <6>3. QED
            BY <6>1, <6>2
        <5>3. QED
          BY <5>1, <5>2
      <4>2. CASE m = 0
        <5>1. k + 1 = r
          BY <1>2, <2>2, <3>2, <4>2
        <5>2. r % r = 0
          <6>1. 2 % 2 = 0 /\ 4 % 4 = 0
            OBVIOUS
          <6>2. QED
            BY <6>1
        <5>3. QED
          BY <4>2, <5>1, <5>2
      <4>3. QED
        BY <1>2, <4>1, <4>2
    <3>5. c.demux = m /\ c.data = [p \in 1 .. k + 1 |-> << a.tag, j + 1, p >>] /\ c.last = (n - 1 = a.size - 1)
      <4> DEFINE x == [p \in 1 .. k + 1 |-> << a.tag, j + 1, p >>]
                 v == k = r - 1
                 u == n - 1 = a.size - 1
                 e == (k + 1) % r
      <4>1. c = [demux |-> e, data |-> x, valid |-> v, last |-> u]
        BY <3>3
      <4> HIDE DEF x, v, u, e
      <4>2. c.demux = e /\ c.data = x /\ c.last = u
        BY <4>1
      <4>3. e = m
        BY <3>4 DEF e
      <4>4. QED
        BY <4>2, <4>3 DEF x, u
    <3>6. c.last = FALSE
      BY <3>1, <3>5
    <3>7. QED
      BY <3>4, <3>5, <3>6, Zenon
  <2>3. n = 0 \/ n > 0
    BY <1>2
  <2>4. QED
    BY <2>1, <2>2, <2>3, Zenon
<1> HIDE DEF c
<1>4. (IF c.demux = 0 THEN << >> ELSE c.data) \o part = [p \in 1 .. m + 1 |-> << a.tag, q + 1, p >>]
  <2>1. CASE m = 0
    <3>1. [p \in 1 .. m |-> << a.tag, q + 1, p >>] = << >>
      BY <2>1
    <3>2. [p \in 1 .. m |-> << a.tag, q + 1, p >>] \o part = [p \in 1 .. m + 1 |-> << a.tag, q + 1, p >>]
      BY <1>b
    <3>3. QED
      BY <1>3, <2>1, <3>1, <3>2, Zenon
  <2>2. CASE m > 0
    <3>1. (IF c.demux = 0 THEN << >> ELSE c.data) = [p \in 1 .. m |-> << a.tag, q + 1, p >>]
      <4>1. c.demux # 0 /\ c.data = [p \in 1 .. m |-> << a.tag, q + 1, p >>]
        BY <1>a, <1>3, <2>2
      <4>2. QED
        BY <4>1, Zenon
    <3>2. [p \in 1 .. m |-> << a.tag, q + 1, p >>] \o part = [p \in 1 .. m + 1 |-> << a.tag, q + 1, p >>]
      BY <1>b
    <3>3. QED
      BY <3>1, <3>2, Zenon
  <2>3. m = 0 \/ m > 0
    BY <1>a
  <2>4. QED
    BY <2>1, <2>2, <2>3, Zenon
<1>5. (c.demux = r - 1 \/ last) <=> full
  BY <1>1, <1>2, <1>3
<1>6. (IF c.demux = r - 1 \/ last THEN 0 ELSE c.demux + 1) = (m + 1) % r
  <2>1. CASE m = r - 1
    <3>1. m + 1 = r /\ 2 % 2 = 0 /\ 4 % 4 = 0
      BY <1>2, <2>1
    <3>2. QED
      BY <1>5, <2>1, <3>1
  <2>2. CASE m # r - 1
    <3>1. m + 1 \in 0 .. r - 1
      BY <1>2, <2>2
    <3>2. (m + 1) % r = m + 1
      <4>1. CASE r = 2
        BY <3>1, <4>1
      <4>2. CASE r = 4
        BY <3>1, <4>2
      <4>3. QED
        BY <4>1, <4>2
    <3>3. QED
      BY <1>3, <1>5, <2>2, <3>2
  <2>3. QED
    BY <2>1, <2>2
<1>7. (last \/ (~c.valid /\ c.last)) <=> n = a.size - 1
  BY <1>3
<1> DEFINE d1 == IF c.demux = r - 1 \/ last THEN 0 ELSE c.demux + 1
           s1 == (IF c.demux = 0 THEN << >> ELSE c.data) \o part
           v1 == c.demux = r - 1 \/ last
           l1 == last \/ (~c.valid /\ c.last)
<1>8. ConverterNext(c, r, part, TRUE, last) = [demux |-> d1, data |-> s1, valid |-> v1, last |-> l1]
  BY Zenon DEF ConverterNext
<1>9. ConvAt(a, n) = [demux |-> (m + 1) % r, data |-> [p \in 1 .. m + 1 |-> << a.tag, q + 1, p >>],
                      valid |-> full, last |-> n = a.size - 1]
  <2>1. n \in 0 .. a.size - 1
    OBVIOUS
  <2>2. QED
    BY <1>1, <2>1, Zenon DEF ConvAt
<1>10. d1 = (m + 1) % r /\ s1 = [p \in 1 .. m + 1 |-> << a.tag, q + 1, p >>]
  BY <1>4, <1>6
<1>11. v1 = full /\ l1 = (n = a.size - 1)
  <2>1. (v1 <=> full) /\ (l1 <=> n = a.size - 1)
    BY <1>5, <1>7
  <2>2. v1 \in BOOLEAN /\ full \in BOOLEAN /\ l1 \in BOOLEAN /\ (n = a.size - 1) \in BOOLEAN
    BY Zenon
  <2> HIDE DEF v1, full, l1
  <2>3. QED
    BY <2>1, <2>2, Zenon
<1> HIDE DEF d1, s1, v1, l1, full
<1>12. ConverterNext(c, r, part, TRUE, last) = ConvAt(a, n)
  BY <1>8, <1>9, <1>10, <1>11, Zenon
<1>13. QED
  BY <1>1, <1>12, Zenon DEF c, Converted

\* The converter is given the n-th part of a followed frame.
ConvReady(a, r, f, n, last) ==
    /\ r \in {2, 4} /\ f \in Nat \ {0} /\ a.followed /\ a.cycles = r /\ a.size = f * r
    /\ n \in 0 .. f * r - 1 /\ last \in BOOLEAN /\ (last <=> n = f * r - 1)

LEMMA ConvStep ==
    ASSUME NEW a, NEW r, NEW f, NEW n, NEW last, ConvReady(a, r, f, n, last)
    PROVE  Converted(a, r, n, last) = ConvAt(a, n)
  BY ConvAdds DEF ConvReady

LEMMA ConvSame ==
    ASSUME NEW a, NEW b, NEW n, b.followed = a.followed, b.cycles = a.cycles, b.size = a.size, b.tag = a.tag
    PROVE  ConvAt(b, n) = ConvAt(a, n)
  BY Zenon DEF ConvAt

LEMMA ConvOutside ==
    ASSUME NEW a, NEW n, n \notin 0 .. a.size - 1 PROVE ConvAt(a, n) = ConverterReset
  BY Zenon DEF ConvAt

\* A part of a followed frame that is on its way.
LEMMA ItPart ==
    ASSUME NEW a, a.followed, a.kind \notin RgmiiKinds, NEW d, NEW n, n = a.place - d, n \in 0 .. a.size - 1
    PROVE  It(a, d).dv = TRUE /\ It(a, d).data = << << a.tag, n \div a.cycles + 1, (n % a.cycles) + 1 >> >>
<1>1. It(a, d) = [dv |-> TRUE, data |-> << << a.tag, n \div a.cycles + 1, (n % a.cycles) + 1 >> >>]
  BY Zenon DEF It, Item
<1> DEFINE x == << << a.tag, n \div a.cycles + 1, (n % a.cycles) + 1 >> >>
<1>2. It(a, d) = [dv |-> TRUE, data |-> x]
  BY <1>1
<1> HIDE DEF x
<1>3. It(a, d).dv = TRUE /\ It(a, d).data = x
  BY <1>2
<1>4. QED
  BY <1>3 DEF x

LEMMA ItOutside ==
    ASSUME NEW a, Placed(a), NEW d \in Nat, a.place - d \notin 0 .. a.size - 1
    PROVE  It(a, d) = Silence /\ It(a, d).dv = FALSE /\ It(a, d).data = << >>
<1>1. It(a, d) = Silence
  <2>1. a.place - d \in Int /\ a.size \in Nat /\ (a.place - d < 0 \/ a.place - d >= a.size)
    BY DEF Placed
  <2>2. QED
    BY <2>1, ItemSilent DEF It
<1>2. QED
  BY <1>1 DEF Silence

LEMMA ItIdle ==
    ASSUME NEW a, Placed(a), NEW d \in Nat, a.idle >= d
    PROVE  Known(a, d) /\ It(a, d).dv = FALSE /\ It(a, d).data = << >>
<1>1. It(a, d) = Silence
  BY IdleIt
<1>2. QED
  BY <1>1 DEF Silence, Known

LEMMA ResetConvStays ==
    ASSUME NEW r, NEW part, NEW last PROVE ConverterNext(ConverterReset, r, part, FALSE, last) = ConverterReset
<1>1. ConverterNext(ConverterReset, r, part, FALSE, last) =
        [ConverterReset EXCEPT !.valid = FALSE, !.last = ~ConverterReset.valid /\ ConverterReset.last]
  BY Zenon DEF ConverterNext
<1>2. ConverterReset.valid = FALSE /\ ConverterReset.last = FALSE
  BY DEF ConverterReset
<1>3. (~ConverterReset.valid /\ ConverterReset.last) = FALSE
  BY <1>2, Zenon
<1>4. PICK c : c = ConverterReset
  OBVIOUS
<1>5. c = [demux |-> 0, data |-> << >>, valid |-> FALSE, last |-> FALSE]
  BY <1>4 DEF ConverterReset
<1>6. [c EXCEPT !.valid = c.valid, !.last = c.last] = c
  BY <1>5
<1>7. c.valid = FALSE /\ c.last = FALSE
  BY <1>2, <1>4
<1>8. [c EXCEPT !.valid = FALSE, !.last = FALSE] = c
  BY <1>6, <1>7, Zenon
<1>9. QED
  BY <1>1, <1>3, <1>4, <1>8, Zenon

\* A part is through the register when the sender has been idle for so long.
LEMMA PastEnd ==
    ASSUME NEW a, Placed(a), NEW e \in Nat, a.idle >= e PROVE a.place - e \notin 0 .. a.size - 1
<1>1. a.idle \in Int /\ a.size \in Nat /\ a.idle # -1
  BY PinConstants DEF Placed
<1>2. a.place = a.size + a.idle
  BY <1>1 DEF Placed
<1>3. a.place - e >= a.size
  BY <1>1, <1>2
<1>4. QED
  BY <1>1, <1>3

\* What the converter of MII is given.
MiiMoves(s, t, pads) ==
    /\ t.pads = pads /\ t.reset = ~pads.dv /\ t.reg[1].valid = TRUE /\ RegTyped(t)
    /\ t.conv = IF s.reset THEN ConverterReset
                ELSE ConverterNext(s.conv, 2, s.pads.data, s.reg[1].valid, ~pads.dv)

LEMMA MiiQuiet ==
    ASSUME NEW a, Placed(a), NEW d \in {3, 4}, NEW s, NEW t, NEW pads,
           MiiAt(a, d, s), MiiMoves(s, t, pads), Known(a, d), It(a, d).dv = FALSE
    PROVE  t.conv = ConverterReset
<1>1. CASE s.reg[1].valid
  <2>1. s.reset = TRUE
    BY <1>1 DEF MiiAt
  <2>2. QED
    BY <2>1, Zenon DEF MiiMoves
<1>2. CASE ~s.reg[1].valid
  <2>1. s.reg[1].valid = FALSE /\ s.conv = ConverterReset
    BY <1>2 DEF MiiAt
  <2>2. QED
    BY <2>1, ResetConvStays, Zenon DEF MiiMoves
<1>3. QED
  BY <1>1, <1>2

\* The converter puts the next part of a followed frame to the others.
LEMMA MiiGets ==
    ASSUME NEW a, NEW b, Placed(a), Placed(b), a.kind \notin RgmiiKinds, MinGap \in Nat, MinGap >= 9,
           NEW d \in {3, 4}, NEW s, NEW t, NEW pads, MiiAt(a, d, s), MiiMoves(s, t, pads),
           Kept(a, d - 1, pads.dv, pads.data), a.followed, b.followed, a.cycles = 2, b.cycles = 2,
           b.size = a.size, b.tag = a.tag,
           b.place = a.place + 1 \/ (b.place = a.place /\ a.idle = MinGap)
    PROVE  t.conv = ConvAt(b, b.place - (d + 1))
<1>1. PICK n, z, f : n = a.place - d /\ z = a.size /\ f = FrameBytes /\ f \in Nat \ {0}
  BY PinConstants
<1>2. n \in Int /\ z = f * 2 /\ z \in Nat \ {0} /\ a.idle \in Int /\ a.place \in Nat /\ b.place \in Nat
  BY <1>1 DEF Placed
<1>3. CASE n \notin 0 .. z - 1
  <2>1. It(a, d).dv = FALSE /\ Known(a, d)
    <3>1. a.place - d \notin 0 .. a.size - 1 /\ d \in Nat
      BY <1>1, <1>3
    <3>2. QED
      BY <3>1, ItOutside DEF Known
  <2>2. t.conv = ConverterReset
    BY <2>1, MiiQuiet
  <2>3. b.place - (d + 1) \notin 0 .. b.size - 1
    <3>1. CASE b.place = a.place + 1
      BY <1>1, <1>2, <1>3, <3>1
    <3>2. CASE b.place = a.place /\ a.idle = MinGap
      <4>1. a.idle >= d + 1 /\ d + 1 \in Nat
        BY <1>2, <3>2
      <4>2. a.place - (d + 1) \notin 0 .. a.size - 1
        BY <4>1, PastEnd
      <4>3. QED
        BY <3>2, <4>2
    <3>3. QED
      BY <3>1, <3>2
  <2>4. QED
    BY <2>2, <2>3, ConvOutside
<1>4. CASE n \in 0 .. z - 1
  <2>1. b.place = a.place + 1 /\ b.place - (d + 1) = n
    <3>1. ~(b.place = a.place /\ a.idle = MinGap)
      <4>1. SUFFICES ASSUME a.idle = MinGap PROVE FALSE
        OBVIOUS
      <4>2. a.idle >= d /\ d \in Nat
        BY <1>2, <4>1
      <4>3. QED
        BY <1>1, <1>4, <4>2, PastEnd
    <3>2. QED
      BY <1>1, <1>2, <3>1
  <2>2. Known(a, d) /\ Known(a, d - 1)
    BY DEF Known
  <2>3. It(a, d).dv = TRUE /\ It(a, d).data = << << a.tag, n \div 2 + 1, (n % 2) + 1 >> >>
    <3>1. n \in 0 .. a.size - 1
      BY <1>1, <1>4
    <3>2. It(a, d).dv = TRUE /\ It(a, d).data = << << a.tag, n \div a.cycles + 1, (n % a.cycles) + 1 >> >>
      BY <1>1, <3>1, ItPart
    <3>3. QED
      BY <3>2, Zenon
  <2>4. s.reg[1].valid = TRUE /\ s.reset = FALSE /\ s.pads.data = << << a.tag, n \div 2 + 1, (n % 2) + 1 >> >>
    BY <2>2, <2>3 DEF MiiAt, Kept
  <2>5. s.conv = ConvAt(a, n - 1)
    <3>1. a.place - (d + 1) = n - 1
      BY <1>1, <1>2
    <3>2. QED
      BY <3>1 DEF MiiAt
  <2>6. pads.dv = It(a, d - 1).dv /\ d - 1 \in Nat
    BY <2>2 DEF Kept
  <2>7. pads.dv = (n # z - 1)
    <3>1. CASE n = z - 1
      <4>1. a.place - (d - 1) \notin 0 .. a.size - 1
        BY <1>1, <1>2, <3>1
      <4>2. It(a, d - 1).dv = FALSE
        BY <2>6, <4>1, ItOutside
      <4>3. QED
        BY <2>6, <3>1, <4>2
    <3>2. CASE n # z - 1
      <4>1. PICK k : k = a.place - (d - 1) /\ k \in 0 .. a.size - 1
        BY <1>1, <1>2, <1>4, <3>2
      <4>2. It(a, d - 1).dv = TRUE
        BY <4>1, ItPart
      <4>3. QED
        BY <2>6, <3>2, <4>2
    <3>3. QED
      BY <3>1, <3>2
  <2> DEFINE last == ~pads.dv
  <2>8. last \in BOOLEAN /\ (last <=> n = z - 1)
    BY <2>7
  <2>9. t.conv = ConverterNext(ConvAt(a, n - 1), 2, << << a.tag, n \div 2 + 1, (n % 2) + 1 >> >>, TRUE, last)
    BY <2>4, <2>5, Zenon DEF MiiMoves
  <2> HIDE DEF last
  <2>10. ConverterNext(ConvAt(a, n - 1), 2, << << a.tag, n \div 2 + 1, (n % 2) + 1 >> >>, TRUE, last) = ConvAt(a, n)
    <3>1. ConvReady(a, 2, f, n, last)
      BY <1>1, <1>2, <1>4, <2>8 DEF ConvReady
    <3>2. Converted(a, 2, n, last) = ConvAt(a, n)
      BY <3>1, ConvStep
    <3>3. QED
      BY <3>2, Zenon DEF Converted
  <2>11. ConvAt(b, n) = ConvAt(a, n)
    <3>1. a.followed = b.followed
      BY DEF Placed
    <3>2. QED
      BY <3>1, ConvSame
  <2>12. QED
    BY <2>1, <2>9, <2>10, <2>11
<1>5. QED
  BY <1>3, <1>4

LEMMA MiiAtStep ==
    ASSUME PlaceCycle, kind \notin RgmiiKinds, NEW d \in {3, 4}, NEW pads, Kept(At, d - 1, pads.dv, pads.data),
           MiiAt(At, d, recv), NEW t, MiiMoves(recv, t, pads)
    PROVE  MiiAt(At', d, t)
<1> DEFINE b == At'
<1>1. /\ Placed(At) /\ Placed(b) /\ At.kind \notin RgmiiKinds /\ MinGap \in Nat /\ MinGap >= 9
      /\ d \in Nat /\ d - 1 \in Nat /\ d - 1 < 9 /\ (d - 1) + 1 = d
  BY CycleFacts
<1>2. Kept(b, d, pads.dv, pads.data) /\ (Known(b, d) => Known(At, d - 1) /\ It(b, d) = It(At, d - 1))
  <2>1. Kept(b, (d - 1) + 1, pads.dv, pads.data)
    BY <1>1, KeptShift
  <2>2. Known(b, (d - 1) + 1) => Known(At, d - 1) /\ It(b, (d - 1) + 1) = It(At, d - 1)
    BY <1>1, ShiftsOn
  <2>3. QED
    BY <1>1, <2>1, <2>2
<1>3. t.pads = pads /\ t.reset = ~pads.dv
  BY DEF MiiMoves
<1>4. t.reg[1].valid = TRUE /\ RegTyped(t)
  BY DEF MiiMoves
<1>5. Known(b, d) => t.reset = ~It(b, d).dv
  BY <1>2, <1>3 DEF Kept
<1>6. b.idle >= d + 1 => t.conv = ConverterReset
  <2>1. SUFFICES ASSUME b.idle >= d + 1 PROVE t.conv = ConverterReset
    OBVIOUS
  <2>2. At.idle >= d
    <3>1. b.idle <= 0 \/ At.idle = b.idle - 1 \/ (At.idle = MinGap /\ b.idle = MinGap)
      BY CycleMoves, CycleFacts DEF Moves
    <3>2. b.idle \in Int /\ At.idle \in Int
      BY <1>1 DEF Placed
    <3>3. QED
      BY <1>1, <2>1, <3>1, <3>2
  <2>3. Known(At, d) /\ It(At, d).dv = FALSE
    BY <1>1, <2>2, ItIdle
  <2>4. QED
    BY <1>1, <2>3, MiiQuiet
<1>7. b.followed /\ b.cycles = 2 => t.conv = ConvAt(b, b.place - (d + 1))
  <2>1. SUFFICES ASSUME b.followed, b.cycles = 2 PROVE t.conv = ConvAt(b, b.place - (d + 1))
    OBVIOUS
  <2>2. \/ At.idle = MinGap /\ b.place = 0
        \/ /\ At.followed /\ b.cycles = At.cycles /\ b.size = At.size /\ b.tag = At.tag
           /\ b.place = At.place + 1 \/ (b.place = At.place /\ At.idle = MinGap /\ b.idle = MinGap)
    BY <2>1, CycleMoves, CycleFacts DEF Moves
  <2>3. CASE At.idle = MinGap /\ b.place = 0
    <3>1. Known(At, d) /\ It(At, d).dv = FALSE
      <4>1. At.idle >= d
        BY <1>1, <2>3
      <4>2. QED
        BY <1>1, <4>1, ItIdle
    <3>2. t.conv = ConverterReset
      BY <1>1, <3>1, MiiQuiet
    <3>3. b.place - (d + 1) \notin 0 .. b.size - 1
      BY <1>1, <2>3
    <3>4. QED
      BY <3>2, <3>3, ConvOutside
  <2>4. CASE /\ At.followed /\ b.cycles = At.cycles /\ b.size = At.size /\ b.tag = At.tag
             /\ b.place = At.place + 1 \/ (b.place = At.place /\ At.idle = MinGap /\ b.idle = MinGap)
    <3> HIDE DEF b
    <3>1. At.cycles = 2 /\ (b.place = At.place + 1 \/ (b.place = At.place /\ At.idle = MinGap))
      BY <2>1, <2>4
    <3>2. PICK a : a = At
      OBVIOUS
    <3>3. t.conv = ConvAt(b, b.place - (d + 1))
      BY <1>1, <2>1, <2>4, <3>1, <3>2, MiiGets
    <3>4. QED
      BY <3>3
  <2>5. QED
    BY <2>2, <2>3, <2>4
<1>8. QED
  BY <1>2, <1>3, <1>4, <1>5, <1>6, <1>7 DEF MiiAt

LEMMA MiiResetAt ==
    ASSUME NEW a, a.followed = FALSE, NEW d, NEW t, t.pads = Silence, t.reg = << Empty, Empty >>, t.conv = ConverterReset
    PROVE  MiiAt(a, d, t)
<1>1. t.reg[1].valid = FALSE /\ RegTyped(t)
  BY DEF Empty, RegTyped
<1>2. t.pads.dv = FALSE /\ t.pads.data = << >>
  BY DEF Silence
<1>3. QED
  BY <1>1, <1>2, KeptReset DEF MiiAt

LEMMA MiiRxMoves ==
    ASSUME NEW s, NEW pads, DOMAIN s = Fields,
           RegTyped(s)
    PROVE  LET t == MiiRx(s, pads) IN MiiMoves(s, t, pads) /\ DOMAIN t = Fields
<1> DEFINE conv == IF s.reset THEN ConverterReset
                   ELSE ConverterNext(s.conv, 2, s.pads.data, s.reg[1].valid, ~pads.dv)
           reset == ~pads.dv
           t == MiiRx(s, pads)
<1>1. t = [s EXCEPT !.pads = pads, !.reset = reset, !.reg[1].valid = TRUE, !.conv = conv]
  BY DEF MiiRx
<1> HIDE DEF conv, reset
<1> HIDE DEF t
<1>4. /\ t.pads = pads /\ t.reset = reset /\ t.conv = conv /\ DOMAIN t = Fields
      /\ t.reg = [s.reg EXCEPT ![1] = [s.reg[1] EXCEPT !.valid = TRUE]]
  BY <1>1 DEF Fields
<1>5. t.reg[1].valid = TRUE /\ RegTyped(t)
  <2>1. PICK x : x = [s.reg[1] EXCEPT !.valid = TRUE]
    OBVIOUS
  <2>2. x.valid = TRUE /\ DOMAIN x = {"valid", "data"}
    BY <2>1 DEF RegTyped
  <2>3. t.reg = [s.reg EXCEPT ![1] = x]
    BY <1>4, <2>1
  <2>4. DOMAIN t.reg = 1 .. 2 /\ t.reg[1] = x
    BY <2>3 DEF RegTyped
  <2>5. QED
    BY <2>2, <2>4 DEF RegTyped
<1>6. QED
  BY <1>4, <1>5 DEF MiiMoves, conv, reset, t

LEMMA MiiKindAt == ASSUME PlaceCycle, kind = "mii", MiiAt(At, 3, recv) PROVE MiiAt(At', 3, recv')
<1>1. PICK mark : recv' = RecvNext(RxPads, mark)
  BY RecvCycle
<1>2. CASE hwReset > 0
  <2>1. recv' = RecvReset
    BY <1>1, <1>2 DEF RecvNext, HeldInReset, RgmiiKinds
  <2>2. recv'.pads = Silence /\ recv'.reg = << Empty, Empty >> /\ recv'.conv = ConverterReset
    BY <2>1 DEF RecvReset, LagReset, Lagging
  <2>3. QED
    BY <1>2, <2>2, ResetUnfollowed, MiiResetAt
<1>3. CASE hwReset = 0
  <2>1. recv' = MiiRx(recv, RxPads)
    BY <1>1, <1>3 DEF RecvNext
  <2>2. MiiMoves(recv, recv', RxPads)
    BY <2>1, MiiRxMoves, CycleFacts DEF MiiAt
  <2>3. Kept(At, 3 - 1, RxPads.dv, RxPads.data) /\ kind \notin RgmiiKinds
    <3>1. Kept(At, 2, RxPads.dv, RxPads.data) /\ 3 - 1 = 2
      BY PadsKept
    <3>2. QED
      BY <3>1 DEF RgmiiKinds
  <2>4. QED
    BY <2>2, <2>3, MiiAtStep
<1>4. QED
  BY <1>2, <1>3, CycleFacts

LEMMA GmiiMiiKindAt ==
    ASSUME PlaceCycle, kind = "gmii_mii", Kept(At, 3, recv.pads_d.dv, recv.pads_d.data), MiiAt(At, 4, recv)
    PROVE  /\ Kept(At', 3, recv'.pads_d.dv, recv'.pads_d.data) /\ MiiAt(At', 4, recv')
           /\ Kept(At', 4, recv'.valid, recv'.data)
<1>1. PICK mark : recv' = RecvNext(RxPads, mark)
  BY RecvCycle
<1>2. Kept(At', 2 + 1, RxPads.dv, RxPads.data)
  BY PadsKept, KeptShift
<1>3. CASE hwReset > 0
  <2>1. recv' = [RecvReset EXCEPT !.pads_d = RxPads]
    BY <1>1, <1>3 DEF RecvNext, HeldInReset, RgmiiKinds
  <2>2. /\ recv'.pads = Silence /\ recv'.reg = << Empty, Empty >> /\ recv'.conv = ConverterReset
        /\ recv'.pads_d = RxPads /\ recv'.valid = FALSE /\ recv'.data = << >>
    BY <2>1 DEF RecvReset, LagReset, Lagging
  <2>3. QED
    <3>1. At'.followed = FALSE
      BY <1>3, ResetUnfollowed
    <3>2. MiiAt(At', 4, recv')
      BY <2>2, <3>1, MiiResetAt
    <3>3. Kept(At', 4, recv'.valid, recv'.data)
      BY <2>2, <3>1, KeptReset
    <3>4. QED
      BY <1>2, <2>2, <3>2, <3>3
<1>4. CASE hwReset = 0
  <2>1. PICK m : m = MiiRx(recv, recv.pads_d)
    OBVIOUS
  <2>2. recv' = [m EXCEPT !.pads_d = RxPads, !.valid = recv.pads_d.dv, !.data = recv.pads_d.data]
    BY <1>1, <1>4, <2>1 DEF RecvNext, GmiiMiiRx
  <2>3. MiiMoves(recv, m, recv.pads_d) /\ DOMAIN m = Fields
    BY <2>1, MiiRxMoves, CycleFacts DEF MiiAt
  <2>4. /\ recv'.pads_d = RxPads /\ recv'.valid = recv.pads_d.dv /\ recv'.data = recv.pads_d.data
        /\ recv'.pads = m.pads /\ recv'.reset = m.reset /\ recv'.reg = m.reg /\ recv'.conv = m.conv
    BY <2>2, <2>3 DEF Fields
  <2>5. MiiMoves(recv, recv', recv.pads_d)
    BY <2>3, <2>4 DEF MiiMoves, RegTyped
  <2>6. Kept(At, 4 - 1, recv.pads_d.dv, recv.pads_d.data) /\ kind \notin RgmiiKinds
    <3>1. 4 - 1 = 3
      OBVIOUS
    <3>2. QED
      BY <3>1 DEF RgmiiKinds
  <2>7. MiiAt(At', 4, recv')
    BY <2>5, <2>6, MiiAtStep
  <2>8. Kept(At', 3 + 1, recv.pads_d.dv, recv.pads_d.data)
    BY KeptShift
  <2>9. QED
    BY <1>2, <2>4, <2>7, <2>8
<1>5. QED
  BY <1>3, <1>4, CycleFacts

LEMMA OddPart == ASSUME NEW n \in Nat PROVE (n % 4) + 1 \in {2, 4} <=> n % 2 = 1
  OBVIOUS

LEMMA CrsPlace ==
    ASSUME NEW a, Placed(a), a.followed, a.kind \notin RgmiiKinds, a.cycles = 4, NEW d \in Nat, NEW e \in Nat
    PROVE  CrsAt(a, d, e) <=> \/ a.place - d \in 0 .. a.size - 1
                              \/ a.place - e \in 0 .. a.size - 1 /\ (a.place - e) % 2 = 1
<1>1. It(a, d).dv <=> a.place - d \in 0 .. a.size - 1
  <2>1. PICK n : n = a.place - d
    OBVIOUS
  <2>2. n \in 0 .. a.size - 1 => It(a, d).dv = TRUE
    BY <2>1, ItPart
  <2>3. n \notin 0 .. a.size - 1 => It(a, d).dv = FALSE
    BY <2>1, ItOutside
  <2>4. QED
    BY <2>1, <2>2, <2>3
<1>2. (It(a, e).dv /\ It(a, e).data[1][3] \in {2, 4}) <=> a.place - e \in 0 .. a.size - 1 /\ (a.place - e) % 2 = 1
  <2>1. PICK n : n = a.place - e
    OBVIOUS
  <2>2. CASE n \in 0 .. a.size - 1
    <3>1. It(a, e).dv = TRUE /\ It(a, e).data = << << a.tag, n \div a.cycles + 1, (n % a.cycles) + 1 >> >>
      BY <2>1, <2>2, ItPart
    <3>2. PICK x, y, z : x = a.tag /\ y = n \div a.cycles + 1 /\ z = (n % a.cycles) + 1
      OBVIOUS
    <3>3. It(a, e).data = << << x, y, z >> >>
      BY <3>1, <3>2
    <3>4. It(a, e).data[1][3] = z
      BY <3>3
    <3>5. z = (n % 4) + 1
      BY <3>2
    <3>6. n \in Nat
      BY <2>2 DEF Placed
    <3>7. z \in {2, 4} <=> n % 2 = 1
      BY <3>5, <3>6, OddPart
    <3>8. QED
      BY <2>1, <2>2, <3>1, <3>4, <3>7
  <2>3. CASE n \notin 0 .. a.size - 1
    <3>1. It(a, e).dv = FALSE
      BY <2>1, <2>3, ItOutside
    <3>2. QED
      BY <2>1, <2>3, <3>1
  <2>4. QED
    BY <2>2, <2>3
<1>3. QED
  BY <1>1, <1>2 DEF CrsAt

\* After the gap nothing is left of the carrier.
LEMMA CrsIdle ==
    ASSUME NEW a, Placed(a), NEW d \in Nat, NEW e \in Nat, a.idle >= d, a.idle >= e PROVE CrsAt(a, d, e) = FALSE
<1>1. It(a, d).dv = FALSE /\ It(a, e).dv = FALSE
  BY ItIdle
<1>2. QED
  BY <1>1 DEF CrsAt

\* What RMII's receiver does in a cycle.
RmiiActive(s, mark) == s.fsm = "RECEIVE" \/ RmiiStarts(s, mark)

RmiiMoves(s, t, pads, mark) ==
    /\ t.pads = pads /\ t.pads_d = s.pads
    /\ t.fsm = IF RmiiActive(s, mark) /\ ~RmiiEnds(s) THEN "RECEIVE" ELSE "IDLE"
    /\ t.reg[1] = [valid |-> RmiiActive(s, mark), data |-> IF RmiiActive(s, mark) THEN s.pads.data ELSE << >>]
    /\ t.reg[2] = s.reg[1]
    /\ t.conv = IF ~RmiiActive(s, mark) THEN ConverterReset
                ELSE ConverterNext(s.conv, 4, s.reg[2].data, s.reg[2].valid, RmiiEnds(s))

LEMMA RmiiRxMoves ==
    ASSUME NEW s, NEW pads, NEW mark, DOMAIN s = Fields
    PROVE  RmiiMoves(s, RmiiRx(s, pads, mark), pads, mark)
<1> DEFINE active == RmiiActive(s, mark)
           fsm == IF active /\ ~RmiiEnds(s) THEN "RECEIVE" ELSE "IDLE"
           first == [valid |-> active, data |-> IF active THEN s.pads.data ELSE << >>]
           conv == IF ~active THEN ConverterReset
                   ELSE ConverterNext(s.conv, 4, s.reg[2].data, s.reg[2].valid, RmiiEnds(s))
           second == s.reg[1]
           t == RmiiRx(s, pads, mark)
<1>1. t = [s EXCEPT !.pads = pads, !.pads_d = s.pads, !.fsm = fsm, !.reg = << first, second >>, !.conv = conv]
  BY DEF RmiiRx, RmiiActive
<1> HIDE DEF fsm, first, conv, second, t
<1>2. t.pads = pads /\ t.pads_d = s.pads /\ t.fsm = fsm /\ t.reg = << first, second >> /\ t.conv = conv
  BY <1>1 DEF Fields
<1>3. t.reg[1] = first /\ t.reg[2] = second
  BY <1>2
<1>4. QED
  BY <1>2, <1>3, Zenon DEF RmiiMoves, fsm, first, conv, second, t

LEMMA RmiiConstants ==
    ASSUME EnoughGap, NEW a, Placed(a), a.cycles = 4
    PROVE  /\ WireDelay \in Nat /\ WireDelay >= 1 /\ MinGap \in Nat /\ MinGap >= WireDelay + 6 /\ a.size \in Nat
           /\ WireDelay <= a.size /\ a.size % 4 = 0 /\ a.size >= 4 /\ a.size = FrameBytes * 4
<1>1. a.size = FrameBytes * 4 /\ FrameBytes \in Nat \ {0} /\ WireDelay \in Nat \ {0} /\ MinGap \in Nat
  BY PinConstants DEF Placed
<1>2. PICK f : f = FrameBytes
  OBVIOUS
<1>3. (f * 4) % 4 = 0 /\ 4 * f = f * 4 /\ f * 4 >= 4
  BY <1>1, <1>2
<1>4. QED
  BY <1>1, <1>2, <1>3 DEF EnoughGap

LEMMA RmiiPads ==
    ASSUME PlaceCycle, kind = "rmii", Known(At', WireDelay + 2)
    PROVE  RxPads.dv = CrsAt(At', 3, WireDelay + 2) /\ RxPads.data = It(At', WireDelay + 2).data
<1>1. PICK w \in Nat \ {0} : w = WireDelay /\ w + 1 < MinGap /\ WireLength = w /\ 2 < MinGap
  BY PinConstants, CycleFacts DEF WireLength, EnoughGap
<1>2. Known(At, w + 1) /\ It(At', w + 2) = It(At, w + 1)
  <2>1. (w + 1) + 1 = w + 2 /\ w + 1 \in Nat
    OBVIOUS
  <2>2. QED
    BY <1>1, <2>1, CycleShifts, CycleFacts
<1>3. Known(At, 2) /\ It(At', 3) = It(At, 2)
  <2>1. Known(At', 3)
    <3>1. 3 \in Nat /\ w + 2 \in Nat /\ 3 <= w + 2
      BY <1>1
    <3>2. QED
      BY <1>1, <3>1, KnownLess, CycleFacts
  <2>2. 2 + 1 = 3
    OBVIOUS
  <2>3. QED
    BY <1>1, <2>1, <2>2, CycleShifts, CycleFacts
<1>4. Oldest = It(At, w + 1) /\ Newest = It(At, 2)
  <2>1. \A j \in 1 .. w : Known(At, j + 1) => wire[j] = It(At, j + 1)
    BY <1>1, CycleFacts DEF WiresAt
  <2>2. wire[w] = It(At, w + 1)
    BY <1>2, <2>1
  <2>3. wire[1] = It(At, 1 + 1) /\ 1 + 1 = 2
    BY <1>3, <2>1
  <2>4. QED
    BY <1>1, <2>2, <2>3 DEF Oldest, Newest
<1> DEFINE x == Newest.dv \/ (Oldest.dv /\ Oldest.data[1][3] \in {2, 4})
<1>5. RxPads = [Oldest EXCEPT !.dv = x]
  BY DEF RxPads
<1>6. DOMAIN Oldest = {"dv", "data"}
  BY <1>4 DEF It, Item, Silence
<1>7. x = CrsAt(At', 3, w + 2)
  BY <1>2, <1>3, <1>4, Zenon DEF CrsAt
<1> HIDE DEF x
<1>8. RxPads.dv = x /\ RxPads.data = Oldest.data
  BY <1>5, <1>6
<1>9. QED
  BY <1>1, <1>2, <1>4, <1>7, <1>8

\* The receiver is active from the frame's first part to its end, which it finds when
\* crs_dv has been low for two cycles.
LEMMA RmiiRuns ==
    ASSUME EnoughGap, NEW a, Placed(a), a.followed, a.kind \notin RgmiiKinds, a.cycles = 4,
           NEW s, RmiiAt(a, WireDelay, s), NEW mark, NEW p, p = a.place - WireDelay
    PROVE  /\ RmiiActive(s, mark) <=> p \in 2 .. a.size + 3
           /\ p \in 3 .. a.size + 3 => (RmiiEnds(s) <=> p = a.size + 3)
<1>1. PICK w \in Nat, z \in Nat, q \in Nat : w = WireDelay /\ z = a.size /\ q = a.place /\ w >= 1 /\ w <= z /\ z % 4 = 0 /\ z >= 4
  BY RmiiConstants DEF Placed
<1>2. p = q - w /\ p \in Int
  BY <1>1
<1>3. s.fsm = IF p \in 3 .. z + 3 THEN "RECEIVE" ELSE "IDLE"
  BY <1>1 DEF RmiiAt, RmiiPlace
<1>4. Known(a, w + 2) /\ Known(a, w + 3)
  BY DEF Known
<1>5. s.pads.dv <=> \/ q - 3 \in 0 .. z - 1
                    \/ q - (w + 2) \in 0 .. z - 1 /\ (q - (w + 2)) % 2 = 1
  <2>1. s.pads.dv = CrsAt(a, 3, w + 2)
    BY <1>1, <1>4 DEF RmiiAt
  <2>2. 3 \in Nat /\ w + 2 \in Nat
    OBVIOUS
  <2>3. QED
    BY <1>1, <2>1, <2>2, CrsPlace
<1>6. s.pads_d.dv <=> \/ q - 4 \in 0 .. z - 1
                      \/ q - (w + 3) \in 0 .. z - 1 /\ (q - (w + 3)) % 2 = 1
  <2>1. s.pads_d.dv = CrsAt(a, 4, w + 3)
    BY <1>1, <1>4 DEF RmiiAt
  <2>2. 4 \in Nat /\ w + 3 \in Nat
    OBVIOUS
  <2>3. QED
    BY <1>1, <2>1, <2>2, CrsPlace
<1>7. s.pads.data = It(a, w + 2).data
  BY <1>1, <1>4 DEF RmiiAt
<1>8. q - (w + 2) = p - 2 /\ q - (w + 3) = p - 3 /\ q - 3 = p + w - 3 /\ q - 4 = p + w - 4
  BY <1>2
<1>9. p = 2 => RmiiStarts(s, mark)
  <2>1. SUFFICES ASSUME p = 2 PROVE RmiiStarts(s, mark)
    OBVIOUS
  <2>2. s.pads.dv
    <3>1. q - 3 = w - 1
      BY <1>8, <2>1
    <3>2. w - 1 \in 0 .. z - 1
      BY <1>1
    <3>3. QED
      BY <1>5, <3>1, <3>2
  <2>3. a.place - (w + 2) = 0 /\ 0 \in 0 .. a.size - 1 /\ 0 \div 4 = 0
    BY <1>1, <1>8, <2>1
  <2>4. s.pads.data = << << a.tag, 0 \div a.cycles + 1, (0 % a.cycles) + 1 >> >>
    BY <1>7, <2>3, ItPart
  <2>5. PICK x, y : x = a.tag /\ y = (0 % a.cycles) + 1
    OBVIOUS
  <2>6. s.pads.data = << << x, 1, y >> >>
    <3>1. 0 \div a.cycles + 1 = 1
      BY <2>3
    <3>2. QED
      BY <2>4, <2>5, <3>1
  <2>7. s.pads.data # << >> /\ s.pads.data[1][2] = 1
    BY <2>6
  <2>8. s.fsm = "IDLE"
    BY <1>3, <2>1
  <2>9. QED
    BY <2>2, <2>7, <2>8 DEF RmiiStarts
<1>10. p \notin 2 .. z + 3 => ~RmiiStarts(s, mark) /\ s.fsm = "IDLE"
  <2>1. SUFFICES ASSUME p \notin 2 .. z + 3 PROVE s.pads.data = << >> /\ s.fsm = "IDLE"
    BY DEF RmiiStarts
  <2>2. a.place - (w + 2) \notin 0 .. a.size - 1 /\ w + 2 \in Nat
    BY <1>1, <1>2, <1>8, <2>1
  <2>3. s.pads.data = << >>
    BY <1>7, <2>2, ItOutside
  <2>4. p \notin 3 .. z + 3
    BY <1>2, <2>1
  <2>5. QED
    BY <1>3, <2>3, <2>4
<1>11. p \in 3 .. z + 3 => (RmiiEnds(s) <=> p = z + 3)
  <2>1. SUFFICES ASSUME p \in 3 .. z + 3 PROVE ~s.pads.dv /\ ~s.pads_d.dv <=> p = z + 3
    BY <1>3 DEF RmiiEnds
  <2>2. s.pads.dv <=> \/ p + w - 3 \in 0 .. z - 1
                      \/ p - 2 \in 0 .. z - 1 /\ (p - 2) % 2 = 1
    BY <1>5, <1>8
  <2>3. s.pads_d.dv <=> \/ p + w - 4 \in 0 .. z - 1
                        \/ p - 3 \in 0 .. z - 1 /\ (p - 3) % 2 = 1
    BY <1>6, <1>8
  <2>4. CASE p = z + 3
    <3>1. p + w - 3 >= z /\ p + w - 4 >= z /\ p - 2 >= z /\ p - 3 >= z
      BY <1>1, <2>4
    <3>2. QED
      BY <1>1, <1>2, <2>2, <2>3, <2>4, <3>1
  <2>5. CASE p < z + 3
    <3>1. (p - 2) % 2 = 1 \/ (p - 3) % 2 = 1
      BY <1>2
    <3>2. p = z + 2 => (p - 3) % 2 = 1
      BY <1>1
    <3>3. p - 3 \in 0 .. z - 1 /\ (p # z + 2 => p - 2 \in 0 .. z - 1)
      BY <1>1, <1>2, <2>1, <2>5
    <3>4. QED
      BY <2>2, <2>3, <2>5, <3>1, <3>2, <3>3
  <2>6. QED
    BY <1>1, <1>2, <2>1, <2>4, <2>5
<1>12. RmiiActive(s, mark) <=> p \in 2 .. z + 3
  <2>1. CASE p \in 3 .. z + 3
    BY <1>1, <1>3, <2>1 DEF RmiiActive
  <2>2. CASE p = 2
    BY <1>1, <1>9, <2>2 DEF RmiiActive
  <2>3. CASE p \notin 2 .. z + 3
    BY <1>10, <2>3 DEF RmiiActive
  <2>4. QED
    BY <1>2, <2>1, <2>2, <2>3
<1>13. QED
  BY <1>1, <1>11, <1>12

LEMMA RmiiIdle ==
    ASSUME EnoughGap, NEW a, Placed(a), NEW s, RmiiAt(a, WireDelay, s), s.fsm \in {"IDLE", "RECEIVE"},
           NEW t, NEW pads, NEW mark, RmiiMoves(s, t, pads, mark)
    PROVE  /\ a.idle >= WireDelay + 3 => t.fsm = "IDLE"
           /\ a.idle >= WireDelay + 4 => t.reg[1] = Empty /\ t.conv = ConverterReset
           /\ a.idle >= WireDelay + 5 => t.reg[2] = Empty
<1>1. PICK w \in Nat : w = WireDelay /\ w >= 1 /\ a.idle \in Int
  BY PinConstants DEF Placed
<1>2. a.idle >= w + 2 => ~s.pads.dv
  <2>1. SUFFICES ASSUME a.idle >= w + 2 PROVE ~s.pads.dv
    OBVIOUS
  <2>2. a.idle >= 3 /\ w + 2 \in Nat /\ 3 \in Nat
    BY <1>1, <2>1
  <2>3. CrsAt(a, 3, w + 2) = FALSE
    BY <2>1, <2>2, CrsIdle
  <2>4. Known(a, w + 2)
    BY <2>1 DEF Known
  <2>5. QED
    BY <1>1, <2>3, <2>4 DEF RmiiAt
<1>3. a.idle >= w + 3 => ~s.pads_d.dv
  <2>1. SUFFICES ASSUME a.idle >= w + 3 PROVE ~s.pads_d.dv
    OBVIOUS
  <2>2. a.idle >= 4 /\ w + 3 \in Nat /\ 4 \in Nat
    BY <1>1, <2>1
  <2>3. CrsAt(a, 4, w + 3) = FALSE
    BY <2>1, <2>2, CrsIdle
  <2>4. Known(a, w + 3)
    BY <2>1 DEF Known
  <2>5. QED
    BY <1>1, <2>3, <2>4 DEF RmiiAt
<1>4. a.idle >= w + 3 => t.fsm = "IDLE"
  <2>1. SUFFICES ASSUME a.idle >= w + 3 PROVE ~RmiiActive(s, mark) \/ RmiiEnds(s)
    BY Zenon DEF RmiiMoves
  <2>2. ~s.pads.dv /\ ~s.pads_d.dv
    BY <1>1, <1>2, <1>3, <2>1
  <2>3. QED
    BY <2>2 DEF RmiiActive, RmiiStarts, RmiiEnds
<1>5. a.idle >= w + 4 => t.reg[1] = Empty /\ t.conv = ConverterReset
  <2>1. SUFFICES ASSUME a.idle >= w + 4 PROVE t.reg[1] = Empty /\ t.conv = ConverterReset
    OBVIOUS
  <2>2. ~s.pads.dv /\ s.fsm = "IDLE"
    BY <1>1, <1>2, <2>1 DEF RmiiAt
  <2>3. RmiiActive(s, mark) = FALSE
    BY <2>2 DEF RmiiActive, RmiiStarts
  <2>4. QED
    BY <2>3, Zenon DEF RmiiMoves, Empty
<1>6. a.idle >= w + 5 => t.reg[2] = Empty
  BY <1>1 DEF RmiiAt, RmiiMoves
<1>7. QED
  BY <1>1, <1>4, <1>5, <1>6

\* Nothing of a frame is in the receiver, before it or a gap after it.
LEMMA RmiiQuiet ==
    ASSUME EnoughGap, NEW b, Placed(b), NEW t, NEW p, p = b.place - WireDelay,
           t.fsm = "IDLE", t.reg[1] = Empty, t.reg[2] = Empty, t.conv = ConverterReset,
           b.place = 0 \/ b.idle = MinGap
    PROVE  RmiiPlace(b, WireDelay, p, t)
<1>1. PICK w \in Nat, z \in Nat, q \in Nat :
        w = WireDelay /\ z = b.size /\ q = b.place /\ w >= 1 /\ MinGap \in Nat /\ MinGap >= w + 6
  BY PinConstants DEF Placed, EnoughGap
<1>2. p = q - w /\ (q = 0 \/ q = z + MinGap)
  <2>1. b.idle = MinGap => q = z + MinGap
    BY <1>1 DEF Placed
  <2>2. QED
    BY <1>1, <2>1
<1>3. p < 0 \/ p >= z + 6
  BY <1>1, <1>2
<1>4. b.place - (w + 3) \notin 0 .. b.size - 1 /\ b.place - (w + 4) \notin 0 .. b.size - 1 /\ p - 5 \notin 0 .. b.size - 1
  BY <1>1, <1>2, <1>3
<1>5. It(b, w + 3).data = << >> /\ It(b, w + 4).data = << >>
  <2>1. w + 3 \in Nat /\ w + 4 \in Nat
    OBVIOUS
  <2>2. QED
    BY <1>4, <2>1, ItOutside
<1>6. ConvAt(b, p - 5) = ConverterReset
  BY <1>4, ConvOutside
<1>7. p \notin 3 .. b.size + 3 /\ p \notin 3 .. b.size + 4 /\ p \notin 4 .. b.size + 5
  BY <1>1, <1>2, <1>3
<1>8. t.reg[1].valid = FALSE /\ t.reg[1].data = << >> /\ t.reg[2].valid = FALSE /\ t.reg[2].data = << >>
  BY DEF Empty
<1>9. QED
  BY <1>1, <1>5, <1>6, <1>7, <1>8 DEF RmiiPlace

LEMMA RmiiGoesOn ==
    ASSUME EnoughGap, NEW a, NEW b, Placed(a), Placed(b), a.followed, b.followed, a.kind \notin RgmiiKinds, a.cycles = 4,
           b.cycles = a.cycles, b.size = a.size, b.tag = a.tag, b.place = a.place + 1,
           NEW s, RmiiAt(a, WireDelay, s), NEW t, NEW pads, NEW mark, RmiiMoves(s, t, pads, mark),
           It(b, WireDelay + 3) = It(a, WireDelay + 2), It(b, WireDelay + 4) = It(a, WireDelay + 3),
           NEW p, p = a.place - WireDelay
    PROVE  RmiiPlace(b, WireDelay, p + 1, t)
<1>1. PICK w \in Nat, z \in Nat, q \in Nat, f \in Nat \ {0} :
        w = WireDelay /\ z = a.size /\ q = a.place /\ f = FrameBytes /\ z = f * 4 /\ w >= 1
  BY RmiiConstants, PinConstants DEF Placed
<1>2. p = q - w /\ p \in Int
  BY <1>1
<1>3. /\ RmiiActive(s, mark) <=> p \in 2 .. z + 3
      /\ p \in 3 .. z + 3 => (RmiiEnds(s) <=> p = z + 3)
      /\ RmiiActive(s, mark) \in BOOLEAN /\ RmiiEnds(s) \in BOOLEAN
  <2>1. /\ RmiiActive(s, mark) <=> p \in 2 .. a.size + 3
        /\ p \in 3 .. a.size + 3 => (RmiiEnds(s) <=> p = a.size + 3)
    BY RmiiRuns
  <2>2. RmiiActive(s, mark) \in BOOLEAN /\ RmiiEnds(s) \in BOOLEAN
    BY Zenon DEF RmiiActive, RmiiEnds
  <2>3. QED
    BY <1>1, <2>1, <2>2
<1>4. RmiiPlace(a, w, p, s) /\ Known(a, w + 2)
  BY <1>1 DEF RmiiAt, Known
<1>5. t.fsm = IF p + 1 \in 3 .. z + 3 THEN "RECEIVE" ELSE "IDLE"
  <2>1. ~(p = 2 /\ RmiiEnds(s))
    <3>1. s.fsm = "IDLE" \/ p # 2
      BY <1>1, <1>4 DEF RmiiPlace
    <3>2. QED
      BY <3>1 DEF RmiiEnds
  <2>2. RmiiActive(s, mark) /\ ~RmiiEnds(s) <=> p + 1 \in 3 .. z + 3
    BY <1>1, <1>2, <1>3, <2>1
  <2>3. QED
    BY <2>2, Zenon DEF RmiiMoves
<1>6. (t.reg[1].valid <=> p + 1 \in 3 .. z + 4) /\ t.reg[1].data = It(b, w + 3).data
  <2>1. t.reg[1].valid = RmiiActive(s, mark) /\ t.reg[1].data = IF RmiiActive(s, mark) THEN s.pads.data ELSE << >>
    <3> DEFINE v == RmiiActive(s, mark)
               x == IF RmiiActive(s, mark) THEN s.pads.data ELSE << >>
    <3>1. t.reg[1] = [valid |-> v, data |-> x]
      BY DEF RmiiMoves
    <3> HIDE DEF v, x
    <3>2. t.reg[1].valid = v /\ t.reg[1].data = x
      BY <3>1
    <3>3. QED
      BY <3>2 DEF v, x
  <2>2. s.pads.data = It(a, w + 2).data
    BY <1>1, <1>4 DEF RmiiAt
  <2>3. p \notin 2 .. z + 3 => It(a, w + 2).data = << >>
    <3>1. SUFFICES ASSUME p \notin 2 .. z + 3 PROVE It(a, w + 2).data = << >>
      OBVIOUS
    <3>2. a.place - (w + 2) \notin 0 .. a.size - 1 /\ w + 2 \in Nat
      BY <1>1, <1>2, <3>1
    <3>3. QED
      BY <3>2, ItOutside
  <2>4. t.reg[1].data = It(a, w + 2).data
    BY <1>3, <2>1, <2>2, <2>3
  <2>5. p \in 2 .. z + 3 <=> p + 1 \in 3 .. z + 4
    BY <1>1, <1>2
  <2>6. QED
    BY <1>1, <1>3, <2>1, <2>4, <2>5
<1>7. (t.reg[2].valid <=> p + 1 \in 4 .. z + 5) /\ t.reg[2].data = It(b, w + 4).data
  <2>1. t.reg[2] = s.reg[1]
    BY DEF RmiiMoves
  <2>2. (s.reg[1].valid <=> p \in 3 .. z + 4) /\ s.reg[1].data = It(a, w + 3).data
    BY <1>1, <1>4 DEF RmiiPlace
  <2>3. p \in 3 .. z + 4 <=> p + 1 \in 4 .. z + 5
    BY <1>1, <1>2
  <2>4. It(b, w + 4) = It(a, w + 3)
    BY <1>1
  <2>5. t.reg[2].valid <=> p + 1 \in 4 .. z + 5
    <3>1. t.reg[2].valid = s.reg[1].valid
      BY <2>1, Zenon
    <3>2. QED
      BY <2>2, <2>3, <3>1, Zenon
  <2>6. t.reg[2].data = It(b, w + 4).data
    BY <2>1, <2>2, <2>4, Zenon
  <2>7. QED
    BY <2>5, <2>6
<1>8. t.conv = ConvAt(b, (p + 1) - 5)
  <2>1. PICK n \in Int : n = p - 4 /\ (p + 1) - 5 = n /\ p - 5 = n - 1
    <3>1. p - 4 \in Int /\ (p + 1) - 5 = p - 4 /\ p - 5 = (p - 4) - 1
      BY <1>2
    <3>2. QED
      BY <3>1
  <2>2. s.conv = ConvAt(a, n - 1) /\ (s.reg[2].valid <=> p \in 4 .. z + 5) /\ s.reg[2].data = It(a, w + 4).data
    BY <1>1, <1>4, <2>1 DEF RmiiPlace
  <2>3. ConvAt(b, n) = ConvAt(a, n)
    <3>1. a.followed = b.followed
      BY DEF Placed
    <3>2. QED
      BY <3>1, ConvSame
  <2>4. CASE p \in 4 .. z + 3
    <3>1. n \in 0 .. a.size - 1 /\ n = a.place - (w + 4) /\ p \in 4 .. z + 5 /\ p \in 2 .. z + 3 /\ p \in 3 .. z + 3
      BY <1>1, <1>2, <2>1, <2>4
    <3>2. s.reg[2].data = << << a.tag, n \div 4 + 1, (n % 4) + 1 >> >>
      <4>1. It(a, w + 4).data = << << a.tag, n \div a.cycles + 1, (n % a.cycles) + 1 >> >>
        BY <3>1, ItPart
      <4>2. QED
        BY <2>2, <4>1, Zenon
    <3>3. PICK last \in BOOLEAN : last = RmiiEnds(s)
      BY <1>3
    <3>4. last <=> n = z - 1
      BY <1>1, <1>3, <2>1, <3>1, <3>3
    <3>5. t.conv = ConverterNext(s.conv, 4, s.reg[2].data, s.reg[2].valid, last)
      BY <1>3, <3>1, <3>3, Zenon DEF RmiiMoves
    <3>6. s.reg[2].valid
      BY <2>2, <3>1
    <3>7. ConverterNext(s.conv, 4, s.reg[2].data, s.reg[2].valid, last) = Converted(a, 4, n, last)
      BY <2>2, <3>2, <3>6, Zenon DEF Converted, ConverterNext
    <3>8. ConvReady(a, 4, f, n, last)
      BY <1>1, <3>1, <3>4 DEF ConvReady
    <3>9. Converted(a, 4, n, last) = ConvAt(a, n)
      BY <3>8, ConvStep
    <3>10. QED
      BY <2>1, <2>3, <3>5, <3>7, <3>9
  <2>5. CASE p \notin 4 .. z + 3
    <3>1. ConvAt(a, n) = ConverterReset
      <4>1. n \notin 0 .. a.size - 1
        BY <1>1, <1>2, <2>1, <2>5
      <4>2. QED
        BY <4>1, ConvOutside
    <3>2. t.conv = ConverterReset
      <4>1. CASE RmiiActive(s, mark)
        <5>1. p \in 2 .. z + 3
          BY <1>3, <4>1
        <5>2. p \notin 4 .. z + 5 /\ n - 1 \notin 0 .. a.size - 1
          BY <1>1, <1>2, <2>1, <2>5, <5>1
        <5>3. s.conv = ConverterReset /\ ~s.reg[2].valid
          BY <2>2, <5>2, ConvOutside
        <5>4. t.conv = ConverterNext(ConverterReset, 4, s.reg[2].data, s.reg[2].valid, RmiiEnds(s))
          BY <4>1, <5>3, Zenon DEF RmiiMoves
        <5>5. ConverterNext(ConverterReset, 4, s.reg[2].data, s.reg[2].valid, RmiiEnds(s))
                = ConverterNext(ConverterReset, 4, s.reg[2].data, FALSE, RmiiEnds(s))
          BY <5>3, Zenon DEF ConverterNext
        <5>6. QED
          BY <5>4, <5>5, ResetConvStays, Zenon
      <4>2. CASE ~RmiiActive(s, mark)
        BY <4>2, Zenon DEF RmiiMoves
      <4>3. QED
        BY <4>1, <4>2
    <3>3. QED
      BY <2>1, <2>3, <3>1, <3>2
  <2>6. QED
    BY <2>4, <2>5
<1>9. QED
  BY <1>1, <1>5, <1>6, <1>7, <1>8 DEF RmiiPlace

LEMMA RmiiAtStep ==
    ASSUME EnoughGap, NEW a, NEW b, Moves(a, b), a.kind \notin RgmiiKinds, a.cycles = 4, b.cycles = 4,
           NEW s, RmiiAt(a, WireDelay, s), s.fsm \in {"IDLE", "RECEIVE"},
           NEW t, NEW pads, NEW mark, RmiiMoves(s, t, pads, mark),
           Known(b, WireDelay + 2) => pads.dv = CrsAt(b, 3, WireDelay + 2) /\ pads.data = It(b, WireDelay + 2).data
    PROVE  RmiiAt(b, WireDelay, t)
<1>1. PICK w \in Nat, l \in Nat : w = WireDelay /\ w >= 1 /\ l = MinGap /\ l >= w + 6
  BY PinConstants DEF EnoughGap
<1>2. /\ Placed(a) /\ Placed(b) /\ a.idle \in Int /\ b.idle \in Int
      /\ b.idle <= 0 \/ a.idle = b.idle - 1 \/ (a.idle = l /\ b.idle = l)
      /\ a.place \in Nat /\ b.place \in Nat
  BY <1>1 DEF Moves, Placed
<1>3. ASSUME NEW d \in Nat, d < l, Known(b, d + 1) PROVE Known(a, d) /\ It(b, d + 1) = It(a, d)
  BY <1>1, <1>3, ShiftIt
<1>4. t.pads = pads /\ t.pads_d = s.pads
  BY DEF RmiiMoves
<1>5. Known(b, w + 3) => t.pads_d.dv = CrsAt(b, 4, w + 3)
  <2>1. SUFFICES ASSUME Known(b, w + 3) PROVE t.pads_d.dv = CrsAt(b, 4, w + 3)
    OBVIOUS
  <2>2. Known(a, w + 2) /\ It(b, w + 3) = It(a, w + 2)
    <3>1. w + 2 \in Nat /\ w + 2 < l /\ (w + 2) + 1 = w + 3
      BY <1>1
    <3>2. QED
      BY <1>3, <2>1, <3>1
  <2>3. It(b, 4) = It(a, 3)
    <3>1. 3 \in Nat /\ 3 < l /\ 3 + 1 = 4 /\ 4 \in Nat /\ w + 3 \in Nat /\ 4 <= w + 3
      BY <1>1
    <3>2. Known(b, 4)
      BY <1>2, <2>1, <3>1, KnownLess
    <3>3. QED
      BY <1>3, <3>1, <3>2
  <2>4. s.pads.dv = CrsAt(a, 3, w + 2)
    BY <1>1, <2>2 DEF RmiiAt
  <2>5. CrsAt(b, 4, w + 3) = CrsAt(a, 3, w + 2)
    BY <2>2, <2>3, Zenon DEF CrsAt
  <2>6. QED
    BY <1>4, <2>4, <2>5
<1>6. /\ a.idle >= w + 3 => t.fsm = "IDLE"
      /\ a.idle >= w + 4 => t.reg[1] = Empty /\ t.conv = ConverterReset
      /\ a.idle >= w + 5 => t.reg[2] = Empty
  BY <1>1, <1>2, RmiiIdle
<1>7. /\ b.idle >= w + 4 => t.fsm = "IDLE"
      /\ b.idle >= w + 5 => t.reg[1] = Empty /\ t.conv = ConverterReset
      /\ b.idle >= w + 6 => t.reg[2] = Empty
  BY <1>1, <1>2, <1>6
<1>8. b.followed => RmiiPlace(b, w, b.place - w, t)
  <2>1. SUFFICES ASSUME b.followed PROVE RmiiPlace(b, w, b.place - w, t)
    OBVIOUS
  <2>2. CASE a.idle = l /\ (b.place = 0 \/ b.idle = l)
    <3>1. t.fsm = "IDLE" /\ t.reg[1] = Empty /\ t.conv = ConverterReset /\ t.reg[2] = Empty
      BY <1>1, <1>6, <2>2
    <3>2. QED
      BY <1>1, <1>2, <2>2, <3>1, RmiiQuiet
  <2>3. CASE a.followed /\ b.size = a.size /\ b.tag = a.tag /\ b.place = a.place + 1
    <3>1. It(b, w + 3) = It(a, w + 2)
      <4>1. w + 2 \in Nat /\ w + 2 < l /\ (w + 2) + 1 = w + 3 /\ Known(b, w + 3)
        BY <1>1, <2>1 DEF Known
      <4>2. QED
        BY <1>3, <4>1
    <3>2. It(b, w + 4) = It(a, w + 3)
      <4>1. w + 3 \in Nat /\ w + 3 < l /\ (w + 3) + 1 = w + 4 /\ Known(b, w + 4)
        BY <1>1, <2>1 DEF Known
      <4>2. QED
        BY <1>3, <4>1
    <3>3. PICK p : p = a.place - w
      OBVIOUS
    <3>4. RmiiPlace(b, w, p + 1, t)
      BY <1>1, <1>2, <2>1, <2>3, <3>1, <3>2, <3>3, RmiiGoesOn
    <3>5. b.place - w = p + 1
      BY <1>1, <1>2, <2>3, <3>3
    <3>6. QED
      BY <3>4, <3>5
  <2>4. QED
    BY <1>1, <2>1, <2>2, <2>3 DEF Moves
<1>9. Known(b, w + 2) => t.pads.dv = CrsAt(b, 3, w + 2) /\ t.pads.data = It(b, w + 2).data
  BY <1>1, <1>4
<1>10. QED
  BY <1>1, <1>5, <1>7, <1>8, <1>9, Zenon DEF RmiiAt

LEMMA RmiiResetAt ==
    ASSUME NEW b, b.followed = FALSE, NEW w, NEW t, t.pads = Silence, t.pads_d = Silence, t.fsm = "IDLE",
           t.reg[1] = Empty, t.reg[2] = Empty, t.conv = ConverterReset
    PROVE  RmiiAt(b, w, t)
<1>1. \A d : It(b, d) = Silence
  BY DEF It
<1>2. Silence.dv = FALSE /\ Silence.data = << >>
  BY DEF Silence
<1>3. CrsAt(b, 3, w + 2) = FALSE /\ CrsAt(b, 4, w + 3) = FALSE
  BY <1>1, <1>2 DEF CrsAt
<1>4. t.pads.dv = CrsAt(b, 3, w + 2) /\ t.pads.data = It(b, w + 2).data /\ t.pads_d.dv = CrsAt(b, 4, w + 3)
  BY <1>1, <1>2, <1>3
<1>5. QED
  BY <1>4, Zenon DEF RmiiAt

LEMMA RmiiKindAt ==
    ASSUME PlaceCycle, kind = "rmii", recv.fsm \in {"IDLE", "RECEIVE"}, RmiiAt(At, WireDelay, recv)
    PROVE  RmiiAt(At', WireDelay, recv')
<1>1. PICK mark : recv' = RecvNext(RxPads, mark)
  BY RecvCycle
<1>2. CASE hwReset > 0
  <2>1. recv' = RecvReset
    BY <1>1, <1>2 DEF RecvNext, HeldInReset, RgmiiKinds
  <2>2. LagReset = Silence
    BY DEF LagReset, Lagging
  <2>3. /\ recv'.pads = Silence /\ recv'.pads_d = Silence /\ recv'.fsm = "IDLE" /\ recv'.reg = << Empty, Empty >>
        /\ recv'.conv = ConverterReset
    BY <2>1, <2>2 DEF RecvReset
  <2>4. recv'.reg[1] = Empty /\ recv'.reg[2] = Empty
    BY <2>3
  <2>5. At'.followed = FALSE
    BY <1>2, ResetUnfollowed
  <2>6. QED
    BY <2>3, <2>4, <2>5, RmiiResetAt
<1>3. CASE hwReset = 0
  <2>1. recv' = RmiiRx(recv, RxPads, mark)
    BY <1>1, <1>3 DEF RecvNext
  <2>2. RmiiMoves(recv, recv', RxPads, mark)
    BY <2>1, RmiiRxMoves, CycleFacts
  <2>3. At.cycles = 4 /\ At'.cycles = 4
    <3>1. Cycles = 4 /\ Cycles' = 4
      BY CycleFacts DEF Cycles
    <3>2. QED
      BY <3>1, AtFields, AtNext
  <2>4. At.kind \notin RgmiiKinds /\ EnoughGap /\ Moves(At, At')
    BY CycleFacts, CycleMoves DEF RgmiiKinds
  <2>5. PICK a, b, s, t, pads : a = At /\ b = At' /\ s = recv /\ t = recv' /\ pads = RxPads
    OBVIOUS
  <2>6. Known(b, WireDelay + 2) => pads.dv = CrsAt(b, 3, WireDelay + 2) /\ pads.data = It(b, WireDelay + 2).data
    BY <2>5, RmiiPads
  <2>7. RmiiAt(b, WireDelay, t)
    BY <2>2, <2>3, <2>4, <2>5, <2>6, RmiiAtStep
  <2>8. QED
    BY <2>5, <2>7
<1>4. QED
  BY <1>2, <1>3, CycleFacts

LEMMA RegisterStep ==
    ASSUME PlaceCycle, RecvAt(At), kind \in {"gmii", "model", "s7rgmii", "usrgmii", "ecp5rgmii"} PROVE RecvAt(At)'
<1>1. kind' = kind
  BY CycleFacts
<1>2. CASE kind \in {"gmii", "model"}
  <2>1. Kept(At, 3, recv.valid, recv.data)
    BY <1>2 DEF RecvAt
  <2>2. Kept(At', 3, recv'.valid, recv'.data)
    BY <1>2, <2>1, GmiiAt
  <2>3. QED
    BY <1>1, <1>2, <2>2 DEF RecvAt
<1>3. CASE kind \in {"s7rgmii", "usrgmii"}
  <2>1. Kept(At, 3, recv.pads.dv, recv.pads.data)
    BY <1>3 DEF RecvAt
  <2>2. Kept(At', 3, recv'.pads.dv, recv'.pads.data) /\ Kept(At', 4, recv'.valid, recv'.data)
    BY <1>3, <2>1, SevenSeriesAt
  <2>3. QED
    BY <1>1, <1>3, <2>2 DEF RecvAt
<1>4. CASE kind = "ecp5rgmii"
  <2>1. Kept(At, 3, recv.pads.dv, recv.pads.data) /\ Kept(At, 4, recv.pads_d.dv, recv.pads_d.data)
    BY <1>4 DEF RecvAt
  <2>2. /\ Kept(At', 3, recv'.pads.dv, recv'.pads.data) /\ Kept(At', 4, recv'.pads_d.dv, recv'.pads_d.data)
        /\ Kept(At', 5, recv'.valid, recv'.data)
    BY <1>4, <2>1, Ecp5At
  <2>3. QED
    BY <1>1, <1>4, <2>2 DEF RecvAt
<1>5. QED
  BY <1>2, <1>3, <1>4

LEMMA LaggingStep == ASSUME PlaceCycle, RecvAt(At), Lagging PROVE RecvAt(At)'
<1>1. kind' = kind /\ kind \in {"s6rgmii", "altera_rgmii"}
  BY CycleFacts DEF Lagging
<1>2. LagAt(At) /\ recv.reg = << recv.reg[1], recv.reg[2] >>
  BY <1>1 DEF RecvAt
<1>3. LagAt(At)' /\ recv'.reg = << recv'.reg[1], recv'.reg[2] >>
  BY <1>2, LagStep, LagCells
<1>4. CASE kind = "s6rgmii"
  <2>1. Kept(At', 5, recv'.valid, recv'.data)
    BY <1>2, <1>4, Spartan6At
  <2>2. QED
    BY <1>1, <1>3, <1>4, <2>1 DEF RecvAt
<1>5. CASE kind = "altera_rgmii"
  <2>1. Kept(At, 5, recv.reg[1].valid, recv.reg[1].data)
    BY <1>5 DEF RecvAt
  <2>2. Kept(At', 5, recv'.reg[1].valid, recv'.reg[1].data) /\ Kept(At', 6, recv'.valid, recv'.data)
    BY <1>2, <1>5, <2>1, AlteraAt
  <2>3. QED
    BY <1>1, <1>3, <1>5, <2>2 DEF RecvAt
<1>6. QED
  BY <1>1, <1>4, <1>5

LEMMA ConvertingStep == ASSUME PlaceCycle, RecvAt(At), kind \in Converting PROVE RecvAt(At)'
<1>1. kind' = kind /\ kind \in {"mii", "rmii", "gmii_mii"}
  BY CycleFacts DEF Converting
<1>2. CASE kind = "mii"
  <2>1. MiiAt(At, 3, recv)
    BY <1>2 DEF RecvAt
  <2>2. MiiAt(At', 3, recv')
    BY <1>2, <2>1, MiiKindAt
  <2>3. QED
    BY <1>1, <1>2, <2>2 DEF RecvAt
<1>3. CASE kind = "gmii_mii"
  <2>1. Kept(At, 3, recv.pads_d.dv, recv.pads_d.data) /\ MiiAt(At, 4, recv)
    BY <1>3 DEF RecvAt
  <2>2. /\ Kept(At', 3, recv'.pads_d.dv, recv'.pads_d.data) /\ MiiAt(At', 4, recv')
        /\ Kept(At', 4, recv'.valid, recv'.data)
    BY <1>3, <2>1, GmiiMiiKindAt
  <2>3. QED
    BY <1>1, <1>3, <2>2 DEF RecvAt
<1>4. CASE kind = "rmii"
  <2>1. RmiiAt(At, WireDelay, recv)
    BY <1>4 DEF RecvAt
  <2>2. recv.fsm \in {"IDLE", "RECEIVE"}
    BY CycleFacts DEF PinCycle, PinInv, RecvOK
  <2>3. RmiiAt(At', WireDelay, recv')
    BY <1>4, <2>1, <2>2, RmiiKindAt
  <2>4. QED
    BY <1>1, <1>4, <2>3 DEF RecvAt
<1>5. QED
  BY <1>1, <1>2, <1>3, <1>4

LEMMA RecvAtStep == ASSUME PlaceCycle, RecvAt(At) PROVE RecvAt(At)'
<1>1. kind' = kind /\ kind \in AllPinKinds
  BY CycleFacts
<1>2. CASE kind = "gearbox"
  <2>1. GearAt(At)
    BY <1>2 DEF RecvAt
  <2>2. GearAt(At)'
    BY <1>2, <2>1, GearStep
  <2>3. QED
    BY <1>1, <1>2, <2>2 DEF RecvAt
<1>3. CASE kind # "gearbox"
  <2>1. kind \in {"gmii", "model", "s7rgmii", "usrgmii", "ecp5rgmii"} \/ Lagging \/ kind \in Converting
    BY <1>1, <1>3 DEF AllPinKinds, RgmiiKinds, Lagging, Converting
  <2>2. QED
    BY <2>1, RegisterStep, LaggingStep, ConvertingStep
<1>4. QED
  BY <1>2, <1>3

\* What the source gives, d cycles behind the sender.
Gives(a, n, valid, data, last) ==
    /\ valid <=> n \in 0 .. a.size - 1 /\ n % a.cycles = a.cycles - 1
    /\ valid => data = ByteParts(a.tag, n \div a.cycles + 1)
    /\ last <=> n = a.size - 1

LEMMA WideGives ==
    ASSUME NEW a, Placed(a), a.followed, a.cycles = 1, NEW d \in Nat, NEW n, n = a.place - (d + 1),
           PartsPerByte = IF a.kind \in RgmiiKinds THEN 2 ELSE 1,
           NEW valid, valid = It(a, d + 1).dv, NEW data, data = It(a, d + 1).data, NEW next, next = It(a, d).dv
    PROVE  Gives(a, n, valid, data, valid /\ ~next)
<1>1. PICK z \in Nat \ {0}, t \in {a.tag} : z = a.size /\ t = a.tag /\ n \in Int /\ a.place - d = n + 1
  BY DEF Placed
<1>2. It(a, d + 1) = Item(a, n) /\ It(a, d) = Item(a, n + 1)
  BY <1>1 DEF It
<1>3. \A k \in Int : Item(a, k).dv <=> k \in 0 .. z - 1
  <2>1. SUFFICES ASSUME NEW k \in Int PROVE Item(a, k).dv <=> k \in 0 .. z - 1
    OBVIOUS
  <2>2. CASE k \in 0 .. z - 1
    BY <1>1, <2>2 DEF Item
  <2>3. CASE k \notin 0 .. z - 1
    BY <1>1, <2>3 DEF Item, Silence
  <2>4. QED
    BY <2>2, <2>3
<1>4. valid <=> n \in 0 .. z - 1
  BY <1>1, <1>2, <1>3
<1>5. next <=> n + 1 \in 0 .. z - 1
  BY <1>1, <1>2, <1>3
<1>6. valid /\ ~next <=> n = z - 1
  BY <1>1, <1>4, <1>5
<1>7. n % 1 = 0 /\ n \div 1 = n
  BY <1>1
<1>8. valid => data = ByteParts(t, n + 1)
  <2>1. SUFFICES ASSUME n \in 0 .. a.size - 1 PROVE Item(a, n).data = ByteParts(t, n + 1)
    BY <1>1, <1>2, <1>4
  <2>2. Item(a, n).data = IF a.kind \in RgmiiKinds THEN << << t, n + 1, 1 >>, << t, n + 1, 2 >> >>
                          ELSE << << t, n + 1, 1 >> >>
    <3>1. n \div a.cycles + 1 = n + 1 /\ (n % a.cycles) + 1 = 1
      BY <1>1, <1>7
    <3>2. Item(a, n) = [dv   |-> TRUE,
                        data |-> IF a.kind \in RgmiiKinds THEN << << t, n + 1, 1 >>, << t, n + 1, 2 >> >>
                                 ELSE << << t, n + 1, 1 >> >>]
      BY <1>1, <2>1, <3>1, Zenon DEF Item
    <3>3. QED
      BY <3>2
  <2>3. PICK i : i = n + 1
    OBVIOUS
  <2>4. CASE a.kind \in RgmiiKinds
    <3>1. [p \in 1 .. 2 |-> << t, i, p >>] = << << t, i, 1 >>, << t, i, 2 >> >>
      OBVIOUS
    <3>2. PartsPerByte = 2
      BY <2>4
    <3>3. QED
      BY <2>2, <2>3, <2>4, <3>1, <3>2 DEF ByteParts
  <2>5. CASE a.kind \notin RgmiiKinds
    <3>1. [p \in 1 .. 1 |-> << t, i, p >>] = << << t, i, 1 >> >>
      OBVIOUS
    <3>2. PartsPerByte = 1
      BY <2>5
    <3>3. QED
      BY <2>2, <2>3, <2>5, <3>1, <3>2 DEF ByteParts
  <2>6. QED
    BY <2>4, <2>5
<1>9. (n \in 0 .. a.size - 1 /\ n % a.cycles = a.cycles - 1) <=> n \in 0 .. z - 1
  BY <1>1, <1>7
<1>10. n \div a.cycles + 1 = n + 1
  BY <1>7
<1>11. QED
  BY <1>1, <1>4, <1>6, <1>8, <1>9, <1>10 DEF Gives

LEMMA NarrowGives ==
    ASSUME NEW a, Placed(a), a.followed, a.cycles \in {2, 4}, PartsPerByte = a.cycles, NEW n \in Int
    PROVE  LET c == ConvAt(a, n) IN Gives(a, n, c.valid, c.data, c.last)
<1>1. PICK r \in {2, 4}, f \in Nat \ {0}, z \in Nat \ {0} : r = a.cycles /\ z = a.size /\ f = FrameBytes /\ z = f * r
  BY PinConstants DEF Placed
<1>2. CASE n \in 0 .. a.size - 1
  <2>1. PICK c : c = [demux |-> ((n % a.cycles) + 1) % a.cycles,
                      data  |-> [p \in 1 .. (n % a.cycles) + 1 |-> << a.tag, n \div a.cycles + 1, p >>],
                      valid |-> n % a.cycles = a.cycles - 1,
                      last  |-> n = a.size - 1]
    OBVIOUS
  <2>2. ConvAt(a, n) = c
    BY <1>2, <2>1, Zenon DEF ConvAt
  <2>3. (c.valid <=> n % a.cycles = a.cycles - 1) /\ (c.last <=> n = a.size - 1)
    BY <2>1
  <2>4. c.data = [p \in 1 .. (n % a.cycles) + 1 |-> << a.tag, n \div a.cycles + 1, p >>]
    BY <2>1, Zenon
  <2>5. c.valid => c.data = ByteParts(a.tag, n \div a.cycles + 1)
    <3>1. c.valid => (n % a.cycles) + 1 = PartsPerByte
      BY <1>1, <2>3
    <3>2. QED
      BY <2>4, <3>1, Zenon DEF ByteParts
  <2>6. QED
    BY <1>2, <2>2, <2>3, <2>5 DEF Gives
<1>3. CASE n \notin 0 .. a.size - 1
  <2>1. ConvAt(a, n) = ConverterReset
    BY <1>3, ConvOutside
  <2>2. ConverterReset.valid = FALSE /\ ConverterReset.last = FALSE
    BY DEF ConverterReset
  <2>3. n # a.size - 1
    BY <1>1, <1>3
  <2>4. QED
    BY <1>3, <2>1, <2>2, <2>3 DEF Gives
<1>4. QED
  BY <1>2, <1>3

\* What the place tells at any moment.
Here == EnoughGap /\ PinInv /\ PlaceTyped /\ WiresAt(At) /\ RecvAt(At)

LEMMA HereFacts ==
    ASSUME Here, whole
    PROVE  /\ kind \in AllPinKinds /\ At.kind = kind /\ At.followed /\ Placed(At) /\ At.place \in Nat /\ At.cycles = Cycles
           /\ kind \notin RgmiiKinds => PartsPerByte = Cycles
           /\ kind \in RgmiiKinds => PartsPerByte = 2 /\ Cycles = 1
           /\ \A d : Known(At, d)
<1>1. SendInv /\ OneMode /\ whole \in BOOLEAN /\ kind \in AllPinKinds
  BY DEF Here, PinInv, SendInv, PlaceTyped
<1>2. Placed(At)
  BY <1>1, AtPlaced
<1>3. At.kind = kind /\ At.followed /\ At.cycles = Cycles
  BY AtFields
<1>4. At.place \in Nat
  BY <1>2 DEF Placed
<1>5. \A d : Known(At, d)
  BY <1>3 DEF Known
<1>6. QED
  BY <1>1, <1>2, <1>3, <1>4, <1>5, KindFacts

\* A receiver whose source is a register, e + 1 cycles behind.
LEMMA WideSource ==
    ASSUME Here, whole, ~Narrow, kind \notin {"mii", "rmii"}, NEW e \in Nat, Delay = e + 1,
           Kept(At, Delay, recv.valid, recv.data), Following(RxPads) = It(At, e).dv
    PROVE  SourceAt(At, At.place - Delay)
<1>1. Cycles = 1 /\ PartsPerByte = IF At.kind \in RgmiiKinds THEN 2 ELSE 1
  <2>1. Cycles = 1
    BY DEF Cycles
  <2>2. QED
    BY <2>1, HereFacts
<1>2. recv.valid = It(At, e + 1).dv /\ recv.data = It(At, e + 1).data
  BY HereFacts DEF Kept
<1>3. PICK a, n, v, x, y : a = At /\ n = a.place - (e + 1) /\ v = recv.valid /\ x = recv.data /\ y = Following(RxPads)
  OBVIOUS
<1>4. Gives(a, n, v, x, v /\ ~y)
  BY <1>1, <1>2, <1>3, WideGives, HereFacts
<1> DEFINE l == v /\ ~y
<1> HIDE DEF l
<1>5. Source(RxPads) = [valid |-> v, data |-> x, last |-> l]
  BY <1>3 DEF Source, l
<1>6. Source(RxPads).valid = v /\ Source(RxPads).data = x /\ Source(RxPads).last = l
  BY <1>5
<1>7. Gives(a, n, v, x, l)
  BY <1>4 DEF l
<1>8. QED
  BY <1>3, <1>6, <1>7 DEF SourceAt, Gives

\* A receiver whose source is a converter, d cycles behind.
LEMMA NarrowSource ==
    ASSUME Here, whole, Narrow, kind \notin RgmiiKinds, Delay \in Nat, recv.conv = ConvAt(At, At.place - Delay)
    PROVE  SourceAt(At, At.place - Delay)
<1>1. Cycles \in {2, 4} /\ PartsPerByte = Cycles
  <2>1. Cycles \in {2, 4}
    BY DEF Cycles
  <2>2. QED
    BY <2>1, HereFacts
<1>2. PICK a, n, c : a = At /\ n = a.place - Delay /\ c = recv.conv
  OBVIOUS
<1>3. n \in Int
  BY <1>2, HereFacts
<1>4. c = ConvAt(a, n)
  BY <1>2
<1>5. Gives(a, n, c.valid, c.data, c.last)
  BY <1>1, <1>2, <1>3, <1>4, NarrowGives, HereFacts
<1>6. Source(RxPads) = [valid |-> c.valid, data |-> c.data, last |-> c.last]
  BY <1>2 DEF Source
<1>7. Source(RxPads).valid = c.valid /\ Source(RxPads).data = c.data /\ Source(RxPads).last = c.last
  BY <1>6
<1>8. QED
  BY <1>2, <1>5, <1>7 DEF SourceAt, Gives

LEMMA SourceHere == ASSUME Here, whole PROVE SourceAt(At, At.place - Delay)
<1>1. kind \in AllPinKinds /\ (\A d : Known(At, d)) /\ Placed(At) /\ At.kind = kind
  BY HereFacts
<1>2. RecvAt(At) /\ OneMode
  BY DEF Here, PlaceTyped
<1>3. CASE kind \in {"gmii", "model"}
  <2>1. ~Narrow /\ kind \notin {"mii", "rmii"} /\ Delay = 3 /\ 3 = 2 + 1
    BY <1>2, <1>3 DEF Delay, OneMode, Narrow
  <2>2. Kept(At, 3, recv.valid, recv.data)
    BY <1>2, <1>3 DEF RecvAt
  <2>3. RxPads = It(At, 2)
    <3>1. WireLength = 1
      BY <1>3 DEF WireLength
    <3>2. \A j \in 1 .. 1 : wire[j] = It(At, j + 1)
      BY <1>1, <3>1 DEF Here, WiresAt
    <3>3. wire[1] = It(At, 2)
      BY <3>2
    <3>4. QED
      BY <1>3, <3>1, <3>3 DEF RxPads, Oldest
  <2>4. Following(RxPads) = It(At, 2).dv
    BY <1>3, <2>3 DEF Following
  <2>5. QED
    BY <2>1, <2>2, <2>4, WideSource
<1>4. CASE kind \in {"s7rgmii", "usrgmii"}
  <2>1. ~Narrow /\ kind \notin {"mii", "rmii"} /\ Delay = 4 /\ 4 = 3 + 1
    BY <1>2, <1>4 DEF Delay, OneMode, Narrow
  <2>2. Kept(At, 4, recv.valid, recv.data) /\ Kept(At, 3, recv.pads.dv, recv.pads.data)
    BY <1>2, <1>4 DEF RecvAt
  <2>3. Following(RxPads) = It(At, 3).dv
    BY <1>1, <1>4, <2>2 DEF Following, Kept
  <2>4. QED
    BY <2>1, <2>2, <2>3, WideSource
<1>5. CASE kind = "ecp5rgmii"
  <2>1. ~Narrow /\ kind \notin {"mii", "rmii"} /\ Delay = 5 /\ 5 = 4 + 1
    BY <1>2, <1>5 DEF Delay, OneMode, Narrow
  <2>2. Kept(At, 5, recv.valid, recv.data) /\ Kept(At, 4, recv.pads_d.dv, recv.pads_d.data)
    BY <1>2, <1>5 DEF RecvAt
  <2>3. Following(RxPads) = It(At, 4).dv
    BY <1>1, <1>5, <2>2 DEF Following, Kept
  <2>4. QED
    BY <2>1, <2>2, <2>3, WideSource
<1>6. CASE kind = "s6rgmii"
  <2>1. ~Narrow /\ kind \notin {"mii", "rmii"} /\ Delay = 5 /\ 5 = 4 + 1
    BY <1>2, <1>6 DEF Delay, OneMode, Narrow
  <2>2. Kept(At, 5, recv.valid, recv.data) /\ LagAt(At)
    BY <1>2, <1>6 DEF RecvAt
  <2>3. Following(RxPads) = It(At, 4).dv
    BY <1>1, <1>6, <2>2 DEF Following, LagAt
  <2>4. QED
    BY <2>1, <2>2, <2>3, WideSource
<1>7. CASE kind = "altera_rgmii"
  <2>1. ~Narrow /\ kind \notin {"mii", "rmii"} /\ Delay = 6 /\ 6 = 5 + 1
    BY <1>2, <1>7 DEF Delay, OneMode, Narrow
  <2>2. Kept(At, 6, recv.valid, recv.data) /\ Kept(At, 5, recv.reg[1].valid, recv.reg[1].data)
    BY <1>2, <1>7 DEF RecvAt
  <2>3. Following(RxPads) = It(At, 5).dv
    BY <1>1, <1>7, <2>2 DEF Following, Kept
  <2>4. QED
    BY <2>1, <2>2, <2>3, WideSource
<1>8. CASE kind = "gearbox"
  <2>1. ~Narrow /\ kind \notin {"mii", "rmii"} /\ Delay = 8 /\ 8 = 7 + 1
    BY <1>2, <1>8 DEF Delay, OneMode, Narrow
  <2>2. GearAt(At)
    BY <1>2, <1>8 DEF RecvAt
  <2>3. Kept(At, 8, recv.valid, recv.data)
    BY <1>1, <2>2 DEF GearAt, Kept
  <2>4. GearRx = It(At, 7)
    BY <1>1, <2>2, GearSees
  <2>5. Following(RxPads) = It(At, 7).dv
    BY <1>8, <2>4 DEF Following
  <2>6. QED
    BY <2>1, <2>3, <2>5, WideSource
<1>9. CASE kind = "gmii_mii" /\ ~Narrow
  <2>1. Delay = 4 /\ 4 = 3 + 1 /\ kind \notin {"mii", "rmii"}
    BY <1>9 DEF Delay
  <2>2. Kept(At, 4, recv.valid, recv.data) /\ Kept(At, 3, recv.pads_d.dv, recv.pads_d.data)
    BY <1>9, <1>2 DEF RecvAt
  <2>3. Following(RxPads) = It(At, 3).dv
    BY <1>1, <1>9, <2>2 DEF Following, Kept
  <2>4. QED
    BY <1>9, <2>1, <2>2, <2>3, WideSource
<1>10. CASE kind = "gmii_mii" /\ Narrow
  <2>1. Delay = 5 /\ kind \notin RgmiiKinds /\ Cycles = 2
    BY <1>10 DEF Delay, RgmiiKinds, Cycles
  <2>2. MiiAt(At, 4, recv)
    BY <1>2, <1>10 DEF RecvAt
  <2>3. recv.conv = ConvAt(At, At.place - (4 + 1))
    BY <2>1, <2>2, HereFacts, Zenon DEF MiiAt
  <2>4. QED
    BY <1>10, <2>1, <2>3, NarrowSource
<1>11. CASE kind = "mii"
  <2>1. Delay = 4 /\ kind \notin RgmiiKinds /\ Narrow /\ Cycles = 2
    BY <1>11 DEF Delay, RgmiiKinds, Narrow, Cycles
  <2>2. MiiAt(At, 3, recv)
    BY <1>2, <1>11 DEF RecvAt
  <2>3. recv.conv = ConvAt(At, At.place - (3 + 1))
    BY <2>1, <2>2, HereFacts, Zenon DEF MiiAt
  <2>4. QED
    BY <2>1, <2>3, NarrowSource
<1>12. CASE kind = "rmii"
  <2>1. Delay = WireDelay + 5 /\ kind \notin RgmiiKinds /\ Narrow /\ WireDelay \in Nat
    BY <1>12, PinConstants DEF Delay, RgmiiKinds, Narrow
  <2>2. RmiiPlace(At, WireDelay, At.place - WireDelay, recv)
    BY <1>2, <1>12, HereFacts DEF RecvAt, RmiiAt
  <2>3. recv.conv = ConvAt(At, (At.place - WireDelay) - 5)
    BY <2>2 DEF RmiiPlace
  <2>4. At.place - Delay = (At.place - WireDelay) - 5
    BY <2>1, HereFacts
  <2>5. QED
    BY <2>1, <2>3, <2>4, NarrowSource
<1>13. QED
  <2>1. \/ kind \in {"gmii", "model"} \/ kind \in {"s7rgmii", "usrgmii"} \/ kind = "ecp5rgmii" \/ kind = "s6rgmii"
        \/ kind = "altera_rgmii" \/ kind = "gearbox" \/ kind = "gmii_mii" \/ kind = "mii" \/ kind = "rmii"
    BY <1>1 DEF AllPinKinds, RgmiiKinds
  <2>2. QED
    BY <2>1, <1>3, <1>4, <1>5, <1>6, <1>7, <1>8, <1>9, <1>10, <1>11, <1>12

LEMMA OneMoreByte ==
    ASSUME NEW t, NEW m \in Nat PROVE Append(FirstBytes(t, m), ByteParts(t, m + 1)) = FirstBytes(t, m + 1)
<1> DEFINE T(i) == ByteParts(t, i)
           S == {T(i) : i \in Nat}
           c == [i \in 1 .. m |-> T(i)]
           e == T(m + 1)
           l == [i \in 1 .. m + 1 |-> T(i)]
<1>1. \A i \in Nat : T(i) \in S
  OBVIOUS
<1> HIDE DEF S
<1> HIDE DEF T
<1>2. c \in Seq(S) /\ Len(c) = m /\ \A i \in 1 .. m : c[i] = T(i)
  BY <1>1
<1>3. e \in S /\ e = T(m + 1)
  BY <1>1
<1>4. l \in Seq(S) /\ Len(l) = m + 1 /\ \A i \in 1 .. m + 1 : l[i] = T(i)
  BY <1>1
<1> HIDE DEF c, e, l
<1>5. /\ Append(c, e) \in Seq(S) /\ Len(Append(c, e)) = m + 1
      /\ \A i \in 1 .. m : Append(c, e)[i] = c[i]
      /\ Append(c, e)[m + 1] = e
  <2>1. /\ Append(c, e) \in Seq(S) /\ Len(Append(c, e)) = Len(c) + 1
        /\ \A i \in 1 .. Len(c) : Append(c, e)[i] = c[i]
        /\ Append(c, e)[Len(c) + 1] = e
    BY <1>2, <1>3, AppendProperties
  <2>2. Len(c) = m
    BY <1>2
  <2>3. QED
    BY <2>1, <2>2
<1>6. ASSUME NEW i \in 1 .. m + 1 PROVE Append(c, e)[i] = l[i]
  <2>1. CASE i \in 1 .. m
    BY <1>2, <1>4, <1>5, <2>1
  <2>2. CASE i = m + 1
    BY <1>3, <1>4, <1>5, <2>2
  <2>3. i \in 1 .. m \/ i = m + 1
    OBVIOUS
  <2>4. QED
    BY <2>1, <2>2, <2>3
<1>7. Append(c, e) = l
  BY <1>4, <1>5, <1>6, SeqEqual
<1>8. QED
  BY <1>7 DEF c, e, l, T, FirstBytes

\* Where in the frame the n-th part is.
LEMMA PartCounts ==
    ASSUME NEW c \in {1, 2, 4}, NEW f \in Nat \ {0}, NEW z \in Nat \ {0}, z = f * c, NEW n \in 0 .. z - 1
    PROVE  /\ n \div c \in Nat /\ n \div c < f
           /\ n % c = c - 1 => (n + 1) \div c = n \div c + 1 /\ (n = z - 1 <=> n \div c + 1 = f)
           /\ n % c # c - 1 => (n + 1) \div c = n \div c /\ n # z - 1
<1>1. n \in Nat
  OBVIOUS
<1>2. CASE c = 1
  <2>1. z = f /\ n < f
    BY <1>2
  <2>2. n \div 1 = n /\ n % 1 = 0 /\ (n + 1) \div 1 = n + 1
    BY <1>1
  <2>3. n = z - 1 <=> n + 1 = f
    BY <1>1, <2>1
  <2>4. QED
    BY <1>1, <1>2, <2>1, <2>2, <2>3
<1>3. CASE c = 2
  <2>1. z = f * 2 /\ n < f * 2
    BY <1>3
  <2>2. n \div 2 \in Nat /\ n \div 2 < f
    BY <1>1, <2>1
  <2>3. n % 2 = 1 => (n + 1) \div 2 = n \div 2 + 1 /\ (n = z - 1 <=> n \div 2 + 1 = f)
    BY <1>1, <2>1
  <2>4. n % 2 # 1 => (n + 1) \div 2 = n \div 2 /\ n # z - 1
    BY <1>1, <2>1
  <2>5. QED
    BY <1>3, <2>2, <2>3, <2>4
<1>4. CASE c = 4
  <2>1. z = f * 4 /\ n < f * 4
    BY <1>4
  <2>2. n \div 4 \in Nat /\ n \div 4 < f
    BY <1>1, <2>1
  <2>3. n % 4 = 3 => (n + 1) \div 4 = n \div 4 + 1 /\ (n = z - 1 <=> n \div 4 + 1 = f)
    BY <1>1, <2>1
  <2>4. n % 4 # 3 => (n + 1) \div 4 = n \div 4 /\ n # z - 1
    BY <1>1, <2>1
  <2>5. QED
    BY <1>4, <2>2, <2>3, <2>4
<1>5. QED
  BY <1>2, <1>3, <1>4

LEMMA DelayFacts == ASSUME EnoughGap, kind \in AllPinKinds PROVE Delay \in Nat \ {0} /\ Delay < MinGap
<1>1. WireDelay \in Nat \ {0} /\ MinGap \in Nat /\ MinGap >= 9 /\ MinGap >= WireDelay + 6
  BY PinConstants DEF EnoughGap
<1>2. CASE kind = "rmii"
  <2>1. Delay = WireDelay + 5
    BY <1>2 DEF Delay
  <2>2. QED
    BY <1>1, <2>1
<1>3. CASE kind = "gmii_mii"
  <2>1. Delay \in {4, 5}
    BY <1>3 DEF Delay
  <2>2. QED
    BY <1>1, <2>1
<1>4. CASE kind \notin {"rmii", "gmii_mii"}
  <2>1. kind \in {"gmii", "model", "s7rgmii", "usrgmii", "mii", "ecp5rgmii", "s6rgmii", "altera_rgmii", "gearbox"}
    BY <1>4 DEF AllPinKinds, RgmiiKinds
  <2>2. Delay \in {3, 4, 5, 6, 8}
    BY <2>1 DEF Delay
  <2>3. QED
    BY <1>1, <2>2
<1>5. QED
  BY <1>2, <1>3, <1>4

LEMMA NoBytes == ASSUME NEW t PROVE FirstBytes(t, 0) = << >>
  BY DEF FirstBytes

\* What is received of the frame goes on with what the source gives.
LEMMA TakesPart ==
    ASSUME NEW a, Placed(a), NEW n \in Int, NEW r, NEW u,
           u = IF n < a.size THEN a.tag ELSE 1 - a.tag,
           r = FirstBytes(a.tag, IF n \in 0 .. a.size - 1 THEN n \div a.cycles ELSE 0),
           NEW v, NEW x, NEW l, Gives(a, n, v, x, l)
    PROVE  /\ (IF v /\ l THEN 1 - u ELSE u) = IF n + 1 < a.size THEN a.tag ELSE 1 - a.tag
           /\ (IF l THEN << >> ELSE IF v THEN Append(r, x) ELSE r)
                = FirstBytes(a.tag, IF n + 1 \in 0 .. a.size - 1 THEN (n + 1) \div a.cycles ELSE 0)
<1>1. PICK c \in {1, 2, 4}, f \in Nat \ {0}, z \in Nat \ {0}, t \in {0, 1} :
        c = a.cycles /\ z = a.size /\ f = FrameBytes /\ z = f * c /\ t = a.tag
  BY PinConstants DEF Placed
<1>2. /\ v <=> n \in 0 .. z - 1 /\ n % c = c - 1
      /\ v => x = ByteParts(t, n \div c + 1)
      /\ l <=> n = z - 1
  BY <1>1 DEF Gives
<1>3. /\ u = IF n < z THEN t ELSE 1 - t
      /\ r = FirstBytes(t, IF n \in 0 .. z - 1 THEN n \div c ELSE 0)
  BY <1>1
<1>4. CASE n \in 0 .. z - 1
  <2>1. /\ n \div c \in Nat /\ n \div c < f
        /\ n % c = c - 1 => (n + 1) \div c = n \div c + 1 /\ (n = z - 1 <=> n \div c + 1 = f)
        /\ n % c # c - 1 => (n + 1) \div c = n \div c /\ n # z - 1
    <3>1. c \in {1, 2, 4} /\ f \in Nat \ {0} /\ z \in Nat \ {0} /\ z = f * c /\ n \in 0 .. z - 1
      BY <1>1, <1>4
    <3> HIDE <1>1, <1>4
    <3>2. QED
      BY <3>1, PartCounts
  <2>2. PICK m \in Nat : m = n \div c /\ r = FirstBytes(t, m) /\ (v => x = ByteParts(t, m + 1))
    BY <1>2, <1>3, <1>4, <2>1
  <2>3. CASE l
    <3>1. n = z - 1 /\ v
      BY <1>2, <1>4, <2>1, <2>3
    <3>2. u = t /\ ~(n + 1 < z) /\ n + 1 \notin 0 .. z - 1
      BY <1>3, <1>4, <3>1
    <3>3. FirstBytes(t, 0) = << >>
      BY NoBytes
    <3>4. QED
      BY <1>1, <2>3, <3>1, <3>2, <3>3
  <2>4. CASE ~l
    <3>1. n # z - 1 /\ n + 1 < z /\ n + 1 \in 0 .. z - 1 /\ u = t
      BY <1>2, <1>3, <1>4, <2>4
    <3>2. CASE v
      <4>1. (n + 1) \div c = m + 1
        BY <1>2, <2>1, <2>2, <3>2
      <4>2. Append(r, x) = FirstBytes(t, m + 1)
        BY <2>2, <3>2, OneMoreByte
      <4>3. QED
        BY <1>1, <2>4, <3>1, <3>2, <4>1, <4>2
    <3>3. CASE ~v
      <4>1. (n + 1) \div c = m
        BY <1>2, <1>4, <2>1, <2>2, <3>3
      <4>2. QED
        BY <1>1, <2>2, <2>4, <3>1, <3>3, <4>1
    <3>4. QED
      BY <3>2, <3>3
  <2>5. QED
    BY <2>3, <2>4
<1>5. CASE n \notin 0 .. z - 1
  <2>1. ~v /\ ~l /\ r = FirstBytes(t, 0)
    BY <1>1, <1>2, <1>3, <1>5
  <2>2. (IF n + 1 < z THEN t ELSE 1 - t) = u
    BY <1>1, <1>3, <1>5
  <2>3. (IF n + 1 \in 0 .. z - 1 THEN (n + 1) \div c ELSE 0) = 0
    <3>1. n + 1 \in 0 .. z - 1 => n + 1 = 0
      BY <1>1, <1>5
    <3>2. 0 \div c = 0
      BY <1>1
    <3>3. QED
      BY <3>1, <3>2
  <2>4. QED
    BY <1>1, <2>1, <2>2, <2>3
<1>6. QED
  BY <1>4, <1>5

LEMMA SourceGives ==
    ASSUME Here, whole PROVE LET out == Source(RxPads) IN Gives(At, At.place - Delay, out.valid, out.data, out.last)
<1>1. SourceAt(At, At.place - Delay) /\ At.followed
  BY SourceHere, HereFacts
<1>2. QED
  BY <1>1 DEF SourceAt, Gives

\* A frame that begins is followed from its first part.
LEMMA BeginsAt ==
    ASSUME PlaceCycle, Begins, whole' PROVE At'.place = 0 /\ At'.tag = send.tag
<1>1. SendInv /\ PinNext /\ (Narrow' <=> Narrow) /\ (Narrow => send.mux = 1)
  BY CycleFacts, ModeStays DEF PinCycle, PinInv
<1>2. ~SendsByte /\ SendsByte' /\ send'.tag = send.tag /\ send'.i = 1 /\ send'.mux = send.mux
  <2>1. ~SendsByte /\ SendsByte'
    BY DEF Begins, SendsByte
  <2>2. QED
    BY <1>1, <2>1, SendCases
<1>3. At'.place = (1 - 1) * Cycles' + (IF Narrow' THEN send'.mux - 1 ELSE 0)
  BY <1>2, AtNext
<1>4. Cycles' \in {1, 2, 4}
  BY CycleFacts, AtNext DEF Placed
<1>5. (1 - 1) * Cycles' = 0
  <2>1. PICK c \in {1, 2, 4} : c = Cycles'
    BY <1>4
  <2>2. (1 - 1) * 1 = 0 /\ (1 - 1) * 2 = 0 /\ (1 - 1) * 4 = 0
    OBVIOUS
  <2>3. QED
    BY <2>1, <2>2
<1>6. (IF Narrow' THEN send'.mux - 1 ELSE 0) = 0
  BY <1>1, <1>2
<1>7. At'.tag = send.tag
  BY <1>2, AtNext
<1>8. QED
  BY <1>3, <1>5, <1>6, <1>7

\* It is gone on with, or nothing is left of it.
LEMMA GoesOnAt ==
    ASSUME PlaceCycle, ~Begins, whole'
    PROVE  /\ whole /\ At'.cycles = At.cycles /\ At'.size = At.size /\ At'.tag = At.tag
           /\ At'.place = At.place + 1 \/ (At'.place = At.place /\ At.idle = MinGap)
<1>1. Moves(At, At') /\ Placed(At) /\ Placed(At') /\ At'.followed /\ At.followed = whole /\ PinNext /\ SendInv
  BY CycleMoves, CycleFacts DEF PinCycle, PinInv
<1>2. whole
  BY <1>1, ModeStays
<1>3. ~(At.idle = MinGap /\ At'.place = 0)
  <2>1. SUFFICES ASSUME At.idle = MinGap, At'.place = 0 PROVE FALSE
    OBVIOUS
  <2>2. ~SendsByte
    BY <2>1, AtFields, PinConstants
  <2>3. ~SendsByte'
    BY <2>2 DEF Begins, SendsByte
  <2>4. At'.idle # -1
    <3>1. At'.idle = MinGap - send'.gap /\ send'.gap \in 0 .. MinGap
      <4>1. SendInv'
        BY CycleFacts DEF PinCycle, PinInv
      <4>2. send'.gap \in 0 .. MinGap
        BY <4>1 DEF SendInv
      <4>3. QED
        BY <2>3, <4>2, AtNext
    <3>2. QED
      BY <3>1, PinConstants
  <2>5. At'.place = At'.size + At'.idle /\ At'.size \in Nat \ {0} /\ At'.idle \in -1 .. MinGap
    BY <1>1, <2>4 DEF Placed
  <2>6. QED
    BY <2>1, <2>4, <2>5, PinConstants
<1>4. QED
  BY <1>1, <1>2, <1>3 DEF Moves

LEMMA ReceivedStep ==
    ASSUME PlaceCycle, RecvAt(At), ReceivedAt(At, At.place - Delay) PROVE ReceivedAt(At, At.place - Delay)'
<1>1. SUFFICES ASSUME whole' PROVE ReceivedAt(At, At.place - Delay)'
  BY AtNext DEF ReceivedAt
<1>2. /\ kind \in AllPinKinds /\ kind' = kind /\ (Narrow' <=> Narrow) /\ PinNext /\ Follows /\ EnoughGap
      /\ MinGap \in Nat /\ Placed(At) /\ Placed(At') /\ At'.followed
  BY <1>1, CycleFacts, ModeStays DEF PinCycle, PinNext
<1>3. PICK d, k, a, b : d = Delay /\ d \in Nat \ {0} /\ d < MinGap /\ k = PartsPerByte /\ a = At /\ b = At'
  BY <1>2, DelayFacts
<1>4. Delay' = d
  BY <1>2, <1>3 DEF Delay
<1>5. PartsPerByte' = k
  BY <1>2, <1>3 DEF PartsPerByte
<1>6. PICK v, x, l : v = Source(RxPads).valid /\ x = Source(RxPads).data /\ l = Source(RxPads).last
  OBVIOUS
<1>7. /\ due' = IF Begins THEN send.tag ELSE IF v /\ l THEN 1 - due ELSE due
      /\ received' = IF Begins \/ l THEN << >> ELSE IF v THEN Append(received, x) ELSE received
  BY <1>2, <1>6 DEF Follows
<1>8. /\ due' = IF b.place - d < b.size THEN b.tag ELSE 1 - b.tag
      /\ received' = FirstBytes(b.tag, IF b.place - d \in 0 .. b.size - 1 THEN (b.place - d) \div b.cycles ELSE 0)
  <2>1. CASE Begins
    <3>1. b.place = 0 /\ b.tag = send.tag /\ b.size \in Nat
      BY <1>1, <1>2, <1>3, <2>1, BeginsAt DEF Placed
    <3>2. b.place - d < b.size /\ b.place - d \notin 0 .. b.size - 1
      BY <1>3, <3>1
    <3>3. due' = send.tag /\ received' = << >>
      BY <1>7, <2>1
    <3>4. QED
      BY <3>1, <3>2, <3>3, NoBytes
  <2>2. CASE ~Begins
    <3>1. /\ whole /\ b.cycles = a.cycles /\ b.size = a.size /\ b.tag = a.tag
          /\ b.place = a.place + 1 \/ (b.place = a.place /\ a.idle = MinGap)
      BY <1>1, <1>3, <2>2, GoesOnAt
    <3>2. Here
      BY CycleFacts DEF Here, PinCycle
    <3>3. PICK n \in Int : n = a.place - d /\ a.place \in Nat /\ a.size \in Nat \ {0}
      BY <1>2, <1>3 DEF Placed
    <3>4. Gives(a, n, v, x, l)
      BY <1>3, <1>6, <3>1, <3>2, <3>3, SourceGives
    <3>5. /\ due = IF n < a.size THEN a.tag ELSE 1 - a.tag
          /\ received = FirstBytes(a.tag, IF n \in 0 .. a.size - 1 THEN n \div a.cycles ELSE 0)
      BY <1>3, <3>1, <3>3, HereFacts, <3>2 DEF ReceivedAt
    <3>6. CASE b.place = a.place + 1
      <4>1. /\ (IF v /\ l THEN 1 - due ELSE due) = IF n + 1 < a.size THEN a.tag ELSE 1 - a.tag
            /\ (IF l THEN << >> ELSE IF v THEN Append(received, x) ELSE received)
                 = FirstBytes(a.tag, IF n + 1 \in 0 .. a.size - 1 THEN (n + 1) \div a.cycles ELSE 0)
        <5>1. PICK r, u : r = received /\ u = due
          OBVIOUS
        <5>2. /\ (IF v /\ l THEN 1 - u ELSE u) = IF n + 1 < a.size THEN a.tag ELSE 1 - a.tag
              /\ (IF l THEN << >> ELSE IF v THEN Append(r, x) ELSE r)
                   = FirstBytes(a.tag, IF n + 1 \in 0 .. a.size - 1 THEN (n + 1) \div a.cycles ELSE 0)
          BY <1>2, <1>3, <3>4, <3>5, <5>1, TakesPart
        <5>3. QED
          BY <5>1, <5>2
      <4>2. b.place - d = n + 1
        BY <1>3, <3>3, <3>6
      <4>3. QED
        BY <1>7, <2>2, <3>1, <4>1, <4>2
    <3>7. CASE b.place = a.place /\ a.idle = MinGap
      <4>1. n >= a.size /\ n \notin 0 .. a.size - 1 /\ n # a.size - 1
        BY <1>2, <1>3, <3>3, <3>7 DEF Placed
      <4>2. ~v /\ ~l
        BY <3>4, <4>1 DEF Gives
      <4>3. due' = due /\ received' = received
        BY <1>7, <2>2, <4>2
      <4>4. b.place - d = n
        BY <3>3, <3>7
      <4>5. QED
        BY <3>1, <3>5, <4>1, <4>3, <4>4
    <3>8. QED
      BY <3>1, <3>6, <3>7
  <2>3. QED
    BY <2>1, <2>2
<1>9. received' = [i \in 1 .. (IF b.place - d \in 0 .. b.size - 1 THEN (b.place - d) \div b.cycles ELSE 0) |->
                     [p \in 1 .. k |-> << b.tag, i, p >>]]
  BY <1>3, <1>8, Zenon DEF FirstBytes, ByteParts
<1>10. due' = IF At'.place - Delay' < At'.size THEN At'.tag ELSE 1 - At'.tag
  BY <1>3, <1>4, <1>8
<1>11. received' = [i \in 1 .. (IF At'.place - Delay' \in 0 .. At'.size - 1
                                THEN (At'.place - Delay') \div At'.cycles ELSE 0) |->
                      [p \in 1 .. PartsPerByte' |-> << At'.tag, i, p >>]]
  <2>1. b = At' /\ d = Delay' /\ k = PartsPerByte'
    BY <1>3, <1>4, <1>5
  <2>2. QED
    BY <1>9, <2>1
<1>12. QED
  BY <1>10, <1>11 DEF ReceivedAt, FirstBytes, ByteParts

LEMMA TypedStep == ASSUME PinInv, PlaceTyped, PinNext PROVE PlaceTyped'
<1>1. kind' = kind /\ (kind # "gmii_mii" => detect' = detect) /\ OneMode
  BY DEF PinNext, PlaceTyped
<1>2. OneMode'
  BY <1>1 DEF OneMode, Mode
<1>3. whole' \in BOOLEAN
  <2>1. Follows
    BY DEF PinNext
  <2>2. whole' = /\ whole \/ Begins
                 /\ Begins => hwReset = 0 /\ (Narrow => send.mux = 1)
                 /\ Mode = speed' /\ Mode = detect'.mode
    BY <2>1 DEF Follows
  <2>3. QED
    BY <2>2, Zenon
<1>4. QED
  BY <1>2, <1>3 DEF PlaceTyped

LEMMA PlaceStep == ASSUME EnoughGap, PinInv, PinInv', PlaceTyped, PlaceInv, PinNext PROVE PlaceTyped' /\ PlaceInv'
<1>1. PlaceTyped'
  BY TypedStep
<1>2. PlaceCycle /\ RecvAt(At) /\ ReceivedAt(At, At.place - Delay)
  BY <1>1 DEF PlaceCycle, PinCycle, PlaceInv
<1>3. WiresAt(At)'
  BY <1>2, WiresStep DEF PlaceCycle
<1>4. RecvAt(At)' /\ ReceivedAt(At, At.place - Delay)'
  BY <1>2, RecvAtStep, ReceivedStep
<1>5. whole' => hwReset' = 0
  <2>1. SUFFICES ASSUME whole' PROVE hwReset = 0
    BY DEF PinNext
  <2>2. whole \/ (Begins /\ hwReset = 0)
    BY <2>1, ModeStays
  <2>3. QED
    BY <2>2 DEF PlaceInv
<1>6. QED
  BY <1>1, <1>3, <1>4, <1>5 DEF PlaceInv

LEMMA PlaceRests ==
    ASSUME kind \in AllPinKinds, PlaceTyped, PlaceInv, UNCHANGED pinVars PROVE PlaceTyped' /\ PlaceInv'
<1>1. /\ kind' = kind /\ hwReset' = hwReset /\ send' = send /\ txPads' = txPads /\ wire' = wire /\ gear' = gear
      /\ recv' = recv /\ received' = received /\ whole' = whole /\ due' = due /\ detect' = detect
  BY DEF pinVars
<1>2. Mode' = Mode /\ (Narrow' <=> Narrow) /\ (SendsByte' <=> SendsByte)
  BY <1>1 DEF Mode, Narrow, SendsByte
<1>3. Cycles' = Cycles /\ Delay' = Delay /\ PartsPerByte' = PartsPerByte /\ WireLength' = WireLength
  BY <1>1, <1>2 DEF Cycles, Delay, PartsPerByte, WireLength
<1>4. At' = At
  BY <1>1, <1>2, <1>3 DEF At
<1>5. PlaceTyped'
  BY <1>1, <1>2 DEF PlaceTyped, OneMode
<1>6. WiresAt(At)'
  <2>1. WiresAt(At)
    BY DEF PlaceInv
  <2>2. QED
    BY <1>1, <1>2, <1>3, <1>4, <2>1 DEF WiresAt
<1>7. RecvAt(At)'
  <2>1. RecvAt(At)
    BY DEF PlaceInv
  <2>2. GearAt(At) => GearAt(At)'
    BY <1>1, <1>4 DEF GearAt, GearTyped, Phased
  <2>3. LagAt(At) => LagAt(At)'
    BY <1>1, <1>4 DEF LagAt
  <2>4. CASE kind = "gearbox"
    <3>1. GearAt(At)'
      BY <2>1, <2>2, <2>4 DEF RecvAt
    <3>2. QED
      BY <1>1, <2>4, <3>1 DEF RecvAt
  <2>5. CASE Lagging
    <3>1. LagAt(At)'
      BY <2>1, <2>3, <2>5 DEF RecvAt, Lagging
    <3>2. QED
      BY <1>1, <1>4, <2>1, <2>5, <3>1 DEF RecvAt, Lagging
  <2>6. CASE kind # "gearbox" /\ ~Lagging
    <3>1. CASE kind \in {"gmii", "model", "s7rgmii", "usrgmii", "ecp5rgmii"}
      BY <1>1, <1>4, <2>1, <3>1 DEF RecvAt
    <3>2. CASE kind \in {"mii", "rmii", "gmii_mii"}
      BY <1>1, <1>4, <2>1, <3>2 DEF RecvAt
    <3>3. kind \in {"gmii", "model", "s7rgmii", "usrgmii", "ecp5rgmii"} \/ kind \in {"mii", "rmii", "gmii_mii"}
      BY <2>6 DEF AllPinKinds, RgmiiKinds, Lagging
    <3>4. QED
      BY <3>1, <3>2, <3>3
  <2>7. QED
    BY <2>4, <2>5, <2>6
<1>8. ReceivedAt(At, At.place - Delay)'
  <2>1. ReceivedAt(At, At.place - Delay)
    BY DEF PlaceInv
  <2>2. QED
    BY <1>1, <1>3, <1>4, <2>1 DEF ReceivedAt, FirstBytes, ByteParts
<1>9. QED
  BY <1>1, <1>5, <1>6, <1>7, <1>8 DEF PlaceInv

\* Nothing has been sent.
LEMMA PlaceInit == Init => PlaceTyped /\ PlaceInv
<1>1. SUFFICES ASSUME Init PROVE PlaceTyped /\ PlaceInv
  OBVIOUS
<1>2. /\ kind \in AllPinKinds /\ send = [tag |-> 0, i |-> 0, mux |-> 1, gap |-> 0] /\ Mode = "GMII"
      /\ txPads = [m \in Modes |-> Silence] /\ wire = [n \in 1 .. WireLength |-> Silence]
      /\ recv = RecvReset /\ whole = FALSE
      /\ \E tx_edge, rx_edge \in (IF kind = "gearbox" THEN BOOLEAN ELSE {FALSE}) : gear = GearReset(tx_edge, rx_edge)
  BY <1>1, PinAssumption DEF Init, PinInit, Mode, PinAssumption
<1>3. PlaceTyped
  BY <1>2 DEF PlaceTyped, OneMode
<1>4. At.followed = FALSE
  BY <1>2, AtFields
<1>5. \A d : It(At, d) = Silence
  BY <1>4 DEF It
<1>6. Silence.dv = FALSE /\ Silence.data = << >>
  BY DEF Silence
<1>7. \A d : Kept(At, d, FALSE, << >>)
  BY <1>5, <1>6 DEF Kept
<1>8. WiresAt(At)
  BY <1>2, <1>5 DEF WiresAt, Modes
<1>9. /\ recv.valid = FALSE /\ recv.data = << >> /\ recv.reg = << Empty, Empty >> /\ recv.conv = ConverterReset
      /\ recv.fsm = "IDLE" /\ recv.fall = << >> /\ recv.pads = LagReset /\ recv.pads_d = LagReset
  BY <1>2 DEF RecvReset
<1>10. recv.reg[1] = Empty /\ recv.reg[2] = Empty /\ recv.reg[1].valid = FALSE /\ recv.reg[1].data = << >>
  BY <1>9 DEF Empty
<1>11. ~Lagging => recv.pads = Silence /\ recv.pads_d = Silence
  BY <1>9 DEF LagReset
<1>12. RecvAt(At)
  <2>1. CASE kind \in {"gmii", "model", "s7rgmii", "usrgmii", "ecp5rgmii"}
    <3>1. Kept(At, 3, recv.pads.dv, recv.pads.data) /\ Kept(At, 4, recv.pads_d.dv, recv.pads_d.data)
      BY <1>6, <1>7, <1>11, <2>1 DEF Lagging
    <3>2. Kept(At, 3, recv.valid, recv.data) /\ Kept(At, 4, recv.valid, recv.data) /\ Kept(At, 5, recv.valid, recv.data)
      BY <1>7, <1>9
    <3>3. QED
      BY <2>1, <3>1, <3>2 DEF RecvAt
  <2>2. CASE Lagging
    <3>1. LagReset = [dv |-> FALSE, data |-> << << >>, << >> >>]
      BY <2>2 DEF LagReset
    <3>2. /\ recv.pads.dv = FALSE /\ recv.pads.data[1] = << >> /\ recv.pads.data[2] = << >>
          /\ recv.pads_d.dv = FALSE /\ recv.pads_d.data[1] = << >>
      BY <1>9, <3>1
    <3>3. Nibble(Silence.data, 1) = << >> /\ Nibble(Silence.data, 2) = << >>
      BY <1>6 DEF Nibble
    <3>4. LagAt(At)
      BY <1>5, <1>6, <1>9, <3>2, <3>3 DEF LagAt
    <3>5. Kept(At, 5, recv.valid, recv.data) /\ Kept(At, 6, recv.valid, recv.data)
      BY <1>7, <1>9
    <3>6. Kept(At, 5, recv.reg[1].valid, recv.reg[1].data)
      BY <1>7, <1>10
    <3>7. recv.reg = << recv.reg[1], recv.reg[2] >>
      BY <1>9, <1>10
    <3>8. QED
      BY <2>2, <3>4, <3>5, <3>6, <3>7 DEF RecvAt, Lagging
  <2>3. CASE kind = "gearbox"
    <3>1. PICK x \in BOOLEAN, y \in BOOLEAN : gear = GearReset(x, y)
      BY <1>2, <2>3
    <3>2. /\ gear.tx_edge = x /\ gear.rx_edge = y /\ gear.phase_half = 0 /\ gear.phase_half_rereg = 0
          /\ gear.buf = << Silence, Silence >> /\ gear.tx_data_half = << Silence, Silence >>
          /\ gear.bits = << Silence, Silence >> /\ gear.rx_data_half = << Silence, Silence >>
          /\ DOMAIN gear = {"tx_edge", "rx_edge", "buf", "tx_data_half", "bits", "rx_data_half", "phase_half", "phase_half_rereg"}
      BY <3>1 DEF GearReset
    <3>3. GearTyped
      BY <3>2 DEF GearTyped
    <3>4. /\ gear.buf[1] = Silence /\ gear.buf[2] = Silence /\ gear.bits[1] = Silence /\ gear.bits[2] = Silence
          /\ gear.tx_data_half[1] = Silence /\ gear.tx_data_half[2] = Silence
          /\ gear.rx_data_half[1] = Silence /\ gear.rx_data_half[2] = Silence
      BY <3>2
    <3>5. recv.valid = It(At, 8).dv /\ recv.data = It(At, 8).data
      BY <1>5, <1>6, <1>9
    <3>6. GearAt(At)
      BY <1>4, <1>5, <3>3, <3>4, <3>5, Zenon DEF GearAt
    <3>7. QED
      BY <2>3, <3>6 DEF RecvAt
  <2>4. CASE kind \in {"mii", "gmii_mii"}
    <3>1. recv.pads = Silence /\ recv.pads_d = Silence
      BY <1>11, <2>4 DEF Lagging
    <3>2. MiiAt(At, 3, recv) /\ MiiAt(At, 4, recv)
      BY <1>4, <1>9, <3>1, MiiResetAt
    <3>3. Kept(At, 3, recv.pads_d.dv, recv.pads_d.data) /\ Kept(At, 4, recv.valid, recv.data)
      BY <1>6, <1>7, <1>9, <3>1
    <3>4. QED
      BY <2>4, <3>2, <3>3 DEF RecvAt
  <2>5. CASE kind = "rmii"
    <3>1. recv.pads = Silence /\ recv.pads_d = Silence
      BY <1>11, <2>5 DEF Lagging
    <3>2. RmiiAt(At, WireDelay, recv)
      BY <1>4, <1>9, <1>10, <3>1, RmiiResetAt
    <3>3. QED
      BY <2>5, <3>2 DEF RecvAt
  <2>6. QED
    BY <1>2, <2>1, <2>2, <2>3, <2>4, <2>5 DEF AllPinKinds, RgmiiKinds, Lagging
<1>13. ReceivedAt(At, At.place - Delay)
  BY <1>4 DEF ReceivedAt
<1>14. QED
  BY <1>2, <1>3, <1>8, <1>12, <1>13 DEF PlaceInv

PlaceAll == PinInv /\ PlaceTyped /\ PlaceInv

LEMMA PlaceAllInit == Init => PlaceAll
  BY PinInvInit, PlaceInit DEF PlaceAll

LEMMA PlaceAllPreserved == EnoughGap /\ PlaceAll /\ [Next]_vars => PlaceAll'
<1>1. SUFFICES ASSUME EnoughGap, PlaceAll, [Next]_vars PROVE PlaceAll'
  OBVIOUS
<1>2. PinInv /\ PinInv' /\ PlaceTyped /\ PlaceInv
  BY <1>1, PinInvPreserved DEF PlaceAll
<1>3. CASE PinStep
  BY <1>1, <1>2, <1>3, PlaceStep DEF PlaceAll, PinStep
<1>4. CASE UNCHANGED pinVars
  <2>1. kind \in AllPinKinds
    BY <1>2 DEF PinInv, SendInv
  <2>2. QED
    BY <1>2, <1>4, <2>1, PlaceRests DEF PlaceAll
<1>5. QED
  BY <1>1, <1>3, <1>4 DEF Next, PcsStep, vars

LEMMA FrameBytesFirst ==
    ASSUME NEW t, NEW m \in Nat, m <= FrameBytes
    PROVE  Len(FirstBytes(t, m)) = m /\ FirstBytes(t, m) = SubSeq(Frame(t), 1, m)
<1> DEFINE T(i) == ByteParts(t, i)
           g == [i \in 1 .. m |-> T(i)]
           h == [i \in 1 .. FrameBytes |-> T(i)]
<1> HIDE DEF T
<1>1. FrameBytes \in Nat
  BY PinConstants
<1>2. Len(g) = m
  OBVIOUS
<1>3. Len(h) = FrameBytes
  BY <1>1
<1>4. SubSeq(h, 1, m) = [i \in 1 .. m |-> h[i]]
  BY <1>1, <1>3
<1>5. [i \in 1 .. m |-> h[i]] = g
  BY <1>1
<1>6. FirstBytes(t, m) = g /\ Frame(t) = h
  BY DEF FirstBytes, Frame, T
<1>7. QED
  BY <1>2, <1>4, <1>5, <1>6

LEMMA PlaceFrames == EnoughGap /\ PlaceAll => FramesIntact
<1>1. SUFFICES ASSUME EnoughGap, PlaceAll, whole PROVE FramesIntact
  BY DEF FramesIntact
<1>2. Here /\ PinInv /\ PlaceInv
  BY <1>1 DEF Here, PlaceAll, PlaceInv
<1>3. PICK a, d, n, v, x, l :
        /\ a = At /\ d = Delay /\ n = a.place - d
        /\ v = Source(RxPads).valid /\ x = Source(RxPads).data /\ l = Source(RxPads).last
  OBVIOUS
<1>4. Placed(a) /\ a.followed /\ kind \in AllPinKinds /\ d \in Nat \ {0} /\ d < MinGap /\ n \in Int
  BY <1>1, <1>2, <1>3, HereFacts, DelayFacts DEF Placed
<1>5. PICK c \in {1, 2, 4}, f \in Nat \ {0}, z \in Nat \ {0}, t \in {0, 1} :
        c = a.cycles /\ z = a.size /\ f = FrameBytes /\ z = f * c /\ t = a.tag
  BY <1>4, PinConstants DEF Placed
<1>6. /\ v <=> n \in 0 .. z - 1 /\ n % c = c - 1
      /\ v => x = ByteParts(t, n \div c + 1)
      /\ l <=> n = z - 1
  <2>1. Gives(a, n, v, x, l)
    BY <1>1, <1>2, <1>3, SourceGives
  <2>2. QED
    BY <1>5, <2>1 DEF Gives
<1>7. /\ due = IF n < z THEN t ELSE 1 - t
      /\ received = FirstBytes(t, IF n \in 0 .. z - 1 THEN n \div c ELSE 0)
  <2>1. ReceivedAt(a, n)
    BY <1>2, <1>3 DEF PlaceInv
  <2>2. QED
    BY <1>4, <1>5, <2>1 DEF ReceivedAt
<1>8. n \in 0 .. z - 1 =>
        /\ n \div c \in Nat /\ n \div c < f
        /\ n % c = c - 1 => (n = z - 1 <=> n \div c + 1 = f)
        /\ n % c # c - 1 => n # z - 1
  <2>1. SUFFICES ASSUME n \in 0 .. z - 1
                 PROVE  /\ n \div c \in Nat /\ n \div c < f
                        /\ n % c = c - 1 => (n = z - 1 <=> n \div c + 1 = f)
                        /\ n % c # c - 1 => n # z - 1
    OBVIOUS
  <2>2. c \in {1, 2, 4} /\ f \in Nat \ {0} /\ z \in Nat \ {0} /\ z = f * c
    BY <1>5
  <2> HIDE <1>5
  <2>3. QED
    BY <2>1, <2>2, PartCounts
<1>9. ASSUME v
      PROVE  LET now == Append(received, x)
             IN  Len(now) <= FrameBytes /\ now = SubSeq(Frame(due), 1, Len(now)) /\ (l <=> Len(now) = FrameBytes)
  <2>1. n \in 0 .. z - 1 /\ n % c = c - 1 /\ due = t
    BY <1>6, <1>7, <1>9
  <2>2. PICK m \in Nat : m = n \div c /\ m < f /\ received = FirstBytes(t, m) /\ x = ByteParts(t, m + 1)
    BY <1>6, <1>7, <1>8, <1>9, <2>1
  <2>3. Append(received, x) = FirstBytes(t, m + 1)
    BY <2>2, OneMoreByte
  <2>4. m + 1 \in Nat /\ m + 1 <= FrameBytes
    BY <1>5, <2>2
  <2>5. Len(FirstBytes(t, m + 1)) = m + 1 /\ FirstBytes(t, m + 1) = SubSeq(Frame(t), 1, m + 1)
    BY <2>4, FrameBytesFirst
  <2>6. l <=> m + 1 = FrameBytes
    BY <1>5, <1>6, <1>8, <2>1, <2>2
  <2>7. QED
    BY <2>1, <2>3, <2>4, <2>5, <2>6
<1>10. l => v
  <2>1. SUFFICES ASSUME l PROVE v
    OBVIOUS
  <2>2. n = z - 1 /\ n \in 0 .. z - 1
    BY <1>5, <1>6, <2>1
  <2>3. QED
    BY <1>6, <1>8, <2>2
<1>11. ASSUME send.i = 0, send.gap = 0 PROVE due = send.tag /\ received = << >>
  <2>1. a.idle = MinGap /\ t = 1 - send.tag
    <3>1. ~SendsByte
      BY <1>11 DEF SendsByte
    <3>2. QED
      BY <1>3, <1>5, <1>11, <3>1, AtFields, PinConstants
  <2>2. n >= z
    BY <1>3, <1>4, <1>5, <2>1, PinConstants DEF Placed
  <2>3. send.tag \in {0, 1}
    BY <1>2 DEF PinInv, SendInv
  <2>4. due = 1 - t /\ received = FirstBytes(t, 0)
    BY <1>4, <1>5, <1>7, <2>2
  <2>5. QED
    BY <2>1, <2>3, <2>4, NoBytes
<1>12. QED
  BY <1>3, <1>9, <1>10, <1>11 DEF FramesIntact

\* A frame that begins with a receiver out of reset comes out whole through every
\* PHY, whatever was there before it (LiteEthPHY*RX, Gearbox).
THEOREM FramesPassWhole == ASSUME EnoughGap PROVE Spec => []FramesIntact
<1>1. Init => PlaceAll
  BY PlaceAllInit
<1>2. PlaceAll /\ [Next]_vars => PlaceAll'
  BY PlaceAllPreserved
<1>3. PlaceAll => FramesIntact
  BY PlaceFrames
<1>4. QED
  BY <1>1, <1>2, <1>3, PTL DEF Spec
=============================================================================
