---------------------------- MODULE MacTxProofs -----------------------------
(***************************************************************************)
(* Theorems about MacTx, for any number of slots, any sizes of slots,      *)
(* words, frames and FIFOs, and any lengths of preamble, CRC, gap and      *)
(* least frame.  First slots and timestamps, of which the order of the     *)
(* stages says nothing; then that MacTx implements FrameChannel: whatever  *)
(* the stages hold is a piece of a frame that goes on where the next       *)
(* stage's piece ends.                                                     *)
(***************************************************************************)
EXTENDS MacTx, SetInduction, FiniteSetTheorems

(* FIFOs of entries that name a slot. *)

LEMMA TailSlots ==
    ASSUME NEW R, NEW q \in Seq(R), q # << >>, Distinct(q)
    PROVE  /\ Distinct(Tail(q))
           /\ SlotsOf(Tail(q)) = SlotsOf(q) \ {Head(q).slot}
           /\ Head(q).slot \in SlotsOf(q)
           /\ \A i \in 1 .. Len(Tail(q)) : \E j \in 1 .. Len(q) : Tail(q)[i] = q[j]
<1>1. /\ Len(q) \in Nat \ {0} /\ Len(Tail(q)) = Len(q) - 1 /\ Head(q) = q[1]
      /\ \A i \in 1 .. Len(Tail(q)) : Tail(q)[i] = q[i + 1]
  BY EmptySeq, HeadTailProperties
<1>2. \A i \in 1 .. Len(Tail(q)) : i + 1 \in 1 .. Len(q) /\ i + 1 # 1
  BY <1>1
<1>3. \A j \in 1 .. Len(q) : j # 1 => j - 1 \in 1 .. Len(Tail(q)) /\ (j - 1) + 1 = j
  BY <1>1
<1>4. Distinct(Tail(q))
  <2> SUFFICES ASSUME NEW i \in 1 .. Len(Tail(q)), NEW j \in 1 .. Len(Tail(q)),
                      Tail(q)[i].slot = Tail(q)[j].slot
               PROVE  i = j
    BY DEF Distinct
  <2>1. q[i + 1].slot = q[j + 1].slot
    BY <1>1
  <2>2. i + 1 = j + 1
    BY <1>2, <2>1 DEF Distinct
  <2>3. QED
    BY <1>1, <2>2
<1>5. 1 \in 1 .. Len(q)
  BY <1>1
<1>6. SlotsOf(Tail(q)) \subseteq SlotsOf(q) \ {Head(q).slot}
  <2> SUFFICES ASSUME NEW i \in 1 .. Len(Tail(q))
               PROVE  /\ Tail(q)[i].slot \in SlotsOf(q)
                      /\ Tail(q)[i].slot # q[1].slot
    BY <1>1 DEF SlotsOf
  <2>1. Tail(q)[i] = q[i + 1] /\ i + 1 \in 1 .. Len(q) /\ i + 1 # 1
    BY <1>1, <1>2
  <2>2. q[i + 1].slot # q[1].slot
    BY <1>5, <2>1 DEF Distinct
  <2>3. QED
    BY <2>1, <2>2 DEF SlotsOf
<1>7. SlotsOf(q) \ {Head(q).slot} \subseteq SlotsOf(Tail(q))
  <2> SUFFICES ASSUME NEW j \in 1 .. Len(q), q[j].slot # q[1].slot
               PROVE  q[j].slot \in SlotsOf(Tail(q))
    BY <1>1 DEF SlotsOf
  <2>1. j - 1 \in 1 .. Len(Tail(q)) /\ Tail(q)[j - 1] = q[j]
    BY <1>1, <1>3
  <2>2. QED
    BY <2>1 DEF SlotsOf
<1>8. QED
  BY <1>1, <1>2, <1>4, <1>5, <1>6, <1>7 DEF SlotsOf

LEMMA PushSlots ==
    ASSUME NEW R, NEW q \in Seq(R), NEW e \in R, Distinct(q), e.slot \notin SlotsOf(q)
    PROVE  /\ q \o << e >> \in Seq(R)
           /\ Distinct(q \o << e >>)
           /\ SlotsOf(q \o << e >>) = SlotsOf(q) \cup {e.slot}
           /\ \A i \in 1 .. Len(q \o << e >>) :
                 \/ (q \o << e >>)[i] = e
                 \/ \E j \in 1 .. Len(q) : (q \o << e >>)[i] = q[j]
           /\ q # << >> => Head(q \o << e >>) = Head(q)
<1> DEFINE p == q \o << e >>
<1>1. /\ p \in Seq(R) /\ Len(q) \in Nat /\ Len(p) = Len(q) + 1
      /\ \A i \in 1 .. Len(q) : p[i] = q[i]
      /\ p[Len(q) + 1] = e
  BY AppendProperties, AppendIsConcat, LenProperties
<1>2. p # << >> /\ (q # << >> => 1 \in 1 .. Len(q))
  BY <1>1, EmptySeq
<1> HIDE DEF p
<1>3. \A i \in 1 .. Len(p) : i = Len(q) + 1 \/ i \in 1 .. Len(q)
  BY <1>1
<1>4. \A i \in 1 .. Len(q) : q[i].slot \in SlotsOf(q) /\ i \in 1 .. Len(p)
  BY <1>1 DEF SlotsOf
<1>5. Distinct(p)
  <2> SUFFICES ASSUME NEW i \in 1 .. Len(p), NEW j \in 1 .. Len(p), p[i].slot = p[j].slot
               PROVE  i = j
    BY DEF Distinct
  <2>1. CASE i \in 1 .. Len(q) /\ j \in 1 .. Len(q)
    BY <1>1, <2>1 DEF Distinct
  <2>2. CASE i = Len(q) + 1 \/ j = Len(q) + 1
    BY <1>1, <1>3, <1>4, <2>2
  <2>3. QED
    BY <1>3, <2>1, <2>2
<1>6. SlotsOf(p) = SlotsOf(q) \cup {e.slot}
  <2>1. Len(q) + 1 \in 1 .. Len(p)
    BY <1>1
  <2>2. QED
    BY <1>1, <1>3, <1>4, <2>1 DEF SlotsOf
<1>7. q # << >> => Head(p) = Head(q)
  BY <1>1, <1>2, HeadTailProperties
<1>8. QED
  BY <1>1, <1>3, <1>5, <1>6, <1>7 DEF p

\* A FIFO of nslots entries with slots of their own has every slot in it.
LEMMA RoomForSlot ==
    ASSUME NEW R, NEW q \in Seq(R), Distinct(q), SlotsOf(q) \subseteq Slots,
           NEW s \in Slots, s \notin SlotsOf(q)
    PROVE  Len(q) < NSlots
<1> DEFINE f == [i \in 1 .. Len(q) |-> q[i].slot]
<1>1. Len(q) \in Nat /\ NSlots \in Nat \ {0}
  BY LenProperties, MacTxAssumption DEF MacTxAssumption
<1>2. f \in [1 .. Len(q) -> Slots \ {s}]
  BY DEF SlotsOf
<1>3. IsFiniteSet(Slots) /\ Cardinality(Slots) = NSlots
  <2>1. IsFiniteSet(0 .. NSlots - 1) /\ Cardinality(0 .. NSlots - 1) = (NSlots - 1) - 0 + 1
    BY <1>1, FS_Interval
  <2>2. QED
    BY <1>1, <2>1 DEF Slots
<1>4. IsFiniteSet(Slots \ {s}) /\ Cardinality(Slots \ {s}) = NSlots - 1
  BY <1>3, FS_RemoveElement
<1>5. IsFiniteSet(1 .. Len(q)) /\ Cardinality(1 .. Len(q)) = Len(q)
  BY <1>1, FS_Interval
<1>6. ASSUME ~(Len(q) < NSlots) PROVE FALSE
  <2>1. Cardinality(Slots \ {s}) < Cardinality(1 .. Len(q))
    BY <1>1, <1>4, <1>5, <1>6
  <2> HIDE DEF f
  <2>2. PICK x, y \in 1 .. Len(q) : x # y /\ f[x] = f[y]
    BY <1>2, <1>4, <1>5, <2>1, FS_PigeonHole
  <2>3. QED
    BY <2>2 DEF f, Distinct
<1>7. QED
  BY <1>6

-----------------------------------------------------------------------------
(* The reader's two FIFOs in one cycle. *)

\* The slots software gives away and takes back.
Started(start) == {start[i].slot : i \in DOMAIN start}
Returned(clear) == IF clear THEN {Head(stat).slot} ELSE {}
Ended == IF reader = "END" THEN {Head(cmd).slot} ELSE {}

LEMMA PlacesFacts ==
    ASSUME PlacesInv
    PROVE  /\ SlotsOf(cmd) \subseteq Slots /\ SlotsOf(stat) \subseteq Slots /\ free \subseteq Slots
           /\ reader = "END" => /\ cmd # << >> /\ Head(cmd).slot \in SlotsOf(cmd)
                                /\ [slot |-> Head(cmd).slot, stamp |-> stamp] \in Statuses
<1>1. SlotsOf(cmd) \subseteq Slots /\ SlotsOf(stat) \subseteq Slots /\ free \subseteq Slots
  BY DEF PlacesInv
<1>2. reader = "END" => cmd # << >> /\ Head(cmd).slot \in SlotsOf(cmd)
  BY TailSlots DEF PlacesInv
<1>3. reader = "END" => [slot |-> Head(cmd).slot, stamp |-> stamp] \in Statuses
  BY <1>1, <1>2 DEF PlacesInv, Statuses
<1>4. QED
  BY <1>1, <1>2, <1>3

LEMMA StartFacts ==
    ASSUME NEW start \in {<< >>} \cup Commands
    PROVE  \/ start = << >> /\ Started(start) = {}
           \/ \E s \in free, n \in CpuSizes :
                 /\ start = << [slot |-> s, length |-> n] >>
                 /\ Started(start) = {s}
  BY DEF Commands, Started

LEMMA CmdStep ==
    ASSUME PlacesInv, NEW start \in {<< >>} \cup Commands,
           cmd' = (IF PopsCommand THEN Tail(cmd) ELSE cmd) \o Pushed(cmd, start)
    PROVE  /\ cmd' \in Seq(Commanded) /\ Distinct(cmd')
           /\ SlotsOf(cmd') = (SlotsOf(cmd) \ Ended) \cup Started(start)
           /\ cmd # << >> /\ reader # "END" => cmd' # << >> /\ Head(cmd') = Head(cmd)
<1> DEFINE kept == IF PopsCommand THEN Tail(cmd) ELSE cmd
<1>1. /\ kept \in Seq(Commanded) /\ Distinct(kept) /\ SlotsOf(kept) = SlotsOf(cmd) \ Ended
      /\ cmd # << >> /\ reader # "END" => kept = cmd
  <2>1. CASE reader = "END"
    BY <2>1, PlacesFacts, TailSlots, HeadTailProperties DEF PlacesInv, PopsCommand, Ended
  <2>2. CASE reader # "END"
    BY <2>2 DEF PlacesInv, PopsCommand, Ended
  <2>3. QED
    BY <2>1, <2>2
<1>2. cmd' = kept \o Pushed(cmd, start)
  OBVIOUS
<1> HIDE DEF kept
<1>3. CASE start = << >>
  <2>1. Pushed(cmd, start) = << >> /\ Started(start) = {}
    BY <1>3, StartFacts DEF Pushed
  <2>2. cmd' = kept
    BY <1>1, <1>2, <2>1, ConcatEmptySeq
  <2>3. QED
    BY <1>1, <2>1, <2>2
<1>4. CASE start # << >>
  <2>1. PICK s \in free, n \in CpuSizes :
            start = << [slot |-> s, length |-> n] >> /\ Started(start) = {s}
    BY <1>4, StartFacts
  <2> DEFINE e == [slot |-> s, length |-> n]
  <2>2. s \in Slots /\ s \notin SlotsOf(cmd) /\ e \in Commanded /\ e.slot = s
    BY PlacesFacts DEF PlacesInv, Commanded
  <2>3. Len(cmd) < NSlots
    BY <2>2, PlacesFacts, RoomForSlot DEF PlacesInv
  <2>4. cmd' = kept \o << e >>
    BY <1>2, <2>1, <2>3 DEF Pushed
  <2> HIDE DEF e
  <2>5. e.slot \notin SlotsOf(kept)
    BY <1>1, <2>2
  <2>6. /\ kept \o << e >> \in Seq(Commanded) /\ Distinct(kept \o << e >>)
        /\ SlotsOf(kept \o << e >>) = SlotsOf(kept) \cup {e.slot}
        /\ kept # << >> => Head(kept \o << e >>) = Head(kept)
    BY <1>1, <2>2, <2>5, PushSlots
  <2>7. kept \o << e >> # << >>
    BY <1>1, <2>2, AppendProperties, AppendIsConcat
  <2>8. QED
    BY <1>1, <2>1, <2>2, <2>4, <2>6, <2>7
<1>5. QED
  BY <1>3, <1>4

LEMMA StatStep ==
    ASSUME PlacesInv, NEW clear \in {FALSE} \cup {stat # << >>}, NEW start,
           ReaderFifos(start, clear)
    PROVE  /\ stat' \in Seq(Statuses) /\ Distinct(stat')
           /\ Returned(clear) \subseteq SlotsOf(stat)
           /\ SlotsOf(stat') = (SlotsOf(stat) \ Returned(clear)) \cup Ended
           /\ \A i \in 1 .. Len(stat') :
                 \/ reader = "END" /\ stat'[i] = [slot |-> Head(cmd).slot, stamp |-> stamp]
                 \/ \E j \in 1 .. Len(stat) : stat'[i] = stat[j]
<1> DEFINE kept == IF clear THEN Tail(stat) ELSE stat
           done == [slot |-> Head(cmd).slot, stamp |-> stamp]
<1>1. /\ kept \in Seq(Statuses) /\ Distinct(kept)
      /\ Returned(clear) \subseteq SlotsOf(stat) /\ SlotsOf(kept) = SlotsOf(stat) \ Returned(clear)
      /\ \A i \in 1 .. Len(kept) : \E j \in 1 .. Len(stat) : kept[i] = stat[j]
  <2>1. CASE clear
    <3>1. stat # << >> /\ stat \in Seq(Statuses) /\ Distinct(stat)
      BY <2>1 DEF PlacesInv
    <3>2. kept = Tail(stat) /\ Returned(clear) = {Head(stat).slot}
      BY <2>1 DEF Returned
    <3>3. QED
      BY <3>1, <3>2, TailSlots, HeadTailProperties
  <2>2. CASE ~clear
    BY <2>2 DEF PlacesInv, Returned
  <2>3. QED
    BY <2>1, <2>2
<1>2. stat' = kept \o Pushed(stat, IF reader = "END" THEN << done >> ELSE << >>)
  BY DEF ReaderFifos, PushesStatus
<1> HIDE DEF kept, done
<1>3. CASE reader # "END"
  <2>1. Pushed(stat, IF reader = "END" THEN << done >> ELSE << >>) = << >>
    BY <1>3 DEF Pushed
  <2>2. stat' = kept
    BY <1>1, <1>2, <2>1, ConcatEmptySeq
  <2>3. QED
    BY <1>1, <1>3, <2>2 DEF Ended
<1>4. CASE reader = "END"
  <2>1. /\ done \in Statuses /\ done.slot = Head(cmd).slot
        /\ done.slot \in Slots /\ done.slot \notin SlotsOf(stat)
    BY <1>4, PlacesFacts DEF PlacesInv, done
  <2>2. Len(stat) < NSlots
    BY <2>1, PlacesFacts, RoomForSlot DEF PlacesInv
  <2>3. stat' = kept \o << done >>
    BY <1>2, <1>4, <2>2 DEF Pushed
  <2>4. done.slot \notin SlotsOf(kept)
    BY <1>1, <2>1
  <2>5. /\ kept \o << done >> \in Seq(Statuses) /\ Distinct(kept \o << done >>)
        /\ SlotsOf(kept \o << done >>) = SlotsOf(kept) \cup {done.slot}
        /\ \A i \in 1 .. Len(kept \o << done >>) :
              \/ (kept \o << done >>)[i] = done
              \/ \E j \in 1 .. Len(kept) : (kept \o << done >>)[i] = kept[j]
    BY <1>1, <2>1, <2>4, PushSlots
  <2>6. SlotsOf(stat') = (SlotsOf(stat) \ Returned(clear)) \cup Ended
    BY <1>1, <1>4, <2>1, <2>3, <2>5 DEF Ended
  <2>7. QED
    BY <1>1, <1>4, <2>3, <2>5, <2>6 DEF done
<1>5. QED
  BY <1>3, <1>4

-----------------------------------------------------------------------------
(* The invariant. *)

LEMMA SysStep ==
    ASSUME PlacesInv, SysCycle
    PROVE  PlacesInv'
<1>1. PICK start \in {<< >>} \cup Commands, clear \in {FALSE} \cup {stat # << >>},
           offer \in {<< >>} \cup (IF hw = << >> THEN Offers ELSE {}) :
         Software(start, clear) /\ ReaderFifos(start, clear) /\ ReaderFsm /\ HandedIn(start, offer)
  BY DEF SysCycle
<1>2. /\ cmd' \in Seq(Commanded) /\ Distinct(cmd')
      /\ SlotsOf(cmd') = (SlotsOf(cmd) \ Ended) \cup Started(start)
      /\ cmd # << >> /\ reader # "END" => cmd' # << >> /\ Head(cmd') = Head(cmd)
  BY <1>1, CmdStep DEF ReaderFifos
<1>3. /\ stat' \in Seq(Statuses) /\ Distinct(stat')
      /\ Returned(clear) \subseteq SlotsOf(stat)
      /\ SlotsOf(stat') = (SlotsOf(stat) \ Returned(clear)) \cup Ended
      /\ \A i \in 1 .. Len(stat') :
            \/ reader = "END" /\ stat'[i] = [slot |-> Head(cmd).slot, stamp |-> stamp]
            \/ \E j \in 1 .. Len(stat) : stat'[i] = stat[j]
  BY <1>1, StatStep
<1>4. Started(start) \subseteq free /\ Ended \subseteq SlotsOf(cmd)
  BY StartFacts, PlacesFacts DEF Ended
<1>5. free' = (free \ Started(start)) \cup Returned(clear)
  <2>1. {c.slot : c \in {start[i] : i \in DOMAIN start}} = Started(start)
    BY DEF Started
  <2>2. QED
    BY <1>1, <2>1 DEF Software, Returned
<1>6. /\ slot' \in [Slots -> FramesOf("cpu") \cup {<< >>}]
      /\ \A s \in Slots \ Started(start) : slot'[s] = slot[s]
      /\ \A s \in Started(start) : slot'[s] \in FramesOf("cpu")
  <2>1. slot' = [s \in Slots |-> IF start # << >> /\ s = start[1].slot
                                 THEN CpuFrame(start[1].length) ELSE slot[s]]
    BY <1>1 DEF Software
  <2>2. CASE start = << >>
    BY <2>1, <2>2, StartFacts DEF PlacesInv
  <2>3. CASE start # << >>
    <3>1. PICK s \in free, n \in CpuSizes :
              start = << [slot |-> s, length |-> n] >> /\ Started(start) = {s}
      BY <2>3, StartFacts
    <3>2. start[1].slot = s /\ start[1].length = n /\ s \in Slots
      BY <3>1, PlacesFacts
    <3>3. CpuFrame(n) \in FramesOf("cpu")
      BY DEF PlacesInv, CpuFrame, FramesOf, SizesOf
    <3>4. QED
      BY <2>1, <2>3, <3>1, <3>2, <3>3 DEF PlacesInv
  <2>4. QED
    BY <2>2, <2>3
<1>7. reader' \in {"IDLE", "SEND", "END"}
  BY <1>1 DEF ReaderFsm, PlacesInv
<1>8. tag'["cpu"] \in 0 .. Tags - 1
  <2>1. Tags \in Nat \ {0} /\ tag["cpu"] \in 0 .. Tags - 1
    BY MacTxAssumption DEF MacTxAssumption, PlacesInv
  <2>2. tag' = [s \in Senders |-> (tag[s] + Len([cpu |-> IF start = << >> THEN << >>
                                                        ELSE << CpuFrame(start[1].length) >>,
                                                 hw  |-> offer][s])) % Tags]
    BY <1>1 DEF HandedIn
  <2>3. tag'["cpu"] = (tag["cpu"] + Len(IF start = << >> THEN << >>
                                        ELSE << CpuFrame(start[1].length) >>)) % Tags
    BY <2>2 DEF Senders
  <2>4. Len(IF start = << >> THEN << >> ELSE << CpuFrame(start[1].length) >>) \in {0, 1}
    OBVIOUS
  <2> HIDE DEF CpuFrame
  <2>5. QED
    BY <2>1, <2>3, <2>4
<1>9. \A s \in SlotsOf(cmd) \cup SlotsOf(stat) : slot'[s] = slot[s] /\ slot[s] \in FramesOf("cpu")
  BY <1>4, <1>6, PlacesFacts DEF PlacesInv
<1>10. \A f \in FramesOf("cpu") : f.tag \in 0 .. Tags - 1
  BY DEF FramesOf
<1>11. /\ stamp' \in 0 .. Tags - 1
       /\ reader' # "IDLE" => cmd' # << >> /\ stamp' = slot'[Head(cmd').slot].tag
  <2>1. cmd # << >> => Head(cmd).slot \in SlotsOf(cmd)
    BY TailSlots DEF PlacesInv
  <2>2. CASE reader = "IDLE" /\ cmd # << >>
    <3>1. stamp' = slot[Head(cmd).slot].tag /\ Head(cmd') = Head(cmd) /\ cmd' # << >>
      BY <1>1, <1>2, <2>2 DEF ReaderFsm, StampLatched
    <3>2. QED
      BY <1>9, <1>10, <2>1, <2>2, <3>1
  <2>3. CASE ~(reader = "IDLE" /\ cmd # << >>)
    <3>1. stamp' = stamp /\ (reader' # "IDLE" => reader = "SEND")
      BY <1>1, <2>3 DEF ReaderFsm, StampLatched, PlacesInv
    <3>2. reader = "SEND" => /\ cmd # << >> /\ cmd' # << >> /\ Head(cmd') = Head(cmd)
                             /\ stamp = slot[Head(cmd).slot].tag
      BY <1>2 DEF PlacesInv
    <3>3. QED
      BY <1>9, <2>1, <3>1, <3>2 DEF PlacesInv
  <2>4. QED
    BY <2>2, <2>3
<1>12. \A i \in 1 .. Len(stat') : stat'[i].stamp = slot'[stat'[i].slot].tag
  <2> SUFFICES ASSUME NEW i \in 1 .. Len(stat')
               PROVE  stat'[i].stamp = slot'[stat'[i].slot].tag
    OBVIOUS
  <2>1. CASE reader = "END" /\ stat'[i] = [slot |-> Head(cmd).slot, stamp |-> stamp]
    <3>1. Head(cmd).slot \in SlotsOf(cmd) /\ stamp = slot[Head(cmd).slot].tag
      BY <2>1, PlacesFacts DEF PlacesInv
    <3>2. QED
      BY <1>9, <2>1, <3>1
  <2>2. CASE \E j \in 1 .. Len(stat) : stat'[i] = stat[j]
    <3>1. PICK j \in 1 .. Len(stat) : stat'[i] = stat[j]
      BY <2>2
    <3>2. stat[j].slot \in SlotsOf(stat)
      BY DEF SlotsOf
    <3>3. QED
      BY <1>9, <3>1, <3>2 DEF PlacesInv
  <2>3. QED
    BY <1>3, <2>1, <2>2
<1>13. /\ free' \cup SlotsOf(cmd') \cup SlotsOf(stat') = Slots
       /\ free' \cap SlotsOf(cmd') = {} /\ free' \cap SlotsOf(stat') = {}
       /\ SlotsOf(cmd') \cap SlotsOf(stat') = {}
  BY <1>2, <1>3, <1>4, <1>5 DEF PlacesInv
<1>14. \A s \in Slots \ free' : slot'[s] \in FramesOf("cpu")
  BY <1>2, <1>3, <1>4, <1>5, <1>6, <1>9, <1>13
<1>15. QED
  BY <1>2, <1>3, <1>6, <1>7, <1>8, <1>11, <1>12, <1>13, <1>14 DEF PlacesInv

LEMMA PlacesStep == PlacesInv /\ [Next]_vars => PlacesInv'
<1>1. ASSUME PlacesInv, UNCHANGED sysVars PROVE PlacesInv'
  <2>1. UNCHANGED << slot, free, cmd, stat, reader, stamp, tag >>
    BY <1>1 DEF sysVars, softVars, readerVars
  <2>2. QED
    BY <1>1, <2>1 DEF PlacesInv
<1>2. TxCycle => UNCHANGED sysVars
  BY DEF TxCycle, Padding_IDLE, Padding_PADDING, Crc_IDLE, Crc_COPY, Crc_CRC, Preamble_IDLE,
         Preamble_PREAMBLE, Gap_GAP
<1>3. UNCHANGED vars => UNCHANGED sysVars
  BY DEF vars
<1>4. QED
  BY <1>1, <1>2, <1>3, SysStep DEF Next

LEMMA PlacesInit == Init => PlacesInv
<1> SUFFICES ASSUME Init PROVE PlacesInv
  OBVIOUS
<1>1. /\ cmd \in Seq(Commanded) /\ stat \in Seq(Statuses) /\ Len(cmd) = 0 /\ Len(stat) = 0
  BY EmptySeq DEF Init
<1>2. SlotsOf(cmd) = {} /\ SlotsOf(stat) = {} /\ Distinct(cmd) /\ Distinct(stat)
  BY <1>1 DEF SlotsOf, Distinct
<1>3. Tags \in Nat \ {0}
  BY MacTxAssumption DEF MacTxAssumption
<1>4. tag["cpu"] = 0 /\ stamp = 0 /\ reader = "IDLE"
  BY DEF Init, Senders
<1>5. slot \in [Slots -> FramesOf("cpu") \cup {<< >>}] /\ free = Slots
  BY DEF Init
<1>6. QED
  BY <1>1, <1>2, <1>3, <1>4, <1>5 DEF PlacesInv

-----------------------------------------------------------------------------
(* The theorems. *)

\* Software's slots, the reader's commands and its statuses are the slots, each
\* once, and a frame stays in its slot while it is sent.
THEOREM PlacesKept == Spec => []PlacesInv
  BY PlacesInit, PlacesStep, PTL DEF Spec

\* No slot is lost: neither FIFO of LiteEthMACSRAMReader (sram.py:168-180) drops an
\* entry, though nothing looks at stat_fifo.sink.ready.
THEOREM NoSlotLost == Spec => []SlotsAccounted
<1>1. PlacesInv => SlotsAccounted
  <2> SUFFICES ASSUME PlacesInv, NEW s \in Slots
               PROVE  LET commands == {i \in DOMAIN cmd : cmd[i].slot = s}
                          statuses == {i \in DOMAIN stat : stat[i].slot = s}
                      IN  \/ s \in free /\ commands = {} /\ statuses = {}
                          \/ \E i \in DOMAIN cmd : s \notin free /\ commands = {i} /\ statuses = {}
                          \/ \E i \in DOMAIN stat : s \notin free /\ commands = {} /\ statuses = {i}
    BY DEF SlotsAccounted
  <2> DEFINE commands == {i \in DOMAIN cmd : cmd[i].slot = s}
             statuses == {i \in DOMAIN stat : stat[i].slot = s}
  <2>1. DOMAIN cmd = 1 .. Len(cmd) /\ DOMAIN stat = 1 .. Len(stat)
    BY LenProperties DEF PlacesInv
  <2>2. s \notin SlotsOf(cmd) => commands = {}
    BY <2>1 DEF SlotsOf
  <2>3. s \notin SlotsOf(stat) => statuses = {}
    BY <2>1 DEF SlotsOf
  <2>4. ASSUME s \in SlotsOf(cmd) PROVE \E i \in DOMAIN cmd : commands = {i}
    <3>1. PICK i \in DOMAIN cmd : cmd[i].slot = s
      BY <2>1, <2>4 DEF SlotsOf
    <3>2. commands = {i}
      BY <2>1, <3>1 DEF Distinct, PlacesInv
    <3>3. QED
      BY <3>2
  <2>5. ASSUME s \in SlotsOf(stat) PROVE \E i \in DOMAIN stat : statuses = {i}
    <3>1. PICK i \in DOMAIN stat : stat[i].slot = s
      BY <2>1, <2>5 DEF SlotsOf
    <3>2. statuses = {i}
      BY <2>1, <3>1 DEF Distinct, PlacesInv
    <3>3. QED
      BY <3>2
  <2> HIDE DEF commands, statuses
  <2>6. \/ s \in free /\ commands = {} /\ statuses = {}
        \/ \E i \in DOMAIN cmd : s \notin free /\ commands = {i} /\ statuses = {}
        \/ \E i \in DOMAIN stat : s \notin free /\ commands = {} /\ statuses = {i}
    BY <2>2, <2>3, <2>4, <2>5 DEF PlacesInv
  <2>7. QED
    BY <2>6 DEF commands, statuses
<1>2. QED
  BY <1>1, PlacesKept, PTL

\* Every status carries the time its own frame began, though the timestamp register
\* is shared by all the frames and latched long before the status is pushed.
THEOREM StampIsOwn == Spec => []StampOfItsFrame
<1>1. PlacesInv => StampOfItsFrame
  BY LenProperties DEF PlacesInv, StampOfItsFrame
<1>2. QED
  BY <1>1, PlacesKept, PTL

-----------------------------------------------------------------------------
(* Counting. *)

LEMMA Divided ==
    ASSUME NEW W \in Nat \ {0}, NEW a \in Nat
    PROVE  a = W * (a \div W) + (a % W) /\ a % W \in 0 .. W - 1 /\ a \div W \in Nat
  OBVIOUS

LEMMA OneMultiple ==
    ASSUME NEW W \in Nat \ {0}, NEW p \in Int, NEW q \in Int, NEW r \in Nat, NEW s \in Nat,
           r < W, s < W, W * p + r = W * q + s
    PROVE  r = s
<1>1. W * (p - q) = s - r
  OBVIOUS
<1>2. CASE p - q >= 1
  <2>1. W * (p - q) >= W
    BY <1>2
  <2>2. QED
    BY <1>1, <2>1
<1>3. CASE p - q <= -1
  <2>1. W * (p - q) <= -W
    BY <1>3
  <2>2. QED
    BY <1>1, <2>1
<1>4. CASE p - q = 0
  BY <1>1, <1>4
<1>5. QED
  BY <1>2, <1>3, <1>4

LEMMA SmallMod ==
    ASSUME NEW W \in Nat \ {0}, NEW a \in 0 .. W - 1 PROVE a % W = a
  OBVIOUS

LEMMA ModMultiple ==
    ASSUME NEW W \in Nat \ {0}, NEW a \in Nat, NEW r \in 0 .. W, a % W = 0
    PROVE  (a + r) % W = r % W
<1>0. r \in Nat /\ a + r \in Nat
  OBVIOUS
<1>1. a = W * (a \div W) /\ a \div W \in Nat
  BY Divided
<1>2. (a + r) = W * ((a + r) \div W) + ((a + r) % W) /\ (a + r) % W \in 0 .. W - 1 /\ (a + r) \div W \in Nat
  BY <1>0, Divided
<1>3. r = W * (r \div W) + (r % W) /\ r % W \in 0 .. W - 1 /\ r \div W \in Nat
  BY <1>0, Divided
<1> DEFINE A == a \div W
           B == (a + r) \div W
           C == r \div W
           m == (a + r) % W
           n == r % W
<1>4. a = W * A /\ a + r = W * B + m /\ r = W * C + n /\ A \in Nat /\ B \in Nat /\ C \in Nat
      /\ m \in 0 .. W - 1 /\ n \in 0 .. W - 1
  BY <1>1, <1>2, <1>3
<1> HIDE DEF A, B, C, m, n
<1>5. W * (A + C) + n = W * B + m
  BY <1>4
<1>6. m = n
  BY <1>4, <1>5, OneMultiple
<1>7. QED
  BY <1>6 DEF m, n

LEMMA EndOfWord ==
    ASSUME NEW W \in Nat \ {0} PROVE W % W = 0
<1>1. W = W * (W \div W) + (W % W) /\ W % W \in 0 .. W - 1 /\ W \div W \in Nat
  BY Divided
<1> DEFINE q == W \div W
           r == W % W
<1>2. W = W * q + r /\ r \in 0 .. W - 1 /\ q \in Nat
  BY <1>1
<1> HIDE DEF q, r
<1>3. W * 1 + 0 = W * q + r
  BY <1>2
<1>4. r = 0
  BY <1>2, <1>3, OneMultiple
<1>5. QED
  BY <1>4 DEF r

LEMMA SamePlace ==
    ASSUME NEW W \in Nat \ {0}, NEW x \in 1 .. W, NEW y \in 1 .. W, x % W = y % W
    PROVE  x = y
<1>1. x # W => x % W = x
  BY SmallMod
<1>2. y # W => y % W = y
  BY SmallMod
<1>3. QED
  BY <1>1, <1>2, EndOfWord

\* The byte at which last_be ends a frame of n bytes is its n-th: LastWord and last_be
\* are both cut to their width, to no effect on the lengths there are.
EndLaw(W, L, n, c, m) ==
    /\ (n - W) % L = n - W
    /\ c < n - W => (c + W) % L = c + W /\ (c + W) % W = 0 /\ c + W < n
    /\ c + m < n => (c >= n - W /\ n % W = (m + 1) % W <=> c + m + 1 = n)

LEMMA EndOfFrame ==
    ASSUME NEW W \in Nat \ {0}, NEW L \in Nat, NEW n \in W .. L - W, NEW c \in Nat, NEW m \in 0 .. W - 1,
           c % W = 0, c < n
    PROVE  EndLaw(W, L, n, c, m)
<1>1. n \in Nat /\ L \in Nat \ {0} /\ n - W \in 0 .. L - 1 /\ m + 1 \in 1 .. W
  OBVIOUS
<1>2. (n - W) % L = n - W
  BY <1>1, SmallMod
<1>3. ASSUME c < n - W PROVE (c + W) % L = c + W /\ (c + W) % W = 0 /\ c + W < n
  <2>1. c + W \in 0 .. L - 1 /\ c + W < n /\ W \in 0 .. W
    BY <1>3
  <2>2. (c + W) % W = W % W
    BY <2>1, ModMultiple
  <2>3. QED
    BY <1>1, <2>1, <2>2, SmallMod, EndOfWord
<1>4. ASSUME c + m < n, c >= n - W, n % W = (m + 1) % W PROVE c + m + 1 = n
  <2>1. n - c \in 1 .. W /\ n - c \in 0 .. W /\ c + (n - c) = n
    BY <1>1, <1>4
  <2>2. n % W = (n - c) % W
    BY <2>1, ModMultiple
  <2>3. n - c = m + 1
    BY <1>1, <1>4, <2>1, <2>2, SamePlace
  <2>4. QED
    BY <2>3
<1>5. ASSUME c + m + 1 = n PROVE c >= n - W /\ n % W = (m + 1) % W
  <2>1. m + 1 \in 0 .. W /\ c + (m + 1) = n /\ c >= n - W
    BY <1>5
  <2>2. QED
    BY <2>1, ModMultiple
<1>6. QED
  BY <1>2, <1>3, <1>4, <1>5 DEF EndLaw

-----------------------------------------------------------------------------
(* Prefixes of sequences, and of frames. *)

LEMMA Prefixes ==
    ASSUME NEW S, NEW s \in Seq(S), NEW n \in 0 .. Len(s)
    PROVE  /\ SubSeq(s, 1, n) \in Seq(S) /\ Len(SubSeq(s, 1, n)) = n
           /\ \A i \in 1 .. n : SubSeq(s, 1, n)[i] = s[i]
           /\ n < Len(s) => SubSeq(s, 1, n + 1) = Append(SubSeq(s, 1, n), s[n + 1])
           /\ SubSeq(s, 1, 0) = << >> /\ SubSeq(s, 1, Len(s)) = s
<1>1. Len(s) \in Nat /\ n \in Nat /\ \A i \in 1 .. Len(s) : s[i] \in S
  BY LenProperties, ElementOfSeq
<1>2. SubSeq(s, 1, n) \in Seq(S) /\ Len(SubSeq(s, 1, n)) = n /\ \A i \in 1 .. n : SubSeq(s, 1, n)[i] = s[i]
  BY <1>1, SubSeqProperties
<1>3. ASSUME n < Len(s) PROVE SubSeq(s, 1, n + 1) = Append(SubSeq(s, 1, n), s[n + 1])
  <2>1. n + 1 \in 1 .. Len(s)
    BY <1>1, <1>3
  <2>2. /\ SubSeq(s, 1, n + 1) \in Seq(S) /\ Len(SubSeq(s, 1, n + 1)) = n + 1
        /\ \A i \in 1 .. n + 1 : SubSeq(s, 1, n + 1)[i] = s[i]
    BY <1>1, <2>1, SubSeqProperties
  <2>3. /\ Append(SubSeq(s, 1, n), s[n + 1]) \in Seq(S) /\ Len(Append(SubSeq(s, 1, n), s[n + 1])) = n + 1
        /\ \A i \in 1 .. n : Append(SubSeq(s, 1, n), s[n + 1])[i] = s[i]
        /\ Append(SubSeq(s, 1, n), s[n + 1])[n + 1] = s[n + 1]
    BY <1>1, <1>2, <2>1, AppendProperties
  <2>4. \A i \in 1 .. n + 1 : SubSeq(s, 1, n + 1)[i] = Append(SubSeq(s, 1, n), s[n + 1])[i]
    BY <1>1, <2>2, <2>3
  <2>5. QED
    BY <2>2, <2>3, <2>4, SeqEqual
<1>4. SubSeq(s, 1, 0) = << >>
  BY <1>1, SubSeqProperties
<1>5. SubSeq(s, 1, Len(s)) = s
  <2>1. /\ SubSeq(s, 1, Len(s)) \in Seq(S) /\ Len(SubSeq(s, 1, Len(s))) = Len(s)
        /\ \A i \in 1 .. Len(s) : SubSeq(s, 1, Len(s))[i] = s[i]
    BY <1>1, SubSeqProperties
  <2>2. QED
    BY <2>1, SeqEqual
<1>6. QED
  BY <1>2, <1>3, <1>4, <1>5

LEMMA Joined ==
    ASSUME NEW S, NEW a \in Seq(S), NEW b \in Seq(S), NEW m \in Nat, NEW n \in Nat,
           Len(a) = m, Len(b) = n
    PROVE  /\ a \o b \in Seq(S) /\ Len(a \o b) = m + n
           /\ \A k \in 1 .. m : (a \o b)[k] = a[k]
           /\ \A k \in 1 .. n : (a \o b)[m + k] = b[k]
<1>1. /\ a \o b \in Seq(S) /\ Len(a \o b) = m + n
      /\ \A i \in 1 .. m + n : (a \o b)[i] = IF i <= m THEN a[i] ELSE b[i - m]
  BY ConcatProperties
<1>2. \A k \in 1 .. m : k \in 1 .. m + n /\ k <= m
  OBVIOUS
<1>3. \A k \in 1 .. n : m + k \in 1 .. m + n /\ ~(m + k <= m) /\ m + k - m = k
  OBVIOUS
<1>4. QED
  BY <1>1, <1>2, <1>3

PadBytes  == {BodyByte(f, i) : f \in Frames, i \in 1 .. CountRange} \cup {Zero}
WireBytes == PadBytes \cup {PreambleByte(k) : k \in 1 .. PreambleLength}
               \cup {CrcByte(c, k) : c \in Seq(PadBytes), k \in 1 .. CrcLength}

LEMMA Constants ==
    /\ PreambleLength \in Nat \ {0} /\ MinLength \in Nat \ {0} /\ CrcLength \in Nat \ {0}
    /\ NSlots \in Nat \ {0} /\ WordBytes \in Nat \ {0} /\ LengthRange \in Nat \ {0}
    /\ Depth \in Nat \ {0} /\ GapLength \in Nat \ {0} /\ Tags \in Nat \ {0}
    /\ CountRange \in Nat /\ MinLength <= CountRange
  BY FrameAssumption, MacTxAssumption DEF FrameAssumption, MacTxAssumption

LEMMA FrameFacts ==
    ASSUME NEW f \in Frames
    PROVE  /\ f.from \in Senders /\ f \in FramesOf(f.from)
           /\ f.size \in Nat \ {0} /\ f.size <= CountRange
           /\ PaddedLength(f) \in Nat \ {0} /\ PaddedLength(f) <= CountRange
           /\ f.size <= PaddedLength(f) /\ MinLength <= PaddedLength(f)
           /\ PaddedLength(f) = f.size \/ (PaddedLength(f) = MinLength /\ f.size < MinLength)
<1>1. PICK s \in Senders : f \in FramesOf(s)
  BY DEF Frames
<1>2. f.from = s /\ f.size \in SizesOf(s)
  BY <1>1 DEF FramesOf
<1>3. f.size \in Nat \ {0} /\ f.size <= CountRange
  <2>1. CASE s = "cpu"
    <3>1. f.size \in CpuSizes
      BY <1>2, <2>1 DEF SizesOf
    <3>2. f.size \in WordBytes .. LengthRange - WordBytes /\ f.size <= CountRange
      BY <3>1, MacTxAssumption DEF MacTxAssumption
    <3>3. QED
      BY <3>2, Constants
  <2>2. CASE s # "cpu"
    <3>1. f.size \in HwSizes
      BY <1>2, <2>2 DEF SizesOf
    <3>2. QED
      BY <3>1, MacTxAssumption DEF MacTxAssumption
  <2>3. QED
    BY <2>1, <2>2
<1>4. QED
  BY <1>1, <1>2, <1>3, Constants DEF PaddedLength

LEMMA CpuFrameFacts ==
    ASSUME NEW f \in FramesOf("cpu")
    PROVE  f \in Frames /\ f.from = "cpu" /\ f.size \in CpuSizes /\ f.size \in WordBytes .. LengthRange - WordBytes
<1>1. f \in Frames /\ f.from = "cpu" /\ f.size \in CpuSizes
  BY DEF Frames, FramesOf, SizesOf, Senders
<1>2. QED
  BY <1>1, MacTxAssumption DEF MacTxAssumption

LEMMA PaddedFacts ==
    ASSUME NEW f \in Frames
    PROVE  /\ Padded(f) \in Seq(PadBytes) /\ Len(Padded(f)) = PaddedLength(f)
           /\ \A i \in 1 .. PaddedLength(f) : Padded(f)[i] = IF i <= f.size THEN BodyByte(f, i) ELSE Zero
           /\ Padded(f)[1] = BodyByte(f, 1)
<1> DEFINE byte(i) == IF i <= f.size THEN BodyByte(f, i) ELSE Zero
<1>1. /\ f.size \in Nat \ {0} /\ f.size <= CountRange /\ PaddedLength(f) \in Nat \ {0}
      /\ f.size <= PaddedLength(f)
  BY FrameFacts
<1>2. \A i \in 1 .. PaddedLength(f) : byte(i) \in PadBytes
  <2> SUFFICES ASSUME NEW i \in 1 .. PaddedLength(f) PROVE byte(i) \in PadBytes
    OBVIOUS
  <2>1. CASE i <= f.size
    <3>1. i \in 1 .. CountRange
      BY <1>1, <2>1, Constants
    <3>2. QED
      BY <2>1, <3>1 DEF PadBytes
  <2>2. CASE ~(i <= f.size)
    BY <2>2 DEF PadBytes
  <2>3. QED
    BY <2>1, <2>2
<1>3. Padded(f) = [i \in 1 .. PaddedLength(f) |-> byte(i)]
  BY DEF Padded
<1> HIDE DEF byte
<1>4. Padded(f) \in Seq(PadBytes) /\ Len(Padded(f)) = PaddedLength(f)
      /\ \A i \in 1 .. PaddedLength(f) : Padded(f)[i] = byte(i)
  BY <1>1, <1>2, <1>3
<1>5. byte(1) = BodyByte(f, 1) /\ 1 \in 1 .. PaddedLength(f)
  BY <1>1 DEF byte
<1>6. QED
  BY <1>4, <1>5 DEF byte

LEMMA EmptyPadded ==
    ASSUME NEW f \in Frames PROVE Padded(f) # << >> /\ Padded(f)[1].frame = f
<1>1. Len(Padded(f)) # 0 /\ Padded(f)[1] = BodyByte(f, 1)
  BY PaddedFacts, FrameFacts
<1>2. QED
  BY <1>1 DEF BodyByte

LEMMA FramedFacts ==
    ASSUME NEW f \in Frames
    PROVE  /\ Framed(f) \in Seq(WireBytes) /\ Framed(f) # << >>
           /\ Len(Framed(f)) = PreambleLength + PaddedLength(f) + CrcLength
           /\ \A k \in 1 .. PreambleLength : Framed(f)[k] = PreambleByte(k)
           /\ \A k \in 1 .. PaddedLength(f) : Framed(f)[PreambleLength + k] = Padded(f)[k]
           /\ \A k \in 1 .. CrcLength :
                 Framed(f)[PreambleLength + PaddedLength(f) + k] = CrcByte(Padded(f), k)
<1>1. /\ Preamble \in Seq(WireBytes) /\ Len(Preamble) = PreambleLength
      /\ \A k \in 1 .. PreambleLength : Preamble[k] = PreambleByte(k)
  <2>1. \A k \in 1 .. PreambleLength : PreambleByte(k) \in WireBytes
    BY DEF WireBytes
  <2>2. Preamble = [k \in 1 .. PreambleLength |-> PreambleByte(k)]
    BY DEF Preamble
  <2>3. QED
    BY <2>1, <2>2, Constants
<1>2. /\ Padded(f) \in Seq(PadBytes) /\ Padded(f) \in Seq(WireBytes) /\ Len(Padded(f)) = PaddedLength(f)
      /\ PaddedLength(f) \in Nat \ {0}
  <2>1. Padded(f) \in Seq(PadBytes) /\ Len(Padded(f)) = PaddedLength(f) /\ PaddedLength(f) \in Nat \ {0}
    BY PaddedFacts, FrameFacts
  <2>2. \A i \in 1 .. Len(Padded(f)) : Padded(f)[i] \in WireBytes
    BY <2>1, ElementOfSeq DEF WireBytes
  <2>3. Padded(f) = [i \in 1 .. Len(Padded(f)) |-> Padded(f)[i]]
    BY <2>1
  <2>4. QED
    BY <2>1, <2>2, <2>3
<1>3. /\ Crc(Padded(f)) \in Seq(WireBytes) /\ Len(Crc(Padded(f))) = CrcLength
      /\ \A k \in 1 .. CrcLength : Crc(Padded(f))[k] = CrcByte(Padded(f), k)
  <2>1. \A k \in 1 .. CrcLength : CrcByte(Padded(f), k) \in WireBytes
    BY <1>2 DEF WireBytes
  <2>2. Crc(Padded(f)) = [k \in 1 .. CrcLength |-> CrcByte(Padded(f), k)]
    BY DEF Crc
  <2>3. QED
    BY <2>1, <2>2, Constants
<1> DEFINE A == Preamble \o Padded(f)
<1>4. /\ A \in Seq(WireBytes) /\ Len(A) = PreambleLength + PaddedLength(f)
      /\ \A k \in 1 .. PreambleLength : A[k] = Preamble[k]
      /\ \A k \in 1 .. PaddedLength(f) : A[PreambleLength + k] = Padded(f)[k]
  <2> DEFINE P == Preamble
             D == Padded(f)
             m == PreambleLength
             n == PaddedLength(f)
  <2>1. P \in Seq(WireBytes) /\ D \in Seq(WireBytes) /\ Len(P) = m /\ Len(D) = n /\ m \in Nat /\ n \in Nat
    BY <1>1, <1>2, Constants
  <2> HIDE DEF A, P, D, m, n
  <2>2. P \o D \in Seq(WireBytes) /\ Len(P \o D) = m + n
    BY <2>1, Joined
  <2>3. \A k \in 1 .. m : (P \o D)[k] = P[k]
    BY <2>1, Joined
  <2>4. ASSUME NEW k \in 1 .. n PROVE (P \o D)[m + k] = D[k]
    <3>1. m + k \in 1 .. m + n /\ ~(m + k <= m) /\ m + k - m = k
      BY <2>1
    <3>2. (P \o D)[m + k] = IF m + k <= m THEN P[m + k] ELSE D[m + k - m]
      BY <2>1, <3>1, ConcatProperties
    <3>3. QED
      BY <3>1, <3>2
  <2>5. QED
    BY <1>1, <2>2, <2>3, <2>4 DEF A, P, D, m, n
<1>5. Framed(f) = A \o Crc(Padded(f))
  BY DEF Framed
<1> HIDE DEF A
<1>6. /\ Framed(f) \in Seq(WireBytes) /\ Len(Framed(f)) = PreambleLength + PaddedLength(f) + CrcLength
      /\ \A k \in 1 .. PreambleLength + PaddedLength(f) : Framed(f)[k] = A[k]
      /\ \A k \in 1 .. CrcLength : Framed(f)[PreambleLength + PaddedLength(f) + k] = Crc(Padded(f))[k]
  <2> DEFINE m == PreambleLength + PaddedLength(f)
             C == Crc(Padded(f))
  <2>1. m \in Nat /\ CrcLength \in Nat /\ Len(C) = CrcLength
    BY <1>2, <1>3, Constants
  <2>a. A \in Seq(WireBytes) /\ C \in Seq(WireBytes) /\ Len(A) = m
    BY <1>3, <1>4
  <2> HIDE DEF m, C
  <2>2. /\ A \o C \in Seq(WireBytes) /\ Len(A \o C) = m + CrcLength
        /\ \A k \in 1 .. m : (A \o C)[k] = A[k]
        /\ \A k \in 1 .. CrcLength : (A \o C)[m + k] = C[k]
    BY <2>1, <2>a, Joined
  <2>3. QED
    BY <1>5, <2>2 DEF m, C
<1>7. Framed(f) # << >>
  <2>1. Len(Framed(f)) # 0
    BY <1>2, <1>6, Constants
  <2>2. QED
    BY <2>1
<1>8. /\ \A k \in 1 .. PreambleLength : k \in 1 .. PreambleLength + PaddedLength(f)
      /\ \A k \in 1 .. PaddedLength(f) : PreambleLength + k \in 1 .. PreambleLength + PaddedLength(f)
  BY <1>2, Constants
<1>9. QED
  BY <1>1, <1>3, <1>4, <1>6, <1>7, <1>8

-----------------------------------------------------------------------------
(* The padding inserter, the buffer behind it and the CRC inserter. *)

LEMMA SeqFacts ==
    ASSUME NEW S, NEW s \in Seq(S)
    PROVE  /\ Len(s) \in Nat /\ DOMAIN s = 1 .. Len(s)
           /\ s = << >> => Len(s) = 0
           /\ s # << >> => Len(s) > 0
<1>1. Len(s) \in Nat /\ DOMAIN s = 1 .. Len(s)
  BY LenProperties
<1>2. s = << >> => Len(s) = 0
  OBVIOUS
<1>3. Len(s) = 0 => s = << >>
  BY EmptySeq
<1>4. QED
  BY <1>1, <1>2, <1>3

LEMMA BodyFacts ==
    ASSUME NEW f, NEW i PROVE BodyByte(f, i).frame = f /\ BodyByte(f, i).at = i
  BY DEF BodyByte

LEMMA FrameTokenFacts ==
    ASSUME NEW f, NEW i
    PROVE  /\ FrameToken(f, i).byte = BodyByte(f, i)
           /\ FrameToken(f, i).byte.frame = f /\ FrameToken(f, i).byte.at = i
           /\ FrameToken(f, i).last <=> i = f.size
<1>1. FrameToken(f, i).byte = BodyByte(f, i) /\ (FrameToken(f, i).last <=> i = f.size)
  BY DEF FrameToken, Token
<1>2. QED
  BY <1>1, BodyFacts

LEMMA BufFacts ==
    ASSUME NEW t PROVE << t >> # << >> /\ << t >>[1] = t /\ Len(<< t >>) = 1
  OBVIOUS

LEMMA BodyEqual ==
    ASSUME NEW f, NEW i, NEW g, NEW j, BodyByte(f, i) = BodyByte(g, j) PROVE f = g /\ i = j
<1>1. BodyByte(f, i).frame = BodyByte(g, j).frame /\ BodyByte(f, i).at = BodyByte(g, j).at
  OBVIOUS
<1>2. QED
  BY <1>1, BodyFacts

LEMMA HeadOfCrossing ==
    ASSUME CrossingInv, cdc # << >>
    PROVE  \E f \in Frames, i \in 1 .. CountRange :
              /\ Head(cdc) = FrameToken(f, i) /\ Head(cdc) = cdc[1]
              /\ IF ExitMark = << >> THEN i = 1 ELSE << f, i >> = << ExitMark[1], ExitMark[2] + 1 >>
<1>1. Head(cdc) = cdc[1] /\ cdc[1] \in FrameTokens /\ Goes(ExitMark, cdc[1])
  <2>1. cdc \in Seq(FrameTokens) /\ Goes(ExitMark, cdc[1])
    BY DEF CrossingInv, Chained
  <2>2. QED
    BY <2>1, HeadTailProperties
<1>2. PICK f \in Frames, i \in 1 .. CountRange : cdc[1] = FrameToken(f, i)
  BY <1>1 DEF FrameTokens, FrameToken
<1>3. cdc[1].byte = BodyByte(f, i) /\ cdc[1].byte.at = i
  BY <1>2, FrameTokenFacts
<1>4. CASE ExitMark = << >>
  <2>1. i = 1
    BY <1>1, <1>3, <1>4 DEF Goes
  <2>2. QED
    BY <1>1, <1>2, <1>4, <2>1
<1>5. CASE ExitMark # << >>
  <2>1. BodyByte(f, i) = BodyByte(ExitMark[1], ExitMark[2] + 1)
    BY <1>1, <1>3, <1>5 DEF Goes
  <2>2. f = ExitMark[1] /\ i = ExitMark[2] + 1
    BY <2>1, BodyEqual
  <2>3. QED
    BY <1>1, <1>2, <1>5, <2>2
<1>6. QED
  BY <1>4, <1>5

LEMMA CopiedFacts ==
    ASSUME PaddedInv, crcState = "COPY"
    PROVE  /\ OutFrame \in Frames /\ crc \in Seq(PadBytes)
           /\ Len(crc) \in 0 .. PaddedLength(OutFrame) - 1
           /\ crc = SubSeq(Padded(OutFrame), 1, Len(crc))
           /\ crc # << >> => Len(crc) > 0
           /\ crc = << >> => Len(crc) = 0
<1>1. OutFrame \in Frames
  BY DEF PaddedInv
<1>2. PICK n \in 0 .. PaddedLength(OutFrame) - 1 : crc = SubSeq(Padded(OutFrame), 1, n)
  BY DEF PaddedInv
<1> DEFINE f == OutFrame
<1>3. f \in Frames /\ crc = SubSeq(Padded(f), 1, n) /\ n \in 0 .. PaddedLength(f) - 1
  BY <1>1, <1>2
<1> HIDE DEF f
<1>4. Padded(f) \in Seq(PadBytes) /\ Len(Padded(f)) = PaddedLength(f) /\ PaddedLength(f) \in Nat
  BY <1>3, PaddedFacts, FrameFacts
<1>5. n \in 0 .. Len(Padded(f))
  BY <1>3, <1>4
<1>6. crc \in Seq(PadBytes) /\ Len(crc) = n
  BY <1>3, <1>4, <1>5, Prefixes
<1>7. (crc # << >> => Len(crc) > 0) /\ (crc = << >> => Len(crc) = 0)
  BY <1>6, SeqFacts
<1>8. QED
  BY <1>3, <1>6, <1>7 DEF f

\* With the buffer empty, the CRC inserter has what the padding inserter passed on.
LEMMA PassedAll ==
    ASSUME PaddedInv, buf = << >>
    PROVE  /\ crcState = "COPY" => /\ OutFrame \in Frames /\ OutFrame = crc[1].frame /\ crc # << >>
                                   /\ count = Len(crc) /\ count \in 1 .. PaddedLength(OutFrame) - 1
                                   /\ padding = IF count < OutFrame.size THEN "IDLE" ELSE "PADDING"
           /\ crcState # "COPY" => count = 0 /\ padding = "IDLE"
<1>1. Len(buf) = 0
  OBVIOUS
<1>2. CASE crcState = "COPY"
  <2>1. OutFrame \in Frames /\ crc # << >>
    BY <1>2 DEF PaddedInv
  <2>2. OutFrame = crc[1].frame
    BY <2>1 DEF OutFrame
  <2>3. Len(crc) \in 1 .. PaddedLength(OutFrame) - 1
    BY <1>2, <2>1, CopiedFacts
  <2>4. InFrame = OutFrame /\ InPassed = Len(crc)
    BY <1>1, <1>2, <2>3 DEF InFrame, InPassed
  <2>5. QED
    BY <1>2, <2>1, <2>2, <2>3, <2>4, FrameFacts DEF PaddedInv
<1>3. CASE crcState # "COPY"
  <2>1. InPassed = 0
    BY <1>1, <1>3 DEF InPassed
  <2>2. QED
    BY <1>3, <2>1 DEF PaddedInv
<1>4. QED
  BY <1>2, <1>3

LEMMA PaddedTokenFacts ==
    ASSUME NEW f \in Frames, NEW i \in 1 .. PaddedLength(f)
    PROVE  /\ PaddedToken(f, i).byte = Padded(f)[i]
           /\ i <= f.size => PaddedToken(f, i).byte = BodyByte(f, i)
           /\ i = 1 => PaddedToken(f, i).byte.frame = f
           /\ PaddedToken(f, i).last <=> i = PaddedLength(f)
<1>1. PaddedToken(f, i).byte = Padded(f)[i] /\ (PaddedToken(f, i).last <=> i = PaddedLength(f))
  BY DEF PaddedToken, Token
<1>2. /\ i <= f.size => Padded(f)[i] = BodyByte(f, i)
      /\ Padded(f)[1] = BodyByte(f, 1)
  BY PaddedFacts
<1>3. QED
  BY <1>1, <1>2, BodyFacts

\* The next byte's place, and whether it is the last of the padded frame.
PlaceInserted(f, i) ==
    /\ f \in Frames /\ i \in 1 .. PaddedLength(f)
    /\ buf = << >> /\ buf' = << PaddedToken(f, i) >>
    /\ count = i - 1 /\ count' = (IF i = PaddedLength(f) THEN 0 ELSE i)
    /\ padding' = (IF i = PaddedLength(f) \/ i < f.size THEN "IDLE" ELSE "PADDING")
    /\ IF crcState = "COPY" THEN crc # << >> /\ f = OutFrame /\ Len(crc) = i - 1 ELSE i = 1
    /\ UNCHANGED << crcState, crc, cnt >>

LEMMA Counted ==
    ASSUME NEW f \in Frames, NEW i \in 1 .. PaddedLength(f), count = i - 1
    PROVE  /\ PaddingDone <=> i >= MinLength
           /\ i # PaddedLength(f) => (count + 1) % CountRange = i
           /\ i <= f.size => (i = f.size /\ i >= MinLength <=> i = PaddedLength(f))
           /\ i > f.size => (i >= MinLength <=> i = PaddedLength(f))
<1>1. i \in Nat /\ PaddedLength(f) \in Nat /\ PaddedLength(f) <= CountRange /\ count + 1 = i
  BY FrameFacts
<1>2. i # PaddedLength(f) => i \in 0 .. CountRange - 1
  BY <1>1, Constants
<1>3. i # PaddedLength(f) => i % CountRange = i
  BY <1>1, <1>2, SmallMod, Constants
<1>4. PaddingDone <=> i >= MinLength
  BY <1>1, Constants DEF PaddingDone
<1>5. QED
  BY <1>1, <1>3, <1>4, FrameFacts, Constants

LEMMA InsertsFrame ==
    ASSUME PaddedInv, CrossingInv, Padding_IDLE
    PROVE  \E f \in Frames, i \in 1 .. CountRange :
              /\ Head(cdc) = FrameToken(f, i) /\ i \in 1 .. f.size
              /\ PlaceInserted(f, i)
<1>1. padding = "IDLE" /\ cdc # << >> /\ buf = << >>
  BY DEF Padding_IDLE
<1>2. PICK f \in Frames, i \in 1 .. CountRange :
         /\ Head(cdc) = FrameToken(f, i)
         /\ IF ExitMark = << >> THEN i = 1 ELSE << f, i >> = << ExitMark[1], ExitMark[2] + 1 >>
  BY <1>1, HeadOfCrossing
<1>3. /\ i \in 1 .. f.size /\ count = i - 1
      /\ IF crcState = "COPY" THEN crc # << >> /\ f = OutFrame /\ Len(crc) = i - 1 ELSE i = 1
  <2>1. CASE crcState = "COPY"
    <3>1. /\ OutFrame \in Frames /\ OutFrame = crc[1].frame /\ crc # << >>
          /\ count = Len(crc) /\ count \in 1 .. PaddedLength(OutFrame) - 1
          /\ count < OutFrame.size
      BY <1>1, <2>1, PassedAll
    <3>2. ExitMark = << OutFrame, count >> /\ ExitMark # << >>
      BY <1>1, <2>1, <3>1 DEF ExitMark, Mark, InFrame
    <3>3. f = OutFrame /\ i = count + 1
      BY <1>2, <3>2
    <3>4. QED
      BY <2>1, <3>1, <3>3, FrameFacts
  <2>2. CASE crcState # "COPY"
    <3>1. count = 0
      BY <1>1, <2>2, PassedAll
    <3>2. i = 1
      BY <1>2, <3>1 DEF ExitMark
    <3>3. QED
      BY <2>2, <3>1, <3>2, FrameFacts
  <2>3. QED
    BY <2>1, <2>2
<1>4. i \in 1 .. PaddedLength(f) /\ i <= f.size
  BY <1>3, FrameFacts
<1> DEFINE t == Head(cdc)
<1>5. /\ buf' = << Token(t.byte, t.last /\ PaddingDone) >>
      /\ count' = CountNext(t.last)
      /\ padding' = IF t.last /\ ~PaddingDone THEN "PADDING" ELSE "IDLE"
      /\ UNCHANGED << crcState, crc, cnt >>
  BY DEF Padding_IDLE, crcVars
<1>6. t.byte = BodyByte(f, i) /\ (t.last <=> i = f.size)
  BY <1>2, FrameTokenFacts
<1> HIDE DEF t
<1>7. /\ PaddingDone <=> i >= MinLength
      /\ i # PaddedLength(f) => (count + 1) % CountRange = i
      /\ i = f.size /\ i >= MinLength <=> i = PaddedLength(f)
  BY <1>3, <1>4, Counted
<1>8. t.last /\ PaddingDone <=> i = PaddedLength(f)
  BY <1>6, <1>7, Zenon
<1>9. Padded(f)[i] = BodyByte(f, i)
  BY <1>4, PaddedFacts
<1>10. buf' = << PaddedToken(f, i) >>
  BY <1>5, <1>6, <1>8, <1>9, Zenon DEF PaddedToken, Token
<1>11. count' = IF i = PaddedLength(f) THEN 0 ELSE i
  BY <1>5, <1>7, <1>8, Zenon DEF CountNext
<1>12. t.last /\ ~PaddingDone <=> ~(i = PaddedLength(f) \/ i < f.size)
  <2>1. i < f.size <=> i # f.size
    BY <1>3, FrameFacts
  <2>2. QED
    BY <1>6, <1>8, <2>1, Zenon
<1>13. padding' = IF i = PaddedLength(f) \/ i < f.size THEN "IDLE" ELSE "PADDING"
  BY <1>5, <1>12, Zenon
<1>14. QED
  BY <1>1, <1>2, <1>3, <1>4, <1>5, <1>10, <1>11, <1>13 DEF PlaceInserted

LEMMA InsertsPadding ==
    ASSUME PaddedInv, Padding_PADDING
    PROVE  \E f \in Frames, i \in 1 .. CountRange : i > f.size /\ PlaceInserted(f, i)
<1>1. padding = "PADDING" /\ buf = << >>
  BY DEF Padding_PADDING
<1>2. /\ crcState = "COPY" /\ OutFrame \in Frames /\ crc # << >>
      /\ count = Len(crc) /\ count \in 1 .. PaddedLength(OutFrame) - 1 /\ ~(count < OutFrame.size)
  BY <1>1, PassedAll
<1> DEFINE f == OutFrame
           i == count + 1
<1>a. f = OutFrame /\ i = count + 1
  OBVIOUS
<1> HIDE DEF f, i
<1>b. f \in Frames /\ count = Len(crc) /\ count \in 1 .. PaddedLength(f) - 1 /\ ~(count < f.size)
  BY <1>2, <1>a
<1>3. /\ f \in Frames /\ i \in 1 .. PaddedLength(f) /\ i > f.size /\ i \in 1 .. CountRange
      /\ count = i - 1 /\ Len(crc) = i - 1
  BY <1>a, <1>b, FrameFacts, Constants
<1>4. /\ buf' = << Token(Zero, PaddingDone) >> /\ count' = CountNext(TRUE)
      /\ padding' = IF PaddingDone THEN "IDLE" ELSE "PADDING"
      /\ UNCHANGED << crcState, crc, cnt >>
  BY DEF Padding_PADDING, crcVars
<1>5. /\ PaddingDone <=> i = PaddedLength(f)
      /\ i # PaddedLength(f) => (count + 1) % CountRange = i
  BY <1>3, Counted
<1>6. Padded(f)[i] = Zero /\ ~(i < f.size)
  BY <1>3, PaddedFacts, FrameFacts
<1>c. PaddingDone \in BOOLEAN
  BY DEF PaddingDone
<1>7. buf' = << PaddedToken(f, i) >>
  BY <1>4, <1>5, <1>6, <1>c, Zenon DEF PaddedToken, Token
<1>8. count' = IF i = PaddedLength(f) THEN 0 ELSE i
  BY <1>4, <1>5, Zenon DEF CountNext
<1>9. padding' = IF i = PaddedLength(f) \/ i < f.size THEN "IDLE" ELSE "PADDING"
  BY <1>4, <1>5, <1>6, Zenon
<1>10. PlaceInserted(f, i)
  BY <1>1, <1>2, <1>3, <1>4, <1>7, <1>8, <1>9, <1>a DEF PlaceInserted
<1>11. QED
  BY <1>3, <1>10

LEMMA InsertedFacts ==
    ASSUME PaddedInv, NEW f, NEW i, PlaceInserted(f, i)
    PROVE  /\ InFrame' = f /\ InPassed' = i /\ buf' # << >>
           /\ crcState = "COPY" => OutFrame' = OutFrame /\ OutFrame = f
           /\ ExitMark' = IF i < f.size THEN Mark(f, i) ELSE << >>
<1>1. /\ f \in Frames /\ i \in 1 .. PaddedLength(f) /\ buf' = << PaddedToken(f, i) >>
      /\ count' = (IF i = PaddedLength(f) THEN 0 ELSE i)
      /\ padding' = (IF i = PaddedLength(f) \/ i < f.size THEN "IDLE" ELSE "PADDING")
      /\ IF crcState = "COPY" THEN crc # << >> /\ f = OutFrame /\ Len(crc) = i - 1 ELSE i = 1
      /\ crcState' = crcState /\ crc' = crc
  BY DEF PlaceInserted
<1>2. buf' # << >> /\ Len(buf') = 1 /\ buf'[1] = PaddedToken(f, i)
  BY <1>1, BufFacts
<1>3. crcState = "COPY" => OutFrame' = OutFrame /\ OutFrame = f
  BY <1>1 DEF OutFrame
<1>4. i = 1 => buf'[1].byte.frame = f
  BY <1>1, <1>2, PaddedTokenFacts
<1>5. InFrame' = f
  BY <1>1, <1>3, <1>4 DEF InFrame
<1>6. InPassed' = i
  BY <1>1, <1>2 DEF InPassed
<1>7. ExitMark' = IF i < f.size THEN Mark(f, i) ELSE << >>
  <2>1. i \in Nat \ {0} /\ f.size <= PaddedLength(f) /\ f.size \in Nat /\ PaddedLength(f) \in Nat
    BY <1>1, FrameFacts
  <2>2. ExitMark' = IF padding' = "IDLE" /\ count' > 0 THEN Mark(f, count') ELSE << >>
    BY <1>5 DEF ExitMark
  <2>3. CASE i < f.size
    BY <1>1, <2>1, <2>2, <2>3
  <2>4. CASE ~(i < f.size)
    BY <1>1, <2>1, <2>2, <2>4
  <2>5. QED
    BY <2>3, <2>4
<1>8. QED
  BY <1>2, <1>3, <1>5, <1>6, <1>7

LEMMA InsertedPadded ==
    ASSUME PaddedInv, NEW f, NEW i, PlaceInserted(f, i)
    PROVE  PaddedInv'
<1>1. /\ f \in Frames /\ i \in 1 .. PaddedLength(f) /\ buf' = << PaddedToken(f, i) >>
      /\ count' = (IF i = PaddedLength(f) THEN 0 ELSE i)
      /\ padding' = (IF i = PaddedLength(f) \/ i < f.size THEN "IDLE" ELSE "PADDING")
      /\ IF crcState = "COPY" THEN crc # << >> /\ f = OutFrame /\ Len(crc) = i - 1 ELSE i = 1
      /\ crcState' = crcState /\ crc' = crc
  BY DEF PlaceInserted
<1>2. /\ InFrame' = f /\ InPassed' = i /\ buf' # << >>
      /\ crcState = "COPY" => OutFrame' = OutFrame /\ OutFrame = f
  BY InsertedFacts
<1>3. InFrame' \in Frames
      /\ buf' = << PaddedToken(InFrame', IF crcState' = "COPY" THEN Len(crc') + 1 ELSE 1) >>
  <2>1. (IF crcState' = "COPY" THEN Len(crc') + 1 ELSE 1) = i
    BY <1>1
  <2>2. QED
    BY <1>1, <1>2, <2>1
<1>4. crcState' \in {"IDLE", "COPY", "CRC"}
  BY <1>1 DEF PaddedInv
<1>5. crcState' # "IDLE" => OutFrame' \in Frames
  <2>1. CASE crcState = "COPY"
    BY <1>1, <1>2, <2>1
  <2>2. CASE crcState = "CRC"
    <3>1. crc = Padded(OutFrame) /\ OutFrame \in Frames
      BY <2>2 DEF PaddedInv
    <3>2. crc # << >>
      BY <3>1, EmptyPadded
    <3>3. QED
      BY <1>1, <3>1, <3>2 DEF OutFrame
  <2>3. QED
    BY <1>1, <1>4, <2>1, <2>2
<1>6. crcState' = "COPY" =>
         /\ crc' # << >> \/ buf' # << >>
         /\ crc' \in {SubSeq(Padded(OutFrame'), 1, n) : n \in 0 .. PaddedLength(OutFrame') - 1}
  BY <1>1, <1>2 DEF PaddedInv
<1>7. crcState' = "CRC" => crc' = Padded(OutFrame')
  <2>1. ASSUME crcState = "CRC" PROVE crc' = Padded(OutFrame')
    <3>1. crc = Padded(OutFrame) /\ OutFrame \in Frames
      BY <2>1 DEF PaddedInv
    <3>2. crc # << >>
      BY <3>1, EmptyPadded
    <3>3. OutFrame' = OutFrame
      BY <1>1, <3>2 DEF OutFrame
    <3>4. QED
      BY <1>1, <3>1, <3>3
  <2>2. QED
    BY <1>1, <2>1
<1>8. IF InPassed' = 0 \/ InPassed' = PaddedLength(InFrame') THEN count' = 0 /\ padding' = "IDLE"
      ELSE /\ count' = InPassed' /\ count' < PaddedLength(InFrame')
           /\ padding' = IF count' < (InFrame').size THEN "IDLE" ELSE "PADDING"
  <2>1. i # 0 /\ PaddedLength(f) \in Nat
    BY <1>1, FrameFacts
  <2>2. CASE i = PaddedLength(f)
    BY <1>1, <1>2, <2>2
  <2>3. CASE i # PaddedLength(f)
    BY <1>1, <1>2, <2>1, <2>3
  <2>4. QED
    BY <2>2, <2>3
<1>9. QED
  BY <1>3, <1>4, <1>5, <1>6, <1>7, <1>8 DEF PaddedInv

\* The byte the CRC inserter passes on is the next of its frame.
LEMMA CopyFacts ==
    ASSUME PaddedInv, Crc_COPY
    PROVE  \E f \in Frames, n \in 1 .. CountRange :
              /\ f = OutFrame /\ OutFrame' = f /\ n \in 1 .. PaddedLength(f) /\ Len(crc) = n - 1
              /\ buf # << >> /\ InFrame = f /\ InPassed = n
              /\ buf[1].byte = Padded(f)[n]
              /\ crc' = SubSeq(Padded(f), 1, n) /\ Len(crc') = n /\ crc' # << >>
              /\ crcState' = (IF n = PaddedLength(f) THEN "CRC" ELSE "COPY")
              /\ n = PaddedLength(f) => crc' = Padded(f)
<1> DEFINE f == OutFrame
           n == Len(crc) + 1
<1>1. f = OutFrame /\ n = Len(crc) + 1
  OBVIOUS
<1>2. crcState = "COPY" /\ buf # << >> /\ crc' = Append(crc, buf[1].byte)
      /\ crcState' = IF buf[1].last THEN "CRC" ELSE "COPY"
  BY DEF Crc_COPY
<1>3. InFrame = OutFrame /\ InPassed = Len(crc) + Len(buf)
  BY <1>2 DEF InFrame, InPassed
<1> HIDE DEF f, n
<1>4. /\ f \in Frames /\ crc \in Seq(PadBytes) /\ Len(crc) \in 0 .. PaddedLength(f) - 1
      /\ crc = SubSeq(Padded(f), 1, Len(crc))
  BY <1>1, <1>2, CopiedFacts
<1>5. n \in 1 .. PaddedLength(f) /\ n \in 1 .. CountRange /\ Len(crc) = n - 1
  BY <1>1, <1>4, FrameFacts, Constants
<1>6. buf = << PaddedToken(f, n) >>
  BY <1>1, <1>2, <1>3 DEF PaddedInv
<1>7. buf[1] = PaddedToken(f, n) /\ Len(buf) = 1
  BY <1>6
<1>8. buf[1].byte = Padded(f)[n] /\ (buf[1].last <=> n = PaddedLength(f))
  <2>1. PaddedToken(f, n).byte = Padded(f)[n] /\ (PaddedToken(f, n).last <=> n = PaddedLength(f))
    <3>1. f \in Frames /\ n \in 1 .. PaddedLength(f)
      BY <1>4, <1>5
    <3>2. QED
      BY <3>1, PaddedTokenFacts
  <2>2. QED
    BY <1>7, <2>1, Zenon
<1>9. Padded(f) \in Seq(PadBytes) /\ Len(Padded(f)) = PaddedLength(f)
  BY <1>4, PaddedFacts
<1>10. crc' = SubSeq(Padded(f), 1, n) /\ Len(crc') = n
       /\ (n = PaddedLength(f) => crc' = Padded(f)) /\ crc'[1] = Padded(f)[1]
  <2>1. Len(crc) \in 0 .. Len(Padded(f)) /\ Len(crc) < Len(Padded(f)) /\ n = Len(crc) + 1
    BY <1>4, <1>5, <1>9
  <2>2. SubSeq(Padded(f), 1, n) = Append(crc, Padded(f)[n])
    BY <1>4, <1>9, <2>1, Prefixes
  <2>3. n \in 0 .. Len(Padded(f)) /\ 1 \in 1 .. n
    BY <1>5, <1>9
  <2>4. /\ Len(SubSeq(Padded(f), 1, n)) = n /\ SubSeq(Padded(f), 1, n)[1] = Padded(f)[1]
        /\ SubSeq(Padded(f), 1, Len(Padded(f))) = Padded(f)
    BY <1>9, <2>3, Prefixes
  <2>5. QED
    BY <1>2, <1>8, <1>9, <2>2, <2>4
<1>11. crc' # << >>
  <2>1. Len(crc') # 0
    BY <1>5, <1>10
  <2>2. QED
    BY <2>1
<1>12. OutFrame' = f
  BY <1>4, <1>10, <1>11, EmptyPadded DEF OutFrame
<1>13. crcState' = IF n = PaddedLength(f) THEN "CRC" ELSE "COPY"
  BY <1>2, <1>8, Zenon
<1>14. InPassed = n
  BY <1>1, <1>3, <1>7
<1>15. QED
  BY <1>1, <1>2, <1>3, <1>4, <1>5, <1>8, <1>10, <1>11, <1>12, <1>13, <1>14

LEMMA CopyPadded ==
    ASSUME PaddedInv, Crc_COPY
    PROVE  PaddedInv' /\ ExitMark' = ExitMark
<1>1. PICK f \in Frames, n \in 1 .. CountRange :
              /\ f = OutFrame /\ OutFrame' = f /\ n \in 1 .. PaddedLength(f) /\ Len(crc) = n - 1
              /\ buf # << >> /\ InFrame = f /\ InPassed = n
              /\ crc' = SubSeq(Padded(f), 1, n) /\ Len(crc') = n /\ crc' # << >>
              /\ crcState' = (IF n = PaddedLength(f) THEN "CRC" ELSE "COPY")
              /\ n = PaddedLength(f) => crc' = Padded(f)
  BY CopyFacts
<1>2. buf' = << >> /\ count' = count /\ padding' = padding
  BY DEF Crc_COPY, padVars
<1>3. n \in Nat \ {0} /\ PaddedLength(f) \in Nat /\ Len(buf') = 0
  BY <1>1, <1>2, FrameFacts
<1>4. CASE n = PaddedLength(f)
  <2>1. count = 0 /\ padding = "IDLE"
    BY <1>1, <1>4 DEF PaddedInv
  <2>2. crcState' = "CRC" /\ crc' = Padded(OutFrame') /\ OutFrame' \in Frames
    BY <1>1, <1>4
  <2>3. InPassed' = 0
    BY <1>3, <2>2 DEF InPassed
  <2>4. PaddedInv'
    BY <1>2, <2>1, <2>2, <2>3 DEF PaddedInv
  <2>5. QED
    BY <1>2, <2>1, <2>4 DEF ExitMark
<1>5. CASE n # PaddedLength(f)
  <2>1. crcState' = "COPY"
    BY <1>1, <1>5
  <2>2. InFrame' = f /\ InPassed' = n
    BY <1>1, <1>3, <2>1 DEF InFrame, InPassed
  <2>3. count = n /\ count < PaddedLength(f) /\ padding = IF count < f.size THEN "IDLE" ELSE "PADDING"
    BY <1>1, <1>3, <1>5 DEF PaddedInv
  <2>4. n \in 0 .. PaddedLength(f) - 1
    BY <1>3, <2>3
  <2>5. /\ crcState' = "COPY" => /\ crc' # << >> \/ buf' # << >>
                                 /\ crc' \in {SubSeq(Padded(OutFrame'), 1, k) : k \in 0 .. PaddedLength(OutFrame') - 1}
        /\ OutFrame' \in Frames
    BY <1>1, <2>4
  <2>6. IF InPassed' = 0 \/ InPassed' = PaddedLength(InFrame') THEN count' = 0 /\ padding' = "IDLE"
        ELSE /\ count' = InPassed' /\ count' < PaddedLength(InFrame')
             /\ padding' = IF count' < (InFrame').size THEN "IDLE" ELSE "PADDING"
    BY <1>2, <1>3, <1>5, <2>2, <2>3
  <2>7. PaddedInv'
    BY <1>2, <2>1, <2>5, <2>6 DEF PaddedInv
  <2>8. QED
    BY <1>1, <1>2, <2>2, <2>7 DEF ExitMark
<1>6. QED
  BY <1>4, <1>5

LEMMA CrcIdlePadded ==
    ASSUME PaddedInv, Crc_IDLE
    PROVE  /\ PaddedInv' /\ ExitMark' = ExitMark
           /\ OutFrame' = InFrame /\ InFrame \in Frames /\ InFrame = buf[1].byte.frame
<1>1. /\ crcState = "IDLE" /\ buf # << >> /\ crcState' = "COPY" /\ crc' = << >>
      /\ buf' = buf /\ count' = count /\ padding' = padding
  BY DEF Crc_IDLE, padVars
<1> DEFINE f == InFrame
<1>2. f \in Frames /\ buf = << PaddedToken(f, 1) >>
  BY <1>1 DEF PaddedInv
<1>3. /\ f = InFrame /\ InFrame = buf[1].byte.frame /\ InPassed = Len(buf)
  BY <1>1 DEF InFrame, InPassed
<1>4. Len(crc') = 0 /\ Len(buf') = 1 /\ Len(buf) = 1
  BY <1>1, <1>2
<1>5. OutFrame' = f /\ InFrame' = f /\ InPassed' = 1 /\ InPassed = 1
  BY <1>1, <1>3, <1>4 DEF OutFrame, InFrame, InPassed
<1> HIDE DEF f
<1>6. Padded(f) \in Seq(PadBytes) /\ Len(Padded(f)) = PaddedLength(f) /\ PaddedLength(f) \in Nat \ {0}
  BY <1>2, PaddedFacts, FrameFacts
<1>7. crc' = SubSeq(Padded(f), 1, 0) /\ 0 \in 0 .. PaddedLength(f) - 1
  BY <1>1, <1>6, Prefixes
<1>8. buf' = << PaddedToken(InFrame', IF crcState' = "COPY" THEN Len(crc') + 1 ELSE 1) >>
  BY <1>1, <1>2, <1>4, <1>5
<1>9. IF InPassed' = 0 \/ InPassed' = PaddedLength(InFrame') THEN count' = 0 /\ padding' = "IDLE"
      ELSE /\ count' = InPassed' /\ count' < PaddedLength(InFrame')
           /\ padding' = IF count' < (InFrame').size THEN "IDLE" ELSE "PADDING"
  BY <1>1, <1>3, <1>5 DEF PaddedInv
<1>10. PaddedInv'
  BY <1>1, <1>2, <1>5, <1>7, <1>8, <1>9 DEF PaddedInv
<1>11. QED
  BY <1>1, <1>2, <1>3, <1>5, <1>10 DEF ExitMark

LEMMA CrcCrcPadded ==
    ASSUME PaddedInv, Crc_CRC
    PROVE  /\ PaddedInv' /\ ExitMark' = ExitMark
           /\ OutFrame \in Frames /\ crc = Padded(OutFrame)
           /\ crcState' = "CRC" => OutFrame' = OutFrame
<1>1. /\ crcState = "CRC" /\ crcState' \in {"IDLE", "CRC"}
      /\ crc' = crc /\ buf' = buf /\ count' = count /\ padding' = padding
  BY DEF Crc_CRC, padVars
<1>2. OutFrame \in Frames /\ crc = Padded(OutFrame)
  BY <1>1 DEF PaddedInv
<1>3. crc # << >> /\ OutFrame' = OutFrame
  BY <1>1, <1>2, EmptyPadded DEF OutFrame
<1>4. InFrame' = InFrame /\ InPassed' = InPassed
  BY <1>1 DEF InFrame, InPassed
<1>5. PaddedInv'
  BY <1>1, <1>2, <1>3, <1>4 DEF PaddedInv
<1>6. QED
  BY <1>1, <1>2, <1>3, <1>4, <1>5 DEF ExitMark

LEMMA SamePadded ==
    ASSUME PaddedInv, UNCHANGED << padding, count, buf, crcState, crc >>
    PROVE  PaddedInv' /\ ExitMark' = ExitMark /\ OutFrame' = OutFrame
<1>1. OutFrame' = OutFrame /\ InFrame' = InFrame /\ InPassed' = InPassed
  BY DEF OutFrame, InFrame, InPassed
<1>2. QED
  BY <1>1 DEF PaddedInv, ExitMark

-----------------------------------------------------------------------------
(* The wire. *)

LEMMA WireGrows ==
    ASSUME NEW f \in Frames, NEW n \in 0 .. Len(Framed(f)) - 1, NEW b, b = Framed(f)[n + 1], NEW w,
           w = IF n = 0 THEN << >> ELSE SubSeq(Framed(f), 1, n)
    PROVE  /\ Append(w, b) = SubSeq(Framed(f), 1, n + 1)
           /\ n + 1 = Len(Framed(f)) => Append(w, b) = Framed(f)
<1> DEFINE s == Framed(f)
<1>1. s \in Seq(WireBytes) /\ n \in 0 .. Len(s) - 1 /\ b = s[n + 1]
      /\ w = IF n = 0 THEN << >> ELSE SubSeq(s, 1, n)
  BY FramedFacts
<1>a. s = Framed(f)
  OBVIOUS
<1> HIDE DEF s
<1>2. n \in 0 .. Len(s) /\ n < Len(s)
  BY <1>1, SeqFacts
<1>3. /\ SubSeq(s, 1, n + 1) = Append(SubSeq(s, 1, n), s[n + 1])
      /\ SubSeq(s, 1, 0) = << >> /\ SubSeq(s, 1, Len(s)) = s
  BY <1>1, <1>2, Prefixes
<1>4. w = SubSeq(s, 1, n)
  BY <1>1, <1>3
<1>5. QED
  BY <1>1, <1>3, <1>4, <1>a

LEMMA InsertedWire ==
    ASSUME PaddedInv, WireInv, NEW f, NEW i, PlaceInserted(f, i), UNCHANGED outVars
    PROVE  WireInv'
<1>1. UNCHANGED << crcState, crc, cnt, preamble, preCount, gap, gapCount, wire >>
  BY DEF PlaceInserted, outVars
<1>2. crcState # "IDLE" => OutFrame' = OutFrame
  <2>1. CASE crcState = "COPY"
    BY <2>1, InsertedFacts
  <2>2. CASE crcState = "CRC"
    <3>1. crc # << >>
      BY <2>2, EmptyPadded DEF PaddedInv
    <3>2. QED
      BY <1>1, <3>1 DEF OutFrame
  <2>3. QED
    BY <2>1, <2>2 DEF PaddedInv
<1>3. OnWire' = OnWire
  BY <1>1 DEF OnWire
<1>4. crcState = "IDLE" => OnWire = 0
  BY DEF OnWire, WireInv
<1>5. gap' = "COPY" => wire' = IF OnWire' = 0 THEN << >> ELSE SubSeq(Framed(OutFrame'), 1, OnWire')
  BY <1>1, <1>2, <1>3, <1>4 DEF WireInv
<1>6. QED
  BY <1>1, <1>5 DEF WireInv

LEMMA CrcIdleWire ==
    ASSUME PaddedInv, WireInv, Crc_IDLE
    PROVE  WireInv'
<1>1. /\ crcState = "IDLE" /\ crcState' = "COPY" /\ crc' = << >> /\ cnt' = CrcLength - 1
      /\ UNCHANGED << preamble, preCount, gap, gapCount, wire >>
  BY DEF Crc_IDLE, outVars
<1>2. preamble = "IDLE"
  BY <1>1 DEF WireInv
<1>3. OnWire = 0 /\ OnWire' = 0
  BY <1>1, <1>2 DEF OnWire
<1>4. cnt' \in 0 .. CrcLength - 1
  BY <1>1, Constants
<1>5. QED
  BY <1>1, <1>2, <1>3, <1>4 DEF WireInv

LEMMA PreambleIdleWire ==
    ASSUME PaddedInv, WireInv, Preamble_IDLE
    PROVE  WireInv'
<1>1. /\ preamble = "IDLE" /\ preamble' = "PREAMBLE" /\ preCount' = 0 /\ CrcValid
      /\ UNCHANGED << crcState, crc, cnt, gap, gapCount, wire >>
  BY DEF Preamble_IDLE, crcVars
<1>2. crcState = "COPY"
  BY <1>1 DEF CrcValid, WireInv
<1>3. OnWire = 0 /\ OnWire' = 0
  BY <1>1 DEF OnWire
<1>4. preCount' \in 0 .. PreambleLength - 1
  BY <1>1, Constants
<1>5. QED
  BY <1>1, <1>2, <1>3, <1>4 DEF WireInv

LEMMA PreambleWire ==
    ASSUME PaddedInv, WireInv, Preamble_PREAMBLE
    PROVE  WireInv'
<1>1. /\ preamble = "PREAMBLE" /\ gap = "COPY" /\ wire' = Append(wire, PreambleByte(preCount + 1))
      /\ IF preCount = PreambleLength - 1
         THEN preamble' = "COPY" /\ UNCHANGED preCount
         ELSE preCount' = preCount + 1 /\ UNCHANGED preamble
      /\ UNCHANGED << crcState, crc, cnt, gap, gapCount, buf >>
  BY DEF Preamble_PREAMBLE, crcVars
<1>2. crcState = "COPY" /\ crc = << >> /\ preCount \in 0 .. PreambleLength - 1
  BY <1>1 DEF WireInv
<1> DEFINE f == OutFrame
<1>3. f \in Frames /\ f = OutFrame /\ f = OutFrame'
  BY <1>1, <1>2 DEF PaddedInv, OutFrame
<1>4. OnWire = preCount
  BY <1>1 DEF OnWire
<1>5. wire = IF preCount = 0 THEN << >> ELSE SubSeq(Framed(f), 1, preCount)
  BY <1>1, <1>3, <1>4 DEF WireInv
<1>6. OnWire' = preCount + 1
  <2>1. CASE preCount = PreambleLength - 1
    <3>1. OnWire' = PreambleLength + 0 + 0
      BY <1>1, <1>2, <2>1 DEF OnWire
    <3>2. QED
      BY <2>1, <3>1, Constants
  <2>2. CASE preCount # PreambleLength - 1
    BY <1>1, <2>2 DEF OnWire
  <2>3. QED
    BY <2>1, <2>2
<1> HIDE DEF f
<1>7. /\ preCount \in 0 .. Len(Framed(f)) - 1 /\ PreambleByte(preCount + 1) = Framed(f)[preCount + 1]
  BY <1>2, <1>3, FramedFacts, FrameFacts, Constants
<1>8. wire' = SubSeq(Framed(f), 1, preCount + 1)
  BY <1>1, <1>3, <1>5, <1>7, WireGrows
<1>9. preCount' \in 0 .. PreambleLength - 1 /\ preCount + 1 # 0
  BY <1>1, <1>2, Constants
<1>10. gap' = "COPY" => wire' = IF OnWire' = 0 THEN << >> ELSE SubSeq(Framed(OutFrame'), 1, OnWire')
  BY <1>3, <1>6, <1>8, <1>9
<1>11. QED
  BY <1>1, <1>2, <1>9, <1>10 DEF WireInv

LEMMA CopyWire ==
    ASSUME PaddedInv, WireInv, Crc_COPY
    PROVE  WireInv'
<1>1. /\ preamble = "COPY" /\ gap = "COPY" /\ crcState = "COPY" /\ wire' = Append(wire, buf[1].byte)
      /\ UNCHANGED << cnt, preamble, preCount, gap, gapCount >>
  BY DEF Crc_COPY
<1>2. PICK f \in Frames, n \in 1 .. CountRange :
              /\ f = OutFrame /\ OutFrame' = f /\ n \in 1 .. PaddedLength(f) /\ Len(crc) = n - 1
              /\ buf[1].byte = Padded(f)[n] /\ Len(crc') = n
              /\ crcState' = (IF n = PaddedLength(f) THEN "CRC" ELSE "COPY")
  BY CopyFacts
<1>3. cnt = CrcLength - 1 /\ cnt \in 0 .. CrcLength - 1
  BY <1>1 DEF WireInv
<1> DEFINE k == PreambleLength + (n - 1)
<1>4. OnWire = k
  BY <1>1, <1>2, Constants DEF OnWire
<1>5. OnWire' = k + 1
  <2>1. OnWire' = PreambleLength + n + (IF crcState' = "CRC" THEN CrcLength - 1 - cnt ELSE 0)
    BY <1>1, <1>2 DEF OnWire
  <2>2. CrcLength - 1 - cnt = 0
    BY <1>3, Constants
  <2>3. QED
    BY <1>2, <2>1, <2>2, Constants
<1>6. /\ k \in 0 .. Len(Framed(f)) - 1 /\ k + 1 # 0 /\ k + 1 = PreambleLength + n
      /\ Framed(f)[PreambleLength + n] = Padded(f)[n]
  BY <1>2, FramedFacts, FrameFacts, Constants
<1> HIDE DEF k
<1>7. wire = IF k = 0 THEN << >> ELSE SubSeq(Framed(f), 1, k)
  BY <1>1, <1>2, <1>4 DEF WireInv
<1>8. buf[1].byte = Framed(f)[k + 1]
  BY <1>2, <1>6
<1>9. wire' = SubSeq(Framed(f), 1, k + 1)
  BY <1>1, <1>6, <1>7, <1>8, WireGrows
<1>10. gap' = "COPY" => wire' = IF OnWire' = 0 THEN << >> ELSE SubSeq(Framed(OutFrame'), 1, OnWire')
  BY <1>2, <1>5, <1>6, <1>9
<1>11. QED
  BY <1>1, <1>2, <1>3, <1>10 DEF WireInv

\* With its last byte the frame on the wire is whole.
LEMMA CrcWire ==
    ASSUME PaddedInv, WireInv, Crc_CRC
    PROVE  /\ WireInv'
           /\ wire # << >> /\ SentFrom(wire) = OutFrame.from
           /\ cnt = 0 => wire' = Framed(OutFrame)
<1>1. /\ crcState = "CRC" /\ preamble = "COPY" /\ gap = "COPY"
      /\ wire' = Append(wire, CrcByte(crc, CrcLength - cnt))
      /\ IF cnt = 0
         THEN crcState' = "IDLE" /\ preamble' = "IDLE" /\ gap' = "GAP" /\ gapCount' = 0 /\ UNCHANGED cnt
         ELSE cnt' = cnt - 1 /\ UNCHANGED << crcState, preamble, gap, gapCount >>
      /\ UNCHANGED << crc, preCount >>
  BY DEF Crc_CRC
<1> DEFINE f == OutFrame
<1>2. f \in Frames /\ f = OutFrame /\ crc = Padded(f) /\ (crcState' = "CRC" => OutFrame' = f)
  BY CrcCrcPadded
<1>3. cnt \in 0 .. CrcLength - 1
  BY DEF WireInv
<1> HIDE DEF f
<1> DEFINE j == CrcLength - cnt
           k == PreambleLength + PaddedLength(f) + (j - 1)
<1>4. Len(crc) = PaddedLength(f) /\ PaddedLength(f) \in Nat \ {0}
  BY <1>2, PaddedFacts, FrameFacts
<1>5. OnWire = k
  <2>1. OnWire = PreambleLength + PaddedLength(f) + (CrcLength - 1 - cnt)
    BY <1>1, <1>4 DEF OnWire
  <2>2. QED
    BY <1>3, <2>1, Constants
<1>6. /\ j \in 1 .. CrcLength /\ k \in 0 .. Len(Framed(f)) - 1 /\ k # 0 /\ k + 1 # 0
      /\ k + 1 = PreambleLength + PaddedLength(f) + j
      /\ Framed(f)[PreambleLength + PaddedLength(f) + j] = CrcByte(Padded(f), j)
      /\ cnt = 0 => k + 1 = Len(Framed(f))
      /\ k >= PreambleLength + 1
  BY <1>2, <1>3, <1>4, FramedFacts, Constants
<1>7. wire' = Append(wire, CrcByte(crc, j))
  BY <1>1
<1> HIDE DEF j, k
<1>8. wire = IF k = 0 THEN << >> ELSE SubSeq(Framed(f), 1, k)
  BY <1>1, <1>2, <1>5 DEF WireInv
<1>9. CrcByte(crc, j) = Framed(f)[k + 1]
  BY <1>2, <1>6
<1>10. wire' = SubSeq(Framed(f), 1, k + 1) /\ (cnt = 0 => wire' = Framed(f))
  BY <1>2, <1>6, <1>7, <1>8, <1>9, WireGrows
<1>11. wire # << >> /\ SentFrom(wire) = f.from
  <2>1. Framed(f) \in Seq(WireBytes) /\ k \in 0 .. Len(Framed(f)) /\ PreambleLength + 1 \in 1 .. k
    BY <1>2, <1>6, FramedFacts, Constants
  <2>2. Len(wire) = k /\ wire[PreambleLength + 1] = Framed(f)[PreambleLength + 1]
    BY <1>6, <1>8, <2>1, Prefixes
  <2>3. 1 \in 1 .. PaddedLength(f)
    BY <1>4
  <2>4. Framed(f)[PreambleLength + 1] = Padded(f)[1]
    BY <1>2, <2>3, FramedFacts
  <2>5. wire # << >>
    <3>1. Len(wire) # 0
      BY <1>6, <2>2
    <3>2. QED
      BY <3>1
  <2>6. QED
    BY <1>2, <2>2, <2>4, <2>5, EmptyPadded DEF SentFrom
<1>12. CASE cnt = 0
  <2>1. wire' \in {Framed(g) : g \in Frames}
    BY <1>2, <1>10, <1>12
  <2>2. gapCount' \in 0 .. GapLength - 1
    BY <1>1, <1>12, Constants
  <2>3. WireInv'
    BY <1>1, <1>12, <2>1, <2>2 DEF WireInv
  <2>4. QED
    BY <1>2, <1>10, <1>11, <2>3
<1>13. CASE cnt # 0
  <2>1. cnt' = cnt - 1 /\ cnt' \in 0 .. CrcLength - 1
    BY <1>1, <1>3, <1>13, Constants
  <2>2. OnWire' = k + 1
    <3>1. OnWire' = PreambleLength + PaddedLength(f) + (CrcLength - 1 - (cnt - 1))
      BY <1>1, <1>4, <1>13 DEF OnWire
    <3>2. QED
      BY <1>3, <1>6, <3>1, Constants DEF k, j
  <2>3. OutFrame' = f
    BY <1>1, <1>2, <1>13
  <2>4. WireInv'
    BY <1>1, <1>6, <1>10, <1>13, <2>1, <2>2, <2>3 DEF WireInv
  <2>5. QED
    BY <1>2, <1>11, <1>13, <2>4
<1>14. QED
  BY <1>12, <1>13

LEMMA GapWire ==
    ASSUME PaddedInv, WireInv, Gap_GAP
    PROVE  WireInv' /\ (gap' = "COPY" => wire' = << >>) /\ (gap' = "GAP" => wire' = wire)
<1>1. /\ gap = "GAP"
      /\ IF gapCount = GapLength - 1
         THEN gap' = "COPY" /\ wire' = << >> /\ UNCHANGED gapCount
         ELSE gapCount' = gapCount + 1 /\ UNCHANGED << gap, wire >>
      /\ UNCHANGED << buf, crcState, crc, cnt, preamble, preCount >>
  BY DEF Gap_GAP, crcVars
<1>2. gapCount' \in 0 .. GapLength - 1
  BY <1>1, Constants DEF WireInv
<1>3. OnWire' = 0
  BY <1>1 DEF OnWire, WireInv
<1>4. QED
  BY <1>1, <1>2, <1>3 DEF WireInv

LEMMA SameWire ==
    ASSUME WireInv, OutFrame' = OutFrame,
           UNCHANGED << crcState, crc, cnt, preamble, preCount, gap, gapCount, wire >>
    PROVE  WireInv'
<1>1. OnWire' = OnWire
  BY DEF OnWire
<1>2. QED
  BY <1>1 DEF WireInv

-----------------------------------------------------------------------------
(* The crossing. *)

LEMMA ChainTail ==
    ASSUME NEW S, NEW q \in Seq(S), NEW m, NEW o, q # << >>, Chained(m, q, o)
    PROVE  Chained(MarkOf(q[1]), Tail(q), o)
<1> DEFINE p == Tail(q)
<1>1. /\ p \in Seq(S) /\ Len(q) \in Nat \ {0} /\ Len(p) = Len(q) - 1
      /\ \A i \in 1 .. Len(p) : p[i] = q[i + 1]
  BY HeadTailProperties, SeqFacts
<1> HIDE DEF p
<1>2. /\ MarkOf(q[Len(q)]) = o
      /\ \A i \in 1 .. Len(q) - 1 : Goes(MarkOf(q[i]), q[i + 1])
  BY DEF Chained
<1>3. p = << >> => o = MarkOf(q[1])
  <2>1. p = << >> => Len(q) = 1
    BY <1>1, SeqFacts
  <2>2. QED
    BY <1>2, <2>1
<1>4. p # << >> => Goes(MarkOf(q[1]), p[1]) /\ MarkOf(p[Len(p)]) = o
  <2>1. p # << >> => Len(p) > 0
    BY <1>1, SeqFacts
  <2>2. ASSUME p # << >> PROVE p[1] = q[1 + 1] /\ p[Len(p)] = q[Len(q)] /\ 1 \in 1 .. Len(q) - 1
    BY <1>1, <2>1, <2>2
  <2>3. QED
    BY <1>2, <2>2
<1>5. \A i \in 1 .. Len(p) - 1 : Goes(MarkOf(p[i]), p[i + 1])
  <2>1. \A i \in 1 .. Len(p) - 1 : p[i] = q[i + 1] /\ p[i + 1] = q[i + 1 + 1] /\ i + 1 \in 1 .. Len(q) - 1
    BY <1>1
  <2>2. QED
    BY <1>2, <2>1
<1>6. Chained(MarkOf(q[1]), p, o)
  BY <1>3, <1>4, <1>5 DEF Chained
<1>7. QED
  BY <1>6 DEF p

LEMMA ChainAppend ==
    ASSUME NEW S, NEW q \in Seq(S), NEW t \in S, NEW m, NEW o, Chained(m, q, o), Goes(o, t)
    PROVE  Chained(m, Append(q, t), MarkOf(t))
<1> DEFINE p == Append(q, t)
<1>1. /\ p \in Seq(S) /\ Len(q) \in Nat /\ Len(p) = Len(q) + 1
      /\ \A i \in 1 .. Len(q) : p[i] = q[i]
      /\ p[Len(q) + 1] = t
  BY AppendProperties, SeqFacts
<1> HIDE DEF p
<1>2. p # << >>
  BY <1>1, SeqFacts
<1>3. Goes(m, p[1])
  <2>1. CASE q = << >>
    <3>1. Len(q) = 0
      BY <2>1
    <3>2. p[1] = t /\ o = m
      BY <1>1, <2>1, <3>1 DEF Chained
    <3>3. QED
      BY <3>2
  <2>2. CASE q # << >>
    <3>1. p[1] = q[1]
      BY <1>1, <2>2, SeqFacts
    <3>2. QED
      BY <2>2, <3>1 DEF Chained
  <2>3. QED
    BY <2>1, <2>2
<1>4. \A i \in 1 .. Len(p) - 1 : Goes(MarkOf(p[i]), p[i + 1])
  <2> SUFFICES ASSUME NEW i \in 1 .. Len(p) - 1 PROVE Goes(MarkOf(p[i]), p[i + 1])
    OBVIOUS
  <2>1. CASE i = Len(q)
    <3>1. q # << >> /\ p[i] = q[Len(q)] /\ p[i + 1] = t
      BY <1>1, <2>1, SeqFacts
    <3>2. MarkOf(q[Len(q)]) = o
      BY <3>1 DEF Chained
    <3>3. QED
      BY <3>1, <3>2
  <2>2. CASE i # Len(q)
    <3>1. i \in 1 .. Len(q) - 1 /\ p[i] = q[i] /\ p[i + 1] = q[i + 1]
      BY <1>1, <2>2
    <3>2. QED
      BY <3>1 DEF Chained
  <2>3. QED
    BY <2>1, <2>2
<1>5. Chained(m, p, MarkOf(t))
  BY <1>1, <1>2, <1>3, <1>4 DEF Chained
<1>6. QED
  BY <1>5 DEF p

LEMMA MarkIs ==
    ASSUME NEW f \in Frames, NEW i \in 1 .. f.size
    PROVE  MarkOf(FrameToken(f, i)) = IF i < f.size THEN Mark(f, i) ELSE << >>
<1>1. i < f.size <=> i # f.size
  BY FrameFacts
<1>2. FrameToken(f, i).byte.frame = f /\ FrameToken(f, i).byte.at = i /\ (FrameToken(f, i).last <=> i = f.size)
  BY FrameTokenFacts
<1>3. QED
  BY <1>1, <1>2, Zenon DEF MarkOf

LEMMA PaddingCrossing ==
    ASSUME PaddedInv, CrossingInv, Padding_IDLE
    PROVE  CrossingInv'
<1>1. PICK f \in Frames, i \in 1 .. CountRange :
         Head(cdc) = FrameToken(f, i) /\ i \in 1 .. f.size /\ PlaceInserted(f, i)
  BY InsertsFrame
<1>2. cdc # << >> /\ cdc' = Tail(cdc) /\ UNCHANGED << arbiter, counter, mux, slot, cmd, hw >>
  BY DEF Padding_IDLE, sysVars, softVars, readerVars, muxVars
<1>3. EntryMark' = EntryMark
  BY <1>2 DEF EntryMark, CpuPassed, CpuFrameAtHead
<1>4. ExitMark' = MarkOf(Head(cdc))
  BY <1>1, InsertedFacts, MarkIs
<1>5. cdc \in Seq(FrameTokens) /\ Len(cdc) <= Depth /\ Chained(ExitMark, cdc, EntryMark)
  BY DEF CrossingInv
<1>6. Tail(cdc) \in Seq(FrameTokens) /\ Len(Tail(cdc)) = Len(cdc) - 1 /\ Head(cdc) = cdc[1] /\ Len(cdc) \in Nat
  BY <1>2, <1>5, HeadTailProperties, SeqFacts
<1>7. Chained(MarkOf(cdc[1]), Tail(cdc), EntryMark)
  BY <1>2, <1>5, ChainTail
<1>8. Len(cdc') <= Depth
  BY <1>2, <1>5, <1>6, Constants
<1>9. QED
  BY <1>2, <1>3, <1>4, <1>6, <1>7, <1>8 DEF CrossingInv

LEMMA SameCrossing ==
    ASSUME CrossingInv, ExitMark' = ExitMark, UNCHANGED << cdc, arbiter, counter, mux, slot, cmd, hw >>
    PROVE  CrossingInv'
<1>1. EntryMark' = EntryMark
  BY DEF EntryMark, CpuPassed, CpuFrameAtHead
<1>2. QED
  BY <1>1 DEF CrossingInv

\* A padding byte begins no frame.
LEMMA PaddingMark ==
    ASSUME PaddedInv, Padding_PADDING PROVE ExitMark' = ExitMark
<1>1. PICK f \in Frames, i \in 1 .. CountRange : i > f.size /\ PlaceInserted(f, i)
  BY InsertsPadding
<1>2. ExitMark' = << >>
  <2>1. ~(i < f.size)
    BY <1>1, FrameFacts
  <2>2. QED
    BY <1>1, <2>1, InsertedFacts
<1>3. ExitMark = << >>
  BY DEF Padding_PADDING, ExitMark
<1>4. QED
  BY <1>2, <1>3

-----------------------------------------------------------------------------
(* The reader and the converter. *)

LEMMA HeadFacts ==
    ASSUME PlacesInv, CpuInv, reader # "IDLE"
    PROVE  /\ cmd # << >> /\ CpuFrameAtHead \in FramesOf("cpu") /\ CpuFrameAtHead \in Frames
           /\ CpuFrameAtHead.size = Head(cmd).length /\ CpuFrameAtHead.from = "cpu"
           /\ Head(cmd).length \in WordBytes .. LengthRange - WordBytes
           /\ Head(cmd).slot \in SlotsOf(cmd)
<1>1. cmd # << >> /\ cmd \in Seq(Commanded) /\ Distinct(cmd)
  BY DEF PlacesInv
<1>2. Head(cmd) = cmd[1] /\ 1 \in 1 .. Len(cmd) /\ Head(cmd).slot \in SlotsOf(cmd)
  BY <1>1, SeqFacts, HeadTailProperties, TailSlots
<1>3. Head(cmd).length = slot[Head(cmd).slot].size
  BY <1>2 DEF CpuInv
<1>4. slot[Head(cmd).slot] \in FramesOf("cpu")
  BY <1>2 DEF PlacesInv
<1>5. QED
  BY <1>1, <1>2, <1>3, <1>4, CpuFrameFacts DEF CpuFrameAtHead

LEMMA SendFacts ==
    ASSUME PlacesInv, CpuInv, reader = "SEND"
    PROVE  /\ counter \in Nat /\ mux \in 0 .. WordBytes - 1
           /\ LastWord <=> counter >= Head(cmd).length - WordBytes
           /\ ~LastWord => /\ (counter + WordBytes) % LengthRange = counter + WordBytes
                           /\ (counter + WordBytes) % WordBytes = 0
                           /\ counter + WordBytes < Head(cmd).length
           /\ CpuPassed < Head(cmd).length => (LastByte <=> CpuPassed + 1 = Head(cmd).length)
<1> DEFINE n == Head(cmd).length
<1>1. n \in WordBytes .. LengthRange - WordBytes
  BY HeadFacts
<1>2. counter \in 0 .. LengthRange - 1 /\ mux \in 0 .. WordBytes - 1 /\ counter % WordBytes = 0 /\ counter < n
  BY DEF CpuInv
<1>3. LastWord <=> counter >= (n - WordBytes) % LengthRange
  BY DEF LastWord
<1>4. LastByte <=> LastWord /\ n % WordBytes = (mux + 1) % WordBytes
  BY DEF LastByte
<1>5. CpuPassed = counter + mux
  BY DEF CpuPassed
<1>a. n = Head(cmd).length
  OBVIOUS
<1> HIDE DEF n
<1>6. counter \in Nat /\ WordBytes \in Nat \ {0} /\ LengthRange \in Nat
  BY <1>2, Constants
<1>7. /\ (n - WordBytes) % LengthRange = n - WordBytes
      /\ counter < n - WordBytes => /\ (counter + WordBytes) % LengthRange = counter + WordBytes
                                    /\ (counter + WordBytes) % WordBytes = 0
                                    /\ counter + WordBytes < n
      /\ counter + mux < n => (counter >= n - WordBytes /\ n % WordBytes = (mux + 1) % WordBytes
                                 <=> counter + mux + 1 = n)
  <2>1. /\ WordBytes \in Nat \ {0} /\ LengthRange \in Nat /\ n \in WordBytes .. LengthRange - WordBytes
        /\ counter \in Nat /\ mux \in 0 .. WordBytes - 1 /\ counter % WordBytes = 0 /\ counter < n
    BY <1>1, <1>2, <1>6
  <2>2. EndLaw(WordBytes, LengthRange, n, counter, mux)
    BY <2>1, EndOfFrame
  <2>3. QED
    BY <2>2 DEF EndLaw
<1>8. LastWord <=> counter >= n - WordBytes
  BY <1>3, <1>7
<1>9. ~LastWord => counter < n - WordBytes
  BY <1>1, <1>6, <1>8
<1>10. CpuPassed < n => (LastByte <=> CpuPassed + 1 = n)
  BY <1>4, <1>5, <1>7, <1>8
<1>11. QED
  BY <1>2, <1>6, <1>7, <1>8, <1>9, <1>10, <1>a

\* A cycle in which the reader sends: nothing is taken, or a byte, or the last byte, or
\* one behind it, which is dropped.
NothingTaken ==
    /\ ~CpuTaken /\ lastbe = "COPY" /\ (arbiter = "WISHBONE" => arbiter' = "WISHBONE")
    /\ reader' = "SEND" /\ lastbe' = "COPY" /\ mux' = mux /\ counter' = counter

NextTaken ==
    /\ CpuTaken /\ lastbe = "COPY" /\ arbiter = "WISHBONE" /\ CpuPassed + 1 < Head(cmd).length
    /\ reader' = "SEND" /\ lastbe' = "COPY" /\ arbiter' = "WISHBONE"
    /\ mux' \in 0 .. WordBytes - 1 /\ counter' \in 0 .. LengthRange - 1
    /\ counter' % WordBytes = 0 /\ counter' < Head(cmd).length /\ counter' + mux' = CpuPassed + 1

WordLeft ==
    /\ reader' = "SEND" /\ lastbe' = "WAIT-LAST" /\ LastWord
    /\ mux < WordBytes - 1 /\ mux' = mux + 1 /\ counter' = counter

WordOver == reader' = "END" /\ lastbe' = "COPY" /\ mux' = 0 /\ counter' \in 0 .. LengthRange - 1

LastTaken ==
    /\ CpuTaken /\ lastbe = "COPY" /\ arbiter = "WISHBONE" /\ CpuPassed + 1 = Head(cmd).length
    /\ arbiter' = "IDLE" /\ (WordLeft \/ WordOver)

RestTaken ==
    /\ ~CpuTaken /\ lastbe = "WAIT-LAST" /\ arbiter # "WISHBONE" /\ arbiter' # "WISHBONE"
    /\ WordLeft \/ WordOver

LEMMA Arbiters ==
    ASSUME CpuInv, HwInv, Arbiter
    PROVE  /\ arbiter' \in {"IDLE", "WISHBONE", "CROSSBAR"}
           /\ arbiter = "WISHBONE" => arbiter' = IF ReleasedByCpu THEN "IDLE" ELSE "WISHBONE"
           /\ arbiter # "WISHBONE" /\ ~CpuValid => arbiter' # "WISHBONE"
           /\ arbiter' = "CROSSBAR" => \/ arbiter = "IDLE" /\ HwValid
                                       \/ arbiter = "CROSSBAR" /\ ~(HwTaken /\ Head(hw).last)
           /\ arbiter = "CROSSBAR" => arbiter' = IF HwTaken /\ Head(hw).last THEN "IDLE" ELSE "CROSSBAR"
<1>1. arbiter \in {"IDLE", "WISHBONE", "CROSSBAR"}
  BY DEF HwInv
<1>2. CASE arbiter = "IDLE"
  BY <1>2 DEF Arbiter
<1>3. CASE arbiter = "WISHBONE"
  BY <1>3 DEF Arbiter
<1>4. CASE arbiter = "CROSSBAR"
  BY <1>4 DEF Arbiter
<1>5. QED
  BY <1>1, <1>2, <1>3, <1>4

LEMMA SendStep ==
    ASSUME PlacesInv, CpuInv, HwInv, reader = "SEND", ReaderFsm, Cutter, Arbiter
    PROVE  NothingTaken \/ NextTaken \/ LastTaken \/ RestTaken
<1>1. /\ counter \in Nat /\ mux \in 0 .. WordBytes - 1 /\ WordBytes \in Nat \ {0} /\ LengthRange \in Nat \ {0}
      /\ counter \in 0 .. LengthRange - 1
      /\ Head(cmd).length \in WordBytes .. LengthRange - WordBytes
      /\ LastWord <=> counter >= Head(cmd).length - WordBytes
      /\ ~LastWord => /\ (counter + WordBytes) % LengthRange = counter + WordBytes
                      /\ (counter + WordBytes) % WordBytes = 0
                      /\ counter + WordBytes < Head(cmd).length
      /\ CpuPassed < Head(cmd).length => (LastByte <=> CpuPassed + 1 = Head(cmd).length)
      /\ CpuPassed = counter + mux
  BY SendFacts, HeadFacts, Constants DEF CpuInv, CpuPassed
<1>2. /\ counter % WordBytes = 0 /\ counter < Head(cmd).length
      /\ lastbe \in {"COPY", "WAIT-LAST"}
      /\ lastbe = "COPY" => CpuPassed < Head(cmd).length
      /\ lastbe = "WAIT-LAST" => LastWord /\ CpuPassed >= Head(cmd).length
  BY DEF CpuInv
<1>3. /\ counter' = IF WordTaken THEN (counter + WordBytes) % LengthRange ELSE counter
      /\ reader' = IF WordTaken /\ LastWord THEN "END" ELSE "SEND"
      /\ mux' = IF ByteTaken THEN (mux + 1) % WordBytes ELSE mux
  BY DEF ReaderFsm, Cutter
<1>4. /\ lastbe = "COPY" => lastbe' = IF WaitsForLast THEN "WAIT-LAST" ELSE "COPY"
      /\ lastbe = "WAIT-LAST" => lastbe' = IF WordTaken /\ LastWord THEN "COPY" ELSE "WAIT-LAST"
  BY <1>2 DEF Cutter
<1>5. /\ ByteTaken <=> CpuTaken \/ lastbe = "WAIT-LAST"
      /\ WordTaken <=> ByteTaken /\ mux = WordBytes - 1
      /\ WaitsForLast <=> CpuTaken /\ LastByte /\ mux < WordBytes - 1
      /\ ReleasedByCpu <=> CpuTaken /\ LastByte
      /\ CpuTaken => lastbe = "COPY" /\ arbiter = "WISHBONE"
      /\ CpuValid <=> lastbe = "COPY"
  BY <1>2 DEF ByteTaken, WordTaken, WaitsForLast, ReleasedByCpu, CpuTaken, CpuValid
<1>6. /\ arbiter = "WISHBONE" => arbiter' = IF ReleasedByCpu THEN "IDLE" ELSE "WISHBONE"
      /\ arbiter # "WISHBONE" /\ ~CpuValid => arbiter' # "WISHBONE"
  BY Arbiters
<1>7. /\ mux = WordBytes - 1 => (mux + 1) % WordBytes = 0
      /\ mux < WordBytes - 1 => (mux + 1) % WordBytes = mux + 1
  <2>1. mux = WordBytes - 1 => mux + 1 = WordBytes
    BY <1>1
  <2>2. mux < WordBytes - 1 => mux + 1 \in 0 .. WordBytes - 1
    BY <1>1
  <2>3. QED
    BY <1>1, <2>1, <2>2, SmallMod, EndOfWord
<1>8. mux = WordBytes - 1 \/ mux < WordBytes - 1
  BY <1>1
<1>9. (counter + WordBytes) % LengthRange \in 0 .. LengthRange - 1
  BY <1>1
<1>10. CASE lastbe = "COPY" /\ ~CpuTaken
  BY <1>3, <1>4, <1>5, <1>6, <1>10 DEF NothingTaken
<1>11. CASE lastbe = "WAIT-LAST"
  <2>1. /\ ByteTaken /\ ~CpuTaken /\ LastWord /\ arbiter # "WISHBONE" /\ arbiter' # "WISHBONE"
    BY <1>2, <1>5, <1>6, <1>11 DEF CpuInv
  <2>2. CASE mux = WordBytes - 1
    <3>1. WordOver
      BY <1>3, <1>4, <1>5, <1>7, <1>9, <1>11, <2>1, <2>2 DEF WordOver
    <3>2. QED
      BY <1>11, <2>1, <3>1 DEF RestTaken
  <2>3. CASE mux < WordBytes - 1
    <3>1. mux # WordBytes - 1
      BY <1>1, <2>3
    <3>2. WordLeft
      BY <1>3, <1>4, <1>5, <1>7, <1>11, <2>1, <2>3, <3>1 DEF WordLeft
    <3>3. QED
      BY <1>11, <2>1, <3>2 DEF RestTaken
  <2>4. QED
    BY <1>8, <2>2, <2>3
<1>12. CASE CpuTaken
  <2>1. /\ lastbe = "COPY" /\ arbiter = "WISHBONE" /\ ByteTaken
        /\ LastByte <=> CpuPassed + 1 = Head(cmd).length
        /\ arbiter' = IF LastByte THEN "IDLE" ELSE "WISHBONE"
    BY <1>1, <1>2, <1>5, <1>6, <1>12
  <2>2. LastByte => LastWord
    BY DEF LastByte
  <2>3. CASE LastByte
    <3>1. CASE mux = WordBytes - 1
      <4>1. WordOver
        BY <1>3, <1>4, <1>5, <1>7, <1>9, <2>1, <2>2, <2>3, <3>1, <1>1 DEF WordOver
      <4>2. QED
        BY <1>12, <2>1, <2>3, <4>1 DEF LastTaken
    <3>2. CASE mux < WordBytes - 1
      <4>1. mux # WordBytes - 1
        BY <1>1, <3>2
      <4>2. WordLeft
        BY <1>3, <1>4, <1>5, <1>7, <1>12, <2>1, <2>2, <2>3, <3>2, <4>1 DEF WordLeft
      <4>3. QED
        BY <1>12, <2>1, <2>3, <4>2 DEF LastTaken
    <3>3. QED
      BY <1>8, <3>1, <3>2
  <2>4. CASE ~LastByte
    <3>1. CpuPassed + 1 < Head(cmd).length
      BY <1>1, <1>2, <2>1, <2>4
    <3>2. lastbe' = "COPY" /\ arbiter' = "WISHBONE"
      BY <1>4, <1>5, <2>1, <2>4
    <3>3. CASE mux = WordBytes - 1
      <4>1. ~LastWord
        BY <1>1, <3>1, <3>3
      <4>2. reader' = "SEND" /\ counter' = counter + WordBytes /\ mux' = 0
        BY <1>1, <1>3, <1>5, <1>7, <2>1, <3>3, <4>1
      <4>3. counter' + mux' = CpuPassed + 1 /\ 0 \in 0 .. WordBytes - 1
            /\ counter' \in 0 .. LengthRange - 1
        BY <1>1, <3>3, <4>1, <4>2
      <4>4. QED
        BY <1>1, <1>12, <2>1, <3>1, <3>2, <4>1, <4>2, <4>3 DEF NextTaken
    <3>4. CASE mux < WordBytes - 1
      <4>1. mux # WordBytes - 1
        BY <1>1, <3>4
      <4>2. reader' = "SEND" /\ counter' = counter /\ mux' = mux + 1
        BY <1>3, <1>5, <1>7, <2>1, <3>4, <4>1
      <4>3. counter' + mux' = CpuPassed + 1 /\ mux' \in 0 .. WordBytes - 1
        BY <1>1, <3>4, <4>2
      <4>4. QED
        BY <1>1, <1>2, <1>12, <2>1, <3>1, <3>2, <4>2, <4>3 DEF NextTaken
    <3>5. QED
      BY <1>8, <3>3, <3>4
  <2>5. QED
    BY <2>3, <2>4
<1>13. QED
  BY <1>2, <1>10, <1>11, <1>12

KeptCmd == IF reader = "END" THEN Tail(cmd) ELSE cmd

LEMMA KeptFacts ==
    ASSUME PlacesInv, CpuInv
    PROVE  /\ KeptCmd \in Seq(Commanded)
           /\ \A i \in 1 .. Len(KeptCmd) : /\ KeptCmd[i].slot \in SlotsOf(cmd)
                                           /\ KeptCmd[i].length = slot[KeptCmd[i].slot].size
<1>1. cmd \in Seq(Commanded) /\ (reader = "END" => cmd # << >>)
  BY DEF PlacesInv
<1>2. \A i \in 1 .. Len(cmd) : cmd[i].slot \in SlotsOf(cmd) /\ cmd[i].length = slot[cmd[i].slot].size
  BY DEF SlotsOf, CpuInv
<1>3. CASE reader = "END"
  <2>1. /\ Tail(cmd) \in Seq(Commanded)
        /\ \A i \in 1 .. Len(Tail(cmd)) : \E j \in 1 .. Len(cmd) : Tail(cmd)[i] = cmd[j]
    BY <1>1, <1>3, HeadTailProperties, TailSlots DEF PlacesInv
  <2>2. KeptCmd = Tail(cmd)
    BY <1>3 DEF KeptCmd
  <2>3. QED
    BY <1>2, <2>1, <2>2
<1>4. CASE reader # "END"
  BY <1>1, <1>2, <1>4 DEF KeptCmd
<1>5. QED
  BY <1>3, <1>4

LEMMA StartIs ==
    ASSUME PlacesInv, NEW start \in {<< >>} \cup Commands, start # << >>
    PROVE  /\ start = << start[1] >> /\ Len(start) = 1 /\ start[1] \in Commanded
           /\ start[1].slot \in free /\ start[1].slot \in Slots
           /\ CpuFrame(start[1].length) \in FramesOf("cpu") /\ CpuFrame(start[1].length) \in Frames
           /\ CpuFrame(start[1].length).size = start[1].length
<1>1. PICK s \in free, n \in CpuSizes : start = << [slot |-> s, length |-> n] >>
  BY StartFacts
<1>2. start[1] = [slot |-> s, length |-> n] /\ Len(start) = 1 /\ start = << start[1] >>
  BY <1>1
<1>3. s \in Slots
  BY PlacesFacts
<1>4. start[1].slot = s /\ start[1].length = n /\ start[1] \in Commanded
  BY <1>2, <1>3 DEF Commanded
<1>5. CpuFrame(n) \in FramesOf("cpu") /\ CpuFrame(n).size = n
  BY DEF PlacesInv, CpuFrame, FramesOf, SizesOf
<1>6. QED
  BY <1>2, <1>3, <1>4, <1>5, CpuFrameFacts

\* No command is dropped, and none finds its frame written over.
LEMMA CommandsAre ==
    ASSUME PlacesInv, CpuInv, NEW start \in {<< >>} \cup Commands, NEW clear,
           ReaderFifos(start, clear), Software(start, clear)
    PROVE  /\ cmd' = KeptCmd \o start
           /\ \A s \in SlotsOf(cmd) : slot'[s] = slot[s]
           /\ start # << >> => slot'[start[1].slot] = CpuFrame(start[1].length)
<1>1. cmd' = KeptCmd \o Pushed(cmd, start)
  BY DEF ReaderFifos, KeptCmd, PopsCommand
<1>2. slot' = [s \in Slots |-> IF start # << >> /\ s = start[1].slot
                               THEN CpuFrame(start[1].length) ELSE slot[s]]
  BY DEF Software
<1>3. CASE start = << >>
  <2>1. Pushed(cmd, start) = start
    BY <1>3 DEF Pushed
  <2>2. \A s \in SlotsOf(cmd) : slot'[s] = slot[s]
    BY <1>2, <1>3, PlacesFacts
  <2>3. QED
    BY <1>1, <1>3, <2>1, <2>2
<1>4. CASE start # << >>
  <2>1. start[1].slot \in free /\ start[1].slot \in Slots
    BY <1>4, StartIs
  <2>2. start[1].slot \notin SlotsOf(cmd)
    BY <2>1 DEF PlacesInv
  <2>3. Len(cmd) < NSlots
    BY <2>1, <2>2, PlacesFacts, RoomForSlot DEF PlacesInv
  <2>4. Pushed(cmd, start) = start
    BY <2>3 DEF Pushed
  <2>5. \A s \in SlotsOf(cmd) : slot'[s] = slot[s]
    BY <1>2, <2>2, PlacesFacts
  <2>6. QED
    BY <1>1, <1>2, <1>4, <2>1, <2>4, <2>5
<1>5. QED
  BY <1>3, <1>4

LEMMA LengthsStep ==
    ASSUME PlacesInv, CpuInv, NEW start \in {<< >>} \cup Commands, NEW clear,
           ReaderFifos(start, clear), Software(start, clear)
    PROVE  \A i \in 1 .. Len(cmd') : cmd'[i].length = slot'[cmd'[i].slot].size
<1>1. /\ cmd' = KeptCmd \o start
      /\ \A s \in SlotsOf(cmd) : slot'[s] = slot[s]
      /\ start # << >> => slot'[start[1].slot] = CpuFrame(start[1].length)
  BY CommandsAre
<1>2. /\ KeptCmd \in Seq(Commanded)
      /\ \A i \in 1 .. Len(KeptCmd) : /\ KeptCmd[i].slot \in SlotsOf(cmd)
                                      /\ KeptCmd[i].length = slot[KeptCmd[i].slot].size
  BY KeptFacts
<1>3. CASE start = << >>
  <2>1. cmd' = KeptCmd
    BY <1>1, <1>2, <1>3, ConcatEmptySeq
  <2>2. QED
    BY <1>1, <1>2, <2>1
<1>4. CASE start # << >>
  <2>1. /\ start = << start[1] >> /\ start[1] \in Commanded
        /\ CpuFrame(start[1].length).size = start[1].length
    BY <1>4, StartIs
  <2> DEFINE e == start[1]
  <2>2. cmd' = KeptCmd \o << e >> /\ e \in Commanded /\ slot'[e.slot].size = e.length
    BY <1>1, <1>4, <2>1
  <2> HIDE DEF e
  <2>3. cmd' = Append(KeptCmd, e)
    BY <1>2, <2>2, AppendIsConcat
  <2>4. /\ Len(KeptCmd) \in Nat /\ Len(cmd') = Len(KeptCmd) + 1
        /\ \A i \in 1 .. Len(KeptCmd) : cmd'[i] = KeptCmd[i]
        /\ cmd'[Len(KeptCmd) + 1] = e
    BY <1>2, <2>2, <2>3, AppendProperties, SeqFacts
  <2>5. \A i \in 1 .. Len(cmd') : i \in 1 .. Len(KeptCmd) \/ i = Len(KeptCmd) + 1
    BY <2>4
  <2>6. QED
    BY <1>1, <1>2, <2>2, <2>4, <2>5
<1>5. QED
  BY <1>3, <1>4

LEMMA CpuStep ==
    ASSUME PlacesInv, CpuInv, HwInv, NEW start \in {<< >>} \cup Commands, NEW clear \in {FALSE} \cup {stat # << >>},
           ReaderFifos(start, clear), Software(start, clear), ReaderFsm, Cutter, Arbiter
    PROVE  CpuInv'
<1>1. \A i \in 1 .. Len(cmd') : cmd'[i].length = slot'[cmd'[i].slot].size
  BY LengthsStep
<1>2. cmd # << >> /\ reader # "END" => cmd' # << >> /\ Head(cmd') = Head(cmd)
  BY CmdStep DEF ReaderFifos
<1>3. reader \in {"IDLE", "SEND", "END"} /\ lastbe \in {"COPY", "WAIT-LAST"} /\ mux \in 0 .. WordBytes - 1
      /\ counter \in 0 .. LengthRange - 1
  BY DEF PlacesInv, CpuInv
<1>4. CASE reader # "SEND"
  <2>1. mux = 0 /\ lastbe = "COPY" /\ ~CpuValid /\ ~CpuTaken /\ ~ByteTaken /\ ~WordTaken /\ arbiter # "WISHBONE"
    BY <1>4 DEF CpuInv, CpuValid, CpuTaken, ByteTaken, WordTaken
  <2>2. mux' = 0 /\ lastbe' = "COPY"
    BY <2>1 DEF Cutter, WaitsForLast
  <2>3. arbiter' # "WISHBONE"
    BY <2>1, Arbiters
  <2>4. CASE reader = "IDLE" /\ cmd # << >>
    <3>1. counter' = 0 /\ reader' = "SEND" /\ Head(cmd') = Head(cmd) /\ cmd' # << >>
      BY <1>2, <2>4 DEF ReaderFsm
    <3>2. 0 % WordBytes = 0 /\ 0 \in 0 .. LengthRange - 1 /\ 0 \in 0 .. WordBytes - 1
      BY Constants
    <3>3. 0 < Head(cmd').length
      <4>1. Head(cmd) \in Commanded
        BY <2>4, HeadTailProperties DEF PlacesInv
      <4>2. Head(cmd).length \in WordBytes .. LengthRange - WordBytes
        BY <4>1, MacTxAssumption DEF Commanded, MacTxAssumption
      <4>3. QED
        BY <3>1, <4>2, Constants
    <3>4. CpuPassed' = 0
      BY <2>2, <3>1 DEF CpuPassed
    <3>5. QED
      BY <1>1, <2>2, <2>3, <3>1, <3>2, <3>3, <3>4 DEF CpuInv
  <2>5. CASE ~(reader = "IDLE" /\ cmd # << >>)
    <3>1. reader' = "IDLE" /\ counter' \in {0, counter}
      BY <1>3, <1>4, <2>1, <2>5 DEF ReaderFsm
    <3>2. counter' \in 0 .. LengthRange - 1 /\ 0 \in 0 .. WordBytes - 1
      BY <1>3, <3>1, Constants
    <3>3. ~CpuValid'
      BY <3>1 DEF CpuValid
    <3>4. QED
      BY <1>1, <2>2, <2>3, <3>1, <3>2, <3>3 DEF CpuInv
  <2>6. QED
    BY <2>4, <2>5
<1>5. CASE reader = "SEND"
  <2>1. cmd' # << >> /\ Head(cmd') = Head(cmd) /\ cmd # << >>
    BY <1>2, <1>5, HeadFacts
  <2>2. /\ counter % WordBytes = 0 /\ counter < Head(cmd).length
        /\ lastbe = "COPY" => CpuPassed < Head(cmd).length
        /\ lastbe = "WAIT-LAST" => LastWord /\ CpuPassed >= Head(cmd).length
        /\ CpuPassed = counter + mux
        /\ lastbe = "COPY" /\ arbiter # "WISHBONE" => CpuPassed = 0
    BY <1>5 DEF CpuInv, CpuPassed, CpuValid
  <2>3. NothingTaken \/ NextTaken \/ LastTaken \/ RestTaken
    BY <1>5, SendStep
  <2>4. CASE NothingTaken
    <3>1. /\ reader' = "SEND" /\ lastbe' = "COPY" /\ mux' = mux /\ counter' = counter /\ lastbe = "COPY"
          /\ arbiter' # "WISHBONE" => arbiter # "WISHBONE"
      BY <2>4 DEF NothingTaken
    <3>2. CpuPassed' = CpuPassed /\ CpuValid'
      BY <3>1 DEF CpuPassed, CpuValid
    <3>3. QED
      BY <1>1, <1>3, <2>1, <2>2, <3>1, <3>2 DEF CpuInv
  <2>5. CASE NextTaken
    <3>1. /\ reader' = "SEND" /\ lastbe' = "COPY" /\ arbiter' = "WISHBONE"
          /\ mux' \in 0 .. WordBytes - 1 /\ counter' \in 0 .. LengthRange - 1
          /\ counter' % WordBytes = 0 /\ counter' < Head(cmd).length /\ counter' + mux' = CpuPassed + 1
          /\ CpuPassed + 1 < Head(cmd).length
      BY <2>5 DEF NextTaken
    <3>2. CpuPassed' = CpuPassed + 1 /\ CpuValid'
      BY <3>1 DEF CpuPassed, CpuValid
    <3>3. QED
      BY <1>1, <2>1, <3>1, <3>2 DEF CpuInv
  <2>6. CASE LastTaken \/ RestTaken
    <3>1. /\ arbiter' # "WISHBONE" /\ (WordLeft \/ WordOver)
          /\ CpuPassed + 1 >= Head(cmd).length
      <4>1. CASE LastTaken
        <5>1. CpuPassed + 1 = Head(cmd).length /\ Head(cmd).length \in Nat
          BY <1>5, <4>1, HeadFacts, Constants DEF LastTaken
        <5>2. CpuPassed + 1 >= Head(cmd).length
          BY <5>1
        <5>3. QED
          BY <4>1, <5>2 DEF LastTaken
      <4>2. CASE RestTaken
        <5>1. CpuPassed >= Head(cmd).length /\ CpuPassed \in Int /\ Head(cmd).length \in Nat
          BY <1>3, <1>5, <2>2, <4>2, HeadFacts, Constants DEF RestTaken
        <5>2. CpuPassed + 1 >= Head(cmd).length
          BY <5>1
        <5>3. QED
          BY <4>2, <5>2 DEF RestTaken
      <4>3. QED
        BY <2>6, <4>1, <4>2
    <3>2. CASE WordLeft
      <4>1. reader' = "SEND" /\ lastbe' = "WAIT-LAST" /\ mux < WordBytes - 1 /\ mux' = mux + 1 /\ counter' = counter
        BY <3>2 DEF WordLeft
      <4>2. CpuPassed' = CpuPassed + 1 /\ ~CpuValid' /\ mux' \in 0 .. WordBytes - 1
        BY <1>3, <2>2, <4>1, Constants DEF CpuPassed, CpuValid
      <4>3. LastWord'
        BY <2>1, <3>2, <4>1 DEF LastWord, WordLeft
      <4>4. QED
        BY <1>1, <1>3, <2>1, <2>2, <3>1, <4>1, <4>2, <4>3 DEF CpuInv
    <3>3. CASE WordOver
      <4>1. reader' = "END" /\ lastbe' = "COPY" /\ mux' = 0 /\ counter' \in 0 .. LengthRange - 1
        BY <3>3 DEF WordOver
      <4>2. ~CpuValid' /\ 0 \in 0 .. WordBytes - 1
        BY <4>1, Constants DEF CpuValid
      <4>3. QED
        BY <1>1, <3>1, <4>1, <4>2 DEF CpuInv
    <3>4. QED
      BY <3>1, <3>2, <3>3
  <2>7. QED
    BY <2>3, <2>4, <2>5, <2>6
<1>6. QED
  BY <1>4, <1>5

-----------------------------------------------------------------------------
(* The stack's side. *)

LEMMA HwFrameFacts ==
    ASSUME NEW f \in FramesOf("hw")
    PROVE  f \in Frames /\ f.from = "hw" /\ f.size \in Nat \ {0} /\ f.size <= CountRange
<1>1. f \in Frames /\ f.from = "hw"
  BY DEF Frames, FramesOf, Senders
<1>2. QED
  BY <1>1, FrameFacts

LEMMA HwFacts ==
    ASSUME HwInv, hw # << >>
    PROVE  \E f \in FramesOf("hw"), k \in 1 .. CountRange :
              /\ f \in Frames /\ k \in 1 .. f.size /\ Head(hw) = hw[1] /\ hw[1] = FrameToken(f, k)
              /\ hw[1].byte.frame = f /\ hw[1].byte.at = k /\ (Head(hw).last <=> k = f.size)
              /\ RestOf(f, k)
<1> DEFINE f == hw[1].byte.frame
           k == hw[1].byte.at
<1>1. RestOf(f, k) /\ hw \in Seq(FrameTokens)
  BY DEF HwInv
<1>2. Head(hw) = hw[1] /\ 1 \in 1 .. Len(hw)
  BY <1>1, SeqFacts, HeadTailProperties
<1>3. hw[1].byte.frame = f /\ hw[1].byte.at = k
  OBVIOUS
<1>a. f = hw[1].byte.frame /\ k = hw[1].byte.at
  OBVIOUS
<1> HIDE DEF f, k
<1>4. f \in FramesOf("hw") /\ k \in 1 .. f.size /\ hw[1] = FrameToken(f, k + 1 - 1)
  BY <1>1, <1>2 DEF RestOf
<1>5. f \in Frames /\ f.size \in Nat \ {0} /\ f.size <= CountRange
  BY <1>4, HwFrameFacts
<1>6. k \in 1 .. CountRange /\ k + 1 - 1 = k
  BY <1>4, <1>5, Constants
<1>7. hw[1] = FrameToken(f, k)
  BY <1>4, <1>6
<1>8. Head(hw).last <=> k = f.size
  <2>1. FrameToken(f, k).last <=> k = f.size
    BY FrameTokenFacts
  <2>2. QED
    BY <1>2, <1>7, <2>1, Zenon
<1>9. QED
  BY <1>1, <1>2, <1>3, <1>4, <1>5, <1>6, <1>7, <1>8

TagInv == tag \in [Senders -> 0 .. Tags - 1]

LEMMA OfferIs ==
    ASSUME TagInv, NEW offer \in {<< >>} \cup Offers, offer # << >>
    PROVE  /\ offer = << offer[1] >> /\ Len(offer) = 1 /\ offer[1] \in FramesOf("hw") /\ offer[1] \in Frames
<1>1. PICK n \in HwSizes : offer = << [from |-> "hw", tag |-> tag["hw"], size |-> n] >>
  BY DEF Offers
<1>2. tag["hw"] \in 0 .. Tags - 1
  BY DEF TagInv, Senders
<1>3. [from |-> "hw", tag |-> tag["hw"], size |-> n] \in FramesOf("hw")
  BY <1>2 DEF FramesOf, SizesOf
<1>4. QED
  BY <1>1, <1>3, HwFrameFacts

LEMMA TokensFacts ==
    ASSUME NEW f \in Frames
    PROVE  /\ Tokens(f) \in Seq(FrameTokens) /\ Len(Tokens(f)) = f.size /\ Tokens(f) # << >>
           /\ \A i \in 1 .. f.size : Tokens(f)[i] = FrameToken(f, i)
           /\ Tokens(f)[1].byte.frame = f /\ Tokens(f)[1].byte.at = 1
<1>1. f.size \in Nat \ {0} /\ f.size <= CountRange
  BY FrameFacts
<1>2. \A i \in 1 .. f.size : FrameToken(f, i) \in FrameTokens
  <2>1. \A i \in 1 .. f.size : i \in 1 .. CountRange
    BY <1>1, Constants
  <2>2. QED
    BY <2>1 DEF FrameTokens
<1>3. Tokens(f) = [i \in 1 .. f.size |-> FrameToken(f, i)]
  BY DEF Tokens, FrameToken
<1>4. /\ Tokens(f) \in Seq(FrameTokens) /\ Len(Tokens(f)) = f.size
      /\ \A i \in 1 .. f.size : Tokens(f)[i] = FrameToken(f, i)
  BY <1>1, <1>2, <1>3
<1>5. Tokens(f) # << >> /\ 1 \in 1 .. f.size
  BY <1>1, <1>4, SeqFacts
<1>6. QED
  BY <1>4, <1>5, FrameTokenFacts

\* What the stack presents next: a new frame, the rest of its frame, or the same.
LEMMA HwStep ==
    ASSUME CpuInv, HwInv, TagInv, NEW offer \in {<< >>} \cup (IF hw = << >> THEN Offers ELSE {}),
           Stack(offer), Arbiter
    PROVE  HwInv'
<1>1. /\ arbiter' \in {"IDLE", "WISHBONE", "CROSSBAR"}
      /\ arbiter' = "CROSSBAR" => \/ arbiter = "IDLE" /\ HwValid
                                  \/ arbiter = "CROSSBAR" /\ ~(HwTaken /\ Head(hw).last)
      /\ arbiter = "CROSSBAR" => arbiter' = IF HwTaken /\ Head(hw).last THEN "IDLE" ELSE "CROSSBAR"
  BY Arbiters
<1>2. hw \in Seq(FrameTokens) /\ (arbiter = "CROSSBAR" => hw # << >>)
  BY DEF HwInv
<1>3. CASE offer # << >>
  <2>1. hw = << >> /\ offer \in {<< >>} \cup Offers
    BY <1>3
  <2> DEFINE f == offer[1]
  <2>2. f \in FramesOf("hw") /\ f \in Frames /\ hw' = Tokens(f)
    BY <1>3, <2>1, OfferIs DEF Stack
  <2> HIDE DEF f
  <2>3. /\ hw' \in Seq(FrameTokens) /\ Len(hw') = f.size /\ hw' # << >>
        /\ \A i \in 1 .. f.size : hw'[i] = FrameToken(f, i)
        /\ hw'[1].byte.frame = f /\ hw'[1].byte.at = 1
    BY <2>2, TokensFacts
  <2>4. f.size \in Nat \ {0}
    BY <2>2, FrameFacts
  <2>5. /\ 1 \in 1 .. f.size /\ Len(hw') = f.size - 1 + 1
        /\ \A i \in 1 .. Len(hw') : hw'[i] = FrameToken(f, 1 + i - 1)
    <3>1. \A i \in 1 .. f.size : 1 + i - 1 = i
      BY <2>4
    <3>2. QED
      BY <2>3, <2>4, <3>1
  <2>6. RestOf(hw[1].byte.frame, hw[1].byte.at)'
    BY <2>2, <2>3, <2>5 DEF RestOf
  <2>7. QED
    BY <1>1, <2>3, <2>6 DEF HwInv
<1>4. CASE offer = << >> /\ HwTaken
  <2>1. hw # << >> /\ arbiter = "CROSSBAR" /\ hw' = Tail(hw)
    BY <1>4 DEF HwTaken, HwValid, Stack
  <2>2. PICK f \in FramesOf("hw"), k \in 1 .. CountRange :
              /\ f \in Frames /\ k \in 1 .. f.size
              /\ (Head(hw).last <=> k = f.size)
              /\ RestOf(f, k)
    BY <2>1, HwFacts
  <2>3. /\ hw' \in Seq(FrameTokens) /\ Len(hw) \in Nat \ {0} /\ Len(hw') = Len(hw) - 1
        /\ \A i \in 1 .. Len(hw') : hw'[i] = hw[i + 1]
    BY <1>2, <2>1, HeadTailProperties, SeqFacts
  <2>4. f.size \in Nat \ {0} /\ Len(hw) = f.size - k + 1 /\ Len(hw') = f.size - k
    BY <2>2, <2>3, FrameFacts DEF RestOf
  <2>5. CASE k = f.size
    <3>1. hw' = << >>
      BY <2>3, <2>4, <2>5, SeqFacts
    <3>2. arbiter' = "IDLE"
      BY <1>1, <1>4, <2>1, <2>2, <2>5
    <3>3. QED
      BY <2>3, <3>1, <3>2 DEF HwInv
  <2>6. CASE k # f.size
    <3>1. hw' # << >> /\ k + 1 \in 1 .. f.size /\ 1 \in 1 .. Len(hw') /\ Len(hw') = f.size - (k + 1) + 1
      BY <2>2, <2>3, <2>4, <2>6, SeqFacts
    <3>2. \A i \in 1 .. Len(hw') : hw'[i] = FrameToken(f, k + 1 + i - 1)
      <4> SUFFICES ASSUME NEW i \in 1 .. Len(hw') PROVE hw'[i] = FrameToken(f, k + 1 + i - 1)
        OBVIOUS
      <4>1. i + 1 \in 1 .. Len(hw) /\ k + (i + 1) - 1 = k + 1 + i - 1
        BY <2>3, <2>4
      <4>2. hw[i + 1] = FrameToken(f, k + (i + 1) - 1)
        BY <2>2, <4>1 DEF RestOf
      <4>3. QED
        BY <2>3, <4>1, <4>2
    <3>3. hw'[1] = FrameToken(f, k + 1)
      <4>1. k + 1 + 1 - 1 = k + 1
        BY <2>2
      <4>2. QED
        BY <3>1, <3>2, <4>1
    <3>4. hw'[1].byte.frame = f /\ hw'[1].byte.at = k + 1
      BY <3>3, FrameTokenFacts
    <3>5. arbiter' = "CROSSBAR"
      BY <1>1, <2>1, <2>2, <2>6
    <3>6. RestOf(hw[1].byte.frame, hw[1].byte.at)'
      BY <2>2, <3>1, <3>2, <3>4, <3>5 DEF RestOf
    <3>7. QED
      BY <2>3, <3>1, <3>5, <3>6 DEF HwInv
  <2>7. QED
    BY <2>5, <2>6
<1>5. CASE offer = << >> /\ ~HwTaken
  <2>1. hw' = hw /\ (arbiter = "CROSSBAR" => arbiter' = "CROSSBAR")
    BY <1>1, <1>5 DEF Stack
  <2>2. arbiter' = "CROSSBAR" => hw # << >>
    BY <1>1, <1>2 DEF HwValid
  <2>3. hw # << >> => RestOf(hw[1].byte.frame, hw[1].byte.at)'
    BY <2>1 DEF HwInv, RestOf
  <2>4. QED
    BY <1>1, <1>2, <2>1, <2>2, <2>3 DEF HwInv
<1>6. QED
  BY <1>3, <1>4, <1>5

LEMMA TagStep ==
    ASSUME TagInv, NEW start \in {<< >>} \cup Commands, NEW offer \in {<< >>} \cup Offers,
           HandedIn(start, offer)
    PROVE  TagInv'
<1> DEFINE given == [cpu |-> IF start = << >> THEN << >> ELSE << CpuFrame(start[1].length) >>,
                     hw  |-> offer]
<1>1. tag' = [s \in Senders |-> (tag[s] + Len(given[s])) % Tags]
  BY DEF HandedIn
<1>2. Len(given["cpu"]) \in Nat
  <2>1. given["cpu"] = IF start = << >> THEN << >> ELSE << CpuFrame(start[1].length) >>
    OBVIOUS
  <2> HIDE DEF given
  <2>2. QED
    BY <2>1
<1>3. Len(given["hw"]) \in Nat
  <2>1. given["hw"] = offer
    OBVIOUS
  <2> HIDE DEF given
  <2>2. offer = << >> \/ Len(offer) = 1
    BY OfferIs
  <2>3. QED
    BY <2>1, <2>2
<1> HIDE DEF given
<1>4. \A s \in Senders : (tag[s] + Len(given[s])) % Tags \in 0 .. Tags - 1
  <2> SUFFICES ASSUME NEW s \in Senders PROVE (tag[s] + Len(given[s])) % Tags \in 0 .. Tags - 1
    OBVIOUS
  <2>1. tag[s] \in Nat /\ Len(given[s]) \in Nat
    BY <1>2, <1>3, Constants DEF TagInv, Senders
  <2>2. QED
    BY <2>1, Constants
<1>5. QED
  BY <1>1, <1>4 DEF TagInv

-----------------------------------------------------------------------------
(* What goes into the crossing. *)

LEMMA FrameStays ==
    ASSUME PlacesInv, CpuInv, NEW start \in {<< >>} \cup Commands, NEW clear,
           ReaderFifos(start, clear), Software(start, clear), reader = "SEND"
    PROVE  CpuFrameAtHead' = CpuFrameAtHead
<1>1. Head(cmd') = Head(cmd)
  BY HeadFacts, CmdStep DEF ReaderFifos
<1>2. slot'[Head(cmd).slot] = slot[Head(cmd).slot]
  BY CommandsAre, HeadFacts
<1>3. QED
  BY <1>1, <1>2 DEF CpuFrameAtHead

LEMMA CpuByteIs ==
    ASSUME PlacesInv, CpuInv, CpuTaken
    PROVE  /\ reader = "SEND" /\ lastbe = "COPY" /\ arbiter = "WISHBONE"
           /\ CpuFrameAtHead \in Frames /\ CpuFrameAtHead.from = "cpu"
           /\ CpuPassed \in Nat /\ CpuPassed + 1 \in 1 .. CpuFrameAtHead.size
           /\ CpuPassed + 1 \in 1 .. CountRange
           /\ CpuFrameAtHead.size = Head(cmd).length
           /\ CpuByte = FrameToken(CpuFrameAtHead, CpuPassed + 1)
<1>1. reader = "SEND" /\ lastbe = "COPY" /\ arbiter = "WISHBONE"
  BY DEF CpuTaken, CpuValid
<1>2. /\ CpuFrameAtHead \in Frames /\ CpuFrameAtHead.from = "cpu" /\ CpuFrameAtHead.size = Head(cmd).length
  BY <1>1, HeadFacts
<1>3. CpuPassed < Head(cmd).length /\ CpuPassed = counter + mux /\ counter \in Nat /\ mux \in Nat
  BY <1>1, SendFacts, Constants DEF CpuInv, CpuPassed
<1>4. LastByte <=> CpuPassed + 1 = CpuFrameAtHead.size
  BY <1>1, <1>2, <1>3, SendFacts
<1>5. LastByte \in BOOLEAN
  BY DEF LastByte
<1>6. CpuByte = Token(BodyByte(CpuFrameAtHead, counter + mux + 1), LastByte)
  BY DEF CpuByte, CpuFrameAtHead
<1>7. counter + mux + 1 = CpuPassed + 1
  BY <1>3
<1>8. CpuByte = FrameToken(CpuFrameAtHead, CpuPassed + 1)
  BY <1>4, <1>5, <1>6, <1>7, Zenon DEF FrameToken
<1>9. CpuFrameAtHead.size \in Nat /\ CpuFrameAtHead.size <= CountRange
  BY <1>2, FrameFacts
<1>10. CpuPassed \in Nat /\ CpuPassed + 1 \in 1 .. CpuFrameAtHead.size /\ CpuPassed + 1 \in 1 .. CountRange
  BY <1>2, <1>3, <1>9, Constants
<1>11. QED
  BY <1>1, <1>2, <1>8, <1>10

LEMMA GoesFrom ==
    ASSUME NEW f, NEW i \in Nat \ {0}, NEW m, m = IF i > 1 THEN Mark(f, i - 1) ELSE << >>
    PROVE  Goes(m, FrameToken(f, i))
<1>1. FrameToken(f, i).byte = BodyByte(f, i) /\ FrameToken(f, i).byte.at = i
  BY FrameTokenFacts
<1>2. CASE i > 1
  <2>1. m # << >> /\ m[1] = f /\ m[2] + 1 = i
    BY <1>2 DEF Mark
  <2>2. QED
    BY <1>1, <2>1 DEF Goes
<1>3. CASE ~(i > 1)
  BY <1>1, <1>3 DEF Goes
<1>4. QED
  BY <1>2, <1>3

LEMMA CpuCrossing ==
    ASSUME PlacesInv, CpuInv, HwInv, NEW start \in {<< >>} \cup Commands, NEW clear,
           ReaderFifos(start, clear), Software(start, clear), ReaderFsm, Cutter, Arbiter, CpuTaken
    PROVE  Goes(EntryMark, CpuByte) /\ EntryMark' = MarkOf(CpuByte) /\ CpuByte \in FrameTokens
<1> DEFINE f == CpuFrameAtHead
           i == CpuPassed + 1
<1>1. /\ reader = "SEND" /\ lastbe = "COPY" /\ arbiter = "WISHBONE"
      /\ f \in Frames /\ i \in Nat \ {0} /\ i \in 1 .. f.size /\ i \in 1 .. CountRange
      /\ CpuPassed = i - 1 /\ f.size = Head(cmd).length
      /\ CpuByte = FrameToken(f, i)
  BY CpuByteIs
<1>2. CpuFrameAtHead' = f
  BY <1>1, FrameStays
<1>3. EntryMark = IF CpuPassed > 0 THEN Mark(f, CpuPassed) ELSE << >>
  BY <1>1 DEF EntryMark
<1>4. NextTaken \/ LastTaken
  BY <1>1, SendStep DEF NothingTaken, RestTaken
<1>a. i = CpuPassed + 1
  OBVIOUS
<1> HIDE DEF f, i
<1>5. EntryMark = IF i > 1 THEN Mark(f, i - 1) ELSE << >>
  BY <1>1, <1>3
<1>6. Goes(EntryMark, CpuByte)
  BY <1>1, <1>5, GoesFrom
<1>7. EntryMark' = IF i < f.size THEN Mark(f, i) ELSE << >>
  <2>1. CASE NextTaken
    <3>1. arbiter' = "WISHBONE" /\ CpuPassed' = i /\ i < f.size
      BY <1>1, <1>a, <2>1 DEF NextTaken, CpuPassed
    <3>2. EntryMark' = Mark(f, i)
      BY <1>1, <1>2, <3>1 DEF EntryMark
    <3>3. QED
      BY <3>1, <3>2
  <2>2. CASE LastTaken
    <3>1. arbiter' = "IDLE" /\ i = f.size
      BY <1>1, <1>a, <2>2 DEF LastTaken
    <3>2. EntryMark' = << >>
      BY <3>1 DEF EntryMark
    <3>3. ~(i < f.size)
      BY <1>1, <3>1
    <3>4. QED
      BY <3>2, <3>3
  <2>3. QED
    BY <1>4, <2>1, <2>2
<1>8. MarkOf(FrameToken(f, i)) = IF i < f.size THEN Mark(f, i) ELSE << >>
  BY <1>1, MarkIs
<1>9. CpuByte \in FrameTokens
  BY <1>1 DEF FrameTokens
<1>10. QED
  BY <1>1, <1>6, <1>7, <1>8, <1>9

\* The rest of a frame begins with its next byte.
LEMMA HwNext ==
    ASSUME HwInv, HwTaken, hw' = Tail(hw), Arbiter, CpuInv
    PROVE  \E f \in FramesOf("hw"), k \in 1 .. CountRange :
              /\ f \in Frames /\ k \in 1 .. f.size /\ Head(hw) = FrameToken(f, k)
              /\ hw[1].byte.frame = f /\ hw[1].byte.at = k /\ arbiter = "CROSSBAR"
              /\ k = f.size => arbiter' = "IDLE" /\ hw' = << >>
              /\ k # f.size => /\ arbiter' = "CROSSBAR" /\ hw' # << >>
                               /\ hw'[1].byte.frame = f /\ hw'[1].byte.at = k + 1
<1>1. hw # << >> /\ arbiter = "CROSSBAR" /\ hw \in Seq(FrameTokens)
  BY DEF HwTaken, HwValid, HwInv
<1>2. PICK f \in FramesOf("hw"), k \in 1 .. CountRange :
              /\ f \in Frames /\ k \in 1 .. f.size /\ Head(hw) = hw[1] /\ hw[1] = FrameToken(f, k)
              /\ hw[1].byte.frame = f /\ hw[1].byte.at = k /\ (Head(hw).last <=> k = f.size)
              /\ RestOf(f, k)
  BY <1>1, HwFacts
<1>3. arbiter' = IF HwTaken /\ Head(hw).last THEN "IDLE" ELSE "CROSSBAR"
  BY <1>1, Arbiters
<1>4. /\ hw' \in Seq(FrameTokens) /\ Len(hw') = Len(hw) - 1 /\ Len(hw) \in Nat
      /\ \A i \in 1 .. Len(hw') : hw'[i] = hw[i + 1]
  BY <1>1, HeadTailProperties, SeqFacts
<1>5. Len(hw') = f.size - k /\ f.size \in Nat \ {0} /\ Len(hw) = f.size - k + 1
  BY <1>2, <1>4, FrameFacts DEF RestOf
<1>6. CASE k = f.size
  <2>1. hw' = << >>
    <3>a. f.size - k = 0
      BY <1>5, <1>6
    <3>1. Len(hw') = 0
      BY <1>5, <3>a, Zenon
    <3>2. hw' \in Seq(FrameTokens)
      BY <1>4
    <3>3. QED
      BY <3>1, <3>2, SeqFacts
  <2>2. arbiter' = "IDLE"
    BY <1>2, <1>3, <1>6
  <2>3. QED
    BY <1>1, <1>2, <1>6, <2>1, <2>2
<1>7. CASE k # f.size
  <2>1. hw' # << >> /\ 1 \in 1 .. Len(hw') /\ 2 \in 1 .. Len(hw) /\ k + 2 - 1 = k + 1
    <3>1. k \in Nat /\ k <= f.size
      BY <1>2, <1>5
    <3>2. f.size - k \in Nat \ {0} /\ k + 2 - 1 = k + 1 /\ f.size - k + 1 >= 2
      BY <1>5, <1>7, <3>1
    <3>3. Len(hw') # 0 /\ 1 \in 1 .. Len(hw') /\ 2 \in 1 .. Len(hw)
      BY <1>5, <3>2
    <3>4. hw' # << >>
      BY <3>3
    <3>5. QED
      BY <3>2, <3>3, <3>4
  <2>2. hw'[1] = FrameToken(f, k + 1)
    <3>1. hw[2] = FrameToken(f, k + 2 - 1)
      BY <1>2, <2>1 DEF RestOf
    <3>2. QED
      BY <1>4, <2>1, <3>1
  <2>3. hw'[1].byte.frame = f /\ hw'[1].byte.at = k + 1
    <3>1. FrameToken(f, k + 1).byte.frame = f /\ FrameToken(f, k + 1).byte.at = k + 1
      BY FrameTokenFacts
    <3>2. QED
      BY <2>2, <3>1, Zenon
  <2>4. arbiter' = "CROSSBAR"
    BY <1>2, <1>3, <1>7
  <2>5. QED
    BY <1>1, <1>2, <1>7, <2>1, <2>3, <2>4
<1>8. QED
  BY <1>6, <1>7

LEMMA HwCrossing ==
    ASSUME CpuInv, HwInv, HwTaken, hw' = Tail(hw), Arbiter
    PROVE  Goes(EntryMark, Head(hw)) /\ EntryMark' = MarkOf(Head(hw)) /\ Head(hw) \in FrameTokens
<1>1. PICK f \in FramesOf("hw"), k \in 1 .. CountRange :
              /\ f \in Frames /\ k \in 1 .. f.size /\ Head(hw) = FrameToken(f, k)
              /\ hw[1].byte.frame = f /\ hw[1].byte.at = k /\ arbiter = "CROSSBAR"
              /\ k = f.size => arbiter' = "IDLE" /\ hw' = << >>
              /\ k # f.size => /\ arbiter' = "CROSSBAR" /\ hw' # << >>
                               /\ hw'[1].byte.frame = f /\ hw'[1].byte.at = k + 1
  BY HwNext
<1>2. k \in Nat \ {0} /\ f.size \in Nat /\ k <= f.size
  BY <1>1, FrameFacts
<1>3. EntryMark = IF k > 1 THEN Mark(f, k - 1) ELSE << >>
  BY <1>1 DEF EntryMark
<1>4. Goes(EntryMark, Head(hw))
  BY <1>1, <1>2, <1>3, GoesFrom
<1>5. EntryMark' = IF k < f.size THEN Mark(f, k) ELSE << >>
  <2>1. CASE k = f.size
    BY <1>1, <1>2, <2>1 DEF EntryMark
  <2>2. CASE k # f.size
    <3>1. k + 1 > 1 /\ k + 1 - 1 = k /\ k < f.size
      BY <1>2, <2>2
    <3>a. /\ arbiter' = "CROSSBAR" /\ hw'[1].byte.frame = f
          /\ hw'[1].byte.at > 1 /\ hw'[1].byte.at - 1 = k
      BY <1>1, <2>2, <3>1
    <3>2. EntryMark' = Mark(f, k)
      BY <3>a DEF EntryMark
    <3>3. QED
      BY <3>1, <3>2
  <2>3. QED
    BY <2>1, <2>2
<1>6. MarkOf(FrameToken(f, k)) = IF k < f.size THEN Mark(f, k) ELSE << >>
  BY <1>1, MarkIs
<1>7. Head(hw) \in FrameTokens
  BY <1>1 DEF FrameTokens
<1>8. QED
  BY <1>1, <1>4, <1>5, <1>6, <1>7

LEMMA NoCrossing ==
    ASSUME PlacesInv, CpuInv, HwInv, NEW start \in {<< >>} \cup Commands, NEW clear,
           ReaderFifos(start, clear), Software(start, clear), ReaderFsm, Cutter, Arbiter, ~CpuTaken, ~HwTaken,
           NEW offer \in {<< >>} \cup (IF hw = << >> THEN Offers ELSE {}), Stack(offer)
    PROVE  EntryMark' = EntryMark
<1>1. /\ arbiter' \in {"IDLE", "WISHBONE", "CROSSBAR"}
      /\ arbiter # "WISHBONE" /\ ~CpuValid => arbiter' # "WISHBONE"
      /\ arbiter' = "CROSSBAR" => (arbiter = "IDLE" /\ HwValid) \/ arbiter = "CROSSBAR"
      /\ arbiter = "CROSSBAR" => arbiter' = "CROSSBAR"
  BY Arbiters
<1>2. hw # << >> => hw' = hw
  BY DEF Stack
<1>3. reader = "SEND" => CpuFrameAtHead' = CpuFrameAtHead
  BY FrameStays
<1>4. CASE arbiter = "WISHBONE"
  <2>1. reader = "SEND" /\ lastbe = "COPY"
    BY <1>4 DEF CpuInv, CpuValid
  <2>2. NothingTaken
    BY <1>4, <2>1, SendStep DEF NextTaken, LastTaken, RestTaken
  <2>3. arbiter' = "WISHBONE" /\ CpuPassed' = CpuPassed
    BY <1>4, <2>2 DEF NothingTaken, CpuPassed
  <2>4. QED
    BY <1>3, <1>4, <2>1, <2>3 DEF EntryMark
<1>5. CASE arbiter = "CROSSBAR"
  <2>1. hw' = hw
    BY <1>2, <1>5 DEF HwInv
  <2>2. QED
    BY <1>1, <1>5, <2>1 DEF EntryMark
<1>6. CASE arbiter = "IDLE"
  <2>1. EntryMark = << >>
    BY <1>6 DEF EntryMark
  <2>2. CASE arbiter' = "WISHBONE"
    <3>1. reader = "SEND" /\ lastbe = "COPY" /\ CpuPassed = 0
      BY <1>1, <1>6, <2>2 DEF CpuInv, CpuValid
    <3>2. NothingTaken
      BY <1>6, <3>1, SendStep DEF NextTaken, LastTaken, RestTaken
    <3>3. CpuPassed' = 0
      BY <3>1, <3>2 DEF NothingTaken, CpuPassed
    <3>4. QED
      BY <2>1, <2>2, <3>3 DEF EntryMark
  <2>3. CASE arbiter' = "CROSSBAR"
    <3>1. hw # << >> /\ hw' = hw
      BY <1>1, <1>2, <1>6, <2>3 DEF HwValid
    <3>2. ~(hw[1].byte.at > 1)
      <4>1. RestOf(hw[1].byte.frame, hw[1].byte.at)
        BY <3>1 DEF HwInv
      <4>2. QED
        BY <1>6, <4>1 DEF RestOf
    <3>3. QED
      BY <2>1, <2>3, <3>1, <3>2 DEF EntryMark
  <2>4. CASE arbiter' = "IDLE"
    BY <2>1, <2>4 DEF EntryMark
  <2>5. QED
    BY <1>1, <2>2, <2>3, <2>4
<1>7. QED
  BY <1>4, <1>5, <1>6 DEF HwInv

LEMMA CrossingStep ==
    ASSUME PlacesInv, CpuInv, HwInv, CrossingInv, PaddedInv, NEW start \in {<< >>} \cup Commands, NEW clear,
           ReaderFifos(start, clear), Software(start, clear), ReaderFsm, Cutter, Arbiter,
           NEW offer \in {<< >>} \cup (IF hw = << >> THEN Offers ELSE {}), Stack(offer), Crossing,
           UNCHANGED << padVars, buf, crcVars >>
    PROVE  CrossingInv'
<1>1. ExitMark' = ExitMark
  <2>1. UNCHANGED << padding, count, buf, crcState, crc >>
    BY DEF padVars, crcVars
  <2>2. QED
    BY <2>1, SamePadded
<1>2. cdc \in Seq(FrameTokens) /\ Len(cdc) <= Depth /\ Chained(ExitMark, cdc, EntryMark) /\ Len(cdc) \in Nat
  BY SeqFacts DEF CrossingInv
<1>3. ASSUME NEW t \in FrameTokens, cdc' = Append(cdc, t), Goes(EntryMark, t), EntryMark' = MarkOf(t), Room
      PROVE  CrossingInv'
  <2>1. Chained(ExitMark, Append(cdc, t), MarkOf(t))
    BY <1>2, <1>3, ChainAppend
  <2>2. Append(cdc, t) \in Seq(FrameTokens) /\ Len(Append(cdc, t)) = Len(cdc) + 1
    BY <1>2, <1>3, AppendProperties
  <2>3. Len(cdc') <= Depth
    BY <1>2, <1>3, <2>2, Constants DEF Room
  <2>4. QED
    BY <1>1, <1>3, <2>1, <2>2, <2>3 DEF CrossingInv
<1>4. CASE CpuTaken
  <2>1. cdc' = Append(cdc, CpuByte) /\ Room
    BY <1>4 DEF Crossing, CpuTaken
  <2>2. Goes(EntryMark, CpuByte) /\ EntryMark' = MarkOf(CpuByte) /\ CpuByte \in FrameTokens
    BY <1>4, CpuCrossing
  <2>3. QED
    BY <1>3, <2>1, <2>2
<1>5. CASE HwTaken /\ ~CpuTaken
  <2>1. cdc' = Append(cdc, Head(hw)) /\ Room /\ hw # << >>
    BY <1>5 DEF Crossing, HwTaken, HwValid
  <2>2. hw' = Tail(hw)
    BY <1>5, <2>1 DEF Stack
  <2>3. Goes(EntryMark, Head(hw)) /\ EntryMark' = MarkOf(Head(hw)) /\ Head(hw) \in FrameTokens
    BY <1>5, <2>2, HwCrossing
  <2>4. QED
    BY <1>3, <2>1, <2>3
<1>6. CASE ~CpuTaken /\ ~HwTaken
  <2>1. cdc' = cdc
    BY <1>6 DEF Crossing
  <2>2. EntryMark' = EntryMark
    BY <1>6, NoCrossing
  <2>3. QED
    BY <1>1, <1>2, <2>1, <2>2 DEF CrossingInv
<1>7. QED
  BY <1>4, <1>5, <1>6

-----------------------------------------------------------------------------
(* The frames that begin in a sequence of bytes. *)

LEMMA OpenedTyped ==
    ASSUME NEW s, NEW t \in FrameTokens PROVE Opened(s, t) \in Seq(FramesOf(s))
<1>1. PICK f \in Frames, i \in 1 .. CountRange : t = FrameToken(f, i)
  BY DEF FrameTokens
<1>2. t.byte.frame = f
  BY <1>1, FrameTokenFacts
<1>3. f \in FramesOf(f.from)
  BY FrameFacts
<1>4. From(s, f) \in Seq(FramesOf(s))
  <2>1. CASE f.from = s
    <3>1. f \in FramesOf(s)
      BY <1>3, <2>1
    <3>2. QED
      BY <2>1, <3>1 DEF From
  <2>2. CASE f.from # s
    BY <2>2 DEF From
  <2>3. QED
    BY <2>1, <2>2
<1>5. QED
  BY <1>2, <1>4 DEF Opened

\* Begun's recursion, over the first n bytes.
Extended(frames, s, t) == frames \o Opened(s, t)
Runs(r, s, tokens, n) ==
    r = [k \in 0 .. n |-> IF k = 0 THEN << >> ELSE Extended(r[k - 1], s, tokens[k])]

LEMMA RunExists ==
    ASSUME NEW s, NEW tokens, NEW n \in Nat PROVE \E r : Runs(r, s, tokens, n)
<1> DEFINE G == {m \in Nat : \E r : Runs(r, s, tokens, m)}
<1>1. 0 \in G
  <2>1. Runs([k \in 0 .. 0 |-> << >>], s, tokens, 0)
    BY DEF Runs
  <2>2. QED
    BY <2>1
<1>2. ASSUME NEW m \in G PROVE m + 1 \in G
  <2>1. PICK r : Runs(r, s, tokens, m)
    OBVIOUS
  <2> DEFINE g == [k \in 0 .. m + 1 |-> IF k = m + 1 THEN Extended(r[m], s, tokens[m + 1]) ELSE r[k]]
  <2>2. \A k \in 0 .. m : r[k] = IF k = 0 THEN << >> ELSE Extended(r[k - 1], s, tokens[k])
    BY <2>1 DEF Runs
  <2>3. \A k \in 0 .. m : g[k] = r[k] /\ k # m + 1
    OBVIOUS
  <2>4. g[m + 1] = Extended(r[m], s, tokens[m + 1])
    OBVIOUS
  <2>5. ASSUME NEW k \in 0 .. m + 1
        PROVE  g[k] = IF k = 0 THEN << >> ELSE Extended(g[k - 1], s, tokens[k])
    <3>1. CASE k = m + 1
      <4>1. k # 0 /\ k - 1 = m /\ m \in 0 .. m
        BY <3>1
      <4>2. QED
        BY <2>3, <2>4, <3>1, <4>1
    <3>2. CASE k # m + 1
      <4>1. k \in 0 .. m /\ (k # 0 => k - 1 \in 0 .. m)
        BY <3>2
      <4>2. QED
        BY <2>2, <2>3, <4>1
    <3>3. QED
      BY <3>1, <3>2
  <2>6. g = [k \in 0 .. m + 1 |-> g[k]]
    OBVIOUS
  <2> HIDE DEF g
  <2>7. Runs(g, s, tokens, m + 1)
    BY <2>5, <2>6 DEF Runs
  <2>8. QED
    BY <2>7
<1>3. G = Nat
  <2>1. G \in SUBSET Nat
    OBVIOUS
  <2> HIDE DEF G
  <2>2. QED
    BY <1>1, <1>2, <2>1, NatInduct
<1>4. QED
  BY <1>3

LEMMA RunsAgree ==
    ASSUME NEW s, NEW r, NEW g, NEW u, NEW v, NEW n \in Nat, NEW m \in Nat, n <= m,
           Runs(r, s, u, n), Runs(g, s, v, m), \A k \in 1 .. n : u[k] = v[k]
    PROVE  r[n] = g[n]
<1> DEFINE G == {k \in Nat : k <= n => r[k] = g[k]}
<1>1. /\ \A k \in 0 .. n : r[k] = IF k = 0 THEN << >> ELSE Extended(r[k - 1], s, u[k])
      /\ \A k \in 0 .. m : g[k] = IF k = 0 THEN << >> ELSE Extended(g[k - 1], s, v[k])
  BY DEF Runs
<1>2. 0 \in G
  BY <1>1
<1>3. ASSUME NEW k \in G PROVE k + 1 \in G
  <2> SUFFICES ASSUME k + 1 <= n PROVE r[k + 1] = g[k + 1]
    OBVIOUS
  <2>1. k + 1 \in 0 .. n /\ k + 1 \in 0 .. m /\ k + 1 \in 1 .. n /\ k + 1 # 0 /\ k + 1 - 1 = k /\ k <= n
    OBVIOUS
  <2>2. r[k + 1] = Extended(r[k], s, u[k + 1]) /\ g[k + 1] = Extended(g[k], s, v[k + 1])
    BY <1>1, <2>1
  <2>3. QED
    BY <2>1, <2>2
<1>4. G = Nat
  <2>1. G \in SUBSET Nat
    OBVIOUS
  <2> HIDE DEF G
  <2>2. QED
    BY <1>2, <1>3, <2>1, NatInduct
<1>5. n \in G
  BY <1>4
<1>6. QED
  BY <1>5

LEMMA BegunRun ==
    ASSUME NEW s, NEW tokens \in Seq(FrameTokens)
    PROVE  \E r : Runs(r, s, tokens, Len(tokens)) /\ Begun(s, tokens) = r[Len(tokens)]
<1>1. Begun(s, tokens) = (CHOOSE r : Runs(r, s, tokens, Len(tokens)))[Len(tokens)]
  BY DEF Begun, Runs, Extended
<1>2. Len(tokens) \in Nat
  BY LenProperties
<1>3. \E r : Runs(r, s, tokens, Len(tokens))
  BY <1>2, RunExists
<1>4. QED
  BY <1>1, <1>3

LEMMA BegunEmpty == ASSUME NEW s PROVE Begun(s, << >>) = << >>
<1>1. << >> \in Seq(FrameTokens) /\ Len(<< >>) = 0
  OBVIOUS
<1>2. PICK r : Runs(r, s, << >>, 0) /\ Begun(s, << >>) = r[0]
  BY <1>1, BegunRun
<1>3. r[0] = << >>
  BY <1>2 DEF Runs
<1>4. QED
  BY <1>2, <1>3

LEMMA BegunAppend ==
    ASSUME NEW s, NEW q \in Seq(FrameTokens), NEW t \in FrameTokens
    PROVE  Begun(s, Append(q, t)) = Begun(s, q) \o Opened(s, t)
<1> DEFINE more == Append(q, t)
           n == Len(q)
<1>1. /\ more \in Seq(FrameTokens) /\ Len(more) = n + 1 /\ n \in Nat
      /\ \A k \in 1 .. n : q[k] = more[k]
      /\ more[n + 1] = t
  BY AppendProperties, LenProperties
<1>2. PICK r : Runs(r, s, q, n) /\ Begun(s, q) = r[n]
  BY BegunRun
<1>3. PICK g : Runs(g, s, more, n + 1) /\ Begun(s, more) = g[n + 1]
  BY <1>1, BegunRun
<1> HIDE DEF more, n
<1>4. r[n] = g[n]
  <2>1. n + 1 \in Nat /\ n <= n + 1
    BY <1>1
  <2>2. Runs(r, s, q, n) /\ Runs(g, s, more, n + 1) /\ n \in Nat
    BY <1>1, <1>2, <1>3
  <2>3. QED
    BY <1>1, <2>1, <2>2, RunsAgree
<1>5. g[n + 1] = Extended(g[n], s, t)
  <2>1. n + 1 \in 0 .. n + 1 /\ n + 1 # 0 /\ n + 1 - 1 = n
    BY <1>1
  <2>2. \A k \in 0 .. n + 1 : g[k] = IF k = 0 THEN << >> ELSE Extended(g[k - 1], s, more[k])
    BY <1>3 DEF Runs
  <2>3. QED
    BY <1>1, <2>1, <2>2
<1>6. QED
  BY <1>2, <1>3, <1>4, <1>5 DEF more, Extended

LEMMA BegunTyped ==
    ASSUME NEW s, NEW tokens \in Seq(FrameTokens) PROVE Begun(s, tokens) \in Seq(FramesOf(s))
<1> DEFINE G == {q \in Seq(FrameTokens) : Begun(s, q) \in Seq(FramesOf(s))}
<1>1. << >> \in G
  <2>1. << >> \in Seq(FrameTokens) /\ << >> \in Seq(FramesOf(s))
    BY EmptySeq
  <2>2. QED
    BY <2>1, BegunEmpty
<1>2. ASSUME NEW q \in G, NEW t \in FrameTokens PROVE Append(q, t) \in G
  <2>1. Begun(s, Append(q, t)) = Begun(s, q) \o Opened(s, t) /\ Append(q, t) \in Seq(FrameTokens)
    BY BegunAppend, AppendProperties
  <2>2. Opened(s, t) \in Seq(FramesOf(s)) /\ Begun(s, q) \in Seq(FramesOf(s))
    BY OpenedTyped
  <2>3. Begun(s, q) \o Opened(s, t) \in Seq(FramesOf(s))
    BY <2>2, ConcatProperties
  <2>4. QED
    BY <2>1, <2>3
<1>3. G = Seq(FrameTokens)
  <2>1. G \in SUBSET Seq(FrameTokens)
    OBVIOUS
  <2> HIDE DEF G
  <2>2. QED
    BY <1>1, <1>2, <2>1, SeqInduct
<1>4. QED
  BY <1>3

LEMMA BegunHead ==
    ASSUME NEW s, NEW tokens \in Seq(FrameTokens), tokens # << >>
    PROVE  Begun(s, tokens) = Opened(s, Head(tokens)) \o Begun(s, Tail(tokens))
<1> DEFINE Law(q) == Begun(s, q) = Opened(s, Head(q)) \o Begun(s, Tail(q))
           G == {q \in Seq(FrameTokens) : q # << >> => Law(q)}
<1>1. << >> \in G
  OBVIOUS
<1>2. ASSUME NEW q \in G, NEW t \in FrameTokens PROVE Append(q, t) \in G
  <2>1. Begun(s, Append(q, t)) = Begun(s, q) \o Opened(s, t) /\ Append(q, t) \in Seq(FrameTokens)
    BY BegunAppend, AppendProperties
  <2>2. /\ Head(Append(q, t)) = IF q = << >> THEN t ELSE Head(q)
        /\ Tail(Append(q, t)) = IF q = << >> THEN << >> ELSE Append(Tail(q), t)
    BY HeadTailAppend
  <2>3. Opened(s, t) \in Seq(FramesOf(s))
    BY OpenedTyped
  <2>4. CASE q = << >>
    <3>1. Begun(s, Append(q, t)) = Opened(s, t)
      BY <2>1, <2>3, <2>4, BegunEmpty, ConcatEmptySeq
    <3>2. Opened(s, t) \o << >> = Opened(s, t)
      BY <2>3, ConcatEmptySeq
    <3>3. Law(Append(q, t))
      BY <2>2, <2>4, <3>1, <3>2, BegunEmpty
    <3>4. QED
      BY <2>1, <3>3
  <2>5. CASE q # << >>
    <3> DEFINE h == Opened(s, Head(q))
               rest == Begun(s, Tail(q))
    <3>1. Begun(s, q) = h \o rest
      BY <2>5
    <3>2. Head(q) \in FrameTokens /\ Tail(q) \in Seq(FrameTokens)
      BY <2>5, HeadTailProperties
    <3>3. h \in Seq(FramesOf(s)) /\ rest \in Seq(FramesOf(s))
      BY <3>2, OpenedTyped, BegunTyped
    <3>4. Begun(s, Append(Tail(q), t)) = rest \o Opened(s, t)
      BY <3>2, BegunAppend
    <3>5. h = Opened(s, Head(q))
      OBVIOUS
    <3> DEFINE o == Opened(s, t)
    <3>a. o = Opened(s, t) /\ o \in Seq(FramesOf(s))
      BY <2>3
    <3> HIDE DEF h, rest, o
    <3>6. (h \o rest) \o o = h \o (rest \o o)
      BY <3>3, <3>a, ConcatAssociative
    <3>7. Law(Append(q, t))
      BY <2>1, <2>2, <2>5, <3>1, <3>4, <3>5, <3>6, <3>a
    <3>8. QED
      BY <2>1, <3>7
  <2>6. QED
    BY <2>4, <2>5
<1>3. G = Seq(FrameTokens)
  <2>1. G \in SUBSET Seq(FrameTokens)
    OBVIOUS
  <2> HIDE DEF G
  <2>2. QED
    BY <1>1, <1>2, <2>1, SeqInduct
<1>4. QED
  BY <1>3

-----------------------------------------------------------------------------
(* The frames behind the crossing. *)

LEMMA FromTyped ==
    ASSUME NEW s, NEW f \in Frames
    PROVE  /\ From(s, f) \in Seq(FramesOf(s))
           /\ f.from # s => From(s, f) = << >>
           /\ f.from = s => From(s, f) = << f >> /\ f \in FramesOf(s)
<1>1. f \in FramesOf(f.from)
  BY FrameFacts
<1>2. CASE f.from = s
  <2>1. f \in FramesOf(s)
    BY <1>1, <1>2
  <2>2. QED
    BY <1>2, <2>1 DEF From
<1>3. CASE f.from # s
  BY <1>3 DEF From
<1>4. QED
  BY <1>2, <1>3

LEMMA EmptyTyped == ASSUME NEW S PROVE << >> \in Seq(S)
  OBVIOUS

\* The two frames behind the crossing: the one in the CRC inserter, and the next.
InCrc(s) == IF crcState # "IDLE" THEN From(s, OutFrame) ELSE << >>
InBuf(s) == IF crcState # "COPY" /\ buf # << >> THEN From(s, buf[1].byte.frame) ELSE << >>

LEMMA InsideTyped ==
    ASSUME PaddedInv, NEW s
    PROVE  /\ InCrc(s) \in Seq(FramesOf(s)) /\ InBuf(s) \in Seq(FramesOf(s))
           /\ Inside(s) \in Seq(FramesOf(s)) /\ Inside(s) = InCrc(s) \o InBuf(s)
<1>1. crcState # "IDLE" => OutFrame \in Frames
  BY DEF PaddedInv
<1>2. crcState # "COPY" /\ buf # << >> => buf[1].byte.frame \in Frames
  <2>1. crcState # "COPY" => InFrame = buf[1].byte.frame
    BY DEF InFrame
  <2>2. QED
    BY <2>1 DEF PaddedInv
<1>3. InCrc(s) \in Seq(FramesOf(s))
  BY <1>1, FromTyped, EmptyTyped DEF InCrc
<1>4. InBuf(s) \in Seq(FramesOf(s))
  BY <1>2, FromTyped, EmptyTyped DEF InBuf
<1>5. Inside(s) = InCrc(s) \o InBuf(s)
  BY DEF Inside, InCrc, InBuf
<1>6. InCrc(s) \o InBuf(s) \in Seq(FramesOf(s))
  BY <1>3, <1>4, ConcatProperties
<1>7. QED
  BY <1>3, <1>4, <1>5, <1>6

LEMMA OutFrameKept ==
    ASSUME PaddedInv, crc' = crc, crcState = "CRC" PROVE OutFrame' = OutFrame /\ crc # << >>
<1>1. crc = Padded(OutFrame) /\ OutFrame \in Frames
  BY DEF PaddedInv
<1>2. crc # << >>
  BY <1>1, EmptyPadded
<1>3. QED
  BY <1>2 DEF OutFrame

LEMMA InsideInserted ==
    ASSUME PaddedInv, PaddedInv', NEW s, NEW f, NEW i, PlaceInserted(f, i)
    PROVE  Inside(s)' = Inside(s) \o (IF i = 1 THEN From(s, f) ELSE << >>)
<1>1. /\ f \in Frames /\ i \in 1 .. PaddedLength(f) /\ buf = << >> /\ buf' = << PaddedToken(f, i) >>
      /\ IF crcState = "COPY" THEN crc # << >> /\ f = OutFrame /\ Len(crc) = i - 1 ELSE i = 1
      /\ crcState' = crcState /\ crc' = crc
  BY DEF PlaceInserted
<1>2. /\ InCrc(s) \in Seq(FramesOf(s)) /\ InBuf(s) \in Seq(FramesOf(s))
      /\ Inside(s) \in Seq(FramesOf(s)) /\ Inside(s) = InCrc(s) \o InBuf(s)
  BY InsideTyped
<1>3. InBuf(s) = << >>
  BY <1>1 DEF InBuf
<1>4. Inside(s) = InCrc(s)
  BY <1>2, <1>3, ConcatEmptySeq
<1>5. InCrc(s)' = InCrc(s)
  <2>1. CASE crcState = "COPY"
    <3>1. OutFrame' = OutFrame
      BY <1>1, <2>1 DEF OutFrame
    <3>2. QED
      BY <1>1, <3>1 DEF InCrc
  <2>2. CASE crcState = "CRC"
    BY <1>1, <2>2, OutFrameKept DEF InCrc
  <2>3. CASE crcState = "IDLE"
    BY <1>1, <2>3 DEF InCrc
  <2>4. QED
    BY <2>1, <2>2, <2>3 DEF PaddedInv
<1>6. InBuf(s)' = IF i = 1 THEN From(s, f) ELSE << >>
  <2>1. CASE crcState = "COPY"
    <3>1. InBuf(s)' = << >>
      BY <1>1, <2>1 DEF InBuf
    <3>2. i # 1
      <4>1. Len(crc) # 0
        BY <1>1, <2>1, CopiedFacts
      <4>2. QED
        BY <1>1, <2>1, <4>1
    <3>3. QED
      BY <3>1, <3>2
  <2>2. CASE crcState # "COPY"
    <3>1. i = 1 /\ buf'[1] = PaddedToken(f, i) /\ buf' # << >>
      BY <1>1, <2>2, BufFacts
    <3>2. buf'[1].byte.frame = f
      BY <1>1, <3>1, PaddedTokenFacts
    <3>3. QED
      BY <1>1, <2>2, <3>1, <3>2 DEF InBuf
  <2>3. QED
    BY <2>1, <2>2
<1>7. Inside(s)' = InCrc(s)' \o InBuf(s)'
  BY DEF Inside, InCrc, InBuf
<1>8. QED
  BY <1>4, <1>5, <1>6, <1>7

LEMMA InsideCrcIdle ==
    ASSUME PaddedInv, Crc_IDLE, NEW s PROVE Inside(s)' = Inside(s)
<1>1. crcState = "IDLE" /\ buf # << >> /\ crcState' = "COPY" /\ crc' = << >> /\ buf' = buf
  BY DEF Crc_IDLE
<1>2. OutFrame' = buf[1].byte.frame
  BY <1>1 DEF OutFrame
<1>3. InCrc(s) = << >> /\ InBuf(s) = From(s, buf[1].byte.frame)
  BY <1>1 DEF InCrc, InBuf
<1>4. InCrc(s)' = From(s, buf[1].byte.frame) /\ InBuf(s)' = << >>
  BY <1>1, <1>2 DEF InCrc, InBuf
<1>5. From(s, buf[1].byte.frame) \in Seq(FramesOf(s))
  BY <1>3, InsideTyped
<1> DEFINE x == From(s, buf[1].byte.frame)
<1>6. /\ InCrc(s) = << >> /\ InBuf(s) = x /\ InCrc(s)' = x /\ InBuf(s)' = << >> /\ x \in Seq(FramesOf(s))
  BY <1>3, <1>4, <1>5
<1> HIDE DEF x
<1>7. x \o << >> = x /\ << >> \o x = x
  BY <1>6, ConcatEmptySeq
<1>8. Inside(s) = InCrc(s) \o InBuf(s) /\ Inside(s)' = InCrc(s)' \o InBuf(s)'
  BY DEF Inside, InCrc, InBuf
<1>9. QED
  BY <1>6, <1>7, <1>8

LEMMA InsideCopy ==
    ASSUME PaddedInv, Crc_COPY, NEW s PROVE Inside(s)' = Inside(s)
<1>1. crcState = "COPY" /\ buf' = << >> /\ crcState' \in {"COPY", "CRC"}
  BY DEF Crc_COPY
<1>2. OutFrame' = OutFrame
  BY CopyFacts
<1>3. InCrc(s)' = InCrc(s)
  BY <1>1, <1>2 DEF InCrc
<1>4. InBuf(s) = << >> /\ InBuf(s)' = << >>
  BY <1>1 DEF InBuf
<1>5. Inside(s) = InCrc(s) \o InBuf(s) /\ Inside(s)' = InCrc(s)' \o InBuf(s)'
  BY DEF Inside, InCrc, InBuf
<1>6. QED
  BY <1>3, <1>4, <1>5

\* The frame that ends on the wire is the first that its sender is owed.
LEMMA InsideSent ==
    ASSUME PaddedInv, Crc_CRC, cnt = 0, NEW s
    PROVE  Inside(s) = From(s, OutFrame) \o Inside(s)' /\ Inside(s)' \in Seq(FramesOf(s))
<1>1. crcState = "CRC" /\ crcState' = "IDLE" /\ buf' = buf
  BY DEF Crc_CRC
<1>2. InCrc(s) = From(s, OutFrame) /\ InCrc(s)' = << >>
  BY <1>1 DEF InCrc
<1>3. InBuf(s)' = InBuf(s)
  BY <1>1 DEF InBuf
<1>4. Inside(s) = InCrc(s) \o InBuf(s) /\ Inside(s)' = InCrc(s)' \o InBuf(s)'
  BY DEF Inside, InCrc, InBuf
<1>5. InBuf(s) \in Seq(FramesOf(s))
  BY InsideTyped
<1>6. << >> \o InBuf(s) = InBuf(s)
  BY <1>5, ConcatEmptySeq
<1>7. QED
  BY <1>2, <1>3, <1>4, <1>5, <1>6

LEMMA InsideSame ==
    ASSUME UNCHANGED << buf, crcState, crc >>, NEW s PROVE Inside(s)' = Inside(s)
<1>1. OutFrame' = OutFrame
  BY DEF OutFrame
<1>2. QED
  BY <1>1 DEF Inside

-----------------------------------------------------------------------------
(* The frames before the crossing. *)

LEMMA UnbegunFacts ==
    ASSUME PlacesInv, CpuInv
    PROVE  /\ CpuBegun => reader # "IDLE" /\ cmd # << >>
           /\ Unbegun \in Seq(Commanded)
           /\ \A i \in 1 .. Len(Unbegun) : Unbegun[i].slot \in SlotsOf(cmd)
<1>1. CpuBegun => reader # "IDLE" /\ cmd # << >>
  <2>1. arbiter = "WISHBONE" => reader = "SEND"
    BY DEF CpuInv, CpuValid
  <2>2. lastbe = "WAIT-LAST" => reader = "SEND"
    BY DEF CpuInv
  <2>3. reader # "IDLE" => cmd # << >>
    BY DEF PlacesInv
  <2>4. QED
    BY <2>1, <2>2, <2>3 DEF CpuBegun
<1>2. cmd \in Seq(Commanded) /\ \A i \in 1 .. Len(cmd) : cmd[i].slot \in SlotsOf(cmd)
  BY DEF PlacesInv, SlotsOf
<1>3. CASE CpuBegun
  <2>1. /\ Tail(cmd) \in Seq(Commanded)
        /\ \A i \in 1 .. Len(Tail(cmd)) : \E j \in 1 .. Len(cmd) : Tail(cmd)[i] = cmd[j]
    BY <1>1, <1>2, <1>3, HeadTailProperties, TailSlots DEF PlacesInv
  <2>2. Unbegun = Tail(cmd)
    BY <1>3 DEF Unbegun
  <2>3. QED
    BY <1>1, <1>2, <2>1, <2>2
<1>4. CASE ~CpuBegun
  BY <1>2, <1>4 DEF Unbegun
<1>5. QED
  BY <1>3, <1>4

LEMMA FramesAtTyped ==
    ASSUME PlacesInv, NEW q \in Seq(Commanded), \A i \in 1 .. Len(q) : q[i].slot \in SlotsOf(cmd)
    PROVE  FramesAt(q, slot) \in Seq(FramesOf("cpu")) /\ Len(FramesAt(q, slot)) = Len(q)
<1>1. \A i \in 1 .. Len(q) : slot[q[i].slot] \in FramesOf("cpu")
  BY DEF PlacesInv
<1>2. Len(q) \in Nat
  BY LenProperties
<1>3. QED
  BY <1>1, <1>2 DEF FramesAt

LEMMA WaitingTyped ==
    ASSUME PlacesInv, CpuInv, HwInv, NEW s \in Senders
    PROVE  Waiting(s) \in Seq(FramesOf(s))
<1>1. CASE s = "cpu"
  <2>1. FramesAt(Unbegun, slot) \in Seq(FramesOf("cpu"))
    BY UnbegunFacts, FramesAtTyped
  <2>2. QED
    BY <1>1, <2>1 DEF Waiting
<1>2. CASE s = "hw"
  <2>1. hw # << >> => hw[1].byte.frame \in FramesOf("hw")
    BY DEF HwInv, RestOf
  <2>2. Waiting(s) = IF hw # << >> /\ hw[1].byte.at = 1 THEN << hw[1].byte.frame >> ELSE << >>
    BY <1>2 DEF Waiting
  <2>3. CASE hw # << >> /\ hw[1].byte.at = 1
    <3>1. Waiting(s) = << hw[1].byte.frame >>
      BY <2>2, <2>3
    <3>2. << hw[1].byte.frame >> \in Seq(FramesOf("hw"))
      BY <2>1, <2>3
    <3>3. QED
      BY <1>2, <3>1, <3>2
  <2>4. CASE ~(hw # << >> /\ hw[1].byte.at = 1)
    <3>1. Waiting(s) = << >>
      BY <2>2, <2>4
    <3>2. QED
      BY <3>1, EmptyTyped
  <2>5. QED
    BY <2>3, <2>4
<1>3. QED
  BY <1>1, <1>2 DEF Senders

GivenCpu(start) == IF start = << >> THEN << >> ELSE << CpuFrame(start[1].length) >>

\* A frame that is handed in comes behind those that wait, which stay as they are.
LEMMA FramesAtStart ==
    ASSUME PlacesInv, CpuInv, NEW start \in {<< >>} \cup Commands, NEW clear,
           ReaderFifos(start, clear), Software(start, clear),
           NEW q \in Seq(Commanded), \A i \in 1 .. Len(q) : q[i].slot \in SlotsOf(cmd)
    PROVE  /\ FramesAt(q \o start, slot') = FramesAt(q, slot) \o GivenCpu(start)
           /\ GivenCpu(start) \in Seq(FramesOf("cpu"))
<1>1. /\ \A s \in SlotsOf(cmd) : slot'[s] = slot[s]
      /\ start # << >> => slot'[start[1].slot] = CpuFrame(start[1].length)
  BY CommandsAre
<1>2. /\ FramesAt(q, slot) \in Seq(FramesOf("cpu")) /\ Len(FramesAt(q, slot)) = Len(q)
      /\ Len(q) \in Nat
  BY FramesAtTyped, LenProperties
<1>3. CASE start = << >>
  <2>1. GivenCpu(start) = << >> /\ q \o start = q
    BY <1>3, ConcatEmptySeq DEF GivenCpu
  <2>2. FramesAt(q, slot') = FramesAt(q, slot)
    BY <1>1 DEF FramesAt
  <2>3. FramesAt(q, slot) \o << >> = FramesAt(q, slot)
    BY <1>2, ConcatEmptySeq
  <2>4. QED
    BY <2>1, <2>2, <2>3, EmptyTyped
<1>4. CASE start # << >>
  <2> DEFINE e == start[1]
             f == CpuFrame(start[1].length)
  <2>1. start = << e >> /\ e \in Commanded /\ f \in FramesOf("cpu") /\ slot'[e.slot] = f
        /\ GivenCpu(start) = << f >>
    BY <1>1, <1>4, StartIs DEF GivenCpu
  <2> HIDE DEF e, f
  <2>2. q \o start = Append(q, e)
    BY <2>1, AppendIsConcat
  <2>3. /\ Len(Append(q, e)) = Len(q) + 1 /\ Append(q, e)[Len(q) + 1] = e
        /\ \A i \in 1 .. Len(q) : Append(q, e)[i] = q[i]
    BY <2>1, AppendProperties
  <2> DEFINE a == FramesAt(q, slot)
             b == FramesAt(Append(q, e), slot')
  <2>4. a \in Seq(FramesOf("cpu")) /\ Len(a) = Len(q) /\ \A i \in 1 .. Len(q) : a[i] = slot[q[i].slot]
    BY <1>2 DEF FramesAt
  <2>5. b = [i \in 1 .. Len(q) + 1 |-> slot'[Append(q, e)[i].slot]]
    BY <2>3 DEF FramesAt
  <2> HIDE DEF a, b
  <2>6. \A i \in 1 .. Len(q) + 1 : IF i = Len(q) + 1 THEN b[i] = f ELSE b[i] = a[i] /\ a[i] \in FramesOf("cpu")
    <3> SUFFICES ASSUME NEW i \in 1 .. Len(q) + 1
                 PROVE  IF i = Len(q) + 1 THEN b[i] = f ELSE b[i] = a[i] /\ a[i] \in FramesOf("cpu")
      OBVIOUS
    <3>1. b[i] = slot'[Append(q, e)[i].slot]
      BY <2>5
    <3>2. CASE i = Len(q) + 1
      BY <2>1, <2>3, <3>1, <3>2
    <3>3. CASE i # Len(q) + 1
      <4>1. i \in 1 .. Len(q)
        BY <1>2, <3>3
      <4>2. q[i].slot \in SlotsOf(cmd) /\ Append(q, e)[i] = q[i]
        BY <2>3, <4>1
      <4>3. b[i] = slot[q[i].slot]
        BY <1>1, <3>1, <4>2
      <4>4. a[i] \in FramesOf("cpu")
        BY <2>4, <4>1, ElementOfSeq
      <4>5. QED
        BY <2>4, <3>3, <4>1, <4>3, <4>4
    <3>4. QED
      BY <3>2, <3>3
  <2>7. b \in Seq(FramesOf("cpu")) /\ Len(b) = Len(q) + 1
    <3>1. \A i \in 1 .. Len(q) + 1 : b[i] \in FramesOf("cpu")
      BY <2>1, <2>6
    <3>2. b = [i \in 1 .. Len(q) + 1 |-> b[i]]
      BY <2>5
    <3>3. Len(q) + 1 \in Nat
      BY <1>2
    <3>4. b \in [1 .. Len(q) + 1 -> FramesOf("cpu")]
      BY <3>1, <3>2
    <3>5. QED
      BY <3>3, <3>4
  <2>8. /\ Append(a, f) \in Seq(FramesOf("cpu")) /\ Len(Append(a, f)) = Len(q) + 1
        /\ \A i \in 1 .. Len(q) : Append(a, f)[i] = a[i]
        /\ Append(a, f)[Len(q) + 1] = f
    BY <2>1, <2>4, AppendProperties
  <2>9. \A i \in 1 .. Len(b) : b[i] = Append(a, f)[i]
    <3> SUFFICES ASSUME NEW i \in 1 .. Len(b) PROVE b[i] = Append(a, f)[i]
      OBVIOUS
    <3>1. i \in 1 .. Len(q) + 1 /\ (i = Len(q) + 1 \/ i \in 1 .. Len(q))
      BY <1>2, <2>7
    <3>2. i \in 1 .. Len(q) => i # Len(q) + 1
      BY <1>2
    <3>3. QED
      BY <2>6, <2>8, <3>1, <3>2
  <2>10. b = Append(a, f)
    BY <2>7, <2>8, <2>9, SeqEqual
  <2>11. Append(a, f) = a \o << f >> /\ << f >> \in Seq(FramesOf("cpu"))
    BY <2>1, <2>4, AppendIsConcat
  <2>12. QED
    BY <2>1, <2>2, <2>10, <2>11 DEF a, b
<1>5. QED
  BY <1>3, <1>4

LEMMA FramesAtHead ==
    ASSUME PlacesInv, NEW q \in Seq(Commanded), q # << >>, \A i \in 1 .. Len(q) : q[i].slot \in SlotsOf(cmd)
    PROVE  /\ Tail(q) \in Seq(Commanded) /\ \A i \in 1 .. Len(Tail(q)) : Tail(q)[i].slot \in SlotsOf(cmd)
           /\ FramesAt(q, slot) = << slot[Head(q).slot] >> \o FramesAt(Tail(q), slot)
<1>1. /\ Tail(q) \in Seq(Commanded) /\ Len(q) \in Nat \ {0} /\ Len(Tail(q)) = Len(q) - 1 /\ Head(q) = q[1]
      /\ \A i \in 1 .. Len(Tail(q)) : Tail(q)[i] = q[i + 1]
  BY HeadTailProperties, EmptySeq
<1>2. \A i \in 1 .. Len(Tail(q)) : i + 1 \in 1 .. Len(q)
  BY <1>1
<1>3. \A i \in 1 .. Len(Tail(q)) : Tail(q)[i].slot \in SlotsOf(cmd)
  BY <1>1, <1>2
<1> DEFINE a == FramesAt(q, slot)
           b == FramesAt(Tail(q), slot)
           h == slot[Head(q).slot]
<1>4. /\ a \in Seq(FramesOf("cpu")) /\ Len(a) = Len(q) /\ \A i \in 1 .. Len(q) : a[i] = slot[q[i].slot]
      /\ b \in Seq(FramesOf("cpu")) /\ Len(b) = Len(q) - 1
      /\ \A i \in 1 .. Len(q) - 1 : b[i] = slot[q[i + 1].slot]
  BY <1>1, <1>3, FramesAtTyped DEF FramesAt
<1>5. 1 \in 1 .. Len(q)
  BY <1>1
<1>6. h = a[1] /\ h \in FramesOf("cpu")
  BY <1>1, <1>4, <1>5, ElementOfSeq
<1>a. h = slot[Head(q).slot]
  OBVIOUS
<1> HIDE DEF a, b, h
<1>7. a # << >> /\ Head(a) = h /\ Tail(a) \in Seq(FramesOf("cpu")) /\ Len(Tail(a)) = Len(q) - 1
      /\ \A i \in 1 .. Len(q) - 1 : Tail(a)[i] = a[i + 1]
  <2>1. a # << >>
    BY <1>1, <1>4
  <2>2. QED
    BY <1>4, <1>6, <2>1, HeadTailProperties
<1>8. \A i \in 1 .. Len(b) : b[i] = Tail(a)[i]
  <2> SUFFICES ASSUME NEW i \in 1 .. Len(b) PROVE b[i] = Tail(a)[i]
    OBVIOUS
  <2>1. i \in 1 .. Len(q) - 1 /\ i + 1 \in 1 .. Len(q)
    BY <1>1, <1>4
  <2>2. QED
    BY <1>4, <1>7, <2>1
<1>9. b = Tail(a)
  BY <1>4, <1>7, <1>8, SeqEqual
<1>10. a = << h >> \o b
  <2>1. a = << Head(a) >> \o Tail(a)
    BY <1>4, <1>7
  <2>2. QED
    BY <1>7, <1>9, <2>1
<1>11. QED
  BY <1>1, <1>3, <1>10 DEF a, b, h

\* When a frame's first byte goes into the crossing, its command no longer waits.
LEMMA UnbegunStep ==
    ASSUME PlacesInv, CpuInv, HwInv, NEW start \in {<< >>} \cup Commands, NEW clear,
           ReaderFifos(start, clear), Software(start, clear), ReaderFsm, Cutter, Arbiter
    PROVE  /\ ~CpuTaken \/ CpuPassed > 0 => Unbegun' = Unbegun \o start
           /\ CpuTaken /\ ~(CpuPassed > 0) => Unbegun = cmd /\ cmd # << >> /\ Unbegun' = Tail(cmd) \o start
<1>1. cmd' = KeptCmd \o start
  BY CommandsAre
<1>2. CASE reader # "SEND"
  <2>1. mux = 0 /\ lastbe = "COPY" /\ ~CpuValid /\ ~CpuTaken /\ arbiter # "WISHBONE"
    BY <1>2 DEF CpuInv, CpuValid, CpuTaken
  <2>2. lastbe' = "COPY"
    BY <2>1 DEF Cutter, WaitsForLast
  <2>3. arbiter' # "WISHBONE" /\ reader' # "END"
    <3>1. arbiter' # "WISHBONE"
      BY <2>1, Arbiters
    <3>2. reader \in {"IDLE", "END"}
      BY <1>2 DEF PlacesInv
    <3>3. reader' # "END"
      BY <3>2 DEF ReaderFsm
    <3>4. QED
      BY <3>1, <3>3
  <2>4. ~CpuBegun'
    BY <2>2, <2>3 DEF CpuBegun
  <2>5. CpuBegun <=> reader = "END"
    BY <2>1 DEF CpuBegun
  <2>6. Unbegun = KeptCmd
    BY <2>5 DEF Unbegun, KeptCmd
  <2>7. Unbegun' = cmd'
    BY <2>4 DEF Unbegun
  <2>8. QED
    BY <1>1, <2>1, <2>6, <2>7
<1>3. CASE reader = "SEND"
  <2>1. cmd # << >> /\ cmd \in Seq(Commanded) /\ KeptCmd = cmd
    BY <1>3, HeadFacts DEF PlacesInv, KeptCmd
  <2>2. Tail(cmd') = Tail(cmd) \o start
    <3>1. start \in Seq(Commanded)
      <4>1. CASE start = << >>
        BY <4>1, EmptyTyped
      <4>2. CASE start # << >>
        <5>1. start[1] \in Commanded /\ start = << start[1] >>
          BY <4>2, StartIs
        <5>2. << start[1] >> \in Seq(Commanded)
          BY <5>1
        <5>3. QED
          BY <5>1, <5>2
      <4>3. QED
        BY <4>1, <4>2
    <3>2. CASE start = << >>
      <4>1. cmd' = cmd /\ Tail(cmd) \in Seq(Commanded)
        BY <1>1, <2>1, <3>2, ConcatEmptySeq, HeadTailProperties
      <4>2. QED
        BY <3>2, <4>1, ConcatEmptySeq
    <3>3. CASE start # << >>
      <4> DEFINE e == start[1]
      <4>1. start = << e >> /\ e \in Commanded
        BY <3>3, StartIs
      <4> HIDE DEF e
      <4>2. cmd' = Append(cmd, e) /\ Tail(cmd) \in Seq(Commanded)
        BY <1>1, <2>1, <4>1, AppendIsConcat, HeadTailProperties
      <4>3. Tail(Append(cmd, e)) = Append(Tail(cmd), e)
        BY <2>1, HeadTailAppend
      <4>4. Append(Tail(cmd), e) = Tail(cmd) \o << e >>
        BY <4>1, <4>2, AppendIsConcat
      <4>5. QED
        BY <4>1, <4>2, <4>3, <4>4
    <3>4. QED
      BY <3>2, <3>3
  <2>3. CpuPassed \in Nat
    BY <1>3, SendFacts, Constants DEF CpuPassed
  <2>4. lastbe = "COPY" /\ arbiter # "WISHBONE" => CpuPassed = 0
    BY <1>3 DEF CpuInv, CpuValid
  <2>5. NothingTaken \/ NextTaken \/ LastTaken \/ RestTaken
    BY <1>3, SendStep
  <2>6. CASE NothingTaken
    <3>1. /\ reader' = "SEND" /\ lastbe' = "COPY" /\ lastbe = "COPY" /\ ~CpuTaken /\ CpuPassed' = CpuPassed
          /\ arbiter = "WISHBONE" => arbiter' = "WISHBONE"
      BY <2>6 DEF NothingTaken, CpuPassed
    <3>2. CpuBegun <=> arbiter = "WISHBONE" /\ CpuPassed > 0
      BY <1>3, <3>1 DEF CpuBegun
    <3>3. CpuBegun' <=> arbiter' = "WISHBONE" /\ CpuPassed > 0
      BY <3>1 DEF CpuBegun
    <3>4. ~(CpuPassed > 0) \/ arbiter = "WISHBONE"
      BY <2>3, <2>4, <3>1
    <3>5. CpuBegun' <=> CpuBegun
      BY <3>1, <3>2, <3>3, <3>4
    <3>6. QED
      BY <1>1, <2>1, <2>2, <3>1, <3>5 DEF Unbegun
  <2>7. CASE NextTaken \/ LastTaken
    <3>1. CpuTaken /\ lastbe = "COPY" /\ arbiter = "WISHBONE"
      BY <2>7 DEF NextTaken, LastTaken
    <3>2. CpuBegun'
      <4>1. CASE NextTaken
        <5>1. arbiter' = "WISHBONE" /\ CpuPassed' = CpuPassed + 1
          BY <4>1 DEF NextTaken, CpuPassed
        <5>2. CpuPassed' > 0
          BY <2>3, <5>1
        <5>3. QED
          BY <5>1, <5>2 DEF CpuBegun
      <4>2. CASE LastTaken
        BY <4>2 DEF LastTaken, WordLeft, WordOver, CpuBegun
      <4>3. QED
        BY <2>7, <4>1, <4>2
    <3>3. CpuBegun <=> CpuPassed > 0
      BY <1>3, <3>1 DEF CpuBegun
    <3>4. Unbegun' = Tail(cmd) \o start
      BY <2>2, <3>2 DEF Unbegun
    <3>5. QED
      BY <2>1, <3>1, <3>3, <3>4 DEF Unbegun
  <2>8. CASE RestTaken
    <3>1. ~CpuTaken /\ CpuBegun /\ CpuBegun'
      BY <2>8 DEF RestTaken, WordLeft, WordOver, CpuBegun
    <3>2. QED
      BY <2>2, <3>1 DEF Unbegun
  <2>9. QED
    BY <2>5, <2>6, <2>7, <2>8
<1>4. QED
  BY <1>2, <1>3

-----------------------------------------------------------------------------
(* What is owed, in one cycle of the system clock. *)

Entered(s) ==
    IF CpuTaken THEN Opened(s, CpuByte) ELSE IF HwTaken THEN Opened(s, Head(hw)) ELSE << >>

LEMMA EnteredStep ==
    ASSUME PlacesInv, CpuInv, HwInv, CrossingInv, Crossing, NEW s \in Senders
    PROVE  Begun(s, cdc') = Begun(s, cdc) \o Entered(s) /\ Entered(s) \in Seq(FramesOf(s))
<1>1. cdc \in Seq(FrameTokens)
  BY DEF CrossingInv
<1>2. ASSUME NEW t \in FrameTokens, cdc' = Append(cdc, t), Entered(s) = Opened(s, t)
      PROVE  Begun(s, cdc') = Begun(s, cdc) \o Entered(s) /\ Entered(s) \in Seq(FramesOf(s))
  BY <1>1, <1>2, BegunAppend, OpenedTyped
<1>3. CASE CpuTaken
  <2>1. CpuByte \in FrameTokens
    <3>1. /\ CpuFrameAtHead \in Frames /\ CpuPassed + 1 \in 1 .. CountRange
          /\ CpuByte = FrameToken(CpuFrameAtHead, CpuPassed + 1)
      BY <1>3, CpuByteIs
    <3>2. QED
      BY <3>1 DEF FrameTokens
  <2>2. cdc' = Append(cdc, CpuByte) /\ Entered(s) = Opened(s, CpuByte)
    BY <1>3 DEF Crossing, Entered
  <2>3. QED
    BY <1>2, <2>1, <2>2
<1>4. CASE ~CpuTaken /\ HwTaken
  <2>1. Head(hw) \in FrameTokens
    BY <1>4, HeadTailProperties DEF HwInv, HwTaken, HwValid
  <2>2. cdc' = Append(cdc, Head(hw)) /\ Entered(s) = Opened(s, Head(hw))
    BY <1>4 DEF Crossing, Entered
  <2>3. QED
    BY <1>2, <2>1, <2>2
<1>5. CASE ~CpuTaken /\ ~HwTaken
  <2>1. cdc' = cdc /\ Entered(s) = << >>
    BY <1>5 DEF Crossing, Entered
  <2>2. Begun(s, cdc) \o << >> = Begun(s, cdc)
    BY <1>1, BegunTyped, ConcatEmptySeq
  <2>3. QED
    BY <2>1, <2>2, EmptyTyped
<1>6. QED
  BY <1>3, <1>4, <1>5

\* A byte is the first of its sender's frame, and of no other's.
LEMMA OpenedIs ==
    ASSUME NEW s, NEW f, NEW i
    PROVE  Opened(s, FrameToken(f, i)) = IF i = 1 /\ f.from = s THEN << f >> ELSE << >>
<1>1. FrameToken(f, i).byte.frame = f /\ FrameToken(f, i).byte.at = i
  BY FrameTokenFacts
<1>2. Opened(s, FrameToken(f, i)) = IF i = 1 THEN From(s, f) ELSE << >>
  BY <1>1 DEF Opened
<1>3. QED
  BY <1>2 DEF From

LEMMA HwHeadFrom ==
    ASSUME HwInv, HwTaken PROVE Opened("cpu", Head(hw)) = << >>
<1>1. hw # << >>
  BY DEF HwTaken, HwValid
<1>2. PICK f \in FramesOf("hw"), k \in 1 .. CountRange : Head(hw) = FrameToken(f, k)
  BY <1>1, HwFacts
<1>3. f.from = "hw"
  BY <1>2, HwFrameFacts
<1>4. Opened("cpu", FrameToken(f, k)) = IF k = 1 /\ f.from = "cpu" THEN << f >> ELSE << >>
  BY OpenedIs
<1>5. QED
  BY <1>2, <1>3, <1>4

LEMMA CpuEntered ==
    ASSUME PlacesInv, CpuInv, HwInv, NEW start \in {<< >>} \cup Commands, NEW clear,
           ReaderFifos(start, clear), Software(start, clear), ReaderFsm, Cutter, Arbiter
    PROVE  /\ Entered("cpu") \o Waiting("cpu")' = Waiting("cpu") \o GivenCpu(start)
           /\ GivenCpu(start) \in Seq(FramesOf("cpu")) /\ Waiting("cpu")' \in Seq(FramesOf("cpu"))
<1>1. Waiting("cpu") = FramesAt(Unbegun, slot) /\ Waiting("cpu")' = FramesAt(Unbegun', slot')
  BY DEF Waiting
<1>2. /\ Unbegun \in Seq(Commanded)
      /\ \A i \in 1 .. Len(Unbegun) : Unbegun[i].slot \in SlotsOf(cmd)
  BY UnbegunFacts
<1>3. /\ FramesAt(Unbegun \o start, slot') = FramesAt(Unbegun, slot) \o GivenCpu(start)
      /\ GivenCpu(start) \in Seq(FramesOf("cpu"))
      /\ FramesAt(Unbegun, slot) \in Seq(FramesOf("cpu"))
  BY <1>2, FramesAtStart, FramesAtTyped
<1>4. CASE ~CpuTaken \/ CpuPassed > 0
  <2>1. Unbegun' = Unbegun \o start
    BY <1>4, UnbegunStep
  <2>2. Entered("cpu") = << >>
    <3>1. CASE CpuTaken
      <4>1. CpuPassed + 1 # 1 /\ CpuByte = FrameToken(CpuFrameAtHead, CpuPassed + 1)
        BY <1>4, <3>1, CpuByteIs
      <4>2. Opened("cpu", CpuByte) = << >>
        BY <4>1, OpenedIs
      <4>3. QED
        BY <3>1, <4>2 DEF Entered
    <3>2. CASE ~CpuTaken
      BY <3>2, HwHeadFrom DEF Entered
    <3>3. QED
      BY <3>1, <3>2
  <2>3. FramesAt(Unbegun, slot) \o GivenCpu(start) \in Seq(FramesOf("cpu"))
    BY <1>3, ConcatProperties
  <2>4. Waiting("cpu")' = Waiting("cpu") \o GivenCpu(start) /\ Waiting("cpu")' \in Seq(FramesOf("cpu"))
    BY <1>1, <1>3, <2>1, <2>3
  <2>5. << >> \o Waiting("cpu")' = Waiting("cpu")'
    BY <2>4, ConcatEmptySeq
  <2>6. QED
    BY <1>3, <2>2, <2>4, <2>5
<1>5. CASE CpuTaken /\ ~(CpuPassed > 0)
  <2>1. Unbegun = cmd /\ cmd # << >> /\ Unbegun' = Tail(cmd) \o start
    BY <1>5, UnbegunStep
  <2>2. /\ Tail(cmd) \in Seq(Commanded) /\ \A i \in 1 .. Len(Tail(cmd)) : Tail(cmd)[i].slot \in SlotsOf(cmd)
        /\ FramesAt(cmd, slot) = << slot[Head(cmd).slot] >> \o FramesAt(Tail(cmd), slot)
    BY <1>2, <2>1, FramesAtHead
  <2>3. Entered("cpu") = << slot[Head(cmd).slot] >>
    <3>1. /\ CpuFrameAtHead \in Frames /\ CpuFrameAtHead.from = "cpu" /\ CpuPassed \in Nat
          /\ CpuByte = FrameToken(CpuFrameAtHead, CpuPassed + 1)
      BY <1>5, CpuByteIs
    <3>2. CpuPassed + 1 = 1
      BY <1>5, <3>1
    <3>3. Opened("cpu", CpuByte) = << CpuFrameAtHead >>
      BY <3>1, <3>2, OpenedIs
    <3>4. QED
      BY <1>5, <3>3 DEF Entered, CpuFrameAtHead
  <2>4. FramesAt(Tail(cmd) \o start, slot') = FramesAt(Tail(cmd), slot) \o GivenCpu(start)
        /\ FramesAt(Tail(cmd), slot) \in Seq(FramesOf("cpu"))
    BY <2>2, FramesAtStart, FramesAtTyped
  <2>5. << slot[Head(cmd).slot] >> \in Seq(FramesOf("cpu"))
    <3>1. slot[Head(cmd).slot] \in FramesOf("cpu")
      BY <1>5, CpuByteIs, HeadFacts DEF CpuFrameAtHead
    <3>2. QED
      BY <3>1
  <2> DEFINE a == << slot[Head(cmd).slot] >>
             b == FramesAt(Tail(cmd), slot)
             c == GivenCpu(start)
  <2>6. a \in Seq(FramesOf("cpu")) /\ b \in Seq(FramesOf("cpu")) /\ c \in Seq(FramesOf("cpu"))
    BY <1>3, <2>4, <2>5
  <2>7. Entered("cpu") = a /\ Waiting("cpu") = a \o b /\ Waiting("cpu")' = b \o c /\ c = GivenCpu(start)
    BY <1>1, <2>1, <2>2, <2>3, <2>4
  <2> HIDE DEF a, b, c
  <2>8. (a \o b) \o c = a \o (b \o c) /\ b \o c \in Seq(FramesOf("cpu"))
    BY <2>6, ConcatAssociative, ConcatProperties
  <2>9. QED
    BY <1>3, <2>7, <2>8
<1>6. QED
  BY <1>4, <1>5

LEMMA HwEntered ==
    ASSUME PlacesInv, CpuInv, HwInv, TagInv, Arbiter,
           NEW offer \in {<< >>} \cup (IF hw = << >> THEN Offers ELSE {}), Stack(offer)
    PROVE  /\ Entered("hw") \o Waiting("hw")' = Waiting("hw") \o offer
           /\ offer \in Seq(FramesOf("hw")) /\ Waiting("hw")' \in Seq(FramesOf("hw"))
<1>1. offer \in Seq(FramesOf("hw"))
  <2>1. CASE offer = << >>
    BY <2>1, EmptyTyped
  <2>2. CASE offer # << >>
    <3>1. offer = << offer[1] >> /\ offer[1] \in FramesOf("hw")
      BY <2>2, OfferIs
    <3>2. << offer[1] >> \in Seq(FramesOf("hw"))
      BY <3>1
    <3>3. QED
      BY <3>1, <3>2
  <2>3. QED
    BY <2>1, <2>2
<1>2. Waiting("hw") = IF hw # << >> /\ hw[1].byte.at = 1 THEN << hw[1].byte.frame >> ELSE << >>
  BY DEF Waiting
<1>3. Waiting("hw")' = IF hw' # << >> /\ hw'[1].byte.at = 1 THEN << hw'[1].byte.frame >> ELSE << >>
  BY DEF Waiting
<1>4. Waiting("hw") \in Seq(FramesOf("hw"))
  BY WaitingTyped DEF Senders
<1>5. CASE HwTaken
  <2>1. hw # << >> /\ offer = << >> /\ hw' = Tail(hw) /\ ~CpuTaken
    BY <1>5 DEF HwTaken, HwValid, CpuTaken, Stack
  <2>2. PICK f \in FramesOf("hw"), k \in 1 .. CountRange :
              /\ f \in Frames /\ k \in 1 .. f.size /\ Head(hw) = FrameToken(f, k)
              /\ hw[1].byte.frame = f /\ hw[1].byte.at = k /\ arbiter = "CROSSBAR"
              /\ k = f.size => arbiter' = "IDLE" /\ hw' = << >>
              /\ k # f.size => /\ arbiter' = "CROSSBAR" /\ hw' # << >>
                               /\ hw'[1].byte.frame = f /\ hw'[1].byte.at = k + 1
    BY <1>5, <2>1, HwNext
  <2>3. f.from = "hw" /\ k + 1 # 1
    BY <2>2, HwFrameFacts, Constants
  <2>4. Opened("hw", FrameToken(f, k)) = IF k = 1 /\ f.from = "hw" THEN << f >> ELSE << >>
    BY OpenedIs
  <2>5. Entered("hw") = Opened("hw", FrameToken(f, k))
    BY <1>5, <2>1, <2>2 DEF Entered
  <2>6. Waiting("hw") = IF k = 1 THEN << f >> ELSE << >>
    BY <1>2, <2>1, <2>2
  <2>7. Entered("hw") = Waiting("hw")
    BY <2>3, <2>4, <2>5, <2>6
  <2>8. Waiting("hw")' = << >>
    BY <1>3, <2>2, <2>3
  <2>9. QED
    BY <1>1, <2>1, <2>7, <2>8, EmptyTyped
<1>6. CASE ~HwTaken
  <2>1. Entered("hw") = << >>
    <3>1. CASE CpuTaken
      <4>1. CpuFrameAtHead.from = "cpu" /\ CpuByte = FrameToken(CpuFrameAtHead, CpuPassed + 1)
        BY <3>1, CpuByteIs
      <4>2. Opened("hw", CpuByte) = << >>
        BY <4>1, OpenedIs
      <4>3. QED
        BY <3>1, <4>2 DEF Entered
    <3>2. CASE ~CpuTaken
      BY <1>6, <3>2 DEF Entered
    <3>3. QED
      BY <3>1, <3>2
  <2>2. Waiting("hw")' = Waiting("hw") \o offer /\ Waiting("hw")' \in Seq(FramesOf("hw"))
    <3>1. CASE offer = << >>
      <4>1. hw' = hw
        BY <1>6, <3>1 DEF Stack
      <4>2. Waiting("hw")' = Waiting("hw")
        BY <1>2, <1>3, <4>1
      <4>3. QED
        BY <1>4, <3>1, <4>2, ConcatEmptySeq
    <3>2. CASE offer # << >>
      <4>1. hw = << >> /\ hw' = Tokens(offer[1]) /\ offer \in {<< >>} \cup Offers
        BY <3>2 DEF Stack
      <4>2. offer = << offer[1] >> /\ offer[1] \in Frames
        BY <3>2, <4>1, OfferIs
      <4>3. hw' # << >> /\ hw'[1].byte.frame = offer[1] /\ hw'[1].byte.at = 1
        BY <4>1, <4>2, TokensFacts
      <4>4. Waiting("hw")' = offer /\ Waiting("hw") = << >>
        BY <1>2, <1>3, <4>1, <4>2, <4>3
      <4>5. QED
        BY <1>1, <4>4, ConcatEmptySeq
    <3>3. QED
      BY <3>1, <3>2
  <2>3. << >> \o Waiting("hw")' = Waiting("hw")'
    BY <2>2, ConcatEmptySeq
  <2>4. QED
    BY <1>1, <2>1, <2>2, <2>3
<1>7. QED
  BY <1>5, <1>6

\* One sequence and then another, as an operator that the provers do not look into.
Then(q, r) == q \o r
Same(e, v, w, g) == Then(e, v) = Then(w, g)

LEMMA ThenFacts ==
    ASSUME NEW S, NEW q \in Seq(S), NEW r \in Seq(S)
    PROVE  /\ Then(q, r) \in Seq(S)
           /\ \A u \in Seq(S) : Then(Then(q, r), u) = Then(q, Then(r, u))
<1>1. Then(q, r) \in Seq(S)
  BY ConcatProperties DEF Then
<1>2. ASSUME NEW u \in Seq(S) PROVE Then(Then(q, r), u) = Then(q, Then(r, u))
  BY ConcatAssociative DEF Then
<1>3. QED
  BY <1>1, <1>2

LEMMA Shifted ==
    ASSUME NEW S, NEW a \in Seq(S), NEW b \in Seq(S), NEW e \in Seq(S), NEW w \in Seq(S),
           NEW v \in Seq(S), NEW g \in Seq(S), Same(e, v, w, g)
    PROVE  Then(Then(a, Then(b, e)), v) = Then(Then(Then(a, b), w), g)
<1>1. Then(a, Then(b, e)) = Then(Then(a, b), e) /\ Then(a, b) \in Seq(S)
  BY ThenFacts
<1>2. Then(Then(Then(a, b), e), v) = Then(Then(a, b), Then(e, v))
  BY <1>1, ThenFacts
<1>3. Then(Then(Then(a, b), w), g) = Then(Then(a, b), Then(w, g))
  BY <1>1, ThenFacts
<1>4. QED
  BY <1>1, <1>2, <1>3 DEF Same

LEMMA HeadTailOfOne ==
    ASSUME NEW S, NEW e \in S, NEW q \in Seq(S)
    PROVE  << e >> \o q # << >> /\ Head(<< e >> \o q) = e /\ Tail(<< e >> \o q) = q
<1> DEFINE p == << e >> \o q
<1>1. /\ p \in Seq(S) /\ Len(p) = 1 + Len(q) /\ Len(q) \in Nat
      /\ p[1] = e /\ \A i \in 1 .. Len(q) : p[i + 1] = q[i]
  <2>1. << e >> \in Seq(S) /\ Len(<< e >>) = 1 /\ << e >>[1] = e
    OBVIOUS
  <2>2. /\ p \in Seq(S) /\ Len(p) = Len(<< e >>) + Len(q)
        /\ \A i \in 1 .. Len(<< e >>) + Len(q) :
              p[i] = IF i <= Len(<< e >>) THEN << e >>[i] ELSE q[i - Len(<< e >>)]
    BY <2>1, ConcatProperties
  <2>3. Len(q) \in Nat
    BY LenProperties
  <2> HIDE DEF p
  <2>4. \A i \in 1 .. 1 + Len(q) : p[i] = IF i <= 1 THEN e ELSE q[i - 1]
    BY <2>1, <2>2
  <2>5. \A i \in 1 .. Len(q) : i + 1 \in 1 .. 1 + Len(q) /\ ~(i + 1 <= 1) /\ i + 1 - 1 = i
    BY <2>3
  <2>6. QED
    BY <2>1, <2>2, <2>3, <2>4, <2>5
<1> HIDE DEF p
<1>2. p # << >>
  BY <1>1
<1>3. /\ Head(p) = p[1] /\ Tail(p) \in Seq(S) /\ Len(Tail(p)) = Len(p) - 1
      /\ \A i \in 1 .. Len(Tail(p)) : Tail(p)[i] = p[i + 1]
  BY <1>1, <1>2, HeadTailProperties
<1>4. Len(Tail(p)) = Len(q)
  BY <1>1, <1>3
<1>5. \A i \in 1 .. Len(Tail(p)) : Tail(p)[i] = q[i]
  BY <1>1, <1>3, <1>4
<1>6. Tail(p) = q
  BY <1>3, <1>4, <1>5, SeqEqual
<1>7. QED
  BY <1>1, <1>2, <1>3, <1>6 DEF p

Owed(s) == Inside(s) \o Begun(s, cdc) \o Waiting(s)

LEMMA OwedTyped ==
    ASSUME PlacesInv, CpuInv, HwInv, CrossingInv, PaddedInv, OwedInv, NEW s \in Senders
    PROVE  /\ owed[s] = Owed(s) /\ owed[s] \in Seq(FramesOf(s))
           /\ Inside(s) \in Seq(FramesOf(s)) /\ Begun(s, cdc) \in Seq(FramesOf(s))
           /\ Waiting(s) \in Seq(FramesOf(s))
<1>1. owed[s] = Owed(s)
  BY DEF OwedInv, Owed
<1>2. /\ Inside(s) \in Seq(FramesOf(s)) /\ Begun(s, cdc) \in Seq(FramesOf(s))
      /\ Waiting(s) \in Seq(FramesOf(s))
  <2>1. cdc \in Seq(FrameTokens)
    BY DEF CrossingInv
  <2>2. QED
    BY <2>1, InsideTyped, BegunTyped, WaitingTyped
<1>3. Inside(s) \o Begun(s, cdc) \in Seq(FramesOf(s))
  BY <1>2, ConcatProperties
<1>4. Owed(s) \in Seq(FramesOf(s))
  BY <1>2, <1>3, ConcatProperties DEF Owed
<1>5. QED
  BY <1>1, <1>2, <1>4

\* It is enough to know what each sender is owed.
LEMMA OwedBySender ==
    ASSUME owed' = [s \in Senders |-> owed'[s]], \A s \in Senders : owed'[s] = Owed(s)'
    PROVE  OwedInv'
<1>1. owed' = [s \in Senders |-> Owed(s)']
  OBVIOUS
<1>2. QED
  BY <1>1 DEF OwedInv, Owed

Given(s, start, offer) == IF s = "cpu" THEN GivenCpu(start) ELSE offer

LEMMA HandedInIs ==
    ASSUME NEW start, NEW offer, HandedIn(start, offer)
    PROVE  owed' = [s \in Senders |-> owed[s] \o Given(s, start, offer)]
<1> DEFINE given == [cpu |-> IF start = << >> THEN << >> ELSE << CpuFrame(start[1].length) >>,
                     hw  |-> offer]
<1>1. owed' = [s \in Senders |-> owed[s] \o given[s]]
  BY DEF HandedIn
<1>2. given["cpu"] = GivenCpu(start) /\ given["hw"] = offer
  BY DEF GivenCpu
<1> HIDE DEF given
<1>3. \A s \in Senders : given[s] = Given(s, start, offer)
  BY <1>2 DEF Senders, Given
<1>4. QED
  BY <1>1, <1>3

LEMMA GivenStep ==
    ASSUME PlacesInv, CpuInv, HwInv, TagInv, NEW start \in {<< >>} \cup Commands, NEW clear,
           ReaderFifos(start, clear), Software(start, clear), ReaderFsm, Cutter, Arbiter,
           NEW offer \in {<< >>} \cup (IF hw = << >> THEN Offers ELSE {}), Stack(offer), NEW s \in Senders
    PROVE  /\ Entered(s) \o Waiting(s)' = Waiting(s) \o Given(s, start, offer)
           /\ Given(s, start, offer) \in Seq(FramesOf(s)) /\ Waiting(s)' \in Seq(FramesOf(s))
<1>1. CASE s = "cpu"
  <2>1. Given("cpu", start, offer) = GivenCpu(start)
    BY DEF Given
  <2>2. QED
    BY <1>1, <2>1, CpuEntered
<1>2. CASE s = "hw"
  <2>1. Given("hw", start, offer) = offer
    BY DEF Given
  <2>2. QED
    BY <1>2, <2>1, HwEntered
<1>3. QED
  BY <1>1, <1>2 DEF Senders

LEMMA SysOwed ==
    ASSUME PlacesInv, CpuInv, HwInv, TagInv, CrossingInv, PaddedInv, OwedInv,
           NEW start \in {<< >>} \cup Commands, NEW clear,
           ReaderFifos(start, clear), Software(start, clear), ReaderFsm, Cutter, Arbiter, Crossing,
           NEW offer \in {<< >>} \cup (IF hw = << >> THEN Offers ELSE {}), Stack(offer),
           HandedIn(start, offer), UNCHANGED << buf, crcState, crc >>
    PROVE  OwedInv'
<1>1. owed' = [s \in Senders |-> owed[s] \o Given(s, start, offer)]
  BY HandedInIs
<1>2. ASSUME NEW s \in Senders PROVE owed[s] \o Given(s, start, offer) = Owed(s)'
  <2> DEFINE a == Inside(s)
             b == Begun(s, cdc)
             e == Entered(s)
             w == Waiting(s)
             v == Waiting(s)'
             g == Given(s, start, offer)
  <2>1. owed[s] = (a \o b) \o w
    BY OwedTyped DEF Owed
  <2>2. /\ a \in Seq(FramesOf(s)) /\ b \in Seq(FramesOf(s)) /\ w \in Seq(FramesOf(s))
    BY OwedTyped
  <2>3. Begun(s, cdc') = b \o e /\ e \in Seq(FramesOf(s))
    BY EnteredStep
  <2>4. Same(e, v, w, g) /\ g \in Seq(FramesOf(s)) /\ v \in Seq(FramesOf(s))
    BY GivenStep DEF Same, Then
  <2>5. Inside(s)' = a
    BY InsideSame
  <2>6. Owed(s)' = (a \o (b \o e)) \o v
    BY <2>3, <2>5 DEF Owed
  <2>7. g = Given(s, start, offer)
    OBVIOUS
  <2> HIDE DEF a, b, e, w, v, g
  <2>a. Then(Then(a, Then(b, e)), v) = Then(Then(Then(a, b), w), g)
    BY <2>2, <2>3, <2>4, Shifted
  <2>8. (a \o (b \o e)) \o v = ((a \o b) \o w) \o g
    BY <2>a, Zenon DEF Then
  <2>9. QED
    BY <2>1, <2>6, <2>7, <2>8
<1>3. owed' = [s \in Senders |-> owed'[s]] /\ \A s \in Senders : owed'[s] = Owed(s)'
  BY <1>1, <1>2
<1>4. QED
  BY <1>3, OwedBySender

-----------------------------------------------------------------------------
(* What is owed, in a step behind the crossing. *)

LEMMA WaitingSame ==
    ASSUME UNCHANGED sysVars, NEW s PROVE Waiting(s)' = Waiting(s)
<1>1. UNCHANGED << slot, cmd, reader, counter, mux, lastbe, hw, arbiter >>
  BY DEF sysVars, softVars, readerVars, muxVars
<1>2. Unbegun' = Unbegun
  BY <1>1 DEF Unbegun, CpuBegun, CpuPassed
<1>3. QED
  BY <1>1, <1>2 DEF Waiting

LEMMA OwedKept ==
    ASSUME PlacesInv, CpuInv, HwInv, CrossingInv, PaddedInv, OwedInv, UNCHANGED << sysVars, owed >>,
           \A s \in Senders : Inside(s)' \o Begun(s, cdc') = Inside(s) \o Begun(s, cdc)
    PROVE  OwedInv'
<1>1. ASSUME NEW s \in Senders PROVE owed'[s] = Owed(s)'
  <2>1. owed[s] = Owed(s) /\ owed' = owed
    BY OwedTyped
  <2>2. Waiting(s)' = Waiting(s)
    BY WaitingSame
  <2>3. Inside(s)' \o Begun(s, cdc') = Inside(s) \o Begun(s, cdc)
    OBVIOUS
  <2>4. QED
    BY <2>1, <2>2, <2>3 DEF Owed
<1>2. owed' = [s \in Senders |-> owed'[s]]
  BY DEF OwedInv
<1>3. QED
  BY <1>1, <1>2, OwedBySender

LEMMA PaddingIdleOwed ==
    ASSUME PlacesInv, CpuInv, HwInv, CrossingInv, PaddedInv, PaddedInv', OwedInv, Padding_IDLE
    PROVE  OwedInv'
<1>1. UNCHANGED << sysVars, owed >> /\ cdc # << >> /\ cdc' = Tail(cdc)
  BY DEF Padding_IDLE
<1>2. PICK f \in Frames, i \in 1 .. CountRange :
              Head(cdc) = FrameToken(f, i) /\ i \in 1 .. f.size /\ PlaceInserted(f, i)
  BY InsertsFrame
<1>3. ASSUME NEW s \in Senders
      PROVE  Inside(s)' \o Begun(s, cdc') = Inside(s) \o Begun(s, cdc)
  <2> DEFINE a == Inside(s)
             o == Opened(s, Head(cdc))
             b == Begun(s, cdc')
  <2>1. Head(cdc) \in FrameTokens /\ cdc' \in Seq(FrameTokens) /\ cdc \in Seq(FrameTokens)
    BY <1>1, HeadTailProperties DEF CrossingInv
  <2>2. Inside(s)' = a \o o
    <3>1. Inside(s)' = Inside(s) \o (IF i = 1 THEN From(s, f) ELSE << >>)
      BY <1>2, InsideInserted
    <3>2. FrameToken(f, i).byte.frame = f /\ FrameToken(f, i).byte.at = i
      BY FrameTokenFacts
    <3>3. Opened(s, Head(cdc)) = IF i = 1 THEN From(s, f) ELSE << >>
      BY <1>2, <3>2 DEF Opened
    <3>4. QED
      BY <3>1, <3>3
  <2>3. Begun(s, cdc) = o \o b
    BY <1>1, <2>1, BegunHead
  <2>4. a \in Seq(FramesOf(s)) /\ o \in Seq(FramesOf(s)) /\ b \in Seq(FramesOf(s))
    BY <2>1, InsideTyped, OpenedTyped, BegunTyped
  <2>5. a = Inside(s) /\ b = Begun(s, cdc')
    OBVIOUS
  <2> HIDE DEF a, o, b
  <2>6. (a \o o) \o b = a \o (o \o b)
    BY <2>4, ConcatAssociative
  <2>7. QED
    BY <2>2, <2>3, <2>5, <2>6
<1>4. QED
  BY <1>1, <1>3, OwedKept

LEMMA PaddingOwed ==
    ASSUME PlacesInv, CpuInv, HwInv, CrossingInv, PaddedInv, PaddedInv', OwedInv, Padding_PADDING
    PROVE  OwedInv'
<1>1. UNCHANGED << sysVars, owed >> /\ cdc' = cdc
  BY DEF Padding_PADDING
<1>2. PICK f \in Frames, i \in 1 .. CountRange : i > f.size /\ PlaceInserted(f, i)
  BY InsertsPadding
<1>3. i # 1
  BY <1>2, FrameFacts
<1>4. ASSUME NEW s \in Senders
      PROVE  Inside(s)' \o Begun(s, cdc') = Inside(s) \o Begun(s, cdc)
  <2>1. Inside(s)' = Inside(s) \o (IF i = 1 THEN From(s, f) ELSE << >>)
    BY <1>2, InsideInserted
  <2>2. Inside(s) \o << >> = Inside(s)
    BY InsideTyped, ConcatEmptySeq
  <2>3. QED
    BY <1>1, <1>3, <2>1, <2>2
<1>5. QED
  BY <1>1, <1>4, OwedKept

LEMMA InsideOwed ==
    ASSUME PlacesInv, CpuInv, HwInv, CrossingInv, PaddedInv, OwedInv, UNCHANGED << sysVars, cdc, owed >>,
           \A s \in Senders : Inside(s)' = Inside(s)
    PROVE  OwedInv'
<1>1. \A s \in Senders : Inside(s)' \o Begun(s, cdc') = Inside(s) \o Begun(s, cdc)
  OBVIOUS
<1>2. QED
  BY <1>1, OwedKept

\* The last byte of the CRC: the frame leaves the head of what its sender is owed.
LEMMA SentOwed ==
    ASSUME PlacesInv, CpuInv, HwInv, CrossingInv, PaddedInv, WireInv, OwedInv, Crc_CRC, cnt = 0
    PROVE  /\ OwedInv' /\ OutFrame \in Frames /\ OutFrame.from \in Senders
           /\ owed[OutFrame.from] # << >> /\ Head(owed[OutFrame.from]) = OutFrame
           /\ owed' = [owed EXCEPT ![OutFrame.from] = Tail(@)]
<1>1. /\ UNCHANGED << sysVars, cdc >> /\ crcState = "CRC"
      /\ owed' = [owed EXCEPT ![SentFrom(wire)] = Tail(@)]
  BY DEF Crc_CRC
<1>2. SentFrom(wire) = OutFrame.from
  BY CrcWire
<1>3. OutFrame \in Frames /\ OutFrame.from \in Senders
  BY <1>1, FrameFacts DEF PaddedInv
<1>4. ASSUME NEW s \in Senders
      PROVE  owed[s] = From(s, OutFrame) \o Owed(s)' /\ Owed(s)' \in Seq(FramesOf(s))
  <2> DEFINE f == From(s, OutFrame)
             a == Inside(s)'
             b == Begun(s, cdc)
             w == Waiting(s)
  <2>1. Inside(s) = f \o a /\ a \in Seq(FramesOf(s))
    BY InsideSent
  <2>2. b \in Seq(FramesOf(s)) /\ w \in Seq(FramesOf(s))
    BY OwedTyped
  <2>3. owed[s] = (Inside(s) \o b) \o w
    BY OwedTyped DEF Owed
  <2>4. Waiting(s)' = w
    BY <1>1, WaitingSame
  <2>5. Owed(s)' = (a \o b) \o w
    BY <1>1, <2>4 DEF Owed
  <2>6. f \in Seq(FramesOf(s)) /\ f = From(s, OutFrame)
    BY <1>3, FromTyped
  <2> HIDE DEF f, a, b, w
  <2>7. (f \o a) \o b = f \o (a \o b) /\ a \o b \in Seq(FramesOf(s))
    BY <2>1, <2>2, <2>6, ConcatAssociative, ConcatProperties
  <2> DEFINE c == a \o b
  <2>8. c \in Seq(FramesOf(s)) /\ (f \o a) \o b = f \o c /\ Owed(s)' = c \o w
    BY <2>5, <2>7
  <2> HIDE DEF c
  <2>9. (f \o c) \o w = f \o (c \o w) /\ c \o w \in Seq(FramesOf(s))
    BY <2>2, <2>6, <2>8, ConcatAssociative, ConcatProperties
  <2>10. QED
    BY <2>1, <2>3, <2>6, <2>8, <2>9
<1>5. owed \in [Senders -> UNION {Seq(FramesOf(s)) : s \in Senders}]
  <2>1. owed = [s \in Senders |-> owed[s]]
    BY DEF OwedInv
  <2>2. \A s \in Senders : owed[s] \in Seq(FramesOf(s))
    BY OwedTyped
  <2>3. QED
    BY <2>1, <2>2
<1>6. ASSUME NEW s \in Senders PROVE owed'[s] = Owed(s)'
  <2>1. CASE s = OutFrame.from
    <3>1. From(s, OutFrame) = << OutFrame >> /\ OutFrame \in FramesOf(s)
      BY <1>3, <2>1, FromTyped
    <3>2. owed[s] = << OutFrame >> \o Owed(s)' /\ Owed(s)' \in Seq(FramesOf(s))
      BY <1>4, <3>1
    <3>3. Tail(owed[s]) = Owed(s)'
      BY <3>1, <3>2, HeadTailOfOne
    <3>4. owed'[s] = Tail(owed[s])
      BY <1>1, <1>2, <1>5, <2>1
    <3>5. QED
      BY <3>3, <3>4
  <2>2. CASE s # OutFrame.from
    <3>1. From(s, OutFrame) = << >>
      BY <1>3, <2>2, FromTyped
    <3>2. << >> \o Owed(s)' = Owed(s)'
      BY <1>4, ConcatEmptySeq
    <3>3. owed'[s] = owed[s]
      BY <1>1, <1>2, <1>5, <2>2
    <3>4. QED
      BY <1>4, <3>1, <3>2, <3>3
  <2>3. QED
    BY <2>1, <2>2
<1>7. owed' = [s \in Senders |-> owed'[s]]
  BY <1>1, <1>5
<1>8. OwedInv'
  BY <1>6, <1>7, OwedBySender
<1>9. owed[OutFrame.from] # << >> /\ Head(owed[OutFrame.from]) = OutFrame
  <2>1. PICK s \in Senders : s = OutFrame.from
    BY <1>3
  <2>2. From(s, OutFrame) = << OutFrame >> /\ OutFrame \in FramesOf(s)
    BY <1>3, <2>1, FromTyped
  <2>3. owed[s] = From(s, OutFrame) \o Owed(s)' /\ Owed(s)' \in Seq(FramesOf(s))
    BY <1>4
  <2>4. owed[s] = << OutFrame >> \o Owed(s)'
    BY <2>2, <2>3
  <2>5. QED
    BY <2>1, <2>2, <2>3, <2>4, HeadTailOfOne
<1>10. QED
  BY <1>1, <1>2, <1>3, <1>8, <1>9

-----------------------------------------------------------------------------
(* The inductive invariant: every stage holds a piece of a frame, which goes on where *)
(* the next stage's piece ends.                                                        *)

IInv ==
    /\ PlacesInv /\ TagInv /\ CpuInv /\ HwInv
    /\ CrossingInv /\ PaddedInv /\ WireInv /\ OwedInv

LEMMA InvInit == Init => IInv
<1> SUFFICES ASSUME Init PROVE IInv
  OBVIOUS
<1>1. PlacesInv
  BY PlacesInit
<1>2. TagInv
  <2>1. tag = [s \in Senders |-> 0] /\ 0 \in 0 .. Tags - 1
    BY Constants DEF Init
  <2>2. QED
    BY <2>1 DEF TagInv
<1>3. CpuInv
  <2>1. /\ cmd = << >> /\ reader = "IDLE" /\ counter = 0 /\ mux = 0 /\ lastbe = "COPY" /\ arbiter = "IDLE"
    BY DEF Init
  <2>2. 0 \in 0 .. WordBytes - 1 /\ 0 \in 0 .. LengthRange - 1
    BY Constants
  <2>3. \A i \in 1 .. Len(cmd) : cmd[i].length = slot[cmd[i].slot].size
    BY <2>1
  <2>4. QED
    BY <2>1, <2>2, <2>3 DEF CpuInv, CpuValid
<1>4. HwInv
  BY EmptyTyped DEF Init, HwInv
<1>5. PaddedInv
  <2>1. crcState = "IDLE" /\ buf = << >> /\ count = 0 /\ padding = "IDLE"
    BY DEF Init
  <2>2. InPassed = 0
    BY <2>1 DEF InPassed
  <2>3. QED
    BY <2>1, <2>2 DEF PaddedInv
<1>6. CrossingInv
  <2>1. cdc = << >> /\ padding = "IDLE" /\ count = 0 /\ arbiter = "IDLE"
    BY DEF Init
  <2>2. ExitMark = << >> /\ EntryMark = << >>
    BY <2>1 DEF ExitMark, EntryMark
  <2>3. Chained(<< >>, << >>, << >>)
    BY DEF Chained
  <2>4. << >> \in Seq(FrameTokens) /\ Len(<< >>) <= Depth
    BY EmptyTyped, Constants
  <2>5. QED
    BY <2>1, <2>2, <2>3, <2>4 DEF CrossingInv
<1>7. WireInv
  <2>1. /\ preamble = "IDLE" /\ preCount = 0 /\ gap = "COPY" /\ gapCount = 0 /\ wire = << >>
        /\ crcState = "IDLE" /\ cnt = CrcLength - 1
    BY DEF Init
  <2>2. OnWire = 0
    BY <2>1 DEF OnWire
  <2>3. 0 \in 0 .. PreambleLength - 1 /\ 0 \in 0 .. GapLength - 1 /\ CrcLength - 1 \in 0 .. CrcLength - 1
    BY Constants
  <2>4. QED
    BY <2>1, <2>2, <2>3 DEF WireInv
<1>8. OwedInv
  <2>1. /\ cdc = << >> /\ crcState = "IDLE" /\ buf = << >> /\ hw = << >> /\ cmd = << >>
        /\ reader = "IDLE" /\ lastbe = "COPY" /\ arbiter = "IDLE" /\ owed = [s \in Senders |-> << >>]
    BY DEF Init
  <2>2. ASSUME NEW s \in Senders PROVE Inside(s) \o Begun(s, cdc) \o Waiting(s) = << >>
    <3>1. Inside(s) = << >>
      BY <2>1 DEF Inside
    <3>2. Begun(s, cdc) = << >>
      BY <2>1, BegunEmpty
    <3>3. Waiting(s) = << >>
      <4>1. Unbegun = << >>
        BY <2>1 DEF Unbegun, CpuBegun
      <4>2. FramesAt(<< >>, slot) = << >>
        BY DEF FramesAt
      <4>3. QED
        BY <2>1, <4>1, <4>2 DEF Waiting
    <3>4. QED
      BY <3>1, <3>2, <3>3
  <2>3. QED
    BY <2>1, <2>2 DEF OwedInv
<1>9. QED
  BY <1>1, <1>2, <1>3, <1>4, <1>5, <1>6, <1>7, <1>8 DEF IInv

LEMMA SysKeeps ==
    ASSUME IInv, SysCycle PROVE IInv'
<1>1. PlacesInv /\ TagInv /\ CpuInv /\ HwInv /\ CrossingInv /\ PaddedInv /\ WireInv /\ OwedInv
  BY DEF IInv
<1>2. PICK start \in {<< >>} \cup Commands, clear \in {FALSE} \cup {stat # << >>},
           offer \in {<< >>} \cup (IF hw = << >> THEN Offers ELSE {}) :
        /\ Software(start, clear) /\ ReaderFifos(start, clear) /\ ReaderFsm
        /\ Cutter /\ Arbiter /\ Stack(offer) /\ Crossing /\ HandedIn(start, offer)
        /\ UNCHANGED << padVars, buf, crcVars, outVars >>
  BY DEF SysCycle
<1>3. /\ UNCHANGED << padding, count, buf, crcState, crc >>
      /\ UNCHANGED << cnt, preamble, preCount, gap, gapCount, wire >>
  BY <1>2 DEF padVars, crcVars, outVars
<1>4. PlacesInv'
  BY <1>1, SysStep
<1>5. TagInv'
  <2>1. offer \in {<< >>} \cup Offers
    OBVIOUS
  <2>2. QED
    BY <1>1, <1>2, <2>1, TagStep
<1>6. CpuInv'
  BY <1>1, <1>2, CpuStep
<1>7. HwInv'
  BY <1>1, <1>2, HwStep
<1>8. CrossingInv'
  BY <1>1, <1>2, CrossingStep
<1>9. PaddedInv' /\ OutFrame' = OutFrame
  BY <1>1, <1>3, SamePadded
<1>10. WireInv'
  BY <1>1, <1>3, <1>9, SameWire
<1>11. OwedInv'
  BY <1>1, <1>2, <1>3, SysOwed
<1>12. QED
  BY <1>4, <1>5, <1>6, <1>7, <1>8, <1>9, <1>10, <1>11 DEF IInv

LEMMA SysSame ==
    ASSUME IInv, UNCHANGED sysVars PROVE PlacesInv' /\ TagInv' /\ CpuInv' /\ HwInv'
<1>1. UNCHANGED << slot, free, cmd, stat, reader, counter, stamp, mux, lastbe, hw, arbiter, tag >>
  BY DEF sysVars, softVars, readerVars, muxVars
<1>2. PlacesInv' /\ TagInv'
  BY <1>1 DEF IInv, PlacesInv, TagInv
<1>3. CpuInv'
  <2>1. CpuPassed' = CpuPassed /\ (LastWord' <=> LastWord) /\ (CpuValid' <=> CpuValid)
    BY <1>1 DEF CpuPassed, LastWord, CpuValid
  <2>2. CpuInv
    BY DEF IInv
  <2>3. QED
    BY <1>1, <2>1, <2>2 DEF CpuInv
<1>4. HwInv'
  BY <1>1 DEF IInv, HwInv, RestOf
<1>5. QED
  BY <1>2, <1>3, <1>4

LEMMA TxKeeps ==
    ASSUME IInv, UNCHANGED sysVars, CrossingInv', PaddedInv', WireInv', OwedInv' PROVE IInv'
  BY SysSame DEF IInv

\* An action that hands on nothing from the crossing, and begins and ends no frame.
LEMMA QuietKeeps ==
    ASSUME IInv, UNCHANGED << sysVars, cdc, owed >>, ExitMark' = ExitMark,
           \A s \in Senders : Inside(s)' = Inside(s), PaddedInv', WireInv'
    PROVE  IInv'
<1>1. PlacesInv /\ CpuInv /\ HwInv /\ CrossingInv /\ PaddedInv /\ OwedInv
  BY DEF IInv
<1>2. UNCHANGED << cdc, arbiter, counter, mux, slot, cmd, hw >>
  BY DEF sysVars, softVars, readerVars, muxVars
<1>3. CrossingInv'
  BY <1>1, <1>2, SameCrossing
<1>4. OwedInv'
  BY <1>1, InsideOwed
<1>5. QED
  BY <1>3, <1>4, TxKeeps

LEMMA TxStep ==
    ASSUME IInv, TxCycle PROVE IInv'
<1>1. PlacesInv /\ TagInv /\ CpuInv /\ HwInv /\ CrossingInv /\ PaddedInv /\ WireInv /\ OwedInv
  BY DEF IInv
<1>2. CASE Padding_IDLE
  <2>1. UNCHANGED << sysVars, outVars >>
    BY <1>2 DEF Padding_IDLE
  <2>2. PICK f \in Frames, i \in 1 .. CountRange :
              Head(cdc) = FrameToken(f, i) /\ i \in 1 .. f.size /\ PlaceInserted(f, i)
    BY <1>1, <1>2, InsertsFrame
  <2>3. PaddedInv'
    BY <1>1, <2>2, InsertedPadded
  <2>4. WireInv'
    BY <1>1, <2>1, <2>2, InsertedWire
  <2>5. CrossingInv'
    BY <1>1, <1>2, PaddingCrossing
  <2>6. OwedInv'
    BY <1>1, <1>2, <2>3, PaddingIdleOwed
  <2>7. QED
    BY <2>1, <2>3, <2>4, <2>5, <2>6, TxKeeps
<1>3. CASE Padding_PADDING
  <2>1. UNCHANGED << sysVars, outVars >> /\ UNCHANGED << cdc, arbiter, counter, mux, slot, cmd, hw >>
    BY <1>3 DEF Padding_PADDING, sysVars, softVars, readerVars, muxVars
  <2>2. PICK f \in Frames, i \in 1 .. CountRange : i > f.size /\ PlaceInserted(f, i)
    BY <1>1, <1>3, InsertsPadding
  <2>3. PaddedInv'
    BY <1>1, <2>2, InsertedPadded
  <2>4. WireInv'
    BY <1>1, <2>1, <2>2, InsertedWire
  <2>5. CrossingInv'
    BY <1>1, <1>3, <2>1, PaddingMark, SameCrossing
  <2>6. OwedInv'
    BY <1>1, <1>3, <2>3, PaddingOwed
  <2>7. QED
    BY <2>1, <2>3, <2>4, <2>5, <2>6, TxKeeps
<1>4. CASE Crc_IDLE
  <2>1. UNCHANGED << sysVars, cdc, owed >>
    BY <1>4 DEF Crc_IDLE
  <2>2. PaddedInv' /\ ExitMark' = ExitMark /\ WireInv'
    BY <1>1, <1>4, CrcIdlePadded, CrcIdleWire
  <2>3. \A s \in Senders : Inside(s)' = Inside(s)
    BY <1>1, <1>4, InsideCrcIdle
  <2>4. QED
    BY <2>1, <2>2, <2>3, QuietKeeps
<1>5. CASE Crc_COPY
  <2>1. UNCHANGED << sysVars, cdc, owed >>
    BY <1>5 DEF Crc_COPY
  <2>2. PaddedInv' /\ ExitMark' = ExitMark /\ WireInv'
    BY <1>1, <1>5, CopyPadded, CopyWire
  <2>3. \A s \in Senders : Inside(s)' = Inside(s)
    BY <1>1, <1>5, InsideCopy
  <2>4. QED
    BY <2>1, <2>2, <2>3, QuietKeeps
<1>6. CASE Crc_CRC
  <2>1. UNCHANGED << sysVars, cdc, crc, buf >> /\ UNCHANGED << arbiter, counter, mux, slot, cmd, hw >>
    BY <1>6 DEF Crc_CRC, sysVars, softVars, readerVars, muxVars
  <2>2. PaddedInv' /\ ExitMark' = ExitMark /\ WireInv'
    BY <1>1, <1>6, CrcCrcPadded, CrcWire
  <2>3. CASE cnt = 0
    <3>1. OwedInv'
      BY <1>1, <1>6, <2>3, SentOwed
    <3>2. CrossingInv'
      BY <1>1, <2>1, <2>2, SameCrossing
    <3>3. QED
      BY <2>1, <2>2, <3>1, <3>2, TxKeeps
  <2>4. CASE cnt # 0
    <3>1. crcState' = crcState /\ owed' = owed
      BY <1>6, <2>4 DEF Crc_CRC
    <3>2. \A s \in Senders : Inside(s)' = Inside(s)
      BY <2>1, <3>1, InsideSame
    <3>3. QED
      BY <2>1, <2>2, <3>1, <3>2, QuietKeeps
  <2>5. QED
    BY <2>3, <2>4
<1>7. ASSUME UNCHANGED << sysVars, cdc, padVars, buf, crcVars, owed >>, WireInv' PROVE IInv'
  <2>1. UNCHANGED << padding, count, buf, crcState, crc >>
    BY <1>7 DEF padVars, crcVars
  <2>2. PaddedInv' /\ ExitMark' = ExitMark
    BY <1>1, <2>1, SamePadded
  <2>3. \A s \in Senders : Inside(s)' = Inside(s)
    BY <2>1, InsideSame
  <2>4. QED
    BY <1>7, <2>2, <2>3, QuietKeeps
<1>8. CASE Preamble_IDLE
  <2>1. UNCHANGED << sysVars, cdc, padVars, buf, crcVars, owed >>
    BY <1>8 DEF Preamble_IDLE
  <2>2. QED
    BY <1>1, <1>7, <1>8, <2>1, PreambleIdleWire
<1>9. CASE Preamble_PREAMBLE
  <2>1. UNCHANGED << sysVars, cdc, padVars, buf, crcVars, owed >>
    BY <1>9 DEF Preamble_PREAMBLE
  <2>2. QED
    BY <1>1, <1>7, <1>9, <2>1, PreambleWire
<1>10. CASE Gap_GAP
  <2>1. UNCHANGED << sysVars, cdc, padVars, buf, crcVars, owed >>
    BY <1>10 DEF Gap_GAP
  <2>2. QED
    BY <1>1, <1>7, <1>10, <2>1, GapWire
<1>11. QED
  BY <1>2, <1>3, <1>4, <1>5, <1>6, <1>8, <1>9, <1>10 DEF TxCycle

LEMMA StutterKeeps ==
    ASSUME IInv, UNCHANGED vars PROVE IInv'
<1>1. UNCHANGED << sysVars, cdc, padVars, buf, crcVars, outVars, owed >>
  BY DEF vars
<1>2. /\ UNCHANGED << padding, count, buf, crcState, crc >>
      /\ UNCHANGED << cnt, preamble, preCount, gap, gapCount, wire >>
  BY <1>1 DEF padVars, crcVars, outVars
<1>3. PaddedInv' /\ ExitMark' = ExitMark /\ OutFrame' = OutFrame
  BY <1>2, SamePadded DEF IInv
<1>4. WireInv'
  BY <1>2, <1>3, SameWire DEF IInv
<1>5. \A s \in Senders : Inside(s)' = Inside(s)
  BY <1>2, InsideSame
<1>6. QED
  BY <1>1, <1>3, <1>4, <1>5, QuietKeeps

LEMMA InvStep == IInv /\ [Next]_vars => IInv'
  BY SysKeeps, TxStep, StutterKeeps DEF Next

\* In every reachable state the slots, the word being cut into bytes, the crossing, the
\* padding, the CRC's buffer, the preamble and the gap (sram.py:193-284, last_be.py:13-37,
\* padding.py:28-56, crc.py:161-206, preamble.py:35-66, gap.py:25-38) hold consecutive pieces
\* of the frames that are owed, and nothing else.
THEOREM FramesInPieces == Spec => []IInv
  BY InvInit, InvStep, PTL DEF Spec

-----------------------------------------------------------------------------

\* Distinct slots are at most as many as there are.
LEMMA AtMostSlots ==
    ASSUME NEW R, NEW q \in Seq(R), Distinct(q), SlotsOf(q) \subseteq Slots
    PROVE  Len(q) <= NSlots
<1>1. CASE q = << >>
  BY <1>1, Constants
<1>2. CASE q # << >>
  <2>1. /\ Distinct(Tail(q)) /\ SlotsOf(Tail(q)) = SlotsOf(q) \ {Head(q).slot}
        /\ Head(q).slot \in SlotsOf(q)
    BY <1>2, TailSlots
  <2>2. Tail(q) \in Seq(R) /\ Len(Tail(q)) = Len(q) - 1 /\ Len(q) \in Nat
    BY <1>2, HeadTailProperties, LenProperties
  <2>3. Head(q).slot \in Slots /\ Head(q).slot \notin SlotsOf(Tail(q)) /\ SlotsOf(Tail(q)) \subseteq Slots
    BY <2>1
  <2>4. Len(Tail(q)) < NSlots
    BY <2>1, <2>2, <2>3, RoomForSlot
  <2>5. QED
    BY <2>2, <2>4, Constants
<1>3. QED
  BY <1>1, <1>2

LEMMA LastOfRest ==
    ASSUME HwInv, NEW i \in 1 .. Len(hw) PROVE hw[i].last = (i = Len(hw))
<1>1. hw # << >> /\ hw \in Seq(FrameTokens)
  BY DEF HwInv
<1>2. PICK f \in FramesOf("hw"), k \in 1 .. CountRange : k \in 1 .. f.size /\ RestOf(f, k)
  BY <1>1, HwFacts
<1>3. Len(hw) = f.size - k + 1 /\ hw[i] = FrameToken(f, k + i - 1) /\ f.size \in Nat
  BY <1>2, HwFrameFacts DEF RestOf
<1>4. FrameToken(f, k + i - 1).last = (k + i - 1 = f.size)
  BY DEF FrameToken, Token
<1>5. k + i - 1 = f.size <=> i = Len(hw)
  BY <1>3
<1>6. QED
  BY <1>3, <1>4, <1>5, Zenon

LEMMA CountIs ==
    ASSUME PaddedInv
    PROVE  /\ count \in 0 .. CountRange - 1 /\ padding \in {"IDLE", "PADDING"}
           /\ padding = "PADDING" => count \in 1 .. MinLength - 1
<1>1. CASE InPassed = 0 \/ InPassed = PaddedLength(InFrame)
  <2>1. count = 0 /\ padding = "IDLE"
    BY <1>1 DEF PaddedInv
  <2>2. QED
    BY <2>1, Constants
<1>2. CASE ~(InPassed = 0 \/ InPassed = PaddedLength(InFrame))
  <2>1. /\ count = InPassed /\ count < PaddedLength(InFrame)
        /\ padding = IF count < InFrame.size THEN "IDLE" ELSE "PADDING"
    BY <1>2 DEF PaddedInv
  <2>2. Len(buf) \in Nat
    <3>1. CASE buf = << >>
      BY <3>1
    <3>2. CASE buf # << >>
      <4>1. Len(buf) = 1
        BY <3>2, BufFacts DEF PaddedInv
      <4>2. QED
        BY <4>1
    <3>3. QED
      BY <3>1, <3>2
  <2>3. InPassed \in Nat /\ InPassed # 0
    <3>1. CASE crcState = "COPY"
      <4>1. Len(crc) \in Nat
        BY <3>1, CopiedFacts, LenProperties
      <4>2. QED
        BY <1>2, <2>2, <3>1, <4>1 DEF InPassed
    <3>2. CASE crcState # "COPY"
      BY <1>2, <2>2, <3>2 DEF InPassed
    <3>3. QED
      BY <3>1, <3>2
  <2>4. InFrame \in Frames
    <3>1. CASE crcState = "COPY"
      <4>1. InFrame = OutFrame
        BY <3>1 DEF InFrame
      <4>2. QED
        BY <3>1, <4>1 DEF PaddedInv
    <3>2. CASE crcState # "COPY"
      <4>1. buf # << >>
        BY <2>3, <3>2 DEF InPassed
      <4>2. QED
        BY <4>1 DEF PaddedInv
    <3>3. QED
      BY <3>1, <3>2
  <2>5. count \in Nat /\ count # 0 /\ count < PaddedLength(InFrame)
    BY <2>1, <2>3
  <2>6. /\ PaddedLength(InFrame) \in Nat /\ PaddedLength(InFrame) <= CountRange /\ InFrame.size \in Nat
        /\ PaddedLength(InFrame) = InFrame.size \/ PaddedLength(InFrame) = MinLength
    BY <2>4, FrameFacts
  <2>7. count \in 0 .. CountRange - 1
    BY <2>5, <2>6, Constants
  <2>8. ~(count < InFrame.size) => count \in 1 .. MinLength - 1
    BY <2>5, <2>6, Constants
  <2>9. QED
    BY <2>1, <2>7, <2>8
<1>3. QED
  BY <1>1, <1>2

LEMMA FifosTyped ==
    ASSUME PlacesInv
    PROVE  /\ \A s \in Slots : slot[s] \in FramesOf("cpu") \cup {<< >>}
           /\ free \subseteq Slots
           /\ \A i \in DOMAIN cmd : cmd[i] \in [slot : Slots, length : CpuSizes]
           /\ \A i \in DOMAIN stat : stat[i] \in [slot : Slots, stamp : 0 .. Tags - 1]
           /\ Len(cmd) <= NSlots /\ Len(stat) <= NSlots
<1>1. cmd \in Seq(Commanded) /\ stat \in Seq(Statuses) /\ Distinct(cmd) /\ Distinct(stat)
      /\ slot \in [Slots -> FramesOf("cpu") \cup {<< >>}]
  BY DEF PlacesInv
<1>2. SlotsOf(cmd) \subseteq Slots /\ SlotsOf(stat) \subseteq Slots /\ free \subseteq Slots
  BY PlacesFacts
<1>3. Len(cmd) <= NSlots /\ Len(stat) <= NSlots
  BY <1>1, <1>2, AtMostSlots
<1>4. \A i \in DOMAIN cmd : cmd[i] \in Commanded
  BY <1>1, LenProperties, ElementOfSeq
<1>5. \A i \in DOMAIN stat : stat[i] \in Statuses
  BY <1>1, LenProperties, ElementOfSeq
<1>6. QED
  BY <1>1, <1>2, <1>3, <1>4, <1>5 DEF Commanded, Statuses

LEMMA TypedInPieces == IInv => TypeOK
<1> SUFFICES ASSUME IInv PROVE TypeOK
  OBVIOUS
<1>1. PlacesInv /\ TagInv /\ CpuInv /\ HwInv /\ CrossingInv /\ PaddedInv /\ WireInv /\ OwedInv
  BY DEF IInv
<1>2. /\ \A s \in Slots : slot[s] \in FramesOf("cpu") \cup {<< >>}
      /\ free \subseteq Slots
      /\ \A i \in DOMAIN cmd : cmd[i] \in [slot : Slots, length : CpuSizes]
      /\ \A i \in DOMAIN stat : stat[i] \in [slot : Slots, stamp : 0 .. Tags - 1]
      /\ Len(cmd) <= NSlots /\ Len(stat) <= NSlots
  BY <1>1, FifosTyped
<1>3. /\ reader \in {"IDLE", "SEND", "END"}
      /\ counter \in 0 .. LengthRange - 1 /\ stamp \in 0 .. Tags - 1
      /\ mux \in 0 .. WordBytes - 1 /\ lastbe \in {"COPY", "WAIT-LAST"}
      /\ arbiter \in {"IDLE", "WISHBONE", "CROSSBAR"}
      /\ tag \in [Senders -> 0 .. Tags - 1]
      /\ Len(cdc) <= Depth
  BY <1>1 DEF PlacesInv, CpuInv, HwInv, TagInv, CrossingInv
<1>4. \A i \in DOMAIN hw : hw[i].last = (i = Len(hw))
  <2>1. DOMAIN hw = 1 .. Len(hw)
    BY <1>1, LenProperties DEF HwInv
  <2>2. QED
    BY <1>1, <2>1, LastOfRest
<1>5. Len(buf) <= 1
  <2>1. CASE buf = << >>
    BY <2>1
  <2>2. CASE buf # << >>
    <3>1. Len(buf) = 1
      BY <1>1, <2>2, BufFacts DEF PaddedInv
    <3>2. QED
      BY <3>1
  <2>3. QED
    BY <2>1, <2>2
<1>6. /\ count \in 0 .. CountRange - 1 /\ padding \in {"IDLE", "PADDING"}
      /\ padding = "PADDING" => count \in 1 .. MinLength - 1
  BY <1>1, CountIs
<1>7. /\ crcState \in {"IDLE", "COPY", "CRC"} /\ cnt \in 0 .. CrcLength - 1
      /\ preamble \in {"IDLE", "PREAMBLE", "COPY"} /\ preCount \in 0 .. PreambleLength - 1
      /\ gap \in {"COPY", "GAP"} /\ gapCount \in 0 .. GapLength - 1
  BY <1>1 DEF PaddedInv, WireInv
<1>8. \A s \in Senders : \A i \in DOMAIN owed[s] : owed[s][i] \in FramesOf(s)
  <2> SUFFICES ASSUME NEW s \in Senders, NEW i \in DOMAIN owed[s] PROVE owed[s][i] \in FramesOf(s)
    OBVIOUS
  <2>1. owed[s] \in Seq(FramesOf(s))
    BY <1>1, OwedTyped
  <2>2. QED
    BY <2>1, LenProperties, ElementOfSeq
<1>9. QED
  BY <1>2, <1>3, <1>4, <1>5, <1>6, <1>7, <1>8 DEF TypeOK

\* Every register, FIFO and counter of the stages keeps to its range: no FIFO of the reader
\* overflows, the padding's 16-bit counter (padding.py) never wraps, and PADDING is only
\* entered for a frame with bytes that is too short.
THEOREM TransmitTypeCorrect == Spec => []TypeOK
  BY TypedInPieces, FramesInPieces, PTL

-----------------------------------------------------------------------------
(* The pipeline implements the channel. *)

LEMMA InitIsChannels == Init => Channel!Init
  BY DEF Init, Channel!Init, Sent

LEMMA HandsIn ==
    ASSUME IInv, SysCycle PROVE Channel!HandIn
<1>1. PlacesInv /\ TagInv /\ CpuInv /\ HwInv /\ CrossingInv /\ PaddedInv /\ OwedInv
  BY DEF IInv
<1>2. PICK start \in {<< >>} \cup Commands, clear \in {FALSE} \cup {stat # << >>},
           offer \in {<< >>} \cup (IF hw = << >> THEN Offers ELSE {}) :
        HandedIn(start, offer) /\ UNCHANGED outVars
  BY DEF SysCycle
<1>3. owed' = [s \in Senders |-> owed[s] \o Given(s, start, offer)]
  BY <1>2, HandedInIs
<1>4. Sent' = Sent
  BY <1>2 DEF outVars, Sent
<1>5. ASSUME NEW s \in Senders
      PROVE  Given(s, start, offer) = << >> \/ \E f \in FramesOf(s) : Given(s, start, offer) = << f >>
  <2>1. CASE s = "cpu"
    <3>1. Given(s, start, offer) = GivenCpu(start)
      BY <2>1 DEF Given
    <3>2. start # << >> => CpuFrame(start[1].length) \in FramesOf("cpu")
      BY <1>1, StartIs
    <3>3. QED
      BY <2>1, <3>1, <3>2 DEF GivenCpu
  <2>2. CASE s = "hw"
    <3>1. Given(s, start, offer) = offer /\ offer \in {<< >>} \cup Offers
      BY <2>2 DEF Given
    <3>2. offer # << >> => offer = << offer[1] >> /\ offer[1] \in FramesOf("hw")
      BY <1>1, <3>1, OfferIs
    <3>3. QED
      BY <2>2, <3>1, <3>2
  <2>3. QED
    BY <2>1, <2>2 DEF Senders
<1>6. ASSUME NEW s \in Senders
      PROVE  owed'[s] \in Seq(Frames) /\ (owed'[s] = owed[s] \/ \E f \in Frames : owed'[s] = Append(owed[s], f))
  <2>1. FramesOf(s) \subseteq Frames
    BY DEF Frames
  <2>2. owed[s] \in Seq(FramesOf(s)) /\ owed'[s] = owed[s] \o Given(s, start, offer)
    BY <1>1, <1>3, OwedTyped
  <2>3. owed[s] \in Seq(Frames)
    BY <2>1, <2>2
  <2>4. CASE Given(s, start, offer) = << >>
    BY <2>2, <2>3, <2>4, ConcatEmptySeq
  <2>5. CASE Given(s, start, offer) # << >>
    <3>1. PICK f \in FramesOf(s) : Given(s, start, offer) = << f >>
      BY <1>5, <2>5
    <3>2. f \in Frames
      BY <2>1
    <3>3. owed'[s] = Append(owed[s], f) /\ Append(owed[s], f) \in Seq(Frames)
      BY <2>2, <2>3, <3>1, <3>2, AppendIsConcat, AppendProperties
    <3>4. QED
      BY <3>2, <3>3
  <2>6. QED
    BY <2>4, <2>5
<1>7. owed' \in [Senders -> Seq(Frames)]
  BY <1>3, <1>6
<1>8. QED
  BY <1>4, <1>6, <1>7 DEF Channel!HandIn

\* The last byte of a frame's CRC is its sending.
LEMMA Sends ==
    ASSUME IInv, Crc_CRC, cnt = 0 PROVE \E s \in Senders : Channel!Send(s)
<1>1. PlacesInv /\ CpuInv /\ HwInv /\ CrossingInv /\ PaddedInv /\ WireInv /\ OwedInv
  BY DEF IInv
<1>2. /\ OutFrame \in Frames /\ OutFrame.from \in Senders
      /\ owed[OutFrame.from] # << >> /\ Head(owed[OutFrame.from]) = OutFrame
      /\ owed' = [owed EXCEPT ![OutFrame.from] = Tail(@)]
  BY <1>1, SentOwed
<1>3. wire' = Framed(OutFrame)
  BY <1>1, CrcWire
<1>4. gap = "COPY" /\ gap' = "GAP"
  BY DEF Crc_CRC
<1>5. Sent = << >> /\ Sent' = Framed(OutFrame)
  BY <1>3, <1>4 DEF Sent
<1>6. Channel!Framed(OutFrame) = Framed(OutFrame)
  BY DEF Channel!Framed, Framed, Channel!Preamble, Preamble, Channel!PreambleByte, PreambleByte,
         Channel!Padded, Padded, Channel!PaddedLength, PaddedLength, Channel!BodyByte, BodyByte,
         Channel!Zero, Zero, Channel!Crc, Crc, Channel!CrcByte, CrcByte
<1>7. QED
  BY <1>2, <1>5, <1>6 DEF Channel!Send

LEMMA GapPauses ==
    ASSUME IInv, Gap_GAP PROVE Channel!Pause \/ UNCHANGED << owed, Sent >>
<1>1. PaddedInv /\ WireInv
  BY DEF IInv
<1>2. /\ gap = "GAP" /\ owed' = owed /\ gap' \in {"GAP", "COPY"}
      /\ gap' = "GAP" => wire' = wire
  BY DEF Gap_GAP
<1>3. CASE gap' = "COPY"
  <2>1. Sent' = << >> /\ Sent = wire
    BY <1>2, <1>3 DEF Sent
  <2>2. PICK f \in Frames : wire = Framed(f)
    BY <1>1, <1>2 DEF WireInv
  <2>3. Sent # << >>
    BY <2>1, <2>2, FramedFacts
  <2>4. QED
    BY <1>2, <2>1, <2>3 DEF Channel!Pause
<1>4. CASE gap' = "GAP"
  BY <1>2, <1>4 DEF Sent
<1>5. QED
  BY <1>2, <1>3, <1>4

LEMMA StepIsChannels == IInv /\ [Next]_vars => [Channel!Next]_<< owed, Sent >>
<1> SUFFICES ASSUME IInv, [Next]_vars PROVE Channel!Next \/ UNCHANGED << owed, Sent >>
  OBVIOUS
<1>1. CASE SysCycle
  BY <1>1, HandsIn DEF Channel!Next
<1>2. CASE Crc_CRC
  <2>1. CASE cnt = 0
    BY <1>2, <2>1, Sends DEF Channel!Next
  <2>2. CASE cnt # 0
    BY <1>2, <2>2 DEF Crc_CRC, Sent
  <2>3. QED
    BY <2>1, <2>2
<1>3. CASE Gap_GAP
  BY <1>3, GapPauses DEF Channel!Next
<1>4. CASE Padding_IDLE \/ Padding_PADDING \/ Crc_IDLE
  BY <1>4 DEF Padding_IDLE, Padding_PADDING, Crc_IDLE, outVars, Sent
<1>5. CASE Preamble_IDLE \/ Preamble_PREAMBLE \/ Crc_COPY
  BY <1>5 DEF Preamble_IDLE, Preamble_PREAMBLE, Crc_COPY, Sent
<1>6. CASE UNCHANGED vars
  BY <1>6 DEF vars, outVars, Sent
<1>7. QED
  BY <1>1, <1>2, <1>3, <1>4, <1>5, <1>6 DEF Next, TxCycle

\* Every sender's frames leave whole, padded to the least length, with their preamble and
\* CRC, one at a time and in the order they were handed in: the stages of mac/sram.py,
\* last_be.py, mac/__init__.py, padding.py, crc.py, preamble.py and gap.py, under every
\* back-pressure, lose no byte, add none and mix no two frames.
THEOREM ImplementsChannel == Spec => SendsFrames
<1>1. Init => Channel!Init
  BY InitIsChannels
<1>2. IInv /\ [Next]_vars => [Channel!Next]_<< owed, Sent >>
  BY StepIsChannels
<1>3. QED
  BY <1>1, <1>2, FramesInPieces, PTL DEF Spec, SendsFrames, Channel!Spec
=============================================================================
