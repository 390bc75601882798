-------------------------- MODULE SramWriterProofs --------------------------
(***************************************************************************)
(* Theorems about SramWriter, for any number of slots, any slot size and   *)
(* any packet lengths.                                                     *)
(***************************************************************************)
EXTENDS SramWriter, SequenceTheorems, TLAPS

LEMMA WordFields ==
    ASSUME NEW w \in Words
    PROVE  /\ w.valid \in BOOLEAN /\ w.last \in BOOLEAN /\ w.error \in BOOLEAN
           /\ w.inc \in 1 .. 4
           /\ ~w.last => w.inc = 4
  BY DEF Words

\* Popping shortens the FIFO and adds no entry to it.
LEMMA PoppedFacts ==
    ASSUME stat \in Seq(Entries), NEW clear \in BOOLEAN
    PROVE  /\ Popped(clear) \in Seq(Entries)
           /\ Len(Popped(clear)) \in Nat /\ Len(Popped(clear)) <= Len(stat)
           /\ \A i \in 1 .. Len(Popped(clear)) : \E j \in 1 .. Len(stat) : Popped(clear)[i] = stat[j]
<1>1. CASE clear /\ stat # << >>
  <2>1. /\ Tail(stat) \in Seq(Entries) /\ Len(Tail(stat)) = Len(stat) - 1
        /\ \A i \in 1 .. Len(Tail(stat)) : Tail(stat)[i] = stat[i + 1]
    BY <1>1, HeadTailProperties
  <2>2. Len(stat) \in Nat
    BY LenProperties
  <2>3. Popped(clear) = Tail(stat)
    BY <1>1 DEF Popped
  <2>4. ASSUME NEW i \in 1 .. Len(Tail(stat))
        PROVE  i + 1 \in 1 .. Len(stat) /\ Tail(stat)[i] = stat[i + 1]
    BY <2>1, <2>2
  <2>5. QED
    BY <2>1, <2>2, <2>3, <2>4
<1>2. CASE ~(clear /\ stat # << >>)
  BY <1>2, LenProperties DEF Popped
<1>3. QED
  BY <1>1, <1>2

\* The status FIFO after a cycle: popped, and in TERMINATE with the entry behind
\* it if there was room.
LEMMA StatStep ==
    ASSUME stat \in Seq(Entries), Entry \in Entries, Len(stat) <= NSlots,
           NEW clear \in BOOLEAN,
           \/ stat' = Popped(clear)
           \/ stat' = IF StatReady THEN Append(Popped(clear), Entry) ELSE Popped(clear)
    PROVE  /\ stat' \in Seq(Entries) /\ Len(stat') <= NSlots
           /\ \A i \in 1 .. Len(stat') :
                 \/ \E j \in 1 .. Len(stat) : stat'[i] = stat[j]
                 \/ stat' # Popped(clear) /\ stat'[i] = Entry
<1> USE PoppedFacts, WriterAssumption
<1>0. Len(stat) \in Nat /\ NSlots \in Nat
  BY LenProperties
<1>1. CASE stat' = Popped(clear)
  BY <1>0, <1>1
<1>2. CASE stat' # Popped(clear)
  <2>1. stat' = Append(Popped(clear), Entry) /\ Len(stat) < NSlots
    BY <1>2 DEF StatReady
  <2>2. /\ stat' \in Seq(Entries) /\ Len(stat') = Len(Popped(clear)) + 1
        /\ \A i \in 1 .. Len(Popped(clear)) : stat'[i] = Popped(clear)[i]
        /\ stat'[Len(Popped(clear)) + 1] = Entry
    BY <2>1, AppendProperties
  <2>3. Len(stat') <= NSlots
    BY <1>0, <2>1, <2>2
  <2>4. ASSUME NEW i \in 1 .. Len(stat')
        PROVE  \/ \E j \in 1 .. Len(stat) : stat'[i] = stat[j]
               \/ stat'[i] = Entry
    <3>1. CASE i = Len(Popped(clear)) + 1
      BY <2>2, <3>1
    <3>2. CASE i # Len(Popped(clear)) + 1
      <4>1. i \in 1 .. Len(Popped(clear))
        BY <2>2, <3>2
      <4>2. QED
        BY <2>2, <4>1
    <3>3. QED
      BY <3>1, <3>2
  <2>5. QED
    BY <1>2, <2>2, <2>3, <2>4
<1>3. QED
  BY <1>1, <1>2

-----------------------------------------------------------------------------
(* What a cycle does to the wire, the memory and the registers. *)

LEMMA RingFacts ==
    ASSUME TypeOK
    PROVE  Current \in Packets /\ NextSlot \in Slots /\ Entry \in Entries
<1>1. Current \in Packets
  BY WriterAssumption DEF TypeOK, Current, Packets
<1>2. NextSlot \in Slots
  BY WriterAssumption DEF TypeOK, NextSlot, Slots, SlotValues
<1>3. Entry \in Entries
  BY DEF TypeOK, Entry, Entries
<1>4. QED
  BY <1>1, <1>2, <1>3

LEMMA WireStep ==
    ASSUME TypeOK, NEW w \in Words, Transfer(w)
    PROVE  /\ pkt' \in Packets /\ beats' \in 0 .. MaxBeats /\ bad' \in BOOLEAN
           /\ joined' \in BOOLEAN
           /\ ~w.valid => UNCHANGED << pkt, beats, bad, joined >>
           /\ w.valid => /\ state # "TERMINATE" /\ state # "DISCARD"
                         /\ pkt' = Current /\ bad' = w.error
                         /\ joined' = IF state = "IDLE" THEN w.last ELSE joined
                         /\ w.last => beats' = 0
                         /\ ~w.last => beats' = beats + 1
<1> USE WordFields, RingFacts, WriterAssumption DEF Transfer, OnWire, TypeOK
<1>1. CASE ~w.valid
  BY <1>1
<1>2. CASE w.valid
  <2>1. /\ state # "TERMINATE" /\ state # "DISCARD"
        /\ pkt' = Current /\ bad' = w.error
        /\ joined' = IF state = "IDLE" THEN w.last ELSE joined
        /\ beats' = IF w.last THEN 0 ELSE beats + 1
    BY <1>2
  <2>2. joined' \in BOOLEAN
    BY <2>1, Zenon
  <2>3. w.last \/ beats + 1 < MaxBeats
    BY <1>2
  <2>4. beats' \in 0 .. MaxBeats
    BY <2>1, <2>3
  <2>5. QED
    BY <1>2, <2>1, <2>2, <2>4
<1>3. QED
  BY <1>1, <1>2

LEMMA StoreStep ==
    ASSUME TypeOK, StoreWord \/ mem' = mem
    PROVE  mem' \in [0 .. NSlots - 1 -> [0 .. Depth - 1 -> Packets]]
<1> DEFINE adr == (counter \div 4) % AddrSize
<1>1. CASE mem' = mem
  BY <1>1 DEF TypeOK
<1>2. CASE StoreWord /\ slot < NSlots /\ adr < Depth
  <2>1. adr \in 0 .. Depth - 1 /\ slot \in 0 .. NSlots - 1
    BY <1>2, WriterAssumption DEF TypeOK, Slots, SlotValues
  <2>2. mem' = [mem EXCEPT ![slot][adr] = Current]
    BY <1>2 DEF StoreWord
  <2>3. QED
    BY <2>1, <2>2, RingFacts DEF TypeOK
<1>3. CASE StoreWord /\ ~(slot < NSlots /\ adr < Depth)
  BY <1>3 DEF StoreWord, TypeOK
<1>4. QED
  BY <1>1, <1>2, <1>3

\* What AnnouncedIsGood says of an entry.
GoodEntry(e) ==
    e.length # 0 => /\ e.pkt = IF e.joined THEN (e.stamp + 1) % Ids ELSE e.stamp
                    /\ e.bad => e.joined /\ e.length = MTU

LEMMA GoodEntries == AnnouncedIsGood <=> \A i \in 1 .. Len(stat) : GoodEntry(stat[i])
  BY DEF AnnouncedIsGood, Announced, GoodEntry

\* The entries of the FIFO stay good: the one TERMINATE adds is for the packet its
\* stamp says, or has no length.
LEMMA EntriesStep ==
    ASSUME WriterInv, NEW clear \in BOOLEAN,
           \/ stat' = Popped(clear)
           \/ /\ state = "TERMINATE"
              /\ stat' = IF StatReady THEN Append(Popped(clear), Entry) ELSE Popped(clear)
    PROVE  stat' \in Seq(Entries) /\ Len(stat') <= NSlots /\ AnnouncedIsGood'
<1>1. stat \in Seq(Entries) /\ Len(stat) <= NSlots /\ Entry \in Entries
  BY RingFacts DEF WriterInv, TypeOK
<1>2. \A j \in 1 .. Len(stat) : GoodEntry(stat[j])
  BY GoodEntries DEF WriterInv
<1>3. state = "TERMINATE" => GoodEntry(Entry)
  BY DEF WriterInv, StoringInv, PacketOfStamp, Entry, GoodEntry
<1>4. /\ stat' \in Seq(Entries) /\ Len(stat') <= NSlots
      /\ \A i \in 1 .. Len(stat') : \/ \E j \in 1 .. Len(stat) : stat'[i] = stat[j]
                                    \/ stat' # Popped(clear) /\ stat'[i] = Entry
  BY <1>1, StatStep
<1>5. \A i \in 1 .. Len(stat') : GoodEntry(stat'[i])
  BY <1>2, <1>3, <1>4
<1>6. AnnouncedIsGood'
  BY <1>5 DEF AnnouncedIsGood, Announced, GoodEntry
<1>7. QED
  BY <1>4, <1>6

\* Popping keeps the room a packet was let in for.
LEMMA RoomKept ==
    ASSUME WriterInv, NEW clear \in BOOLEAN, stat' = Popped(clear), Len(stat) < NSlots
    PROVE  Len(stat') < NSlots
  BY PoppedFacts, LenProperties, WriterAssumption DEF WriterInv, TypeOK

-----------------------------------------------------------------------------
(* The ring.  With one slot, the slot register still has one bit, and every
   second packet is for a slot that is not there: two slots are the least that
   make a ring. *)

Ring == NSlots > 1

LEMMA RingSlots ==
    ASSUME TypeOK, Ring
    PROVE  /\ slot \in 0 .. NSlots - 1
           /\ NextSlot = IF slot + 1 = NSlots THEN 0 ELSE slot + 1
<1>1. SlotValues = NSlots /\ NSlots \in Nat /\ NSlots > 1
  BY WriterAssumption DEF Ring, SlotValues
<1>2. slot \in 0 .. NSlots - 1
  BY <1>1 DEF TypeOK, Slots
<1>3. CASE slot + 1 = NSlots
  BY <1>1, <1>2, <1>3 DEF NextSlot
<1>4. CASE slot + 1 < NSlots
  BY <1>1, <1>2, <1>4 DEF NextSlot
<1>5. QED
  BY <1>1, <1>2, <1>3, <1>4

\* As the writer moves on, what was k slots behind it is k + 1 slots behind, and
\* less than a whole round behind is not the writer's slot.
LEMMA BehindMoves ==
    ASSUME TypeOK, Ring, slot' = NextSlot, NEW k \in 0 .. NSlots - 1
    PROVE  Behind(k + 1)' = Behind(k)
  BY RingSlots, WriterAssumption DEF Behind, Ring

LEMMA BehindIsOther ==
    ASSUME TypeOK, Ring, NEW k \in 1 .. NSlots - 1
    PROVE  Behind(k) \in 0 .. NSlots - 1 /\ Behind(k) # slot
  BY RingSlots, WriterAssumption DEF Behind, Ring

\* An entry keeps its distance to the end of the FIFO when the head is popped.
LEMMA PoppedKeepsDistance ==
    ASSUME stat \in Seq(Entries), NEW clear \in BOOLEAN
    PROVE  \A i \in 1 .. Len(Popped(clear)) : \E j \in 1 .. Len(stat) :
              Popped(clear)[i] = stat[j] /\ Len(Popped(clear)) + 1 - i = Len(stat) + 1 - j
<1>0. Len(stat) \in Nat
  BY LenProperties
<1>1. CASE clear /\ stat # << >>
  <2>1. /\ Len(Tail(stat)) = Len(stat) - 1
        /\ \A i \in 1 .. Len(Tail(stat)) : Tail(stat)[i] = stat[i + 1]
    BY <1>1, HeadTailProperties
  <2>2. Popped(clear) = Tail(stat)
    BY <1>1 DEF Popped
  <2>3. ASSUME NEW i \in 1 .. Len(Tail(stat))
        PROVE  \E j \in 1 .. Len(stat) :
                  Tail(stat)[i] = stat[j] /\ Len(Tail(stat)) + 1 - i = Len(stat) + 1 - j
    <3>1. i + 1 \in 1 .. Len(stat) /\ Len(Tail(stat)) + 1 - i = Len(stat) + 1 - (i + 1)
      BY <1>0, <2>1
    <3>2. QED
      BY <2>1, <3>1
  <2>4. QED
    BY <2>2, <2>3
<1>2. CASE ~(clear /\ stat # << >>)
  <2>1. Popped(clear) = stat
    BY <1>2 DEF Popped
  <2>2. QED
    BY <2>1
<1>3. QED
  BY <1>1, <1>2

\* The port writes one word, of the writer's slot.
LEMMA StoreFacts ==
    ASSUME TypeOK, Ring, StoreWord,
           NEW s \in 0 .. NSlots - 1, NEW k \in 0 .. Depth - 1
    PROVE  mem'[s][k] = IF s = slot /\ k = (counter \div 4) % AddrSize THEN Current
                        ELSE mem[s][k]
<1> DEFINE adr == (counter \div 4) % AddrSize
<1>1. mem \in [0 .. NSlots - 1 -> [0 .. Depth - 1 -> Packets]] /\ slot \in 0 .. NSlots - 1
  BY RingSlots DEF TypeOK
<1>2. adr \in Nat /\ slot < NSlots /\ NSlots \in Nat
  BY <1>1, WriterAssumption DEF TypeOK
<1>3. CASE adr < Depth
  <2>1. mem' = [mem EXCEPT ![slot][adr] = Current]
    BY <1>2, <1>3 DEF StoreWord
  <2> HIDE DEF adr
  <2>2. mem'[s][k] = IF s = slot /\ k = adr THEN Current ELSE mem[s][k]
    BY <1>1, <2>1
  <2>3. QED
    BY <2>2 DEF adr
<1>4. CASE ~(adr < Depth)
  <2>1. mem' = mem
    BY <1>4 DEF StoreWord
  <2>2. k # adr
    BY <1>2, <1>4, WriterAssumption
  <2>3. QED
    BY <2>1, <2>2
<1>5. QED
  BY <1>3, <1>4

\* ... so a packet in another slot stays as it is.
LEMMA OthersKept ==
    ASSUME TypeOK, Ring, StoreWord \/ mem' = mem,
           NEW s \in 0 .. NSlots - 1, s # slot, NEW length \in Nat, NEW p,
           Stored(mem, s, length, p)
    PROVE  Stored(mem', s, length, p)
<1> DEFINE words == (length + 3) \div 4
<1>1. words \in Nat /\ Depth \in Nat
  BY WriterAssumption
<1>2. words <= Depth => \A k \in 0 .. words - 1 : mem[s][k] = p
  BY DEF Stored
<1> HIDE DEF words
<1>3. ASSUME words <= Depth, NEW k \in 0 .. words - 1
      PROVE  mem'[s][k] = p
  <2>1. k \in 0 .. Depth - 1
    BY <1>1, <1>3
  <2>2. mem'[s][k] = mem[s][k]
    BY <2>1, StoreFacts
  <2>3. QED
    BY <1>2, <1>3, <2>2
<1>4. QED
  BY <1>3 DEF Stored, words

\* The next word of a packet goes behind the words stored so far.
LEMMA WordAdded ==
    ASSUME TypeOK, Ring, StoreWord, counter % 4 = 0, NEW inc \in 1 .. 4,
           counter = 0 \/ Stored(mem, slot, counter, Current)
    PROVE  Stored(mem', slot, counter + inc, Current)
<1> DEFINE m == counter \div 4
<1>1. /\ counter \in Nat /\ m \in Nat /\ counter = 4 * m
      /\ slot \in 0 .. NSlots - 1 /\ Depth \in Nat /\ AddrSize \in Nat /\ Depth <= AddrSize
  BY RingSlots, WriterAssumption DEF TypeOK
<1>2. (counter + inc + 3) \div 4 = m + 1 /\ (counter + 3) \div 4 = m
  BY <1>1
<1> HIDE DEF m
<1>3. ASSUME m + 1 <= Depth, NEW k \in 0 .. m
      PROVE  mem'[slot][k] = Current
  <2>1. m % AddrSize = m
    BY <1>1, <1>3
  <2>2. k \in 0 .. Depth - 1
    BY <1>1, <1>3
  <2>3. mem'[slot][k] = IF k = m THEN Current ELSE mem[slot][k]
    BY <1>1, <2>1, <2>2, StoreFacts DEF m
  <2>4. CASE k = m
    BY <2>3, <2>4
  <2>5. CASE k # m
    <3>1. k \in 0 .. m - 1 /\ m # 0 /\ m <= Depth
      BY <1>1, <1>3, <2>5
    <3>2. Stored(mem, slot, counter, Current)
      BY <1>1, <3>1
    <3>3. mem[slot][k] = Current
      BY <1>2, <3>1, <3>2 DEF Stored
    <3>4. QED
      BY <2>3, <2>5, <3>3
  <2>6. QED
    BY <2>4, <2>5
<1>4. (m + 1) - 1 = m
  BY <1>1
<1>5. QED
  BY <1>2, <1>3, <1>4 DEF Stored

-----------------------------------------------------------------------------
(* The invariant, one action at a time. *)

LEMMA IdleStep ==
    ASSUME WriterInv, NEW w \in Words, NEW clear \in BOOLEAN, Idle(w, clear)
    PROVE  WriterInv'
<1> USE WriterAssumption
<1>1. stat' \in Seq(Entries) /\ Len(stat') <= NSlots /\ AnnouncedIsGood'
  BY EntriesStep DEF Idle
<1>2. TypeOK /\ state = "IDLE" /\ counter = 0 /\ beats = 0 /\ Current \in Packets
  BY RingFacts DEF WriterInv, StoringInv, Idle
<1>3. Transfer(w) /\ slot' = slot /\ (StoreWord \/ mem' = mem) /\ stat' = Popped(clear)
  BY DEF Idle
<1>4. mem' \in [0 .. NSlots - 1 -> [0 .. Depth - 1 -> Packets]]
  BY <1>2, <1>3, StoreStep
<1>5. CASE ~w.valid
  <2>1. UNCHANGED << state, counter, slot, errors, stamp, beats >>
    BY <1>2, <1>3, <1>5, WireStep DEF Idle
  <2>2. TypeOK'
    BY <1>1, <1>2, <1>3, <1>4, <2>1, WireStep DEF TypeOK
  <2>3. StoringInv' /\ StoredIsAnnounced'
    BY <1>2, <2>1 DEF StoringInv, StoredIsAnnounced
  <2>4. QED
    BY <1>1, <2>2, <2>3 DEF WriterInv
<1>6. CASE w.valid /\ StatReady
  <2>1. /\ state' = "WRITE" /\ counter' = w.inc /\ counter' \in Nat /\ counter' # 0
        /\ stamp' = Current /\ errors' = errors
    BY <1>2, <1>6, WordFields DEF Idle
  <2>2. pkt' = Current /\ joined' = w.last /\ beats' = IF w.last THEN 0 ELSE 1
    BY <1>2, <1>3, <1>6, WireStep, WordFields
  <2>3. TypeOK'
    BY <1>1, <1>2, <1>3, <1>4, <2>1, WireStep DEF TypeOK, States
  <2>4. (Current = PacketOfStamp)'
    BY <2>1, <2>2 DEF Current, PacketOfStamp
  <2>5. ~joined' => counter' % 4 = 0 /\ beats' # 0
    BY <2>1, <2>2, WordFields
  <2>6. StoringInv'
    BY <2>1, <2>4, <2>5 DEF StoringInv
  <2>7. StoredIsAnnounced'
    BY <1>3, <1>6, RoomKept DEF StoredIsAnnounced, StatReady
  <2>8. QED
    BY <1>1, <2>3, <2>6, <2>7 DEF WriterInv
<1>7. CASE w.valid /\ ~StatReady
  <2>1. /\ state' = "DISCARD_REMAINING" /\ counter' = 0 /\ stamp' = stamp
        /\ errors < MaxErrors /\ errors' = errors + 1
    BY <1>2, <1>7 DEF Idle
  <2>2. TypeOK'
    BY <1>1, <1>2, <1>3, <1>4, <2>1, WireStep DEF TypeOK, States
  <2>3. StoringInv' /\ StoredIsAnnounced'
    BY <2>1 DEF StoringInv, StoredIsAnnounced
  <2>4. QED
    BY <1>1, <2>2, <2>3 DEF WriterInv
<1>8. QED
  BY <1>5, <1>6, <1>7

LEMMA WriteStep ==
    ASSUME WriterInv, NEW w \in Words, NEW clear \in BOOLEAN, Write(w, clear)
    PROVE  WriterInv'
<1> USE WriterAssumption
<1>1. stat' \in Seq(Entries) /\ Len(stat') <= NSlots /\ AnnouncedIsGood'
  BY EntriesStep DEF Write
<1>2. /\ TypeOK /\ state = "WRITE" /\ counter \in Nat /\ counter # 0 /\ beats \in Nat
      /\ Current = PacketOfStamp /\ Len(stat) < NSlots
      /\ ~joined => counter % 4 = 0 /\ beats # 0
  BY DEF WriterInv, StoringInv, StoredIsAnnounced, Write, TypeOK
<1>3. /\ Transfer(w) /\ (StoreWord \/ mem' = mem) /\ stat' = Popped(clear)
      /\ UNCHANGED << slot, errors, stamp >>
  BY DEF Write
<1>4. mem' \in [0 .. NSlots - 1 -> [0 .. Depth - 1 -> Packets]]
  BY <1>2, <1>3, StoreStep
<1>5. counter' = IF w.valid /\ counter # MTU THEN counter + w.inc ELSE counter
  BY <1>2 DEF Write
<1>6. counter' \in Nat /\ counter' # 0
  BY <1>2, <1>5, WordFields
<1>7. state' = IF w.valid /\ w.last THEN IF Failed(w) THEN "DISCARD" ELSE "TERMINATE"
               ELSE IF w.valid /\ counter = MTU THEN "DISCARD_REMAINING"
               ELSE "WRITE"
  BY <1>2 DEF Write
<1>8. joined' = joined /\ PacketOfStamp' = PacketOfStamp
  BY <1>2, <1>3, WireStep DEF PacketOfStamp
<1>9. TypeOK'
  <2>1. state' \in States
    BY <1>7 DEF States
  <2>2. pkt' \in Packets /\ beats' \in 0 .. MaxBeats /\ bad' \in BOOLEAN /\ joined' \in BOOLEAN
    BY <1>2, <1>3, WireStep
  <2>3. QED
    BY <1>1, <1>2, <1>3, <1>4, <1>6, <2>1, <2>2 DEF TypeOK
<1>10. StoredIsAnnounced'
  BY <1>2, <1>3, RoomKept DEF StoredIsAnnounced
<1>11. StoringInv'
  <2>1. CASE ~w.valid
    <3>1. UNCHANGED << state, counter, pkt, beats, joined >>
      BY <1>2, <1>3, <1>5, <1>7, <2>1, WireStep
    <3>2. Current' = Current
      BY <3>1 DEF Current
    <3>3. QED
      BY <1>2, <1>8, <3>1, <3>2 DEF StoringInv
  <2>2. CASE w.valid /\ w.last
    <3>1. beats' = 0 /\ pkt' = Current /\ bad' = w.error
      BY <1>2, <1>3, <2>2, WireStep
    <3>2. CASE Failed(w)
      <4>1. state' = "DISCARD"
        BY <1>7, <2>2, <3>2
      <4>2. QED
        BY <3>1, <4>1 DEF StoringInv
    <3>3. CASE ~Failed(w)
      <4>1. state' = "TERMINATE" /\ ~bad'
        BY <1>7, <2>2, <3>1, <3>3 DEF Failed
      <4>2. QED
        BY <1>2, <1>8, <3>1, <4>1 DEF StoringInv
    <3>4. QED
      BY <3>2, <3>3
  <2>3. CASE w.valid /\ ~w.last
    <3>1. pkt' = Current /\ beats' = beats + 1 /\ beats' # 0
      BY <1>2, <1>3, <2>3, WireStep
    <3>2. Current' = Current
      BY <3>1 DEF Current
    <3>3. CASE counter = MTU
      <4>1. joined
        BY <1>2, <3>3
      <4>2. state' = "DISCARD_REMAINING" /\ counter' = MTU
        BY <1>5, <1>7, <2>3, <3>3
      <4>3. QED
        BY <1>2, <1>8, <3>2, <4>1, <4>2 DEF StoringInv
    <3>4. CASE counter # MTU
      <4>1. state' = "WRITE" /\ counter' = counter + 4
        BY <1>5, <1>7, <2>3, <3>4, WordFields
      <4>2. ~joined' => counter' % 4 = 0
        BY <1>2, <1>8, <4>1
      <4>3. QED
        BY <1>2, <1>6, <1>8, <3>1, <3>2, <4>1, <4>2 DEF StoringInv
    <3>5. QED
      BY <3>3, <3>4
  <2>4. QED
    BY <2>1, <2>2, <2>3
<1>12. QED
  BY <1>1, <1>9, <1>10, <1>11 DEF WriterInv

LEMMA DiscardStep ==
    ASSUME WriterInv, NEW w \in Words, NEW clear \in BOOLEAN, Discard(w, clear)
    PROVE  WriterInv'
<1>1. stat' \in Seq(Entries) /\ Len(stat') <= NSlots /\ AnnouncedIsGood'
  BY EntriesStep DEF Discard
<1>2. /\ TypeOK /\ beats = 0 /\ state' = "IDLE" /\ counter' = 0
      /\ Transfer(w) /\ UNCHANGED << slot, errors, stamp, mem >>
  BY DEF WriterInv, StoringInv, Discard
<1>3. /\ pkt' \in Packets /\ beats' \in 0 .. MaxBeats /\ bad' \in BOOLEAN
      /\ joined' \in BOOLEAN /\ beats' = 0
  BY <1>2, WireStep DEF Discard
<1>4. TypeOK'
  BY <1>1, <1>2, <1>3 DEF TypeOK, States
<1>5. StoringInv' /\ StoredIsAnnounced'
  BY <1>2, <1>3 DEF StoringInv, StoredIsAnnounced
<1>6. QED
  BY <1>1, <1>4, <1>5 DEF WriterInv

LEMMA DiscardRemainingStep ==
    ASSUME WriterInv, NEW w \in Words, NEW clear \in BOOLEAN, DiscardRemaining(w, clear)
    PROVE  WriterInv'
<1>1. stat' \in Seq(Entries) /\ Len(stat') <= NSlots /\ AnnouncedIsGood'
  BY EntriesStep DEF DiscardRemaining
<1>2. /\ TypeOK /\ Transfer(w) /\ stat' = Popped(clear) /\ beats \in Nat
      /\ UNCHANGED << counter, slot, errors, stamp, mem >>
      /\ state = "DISCARD_REMAINING"
      /\ state' = IF w.valid /\ w.last THEN "TERMINATE" ELSE "DISCARD_REMAINING"
  BY DEF WriterInv, DiscardRemaining, TypeOK
<1>3. /\ counter # 0 => joined /\ counter = MTU /\ Current = PacketOfStamp
      /\ counter # 0 => Len(stat) < NSlots
  BY <1>2 DEF WriterInv, StoringInv, StoredIsAnnounced
<1>4. /\ pkt' \in Packets /\ beats' \in 0 .. MaxBeats /\ bad' \in BOOLEAN
      /\ joined' = joined /\ joined' \in BOOLEAN
  BY <1>2, WireStep
<1>5. TypeOK'
  BY <1>1, <1>2, <1>4 DEF TypeOK, States
<1>6. StoredIsAnnounced'
  BY <1>2, <1>3, RoomKept DEF StoredIsAnnounced
<1>7. PacketOfStamp' = PacketOfStamp
  BY <1>2, <1>4 DEF PacketOfStamp
<1>8. StoringInv'
  <2>1. CASE w.valid /\ w.last
    <3>1. state' = "TERMINATE" /\ pkt' = Current /\ beats' = 0
      BY <1>2, <2>1, WireStep
    <3>2. QED
      BY <1>2, <1>3, <1>4, <1>7, <3>1 DEF StoringInv
  <2>2. CASE w.valid /\ ~w.last
    <3>1. state' = "DISCARD_REMAINING" /\ pkt' = Current /\ beats' # 0
      BY <1>2, <2>2, WireStep
    <3>2. Current' = Current
      BY <3>1 DEF Current
    <3>3. QED
      BY <1>2, <1>3, <1>4, <1>7, <3>1, <3>2 DEF StoringInv
  <2>3. CASE ~w.valid
    <3>1. state' = "DISCARD_REMAINING" /\ pkt' = pkt /\ beats' = beats
      BY <1>2, <2>3, WireStep
    <3>2. Current' = Current
      BY <3>1 DEF Current
    <3>3. QED
      BY <1>2, <1>3, <1>4, <1>7, <3>1, <3>2 DEF StoringInv
  <2>4. QED
    BY <2>1, <2>2, <2>3
<1>9. QED
  BY <1>1, <1>5, <1>6, <1>8 DEF WriterInv

LEMMA TerminateStep ==
    ASSUME WriterInv, NEW w \in Words, NEW clear \in BOOLEAN, Terminate(w, clear)
    PROVE  WriterInv'
<1>1. stat' \in Seq(Entries) /\ Len(stat') <= NSlots /\ AnnouncedIsGood'
  BY EntriesStep DEF Terminate
<1>2. /\ TypeOK /\ beats = 0 /\ state' = "IDLE" /\ counter' = 0 /\ slot' = NextSlot
      /\ Transfer(w) /\ UNCHANGED << errors, stamp, mem >>
  BY DEF WriterInv, StoringInv, Terminate
<1>3. /\ pkt' \in Packets /\ beats' \in 0 .. MaxBeats /\ bad' \in BOOLEAN
      /\ joined' \in BOOLEAN /\ beats' = 0
  BY <1>2, WireStep DEF Terminate
<1>4. TypeOK'
  BY <1>1, <1>2, <1>3, RingFacts DEF TypeOK, States
<1>5. StoringInv' /\ StoredIsAnnounced'
  BY <1>2, <1>3 DEF StoringInv, StoredIsAnnounced
<1>6. QED
  BY <1>1, <1>4, <1>5 DEF WriterInv

-----------------------------------------------------------------------------
(* The ring's invariant, one action at a time. *)

\* Every entry is for the slot its distance says, with its packet in it.
InRing == \A i \in 1 .. Len(stat) :
            /\ stat[i].slot = Behind(Len(stat) + 1 - i)
            /\ stat[i].joined \/ Stored(mem, stat[i].slot, stat[i].length, stat[i].pkt)

LEMMA InRingDef ==
    RingInv <=> (errors = 0 =>
                    /\ state \in {"DISCARD_REMAINING", "TERMINATE"} => counter # 0
                    /\ InRing
                    /\ state \in {"WRITE", "TERMINATE"} => joined \/ Stored(mem, slot, counter, pkt))
  BY DEF RingInv, InRing

\* A cycle that only pops, and writes only while the FIFO has room.
LEMMA PoppingKeepsRing ==
    ASSUME TypeOK, Ring, InRing, NEW clear \in BOOLEAN, stat' = Popped(clear), slot' = slot,
           mem' = mem \/ (StoreWord /\ Len(stat) < NSlots)
    PROVE  InRing'
<1>1. /\ stat \in Seq(Entries) /\ Len(stat) \in Nat /\ NSlots \in Nat
      /\ \A j \in 1 .. Len(stat) : stat[j] \in Entries
  BY LenProperties, ElementOfSeq, WriterAssumption DEF TypeOK
<1>2. \A k : Behind(k)' = Behind(k)
  BY DEF Behind
<1>3. ASSUME NEW i \in 1 .. Len(stat')
      PROVE  /\ (stat[i].slot = Behind(Len(stat) + 1 - i))'
             /\ stat'[i].joined \/ Stored(mem', stat'[i].slot, stat'[i].length, stat'[i].pkt)
  <2>1. PICK j \in 1 .. Len(stat) :
            stat'[i] = stat[j] /\ Len(stat') + 1 - i = Len(stat) + 1 - j
    BY <1>1, <1>3, PoppedKeepsDistance
  <2>2. /\ stat[j].slot = Behind(Len(stat) + 1 - j)
        /\ stat[j].joined \/ Stored(mem, stat[j].slot, stat[j].length, stat[j].pkt)
    BY DEF InRing
  <2>3. stat[j].length \in Nat
    BY <1>1 DEF Entries
  <2>4. CASE mem' = mem
    BY <1>2, <2>1, <2>2, <2>4
  <2>5. CASE StoreWord /\ Len(stat) < NSlots
    <3>1. Len(stat) + 1 - j \in 1 .. NSlots - 1
      BY <1>1, <2>5
    <3>2. stat[j].slot \in 0 .. NSlots - 1 /\ stat[j].slot # slot
      BY <2>2, <3>1, BehindIsOther
    <3>3. stat[j].joined \/ Stored(mem', stat[j].slot, stat[j].length, stat[j].pkt)
      BY <2>2, <2>3, <2>5, <3>2, OthersKept
    <3>4. QED
      BY <1>2, <2>1, <2>2, <3>3
  <2>6. QED
    BY <2>4, <2>5
<1>4. QED
  BY <1>3 DEF InRing

LEMMA IdleRing ==
    ASSUME WriterInv, Ring, RingInv, NEW w \in Words, NEW clear \in BOOLEAN, Idle(w, clear)
    PROVE  RingInv'
<1> SUFFICES ASSUME errors' = 0
             PROVE  /\ state' \in {"DISCARD_REMAINING", "TERMINATE"} => counter' # 0
                    /\ InRing'
                    /\ state' \in {"WRITE", "TERMINATE"} =>
                          joined' \/ Stored(mem', slot', counter', pkt')
  BY InRingDef DEF RingInv, InRing
<1>1. /\ TypeOK /\ state = "IDLE" /\ counter = 0 /\ beats = 0 /\ errors \in Nat
      /\ Transfer(w) /\ slot' = slot /\ stat' = Popped(clear)
  BY WriterAssumption DEF WriterInv, StoringInv, TypeOK, Idle
<1>2. CASE ~w.valid
  <2>1. UNCHANGED << state, counter, errors, mem >>
    BY <1>1, <1>2 DEF Idle
  <2>2. InRing
    BY <2>1, InRingDef
  <2>3. QED
    BY <1>1, <2>1, <2>2, PoppingKeepsRing
<1>3. CASE w.valid
  <2>1. StatReady
    BY <1>1, <1>3 DEF Idle
  <2>2. /\ state' = "WRITE" /\ counter' = counter + w.inc /\ StoreWord /\ errors' = errors
    BY <1>1, <1>3, <2>1 DEF Idle
  <2>3. InRing
    BY <2>2, InRingDef
  <2>4. InRing'
    BY <1>1, <2>1, <2>2, <2>3, PoppingKeepsRing DEF StatReady
  <2>5. pkt' = Current
    BY <1>1, <1>3, WireStep
  <2>6. Stored(mem', slot, counter + w.inc, Current)
    BY <1>1, <2>2, WordAdded, WordFields
  <2>7. QED
    BY <1>1, <2>2, <2>4, <2>5, <2>6
<1>4. QED
  BY <1>2, <1>3

LEMMA WriteRing ==
    ASSUME WriterInv, Ring, RingInv, NEW w \in Words, NEW clear \in BOOLEAN, Write(w, clear)
    PROVE  RingInv'
<1> SUFFICES ASSUME errors' = 0
             PROVE  /\ state' \in {"DISCARD_REMAINING", "TERMINATE"} => counter' # 0
                    /\ InRing'
                    /\ state' \in {"WRITE", "TERMINATE"} =>
                          joined' \/ Stored(mem', slot', counter', pkt')
  BY InRingDef DEF RingInv, InRing
<1>1. /\ TypeOK /\ state = "WRITE" /\ counter \in Nat /\ counter # 0 /\ Len(stat) < NSlots
      /\ ~joined => counter % 4 = 0 /\ beats # 0 /\ counter # MTU
  BY WriterAssumption DEF WriterInv, StoringInv, StoredIsAnnounced, Write, TypeOK
<1>2. /\ Transfer(w) /\ slot' = slot /\ errors' = errors /\ stat' = Popped(clear)
      /\ joined' = joined
  BY <1>1, WireStep DEF Write
<1>3. InRing /\ (joined \/ Stored(mem, slot, counter, pkt))
  BY <1>1, <1>2, InRingDef
<1>4. IF w.valid /\ counter # MTU THEN StoreWord /\ counter' = counter + w.inc
                                 ELSE mem' = mem /\ counter' = counter
  BY <1>1 DEF Write
<1>5. InRing'
  BY <1>1, <1>2, <1>3, <1>4, PoppingKeepsRing
<1>6. counter' # 0
  BY <1>1, <1>4, WordFields
<1>7. CASE joined
  BY <1>2, <1>5, <1>6, <1>7
<1>8. CASE ~joined
  <2>1. Current = pkt /\ pkt' = pkt /\ Stored(mem, slot, counter, pkt)
    BY <1>1, <1>2, <1>3, <1>8 DEF Transfer, Current
  <2>2. CASE w.valid
    <3>1. Stored(mem', slot, counter + w.inc, Current)
      BY <1>1, <1>4, <1>8, <2>1, <2>2, WordAdded, WordFields
    <3>2. QED
      BY <1>1, <1>2, <1>4, <1>5, <1>6, <1>8, <2>1, <2>2, <3>1
  <2>3. CASE ~w.valid
    BY <1>2, <1>4, <1>5, <1>6, <2>1, <2>3
  <2>4. QED
    BY <2>2, <2>3
<1>9. QED
  BY <1>7, <1>8

LEMMA TerminateRing ==
    ASSUME WriterInv, Ring, RingInv, NEW w \in Words, NEW clear \in BOOLEAN, Terminate(w, clear)
    PROVE  RingInv'
<1> SUFFICES ASSUME errors' = 0
             PROVE  state' = "IDLE" /\ InRing'
  BY InRingDef DEF RingInv, InRing
<1>1. /\ TypeOK /\ state = "TERMINATE" /\ state' = "IDLE" /\ errors' = errors
      /\ slot' = NextSlot /\ mem' = mem
  BY DEF WriterInv, Terminate
<1>2. counter # 0 /\ InRing /\ (joined \/ Stored(mem, slot, counter, pkt))
  BY <1>1, InRingDef
<1>3. /\ stat \in Seq(Entries) /\ Len(stat) \in Nat /\ NSlots \in Nat /\ NSlots > 1
      /\ Len(stat) < NSlots /\ Entry \in Entries
  BY <1>1, <1>2, RingFacts, LenProperties, WriterAssumption
     DEF TypeOK, WriterInv, StoredIsAnnounced, Ring
<1> DEFINE rest == Popped(clear)
<1>4. stat' = Append(rest, Entry)
  BY <1>3 DEF Terminate, StatReady
<1>5. /\ rest \in Seq(Entries) /\ Len(rest) \in Nat
      /\ \A i \in 1 .. Len(rest) : \E j \in 1 .. Len(stat) :
            rest[i] = stat[j] /\ Len(rest) + 1 - i = Len(stat) + 1 - j
  BY <1>3, PoppedFacts, PoppedKeepsDistance
<1> HIDE DEF rest
<1>6. /\ Len(stat') = Len(rest) + 1 /\ stat'[Len(rest) + 1] = Entry
      /\ \A i \in 1 .. Len(rest) : stat'[i] = rest[i]
  BY <1>3, <1>4, <1>5, AppendProperties
<1>7. ASSUME NEW i \in 1 .. Len(stat')
      PROVE  /\ (stat[i].slot = Behind(Len(stat) + 1 - i))'
             /\ stat'[i].joined \/ Stored(mem', stat'[i].slot, stat'[i].length, stat'[i].pkt)
  <2>1. CASE i = Len(rest) + 1
    <3>1. stat'[i] = Entry /\ Len(stat') + 1 - i = 1
      BY <1>5, <1>6, <2>1
    <3>2. Entry.slot = slot /\ Entry.length = counter /\ Entry.pkt = pkt /\ Entry.joined = joined
      BY DEF Entry
    <3>3. Behind(0) = slot
      BY <1>1, RingSlots DEF Behind
    <3>4. PICK k \in 0 .. NSlots - 1 : k = 0
      BY <1>3
    <3>5. Behind(k + 1)' = Behind(k)
      BY <1>1, BehindMoves
    <3>6. Behind(1)' = slot
      BY <3>3, <3>4, <3>5 DEF Behind
    <3>7. (stat[i].slot = Behind(Len(stat) + 1 - i))'
      BY <3>1, <3>2, <3>6 DEF Behind
    <3>8. QED
      BY <1>1, <1>2, <3>1, <3>2, <3>7
  <2>2. CASE i # Len(rest) + 1
    <3>1. i \in 1 .. Len(rest) /\ Len(rest) \in Nat
      BY <1>5, <1>6, <2>2
    <3>2. PICK j \in 1 .. Len(stat) :
              rest[i] = stat[j] /\ Len(rest) + 1 - i = Len(stat) + 1 - j
      BY <1>5, <3>1
    <3>a. Len(stat) + 1 - j \in 0 .. NSlots - 1 /\ Len(stat') + 1 - i = (Len(stat) + 1 - j) + 1
      BY <1>3, <1>6, <3>1, <3>2
    <3>3. PICK k \in 0 .. NSlots - 1 : k = Len(stat) + 1 - j /\ Len(stat') + 1 - i = k + 1
      BY <3>a
    <3>4. /\ stat[j].slot = Behind(k)
          /\ stat[j].joined \/ Stored(mem, stat[j].slot, stat[j].length, stat[j].pkt)
      BY <1>2, <3>3 DEF InRing
    <3>5. Behind(k + 1)' = Behind(k)
      BY <1>1, <3>3, BehindMoves
    <3>6. stat'[i] = stat[j]
      BY <1>6, <3>1, <3>2
    <3>7. (stat[i].slot = Behind(Len(stat) + 1 - i))'
      BY <3>3, <3>4, <3>5, <3>6 DEF Behind
    <3>8. QED
      BY <1>1, <3>4, <3>6, <3>7
  <2>3. QED
    BY <2>1, <2>2
<1>8. QED
  BY <1>1, <1>7 DEF InRing

\* DISCARD writes the slot again, and DISCARD_REMAINING writes nothing.
LEMMA DiscardRing ==
    ASSUME WriterInv, Ring, RingInv, NEW w \in Words, NEW clear \in BOOLEAN,
           Discard(w, clear) \/ DiscardRemaining(w, clear)
    PROVE  RingInv'
<1> SUFFICES ASSUME errors' = 0
             PROVE  /\ state' \in {"DISCARD_REMAINING", "TERMINATE"} => counter' # 0
                    /\ InRing'
                    /\ state' \in {"WRITE", "TERMINATE"} =>
                          joined' \/ Stored(mem', slot', counter', pkt')
  BY InRingDef DEF RingInv, InRing
<1>1. TypeOK /\ UNCHANGED << errors, slot, mem >> /\ stat' = Popped(clear)
  BY DEF WriterInv, Discard, DiscardRemaining
<1>2. InRing'
  BY <1>1, InRingDef, PoppingKeepsRing
<1>3. CASE Discard(w, clear)
  BY <1>2, <1>3 DEF Discard
<1>4. CASE DiscardRemaining(w, clear)
  <2>1. /\ state = "DISCARD_REMAINING" /\ counter' = counter /\ Transfer(w)
        /\ state' \in {"DISCARD_REMAINING", "TERMINATE"}
    BY <1>4 DEF DiscardRemaining
  <2>2. counter # 0
    BY <1>1, <2>1, InRingDef
  <2>3. joined' = joined /\ joined
    BY <1>1, <2>1, <2>2, WireStep DEF WriterInv, StoringInv
  <2>4. QED
    BY <1>2, <2>1, <2>2, <2>3
<1>5. QED
  BY <1>3, <1>4

LEMMA RingPreserved ==
    ASSUME Ring, WriterInv, RingInv, [Next]_vars
    PROVE  RingInv'
<1>1. CASE Next
  <2>1. PICK w \in Words, clear \in BOOLEAN :
            \/ Idle(w, clear) \/ Write(w, clear) \/ Discard(w, clear)
            \/ DiscardRemaining(w, clear) \/ Terminate(w, clear)
    BY <1>1 DEF Next
  <2>2. QED
    BY <2>1, IdleRing, WriteRing, DiscardRing, TerminateRing
<1>2. CASE UNCHANGED vars
  BY <1>2 DEF vars, RingInv, Behind, Stored
<1>3. QED
  BY <1>1, <1>2

-----------------------------------------------------------------------------
(* The theorems. *)

LEMMA InitHolds == Init => WriterInv
<1> SUFFICES ASSUME Init PROVE WriterInv
  OBVIOUS
<1> USE WriterAssumption DEF Init
<1>1. stat \in Seq(Entries) /\ Len(stat) = 0
  BY EmptySeq
<1>2. TypeOK
  <2>1. 0 \in Slots /\ 0 \in Packets
    BY DEF Slots, SlotValues, Packets
  <2>2. mem \in [0 .. NSlots - 1 -> [0 .. Depth - 1 -> Packets]]
    BY <2>1
  <2>3. /\ state \in States /\ errors \in 0 .. MaxErrors /\ beats \in 0 .. MaxBeats
        /\ counter \in Nat /\ Len(stat) <= NSlots
    BY <1>1 DEF States
  <2>4. bad \in BOOLEAN /\ joined \in BOOLEAN
    BY Zenon
  <2>5. QED
    BY <1>1, <2>1, <2>2, <2>3, <2>4, Zenon DEF TypeOK
<1>3. StoringInv /\ StoredIsAnnounced /\ AnnouncedIsGood
  BY <1>1 DEF StoringInv, StoredIsAnnounced, AnnouncedIsGood, Announced
<1>4. QED
  BY <1>2, <1>3 DEF WriterInv

LEMMA Preserved ==
    ASSUME WriterInv, [Next]_vars
    PROVE  WriterInv'
<1>1. CASE Next
  <2>1. PICK w \in Words, clear \in BOOLEAN :
            \/ Idle(w, clear) \/ Write(w, clear) \/ Discard(w, clear)
            \/ DiscardRemaining(w, clear) \/ Terminate(w, clear)
    BY <1>1 DEF Next
  <2>2. QED
    BY <2>1, IdleStep, WriteStep, DiscardStep, DiscardRemainingStep, TerminateStep
<1>2. CASE UNCHANGED vars
  BY <1>2 DEF vars, WriterInv, TypeOK, StoringInv, StoredIsAnnounced, AnnouncedIsGood,
              Announced, Current, PacketOfStamp
<1>3. QED
  BY <1>1, <1>2

\* The writer's registers keep their meaning: the counter counts whole words while a
\* packet is stored, and meets eth_mtu (sram.py:95) behind a packet of one word only;
\* the status FIFO keeps the room seen in IDLE; and the latched timestamp is that of
\* the current packet, or of the packet of one word it is joined to.
THEOREM WriterSafe == Spec => []WriterInv
<1>1. Init => WriterInv
  BY InitHolds
<1>2. WriterInv /\ [Next]_vars => WriterInv'
  BY Preserved
<1>3. QED
  BY <1>1, <1>2, PTL DEF Spec

\* Type correctness: the FIFO never holds more than nslots entries, the slot
\* register stays in the ring, and no write leaves the memories.
THEOREM WriterTypeCorrect == Spec => []TypeOK
<1>1. WriterInv => TypeOK
  BY DEF WriterInv
<1>2. QED
  BY <1>1, WriterSafe, PTL

\* What was begun with room in the status FIFO is announced: TERMINATE
\* (sram.py:124-129) pushes without looking at sink.ready, and need not.
THEOREM StoredPacketAnnounced == Spec => []StoredIsAnnounced
<1>1. WriterInv => StoredIsAnnounced
  BY DEF WriterInv
<1>2. QED
  BY <1>1, WriterSafe, PTL

\* An entry with a length is for the packet whose time it tells and without error
\* (sram.py:102-106, 138), and what IDLE (sram.py:80-92) makes of a packet of one word
\* reaches the packet right behind it and no further.
THEOREM AnnouncedPacketGood == Spec => []AnnouncedIsGood
<1>1. WriterInv => AnnouncedIsGood
  BY DEF WriterInv
<1>2. QED
  BY <1>1, WriterSafe, PTL

\* While no packet has met a full FIFO, what is announced and not yet released is in
\* its slot word for word: the ring (sram.py:107-129) never writes a slot that
\* software still reads, for any number of slots from two up and whatever comes in,
\* packets of one word and those joined to them included.
THEOREM AnnouncedIntact == ASSUME Ring PROVE Spec => []IntactBeforeOverrun
<1>1. Init => WriterInv /\ RingInv
  <2>1. Init => RingInv
    BY EmptySeq DEF Init, RingInv
  <2>2. QED
    BY <2>1, InitHolds
<1>2. WriterInv /\ RingInv /\ [Next]_vars => (WriterInv /\ RingInv)'
  BY Preserved, RingPreserved
<1>3. RingInv => IntactBeforeOverrun
  BY DEF RingInv, IntactBeforeOverrun, Intact, Announced, Stored, WordsOf
<1>4. QED
  BY <1>1, <1>2, <1>3, PTL DEF Spec
=============================================================================
