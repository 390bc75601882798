----------------------------- MODULE SramWriter -----------------------------
(***************************************************************************)
(* LiteEthMACSRAMWriter (liteeth/mac/sram.py): received packets are laid   *)
(* into a ring of memory slots and announced to software by a status FIFO. *)
(* One step is one cycle of the system clock.  The other actors are the    *)
(* wire, which cannot be held back (sink.ready is always 1), and software, *)
(* which pops the FIFO's head by clearing the available event.             *)
(***************************************************************************)
EXTENDS Integers, Sequences

CONSTANTS
    NSlots,     \* nslots
    MTU,        \* eth_mtu: bytes.  1530, which is no number of whole words
    Depth,      \* words in a slot's memory, eth_mtu//4
    AddrSize,   \* what a memory port's address reaches, 2**bits_for(Depth - 1)
    MaxBeats,   \* bound on the packets the wire brings, in words
    LastBytes,  \* the bytes a packet's last word may have
    MaxErrors,  \* bound on the packets that meet a full FIFO
    Ids         \* packets are numbered modulo Ids

ASSUME WriterAssumption ==
    /\ NSlots \in Nat \ {0} /\ Depth \in Nat \ {0}
    /\ MTU \in Nat /\ MTU % 4 # 0
    /\ AddrSize \in Nat /\ AddrSize >= Depth
    /\ MaxBeats \in Nat \ {0} /\ LastBytes \subseteq 1 .. 4
    /\ MaxErrors \in Nat /\ Ids \in Nat \ {0}

\* The slot register has max(log2_int(nslots), 1) bits.
SlotValues == IF NSlots = 1 THEN 2 ELSE NSlots
Slots == 0 .. SlotValues - 1

VARIABLES
    state, counter, slot, errors,
    stat,   \* the status FIFO
    stamp,  \* stat_fifo.sink.timestamp: the packet at whose start it was latched
    mem,    \* the packet each word of each slot belongs to
    pkt, beats, bad, \* the wire: last packet begun, its words so far, its error bit
    joined  \* history: IDLE was left at the last word of a packet, so that the next
            \* packet goes on where that one stopped

vars == << state, counter, slot, errors, stat, stamp, mem, pkt, beats, bad, joined >>

States == {"IDLE", "WRITE", "DISCARD", "DISCARD_REMAINING", "TERMINATE"}
Packets == 0 .. Ids - 1

\* What the FIFO carries; the last three say which packet it was pushed for.
Entries == [slot : Slots, length : Nat, stamp : Packets,
            pkt : Packets, bad : BOOLEAN, joined : BOOLEAN]

TypeOK ==
    /\ state \in States
    /\ counter \in Nat
    /\ slot \in Slots
    /\ errors \in 0 .. MaxErrors
    /\ stat \in Seq(Entries) /\ Len(stat) <= NSlots
    /\ stamp \in Packets
    /\ mem \in [0 .. NSlots - 1 -> [0 .. Depth - 1 -> Packets]]
    /\ pkt \in Packets /\ beats \in 0 .. MaxBeats /\ bad \in BOOLEAN
    /\ joined \in BOOLEAN

Init ==
    /\ state = "IDLE" /\ counter = 0 /\ slot = 0 /\ errors = 0
    /\ stat = << >> /\ stamp = 0
    /\ mem = [s \in 0 .. NSlots - 1 |-> [w \in 0 .. Depth - 1 |-> 0]]
    /\ pkt = 0 /\ beats = 0 /\ bad = FALSE /\ joined = FALSE

-----------------------------------------------------------------------------
(* The wire.  A packet's words come with or without pauses; the cycle after its
   last word is free, as the preamble, the CRC and the interpacket gap leave more.
   A packet may have one word: the CRC checker hands on a runt of five to eight
   bytes as one to four, with an error, and the padding checker passes all on. *)

\* inc: the bytes last_be marks in the last word, else 4.
Words == {w \in [valid : BOOLEAN, last : BOOLEAN, inc : 1 .. 4, error : BOOLEAN] :
            IF w.last THEN w.valid /\ w.inc \in LastBytes ELSE w.inc = 4 /\ ~w.error}

OnWire(w) ==
    w.valid => state \notin {"TERMINATE", "DISCARD"} /\ (w.last \/ beats + 1 < MaxBeats)

\* The packet a word on the wire belongs to.
Current == IF beats = 0 THEN (pkt + 1) % Ids ELSE pkt

Transfer(w) ==
    /\ OnWire(w)
    /\ IF w.valid
       THEN /\ pkt' = Current
            /\ beats' = IF w.last THEN 0 ELSE beats + 1
            /\ bad' = w.error
            /\ joined' = IF state = "IDLE" THEN w.last ELSE joined
       ELSE UNCHANGED << pkt, beats, bad, joined >>

-----------------------------------------------------------------------------
(* The memory port and the status FIFO. *)

\* Fault: one entry more than there are slots.
StatReadyOne == Len(stat) <= NSlots

StatReady == Len(stat) < NSlots

\* Fault: the ring has no end.
NextSlotNoWrap == slot + 1

\* Fault: the ring does not move on.
NextSlotSame == slot

NextSlot == (slot + 1) % SlotValues

\* Fault: the error bit is not looked at.
NeverFailed(w) == FALSE

\* error & last_be: the CRC checker marks the last byte.
Failed(w) == w.error

\* The address is the counter's word number, cut to the port's width.
StoreWord ==
    LET adr == (counter \div 4) % AddrSize
    IN  mem' = IF slot < NSlots /\ adr < Depth THEN [mem EXCEPT ![slot][adr] = Current] ELSE mem

\* Software's write of ev.pending pops the head, if there is one.
Popped(clear) == IF clear /\ stat # << >> THEN Tail(stat) ELSE stat

Entry == [slot |-> slot, length |-> counter, stamp |-> stamp,
          pkt |-> pkt, bad |-> bad, joined |-> joined]

-----------------------------------------------------------------------------
(* The FSM. *)

\* Neither last nor error is looked at: a packet of one word does not end here.
Idle(w, clear) ==
    /\ state = "IDLE"
    /\ IF ~w.valid
       THEN UNCHANGED << state, counter, errors, stamp, mem >>
       ELSE IF StatReady
       THEN /\ state' = "WRITE"
            /\ counter' = counter + w.inc
            /\ stamp' = Current
            /\ StoreWord
            /\ UNCHANGED errors
       ELSE /\ errors < MaxErrors
            /\ state' = "DISCARD_REMAINING"
            /\ errors' = errors + 1
            /\ UNCHANGED << counter, stamp, mem >>
    /\ Transfer(w)
    /\ stat' = Popped(clear)
    /\ UNCHANGED slot

Write(w, clear) ==
    /\ state = "WRITE"
    /\ IF w.valid /\ counter # MTU
       THEN StoreWord /\ counter' = counter + w.inc
       ELSE UNCHANGED << mem, counter >>
    /\ state' = IF w.valid /\ w.last THEN IF Failed(w) THEN "DISCARD" ELSE "TERMINATE"
                ELSE IF w.valid /\ counter = MTU THEN "DISCARD_REMAINING"
                ELSE "WRITE"
    /\ Transfer(w)
    /\ stat' = Popped(clear)
    /\ UNCHANGED << slot, errors, stamp >>

\* The packet had an error: its slot is written again.
Discard(w, clear) ==
    /\ state = "DISCARD"
    /\ state' = "IDLE" /\ counter' = 0
    /\ Transfer(w)
    /\ stat' = Popped(clear)
    /\ UNCHANGED << slot, errors, stamp, mem >>

DiscardRemaining(w, clear) ==
    /\ state = "DISCARD_REMAINING"
    /\ state' = IF w.valid /\ w.last THEN "TERMINATE" ELSE state
    /\ Transfer(w)
    /\ stat' = Popped(clear)
    /\ UNCHANGED << counter, slot, errors, stamp, mem >>

\* The ring moves on whether or not the FIFO takes the entry.
Terminate(w, clear) ==
    /\ state = "TERMINATE"
    /\ state' = "IDLE" /\ counter' = 0
    /\ slot' = NextSlot
    /\ stat' = IF StatReady THEN Append(Popped(clear), Entry) ELSE Popped(clear)
    /\ Transfer(w)
    /\ UNCHANGED << errors, stamp, mem >>

Next == \E w \in Words, clear \in BOOLEAN :
    \/ Idle(w, clear)
    \/ Write(w, clear)
    \/ Discard(w, clear)
    \/ DiscardRemaining(w, clear)
    \/ Terminate(w, clear)

Spec == Init /\ [][Next]_vars

-----------------------------------------------------------------------------
(* Properties. *)

Announced == {stat[i] : i \in 1 .. Len(stat)}
WordsOf(e) == (e.length + 3) \div 4

\* A packet announced to software and not yet released is in its slot, word for
\* word: nothing received later has been written over it, a packet of one word and
\* the one joined to it included.  (Two are not promised: a packet longer than the
\* slot, which the memory cuts, and one joined to a packet of one word, whose words
\* lie behind that one or over it.)
Intact == \A e \in Announced :
            ~e.joined /\ WordsOf(e) <= Depth =>
                \A k \in 0 .. WordsOf(e) - 1 : mem[e.slot][k] = e.pkt

\* ... as long as no packet has met a full FIFO.
IntactBeforeOverrun == errors = 0 => Intact

\* What is being received in a slot gets its entry: room seen at the first word is
\* still there at the end, whatever software does meanwhile.
StoredIsAnnounced == counter # 0 => Len(stat) < NSlots

\* What an entry with a length says of its packet.  It is stamped with the time of
\* the packet's own first word, unless a packet of one word came in IDLE just before:
\* then with that one's, never an older one's.  And it is for a packet without error,
\* unless the bytes of that one word made the count meet MTU and DISCARD_REMAINING
\* swallowed the end.  (The error of the packet of one word itself is never seen.)
AnnouncedIsGood == \A e \in Announced : e.length # 0 =>
    /\ e.pkt = IF e.joined THEN (e.stamp + 1) % Ids ELSE e.stamp
    /\ e.bad => e.joined /\ e.length = MTU

-----------------------------------------------------------------------------
(* Why they hold. *)

\* The packet an entry with the latched time is pushed for.
PacketOfStamp == IF joined THEN (stamp + 1) % Ids ELSE stamp

\* The counter of a packet being stored is a number of whole words until its last
\* one, so it never meets MTU, but for a joined packet; and the wire is inside the
\* packet whose time was latched, or in the one joined to it.
StoringInv ==
    /\ state \in {"IDLE", "DISCARD", "TERMINATE"} => beats = 0
    /\ state = "IDLE" => counter = 0
    /\ state = "WRITE" => counter # 0 /\ Current = PacketOfStamp
    /\ state = "WRITE" /\ ~joined => counter % 4 = 0 /\ beats # 0
    /\ state = "DISCARD_REMAINING" /\ counter # 0 =>
          joined /\ counter = MTU /\ Current = PacketOfStamp
    /\ state = "TERMINATE" /\ counter # 0 =>
          pkt = PacketOfStamp /\ (bad => joined /\ counter = MTU)

WriterInv == TypeOK /\ StoringInv /\ StoredIsAnnounced /\ AnnouncedIsGood

\* The slot k places behind in the ring.
Behind(k) == IF slot >= k THEN slot - k ELSE slot - k + NSlots

\* The words of a packet of that length are in its slot.
Stored(m, s, length, p) ==
    LET words == (length + 3) \div 4
    IN  words <= Depth => \A k \in 0 .. words - 1 : m[s][k] = p

\* Until a packet has met a full FIFO, the entries are for the slots just behind
\* the writer's, in the ring's order, so it never writes to one of them.
RingInv ==
    errors = 0 =>
        /\ state \in {"DISCARD_REMAINING", "TERMINATE"} => counter # 0
        /\ \A i \in 1 .. Len(stat) :
              /\ stat[i].slot = Behind(Len(stat) + 1 - i)
              /\ stat[i].joined \/ Stored(mem, stat[i].slot, stat[i].length, stat[i].pkt)
        /\ state \in {"WRITE", "TERMINATE"} => joined \/ Stored(mem, slot, counter, pkt)
=============================================================================
