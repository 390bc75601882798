------------------------------- MODULE MCMacRx -------------------------------
(* Bursts for model checking MacRx: two frames, and what is left of them. *)
EXTENDS MacRx

Short == [from |-> "hw", tag |-> 0, size |-> 1]
Long  == [from |-> "cpu", tag |-> 1, size |-> 3]
MCFrames == {Short, Long}

Bare(f) == Padded(f) \o Crc(Padded(f))
Damaged(s, i) == [s EXCEPT ![i] = Zero]

MCBursts ==
    {Framed(f) : f \in MCFrames}
    \cup {<< StartOfFrame >> \o Bare(Short)}              \* most of the preamble eaten
    \cup {Damaged(Framed(Long), PreambleLength + 1)}      \* a byte changed
    \cup {Damaged(Framed(Long), PreambleLength)}          \* no delimiter
    \cup {SubSeq(Framed(Short), 1, PreambleLength + 3)}   \* cut after a CRC's length
    \cup {SubSeq(Framed(Short), 1, PreambleLength + 2)}   \* cut before
    \cup {Preamble}                                       \* cut at the delimiter
    \cup {<< Zero, StartOfFrame, Zero, Zero, StartOfFrame, Zero >>}  \* noise

\* With a burst of a single byte behind the delimiter.
MCBurstsRunt == MCBursts \cup {SubSeq(Framed(Short), 1, PreambleLength + 1)}
=============================================================================
