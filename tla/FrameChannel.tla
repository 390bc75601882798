---------------------------- MODULE FrameChannel ----------------------------
(***************************************************************************)
(* What the transmit side of the MAC promises: every sender's frames go    *)
(* out whole, framed, one at a time and in the order they were handed in,  *)
(* whatever the order between senders.                                     *)
(***************************************************************************)
EXTENDS EthFrame

CONSTANTS Senders, Frames

VARIABLES
    owed,  \* by sender, the frames handed in and not yet sent
    sent   \* the frame that has just been sent, << >> between frames

Init == owed = [s \in Senders |-> << >>] /\ sent = << >>

\* Several senders may hand in a frame at the same moment.
HandIn ==
    /\ owed' \in [Senders -> Seq(Frames)]
    /\ \A s \in Senders : owed'[s] = owed[s] \/ \E f \in Frames : owed'[s] = Append(owed[s], f)
    /\ UNCHANGED sent

Send(s) ==
    /\ sent = << >> /\ owed[s] # << >>
    /\ sent' = Framed(Head(owed[s]))
    /\ owed' = [owed EXCEPT ![s] = Tail(@)]

Pause == sent # << >> /\ sent' = << >> /\ UNCHANGED owed

Next == HandIn \/ Pause \/ \E s \in Senders : Send(s)

Spec == Init /\ [][Next]_<< owed, sent >>
=============================================================================
