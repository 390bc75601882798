--------------------------- MODULE EtherboneServer ---------------------------
(***************************************************************************)
(* What the Etherbone bridge promises, whatever its FIFOs and FSMs do: the *)
(* bus accesses that records ask for are performed in the order asked for, *)
(* each once, and what each read returned is sent back in that order.      *)
(***************************************************************************)
EXTENDS Sequences

CONSTANTS Ops,        \* bus accesses: records with a field we
          Answer(_)   \* what is sent back for a read

VARIABLES todo,   \* asked for and not yet performed
          owed,   \* reads performed and not yet sent back
          bus,    \* the access that waits for the bus to acknowledge, if any
          reply   \* the answer that waits to be taken, if any

vars == << todo, owed, bus, reply >>

Init == todo = << >> /\ owed = << >> /\ bus = << >> /\ reply = << >>

\* Only the oldest access and the oldest answer are ever put out.
Outputs ==
    /\ bus' = << >> \/ (todo' # << >> /\ bus' = << Head(todo') >>)
    /\ reply' = << >> \/ (owed' # << >> /\ reply' = << Answer(Head(owed')) >>)

Ask(op) == todo' = Append(todo, op) /\ UNCHANGED owed

Perform ==
    /\ bus # << >>
    /\ todo' = Tail(todo)
    /\ owed' = IF bus[1].we THEN owed ELSE Append(owed, bus[1])

Send == reply # << >> /\ owed' = Tail(owed) /\ UNCHANGED todo

Step == Perform \/ Send \/ UNCHANGED << todo, owed >> \/ \E op \in Ops : Ask(op)
Next == Step /\ Outputs

Spec == Init /\ [][Next]_vars
=============================================================================
