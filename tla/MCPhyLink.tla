------------------------------ MODULE MCPhyLink ------------------------------
(* What the link partner advertises in the run: full-duplex 1000BASE-X, and *)
(* SGMII at 10 Mb/s, 100 Mb/s and 1 Gb/s.                                  *)
EXTENDS PhyLink

Sgmii(s) == [sgmii |-> TRUE, full_duplex |-> FALSE, speed |-> s, up |-> TRUE, ack |-> FALSE]

MCAbilities == {[NoAbility EXCEPT !.full_duplex = TRUE], Sgmii(0), Sgmii(1), Sgmii(2)}
=============================================================================
