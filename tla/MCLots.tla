------------------------------- MODULE MCLots -------------------------------
(***************************************************************************)
(* Lots of one to three units; a sale uses up a lot in two or three fills, *)
(* or takes two lots in one.                                               *)
(***************************************************************************)
EXTENDS Lots

MCSales == {<<1, 2>>, <<1, 1, 1>>, <<4>>}
MCBuys == {<<2>>, <<1, 1>>}
MCFirstLots == <<[wallet |-> "SPOT", quantity |-> 3], [wallet |-> "SPOT", quantity |-> 1],
                 [wallet |-> "FUNDING", quantity |-> 1], [wallet |-> "FUNDING", quantity |-> 2]>>
=============================================================================
