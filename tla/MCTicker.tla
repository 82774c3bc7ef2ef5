------------------------------ MODULE MCTicker ------------------------------
(***************************************************************************)
(* Two fills, perhaps at once, midnights, and an activation.               *)
(***************************************************************************)
EXTENDS Ticker

CONSTANTS f1, f2
=============================================================================
