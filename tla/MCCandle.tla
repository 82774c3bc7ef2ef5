------------------------------ MODULE MCCandle ------------------------------
(***************************************************************************)
(* Two trades and one activation over three buckets (0 to 2); a candle     *)
(* ends one bucket too late; the worker dies once, or the cron job of      *)
(* another interval misses its own candle once.                            *)
(***************************************************************************)
EXTENDS Candle

CONSTANTS t1, t2

\* The trades play the same part.
Symmetry == Permutations(Trades)
=============================================================================
