--------------------------- MODULE MCSpotExchange ---------------------------
(***************************************************************************)
(* Two orders out of a BUY and two SELL orders that together want more     *)
(* base than there is, a close request, a fill and a credit.               *)
(***************************************************************************)
EXTENDS SpotExchange

CONSTANTS o1, o2, o3, c1, f1

MCSideOf == [o \in Orders |-> IF o = o1 THEN "BUY" ELSE "SELL"]
MCSize == [o \in Orders |-> 2]
=============================================================================
