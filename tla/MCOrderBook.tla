---------------------------- MODULE MCOrderBook -----------------------------
(***************************************************************************)
(* Two orders at one price and one at a worse price, a close request, two  *)
(* market orders of which one fills a maker in part.                       *)
(***************************************************************************)
EXTENDS OrderBook

CONSTANTS o1, o2, o3, c1, c2, j1, j2

MCPriceOf == [o \in Orders |-> IF o = o3 THEN 2 ELSE 1]
MCSize == [o \in Orders |-> 2]
MCWanted == [j \in Matchers |-> IF j = j1 THEN 3 ELSE 2]
=============================================================================
