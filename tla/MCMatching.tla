----------------------------- MODULE MCMatching -----------------------------
(***************************************************************************)
(* Three makers, two of one user, and two market orders.                   *)
(***************************************************************************)
EXTENDS Matching, TLC

CONSTANTS alice, bob, carol, m1, m2, m3, j1, j2

Asks(u, prices, bases) ==
  {[user |-> u, side |-> "SELL", price |-> p, base |-> b, quote |-> (b * p) \div Scale] :
     p \in prices, b \in bases}
Bids(u, prices, bases) == {[o EXCEPT !.side = "BUY"] : o \in Asks(u, prices, bases)}
Take(u, side, amounts) == {[user |-> u, side |-> side, amount |-> a] : a \in amounts}

\* quantity and quote_quantity are independent inputs (order.dto.ts:35-70).
Mismatched == [user |-> alice, side |-> "SELL", price |-> 2, base |-> 1, quote |-> 8]

MCMakerOrders ==
  [m \in Makers |->
     CASE m = m1 -> Asks(alice, {2, 3}, {2, 3})
       [] m = m2 -> Asks(bob, {3}, {3}) \union Bids(bob, {3}, {3})
       [] m = m3 -> Asks(alice, {5}, {2}) \union Bids(alice, {2}, {3})
                    \union {Mismatched}]
MCJobOrders ==
  [j \in Jobs |->
     CASE j = j1 -> Take(carol, "BUY", {1, 4, 9})
       [] j = j2 -> Take(alice, "SELL", {4}) \union Take(bob, "BUY", {3})
                    \union Take(bob, "SELL", {2})]
=============================================================================
