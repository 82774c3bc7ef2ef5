----------------------------- MODULE MCFunding -----------------------------
(***************************************************************************)
(* One user, one token, two wallets: the FUNDING and the SPOT account.     *)
(***************************************************************************)
EXTENDS Funding, TLC

CONSTANTS funding, spot, k1, k2, c1, c2, w1, w2, t1, t2, t3

MCDepositTo == [k \in Keys |-> funding]
MCWithdrawFrom == [w \in Withdrawals |-> funding]
MCFrom == [t \in Transfers |-> IF t = t3 THEN spot ELSE funding]
MCTo == [t \in Transfers |-> IF t = t3 THEN funding ELSE spot]
MCAmount == [p \in Keys \union Withdrawals \union Transfers |->
               CASE p = k1 -> 3 [] p = k2 -> 1 [] p \in Withdrawals -> 2
                 [] OTHER -> 1]
\* The SPOT row is not there: the first transfer inserts it.
MCOpening == [a \in Accounts |-> IF a = funding THEN 1 ELSE 0]
\* Both rows are there.
MCOpeningBoth == [a \in Accounts |-> 1]
MCFeeMins == {0, 5}
=============================================================================
