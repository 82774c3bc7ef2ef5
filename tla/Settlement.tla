---------------------------- MODULE Settlement -----------------------------
(***************************************************************************)
(* What the funding side promises, without handlers, locks or messages:    *)
(* every chain deposit is credited once, every withdrawal is debited once  *)
(* when it opens and given back at most once when it fails, a transfer     *)
(* happens once, and the accounts' ledgers move by exactly those amounts.  *)
(***************************************************************************)
EXTENDS Integers

CONSTANTS Accounts, Keys, Withdrawals, Transfers,
          DepositTo, WithdrawFrom, From, To, Amount, Opening

VARIABLES
  ledger,    \* [Accounts -> Int]: what the account is owed
  credited,  \* the deposits that were credited
  status,    \* [Withdrawals -> {"NONE", "PENDING", "BROADCASTED", "FAILED"}]
  moved      \* the transfers that were carried out

vars == <<ledger, credited, status, moved>>

Init ==
  /\ ledger = Opening
  /\ credited = {}
  /\ status = [w \in Withdrawals |-> "NONE"]
  /\ moved = {}

CreditOnce(k) ==
  /\ k \notin credited
  /\ credited' = credited \union {k}
  /\ ledger' = [ledger EXCEPT ![DepositTo[k]] = @ + Amount[k]]
  /\ UNCHANGED <<status, moved>>

Open(w) ==
  /\ status[w] = "NONE"
  /\ status' = [status EXCEPT ![w] = "PENDING"]
  /\ ledger' = [ledger EXCEPT ![WithdrawFrom[w]] = @ - Amount[w]]
  /\ UNCHANGED <<credited, moved>>

Complete(w) ==
  /\ status[w] = "PENDING"
  /\ status' = [status EXCEPT ![w] = "BROADCASTED"]
  /\ UNCHANGED <<ledger, credited, moved>>

GiveBack(w) ==
  /\ status[w] \in {"PENDING", "BROADCASTED"}
  /\ status' = [status EXCEPT ![w] = "FAILED"]
  /\ ledger' = [ledger EXCEPT ![WithdrawFrom[w]] = @ + Amount[w]]
  /\ UNCHANGED <<credited, moved>>

Move(t) ==
  /\ t \notin moved
  /\ moved' = moved \union {t}
  /\ ledger' = [ledger EXCEPT ![From[t]] = @ - Amount[t], ![To[t]] = @ + Amount[t]]
  /\ UNCHANGED <<credited, status>>

Next ==
  \/ \E k \in Keys : CreditOnce(k)
  \/ \E w \in Withdrawals : Open(w) \/ Complete(w) \/ GiveBack(w)
  \/ \E t \in Transfers : Move(t)

Spec == Init /\ [][Next]_vars
=============================================================================
