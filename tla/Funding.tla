------------------------------ MODULE Funding ------------------------------
(***************************************************************************)
(* The funding side of the exchange: the API process that credits chain    *)
(* deposits (WalletDepositKafkaHandler), takes withdrawals to a chain      *)
(* through the external blockchain service (WithdrawService) and moves     *)
(* money between the wallets of a user (WalletService.transferFunds), all  *)
(* on the `balances` rows of one Postgres at READ COMMITTED.               *)
(*                                                                         *)
(* An account is one row of `balances` (a wallet and a token).  A database *)
(* transaction is a row lock, the reads made under it and one commit step  *)
(* that applies every write: nobody sees its writes earlier, and whoever   *)
(* wants the row waits for `holder`.  transferFunds reads its source row   *)
(* without a lock, so its commit may write back a value that is not the    *)
(* row's any more: `tainted` remembers the accounts that did not move by   *)
(* the amount of the transfer.                                             *)
(***************************************************************************)
EXTENDS Integers, FiniteSets, FiniteSetsExt

CONSTANTS
  Accounts,          \* rows of `balances`: a wallet and a token
  Keys,              \* idempotency keys of the deposits seen on chain
  Consumers,         \* deposit messages handled at the same time
  Withdrawals,       \* POST /withdraw requests
  Transfers,         \* POST /wallets/transfer requests
  DepositTo,         \* [Keys -> Accounts]: the FUNDING account of the depositor
  WithdrawFrom,      \* [Withdrawals -> Accounts]
  From, To,          \* [Transfers -> Accounts]
  Amount,            \* the amount each deposit, withdrawal or transfer names
  Opening,           \* [Accounts -> Nat]: balances, and their ledgers, at the start
  FeeMins,           \* values of feeMin the blockchain service may answer
  MaxFaults,         \* bound: process crashes and database errors in a run
  NoOne              \* no process

Procs == Consumers \union Withdrawals \union Transfers

ASSUME FundingAssumption ==
  /\ IsFiniteSet(Keys) /\ IsFiniteSet(Withdrawals) /\ IsFiniteSet(Transfers)
  /\ DepositTo \in [Keys -> Accounts]
  /\ WithdrawFrom \in [Withdrawals -> Accounts]
  /\ From \in [Transfers -> Accounts]
  /\ To \in [Transfers -> Accounts]
  /\ \A t \in Transfers : From[t] # To[t]      \* WalletTypeDifference (wallet.dto.ts)
  /\ Amount \in [Keys \union Withdrawals \union Transfers -> Nat]
  /\ Opening \in [Accounts -> Nat]
  /\ FeeMins \subseteq Nat
  /\ MaxFaults \in Nat
  /\ NoOne \notin Procs
  /\ NoOne \notin Keys
  /\ Consumers \intersect (Withdrawals \union Transfers) = {}
  /\ Withdrawals \intersect Transfers = {}

VARIABLES
  available,  \* [Accounts -> Int]: balances.available, committed
  rows,       \* the accounts whose row exists
  ledger,     \* [Accounts -> Int]: sum of the `ledgers` rows of the account, signed
              \* by their reason and direction (the delta column holds the amount)
  inbox,      \* chain_deposit_inbox: the keys of committed deposits
  status,     \* [Withdrawals -> Statuses]: transaction_history.status
  holder,     \* [Accounts -> Procs or NoOne]: who holds the row lock
  claimer,    \* [Keys -> Consumers or NoOne]: whose uncommitted inbox row it is
  job,        \* [Consumers -> Keys or NoOne]: the message being handled
  pc,         \* [Procs -> PcValues]: where each handler is
  snap,       \* [Withdrawals \union Transfers -> Int]: available as read
  snapTo,     \* [Transfers -> Int]: available of the target as read
  chain,      \* [Withdrawals -> ChainStates]: the blockchain service (external)
  told,       \* [Withdrawals -> Statuses]: last WITHDRAWAL_UPDATED emitted
  notices,    \* [Keys -> Nat]: deposit events emitted for the key
  faults,     \* crashes and database errors so far
  tainted,    \* history: accounts a transfer overwrote with a stale value
  disputed    \* history: withdrawals an error after the request went out sent
              \* to the compensation without an answer from the chain

db == <<available, rows, ledger, inbox, status>>
vars == <<available, rows, ledger, inbox, status, holder, claimer, job, pc,
          snap, snapTo, chain, told, notices, faults, tainted, disputed>>

Statuses == {"NONE", "PENDING", "BROADCASTED", "FAILED"}
ChainStates == {"unasked", "asked", "broadcast", "refused"}
PcValues == {"idle", "claim", "credit", "commit", "emit",
             "new", "checked", "debit", "ask", "waiting", "announce",
             "compensate", "refund", "selectTo", "saveFrom", "saveTo",
             "done", "rejected", "lost"}

\* A handler is running: it dies with the process.
Running(p) == pc[p] \notin {"idle", "new", "done", "rejected", "lost"}

Goto(p, label) == pc' = [pc EXCEPT ![p] = label]

\* The end of a transaction of p, committed or rolled back, frees its rows.
Released(p) == [a \in Accounts |-> IF holder[a] = p THEN NoOne ELSE holder[a]]
Unclaimed(c) == [k \in Keys |-> IF claimer[k] = c THEN NoOne ELSE claimer[k]]

Init ==
  /\ available = Opening
  /\ rows = {a \in Accounts : Opening[a] > 0}
  /\ ledger = Opening
  /\ inbox = {}
  /\ status = [w \in Withdrawals |-> "NONE"]
  /\ holder = [a \in Accounts |-> NoOne]
  /\ claimer = [k \in Keys |-> NoOne]
  /\ job = [c \in Consumers |-> NoOne]
  /\ pc = [p \in Procs |-> IF p \in Consumers THEN "idle" ELSE "new"]
  /\ snap = [p \in Withdrawals \union Transfers |-> 0]
  /\ snapTo = [t \in Transfers |-> 0]
  /\ chain = [w \in Withdrawals |-> "unasked"]
  /\ told = [w \in Withdrawals |-> "NONE"]
  /\ notices = [k \in Keys |-> 0]
  /\ faults = 0
  /\ tainted = {}
  /\ disputed = {}

(***************************************************************************)
(* Deposits: WalletDepositKafkaHandler.handle.                             *)
(***************************************************************************)

\* Kafka delivers a deposit message; it may deliver any message again.
Deliver(c, k) ==
  /\ pc[c] = "idle"
  /\ job' = [job EXCEPT ![c] = k]
  /\ Goto(c, "claim")
  /\ UNCHANGED <<db, holder, claimer, snap, snapTo, chain, told, notices,
                 faults, tainted, disputed>>

\* Mutant: a key already in the inbox is announced again.
ClaimAnnouncingAgain(c) ==
  LET k == job[c] IN
  /\ pc[c] = "claim"
  /\ claimer[k] = NoOne
  /\ \/ /\ k \in inbox
        /\ Goto(c, "emit")
        /\ UNCHANGED <<claimer, job>>
     \/ /\ k \notin inbox
        /\ Goto(c, "credit")
        /\ claimer' = [claimer EXCEPT ![k] = c]
        /\ UNCHANGED job
  /\ UNCHANGED <<db, holder, snap, snapTo, chain, told, notices, faults,
                 tainted, disputed>>

\* Mutant: the inbox is not consulted.
ClaimWithoutInbox(c) ==
  LET k == job[c] IN
  /\ pc[c] = "claim"
  /\ claimer[k] = NoOne
  /\ Goto(c, "credit")
  /\ claimer' = [claimer EXCEPT ![k] = c]
  /\ UNCHANGED <<db, holder, job, snap, snapTo, chain, told, notices, faults,
                 tainted, disputed>>

\* tryClaim: INSERT ... ON CONFLICT DO NOTHING waits for an uncommitted row
\* with the same key; a key already in the inbox ends the handler.
Claim(c) ==
  LET k == job[c] IN
  /\ pc[c] = "claim"
  /\ claimer[k] = NoOne
  /\ \/ /\ k \in inbox
        /\ Goto(c, "idle")
        /\ job' = [job EXCEPT ![c] = NoOne]
        /\ UNCHANGED claimer
     \/ /\ k \notin inbox
        /\ Goto(c, "credit")
        /\ claimer' = [claimer EXCEPT ![k] = c]
        /\ UNCHANGED job
  /\ UNCHANGED <<db, holder, snap, snapTo, chain, told, notices, faults,
                 tainted, disputed>>

\* depositTokenWithManager: the upsert takes the balance row.
Credit(c) ==
  LET a == DepositTo[job[c]] IN
  /\ pc[c] = "credit"
  /\ holder[a] = NoOne
  /\ holder' = [holder EXCEPT ![a] = c]
  /\ Goto(c, "commit")
  /\ UNCHANGED <<db, claimer, job, snap, snapTo, chain, told, notices, faults,
                 tainted, disputed>>

\* COMMIT of inbox row, available = available + value, ledger and history.
CommitDeposit(c) ==
  LET k == job[c]
      a == DepositTo[k]
  IN
  /\ pc[c] = "commit"
  /\ available' = [available EXCEPT ![a] = @ + Amount[k]]
  /\ rows' = rows \union {a}
  /\ ledger' = [ledger EXCEPT ![a] = @ + Amount[k]]
  /\ inbox' = inbox \union {k}
  /\ holder' = Released(c)
  /\ claimer' = Unclaimed(c)
  /\ Goto(c, "emit")
  /\ UNCHANGED <<status, job, snap, snapTo, chain, told, notices, faults,
                 tainted, disputed>>

\* The event is emitted only by the handler that claimed the key.
EmitDeposit(c) ==
  /\ pc[c] = "emit"
  /\ notices' = [notices EXCEPT ![job[c]] = @ + 1]
  /\ job' = [job EXCEPT ![c] = NoOne]
  /\ Goto(c, "idle")
  /\ UNCHANGED <<db, holder, claimer, snap, snapTo, chain, told, faults,
                 tainted, disputed>>

\* Mutant: the transaction that failed is left open.
DepositFailsClaiming(c) ==
  /\ pc[c] \in {"claim", "credit", "commit"}
  /\ faults < MaxFaults
  /\ faults' = faults + 1
  /\ holder' = Released(c)
  /\ UNCHANGED claimer
  /\ job' = [job EXCEPT ![c] = NoOne]
  /\ Goto(c, "idle")
  /\ UNCHANGED <<db, snap, snapTo, chain, told, notices, tainted, disputed>>

\* An error inside the transaction rolls it back; the controller rethrows.
DepositFails(c) ==
  /\ pc[c] \in {"claim", "credit", "commit"}
  /\ faults < MaxFaults
  /\ faults' = faults + 1
  /\ holder' = Released(c)
  /\ claimer' = Unclaimed(c)
  /\ job' = [job EXCEPT ![c] = NoOne]
  /\ Goto(c, "idle")
  /\ UNCHANGED <<db, snap, snapTo, chain, told, notices, tainted, disputed>>

(***************************************************************************)
(* Withdrawals: WithdrawService.createWithdraw.                            *)
(***************************************************************************)

\* feeTokenWithdraw is asked of the blockchain service, the amount compared.
QuoteFee(w) ==
  /\ pc[w] = "new"
  /\ \E feeMin \in FeeMins :
       Goto(w, IF Amount[w] < feeMin THEN "rejected" ELSE "checked")
  /\ UNCHANGED <<db, holder, claimer, job, snap, snapTo, chain, told, notices,
                 faults, tainted, disputed>>

\* Mutant: a read without FOR UPDATE.
ReadBalance(w) ==
  LET a == WithdrawFrom[w] IN
  /\ pc[w] = "checked"
  /\ \/ /\ a \notin rows
        /\ Goto(w, "rejected")
        /\ UNCHANGED <<holder, snap>>
     \/ /\ a \in rows
        /\ UNCHANGED holder
        /\ snap' = [snap EXCEPT ![w] = available[a]]
        /\ Goto(w, "debit")
  /\ UNCHANGED <<db, claimer, job, snapTo, chain, told, notices, faults,
                 tainted, disputed>>

\* SELECT ... FOR UPDATE of the balance; without a row: Balance not found.
LockBalance(w) ==
  LET a == WithdrawFrom[w] IN
  /\ pc[w] = "checked"
  /\ \/ /\ a \notin rows
        /\ Goto(w, "rejected")
        /\ UNCHANGED <<holder, snap>>
     \/ /\ a \in rows
        /\ holder[a] = NoOne
        /\ holder' = [holder EXCEPT ![a] = w]
        /\ snap' = [snap EXCEPT ![w] = available[a]]
        /\ Goto(w, "debit")
  /\ UNCHANGED <<db, claimer, job, snapTo, chain, told, notices, faults,
                 tainted, disputed>>

\* Mutant: the balance is not compared.
DebitUnchecked(w) ==
  LET a == WithdrawFrom[w] IN
  /\ pc[w] = "debit"
  /\ available' = [available EXCEPT ![a] = snap[w] - Amount[w]]
  /\ ledger' = [ledger EXCEPT ![a] = @ - Amount[w]]
  /\ status' = [status EXCEPT ![w] = "PENDING"]
  /\ holder' = Released(w)
  /\ Goto(w, "ask")
  /\ UNCHANGED <<rows, inbox, claimer, job, snap, snapTo, chain, told,
                 notices, faults, tainted, disputed>>

\* available - amount, the WITHDRAW ledger row and the PENDING history row.
Debit(w) ==
  LET a == WithdrawFrom[w] IN
  /\ pc[w] = "debit"
  /\ snap[w] >= Amount[w]
  /\ available' = [available EXCEPT ![a] = snap[w] - Amount[w]]
  /\ ledger' = [ledger EXCEPT ![a] = @ - Amount[w]]
  /\ status' = [status EXCEPT ![w] = "PENDING"]
  /\ holder' = Released(w)
  /\ Goto(w, "ask")
  /\ UNCHANGED <<rows, inbox, claimer, job, snap, snapTo, chain, told,
                 notices, faults, tainted, disputed>>

\* Mutant: the refusal does not end the request.
RefuseDebitGoingOn(w) ==
  /\ pc[w] = "debit"
  /\ holder' = Released(w)
  /\ Goto(w, "ask")
  /\ UNCHANGED <<db, claimer, job, snap, snapTo, chain, told, notices, faults,
                 tainted, disputed>>

\* Mutant: the transaction is not rolled back.
RefuseDebitLocking(w) ==
  /\ pc[w] = "debit"
  /\ UNCHANGED holder
  /\ Goto(w, "rejected")
  /\ UNCHANGED <<db, claimer, job, snap, snapTo, chain, told, notices, faults,
                 tainted, disputed>>

\* Too little available, or too few lots of a token other than USDT
\* (deductBalanceLotsAtomic throws): the transaction is rolled back.
RefuseDebit(w) ==
  /\ pc[w] = "debit"
  /\ holder' = Released(w)
  /\ Goto(w, "rejected")
  /\ UNCHANGED <<db, claimer, job, snap, snapTo, chain, told, notices, faults,
                 tainted, disputed>>

\* The request goes out over Kafka; the answer is awaited without a timeout.
AskChain(w) ==
  /\ pc[w] = "ask"
  /\ chain' = [chain EXCEPT ![w] = "asked"]
  /\ Goto(w, "waiting")
  /\ UNCHANGED <<db, holder, claimer, job, snap, snapTo, told, notices, faults,
                 tainted, disputed>>

\* The producer reports an error; the broker may have the request all the same.
AskFails(w) ==
  /\ pc[w] = "ask"
  /\ faults < MaxFaults
  /\ faults' = faults + 1
  /\ \E sent \in {"unasked", "asked"} : chain' = [chain EXCEPT ![w] = sent]
  /\ disputed' = disputed \union {w}
  /\ Goto(w, "compensate")
  /\ UNCHANGED <<db, holder, claimer, job, snap, snapTo, told, notices, tainted>>

\* External: the hot wallet broadcasts the transaction, or refuses.
ChainAnswers(w) ==
  /\ chain[w] = "asked"
  /\ \E answer \in {"broadcast", "refused"} :
       chain' = [chain EXCEPT ![w] = answer]
  /\ UNCHANGED <<db, holder, claimer, job, pc, snap, snapTo, told, notices,
                 faults, tainted, disputed>>

\* Mutant: a status outside TransactionHistoryStatus.
RecordSuccess(w) ==
  /\ pc[w] = "waiting"
  /\ chain[w] = "broadcast"
  /\ status' = [status EXCEPT ![w] = "SUCCESS"]
  /\ Goto(w, "announce")
  /\ UNCHANGED <<available, rows, ledger, inbox, holder, claimer, job, snap,
                 snapTo, chain, told, notices, faults, tainted, disputed>>

\* txHash arrived: BROADCASTED in a transaction of its own.
RecordBroadcast(w) ==
  /\ pc[w] = "waiting"
  /\ chain[w] = "broadcast"
  /\ status' = [status EXCEPT ![w] = "BROADCASTED"]
  /\ Goto(w, "announce")
  /\ UNCHANGED <<available, rows, ledger, inbox, holder, claimer, job, snap,
                 snapTo, chain, told, notices, faults, tainted, disputed>>

\* Mutant: no answer in time counts as a refusal.
ChainTimesOut(w) ==
  /\ pc[w] = "waiting"
  /\ chain[w] \in {"asked", "refused"}
  /\ Goto(w, "compensate")
  /\ UNCHANGED <<db, holder, claimer, job, snap, snapTo, chain, told, notices,
                 faults, tainted, disputed>>

\* Mutant: the catch block does not compensate.
ChainRefusalSwallowed(w) ==
  /\ pc[w] = "waiting"
  /\ chain[w] = "refused"
  /\ Goto(w, "done")
  /\ UNCHANGED <<db, holder, claimer, job, snap, snapTo, chain, told, notices,
                 faults, tainted, disputed>>

\* The service answered with an error: the catch block compensates.
ChainRefused(w) ==
  /\ pc[w] = "waiting"
  /\ chain[w] = "refused"
  /\ Goto(w, "compensate")
  /\ UNCHANGED <<db, holder, claimer, job, snap, snapTo, chain, told, notices,
                 faults, tainted, disputed>>

\* The same catch block covers the statements after the answer: the
\* transaction that records txHash, and the read of the row to announce.
FollowUpFails(w) ==
  /\ \/ pc[w] = "waiting" /\ chain[w] = "broadcast"
     \/ pc[w] = "announce" /\ status[w] = "BROADCASTED"
  /\ faults < MaxFaults
  /\ faults' = faults + 1
  /\ disputed' = disputed \union {w}
  /\ Goto(w, "compensate")
  /\ UNCHANGED <<db, holder, claimer, job, snap, snapTo, chain, told, notices,
                 tainted>>

\* compensateAfterChainFailure: SELECT ... FOR UPDATE.
LockRefund(w) ==
  LET a == WithdrawFrom[w] IN
  /\ pc[w] = "compensate"
  /\ holder[a] = NoOne
  /\ holder' = [holder EXCEPT ![a] = w]
  /\ snap' = [snap EXCEPT ![w] = available[a]]
  /\ Goto(w, "refund")
  /\ UNCHANGED <<db, claimer, job, snapTo, chain, told, notices, faults,
                 tainted, disputed>>

\* available + gross amount, the REFUND ledger row, FAILED.
Refund(w) ==
  LET a == WithdrawFrom[w] IN
  /\ pc[w] = "refund"
  /\ available' = [available EXCEPT ![a] = snap[w] + Amount[w]]
  /\ ledger' = [ledger EXCEPT ![a] = @ + Amount[w]]
  /\ status' = [status EXCEPT ![w] = "FAILED"]
  /\ holder' = Released(w)
  /\ Goto(w, "announce")
  /\ UNCHANGED <<rows, inbox, claimer, job, snap, snapTo, chain, told, notices,
                 faults, tainted, disputed>>

\* The compensation itself fails, or the row cannot be read to announce it:
\* the error goes to the client and nobody tries again.
HandlerLost(w) ==
  /\ \/ pc[w] \in {"compensate", "refund"}
     \/ pc[w] = "announce" /\ status[w] = "FAILED"
  /\ faults < MaxFaults
  /\ faults' = faults + 1
  /\ holder' = Released(w)
  /\ Goto(w, "lost")
  /\ UNCHANGED <<db, claimer, job, snap, snapTo, chain, told, notices, tainted,
                 disputed>>

\* Mutant: the status before the compensation is sent.
AnnounceBroadcast(w) ==
  /\ pc[w] = "announce"
  /\ told' = [told EXCEPT ![w] = "BROADCASTED"]
  /\ Goto(w, "done")
  /\ UNCHANGED <<db, holder, claimer, job, snap, snapTo, chain, notices, faults,
                 tainted, disputed>>

\* emitPayload with the status read back from transaction_history.
Announce(w) ==
  /\ pc[w] = "announce"
  /\ told' = [told EXCEPT ![w] = status[w]]
  /\ Goto(w, "done")
  /\ UNCHANGED <<db, holder, claimer, job, snap, snapTo, chain, notices, faults,
                 tainted, disputed>>

(***************************************************************************)
(* Transfers between wallets: WalletService.transferFunds.                 *)
(***************************************************************************)

\* findOne of the source row, without a lock.
ReadFrom(t) ==
  LET a == From[t] IN
  /\ pc[t] = "new"
  /\ \/ /\ a \in rows /\ available[a] >= Amount[t]
        /\ snap' = [snap EXCEPT ![t] = available[a]]
        /\ Goto(t, "selectTo")
     \/ /\ a \notin rows \/ available[a] < Amount[t]
        /\ Goto(t, "rejected")
        /\ UNCHANGED snap
  /\ UNCHANGED <<db, holder, claimer, job, snapTo, chain, told, notices, faults,
                 tainted, disputed>>

\* The target row FOR UPDATE, or none to lock: it will be inserted.
SelectTo(t) ==
  LET a == To[t] IN
  /\ pc[t] = "selectTo"
  /\ \/ /\ a \in rows
        /\ holder[a] = NoOne
        /\ holder' = [holder EXCEPT ![a] = t]
        /\ snapTo' = [snapTo EXCEPT ![t] = available[a]]
     \/ /\ a \notin rows
        /\ UNCHANGED <<holder, snapTo>>
  /\ Goto(t, "saveFrom")
  /\ UNCHANGED <<db, claimer, job, snap, chain, told, notices, faults, tainted,
                 disputed>>

\* save of the source row: TypeORM reads the row, and its UPDATE takes the
\* lock; when `available` is what is to be saved it is left out.
SaveFrom(t) ==
  LET a == From[t] IN
  /\ pc[t] = "saveFrom"
  /\ \/ /\ holder[a] = NoOne
        /\ holder' = [holder EXCEPT ![a] = t]
     \/ /\ available[a] = snap[t] - Amount[t]
        /\ UNCHANGED holder
  /\ Goto(t, "saveTo")
  /\ UNCHANGED <<db, claimer, job, snap, snapTo, chain, told, notices, faults,
                 tainted, disputed>>

\* Mutant: only the source gets a ledger row.
CommitTransferOneLeg(t) ==
  LET f == From[t]
      g == To[t]
      locked == holder[g] = t
  IN
  /\ pc[t] = "saveTo"
  /\ locked \/ (g \notin rows /\ holder[g] = NoOne)
  /\ available' = [available EXCEPT
                     ![f] = IF holder[f] = t THEN snap[t] - Amount[t] ELSE @,
                     ![g] = IF locked THEN snapTo[t] + Amount[t] ELSE Amount[t]]
  /\ rows' = rows \union {g}
  /\ ledger' = [ledger EXCEPT ![f] = @ - Amount[t]]
  /\ tainted' = IF available'[f] = available[f] - Amount[t]
                THEN tainted ELSE tainted \union {f}
  /\ holder' = Released(t)
  /\ Goto(t, "done")
  /\ UNCHANGED <<inbox, status, claimer, job, snap, snapTo, chain, told,
                 notices, faults, disputed>>

\* UPDATE (or INSERT) of the target row, the ledger row, COMMIT.  The source
\* gets the value computed from the unlocked read, or keeps the one it has.
CommitTransfer(t) ==
  LET f == From[t]
      g == To[t]
      locked == holder[g] = t
  IN
  /\ pc[t] = "saveTo"
  /\ locked \/ (g \notin rows /\ holder[g] = NoOne)
  /\ available' = [available EXCEPT
                     ![f] = IF holder[f] = t THEN snap[t] - Amount[t] ELSE @,
                     ![g] = IF locked THEN snapTo[t] + Amount[t] ELSE Amount[t]]
  /\ rows' = rows \union {g}
  /\ ledger' = [ledger EXCEPT ![f] = @ - Amount[t], ![g] = @ + Amount[t]]
  /\ tainted' = IF available'[f] = available[f] - Amount[t]
                THEN tainted ELSE tainted \union {f}
  /\ holder' = Released(t)
  /\ Goto(t, "done")
  /\ UNCHANGED <<inbox, status, claimer, job, snap, snapTo, chain, told,
                 notices, faults, disputed>>

\* The target row was inserted by somebody else since it was looked for:
\* the unique (token, wallet) index refuses the insert.
DuplicateRow(t) ==
  /\ pc[t] = "saveTo"
  /\ holder[To[t]] # t
  /\ To[t] \in rows
  /\ holder' = Released(t)
  /\ Goto(t, "rejected")
  /\ UNCHANGED <<db, claimer, job, snap, snapTo, chain, told, notices, faults,
                 tainted, disputed>>

\* Transfers that wait for each other's rows.
Deadlocked(C) ==
  \A q \in C : pc[q] = "saveFrom" /\ holder[From[q]] \in C

\* Postgres ends one transaction of a deadlock.
DeadlockVictim(t) ==
  /\ \E C \in SUBSET Transfers : t \in C /\ Deadlocked(C)
  /\ holder' = Released(t)
  /\ Goto(t, "rejected")
  /\ UNCHANGED <<db, claimer, job, snap, snapTo, chain, told, notices, faults,
                 tainted, disputed>>

\* Any other error in the transaction.
TransferFails(t) ==
  /\ pc[t] \in {"selectTo", "saveFrom", "saveTo"}
  /\ faults < MaxFaults
  /\ faults' = faults + 1
  /\ holder' = Released(t)
  /\ Goto(t, "rejected")
  /\ UNCHANGED <<db, claimer, job, snap, snapTo, chain, told, notices, tainted,
                 disputed>>

(***************************************************************************)
(* The API process dies: open transactions are rolled back, handlers are   *)
(* gone.  Kafka delivers the deposits again; nobody resumes a withdrawal.  *)
(***************************************************************************)
Crash ==
  /\ faults < MaxFaults
  /\ \E p \in Procs : Running(p)
  /\ faults' = faults + 1
  /\ holder' = [a \in Accounts |-> NoOne]
  /\ claimer' = [k \in Keys |-> NoOne]
  /\ job' = [c \in Consumers |-> NoOne]
  /\ pc' = [p \in Procs |-> IF ~Running(p) THEN pc[p]
                            ELSE IF p \in Consumers THEN "idle" ELSE "lost"]
  /\ UNCHANGED <<db, snap, snapTo, chain, told, notices, tainted, disputed>>

DepositStep(c) ==
  Claim(c) \/ Credit(c) \/ CommitDeposit(c) \/ EmitDeposit(c)

WithdrawStep(w) ==
  \/ QuoteFee(w) \/ LockBalance(w) \/ Debit(w) \/ RefuseDebit(w)
  \/ AskChain(w) \/ RecordBroadcast(w) \/ ChainRefused(w)
  \/ LockRefund(w) \/ Refund(w) \/ Announce(w)

TransferStep(t) ==
  \/ ReadFrom(t) \/ SelectTo(t) \/ SaveFrom(t) \/ CommitTransfer(t)
  \/ DuplicateRow(t) \/ DeadlockVictim(t)

Next ==
  \/ \E c \in Consumers, k \in Keys : Deliver(c, k)
  \/ \E c \in Consumers : DepositStep(c) \/ DepositFails(c)
  \/ \E w \in Withdrawals : \/ WithdrawStep(w)
                            \/ ChainAnswers(w)
                            \/ AskFails(w) \/ FollowUpFails(w) \/ HandlerLost(w)
  \/ \E t \in Transfers : TransferStep(t) \/ TransferFails(t)
  \/ Crash

Spec == Init /\ [][Next]_vars

(***************************************************************************)
(* Fairness.  A handler that runs keeps running (the Node event loop and   *)
(* Postgres' lock queues); Kafka delivers a message until it was handled;  *)
(* the blockchain service answers (the code has no timeout of its own).    *)
(* Arrivals, crashes and errors are not fair.                              *)
(***************************************************************************)
Fairness ==
  /\ \A c \in Consumers : WF_vars(DepositStep(c))
  /\ \A k \in Keys : SF_vars(\E c \in Consumers : Deliver(c, k))
  /\ \A w \in Withdrawals : /\ WF_vars(pc[w] # "new" /\ WithdrawStep(w))
                            /\ WF_vars(ChainAnswers(w))
  /\ \A t \in Transfers : WF_vars(pc[t] # "new" /\ TransferStep(t))

FairSpec == Spec /\ Fairness

(***************************************************************************)
(* Properties.                                                             *)
(***************************************************************************)

\* Every variable has its type.
TypeOK ==
  /\ available \in [Accounts -> Int]
  /\ rows \subseteq Accounts
  /\ ledger \in [Accounts -> Int]
  /\ inbox \subseteq Keys
  /\ status \in [Withdrawals -> Statuses]
  /\ holder \in [Accounts -> Procs \union {NoOne}]
  /\ claimer \in [Keys -> Consumers \union {NoOne}]
  /\ job \in [Consumers -> Keys \union {NoOne}]
  /\ pc \in [Procs -> PcValues]
  /\ snap \in [Withdrawals \union Transfers -> Int]
  /\ snapTo \in [Transfers -> Int]
  /\ chain \in [Withdrawals -> ChainStates]
  /\ told \in [Withdrawals -> Statuses]
  /\ notices \in [Keys -> Nat]
  /\ faults \in Nat
  /\ tainted \subseteq Accounts
  /\ disputed \subseteq Withdrawals

\* No interleaving of deposits, withdrawals, refunds and transfers, and no
\* crash, makes an available balance negative: each debit is checked against
\* the value it is computed from (withdraw.service.ts:111, wallet.service.ts:149).
NeverNegative == \A a \in Accounts : available[a] >= 0

\* The available balance of an account is the sum of its ledger rows, whatever
\* ran concurrently, unless a transfer wrote its source row back with a value
\* computed from a read that was out of date (wallet.service.ts:140-157).
BalanceMatchesLedger ==
  \A a \in Accounts \ tainted : available[a] = ledger[a]

\* A withdrawal is given back only when the chain refused it, or when an error
\* after the request was sent left the code without an answer to act on
\* (withdraw.service.ts:163-224).
RefundOnlyIfRefusedOrDisputed ==
  \A w \in Withdrawals :
    status[w] = "FAILED" => chain[w] = "refused" \/ w \in disputed

\* The hot wallet is asked only for money that was debited before, and a
\* request that ended knows the final state: broadcast and recorded, or given
\* back ("Tru so du CEX truoc, goi vi nong qua Kafka", withdraw.controller.ts:39).
DebitBeforeAsking ==
  \A w \in Withdrawals :
    /\ chain[w] # "unasked" => status[w] # "NONE"
    /\ pc[w] = "rejected" => status[w] = "NONE"
    /\ pc[w] = "done" => status[w] \in {"BROADCASTED", "FAILED"}
    /\ chain[w] = "refused" => status[w] # "BROADCASTED"

\* The last WITHDRAWAL_UPDATED the user got names the status in the database.
AnnouncedAsStored ==
  \A w \in Withdrawals : told[w] # "NONE" => told[w] = status[w]

\* However often Kafka delivers a deposit and wherever the process dies, the
\* user is told of it at most once, and never of one that is not credited.
NoticeAtMostOnce ==
  \A k \in Keys : notices[k] <= 1 /\ (notices[k] = 1 => k \in inbox)

\* Only the transfers that were committed.
Moved == {t \in Transfers : pc[t] = "done"}

\* What the requests that took effect move to an account, or from it.
CreditedTo(a) ==
  [k \in Keys |-> IF k \in inbox /\ DepositTo[k] = a THEN Amount[k] ELSE 0]
StandingOf(a) ==
  [w \in Withdrawals |->
     IF WithdrawFrom[w] = a /\ status[w] \in {"PENDING", "BROADCASTED"} THEN Amount[w] ELSE 0]
MovedTo(a) == [t \in Transfers |-> IF t \in Moved /\ To[t] = a THEN Amount[t] ELSE 0]
MovedFrom(a) == [t \in Transfers |-> IF t \in Moved /\ From[t] = a THEN Amount[t] ELSE 0]

\* The ledger of every account is explained by the deposits in the inbox, the
\* withdrawals that stand and the transfers that were carried out, each
\* counted once (deposit.service.ts:123-176, withdraw.service.ts:99-159).
LedgerExplained ==
  \A a \in Accounts :
    ledger[a] = Opening[a] + SumFunctionOnSet(CreditedTo(a), Keys)
                           - SumFunctionOnSet(StandingOf(a), Withdrawals)
                           + SumFunctionOnSet(MovedTo(a), Transfers)
                           - SumFunctionOnSet(MovedFrom(a), Transfers)

Promise == INSTANCE Settlement WITH credited <- inbox, moved <- Moved

\* The handlers, locks, redeliveries and crashes implement the settlement of
\* every request at most once, with its ledger (Settlement.tla).
ImplementsSettlement == Promise!Spec

\* A comment says the refund follows a failed on-chain withdrawal
\* (balance_lot.service.ts:185): a withdrawal that the chain has broadcast, and
\* that is stored as such, is not compensated.  The catch block also covers the
\* read that follows the broadcast (withdraw.service.ts:189).
RefundOnlyAfterChainFailure ==
  [][\A w \in Withdrawals : status[w] = "BROADCASTED" => status'[w] # "FAILED"]_vars

\* Every deposit seen on chain is credited in the end.
DepositsCredited == \A k \in Keys : <>(k \in inbox)

\* A PENDING withdrawal gets its final status unless its handler died with the
\* process or its compensation failed: nobody else looks for it.
PendingResolved ==
  \A w \in Withdrawals :
    status[w] = "PENDING" ~> (status[w] # "PENDING" \/ pc[w] = "lost")

\* A transfer that began ends, also when two of them wait for each other's rows.
TransfersEnd ==
  \A t \in Transfers : pc[t] = "selectTo" ~> pc[t] \in {"done", "rejected", "lost"}
=============================================================================
