---------------------------- MODULE WalletProof ----------------------------
(***************************************************************************)
(* Theorems about the wallets of a user: Funding, which moves balances,    *)
(* and Lots, which keeps what the tokens were bought for.  The two share   *)
(* no variable; each is proved from an inductive invariant of its own.     *)
(*                                                                         *)
(* Funding, for any number of accounts, deposits, consumers, withdrawals,  *)
(* transfers and faults: IInv says what each handler may rely on at each   *)
(* of its program points, that it holds the row it is about to write, that *)
(* the value it read under that lock is still the row's, and how far its   *)
(* request got in the database.                                            *)
(*                                                                         *)
(* Lots, for any first lots, fills, amounts, jobs and calls: LotsInv says  *)
(* what the lists of the engine hold, how far the books of its job are,    *)
(* and that the lots of a wallet are worth what it holds even when every   *)
(* copy of them that somebody still has is written back.                   *)
(***************************************************************************)
EXTENDS Funding, Lots, SumTheorems, SequenceTheorems

\* A handler of a deposit has its message; from the claim to the commit the
\* key is its own and not yet in the inbox; afterwards it is in the inbox.
DepositInv ==
  \A c \in Consumers :
    /\ pc[c] \in {"idle", "claim", "credit", "commit", "emit"}
    /\ pc[c] # "idle" => job[c] \in Keys
    /\ pc[c] \in {"credit", "commit"} => /\ claimer[job[c]] = c
                                         /\ job[c] \notin inbox
    /\ pc[c] = "commit" => holder[DepositTo[job[c]]] = c
    /\ pc[c] = "emit" => job[c] \in inbox /\ notices[job[c]] = 0
    /\ \A d \in Consumers :
         pc[c] = "emit" /\ pc[d] = "emit" /\ job[c] = job[d] => c = d

\* Nobody is told of a deposit before it is in the inbox, nor twice.
NoticeInv == \A k \in Keys : /\ k \notin inbox => notices[k] = 0
                             /\ notices[k] <= 1

\* Where a withdrawal handler is says what its history row and the chain are.
WithdrawOK(w) ==
  /\ pc[w] \in {"new", "checked", "debit", "ask", "waiting", "announce",
                "compensate", "refund", "done", "rejected", "lost"}
  /\ pc[w] \in {"debit", "refund"} =>
       holder[WithdrawFrom[w]] = w /\ snap[w] = available[WithdrawFrom[w]]
  /\ pc[w] \in {"new", "checked", "debit", "rejected"} =>
       status[w] = "NONE" /\ chain[w] = "unasked"
  /\ pc[w] = "ask" => status[w] = "PENDING" /\ chain[w] = "unasked"
  /\ pc[w] = "waiting" => status[w] = "PENDING"
  /\ pc[w] \in {"compensate", "refund"} =>
       /\ status[w] \in {"PENDING", "BROADCASTED"}
       /\ chain[w] = "refused" \/ w \in disputed
  /\ pc[w] \in {"announce", "done"} => status[w] \in {"BROADCASTED", "FAILED"}
  /\ pc[w] = "debit" \/ status[w] # "NONE" => WithdrawFrom[w] \in rows
  /\ status[w] = "NONE" => chain[w] = "unasked"
  /\ status[w] = "BROADCASTED" => chain[w] = "broadcast"
  /\ status[w] = "FAILED" => chain[w] = "refused" \/ w \in disputed
  /\ told[w] # "NONE" => told[w] = status[w] /\ pc[w] = "done"

WithdrawInv == \A w \in Withdrawals : WithdrawOK(w)

\* A transfer that holds its target row holds it since it read it, and the
\* source covered the amount when it was read.
TransferOK(t) ==
  /\ pc[t] \in {"new", "selectTo", "saveFrom", "saveTo",
                "done", "rejected", "lost"}
  /\ holder[To[t]] = t => /\ pc[t] \in {"saveFrom", "saveTo"}
                          /\ snapTo[t] = available[To[t]]
                          /\ To[t] \in rows
  /\ pc[t] \in {"selectTo", "saveFrom", "saveTo"} =>
       snap[t] >= Amount[t] /\ From[t] \in rows

TransferInv == \A t \in Transfers : TransferOK(t)

\* A row that is not there stands for zero.
RowInv == \A a \in Accounts \ rows : available[a] = 0

IInv ==
  /\ TypeOK
  /\ DepositInv
  /\ NoticeInv
  /\ WithdrawInv
  /\ TransferInv
  /\ RowInv
  /\ NeverNegative
  /\ BalanceMatchesLedger

\* What the constants give a withdrawal or a transfer.
LEMMA WithdrawTypes ==
  ASSUME NEW w \in Withdrawals
  PROVE  Amount[w] \in Nat /\ WithdrawFrom[w] \in Accounts
BY FundingAssumption

LEMMA TransferTypes ==
  ASSUME NEW t \in Transfers
  PROVE  /\ Amount[t] \in Nat
         /\ From[t] \in Accounts /\ To[t] \in Accounts /\ From[t] # To[t]
BY FundingAssumption

LEMMA DeliverKeeps ==
  ASSUME IInv, NEW c \in Consumers, NEW k \in Keys, Deliver(c, k)
  PROVE  IInv'
<1> USE FundingAssumption DEF IInv, Procs, TypeOK, Deliver, Goto, db
<1>1. TypeOK'
  BY DEF PcValues, Statuses, ChainStates
<1>2. DepositInv'
  BY DEF DepositInv
<1>3. NoticeInv'
  BY DEF NoticeInv
<1>4. WithdrawInv'
  BY DEF WithdrawInv, WithdrawOK
<1>5. TransferInv'
  BY DEF TransferInv, TransferOK
<1>6. RowInv'
  BY DEF RowInv
<1>7. NeverNegative'
  BY DEF NeverNegative
<1>8. BalanceMatchesLedger'
  BY DEF BalanceMatchesLedger
<1>9. QED
  BY <1>1, <1>2, <1>3, <1>4, <1>5, <1>6, <1>7, <1>8

LEMMA ClaimKeeps ==
  ASSUME IInv, NEW c \in Consumers, Claim(c)
  PROVE  IInv'
<1> USE FundingAssumption DEF IInv, Procs, TypeOK, Claim, Goto, db
<1>1. TypeOK'
  <2>1. c \in Procs /\ job[c] \in Keys
    BY DEF DepositInv
  <2>2. pc' \in [Procs -> PcValues]
    BY <2>1 DEF PcValues
  <2>3. /\ claimer' \in [Keys -> Consumers \union {NoOne}]
        /\ job' \in [Consumers -> Keys \union {NoOne}]
    BY <2>1
  <2>4. QED
    BY <2>2, <2>3
<1>2. DepositInv'
  BY DEF DepositInv
<1>3. NoticeInv'
  BY DEF NoticeInv
<1>4. WithdrawInv'
  BY DEF WithdrawInv, WithdrawOK
<1>5. TransferInv'
  BY DEF TransferInv, TransferOK
<1>6. RowInv'
  BY DEF RowInv
<1>7. NeverNegative'
  BY DEF NeverNegative
<1>8. BalanceMatchesLedger'
  BY DEF BalanceMatchesLedger
<1>9. QED
  BY <1>1, <1>2, <1>3, <1>4, <1>5, <1>6, <1>7, <1>8

LEMMA CreditKeeps ==
  ASSUME IInv, NEW c \in Consumers, Credit(c)
  PROVE  IInv'
<1> USE FundingAssumption DEF IInv, Procs, TypeOK, Credit, Goto, db
<1>1. TypeOK'
  BY DEF PcValues, Statuses, ChainStates, DepositInv
<1>2. DepositInv'
  BY DEF DepositInv
<1>3. NoticeInv'
  BY DEF NoticeInv
<1>4. WithdrawInv'
  BY DEF WithdrawInv, WithdrawOK
<1>5. TransferInv'
  BY DEF TransferInv, TransferOK
<1>6. RowInv'
  BY DEF RowInv
<1>7. NeverNegative'
  BY DEF NeverNegative
<1>8. BalanceMatchesLedger'
  BY DEF BalanceMatchesLedger
<1>9. QED
  BY <1>1, <1>2, <1>3, <1>4, <1>5, <1>6, <1>7, <1>8

LEMMA CommitDepositKeeps ==
  ASSUME IInv, NEW c \in Consumers, CommitDeposit(c)
  PROVE  IInv'
<1> USE FundingAssumption DEF IInv, Procs, TypeOK, CommitDeposit, Goto, Released, Unclaimed
<1>1. TypeOK'
  BY DEF PcValues, Statuses, ChainStates, DepositInv
<1>2. DepositInv'
  BY DEF DepositInv, NoticeInv
<1>3. NoticeInv'
  BY DEF NoticeInv, DepositInv
<1>4. WithdrawInv'
  BY DEF WithdrawInv, WithdrawOK, DepositInv
<1>5. TransferInv'
  BY DEF TransferInv, TransferOK, DepositInv
<1>6. RowInv'
  BY DEF RowInv, DepositInv
<1>7. NeverNegative'
  BY DEF NeverNegative, DepositInv
<1>8. BalanceMatchesLedger'
  BY DEF BalanceMatchesLedger, DepositInv
<1>9. QED
  BY <1>1, <1>2, <1>3, <1>4, <1>5, <1>6, <1>7, <1>8

LEMMA EmitDepositKeeps ==
  ASSUME IInv, NEW c \in Consumers, EmitDeposit(c)
  PROVE  IInv'
<1> USE FundingAssumption DEF IInv, Procs, TypeOK, EmitDeposit, Goto, db
<1>1. TypeOK'
  BY DEF PcValues, Statuses, ChainStates, DepositInv
<1>2. DepositInv'
  BY DEF DepositInv
<1>3. NoticeInv'
  BY DEF NoticeInv, DepositInv
<1>4. WithdrawInv'
  BY DEF WithdrawInv, WithdrawOK
<1>5. TransferInv'
  BY DEF TransferInv, TransferOK
<1>6. RowInv'
  BY DEF RowInv
<1>7. NeverNegative'
  BY DEF NeverNegative
<1>8. BalanceMatchesLedger'
  BY DEF BalanceMatchesLedger
<1>9. QED
  BY <1>1, <1>2, <1>3, <1>4, <1>5, <1>6, <1>7, <1>8

LEMMA DepositFailsKeeps ==
  ASSUME IInv, NEW c \in Consumers, DepositFails(c)
  PROVE  IInv'
<1> USE FundingAssumption DEF IInv, Procs, TypeOK, DepositFails, Goto, db, Released, Unclaimed
<1>1. TypeOK'
  BY DEF PcValues, Statuses, ChainStates
<1>2. DepositInv'
  BY DEF DepositInv
<1>3. NoticeInv'
  BY DEF NoticeInv
<1>4. WithdrawInv'
  BY DEF WithdrawInv, WithdrawOK
<1>5. TransferInv'
  BY DEF TransferInv, TransferOK
<1>6. RowInv'
  BY DEF RowInv
<1>7. NeverNegative'
  BY DEF NeverNegative
<1>8. BalanceMatchesLedger'
  BY DEF BalanceMatchesLedger
<1>9. QED
  BY <1>1, <1>2, <1>3, <1>4, <1>5, <1>6, <1>7, <1>8

LEMMA QuoteFeeKeeps ==
  ASSUME IInv, NEW w \in Withdrawals, QuoteFee(w)
  PROVE  IInv'
<1> USE FundingAssumption DEF IInv, Procs, TypeOK, QuoteFee, Goto, db
<1>1. TypeOK'
  BY DEF PcValues, Statuses, ChainStates
<1>2. DepositInv'
  BY DEF DepositInv
<1>3. NoticeInv'
  BY DEF NoticeInv
<1>4. WithdrawInv'
  BY DEF WithdrawInv, WithdrawOK
<1>5. TransferInv'
  BY DEF TransferInv, TransferOK
<1>6. RowInv'
  BY DEF RowInv
<1>7. NeverNegative'
  BY DEF NeverNegative
<1>8. BalanceMatchesLedger'
  BY DEF BalanceMatchesLedger
<1>9. QED
  BY <1>1, <1>2, <1>3, <1>4, <1>5, <1>6, <1>7, <1>8

LEMMA LockBalanceKeeps ==
  ASSUME IInv, NEW w \in Withdrawals, LockBalance(w)
  PROVE  IInv'
<1> USE FundingAssumption DEF IInv, Procs, TypeOK, LockBalance, Goto, db
<1>1. TypeOK'
  <2>1. CASE WithdrawFrom[w] \in rows
    <3>1. /\ holder' \in [Accounts -> Procs \union {NoOne}]
          /\ snap' \in [Withdrawals \union Transfers -> Int]
      BY <2>1
    <3>2. pc' \in [Procs -> PcValues]
      BY <2>1 DEF PcValues
    <3>3. QED
      BY <2>1, <3>1, <3>2
  <2>2. CASE WithdrawFrom[w] \notin rows
    BY <2>2 DEF PcValues
  <2>3. QED
    BY <2>1, <2>2 DEF PcValues
<1>2. DepositInv'
  BY DEF DepositInv
<1>3. NoticeInv'
  BY DEF NoticeInv
<1>4. WithdrawInv'
  BY DEF WithdrawInv, WithdrawOK
<1>5. TransferInv'
  BY DEF TransferInv, TransferOK
<1>6. RowInv'
  BY DEF RowInv
<1>7. NeverNegative'
  BY DEF NeverNegative
<1>8. BalanceMatchesLedger'
  BY DEF BalanceMatchesLedger
<1>9. QED
  BY <1>1, <1>2, <1>3, <1>4, <1>5, <1>6, <1>7, <1>8

LEMMA DebitKeeps ==
  ASSUME IInv, NEW w \in Withdrawals, Debit(w)
  PROVE  IInv'
<1> USE FundingAssumption DEF IInv, Procs, TypeOK, Debit, Goto, Released
<1>0. Amount[w] \in Nat /\ WithdrawFrom[w] \in Accounts /\ snap[w] \in Int
  BY WithdrawTypes
<1>1. TypeOK'
  BY <1>0 DEF PcValues, Statuses, ChainStates, WithdrawInv, WithdrawOK
<1>2. DepositInv'
  BY <1>0 DEF DepositInv, WithdrawInv, WithdrawOK
<1>3. NoticeInv'
  BY <1>0 DEF NoticeInv, WithdrawInv, WithdrawOK
<1>4. WithdrawInv'
  <2>1. WithdrawOK(w)
    BY DEF WithdrawInv
  <2>2. WithdrawOK(w)'
    BY <1>0, <2>1 DEF WithdrawOK
  <2>3. ASSUME NEW v \in Withdrawals, v # w
        PROVE  WithdrawOK(v)'
    <3>1. WithdrawOK(v) /\ WithdrawFrom[v] \in Accounts
      BY WithdrawTypes DEF WithdrawInv
    <3>2. QED
      BY <1>0, <2>1, <2>3, <3>1 DEF WithdrawOK
  <2>4. QED
    BY <2>2, <2>3 DEF WithdrawInv
<1>5. TransferInv'
  BY <1>0 DEF TransferInv, TransferOK, WithdrawInv, WithdrawOK
<1>6. RowInv'
  BY <1>0 DEF RowInv, WithdrawInv, WithdrawOK
<1>7. NeverNegative'
  BY <1>0 DEF NeverNegative, WithdrawInv, WithdrawOK
<1>8. BalanceMatchesLedger'
  BY <1>0 DEF BalanceMatchesLedger, WithdrawInv, WithdrawOK
<1>9. QED
  BY <1>1, <1>2, <1>3, <1>4, <1>5, <1>6, <1>7, <1>8

LEMMA RefuseDebitKeeps ==
  ASSUME IInv, NEW w \in Withdrawals, RefuseDebit(w)
  PROVE  IInv'
<1> USE FundingAssumption DEF IInv, Procs, TypeOK, RefuseDebit, Goto, db, Released
<1>1. TypeOK'
  BY DEF PcValues, Statuses, ChainStates
<1>2. DepositInv'
  BY DEF DepositInv
<1>3. NoticeInv'
  BY DEF NoticeInv
<1>4. WithdrawInv'
  BY DEF WithdrawInv, WithdrawOK
<1>5. TransferInv'
  BY DEF TransferInv, TransferOK
<1>6. RowInv'
  BY DEF RowInv
<1>7. NeverNegative'
  BY DEF NeverNegative
<1>8. BalanceMatchesLedger'
  BY DEF BalanceMatchesLedger
<1>9. QED
  BY <1>1, <1>2, <1>3, <1>4, <1>5, <1>6, <1>7, <1>8

LEMMA AskChainKeeps ==
  ASSUME IInv, NEW w \in Withdrawals, AskChain(w)
  PROVE  IInv'
<1> USE FundingAssumption DEF IInv, Procs, TypeOK, AskChain, Goto, db
<1>1. TypeOK'
  BY DEF PcValues, Statuses, ChainStates
<1>2. DepositInv'
  BY DEF DepositInv
<1>3. NoticeInv'
  BY DEF NoticeInv
<1>4. WithdrawInv'
  BY DEF WithdrawInv, WithdrawOK
<1>5. TransferInv'
  BY DEF TransferInv, TransferOK
<1>6. RowInv'
  BY DEF RowInv
<1>7. NeverNegative'
  BY DEF NeverNegative
<1>8. BalanceMatchesLedger'
  BY DEF BalanceMatchesLedger
<1>9. QED
  BY <1>1, <1>2, <1>3, <1>4, <1>5, <1>6, <1>7, <1>8

LEMMA AskFailsKeeps ==
  ASSUME IInv, NEW w \in Withdrawals, AskFails(w)
  PROVE  IInv'
<1> USE FundingAssumption DEF IInv, Procs, TypeOK, AskFails, Goto, db
<1>1. TypeOK'
  BY DEF PcValues, Statuses, ChainStates
<1>2. DepositInv'
  BY DEF DepositInv
<1>3. NoticeInv'
  BY DEF NoticeInv
<1>4. WithdrawInv'
  BY DEF WithdrawInv, WithdrawOK
<1>5. TransferInv'
  BY DEF TransferInv, TransferOK
<1>6. RowInv'
  BY DEF RowInv
<1>7. NeverNegative'
  BY DEF NeverNegative
<1>8. BalanceMatchesLedger'
  BY DEF BalanceMatchesLedger
<1>9. QED
  BY <1>1, <1>2, <1>3, <1>4, <1>5, <1>6, <1>7, <1>8

LEMMA ChainAnswersKeeps ==
  ASSUME IInv, NEW w \in Withdrawals, ChainAnswers(w)
  PROVE  IInv'
<1> USE FundingAssumption DEF IInv, Procs, TypeOK, ChainAnswers, db
<1>1. TypeOK'
  BY DEF PcValues, Statuses, ChainStates
<1>2. DepositInv'
  BY DEF DepositInv
<1>3. NoticeInv'
  BY DEF NoticeInv
<1>4. WithdrawInv'
  BY DEF WithdrawInv, WithdrawOK
<1>5. TransferInv'
  BY DEF TransferInv, TransferOK
<1>6. RowInv'
  BY DEF RowInv
<1>7. NeverNegative'
  BY DEF NeverNegative
<1>8. BalanceMatchesLedger'
  BY DEF BalanceMatchesLedger
<1>9. QED
  BY <1>1, <1>2, <1>3, <1>4, <1>5, <1>6, <1>7, <1>8

LEMMA RecordBroadcastKeeps ==
  ASSUME IInv, NEW w \in Withdrawals, RecordBroadcast(w)
  PROVE  IInv'
<1> USE FundingAssumption DEF IInv, Procs, TypeOK, RecordBroadcast, Goto
<1>1. TypeOK'
  BY DEF PcValues, Statuses, ChainStates
<1>2. DepositInv'
  BY DEF DepositInv
<1>3. NoticeInv'
  BY DEF NoticeInv
<1>4. WithdrawInv'
  BY DEF WithdrawInv, WithdrawOK
<1>5. TransferInv'
  BY DEF TransferInv, TransferOK
<1>6. RowInv'
  BY DEF RowInv
<1>7. NeverNegative'
  BY DEF NeverNegative
<1>8. BalanceMatchesLedger'
  BY DEF BalanceMatchesLedger
<1>9. QED
  BY <1>1, <1>2, <1>3, <1>4, <1>5, <1>6, <1>7, <1>8

LEMMA ChainRefusedKeeps ==
  ASSUME IInv, NEW w \in Withdrawals, ChainRefused(w)
  PROVE  IInv'
<1> USE FundingAssumption DEF IInv, Procs, TypeOK, ChainRefused, Goto, db
<1>1. TypeOK'
  BY DEF PcValues, Statuses, ChainStates
<1>2. DepositInv'
  BY DEF DepositInv
<1>3. NoticeInv'
  BY DEF NoticeInv
<1>4. WithdrawInv'
  BY DEF WithdrawInv, WithdrawOK
<1>5. TransferInv'
  BY DEF TransferInv, TransferOK
<1>6. RowInv'
  BY DEF RowInv
<1>7. NeverNegative'
  BY DEF NeverNegative
<1>8. BalanceMatchesLedger'
  BY DEF BalanceMatchesLedger
<1>9. QED
  BY <1>1, <1>2, <1>3, <1>4, <1>5, <1>6, <1>7, <1>8

LEMMA FollowUpFailsKeeps ==
  ASSUME IInv, NEW w \in Withdrawals, FollowUpFails(w)
  PROVE  IInv'
<1> USE FundingAssumption DEF IInv, Procs, TypeOK, FollowUpFails, Goto, db
<1>1. TypeOK'
  BY DEF PcValues, Statuses, ChainStates
<1>2. DepositInv'
  BY DEF DepositInv
<1>3. NoticeInv'
  BY DEF NoticeInv
<1>4. WithdrawInv'
  BY DEF WithdrawInv, WithdrawOK
<1>5. TransferInv'
  BY DEF TransferInv, TransferOK
<1>6. RowInv'
  BY DEF RowInv
<1>7. NeverNegative'
  BY DEF NeverNegative
<1>8. BalanceMatchesLedger'
  BY DEF BalanceMatchesLedger
<1>9. QED
  BY <1>1, <1>2, <1>3, <1>4, <1>5, <1>6, <1>7, <1>8

LEMMA LockRefundKeeps ==
  ASSUME IInv, NEW w \in Withdrawals, LockRefund(w)
  PROVE  IInv'
<1> USE FundingAssumption DEF IInv, Procs, TypeOK, LockRefund, Goto, db
<1>1. TypeOK'
  BY DEF PcValues, Statuses, ChainStates
<1>2. DepositInv'
  BY DEF DepositInv
<1>3. NoticeInv'
  BY DEF NoticeInv
<1>4. WithdrawInv'
  BY DEF WithdrawInv, WithdrawOK
<1>5. TransferInv'
  BY DEF TransferInv, TransferOK
<1>6. RowInv'
  BY DEF RowInv
<1>7. NeverNegative'
  BY DEF NeverNegative
<1>8. BalanceMatchesLedger'
  BY DEF BalanceMatchesLedger
<1>9. QED
  BY <1>1, <1>2, <1>3, <1>4, <1>5, <1>6, <1>7, <1>8

LEMMA RefundKeeps ==
  ASSUME IInv, NEW w \in Withdrawals, Refund(w)
  PROVE  IInv'
<1> USE FundingAssumption DEF IInv, Procs, TypeOK, Refund, Goto, Released
<1>0. Amount[w] \in Nat /\ WithdrawFrom[w] \in Accounts /\ snap[w] \in Int
  BY WithdrawTypes
<1>1. TypeOK'
  BY <1>0 DEF PcValues, Statuses, ChainStates, WithdrawInv, WithdrawOK
<1>2. DepositInv'
  BY <1>0 DEF DepositInv, WithdrawInv, WithdrawOK
<1>3. NoticeInv'
  BY <1>0 DEF NoticeInv, WithdrawInv, WithdrawOK
<1>4. WithdrawInv'
  <2>1. WithdrawOK(w)
    BY DEF WithdrawInv
  <2>2. WithdrawOK(w)'
    BY <1>0, <2>1 DEF WithdrawOK
  <2>3. ASSUME NEW v \in Withdrawals, v # w
        PROVE  WithdrawOK(v)'
    <3>1. WithdrawOK(v) /\ WithdrawFrom[v] \in Accounts
      BY WithdrawTypes DEF WithdrawInv
    <3>2. QED
      BY <1>0, <2>1, <2>3, <3>1 DEF WithdrawOK
  <2>4. QED
    BY <2>2, <2>3 DEF WithdrawInv
<1>5. TransferInv'
  BY <1>0 DEF TransferInv, TransferOK, WithdrawInv, WithdrawOK
<1>6. RowInv'
  <2>1. WithdrawOK(w)
    BY DEF WithdrawInv
  <2>2. WithdrawFrom[w] \in rows
    BY <2>1 DEF WithdrawOK
  <2>3. QED
    BY <1>0, <2>2 DEF RowInv
<1>7. NeverNegative'
  BY <1>0 DEF NeverNegative, WithdrawInv, WithdrawOK
<1>8. BalanceMatchesLedger'
  BY <1>0 DEF BalanceMatchesLedger, WithdrawInv, WithdrawOK
<1>9. QED
  BY <1>1, <1>2, <1>3, <1>4, <1>5, <1>6, <1>7, <1>8

LEMMA HandlerLostKeeps ==
  ASSUME IInv, NEW w \in Withdrawals, HandlerLost(w)
  PROVE  IInv'
<1> USE FundingAssumption DEF IInv, Procs, TypeOK, HandlerLost, Goto, db, Released
<1>1. TypeOK'
  BY DEF PcValues, Statuses, ChainStates
<1>2. DepositInv'
  BY DEF DepositInv
<1>3. NoticeInv'
  BY DEF NoticeInv
<1>4. WithdrawInv'
  BY DEF WithdrawInv, WithdrawOK
<1>5. TransferInv'
  BY DEF TransferInv, TransferOK
<1>6. RowInv'
  BY DEF RowInv
<1>7. NeverNegative'
  BY DEF NeverNegative
<1>8. BalanceMatchesLedger'
  BY DEF BalanceMatchesLedger
<1>9. QED
  BY <1>1, <1>2, <1>3, <1>4, <1>5, <1>6, <1>7, <1>8

LEMMA AnnounceKeeps ==
  ASSUME IInv, NEW w \in Withdrawals, Announce(w)
  PROVE  IInv'
<1> USE FundingAssumption DEF IInv, Procs, TypeOK, Announce, Goto, db
<1>1. TypeOK'
  BY DEF PcValues, Statuses, ChainStates
<1>2. DepositInv'
  BY DEF DepositInv
<1>3. NoticeInv'
  BY DEF NoticeInv
<1>4. WithdrawInv'
  BY DEF WithdrawInv, WithdrawOK
<1>5. TransferInv'
  BY DEF TransferInv, TransferOK
<1>6. RowInv'
  BY DEF RowInv
<1>7. NeverNegative'
  BY DEF NeverNegative
<1>8. BalanceMatchesLedger'
  BY DEF BalanceMatchesLedger
<1>9. QED
  BY <1>1, <1>2, <1>3, <1>4, <1>5, <1>6, <1>7, <1>8

LEMMA ReadFromKeeps ==
  ASSUME IInv, NEW t \in Transfers, ReadFrom(t)
  PROVE  IInv'
<1> USE FundingAssumption DEF IInv, Procs, TypeOK, ReadFrom, Goto, db
<1>1. TypeOK'
  BY SMTT(20) DEF PcValues, Statuses, ChainStates
<1>2. DepositInv'
  BY DEF DepositInv
<1>3. NoticeInv'
  BY DEF NoticeInv
<1>4. WithdrawInv'
  BY DEF WithdrawInv, WithdrawOK
<1>5. TransferInv'
  BY DEF TransferInv, TransferOK
<1>6. RowInv'
  BY DEF RowInv
<1>7. NeverNegative'
  BY DEF NeverNegative
<1>8. BalanceMatchesLedger'
  BY DEF BalanceMatchesLedger
<1>9. QED
  BY <1>1, <1>2, <1>3, <1>4, <1>5, <1>6, <1>7, <1>8

LEMMA SelectToKeeps ==
  ASSUME IInv, NEW t \in Transfers, SelectTo(t)
  PROVE  IInv'
<1> USE FundingAssumption DEF IInv, Procs, TypeOK, SelectTo, Goto, db
<1>1. TypeOK'
  <2>1. CASE To[t] \in rows
    BY <2>1, SMTT(20) DEF PcValues
  <2>2. CASE To[t] \notin rows
    BY <2>2 DEF PcValues
  <2>3. QED
    BY <2>1, <2>2 DEF PcValues
<1>2. DepositInv'
  BY DEF DepositInv
<1>3. NoticeInv'
  BY DEF NoticeInv
<1>4. WithdrawInv'
  BY DEF WithdrawInv, WithdrawOK
<1>5. TransferInv'
  BY DEF TransferInv, TransferOK
<1>6. RowInv'
  BY DEF RowInv
<1>7. NeverNegative'
  BY DEF NeverNegative
<1>8. BalanceMatchesLedger'
  BY DEF BalanceMatchesLedger
<1>9. QED
  BY <1>1, <1>2, <1>3, <1>4, <1>5, <1>6, <1>7, <1>8

LEMMA SaveFromKeeps ==
  ASSUME IInv, NEW t \in Transfers, SaveFrom(t)
  PROVE  IInv'
<1> USE FundingAssumption DEF IInv, Procs, TypeOK, SaveFrom, Goto, db
<1>1. TypeOK'
  BY SMTT(20) DEF PcValues, Statuses, ChainStates
<1>2. DepositInv'
  BY DEF DepositInv
<1>3. NoticeInv'
  BY DEF NoticeInv
<1>4. WithdrawInv'
  BY DEF WithdrawInv, WithdrawOK
<1>5. TransferInv'
  BY DEF TransferInv, TransferOK
<1>6. RowInv'
  BY DEF RowInv
<1>7. NeverNegative'
  BY DEF NeverNegative
<1>8. BalanceMatchesLedger'
  BY DEF BalanceMatchesLedger
<1>9. QED
  BY <1>1, <1>2, <1>3, <1>4, <1>5, <1>6, <1>7, <1>8

LEMMA CommitTransferKeeps ==
  ASSUME IInv, NEW t \in Transfers, CommitTransfer(t)
  PROVE  IInv'
<1> USE FundingAssumption DEF IInv, Procs, TypeOK, CommitTransfer, Goto, Released
<1>0. /\ Amount[t] \in Nat /\ snap[t] \in Int /\ snapTo[t] \in Int
     /\ From[t] \in Accounts /\ To[t] \in Accounts /\ From[t] # To[t]
  BY TransferTypes
<1>1. TypeOK'
  BY <1>0 DEF PcValues, Statuses, ChainStates, TransferInv, TransferOK
<1>2. DepositInv'
  BY <1>0 DEF DepositInv, TransferInv, TransferOK
<1>3. NoticeInv'
  BY <1>0 DEF NoticeInv, TransferInv, TransferOK
<1>4. WithdrawInv'
  <2>1. TransferOK(t)
    BY DEF TransferInv
  <2>2. ASSUME NEW v \in Withdrawals
        PROVE  WithdrawOK(v)'
    <3>1. WithdrawOK(v) /\ WithdrawFrom[v] \in Accounts
      BY WithdrawTypes DEF WithdrawInv
    <3>2. QED
      BY <1>0, <2>1, <3>1 DEF WithdrawOK, TransferOK
  <2>3. QED
    BY <2>2 DEF WithdrawInv
<1>5. TransferInv'
  BY <1>0 DEF TransferInv, TransferOK
<1>6. RowInv'
  <2>1. TransferOK(t)
    BY DEF TransferInv
  <2>2. From[t] \in rows
    BY <2>1 DEF TransferOK
  <2>3. \A a \in Accounts : a # From[t] /\ a # To[t] => available'[a] = available[a]
    BY <1>0
  <2>4. QED
    BY <1>0, <2>2, <2>3 DEF RowInv
<1>7. NeverNegative'
  BY <1>0 DEF NeverNegative, TransferInv, TransferOK, RowInv
<1>8. BalanceMatchesLedger'
  BY <1>0 DEF BalanceMatchesLedger, TransferInv, TransferOK, RowInv
<1>9. QED
  BY <1>1, <1>2, <1>3, <1>4, <1>5, <1>6, <1>7, <1>8

LEMMA DuplicateRowKeeps ==
  ASSUME IInv, NEW t \in Transfers, DuplicateRow(t)
  PROVE  IInv'
<1> USE FundingAssumption DEF IInv, Procs, TypeOK, DuplicateRow, Goto, db, Released
<1>1. TypeOK'
  BY DEF PcValues, Statuses, ChainStates
<1>2. DepositInv'
  BY DEF DepositInv
<1>3. NoticeInv'
  BY DEF NoticeInv
<1>4. WithdrawInv'
  BY DEF WithdrawInv, WithdrawOK
<1>5. TransferInv'
  BY DEF TransferInv, TransferOK
<1>6. RowInv'
  BY DEF RowInv
<1>7. NeverNegative'
  BY DEF NeverNegative
<1>8. BalanceMatchesLedger'
  BY DEF BalanceMatchesLedger
<1>9. QED
  BY <1>1, <1>2, <1>3, <1>4, <1>5, <1>6, <1>7, <1>8

LEMMA DeadlockVictimKeeps ==
  ASSUME IInv, NEW t \in Transfers, DeadlockVictim(t)
  PROVE  IInv'
<1> USE FundingAssumption DEF IInv, Procs, TypeOK, DeadlockVictim, Goto, db, Released
<1>1. TypeOK'
  BY DEF PcValues, Statuses, ChainStates
<1>2. DepositInv'
  BY DEF DepositInv
<1>3. NoticeInv'
  BY DEF NoticeInv
<1>4. WithdrawInv'
  BY DEF WithdrawInv, WithdrawOK
<1>5. TransferInv'
  BY DEF TransferInv, TransferOK
<1>6. RowInv'
  BY DEF RowInv
<1>7. NeverNegative'
  BY DEF NeverNegative
<1>8. BalanceMatchesLedger'
  BY DEF BalanceMatchesLedger
<1>9. QED
  BY <1>1, <1>2, <1>3, <1>4, <1>5, <1>6, <1>7, <1>8

LEMMA TransferFailsKeeps ==
  ASSUME IInv, NEW t \in Transfers, TransferFails(t)
  PROVE  IInv'
<1> USE FundingAssumption DEF IInv, Procs, TypeOK, TransferFails, Goto, db, Released
<1>1. TypeOK'
  BY DEF PcValues, Statuses, ChainStates
<1>2. DepositInv'
  BY DEF DepositInv
<1>3. NoticeInv'
  BY DEF NoticeInv
<1>4. WithdrawInv'
  BY DEF WithdrawInv, WithdrawOK
<1>5. TransferInv'
  BY DEF TransferInv, TransferOK
<1>6. RowInv'
  BY DEF RowInv
<1>7. NeverNegative'
  BY DEF NeverNegative
<1>8. BalanceMatchesLedger'
  BY DEF BalanceMatchesLedger
<1>9. QED
  BY <1>1, <1>2, <1>3, <1>4, <1>5, <1>6, <1>7, <1>8

LEMMA CrashKeeps ==
  ASSUME IInv, Crash
  PROVE  IInv'
<1> USE FundingAssumption DEF IInv, Procs, TypeOK, Crash, db, Running
<1>1. TypeOK'
  BY DEF PcValues, Statuses, ChainStates
<1>2. DepositInv'
  BY DEF DepositInv
<1>3. NoticeInv'
  BY DEF NoticeInv
<1>4. WithdrawInv'
  BY DEF WithdrawInv, WithdrawOK
<1>5. TransferInv'
  BY DEF TransferInv, TransferOK
<1>6. RowInv'
  BY DEF RowInv
<1>7. NeverNegative'
  BY DEF NeverNegative
<1>8. BalanceMatchesLedger'
  BY DEF BalanceMatchesLedger
<1>9. QED
  BY <1>1, <1>2, <1>3, <1>4, <1>5, <1>6, <1>7, <1>8

(***************************************************************************)
(* The invariant of the specification.                                     *)
(***************************************************************************)

LEMMA InitEstablishes == Init => IInv
<1> SUFFICES ASSUME Init PROVE IInv
  OBVIOUS
<1> USE FundingAssumption DEF Init, Procs
<1>1. TypeOK
  BY DEF TypeOK, PcValues, Statuses, ChainStates
<1>2. DepositInv /\ NoticeInv
  BY DEF DepositInv, NoticeInv
<1>3. WithdrawInv
  BY DEF WithdrawInv, WithdrawOK
<1>4. TransferInv
  <2>1. ASSUME NEW t \in Transfers PROVE TransferOK(t)
    <3>1. t \in Procs /\ t \notin Consumers /\ t # NoOne /\ To[t] \in Accounts
      OBVIOUS
    <3>2. QED
      BY <3>1 DEF TransferOK
  <2>2. QED
    BY <2>1 DEF TransferInv
<1>5. RowInv /\ NeverNegative /\ BalanceMatchesLedger
  BY DEF RowInv, NeverNegative, BalanceMatchesLedger
<1>6. QED
  BY <1>1, <1>2, <1>3, <1>4, <1>5 DEF IInv

LEMMA NextKeeps == IInv /\ [Next]_vars => IInv'
<1> SUFFICES ASSUME IInv, [Next]_vars PROVE IInv'
  OBVIOUS
<1>1. CASE \E c \in Consumers, k \in Keys : Deliver(c, k)
  BY <1>1, DeliverKeeps
<1>2. CASE \E c \in Consumers : DepositStep(c) \/ DepositFails(c)
  BY <1>2, ClaimKeeps, CreditKeeps, CommitDepositKeeps, EmitDepositKeeps,
     DepositFailsKeeps
     DEF DepositStep
<1>3. CASE \E w \in Withdrawals : \/ WithdrawStep(w) \/ ChainAnswers(w)
                                \/ AskFails(w) \/ FollowUpFails(w) \/ HandlerLost(w)
  BY <1>3, QuoteFeeKeeps, LockBalanceKeeps, DebitKeeps, RefuseDebitKeeps,
     AskChainKeeps, AskFailsKeeps, ChainAnswersKeeps, RecordBroadcastKeeps,
     ChainRefusedKeeps, FollowUpFailsKeeps, LockRefundKeeps, RefundKeeps,
     HandlerLostKeeps, AnnounceKeeps
     DEF WithdrawStep
<1>4. CASE \E t \in Transfers : TransferStep(t) \/ TransferFails(t)
  BY <1>4, ReadFromKeeps, SelectToKeeps, SaveFromKeeps, CommitTransferKeeps,
     DuplicateRowKeeps, DeadlockVictimKeeps, TransferFailsKeeps
     DEF TransferStep
<1>5. CASE Crash
  BY <1>5, CrashKeeps
<1>6. CASE UNCHANGED vars
  BY <1>6 DEF vars, IInv, TypeOK, DepositInv, NoticeInv, WithdrawInv, WithdrawOK,
              TransferInv, TransferOK, RowInv, NeverNegative, BalanceMatchesLedger
<1>7. QED
  BY <1>1, <1>2, <1>3, <1>4, <1>5, <1>6 DEF Next

\* The handlers' assumptions about locks, reads and rows hold in every state
\* of every execution.
THEOREM Invariance == Spec => []IInv
BY InitEstablishes, NextKeeps, PTL DEF Spec

\* Every variable keeps its type.
THEOREM TypeCorrect == Spec => []TypeOK
<1>1. IInv => TypeOK
  BY DEF IInv
<1>2. QED
  BY <1>1, Invariance, PTL

\* No available balance is ever negative (wallet.service.ts:149,
\* withdraw.service.ts:111), whatever runs concurrently.
THEOREM BalancesNeverNegative == Spec => []NeverNegative
<1>1. IInv => NeverNegative
  BY DEF IInv
<1>2. QED
  BY <1>1, Invariance, PTL

\* An available balance differs from its ledger only after a transfer wrote
\* its source row back from an out-of-date read (wallet.service.ts:140-157).
THEOREM BalancesMatchLedgers == Spec => []BalanceMatchesLedger
<1>1. IInv => BalanceMatchesLedger
  BY DEF IInv
<1>2. QED
  BY <1>1, Invariance, PTL

\* A refund follows a refusal of the chain or an error after the request went
\* out (withdraw.service.ts:211-245).
THEOREM RefundsAreJustified == Spec => []RefundOnlyIfRefusedOrDisputed
<1>1. IInv => RefundOnlyIfRefusedOrDisputed
  BY DEF IInv, WithdrawInv, WithdrawOK, RefundOnlyIfRefusedOrDisputed
<1>2. QED
  BY <1>1, Invariance, PTL

\* The chain is asked only after the debit committed, and a handler that
\* finished left a final status (withdraw.service.ts:99-209).
THEOREM ChainAskedAfterDebit == Spec => []DebitBeforeAsking
<1>1. IInv => DebitBeforeAsking
  BY DEF IInv, WithdrawInv, WithdrawOK, DebitBeforeAsking
<1>2. QED
  BY <1>1, Invariance, PTL

\* What the user was told last is what the database says
\* (withdraw.service.ts:187-199, 226-238).
THEOREM AnnouncementsAreTrue == Spec => []AnnouncedAsStored
<1>1. IInv => AnnouncedAsStored
  BY DEF IInv, WithdrawInv, WithdrawOK, AnnouncedAsStored
<1>2. QED
  BY <1>1, Invariance, PTL

\* A deposit is announced at most once, and only once it is credited
\* (deposit.service.ts:123-188).
THEOREM NoticesAreTrue == Spec => []NoticeAtMostOnce
<1>1. IInv => NoticeAtMostOnce
  BY DEF IInv, TypeOK, NoticeInv, NoticeAtMostOnce
<1>2. QED
  BY <1>1, Invariance, PTL

(***************************************************************************)
(* Funding implements Settlement: every step of the handlers, locks and    *)
(* messages is one settlement step or changes nothing that was settled.    *)
(* The inductive invariant says why the five commits that are settlement   *)
(* steps happen at most once for each request.                             *)
(***************************************************************************)

\* A transfer counts as moved only by the step that takes it to "done".
LEMMA MovedKept ==
  ASSUME pc \in [Procs -> PcValues], NEW p \in Procs, NEW label \in PcValues,
         Goto(p, label),
         p \in Transfers => pc[p] # "done" /\ label # "done"
  PROVE  Moved' = Moved
<1>1. \A t \in Transfers : pc'[t] = IF t = p THEN label ELSE pc[t]
  BY DEF Goto, Procs
<1>2. QED
  BY <1>1 DEF Moved

\* The steps of deposits settle a key or nothing.
LEMMA DepositRefines ==
  ASSUME IInv, NEW c \in Consumers, DepositStep(c) \/ DepositFails(c)
  PROVE  Promise!Next \/ UNCHANGED Promise!vars
<1> USE FundingAssumption DEF IInv, TypeOK, db
<1>0. c \in Procs /\ c \notin Transfers
  BY DEF Procs
<1>1. CASE CommitDeposit(c)
  <2>1. job[c] \in Keys /\ job[c] \notin inbox
    BY <1>1 DEF CommitDeposit, DepositInv
  <2>2. Moved' = Moved
    BY <1>0, <1>1, MovedKept DEF CommitDeposit, PcValues
  <2>3. Promise!CreditOnce(job[c])
    BY <1>1, <2>1, <2>2 DEF CommitDeposit, Promise!CreditOnce
  <2>4. QED
    BY <2>1, <2>3 DEF Promise!Next
<1>2. CASE Claim(c)
  <2>1. PICK label \in PcValues : Goto(c, label)
    BY <1>2 DEF Claim, PcValues
  <2>2. QED
    BY <1>0, <1>2, <2>1, MovedKept DEF Claim, Promise!vars
<1>3. CASE Credit(c) \/ EmitDeposit(c) \/ DepositFails(c)
  <2>1. PICK label \in PcValues : Goto(c, label)
    BY <1>3 DEF Credit, EmitDeposit, DepositFails, PcValues
  <2>2. QED
    BY <1>0, <1>3, <2>1, MovedKept DEF Credit, EmitDeposit, DepositFails, Promise!vars
<1>4. QED
  BY <1>1, <1>2, <1>3 DEF DepositStep

\* The steps of withdrawals open, complete or give back one of them, or none.
LEMMA WithdrawRefines ==
  ASSUME IInv, NEW w \in Withdrawals,
         WithdrawStep(w) \/ AskFails(w) \/ FollowUpFails(w) \/ HandlerLost(w)
  PROVE  Promise!Next \/ UNCHANGED Promise!vars
<1> USE FundingAssumption DEF IInv, TypeOK, db
<1>0. w \in Procs /\ w \notin Transfers /\ WithdrawOK(w)
  BY DEF Procs, WithdrawInv
<1>1. CASE Debit(w)
  <2>1. Moved' = Moved
    BY <1>0, <1>1, MovedKept DEF Debit, PcValues
  <2>2. Promise!Open(w)
    BY <1>0, <1>1, <2>1 DEF Debit, WithdrawOK, Promise!Open
  <2>3. QED
    BY <2>2 DEF Promise!Next
<1>2. CASE RecordBroadcast(w)
  <2>1. Moved' = Moved
    BY <1>0, <1>2, MovedKept DEF RecordBroadcast, PcValues
  <2>2. Promise!Complete(w)
    BY <1>0, <1>2, <2>1 DEF RecordBroadcast, WithdrawOK, Promise!Complete
  <2>3. QED
    BY <2>2 DEF Promise!Next
<1>3. CASE Refund(w)
  <2>1. Moved' = Moved
    BY <1>0, <1>3, MovedKept DEF Refund, PcValues
  <2>2. Promise!GiveBack(w)
    BY <1>0, <1>3, <2>1 DEF Refund, WithdrawOK, Promise!GiveBack
  <2>3. QED
    BY <2>2 DEF Promise!Next
<1>4. CASE QuoteFee(w) \/ LockBalance(w) \/ RefuseDebit(w) \/ AskChain(w)
  <2>1. PICK label \in PcValues : Goto(w, label)
    BY <1>4 DEF QuoteFee, LockBalance, RefuseDebit, AskChain, PcValues
  <2>2. QED
    BY <1>0, <1>4, <2>1, MovedKept
    DEF QuoteFee, LockBalance, RefuseDebit, AskChain, Promise!vars
<1>5. CASE ChainRefused(w) \/ LockRefund(w) \/ Announce(w)
  <2>1. PICK label \in PcValues : Goto(w, label)
    BY <1>5 DEF ChainRefused, LockRefund, Announce, PcValues
  <2>2. QED
    BY <1>0, <1>5, <2>1, MovedKept
    DEF ChainRefused, LockRefund, Announce, Promise!vars
<1>6. CASE AskFails(w) \/ FollowUpFails(w) \/ HandlerLost(w)
  <2>1. PICK label \in PcValues : Goto(w, label)
    BY <1>6 DEF AskFails, FollowUpFails, HandlerLost, PcValues
  <2>2. QED
    BY <1>0, <1>6, <2>1, MovedKept
    DEF AskFails, FollowUpFails, HandlerLost, Promise!vars
<1>7. QED
  BY <1>1, <1>2, <1>3, <1>4, <1>5, <1>6 DEF WithdrawStep

\* The commit of a transfer moves its amount, the other steps move nothing.
LEMMA TransferRefines ==
  ASSUME IInv, NEW t \in Transfers, TransferStep(t) \/ TransferFails(t)
  PROVE  Promise!Next \/ UNCHANGED Promise!vars
<1> USE FundingAssumption DEF IInv, TypeOK, db
<1>0. t \in Procs
  BY DEF Procs
<1>1. CASE CommitTransfer(t)
  <2>1. t \notin Moved
    BY <1>1 DEF CommitTransfer, Moved
  <2>2. \A u \in Transfers : pc'[u] = IF u = t THEN "done" ELSE pc[u]
    BY <1>1 DEF CommitTransfer, Goto, Procs
  <2>3. Moved' = Moved \union {t}
    BY <2>2 DEF Moved
  <2>4. Promise!Move(t)
    BY <1>1, <2>1, <2>3 DEF CommitTransfer, Promise!Move
  <2>5. QED
    BY <2>4 DEF Promise!Next
<1>2. CASE ReadFrom(t) \/ SelectTo(t) \/ SaveFrom(t)
  <2>1. PICK label \in PcValues \ {"done"} : Goto(t, label)
    BY <1>2 DEF ReadFrom, SelectTo, SaveFrom, PcValues
  <2>2. pc[t] # "done"
    BY <1>2 DEF ReadFrom, SelectTo, SaveFrom
  <2>3. QED
    BY <1>0, <1>2, <2>1, <2>2, MovedKept
    DEF ReadFrom, SelectTo, SaveFrom, Promise!vars
<1>3. CASE DuplicateRow(t) \/ DeadlockVictim(t) \/ TransferFails(t)
  <2>1. PICK label \in PcValues \ {"done"} : Goto(t, label)
    BY <1>3 DEF DuplicateRow, DeadlockVictim, TransferFails, PcValues
  <2>2. pc[t] # "done"
    BY <1>3 DEF DuplicateRow, DeadlockVictim, TransferFails, Deadlocked
  <2>3. QED
    BY <1>0, <1>3, <2>1, <2>2, MovedKept
    DEF DuplicateRow, DeadlockVictim, TransferFails, Promise!vars
<1>4. QED
  BY <1>1, <1>2, <1>3 DEF TransferStep

LEMMA StepRefines ==
  ASSUME IInv, [Next]_vars
  PROVE  [Promise!Next]_(Promise!vars)
<1> USE DEF IInv, TypeOK, db
<1>1. ASSUME NEW c \in Consumers, NEW k \in Keys, Deliver(c, k)
      PROVE  UNCHANGED Promise!vars
  <2>1. c \in Procs /\ c \notin Transfers /\ Goto(c, "claim") /\ "claim" \in PcValues
    BY <1>1, FundingAssumption DEF Deliver, Procs, PcValues
  <2>2. QED
    BY <1>1, <2>1, MovedKept DEF Deliver, Promise!vars
<1>2. ASSUME NEW w \in Withdrawals, ChainAnswers(w)
      PROVE  UNCHANGED Promise!vars
  BY <1>2 DEF ChainAnswers, Moved, Promise!vars
<1>3. ASSUME Crash
      PROVE  UNCHANGED Promise!vars
  <2>1. \A t \in Transfers : pc'[t] = "done" <=> pc[t] = "done"
    BY <1>3 DEF Crash, Running, Procs
  <2>2. Moved' = Moved
    BY <2>1 DEF Moved
  <2>3. QED
    BY <1>3, <2>2 DEF Crash, Promise!vars
<1>4. CASE UNCHANGED vars
  BY <1>4 DEF vars, Moved, Promise!vars
<1>5. QED
  BY <1>1, <1>2, <1>3, <1>4, DepositRefines, WithdrawRefines, TransferRefines
  DEF Next

\* The funding side implements the settlement of every request at most once:
\* whatever is delivered again, crashes or waits, the ledgers, the credited
\* deposits, the withdrawals' statuses and the transfers carried out change
\* together or not at all (deposit.service.ts:123-186, withdraw.service.ts:99-303,
\* wallet.service.ts:114-227).
THEOREM FundingImplementsSettlement == Spec => ImplementsSettlement
<1>1. Init => Promise!Init
  <2>1. ASSUME Init
        PROVE  Moved = {}
    BY <2>1, FundingAssumption DEF Init, Moved, Procs
  <2>2. QED
    BY <2>1 DEF Init, Promise!Init
<1>2. IInv /\ [Next]_vars => [Promise!Next]_(Promise!vars)
  BY StepRefines
<1>3. QED
  BY <1>1, <1>2, Invariance, PTL DEF Spec, ImplementsSettlement, Promise!Spec

(***************************************************************************)
(* The ledgers.  A settlement step changes one summand of one account, or, *)
(* for a transfer, one summand of each of its two accounts.                *)
(***************************************************************************)

LEMMA SumNothing ==
  ASSUME NEW S, IsFiniteSet(S), NEW f, \A x \in S : f[x] = 0
  PROVE  SumFunctionOnSet(f, S) = 0
<1>1. /\ \A x \in S : f[x] \in Int
      /\ {} \in SUBSET S
      /\ \A x \in S \ {} : f[x] = 0
  OBVIOUS
<1>2. SumFunctionOnSet(f, {}) = SumFunctionOnSet(f, S)
  BY <1>1, SumZeros
<1>3. QED
  BY <1>2, SumEmpty

LEMMA SumTypes ==
  ASSUME NEW a \in Accounts
  PROVE  /\ SumFunctionOnSet(CreditedTo(a), Keys) \in Int
         /\ SumFunctionOnSet(StandingOf(a), Withdrawals) \in Int
         /\ SumFunctionOnSet(MovedTo(a), Transfers) \in Int
         /\ SumFunctionOnSet(MovedFrom(a), Transfers) \in Int
<1>1. /\ \A k \in Keys : CreditedTo(a)[k] \in Int
      /\ \A w \in Withdrawals : StandingOf(a)[w] \in Int
      /\ \A t \in Transfers : MovedTo(a)[t] \in Int /\ MovedFrom(a)[t] \in Int
  BY FundingAssumption DEF CreditedTo, StandingOf, MovedTo, MovedFrom
<1>2. QED
  BY <1>1, FundingAssumption, SumElement

LEMMA CreditExplained ==
  ASSUME TypeOK, LedgerExplained, NEW k \in Keys, Promise!CreditOnce(k)
  PROVE  LedgerExplained'
<1> USE FundingAssumption
<1> SUFFICES ASSUME NEW a \in Accounts
             PROVE  ledger'[a] = Opening[a] + SumFunctionOnSet(CreditedTo(a)', Keys)
                                            - SumFunctionOnSet(StandingOf(a)', Withdrawals)
                                            + SumFunctionOnSet(MovedTo(a)', Transfers)
                                            - SumFunctionOnSet(MovedFrom(a)', Transfers)
  BY DEF LedgerExplained
<1>1. /\ StandingOf(a)' = StandingOf(a)
      /\ MovedTo(a)' = MovedTo(a)
      /\ MovedFrom(a)' = MovedFrom(a)
  BY DEF Promise!CreditOnce, StandingOf, MovedTo, MovedFrom
<1> DEFINE f == CreditedTo(a)
           g == CreditedTo(a)'
           d == IF DepositTo[k] = a THEN Amount[k] ELSE 0
<1>0. \A x \in Keys : f[x] \in Int /\ g[x] \in Int
  BY DEF CreditedTo
<1>2. /\ \A x \in Keys \ {k} : f[x] = g[x]
      /\ f[k] = 0 /\ g[k] = d /\ d \in Int
  BY DEF Promise!CreditOnce, CreditedTo
<1>3. ledger'[a] = ledger[a] + d
  BY DEF Promise!CreditOnce, TypeOK
<1> HIDE DEF f, g, d
<1>4. SumFunctionOnSet(g, Keys) = SumFunctionOnSet(f, Keys) - f[k] + g[k]
  <2>1. IsFiniteSet(Keys)
    OBVIOUS
  <2> HIDE FundingAssumption
  <2>2. \A x \in Keys \ {k} : f[x] = g[x]
    BY <1>2
  <2>3. QED
    BY <1>0, <2>1, <2>2, SumChange
<1>5. SumFunctionOnSet(f, Keys) \in Int
  BY SumTypes DEF f
<1>6. SumFunctionOnSet(g, Keys) = SumFunctionOnSet(f, Keys) + d
  BY <1>2, <1>4, <1>5
<1>7. ledger[a] = Opening[a] + SumFunctionOnSet(f, Keys)
                             - SumFunctionOnSet(StandingOf(a), Withdrawals)
                             + SumFunctionOnSet(MovedTo(a), Transfers)
                             - SumFunctionOnSet(MovedFrom(a), Transfers)
  BY DEF LedgerExplained, f
<1>8. Opening[a] \in Int
  OBVIOUS
<1>9. QED
  BY <1>1, <1>2, <1>3, <1>5, <1>6, <1>7, <1>8, SumTypes DEF g

\* A withdrawal counts while it is open or broadcast.
LEMMA WithdrawalExplained ==
  ASSUME TypeOK, LedgerExplained, NEW w \in Withdrawals,
         Promise!Open(w) \/ Promise!Complete(w) \/ Promise!GiveBack(w)
  PROVE  LedgerExplained'
<1> USE FundingAssumption
<1> SUFFICES ASSUME NEW a \in Accounts
             PROVE  ledger'[a] = Opening[a] + SumFunctionOnSet(CreditedTo(a)', Keys)
                                            - SumFunctionOnSet(StandingOf(a)', Withdrawals)
                                            + SumFunctionOnSet(MovedTo(a)', Transfers)
                                            - SumFunctionOnSet(MovedFrom(a)', Transfers)
  BY DEF LedgerExplained
<1>1. /\ CreditedTo(a)' = CreditedTo(a)
      /\ MovedTo(a)' = MovedTo(a)
      /\ MovedFrom(a)' = MovedFrom(a)
  BY DEF Promise!Open, Promise!Complete, Promise!GiveBack, CreditedTo, MovedTo, MovedFrom
<1> DEFINE f == StandingOf(a)
           g == StandingOf(a)'
<1>0. \A x \in Withdrawals : f[x] \in Int /\ g[x] \in Int
  BY DEF StandingOf
<1>2. \A x \in Withdrawals \ {w} : f[x] = g[x]
  BY DEF Promise!Open, Promise!Complete, Promise!GiveBack, StandingOf, TypeOK
<1>3. ledger'[a] = ledger[a] + f[w] - g[w]
  BY DEF Promise!Open, Promise!Complete, Promise!GiveBack, StandingOf, TypeOK
<1>4. ledger[a] = Opening[a] + SumFunctionOnSet(CreditedTo(a), Keys)
                             - SumFunctionOnSet(f, Withdrawals)
                             + SumFunctionOnSet(MovedTo(a), Transfers)
                             - SumFunctionOnSet(MovedFrom(a), Transfers)
  BY DEF LedgerExplained
<1>5. SumFunctionOnSet(f, Withdrawals) \in Int
  BY SumTypes
<1> HIDE DEF f, g
<1>6. SumFunctionOnSet(g, Withdrawals) = SumFunctionOnSet(f, Withdrawals) - f[w] + g[w]
  <2>1. IsFiniteSet(Withdrawals)
    OBVIOUS
  <2> HIDE FundingAssumption
  <2>2. QED
    BY <1>0, <1>2, <2>1, SumChange
<1>7. Opening[a] \in Int
  OBVIOUS
<1>8. QED
  BY <1>0, <1>1, <1>3, <1>4, <1>5, <1>6, <1>7, SumTypes DEF g

LEMMA MoveExplained ==
  ASSUME TypeOK, LedgerExplained, NEW t \in Transfers, Promise!Move(t)
  PROVE  LedgerExplained'
<1> USE FundingAssumption
<1> SUFFICES ASSUME NEW a \in Accounts
             PROVE  ledger'[a] = Opening[a] + SumFunctionOnSet(CreditedTo(a)', Keys)
                                            - SumFunctionOnSet(StandingOf(a)', Withdrawals)
                                            + SumFunctionOnSet(MovedTo(a)', Transfers)
                                            - SumFunctionOnSet(MovedFrom(a)', Transfers)
  BY DEF LedgerExplained
<1>1. CreditedTo(a)' = CreditedTo(a) /\ StandingOf(a)' = StandingOf(a)
  BY DEF Promise!Move, CreditedTo, StandingOf
<1> DEFINE f == MovedTo(a)
           g == MovedTo(a)'
           p == MovedFrom(a)
           q == MovedFrom(a)'
<1>0. /\ \A x \in Transfers : f[x] \in Int /\ g[x] \in Int
      /\ \A x \in Transfers : p[x] \in Int /\ q[x] \in Int
  BY DEF MovedTo, MovedFrom
<1>2. /\ \A x \in Transfers \ {t} : f[x] = g[x]
      /\ \A x \in Transfers \ {t} : p[x] = q[x]
      /\ f[t] = 0 /\ p[t] = 0
  BY DEF Promise!Move, MovedTo, MovedFrom
<1>3. ledger'[a] = ledger[a] - q[t] + g[t]
  <2>1. /\ g[t] = IF To[t] = a THEN Amount[t] ELSE 0
        /\ q[t] = IF From[t] = a THEN Amount[t] ELSE 0
    BY DEF Promise!Move, MovedTo, MovedFrom
  <2>2. /\ From[t] # To[t] /\ Amount[t] \in Int
        /\ From[t] \in Accounts /\ To[t] \in Accounts
    OBVIOUS
  <2> HIDE DEF g, q
  <2>3. QED
    BY <2>1, <2>2 DEF Promise!Move, TypeOK
<1>4. ledger[a] = Opening[a] + SumFunctionOnSet(CreditedTo(a), Keys)
                             - SumFunctionOnSet(StandingOf(a), Withdrawals)
                             + SumFunctionOnSet(f, Transfers)
                             - SumFunctionOnSet(p, Transfers)
  BY DEF LedgerExplained
<1>5. SumFunctionOnSet(f, Transfers) \in Int /\ SumFunctionOnSet(p, Transfers) \in Int
  BY SumTypes
<1> HIDE DEF f, g, p, q
<1>6. /\ SumFunctionOnSet(g, Transfers) = SumFunctionOnSet(f, Transfers) - f[t] + g[t]
      /\ SumFunctionOnSet(q, Transfers) = SumFunctionOnSet(p, Transfers) - p[t] + q[t]
  <2>1. IsFiniteSet(Transfers)
    OBVIOUS
  <2> HIDE FundingAssumption
  <2>2. SumFunctionOnSet(g, Transfers) = SumFunctionOnSet(f, Transfers) - f[t] + g[t]
    BY <1>0, <1>2, <2>1, SumChange
  <2>3. SumFunctionOnSet(q, Transfers) = SumFunctionOnSet(p, Transfers) - p[t] + q[t]
    BY <1>0, <1>2, <2>1, SumChange, SMTT(20)
  <2>4. QED
    BY <2>2, <2>3
<1>7. Opening[a] \in Int /\ ledger[a] \in Int
  BY DEF TypeOK
<1>8. QED
  BY <1>0, <1>1, <1>2, <1>3, <1>4, <1>5, <1>6, <1>7, SumTypes DEF g, q

LEMMA LedgerStep == IInv /\ LedgerExplained /\ [Next]_vars => LedgerExplained'
<1> SUFFICES ASSUME IInv, LedgerExplained, [Next]_vars PROVE LedgerExplained'
  OBVIOUS
<1>1. TypeOK
  BY DEF IInv
<1>2. CASE Promise!Next
  BY <1>1, <1>2, CreditExplained, WithdrawalExplained, MoveExplained DEF Promise!Next
<1>3. CASE UNCHANGED Promise!vars
  BY <1>3 DEF Promise!vars, LedgerExplained, CreditedTo, StandingOf, MovedTo, MovedFrom
<1>4. QED
  BY <1>2, <1>3, StepRefines

LEMMA LedgerInit == Init => LedgerExplained
<1> SUFFICES ASSUME Init, NEW a \in Accounts
             PROVE  ledger[a] = Opening[a] + SumFunctionOnSet(CreditedTo(a), Keys)
                                           - SumFunctionOnSet(StandingOf(a), Withdrawals)
                                           + SumFunctionOnSet(MovedTo(a), Transfers)
                                           - SumFunctionOnSet(MovedFrom(a), Transfers)
  BY DEF LedgerExplained
<1> USE FundingAssumption
<1>1. /\ \A k \in Keys : CreditedTo(a)[k] = 0
      /\ \A w \in Withdrawals : StandingOf(a)[w] = 0
      /\ \A t \in Transfers : MovedTo(a)[t] = 0 /\ MovedFrom(a)[t] = 0
  BY DEF Init, Moved, Procs, CreditedTo, StandingOf, MovedTo, MovedFrom
<1>2. /\ SumFunctionOnSet(CreditedTo(a), Keys) = 0
      /\ SumFunctionOnSet(StandingOf(a), Withdrawals) = 0
      /\ SumFunctionOnSet(MovedTo(a), Transfers) = 0
      /\ SumFunctionOnSet(MovedFrom(a), Transfers) = 0
  BY <1>1, SumNothing
<1>3. QED
  BY <1>2 DEF Init

\* The ledger of an account is the opening balance, the deposits in the inbox
\* and the transfers it got, without the withdrawals that stand and the
\* transfers it made, each counted once (deposit.service.ts:123-176,
\* withdraw.service.ts:99-303, wallet.service.ts:114-227).
THEOREM LedgersAreExplained == Spec => []LedgerExplained
BY InitEstablishes, NextKeeps, LedgerInit, LedgerStep, PTL DEF Spec

-----------------------------------------------------------------------------
(***************************************************************************)
(* Lots.                                                                   *)
(***************************************************************************)
Ids == 1 .. new - 1

\* What a table has of a wallet at an id.
Has(f, w, i) == IF i \in DOMAIN f /\ f[i].wallet = w THEN f[i].quantity ELSE 0

\* A quantity, as far as a table that knows the id has it.
Capped(f, i, q) == IF i \in DOMAIN f /\ f[i].quantity < q THEN f[i].quantity ELSE q

\* A lot's quantity when whoever has a copy of it writes that back.
Worth(w, i) == Capped(loaded, i, Capped(call.found, i, Has(lots, w, i)))

Held(w) == [i \in Ids |-> Has(lots, w, i)]
Worths(w) == [i \in Ids |-> Worth(w, i)]

\* What the job in work has sold of each lot, has still to sell, and has bought.
SoldOf(i) == loaded[i].quantity - (IF i \in toDelete THEN 0 ELSE heap[i].quantity)
SoldSoFar == Sum([i \in DOMAIN loaded |-> SoldOf(i)], DOMAIN loaded)
Rest == Sum(fills, at .. Len(fills))
Bought == Sum([k \in DOMAIN toCreate |-> toCreate[k].quantity], DOMAIN toCreate)

Selling == side = "SELL" /\ step \in {"push", "lot"}

\* The lists of the engine.
Lists ==
  /\ step \in {"idle", "load"} =>
       /\ DOMAIN heap = {} /\ toCreate = <<>> /\ toUpdate = <<>> /\ toDelete = {}
  /\ step = "load" => at = 1
  /\ side = "BUY" => step # "lot" /\ toUpdate = <<>> /\ toDelete = {}
  /\ side = "SELL" => toCreate = <<>>
  /\ step # "lot" => remain = 0
  /\ \A k \in DOMAIN toCreate : toCreate[k].wallet = "SPOT"
  /\ \A i \in DOMAIN heap : /\ heap[i].wallet = "SPOT" /\ loaded[i].wallet = "SPOT"
                            /\ heap[i].quantity <= loaded[i].quantity
                            /\ i \notin Updated \union toDelete => heap[i] = loaded[i]

\* The wallet of a row, also of one that is to be inserted from a copy.
RowWallet(i) == IF i \in DOMAIN lots THEN lots[i].wallet ELSE Nobody

\* No lot goes to another wallet; one that is inserted again loses its own.
WalletKept ==
  /\ \A i \in DOMAIN lots \intersect DOMAIN loaded : lots[i].wallet \in {"SPOT", Nobody}
  /\ \A i \in DOMAIN lots \intersect DOMAIN call.found : lots[i].wallet \in {call.from, Nobody}
  /\ \A i \in DOMAIN loaded \intersect DOMAIN call.found : call.from = "SPOT"
  /\ \A i \in DOMAIN call.found : call.found[i].wallet = call.from

\* Orders and transfers take no more than there is.
Reserved ==
  /\ \A w \in Wallets : Available(w) >= 0
  /\ side = "SELL" /\ step \in {"load", "push", "lot"} => locked >= Traded
  /\ call # NoCall => Total(call.found) >= call.amount

\* The books of the job in work.
Books ==
  /\ Selling => /\ SoldSoFar = Traded - remain - Rest
                /\ Total(loaded) >= Traded
  /\ Unsaved = IF Selling THEN Traded - remain - Rest ELSE 0
  /\ side = "BUY" /\ step = "push" => Bought = Traded - Rest

\* Even a copy that is written back leaves a wallet lots for what it holds.
Enough == \A w \in Wallets : Sum(Worths(w), Ids) >= holding[w]

LotsInv == LotsTypeOK /\ Lists /\ WalletKept /\ Reserved /\ Books /\ Enough
             /\ LotsMatchHoldings /\ PnlOncePerSale

-----------------------------------------------------------------------------
\* What the next amount takes, lot by lot.
LotTable(f) == f \in [DOMAIN f -> Lot] /\ IsFiniteSet(DOMAIN f) /\ DOMAIN f \subseteq Nat

Quantities(f) == [i \in DOMAIN f |-> f[i].quantity]

LEMMA MinOfPair ==
  ASSUME NEW a \in Int, NEW b \in Int
  PROVE  Min({a, b}) = IF a <= b THEN a ELSE b
<1>1. \E x \in {a, b} : \A y \in {a, b} : x <= y
  OBVIOUS
<1>2. Min({a, b}) \in {a, b} /\ \A y \in {a, b} : Min({a, b}) <= y
  BY <1>1 DEF Min
<1> QED
  BY <1>2

LEMMA QuantityTypes ==
  ASSUME NEW f, LotTable(f), NEW S \in SUBSET DOMAIN f
  PROVE  /\ \A i \in DOMAIN f : Quantities(f)[i] = f[i].quantity /\ f[i].quantity \in Nat \ {0}
         /\ IsFiniteSet(S)
         /\ Quantity(f, S) = Sum(Quantities(f), S) /\ Quantity(f, S) \in Nat
<1>1. \A i \in DOMAIN f : Quantities(f)[i] = f[i].quantity /\ f[i].quantity \in Nat \ {0}
  BY DEF LotTable, Quantities, Lot
<1>2. IsFiniteSet(S)
  BY FS_Subset DEF LotTable
<1>3. Quantity(f, S) = Sum(Quantities(f), S)
  BY DEF Quantity, Quantities
<1>4. \A i \in S : Quantities(f)[i] \in Nat
  BY <1>1
<1>5. Sum(Quantities(f), S) \in Nat
  BY <1>2, <1>4, SumNat DEF Sum
<1> QED
  BY <1>1, <1>2, <1>3, <1>5

\* No amount takes more of a lot than it has.
LEMMA TakenBounds ==
  ASSUME NEW f, LotTable(f), NEW amount \in Nat, NEW i \in DOMAIN f
  PROVE  Taken(f, amount, i) \in 0 .. f[i].quantity
<1> DEFINE n == Quantity(f, {j \in DOMAIN f : Newer(f, j, i)})
<1>1. n \in Nat
  BY QuantityTypes
<1>2. f[i].quantity \in Nat
  BY QuantityTypes
<1>3. Taken(f, amount, i) = IF n >= amount THEN 0 ELSE Min({f[i].quantity, amount - n})
  BY DEF Taken
<1>4. Min({f[i].quantity, amount - n}) =
        IF f[i].quantity <= amount - n THEN f[i].quantity ELSE amount - n
  <2>1. amount - n \in Int
    BY <1>1
  <2> HIDE DEF n
  <2> QED
    BY <1>2, <2>1, MinOfPair
<1> HIDE DEF n
<1> QED
  BY <1>1, <1>2, <1>3, <1>4

\* Some lots have an oldest one.
LEMMA OldestExists ==
  ASSUME NEW f, LotTable(f), NEW T \in SUBSET DOMAIN f, T # {}
  PROVE  \E o \in T : \A j \in T \ {o} : Newer(f, j, o)
<1> DEFINE ages == {f[i].age : i \in T}
<1>1. \A i \in DOMAIN f : f[i].age \in Nat /\ i \in Nat
  BY DEF LotTable, Lot
<1>2. PICK a \in ages : \A b \in ages : a <= b
  <2>1. ages \in SUBSET Nat /\ ages # {}
    BY <1>1
  <2> HIDE DEF ages
  <2> QED
    BY <2>1, Smallest
<1> DEFINE oldest == {i \in T : f[i].age = a}
<1>3. PICK o \in oldest : \A j \in oldest : o <= j
  <2>1. oldest \in SUBSET Nat /\ oldest # {}
    BY <1>1, <1>2
  <2> HIDE DEF oldest
  <2> QED
    BY <2>1, Smallest
<1>4. o \in T /\ f[o].age = a
  OBVIOUS
<1>5. ASSUME NEW j \in T \ {o} PROVE Newer(f, j, o)
  <2>1. f[j].age \in Nat /\ f[o].age \in Nat /\ j \in Nat /\ o \in Nat
    BY <1>1, <1>4
  <2>2. f[j].age >= f[o].age
    BY <1>2, <1>4, <2>1
  <2>3. f[j].age = f[o].age => o <= j
    BY <1>3, <1>4
  <2> HIDE DEF oldest, ages
  <2> QED
    BY <2>1, <2>2, <2>3 DEF Newer
<1> QED
  BY <1>4, <1>5

TakenOf(f, amount) == [i \in DOMAIN f |-> Taken(f, amount, i)]

\* Enough lots give the whole amount, whatever their order.
LEMMA TakenInFull ==
  ASSUME NEW f, LotTable(f), NEW amount \in Nat, Total(f) >= amount
  PROVE  Sum(TakenOf(f, amount), DOMAIN f) = amount
<1> DEFINE t == TakenOf(f, amount)
           q == Quantities(f)
           Closed(T) == \A i \in T : \A j \in DOMAIN f : Newer(f, j, i) => j \in T
           Good(T) == Sum(t, T) = IF Sum(q, T) <= amount THEN Sum(q, T) ELSE amount
           Bad == {n \in Nat : \E T \in SUBSET DOMAIN f :
                     Closed(T) /\ Cardinality(T) = n /\ ~ Good(T)}
<1>0. \A T \in SUBSET DOMAIN f : IsFiniteSet(T) /\ Cardinality(T) \in Nat
  BY FS_Subset, FS_CardinalityType DEF LotTable
<1>1. \A i \in DOMAIN f : t[i] \in Int /\ q[i] \in Int
  <2> TAKE i \in DOMAIN f
  <2>1. f[i].quantity \in Nat /\ q[i] = f[i].quantity
    BY QuantityTypes
  <2>2. Taken(f, amount, i) \in 0 .. f[i].quantity
    BY TakenBounds
  <2>3. t[i] = Taken(f, amount, i)
    BY DEF TakenOf
  <2> HIDE DEF t, q
  <2> QED
    BY <2>1, <2>2, <2>3
<1>2. \A T \in SUBSET DOMAIN f : Sum(t, T) \in Int /\ Sum(q, T) \in Int
  <2> TAKE T \in SUBSET DOMAIN f
  <2>1. IsFiniteSet(T) /\ \A i \in T : t[i] \in Int /\ q[i] \in Int
    BY <1>0, <1>1
  <2> HIDE DEF t, q
  <2> QED
    BY <2>1, SumElement DEF Sum
<1>3. Bad = {}
  <2> SUFFICES ASSUME Bad # {} PROVE FALSE
    OBVIOUS
  <2>1. PICK n \in Bad : \A m \in Bad : n <= m
    BY Smallest, Bad \in SUBSET Nat
  <2>2. PICK T \in SUBSET DOMAIN f : Closed(T) /\ Cardinality(T) = n /\ ~ Good(T)
    BY <2>1
  <2>3. T # {}
    <3>1. Sum(t, {}) = 0 /\ Sum(q, {}) = 0
      BY SumEmpty DEF Sum
    <3>2. Good({})
      BY <3>1
    <3> HIDE DEF Good
    <3> QED
      BY <2>2, <3>2
  <2>4. PICK o \in T : \A j \in T \ {o} : Newer(f, j, o)
    BY <2>3, OldestExists
  <2> DEFINE R == T \ {o}
  <2>5. o \in DOMAIN f /\ \A i \in DOMAIN f : f[i].age \in Nat /\ i \in Nat
    BY DEF LotTable, Lot
  <2>6. {j \in DOMAIN f : Newer(f, j, o)} = R
    <3>1. ~ Newer(f, o, o)
      BY <2>5 DEF Newer
    <3>2. \A j \in DOMAIN f : Newer(f, j, o) => j \in T
      BY <2>2
    <3> QED
      BY <2>4, <3>1, <3>2
  <2>7. Closed(R)
    <3> SUFFICES ASSUME NEW i \in R, NEW j \in DOMAIN f, Newer(f, j, i) PROVE j \in R
      OBVIOUS
    <3>1. j \in T /\ i \in DOMAIN f
      BY <2>2
    <3>2. Newer(f, i, o)
      BY <2>4
    <3>3. j # o
      BY <2>5, <3>1, <3>2 DEF Newer
    <3> QED
      BY <3>1, <3>3
  <2>8. R \in SUBSET DOMAIN f /\ Cardinality(R) = n - 1 /\ n - 1 \in Nat
    <3>1. IsFiniteSet(T) /\ o \in T
      BY <1>0
    <3>2. Cardinality(R) = Cardinality(T) - 1
      BY <3>1, FS_RemoveElement
    <3>3. Cardinality(R) \in Nat
      BY <1>0
    <3>4. Cardinality(T) = n
      BY <2>2
    <3> QED
      BY <3>2, <3>3, <3>4
  <2>9. Good(R)
    <3>1. ~ Good(R) => n - 1 \in Bad
      BY <2>7, <2>8
    <3>2. n - 1 \notin Bad
      <4>1. n \in Nat
        OBVIOUS
      <4> HIDE DEF Bad
      <4> QED
        BY <2>1, <4>1
    <3> QED
      BY <3>1, <3>2
  <2>10. /\ Sum(t, T) = t[o] + Sum(t, R)
         /\ Sum(q, T) = q[o] + Sum(q, R)
    <3>1. IsFiniteSet(T) /\ \A i \in T : t[i] \in Int /\ q[i] \in Int
      BY <1>0, <1>1
    <3> HIDE DEF t, q
    <3> QED
      BY <3>1, SumElement DEF Sum
  <2>11. t[o] = IF Sum(q, R) >= amount THEN 0 ELSE Min({q[o], amount - Sum(q, R)})
    <3>1. Quantity(f, R) = Sum(q, R) /\ q[o] = f[o].quantity
      BY <2>5, QuantityTypes
    <3>2. t[o] = Taken(f, amount, o)
      BY <2>5 DEF TakenOf
    <3> QED
      BY <2>6, <3>1, <3>2 DEF Taken
  <2>12. q[o] \in Nat /\ Sum(q, R) \in Int /\ Sum(t, R) \in Int
    <3>1. q[o] \in Nat
      BY <2>5, QuantityTypes
    <3> QED
      BY <1>2, <2>8, <3>1
  <2>13. Min({q[o], amount - Sum(q, R)}) =
           IF q[o] <= amount - Sum(q, R) THEN q[o] ELSE amount - Sum(q, R)
    <3>1. q[o] \in Int /\ amount - Sum(q, R) \in Int
      BY <2>12
    <3> HIDE DEF q, R
    <3> QED
      BY <3>1, MinOfPair
  <2>14. Good(T)
    <3> HIDE DEF q, t, R
    <3> QED
      BY <2>9, <2>10, <2>11, <2>12, <2>13
  <2> QED
    BY <2>2, <2>14
<1>4. Good(DOMAIN f)
  <2>1. Cardinality(DOMAIN f) \in Nat /\ DOMAIN f \in SUBSET DOMAIN f
    BY <1>0
  <2> QED
    BY <1>3, <2>1
<1>5. Sum(q, DOMAIN f) = Total(f)
  BY QuantityTypes DEF Total
<1>6. Sum(q, DOMAIN f) \in Int
  BY <1>2
<1> HIDE DEF q
<1> QED
  BY <1>4, <1>5, <1>6

-----------------------------------------------------------------------------
\* How much two tables of ids differ.
LEMMA NotBelow ==
  ASSUME NEW n \in Nat, NEW m \in Nat, n <= m, NEW f, NEW g, NEW s,
         \A i \in 1 .. n : f[i] \in Int /\ s[i] \in Int /\ g[i] >= f[i] - s[i],
         \A i \in 1 .. m : g[i] \in Int
  PROVE  /\ Sum(g, 1 .. m) >= Sum(f, 1 .. n) - Sum(s, 1 .. n) + Sum(g, n + 1 .. m)
         /\ Sum(g, 1 .. m) = Sum(g, 1 .. n) + Sum(g, n + 1 .. m)
         /\ Sum(f, 1 .. n) \in Int /\ Sum(s, 1 .. n) \in Int /\ Sum(g, n + 1 .. m) \in Int
<1> DEFINE h == [i \in 1 .. n |-> f[i] - s[i]]
<1>1. /\ IsFiniteSet(1 .. n) /\ IsFiniteSet(1 .. m) /\ 1 .. n \in SUBSET (1 .. m)
      /\ (1 .. m) \ (1 .. n) = n + 1 .. m /\ IsFiniteSet(n + 1 .. m)
      /\ \A i \in n + 1 .. m : g[i] \in Int
      /\ \A i \in 1 .. n : g[i] \in Int
  BY FS_Interval
<1>2. Sum(g, 1 .. m) = Sum(g, 1 .. n) + Sum(g, n + 1 .. m)
  <2> DEFINE S == 1 .. m
             R == 1 .. n
  <2>1. IsFiniteSet(S) /\ R \in SUBSET S /\ S \ R = n + 1 .. m /\ \A i \in S : g[i] \in Int
    BY <1>1
  <2> HIDE DEF S, R
  <2>2. SumFunctionOnSet(g, S) = SumFunctionOnSet(g, R) + SumFunctionOnSet(g, S \ R)
    BY <2>1, SumSplit
  <2> QED
    BY <2>1, <2>2 DEF Sum, S, R
<1>3. \A i \in 1 .. n : h[i] \in Int /\ s[i] \in Int /\ f[i] = h[i] + s[i] /\ h[i] <= g[i]
  BY <1>1
<1> HIDE DEF h
<1>4. Sum(f, 1 .. n) = Sum(h, 1 .. n) + Sum(s, 1 .. n)
  BY <1>1, <1>3, SumAdd DEF Sum
<1>5. Sum(h, 1 .. n) <= Sum(g, 1 .. n)
  BY <1>1, <1>3, SumMonotone DEF Sum
<1>6. Sum(h, 1 .. n) \in Int /\ Sum(s, 1 .. n) \in Int
  BY <1>1, <1>3, SumElement DEF Sum
<1>7. Sum(g, 1 .. n) \in Int /\ Sum(g, n + 1 .. m) \in Int
  BY <1>1, SumElement DEF Sum
<1> QED
  BY <1>2, <1>4, <1>5, <1>6, <1>7

\* The sum over a part, with zero for the rest.
LEMMA SumOfPart ==
  ASSUME NEW S, IsFiniteSet(S), NEW R \in SUBSET S, NEW f, NEW g,
         \A x \in R : f[x] \in Int /\ g[x] = f[x],
         \A x \in S \ R : g[x] = 0
  PROVE  Sum(g, S) = Sum(f, R)
<1>1. IsFiniteSet(R)
  BY FS_Subset
<1>2. \A x \in S : g[x] \in Int
  <2> TAKE x \in S
  <2>1. CASE x \in R
    BY <2>1
  <2>2. CASE x \notin R
    BY <2>2
  <2> QED
    BY <2>1, <2>2
<1>3. Sum(g, R) = Sum(g, S)
  BY <1>2, SumZeros DEF Sum
<1>4. Sum(g, R) = Sum(f, R)
  BY <1>1, SumSame DEF Sum
<1> QED
  BY <1>3, <1>4

-----------------------------------------------------------------------------
\* Types of what the state holds.
LEMMA Tables ==
  ASSUME LotsTypeOK
  PROVE  /\ Ids = 1 .. new - 1 /\ IsFiniteSet(Ids) /\ new \in Nat \ {0}
         /\ LotTable(lots) /\ LotTable(heap) /\ LotTable(loaded) /\ LotTable(call.found)
         /\ DOMAIN lots \subseteq Ids /\ DOMAIN heap \subseteq Ids
         /\ DOMAIN loaded = DOMAIN heap /\ DOMAIN call.found \subseteq Ids
         /\ \A w \in Wallets : LotTable(LotsOf(w))
<1>1. new \in Nat \ {0} /\ IsFiniteSet(1 .. new - 1)
  BY FS_Interval DEF LotsTypeOK
<1>2. ASSUME NEW f, Table(f) PROVE LotTable(f) /\ DOMAIN f \subseteq Ids
  <2>1. DOMAIN f \subseteq 1 .. new - 1 /\ IsFiniteSet(DOMAIN f)
    BY <1>1, <1>2, FS_Subset DEF Table
  <2> QED
    BY <1>1, <1>2, <2>1 DEF Table, LotTable, Ids
<1>3. Table(call.found)
  <2>1. CASE call = NoCall
    <3>1. DOMAIN NoLots = {} /\ NoLots \in [DOMAIN NoLots -> Lot]
      BY DEF NoLots
    <3>2. call.found = NoLots
      BY <2>1 DEF NoCall, Nobody
    <3> QED
      BY <3>1, <3>2 DEF Table
  <2>2. CASE call # NoCall
    BY <2>2 DEF LotsTypeOK
  <2> QED
    BY <2>1, <2>2
<1>4. ASSUME NEW w \in Wallets PROVE Table(LotsOf(w))
  BY DEF LotsTypeOK, LotsOf, Table
<1> QED
  BY <1>1, <1>2, <1>3, <1>4 DEF LotsTypeOK, Ids

LEMMA FillTypes ==
  ASSUME NEW s \in Seq(Nat \ {0}), NEW S \in SUBSET DOMAIN s
  PROVE  /\ IsFiniteSet(S) /\ Sum(s, S) \in Nat /\ DOMAIN s = 1 .. Len(s) /\ Len(s) \in Nat
         /\ \A k \in DOMAIN s : s[k] \in Nat \ {0}
<1>1. DOMAIN s = 1 .. Len(s) /\ Len(s) \in Nat /\ \A k \in DOMAIN s : s[k] \in Nat \ {0}
  OBVIOUS
<1>2. IsFiniteSet(S)
  <2>1. IsFiniteSet(DOMAIN s)
    BY <1>1, FS_Interval
  <2> QED
    BY <2>1, FS_Subset
<1>3. \A k \in S : s[k] \in Nat
  BY <1>1
<1> QED
  BY <1>1, <1>2, <1>3, SumNat DEF Sum

LEMMA JobTypes ==
  ASSUME LotsTypeOK
  PROVE  /\ Traded \in Nat /\ Rest \in Nat /\ Rest <= Traded
         /\ Unsaved \in Nat /\ Bought \in Nat
<1>1. fills \in Seq(Nat \ {0}) /\ at \in 1 .. Len(fills) + 1
  BY DEF LotsTypeOK
<1>2. Traded \in Nat /\ Rest \in Nat /\ Rest <= Traded
  <2>1. DOMAIN fills = 1 .. Len(fills) /\ IsFiniteSet(DOMAIN fills) /\ Traded \in Nat
    BY <1>1, FillTypes DEF Traded
  <2>2. at .. Len(fills) \in SUBSET DOMAIN fills
    BY <1>1, <2>1
  <2>3. Rest \in Nat
    BY <1>1, <2>2, FillTypes DEF Rest
  <2>4. \A k \in DOMAIN fills : fills[k] \in Int
    BY <1>1
  <2>5. Traded = Rest + Sum(fills, DOMAIN fills \ (at .. Len(fills)))
    BY <2>1, <2>2, <2>4, SumSplit DEF Traded, Rest, Sum
  <2>6. Sum(fills, DOMAIN fills \ (at .. Len(fills))) \in Nat
    BY <1>1, FillTypes
  <2> QED
    BY <2>1, <2>3, <2>5, <2>6
<1>3. Unsaved \in Nat
  <2> DEFINE f == [k \in DOMAIN pnlList |-> NewPnl(pnlList[k])]
  <2>1. pnlList \in Seq(Realized)
    BY DEF LotsTypeOK
  <2>2. IsFiniteSet(DOMAIN pnlList)
    BY <2>1, FS_Interval
  <2>3. \A k \in DOMAIN pnlList : f[k] \in Nat
    <3> TAKE k \in DOMAIN pnlList
    <3>1. pnlList[k] \in Realized
      BY <2>1
    <3>2. f[k] = IF pnlList[k].saved THEN 0 ELSE pnlList[k].quantity
      BY DEF NewPnl
    <3> HIDE DEF f
    <3> QED
      BY <3>1, <3>2 DEF Realized
  <2> HIDE DEF f
  <2>4. Sum(f, DOMAIN pnlList) \in Nat
    BY <2>2, <2>3, SumNat DEF Sum
  <2> QED
    BY <2>4 DEF Unsaved, f
<1>4. Bought \in Nat
  <2> DEFINE f == [k \in DOMAIN toCreate |-> toCreate[k].quantity]
  <2>1. toCreate \in Seq(Lot)
    BY DEF LotsTypeOK
  <2>2. IsFiniteSet(DOMAIN toCreate)
    BY <2>1, FS_Interval
  <2>3. \A k \in DOMAIN toCreate : f[k] \in Nat
    <3> TAKE k \in DOMAIN toCreate
    <3>1. toCreate[k] \in Lot
      BY <2>1
    <3> QED
      BY <3>1 DEF Lot
  <2> HIDE DEF f
  <2>4. Sum(f, DOMAIN toCreate) \in Nat
    BY <2>2, <2>3, SumNat DEF Sum
  <2> QED
    BY <2>4 DEF Bought, f
<1> QED
  BY <1>2, <1>3, <1>4

-----------------------------------------------------------------------------
\* Every step keeps the types.
LEMMA TablesKept ==
  ASSUME LotsTypeOK, new' \in Nat, new' >= new
  PROVE  /\ 1 .. new - 1 \subseteq 1 .. new' - 1
         /\ UNCHANGED lots => Table(lots)'
         /\ UNCHANGED heap => Table(heap)'
         /\ UNCHANGED loaded => Table(loaded)'
         /\ UNCHANGED call /\ call # NoCall => Table(call.found)'
<1>1. new \in Nat
  BY DEF LotsTypeOK
<1>2. 1 .. new - 1 \subseteq 1 .. new' - 1
  <2>1. ASSUME NEW a \in Nat, NEW b \in Nat, b >= a PROVE 1 .. a - 1 \subseteq 1 .. b - 1
    BY <2>1
  <2> QED
    BY <1>1, <2>1
<1> QED
  BY <1>2 DEF LotsTypeOK, Table

LEMMA StartTypes ==
  ASSUME LotsTypeOK, NEW s \in {"SELL", "BUY"}, NEW q \in Seq(Nat \ {0}), StartJob(s, q)
  PROVE  LotsTypeOK'
<1>1. Sum(q, DOMAIN q) \in Nat /\ Len(q) \in Nat
  BY FillTypes
<1>2. locked' \in Nat /\ 1 \in 1 .. Len(q) + 1
  BY <1>1 DEF LotsTypeOK, StartJob
<1>3. jobs' \in 0 .. MaxJobs
  BY LotsAssumption DEF LotsTypeOK, StartJob
<1> QED
  BY <1>2, <1>3 DEF LotsTypeOK, StartJob, fifo, api, Table

LEMMA LoadTypes == LotsTypeOK /\ Lists /\ Load => LotsTypeOK'
<1> SUFFICES ASSUME LotsTypeOK, Lists, Load PROVE LotsTypeOK'
  OBVIOUS
<1>1. Table(LotsOf("SPOT"))
  BY DEF LotsTypeOK, LotsOf, Table
<1>2. Table(heap)' /\ Table(loaded)' /\ DOMAIN heap' = DOMAIN loaded'
  BY <1>1 DEF Load, Table
<1>3. toUpdate' = <<>> /\ toDelete' = {}
  BY DEF Lists, Load
<1>4. toUpdate' \in Seq(DOMAIN heap') /\ toDelete' \subseteq DOMAIN heap'
  BY <1>3
<1> QED
  BY <1>2, <1>4 DEF LotsTypeOK, Load, tables, work, api, Table

LEMMA BuyTypes == LotsTypeOK /\ Buy => LotsTypeOK'
<1> SUFFICES ASSUME LotsTypeOK, Buy PROVE LotsTypeOK'
  OBVIOUS
<1>1. new' = new + 1 /\ new \in Nat
  BY DEF LotsTypeOK, Buy
<1>2. [wallet |-> "SPOT", age |-> new, quantity |-> fills[at]] \in Lot
  <2>1. fills[at] \in Nat \ {0}
    BY DEF LotsTypeOK, Buy
  <2> QED
    BY <1>1, <2>1 DEF Lot, Wallets
<1>3. toCreate' \in Seq(Lot) /\ at' \in 1 .. Len(fills) + 1
  BY <1>2 DEF LotsTypeOK, Buy
<1>4. /\ Table(lots)' /\ Table(heap)' /\ Table(loaded)'
      /\ call # NoCall => Table(call.found)'
  BY <1>1, TablesKept DEF Buy, tables, api
<1> QED
  BY <1>1, <1>3, <1>4, SMTT(20) DEF LotsTypeOK, Buy, tables, api

LEMMA SellTypes == LotsTypeOK /\ Sell => LotsTypeOK'
<1> SUFFICES ASSUME LotsTypeOK, Sell PROVE LotsTypeOK'
  OBVIOUS
<1>1. remain' \in Nat /\ at' \in 1 .. Len(fills) + 1
  BY DEF LotsTypeOK, Sell
<1> QED
  BY <1>1 DEF LotsTypeOK, Sell, tables, fifo, api, Table

\* What a sale takes of the oldest lot.
LEMMA SaleOfLot ==
  ASSUME LotsTypeOK, NEW i \in Snapshot, SellLot(i),
         NEW used, used = Min({heap[i].quantity, remain})
  PROVE  /\ used \in Nat \ {0} /\ used <= remain /\ used <= heap[i].quantity
         /\ i \in DOMAIN heap /\ i \notin toDelete /\ heap[i] \in Lot
         /\ remain' = remain - used
         /\ pnlList' = Append(pnlList, [saved |-> FALSE, quantity |-> used])
         /\ \/ /\ used = heap[i].quantity
               /\ toDelete' = toDelete \union {i} /\ UNCHANGED <<heap, toUpdate>>
            \/ /\ used < heap[i].quantity
               /\ toUpdate' = Append(toUpdate, i) /\ UNCHANGED toDelete
               /\ heap' = [heap EXCEPT ![i].quantity = heap[i].quantity - used]
<1>1. i \in DOMAIN heap /\ i \notin toDelete /\ heap[i] \in Lot
  BY DEF Snapshot, LotsTypeOK, Table
<1>2. heap[i].quantity \in Nat \ {0} /\ remain \in Nat \ {0}
  BY <1>1 DEF Lot, LotsTypeOK, SellLot
<1>3. used = IF heap[i].quantity <= remain THEN heap[i].quantity ELSE remain
  BY <1>2, MinOfPair
<1>4. used \in Nat \ {0} /\ used <= remain /\ used <= heap[i].quantity
  BY <1>2, <1>3
<1>5. UsedUp(heap[i].quantity - used) <=> used = heap[i].quantity
  BY <1>2, <1>4 DEF UsedUp
<1>6. /\ remain' = remain - used
      /\ pnlList' = Append(pnlList, [saved |-> FALSE, quantity |-> used])
      /\ IF UsedUp(heap[i].quantity - used)
         THEN toDelete' = toDelete \union {i} /\ UNCHANGED <<heap, toUpdate>>
         ELSE /\ toUpdate' = Append(toUpdate, i)
              /\ heap' = [heap EXCEPT ![i].quantity = heap[i].quantity - used]
              /\ UNCHANGED toDelete
  BY DEF SellLot
<1>7. used # heap[i].quantity => used < heap[i].quantity
  BY <1>2, <1>4
<1> QED
  BY <1>1, <1>4, <1>5, <1>6, <1>7

LEMMA SellLotTypes ==
  ASSUME LotsTypeOK, NEW i \in Snapshot, SellLot(i)
  PROVE  LotsTypeOK'
<1> DEFINE used == Min({heap[i].quantity, remain})
<1>0. used = Min({heap[i].quantity, remain})
  OBVIOUS
<1> HIDE DEF used
<1>1. /\ used \in Nat \ {0} /\ used <= remain /\ used <= heap[i].quantity
      /\ i \in DOMAIN heap /\ heap[i] \in Lot
      /\ remain' = remain - used
      /\ pnlList' = Append(pnlList, [saved |-> FALSE, quantity |-> used])
  BY <1>0, SaleOfLot
<1>2. remain' \in Nat
  BY <1>1 DEF LotsTypeOK
<1>3. pnlList' \in Seq(Realized)
  <2>1. [saved |-> FALSE, quantity |-> used] \in Realized
    BY <1>1 DEF Realized
  <2>2. pnlList \in Seq(Realized)
    BY DEF LotsTypeOK
  <2> QED
    BY <1>1, <2>1, <2>2, AppendProperties
<1>4. /\ Table(heap)' /\ DOMAIN heap' = DOMAIN heap /\ toUpdate' \in Seq(DOMAIN heap)
      /\ toDelete' \subseteq DOMAIN heap
  <2>1. CASE toDelete' = toDelete \union {i} /\ UNCHANGED <<heap, toUpdate>>
    BY <1>1, <2>1 DEF LotsTypeOK, SellLot, Table
  <2>2. CASE /\ used < heap[i].quantity
             /\ toUpdate' = Append(toUpdate, i) /\ UNCHANGED toDelete
             /\ heap' = [heap EXCEPT ![i].quantity = heap[i].quantity - used]
    <3>1. [heap[i] EXCEPT !.quantity = heap[i].quantity - used] \in Lot
      BY <1>1, <2>2 DEF Lot
    <3>2. heap \in [DOMAIN heap -> Lot] /\ DOMAIN heap \subseteq 1 .. new - 1
      BY DEF LotsTypeOK, Table
    <3>3. heap' \in [DOMAIN heap -> Lot] /\ DOMAIN heap' = DOMAIN heap
      <4>1. heap' = [heap EXCEPT ![i] = [heap[i] EXCEPT !.quantity = heap[i].quantity - used]]
        BY <2>2
      <4> QED
        BY <1>1, <3>1, <3>2, <4>1
    <3>4. toUpdate' \in Seq(DOMAIN heap)
      BY <1>1, <2>2 DEF LotsTypeOK
    <3> QED
      BY <2>2, <3>2, <3>3, <3>4 DEF LotsTypeOK, SellLot, Table
  <2> QED
    BY <1>0, <2>1, <2>2, SaleOfLot
<1> QED
  BY <1>2, <1>3, <1>4 DEF LotsTypeOK, SellLot, tables, work, api, Table

LEMMA LotsDoneTypes == LotsTypeOK /\ LotsDone => LotsTypeOK'
<1> SUFFICES ASSUME LotsTypeOK, LotsDone PROVE LotsTypeOK'
  OBVIOUS
<1>1. remain' = 0 /\ step' = "push" /\ UNCHANGED <<tables, new, fifo, pnlList, work, api, deaths>>
  BY DEF LotsDone
<1> QED
  BY <1>1 DEF LotsTypeOK, tables, fifo, work, api, Table

LEMMA ClearedTypes ==
  Cleared => /\ Table(heap)' /\ Table(loaded)' /\ DOMAIN loaded' = DOMAIN heap'
             /\ DOMAIN heap' = {} /\ DOMAIN loaded' = {}
             /\ toCreate' = <<>> /\ toUpdate' = <<>> /\ toDelete' = {}
             /\ toCreate' \in Seq(Lot) /\ toUpdate' \in Seq(DOMAIN heap')
             /\ toDelete' \subseteq DOMAIN heap'
<1>1. DOMAIN NoLots = {} /\ NoLots \in [DOMAIN NoLots -> Lot]
  BY DEF NoLots
<1> QED
  BY <1>1 DEF Cleared, Table

LEMMA ResetTypes == LotsTypeOK /\ Reset => LotsTypeOK'
  BY ClearedTypes DEF LotsTypeOK, Reset, tables, work, api, Table

LEMMA WorkerDiesTypes == LotsTypeOK /\ WorkerDies => LotsTypeOK'
<1> SUFFICES ASSUME LotsTypeOK, WorkerDies PROVE LotsTypeOK'
  OBVIOUS
<1>1. deaths' \in 0 .. MaxDeaths
  BY LotsAssumption DEF LotsTypeOK, WorkerDies
<1>2. /\ pnlList' = <<>> /\ step' = "idle" /\ remain' = 0
      /\ UNCHANGED <<tables, new, work, api>>
  BY DEF WorkerDies
<1>3. /\ Table(heap)' /\ Table(loaded)' /\ DOMAIN loaded' = DOMAIN heap'
      /\ toCreate' \in Seq(Lot) /\ toUpdate' \in Seq(DOMAIN heap')
      /\ toDelete' \subseteq DOMAIN heap'
  BY ClearedTypes DEF WorkerDies
<1>4. pnlList' \in Seq(Realized)
  BY <1>2
<1> QED
  BY <1>1, <1>2, <1>3, <1>4 DEF LotsTypeOK, tables, work, api, Table

LEMMA FindTypes ==
  ASSUME LotsTypeOK, NEW w \in Wallets, NEW amount \in Amounts, FindLots(w, amount)
  PROVE  LotsTypeOK'
<1>1. calls' \in 0 .. MaxCalls
  BY LotsAssumption DEF LotsTypeOK, FindLots
<1>2. Table(LotsOf(w))
  BY DEF LotsTypeOK, LotsOf, Table
<1>3. call' # NoCall => call'.from \in Wallets /\ call'.amount \in Amounts /\ Table(call.found)'
  BY <1>2 DEF FindLots, Table
<1> QED
  BY <1>1, <1>3 DEF LotsTypeOK, FindLots, tables, fifo, work, Table

-----------------------------------------------------------------------------
\* What the transaction of a job writes.
LEMMA ListTypes ==
  ASSUME LotsTypeOK
  PROVE  /\ Len(toUpdate) \in Nat /\ DOMAIN toUpdate = 1 .. Len(toUpdate)
         /\ Len(toCreate) \in Nat /\ DOMAIN toCreate = 1 .. Len(toCreate)
         /\ \A k \in DOMAIN toUpdate : toUpdate[k] \in DOMAIN heap
         /\ \A k \in DOMAIN toCreate : toCreate[k] \in Lot
         /\ \A i \in DOMAIN heap : heap[i] \in Lot /\ i \in Ids
         /\ Updated \subseteq DOMAIN heap /\ toDelete \subseteq DOMAIN heap
<1>1. toUpdate \in Seq(DOMAIN heap) /\ toCreate \in Seq(Lot) /\ toDelete \subseteq DOMAIN heap
  BY DEF LotsTypeOK
<1>2. \A i \in DOMAIN heap : heap[i] \in Lot /\ i \in Ids
  BY DEF LotsTypeOK, Table, Ids
<1>3. \A k \in DOMAIN toUpdate : toUpdate[k] \in DOMAIN heap
  BY <1>1
<1> QED
  BY <1>1, <1>2, <1>3 DEF Updated

\* What save() makes of a copy.
LEMMA SavedLots ==
  ASSUME LotsTypeOK, NEW i, NEW lot \in Lot
  PROVE  /\ SavedLot(i, lot) \in Lot /\ SavedLot(i, lot).quantity = lot.quantity
         /\ SavedLot(i, lot).wallet = RowWallet(i)
<1>1. CASE i \in DOMAIN lots
  <2>1. lots[i] \in Lot
    BY <1>1 DEF LotsTypeOK, Table
  <2>2. SavedLot(i, lot) = [lots[i] EXCEPT !.quantity = lot.quantity] /\ RowWallet(i) = lots[i].wallet
    BY <1>1 DEF SavedLot, RowWallet
  <2> QED
    BY <2>1, <2>2 DEF Lot
<1>2. CASE i \notin DOMAIN lots
  <2>1. SavedLot(i, lot) = [lot EXCEPT !.wallet = Nobody] /\ RowWallet(i) = Nobody
    BY <1>2 DEF SavedLot, RowWallet, Orphan
  <2> QED
    BY <2>1 DEF Lot
<1> QED
  BY <1>1, <1>2

LEMMA Orphans ==
  ASSUME NEW lot \in Lot
  PROVE  Orphan(lot) \in Lot /\ Orphan(lot).wallet = Nobody
  BY DEF Orphan, Lot

LEMMA WrittenLots ==
  ASSUME LotsTypeOK, NEW ks \in Agains
  PROVE  /\ ks \subseteq DOMAIN toUpdate /\ IsFiniteSet(ks)
         /\ DOMAIN Written(ks) = ((DOMAIN lots \union Updated) \ toDelete) \union Inserted(ks)
         /\ Inserted(ks) \subseteq new .. new + Len(toUpdate) + Len(toCreate)
         /\ \A k \in ks : Written(ks)[new + k] = Orphan(heap[toUpdate[k]])
         /\ \A k \in DOMAIN toCreate : Written(ks)[new + Len(toUpdate) + k] = toCreate[k]
         /\ \A i \in (DOMAIN lots \union Updated) \ toDelete :
              Written(ks)[i] = IF i \in Updated THEN SavedLot(i, heap[i]) ELSE lots[i]
         /\ \A i \in Ids : i \notin Inserted(ks)
<1>1. /\ Len(toUpdate) \in Nat /\ DOMAIN toUpdate = 1 .. Len(toUpdate)
      /\ Len(toCreate) \in Nat /\ DOMAIN toCreate = 1 .. Len(toCreate)
      /\ new \in Nat /\ Updated \subseteq Ids /\ DOMAIN lots \subseteq Ids
  BY ListTypes DEF LotsTypeOK, Table, Ids
<1>2. ks \subseteq DOMAIN toUpdate
  BY DEF Agains
<1>3. IsFiniteSet(ks)
  <2>1. IsFiniteSet(DOMAIN toUpdate)
    BY <1>1, FS_Interval
  <2> QED
    BY <1>2, <2>1, FS_Subset
<1>4. DOMAIN Written(ks) = ((DOMAIN lots \union Updated) \ toDelete) \union Inserted(ks)
  BY DEF Written
<1>5. \A k \in ks : new + k \in Inserted(ks) /\ (new + k) - new = k /\ k <= Len(toUpdate)
  BY <1>1, <1>2 DEF Inserted
<1>6. \A k \in DOMAIN toCreate :
        /\ new + Len(toUpdate) + k \in Inserted(ks)
        /\ (new + Len(toUpdate) + k) - new - Len(toUpdate) = k
        /\ ~ ((new + Len(toUpdate) + k) - new <= Len(toUpdate))
  BY <1>1 DEF Inserted
<1>7. \A i \in Ids : i \notin Inserted(ks)
  BY <1>1, <1>2 DEF Inserted, Ids
<1>8. Inserted(ks) \subseteq new .. new + Len(toUpdate) + Len(toCreate)
  BY <1>1, <1>2 DEF Inserted
<1>9. \A i \in Inserted(ks) : Written(ks)[i] = InsertedLot(i)
  BY DEF Written
<1>10. \A k \in ks : Written(ks)[new + k] = Orphan(heap[toUpdate[k]])
  <2> TAKE k \in ks
  <2>1. Written(ks)[new + k] = InsertedLot(new + k)
    BY <1>5, <1>9
  <2>2. InsertedLot(new + k) = Orphan(heap[toUpdate[k]])
    BY <1>5 DEF InsertedLot
  <2> QED
    BY <2>1, <2>2
<1>11. \A k \in DOMAIN toCreate : Written(ks)[new + Len(toUpdate) + k] = toCreate[k]
  <2> TAKE k \in DOMAIN toCreate
  <2>1. Written(ks)[new + Len(toUpdate) + k] = InsertedLot(new + Len(toUpdate) + k)
    BY <1>6, <1>9
  <2>2. InsertedLot(new + Len(toUpdate) + k) = toCreate[k]
    BY <1>6 DEF InsertedLot
  <2> QED
    BY <2>1, <2>2
<1>12. \A i \in (DOMAIN lots \union Updated) \ toDelete :
         Written(ks)[i] = IF i \in Updated THEN SavedLot(i, heap[i]) ELSE lots[i]
  <2> TAKE i \in (DOMAIN lots \union Updated) \ toDelete
  <2>1. i \notin Inserted(ks)
    BY <1>1, <1>7
  <2> QED
    BY <2>1 DEF Written
<1> QED
  BY <1>2, <1>3, <1>4, <1>7, <1>8, <1>10, <1>11, <1>12

LEMMA WrittenTypes ==
  ASSUME LotsTypeOK, NEW ks \in Agains
  PROVE  /\ Written(ks) \in [DOMAIN Written(ks) -> Lot]
         /\ DOMAIN Written(ks) \subseteq 1 .. new + Len(toUpdate) + Len(toCreate)
<1> DEFINE W == Written(ks)
<1>1. \A i \in DOMAIN W : W[i] \in Lot
  <2> TAKE i \in DOMAIN W
  <2>1. CASE i \in (DOMAIN lots \union Updated) \ toDelete
    <3>1. \A j \in DOMAIN lots : lots[j] \in Lot
      BY DEF LotsTypeOK, Table
    <3>2. \A j \in Updated : SavedLot(j, heap[j]) \in Lot
      BY ListTypes, SavedLots
    <3>3. W[i] = IF i \in Updated THEN SavedLot(i, heap[i]) ELSE lots[i]
      BY <2>1, WrittenLots
    <3> HIDE DEF W
    <3> QED
      BY <2>1, <3>1, <3>2, <3>3
  <2>2. CASE i \in {new + k : k \in ks}
    <3>1. PICK k \in ks : i = new + k
      BY <2>2
    <3>2. k \in DOMAIN toUpdate /\ W[i] = Orphan(heap[toUpdate[k]])
      BY <3>1, WrittenLots
    <3> HIDE DEF W
    <3>3. heap[toUpdate[k]] \in Lot
      BY <3>2, ListTypes
    <3> QED
      BY <3>2, <3>3, Orphans
  <2>3. CASE i \in {new + Len(toUpdate) + k : k \in DOMAIN toCreate}
    <3>1. PICK k \in DOMAIN toCreate : i = new + Len(toUpdate) + k
      BY <2>3
    <3>2. W[i] = toCreate[k]
      BY <3>1, WrittenLots
    <3> HIDE DEF W
    <3> QED
      BY <3>2, ListTypes
  <2>4. DOMAIN W = ((DOMAIN lots \union Updated) \ toDelete) \union Inserted(ks)
    BY WrittenLots
  <2> HIDE DEF W
  <2> QED
    BY <2>1, <2>2, <2>3, <2>4 DEF Inserted
<1>2. W \in [DOMAIN W -> Lot]
  <2>1. W = [i \in DOMAIN W |-> W[i]]
    BY DEF Written
  <2> HIDE DEF W
  <2> QED
    BY <1>1, <2>1
<1>3. DOMAIN W \subseteq 1 .. new + Len(toUpdate) + Len(toCreate)
  <2>1. /\ Len(toUpdate) \in Nat /\ Len(toCreate) \in Nat /\ new \in Nat \ {0}
        /\ Updated \subseteq Ids /\ DOMAIN lots \subseteq Ids
    BY ListTypes, Tables
  <2>2. Ids \subseteq 1 .. new + Len(toUpdate) + Len(toCreate)
    BY <2>1 DEF Ids
  <2>3. Inserted(ks) \subseteq 1 .. new + Len(toUpdate) + Len(toCreate)
    <3>1. Inserted(ks) \subseteq new .. new + Len(toUpdate) + Len(toCreate)
      BY WrittenLots
    <3>2. new .. new + Len(toUpdate) + Len(toCreate)
            \subseteq 1 .. new + Len(toUpdate) + Len(toCreate)
      BY <2>1
    <3> QED
      BY <3>1, <3>2
  <2>4. DOMAIN W = ((DOMAIN lots \union Updated) \ toDelete) \union Inserted(ks)
    BY WrittenLots
  <2> HIDE DEF W
  <2> QED
    BY <2>1, <2>2, <2>3, <2>4
<1> QED
  BY <1>2, <1>3

LEMMA CommitTypes == LotsTypeOK /\ Lists /\ Reserved /\ Commit => LotsTypeOK'
<1> SUFFICES ASSUME LotsTypeOK, Lists, Reserved, Commit PROVE LotsTypeOK'
  OBVIOUS
<1>1. PICK ks \in Agains : lots' = Written(ks)
  BY DEF Commit
<1>2. new' = new + Len(toUpdate) + Len(toCreate) + 1 /\ new \in Nat \ {0}
      /\ Len(toUpdate) \in Nat /\ Len(toCreate) \in Nat
  BY ListTypes DEF Commit, LotsTypeOK
<1>3. new' \in Nat \ {0} /\ new' >= new /\ new' - 1 = new + Len(toUpdate) + Len(toCreate)
  BY <1>2
<1>4. Table(lots)'
  BY <1>1, <1>3, WrittenTypes DEF Table
<1>5. /\ Table(heap)' /\ Table(loaded)'
      /\ call # NoCall => Table(call.found)'
  BY <1>3, TablesKept DEF Commit, fifo, api
<1>6. Traded \in Nat /\ Unsaved \in Nat
  BY JobTypes
<1>7. locked' \in Nat /\ sold' \in Nat /\ pnl' \in Nat /\ holding' \in [Wallets -> Int]
  <2>1. side = "SELL" => locked >= Traded
    BY DEF Commit, Reserved
  <2>2. side \in {"BUY", "SELL"} /\ locked \in Nat /\ sold \in Nat /\ pnl \in Nat
        /\ holding \in [Wallets -> Int]
    BY DEF LotsTypeOK
  <2>3. /\ locked' = IF side = "BUY" THEN locked ELSE locked - Traded
        /\ sold' = IF side = "BUY" THEN sold ELSE sold + Traded
        /\ pnl' = pnl + Unsaved
        /\ holding' = [holding EXCEPT !["SPOT"] = IF side = "BUY" THEN @ + Traded ELSE @ - Traded]
    BY DEF Commit
  <2>4. locked' \in Nat /\ sold' \in Nat /\ pnl' \in Nat
    BY <1>6, <2>1, <2>2, <2>3
  <2>5. holding["SPOT"] \in Int
    BY <2>2 DEF Wallets
  <2>6. (IF side = "BUY" THEN holding["SPOT"] + Traded ELSE holding["SPOT"] - Traded) \in Int
    BY <1>6, <2>5
  <2> QED
    BY <2>2, <2>3, <2>4, <2>6
<1>8. pnlList' \in Seq(Realized)
  <2>1. pnlList' = [k \in DOMAIN pnlList |-> [pnlList[k] EXCEPT !.saved = TRUE]]
    BY DEF Commit
  <2>2. pnlList \in Seq(Realized)
    BY DEF LotsTypeOK
  <2>3. Len(pnlList) \in Nat /\ DOMAIN pnlList = 1 .. Len(pnlList)
        /\ \A k \in DOMAIN pnlList : pnlList[k] \in Realized
    BY <2>2
  <2>4. \A k \in DOMAIN pnlList : [pnlList[k] EXCEPT !.saved = TRUE] \in Realized
    BY <2>3 DEF Realized
  <2>5. \A k \in 1 .. Len(pnlList) : pnlList'[k] \in Realized
    BY <2>1, <2>3, <2>4
  <2>6. pnlList' = [k \in 1 .. Len(pnlList) |-> pnlList'[k]]
    BY <2>1, <2>3
  <2> QED
    BY <2>3, <2>5, <2>6, IsASeq
<1>9. usedUp' \subseteq Nat
  <2>1. \A i \in toDelete : heap[i].age \in Nat
    BY ListTypes DEF Lot
  <2> QED
    BY <2>1 DEF Commit, LotsTypeOK
<1>10. stale' \in BOOLEAN
  BY DEF Commit
<1>11. UNCHANGED <<heap, toCreate, toUpdate, toDelete, loaded, side, fills, at, jobs,
                   remain, call, refundable, calls, deaths>> /\ step' = "reset"
  BY DEF Commit, fifo, work, api
<1>12. /\ DOMAIN loaded' = DOMAIN heap' /\ toCreate' \in Seq(Lot)
       /\ toUpdate' \in Seq(DOMAIN heap') /\ toDelete' \subseteq DOMAIN heap'
  BY <1>11 DEF LotsTypeOK
<1>13. /\ side' \in {"BUY", "SELL"} /\ fills' \in Seq(Nat \ {0})
       /\ at' \in 1 .. Len(fills') + 1 /\ remain' \in Nat
       /\ refundable' \in Nat /\ jobs' \in 0 .. MaxJobs /\ calls' \in 0 .. MaxCalls
       /\ deaths' \in 0 .. MaxDeaths
  BY <1>11 DEF LotsTypeOK
<1>14. call' = NoCall \/ (/\ call'.from \in Wallets /\ call'.amount \in Amounts
                          /\ Table(call.found)')
  BY <1>5, <1>11 DEF LotsTypeOK
<1> QED
  BY <1>3, <1>4, <1>5, <1>7, <1>8, <1>9, <1>10, <1>11, <1>12, <1>13, <1>14 DEF LotsTypeOK

-----------------------------------------------------------------------------
\* What a transfer or a withdrawal leaves.
LEMMA AfterLots ==
  ASSUME LotsTypeOK, NEW f, LotTable(f), DOMAIN f \subseteq Ids, NEW amount \in Nat
  PROVE  /\ Spent(f, amount) \subseteq DOMAIN f /\ IsFiniteSet(Spent(f, amount))
         /\ \A i \in DOMAIN f : Taken(f, amount, i) \in 0 .. f[i].quantity
         /\ \A i \in Spent(f, amount) : Taken(f, amount, i) \in Nat \ {0}
         /\ \A i \in DOMAIN f \ Spent(f, amount) : Taken(f, amount, i) = 0
         /\ \A i \in Ids \ Spent(f, amount) :
              /\ i \in DOMAIN After(f, amount) <=> i \in DOMAIN lots
              /\ i \in DOMAIN lots => After(f, amount)[i] = lots[i]
         /\ \A i \in Spent(f, amount) :
              /\ i \in DOMAIN After(f, amount) <=> Taken(f, amount, i) < f[i].quantity
              /\ i \in DOMAIN After(f, amount) =>
                   /\ After(f, amount)[i].quantity = f[i].quantity - Taken(f, amount, i)
                   /\ After(f, amount)[i].wallet = RowWallet(i)
         /\ After(f, amount) \in [DOMAIN After(f, amount) -> Lot]
         /\ DOMAIN After(f, amount) \subseteq Ids
<1> DEFINE S == Spent(f, amount)
           t == [i \in DOMAIN f |-> Taken(f, amount, i)]
           gone == {i \in DOMAIN f : t[i] = f[i].quantity}
           A == After(f, amount)
<1>1. \A i \in DOMAIN f : f[i] \in Lot /\ f[i].quantity \in Nat \ {0} /\ t[i] \in 0 .. f[i].quantity
  BY TakenBounds DEF LotTable, Lot
<1>2. S = {i \in DOMAIN f : t[i] > 0}
  BY DEF Spent
<1>3. IsFiniteSet(S)
  BY <1>2, FS_Subset DEF LotTable
<1>4. A = [i \in (DOMAIN lots \union S) \ gone |->
             IF i \in S THEN SavedLot(i, [f[i] EXCEPT !.quantity = @ - t[i]]) ELSE lots[i]]
  <2>1. gone = {i \in DOMAIN f : Taken(f, amount, i) = f[i].quantity}
    OBVIOUS
  <2>2. \A i \in S : Taken(f, amount, i) = t[i]
    BY <1>2
  <2> HIDE DEF gone, t
  <2>3. A = [i \in (DOMAIN lots \union S) \ gone |->
               IF i \in S THEN SavedLot(i, [f[i] EXCEPT !.quantity = @ - Taken(f, amount, i)])
               ELSE lots[i]]
    BY <2>1 DEF After
  <2> HIDE DEF A, S
  <2> QED
    BY <2>2, <2>3
<1>5. \A i \in DOMAIN f : Taken(f, amount, i) = t[i]
  OBVIOUS
<1>6. \A i \in DOMAIN lots : lots[i] \in Lot /\ i \in Ids
  BY DEF LotsTypeOK, Table, Ids
<1> HIDE DEF S, A, t
<1>7. gone \subseteq S
  BY <1>1, <1>2
<1>8. \A i \in S : i \in DOMAIN A <=> t[i] < f[i].quantity
  BY <1>1, <1>2, <1>4
<1> HIDE DEF gone
<1>9. DOMAIN A = (DOMAIN lots \union S) \ gone
  BY <1>4
<1>10. \A i \in DOMAIN A :
         A[i] = IF i \in S THEN SavedLot(i, [f[i] EXCEPT !.quantity = @ - t[i]]) ELSE lots[i]
  BY <1>4, <1>9
<1>11. \A i \in Ids \ S : (i \in DOMAIN A <=> i \in DOMAIN lots) /\ (i \in DOMAIN lots => A[i] = lots[i])
  BY <1>7, <1>9, <1>10
<1>16. ASSUME NEW i \in S, i \in DOMAIN A
       PROVE  A[i] \in Lot /\ A[i].quantity = f[i].quantity - t[i] /\ A[i].wallet = RowWallet(i)
  <2>1. f[i] \in Lot /\ t[i] < f[i].quantity /\ t[i] \in Nat /\ f[i].quantity \in Nat
    BY <1>1, <1>2, <1>8, <1>16
  <2> DEFINE lot == [f[i] EXCEPT !.quantity = @ - t[i]]
  <2>2. A[i] = SavedLot(i, lot)
    BY <1>10, <1>16
  <2>3. f[i].quantity - t[i] \in Nat \ {0}
    BY <2>1
  <2>4. lot \in Lot /\ lot.quantity = f[i].quantity - t[i]
    BY <2>1, <2>3 DEF Lot
  <2> HIDE DEF lot
  <2> QED
    BY <2>2, <2>4, SavedLots
<1>12. \A i \in DOMAIN A : A[i] \in Lot
  <2> TAKE i \in DOMAIN A
  <2>1. CASE i \in S
    BY <1>16, <2>1
  <2>2. CASE i \notin S
    BY <1>6, <1>9, <1>10, <2>2
  <2> QED
    BY <2>1, <2>2
<1>13. A \in [DOMAIN A -> Lot]
  <2>1. A = [i \in DOMAIN A |-> A[i]]
    BY <1>4
  <2> QED
    BY <1>12, <2>1
<1>14. DOMAIN A \subseteq Ids
  BY <1>2, <1>6, <1>9
<1>15. /\ S \subseteq DOMAIN f
       /\ \A i \in S : t[i] \in Nat \ {0}
       /\ \A i \in DOMAIN f \ S : t[i] = 0
  BY <1>1, <1>2
<1> QED
  BY <1>1, <1>3, <1>5, <1>8, <1>11, <1>13, <1>14, <1>15, <1>16 DEF S, A

\* Amounts are numbers, and the lots of a call are a table.
LEMMA CallTypes ==
  ASSUME LotsTypeOK, call # NoCall
  PROVE  /\ call.from \in Wallets /\ Other(call.from) \in Wallets
         /\ Other(call.from) # call.from /\ \A w \in Wallets : w = call.from \/ w = Other(call.from)
         /\ call.amount \in Nat \ {0} /\ call.amount \in Amounts
         /\ LotTable(call.found) /\ DOMAIN call.found \subseteq Ids
<1>1. call.from \in Wallets /\ call.amount \in Amounts
  BY DEF LotsTypeOK
<1> QED
  BY <1>1, Tables, LotsAssumption DEF Wallets, Other

\* A transfer adds what it has taken, at ids of its own.
NewIds(S) == {new + j : j \in S}
SpentNow == Spent(call.found, call.amount)
TakenNow(j) == Taken(call.found, call.amount, j)
LeftNow == After(call.found, call.amount)

LEMMA Converted ==
  ASSUME LotsTypeOK, ConvertLots
  PROVE  /\ new' = new + new /\ new' \in Nat \ {0} /\ new' >= new /\ call # NoCall
         /\ SpentNow \subseteq Ids /\ DOMAIN LeftNow \subseteq Ids
         /\ DOMAIN lots' = DOMAIN LeftNow \union NewIds(SpentNow)
         /\ \A i \in DOMAIN LeftNow : i < new /\ lots'[i] = LeftNow[i]
         /\ \A j \in SpentNow : /\ new + j \in new .. new' - 1 /\ new + j \notin Ids
                               /\ lots'[new + j] = [wallet |-> Other(call.from), age |-> new + j,
                                                    quantity |-> TakenNow(j)]
         /\ lots' = [i \in DOMAIN lots' |-> lots'[i]]
<1>1. call # NoCall /\ new' = new + new
  BY DEF ConvertLots
<1>2. /\ new \in Nat \ {0} /\ call.amount \in Nat /\ LotTable(call.found)
      /\ DOMAIN call.found \subseteq Ids
  BY <1>1, CallTypes DEF LotsTypeOK
<1>3. SpentNow \subseteq DOMAIN call.found /\ DOMAIN LeftNow \subseteq Ids
  BY <1>2, AfterLots DEF SpentNow, LeftNow
<1>4. lots' = [i \in DOMAIN LeftNow \union {new + j : j \in SpentNow} |->
                 IF i < new THEN LeftNow[i]
                 ELSE [wallet |-> Other(call.from), age |-> i, quantity |-> TakenNow(i - new)]]
  BY DEF ConvertLots, SpentNow, LeftNow, TakenNow
<1>5. \A i \in Ids : i \in Nat /\ 0 < i /\ i < new
  BY <1>2 DEF Ids
<1>6. \A j \in SpentNow : /\ new + j \in new .. new' - 1 /\ new + j \notin Ids
                          /\ ~ (new + j < new) /\ (new + j) - new = j
  BY <1>1, <1>2, <1>3, <1>5
<1>7. \A i \in DOMAIN LeftNow : i < new /\ lots'[i] = LeftNow[i]
  BY <1>3, <1>4, <1>5
<1>8. \A j \in SpentNow : lots'[new + j] = [wallet |-> Other(call.from), age |-> new + j,
                                            quantity |-> TakenNow(j)]
  BY <1>4, <1>6
<1>9. DOMAIN lots' = DOMAIN LeftNow \union NewIds(SpentNow) /\ lots' = [i \in DOMAIN lots' |-> lots'[i]]
  BY <1>4 DEF NewIds
<1> QED
  BY <1>1, <1>2, <1>3, <1>6, <1>7, <1>8, <1>9

LEMMA ConvertTypes == LotsTypeOK /\ ConvertLots => LotsTypeOK'
<1> SUFFICES ASSUME LotsTypeOK, ConvertLots PROVE LotsTypeOK'
  OBVIOUS
<1>2. /\ new' = new + new /\ new' \in Nat \ {0} /\ new' >= new /\ call # NoCall
      /\ SpentNow \subseteq Ids /\ DOMAIN LeftNow \subseteq Ids
      /\ DOMAIN lots' = DOMAIN LeftNow \union NewIds(SpentNow)
      /\ \A i \in DOMAIN LeftNow : i < new /\ lots'[i] = LeftNow[i]
      /\ \A j \in SpentNow : /\ new + j \in new .. new' - 1 /\ new + j \notin Ids
                            /\ lots'[new + j] = [wallet |-> Other(call.from), age |-> new + j,
                                                 quantity |-> TakenNow(j)]
      /\ lots' = [i \in DOMAIN lots' |-> lots'[i]]
  BY Converted
<1>21. LotTable(call.found) /\ DOMAIN call.found \subseteq Ids
  BY <1>2, CallTypes
<1>3. new \in Nat \ {0} /\ call.amount \in Nat /\ call.from \in Wallets /\ Other(call.from) \in Wallets
  BY <1>2, CallTypes DEF LotsTypeOK
<1>4. \A i \in DOMAIN lots' : lots'[i] \in Lot /\ i \in 1 .. new' - 1
  <2> TAKE i \in DOMAIN lots'
  <2>1. CASE i \in DOMAIN LeftNow
    <3>1. LeftNow \in [DOMAIN LeftNow -> Lot]
      BY <1>21, <1>3, AfterLots DEF LeftNow
    <3>2. i \in Nat /\ 0 < i /\ i < new
      BY <1>2, <1>3, <2>1 DEF Ids
    <3> QED
      BY <1>2, <1>3, <2>1, <3>1, <3>2
  <2>2. CASE i \in NewIds(SpentNow)
    <3>1. PICK j \in SpentNow : i = new + j
      BY <2>2 DEF NewIds
    <3>2. TakenNow(j) \in Nat \ {0}
      BY <1>21, <1>3, AfterLots DEF TakenNow, SpentNow
    <3>3. i \in new .. new' - 1
      BY <1>2, <3>1
    <3>4. lots'[i] = [wallet |-> Other(call.from), age |-> i,
                      quantity |-> TakenNow(j)]
      BY <1>2, <3>1
    <3>5. i \in Nat /\ i \in 1 .. new' - 1
      BY <1>2, <1>3, <3>3
    <3> QED
      BY <1>3, <3>2, <3>4, <3>5 DEF Lot
  <2> QED
    BY <1>2, <2>1, <2>2
<1>5. Table(lots)'
  BY <1>2, <1>4 DEF Table
<1>6. Table(heap)' /\ Table(loaded)'
  BY <1>2, TablesKept DEF ConvertLots, fifo
<1>7. holding' \in [Wallets -> Int]
  <2>1. holding \in [Wallets -> Int]
    BY DEF LotsTypeOK
  <2>2. \A w \in Wallets : holding[w] - call.amount \in Int /\ holding[w] + call.amount \in Int
    BY <1>3, <2>1
  <2>3. holding' = [holding EXCEPT ![call.from] = holding[call.from] - call.amount,
                                   ![Other(call.from)] = holding[Other(call.from)] + call.amount]
    BY <1>3, <2>1 DEF ConvertLots, Other, Wallets
  <2> QED
    BY <1>3, <2>1, <2>2, <2>3
<1>8. /\ call' = NoCall /\ stale' \in BOOLEAN
      /\ UNCHANGED <<locked, pnl, heap, toCreate, toUpdate, toDelete, loaded, pnlList, step,
                     side, fills, at, jobs, remain, refundable, calls, deaths, sold, usedUp>>
  BY DEF ConvertLots, fifo, work
<1> QED
  BY <1>2, <1>5, <1>6, <1>7, <1>8 DEF LotsTypeOK

LEMMA DeductTypes ==
  ASSUME LotsTypeOK, NEW amount \in Amounts, DeductLots(amount)
  PROVE  LotsTypeOK'
<1> DEFINE f == LotsOf("FUNDING")
<1>1. amount \in Nat \ {0}
  BY LotsAssumption
<1>2. LotTable(f) /\ DOMAIN f \subseteq Ids
  BY Tables DEF LotsOf, Wallets
<1>3. lots' = After(f, amount) /\ UNCHANGED new
  BY DEF DeductLots
<1> HIDE DEF f
<1>4. Table(lots)'
  BY <1>1, <1>2, <1>3, AfterLots DEF Table, Ids
<1>5. calls' \in 0 .. MaxCalls
  BY LotsAssumption DEF LotsTypeOK, DeductLots
<1>6. holding' \in [Wallets -> Int] /\ refundable' \in Nat
  <2>1. holding \in [Wallets -> Int] /\ refundable \in Nat /\ holding["FUNDING"] \in Int
    BY DEF LotsTypeOK, Wallets
  <2>2. /\ holding' = [holding EXCEPT !["FUNDING"] = holding["FUNDING"] - amount]
        /\ refundable' = refundable + amount
    BY DEF DeductLots
  <2>3. holding["FUNDING"] - amount \in Int /\ refundable + amount \in Nat
    BY <1>1, <2>1
  <2> QED
    BY <2>1, <2>2, <2>3
<1>7. UNCHANGED <<locked, new, pnl, heap, toCreate, toUpdate, toDelete, loaded, pnlList, step,
                  side, fills, at, jobs, remain, call, deaths, sold, usedUp, stale>>
  BY DEF DeductLots, fifo, work
<1> QED
  BY <1>4, <1>5, <1>6, <1>7 DEF LotsTypeOK, Table

LEMMA RefundTypes ==
  ASSUME LotsTypeOK, NEW amount \in Amounts, AddRefundLot(amount)
  PROVE  LotsTypeOK'
<1>1. amount \in Nat \ {0}
  BY LotsAssumption
<1>2. new' = new + 1 /\ new \in Nat \ {0} /\ new' \in Nat \ {0} /\ new' >= new
  BY DEF LotsTypeOK, AddRefundLot
<1>3. Table(lots)'
  <2>1. lots' = [i \in DOMAIN lots \union {new} |->
                IF i = new THEN [wallet |-> "FUNDING", age |-> new, quantity |-> amount]
                ELSE lots[i]]
    BY DEF AddRefundLot
  <2>2. [wallet |-> "FUNDING", age |-> new, quantity |-> amount] \in Lot
    BY <1>1, <1>2 DEF Lot, Wallets
  <2>3. \A i \in DOMAIN lots : lots[i] \in Lot /\ i \in 1 .. new - 1
    BY DEF LotsTypeOK, Table
  <2>4. DOMAIN lots \union {new} \subseteq 1 .. new' - 1
    BY <1>2, <2>3
  <2> QED
    BY <2>1, <2>2, <2>3, <2>4 DEF Table
<1>4. /\ Table(heap)' /\ Table(loaded)'
      /\ call # NoCall => Table(call.found)'
  BY <1>2, TablesKept DEF AddRefundLot, fifo
<1>5. holding' \in [Wallets -> Int] /\ refundable' \in Nat
  <2>1. holding \in [Wallets -> Int] /\ refundable \in Nat /\ holding["FUNDING"] \in Int
    BY DEF LotsTypeOK, Wallets
  <2>2. /\ holding' = [holding EXCEPT !["FUNDING"] = holding["FUNDING"] + amount]
        /\ refundable' = refundable - amount /\ amount <= refundable
    BY DEF AddRefundLot
  <2>3. holding["FUNDING"] + amount \in Int /\ refundable - amount \in Nat
    BY <1>1, <2>1, <2>2
  <2> QED
    BY <2>1, <2>2, <2>3
<1>6. UNCHANGED <<locked, pnl, heap, toCreate, toUpdate, toDelete, loaded, pnlList, step,
                  side, fills, at, jobs, remain, call, calls, deaths, sold, usedUp,
                  stale>>
  BY DEF AddRefundLot, fifo, work
<1> QED
  BY <1>2, <1>3, <1>4, <1>5, <1>6 DEF LotsTypeOK

LEMMA LotsTypeStep == LotsTypeOK /\ Lists /\ Reserved /\ LotsNext => LotsTypeOK'
<1> SUFFICES ASSUME LotsTypeOK, Lists, Reserved, LotsNext PROVE LotsTypeOK'
  OBVIOUS
<1>1. ASSUME NEW q \in Sales, StartJob("SELL", q) PROVE LotsTypeOK'
  BY <1>1, StartTypes, LotsAssumption
<1>2. ASSUME NEW q \in Buys, StartJob("BUY", q) PROVE LotsTypeOK'
  BY <1>2, StartTypes, LotsAssumption
<1>3. ASSUME NEW i \in Snapshot, SellLot(i) PROVE LotsTypeOK'
  BY <1>3, SellLotTypes
<1>4. ASSUME NEW amount \in Amounts, NEW w \in Wallets, FindLots(w, amount) PROVE LotsTypeOK'
  BY <1>4, FindTypes
<1>5. ASSUME NEW amount \in Amounts, DeductLots(amount) \/ AddRefundLot(amount) PROVE LotsTypeOK'
  BY <1>5, DeductTypes, RefundTypes
<1>6. CASE AllDone
  BY <1>6 DEF AllDone, lotsVars, tables, fifo, work, api, LotsTypeOK, Table
<1> QED
  BY <1>1, <1>2, <1>3, <1>4, <1>5, <1>6, LoadTypes, BuyTypes, SellTypes, LotsDoneTypes,
     CommitTypes, ResetTypes, WorkerDiesTypes, ConvertTypes DEF LotsNext

-----------------------------------------------------------------------------
\* What a wallet has at an id, and what that is worth.
LEMMA HasTypes ==
  ASSUME NEW f, LotTable(f), NEW w, NEW i
  PROVE  Has(f, w, i) \in Nat
  BY DEF LotTable, Lot, Has

LEMMA CappedTypes ==
  ASSUME NEW f, LotTable(f), NEW i, NEW q \in Nat
  PROVE  /\ Capped(f, i, q) \in Nat /\ Capped(f, i, q) <= q
         /\ i \in DOMAIN f => Capped(f, i, q) <= f[i].quantity
         /\ Capped(f, i, q) = q \/ (i \in DOMAIN f /\ Capped(f, i, q) = f[i].quantity)
<1>1. i \in DOMAIN f => f[i].quantity \in Nat
  BY DEF LotTable, Lot
<1> QED
  BY <1>1 DEF Capped

WorthIs(w, i) ==
  /\ Has(lots, w, i) \in Nat /\ Worth(w, i) \in Nat /\ Worth(w, i) <= Has(lots, w, i)
  /\ i \in DOMAIN loaded => Worth(w, i) <= loaded[i].quantity
  /\ i \in DOMAIN call.found => Worth(w, i) <= call.found[i].quantity
  /\ \/ Worth(w, i) = Has(lots, w, i)
     \/ i \in DOMAIN loaded /\ Worth(w, i) = loaded[i].quantity
     \/ i \in DOMAIN call.found /\ Worth(w, i) = call.found[i].quantity

WorthsKnown == \A w \in Wallets : \A i \in Nat : WorthIs(w, i)

LEMMA WorthBounds == LotsTypeOK => WorthsKnown
<1> SUFFICES ASSUME LotsTypeOK, NEW w \in Wallets, NEW i \in Nat PROVE WorthIs(w, i)
  BY DEF WorthsKnown
<1> DEFINE h == Has(lots, w, i)
           c == Capped(call.found, i, h)
<1>1. LotTable(lots) /\ LotTable(call.found) /\ LotTable(loaded)
  BY Tables
<1>2. h \in Nat
  BY <1>1, HasTypes
<1>3. Worth(w, i) = Capped(loaded, i, c)
  BY DEF Worth
<1>4. i \in DOMAIN call.found => call.found[i].quantity \in Nat
  BY <1>1 DEF LotTable, Lot
<1>5. i \in DOMAIN loaded => loaded[i].quantity \in Nat
  BY <1>1 DEF LotTable, Lot
<1> HIDE DEF h
<1>6. /\ c \in Nat /\ c <= h
      /\ i \in DOMAIN call.found => c <= call.found[i].quantity
      /\ c = h \/ (i \in DOMAIN call.found /\ c = call.found[i].quantity)
  BY <1>1, <1>2, CappedTypes
<1> HIDE DEF c
<1>7. /\ Worth(w, i) \in Nat /\ Worth(w, i) <= c
      /\ i \in DOMAIN loaded => Worth(w, i) <= loaded[i].quantity
      /\ Worth(w, i) = c \/ (i \in DOMAIN loaded /\ Worth(w, i) = loaded[i].quantity)
  BY <1>1, <1>3, <1>6, CappedTypes
<1>8. Worth(w, i) <= h /\ (i \in DOMAIN call.found => Worth(w, i) <= call.found[i].quantity)
  BY <1>2, <1>4, <1>6, <1>7
<1> QED
  BY <1>2, <1>6, <1>7, <1>8 DEF WorthIs, h

SumsOf(w) ==
  /\ Total(LotsOf(w)) = Sum(Held(w), Ids)
  /\ Sum(Held(w), Ids) \in Nat /\ Sum(Worths(w), Ids) \in Nat
  /\ Sum(Worths(w), Ids) <= Sum(Held(w), Ids)

\* The lots of a wallet are what it has at all ids.
SumsKnown == \A w \in Wallets : SumsOf(w)

LEMMA TotalHeld == LotsTypeOK => SumsKnown
<1> SUFFICES ASSUME LotsTypeOK, NEW w \in Wallets PROVE SumsOf(w)
  BY DEF SumsKnown
<1> DEFINE f == LotsOf(w)
           q == Quantities(f)
           h == Held(w)
           v == Worths(w)
<1>1. /\ IsFiniteSet(Ids) /\ LotTable(f) /\ DOMAIN lots \subseteq Ids
      /\ \A i \in Ids : i \in Nat
  BY Tables DEF Ids
<1>2. f = [i \in {j \in DOMAIN lots : lots[j].wallet = w} |-> lots[i]]
  BY DEF LotsOf
<1>3. \A i \in Ids : h[i] = Has(lots, w, i) /\ v[i] = Worth(w, i)
  BY DEF Held, Worths
<1>4. \A i \in Ids : h[i] \in Nat /\ v[i] \in Nat /\ v[i] <= h[i]
  <2>1. \A i \in Ids : WorthIs(w, i)
    BY <1>1, WorthBounds DEF WorthsKnown
  <2> HIDE DEF h, v
  <2> QED
    BY <1>3, <2>1 DEF WorthIs
<1>5. Total(f) = Sum(q, DOMAIN f) /\ \A i \in DOMAIN f : q[i] = f[i].quantity /\ q[i] \in Int
  BY <1>1, QuantityTypes DEF Total
<1> HIDE DEF q, h, v, f
<1>6. \A i \in DOMAIN f : h[i] = q[i]
  BY <1>1, <1>2, <1>3, <1>5 DEF Has
<1>7. \A i \in Ids \ DOMAIN f : h[i] = 0
  BY <1>2, <1>3 DEF Has
<1>8. DOMAIN f \in SUBSET Ids
  BY <1>1, <1>2
<1>9. Sum(h, Ids) = Sum(q, DOMAIN f)
  BY <1>1, <1>5, <1>6, <1>7, <1>8, SumOfPart
<1>10. Sum(h, Ids) \in Nat /\ Sum(v, Ids) \in Nat
  BY <1>1, <1>4, SumNat DEF Sum
<1>11. \A i \in Ids : v[i] \in Int /\ h[i] \in Int /\ v[i] <= h[i]
  BY <1>4
<1>12. Sum(v, Ids) <= Sum(h, Ids)
  BY <1>1, <1>11, SumMonotone DEF Sum
<1> QED
  BY <1>5, <1>9, <1>10, <1>12 DEF SumsOf, f, h, v

LEMMA NextKnown == LotsTypeOK' => WorthsKnown' /\ SumsKnown'
<1>1. LotsTypeOK' => WorthsKnown'
  BY WorthBounds, PTL
<1>2. LotsTypeOK' => SumsKnown'
  BY TotalHeld, PTL
<1> QED
  BY <1>1, <1>2

LEMMA Prefixes ==
  ASSUME NEW n \in Nat, NEW m \in Nat, n <= m
  PROVE  /\ IsFiniteSet(1 .. n) /\ IsFiniteSet(1 .. m) /\ IsFiniteSet(n + 1 .. m)
         /\ 1 .. n \in SUBSET (1 .. m) /\ (1 .. m) \ (1 .. n) = n + 1 .. m
  BY FS_Interval

LEMMA Predecessors ==
  ASSUME NEW a \in Nat \ {0}, NEW b \in Nat \ {0}, b >= a
  PROVE  a - 1 \in Nat /\ b - 1 \in Nat /\ a - 1 <= b - 1 /\ a - 1 + 1 = a
  OBVIOUS

\* What a step does to the lots of a wallet: what it takes of the old ones,
\* and the lots it adds.
LEMMA LotsMoved ==
  ASSUME LotsTypeOK, LotsTypeOK', new' >= new, NEW w \in Wallets, NEW s,
         \A i \in Ids : s[i] \in Int /\ Worth(w, i)' >= Worth(w, i) - s[i],
         DOMAIN loaded' \subseteq Ids, DOMAIN call.found' \subseteq Ids
  PROVE  /\ Sum(Worths(w), Ids)' >= Sum(Worths(w), Ids) - Sum(s, Ids) + Sum(Held(w)', new .. new' - 1)
         /\ Sum(s, Ids) \in Int /\ Sum(Held(w)', new .. new' - 1) \in Nat
         /\ (\A i \in Ids : Has(lots', w, i) = Has(lots, w, i) - s[i]) =>
              Total(LotsOf(w))' = Total(LotsOf(w)) - Sum(s, Ids) + Sum(Held(w)', new .. new' - 1)
<1> DEFINE n == new - 1
           m == new' - 1
<1>1. n \in Nat /\ m \in Nat /\ n <= m /\ n + 1 = new /\ Ids = 1 .. n /\ Ids' = 1 .. m
  <2>1. new \in Nat \ {0} /\ new' \in Nat \ {0}
    BY DEF LotsTypeOK
  <2>2. Ids = 1 .. n /\ Ids' = 1 .. m
    BY DEF Ids
  <2>3. n \in Nat /\ m \in Nat /\ n <= m /\ n + 1 = new
    BY <2>1, Predecessors
  <2> HIDE DEF n, m
  <2> QED
    BY <2>2, <2>3
<1> DEFINE f == Worths(w)
           g == Worths(w)'
           h == Held(w)
           k == Held(w)'
<1>2. \A i \in Nat : WorthIs(w, i) /\ WorthIs(w, i)'
  <2>1. WorthsKnown /\ WorthsKnown'
    BY WorthBounds, NextKnown
  <2> QED
    BY <2>1 DEF WorthsKnown
<1>3. /\ \A i \in 1 .. n : f[i] = Worth(w, i) /\ h[i] = Has(lots, w, i)
      /\ \A i \in 1 .. m : g[i] = Worth(w, i)' /\ k[i] = Has(lots', w, i)
  BY <1>1 DEF Worths, Held
<1>4. SumsOf(w) /\ SumsOf(w)'
  <2>1. SumsKnown /\ SumsKnown'
    BY TotalHeld, NextKnown
  <2> QED
    BY <2>1 DEF SumsKnown
<1>5. /\ Sum(f, 1 .. n) = Sum(Worths(w), Ids) /\ Sum(g, 1 .. m) = Sum(Worths(w), Ids)'
      /\ Sum(h, 1 .. n) = Total(LotsOf(w)) /\ Sum(k, 1 .. m) = Total(LotsOf(w))'
  BY <1>1, <1>4 DEF SumsOf
<1> HIDE DEF f, g, h, k
<1>6. \A i \in 1 .. m : g[i] \in Nat /\ k[i] \in Nat /\ g[i] \in Int /\ k[i] \in Int /\ i \in Nat
  BY <1>2, <1>3 DEF WorthIs
<1>7. \A i \in 1 .. n : /\ f[i] \in Int /\ h[i] \in Int /\ s[i] \in Int
                        /\ g[i] >= f[i] - s[i] /\ i \in 1 .. m
  <2> TAKE i \in 1 .. n
  <2>1. i \in 1 .. m /\ i \in Nat
    BY <1>1
  <2>2. s[i] \in Int /\ Worth(w, i)' >= Worth(w, i) - s[i]
    BY <1>1
  <2>3. f[i] \in Int /\ h[i] \in Int
    BY <1>2, <1>3, <2>1 DEF WorthIs
  <2> QED
    BY <1>3, <2>1, <2>2, <2>3
<1>8. \A i \in n + 1 .. m : k[i] = g[i]
  <2> TAKE i \in n + 1 .. m
  <2>1. i \in Nat /\ i \in 1 .. m /\ i \notin Ids
    BY <1>1
  <2>2. i \notin DOMAIN loaded' /\ i \notin DOMAIN call.found'
    BY <2>1
  <2>3. Worth(w, i)' = Has(lots', w, i)
    BY <1>2, <2>1, <2>2 DEF WorthIs
  <2> QED
    BY <1>3, <2>1, <2>3
<1>9. Sum(k, n + 1 .. m) = Sum(g, n + 1 .. m) /\ Sum(k, n + 1 .. m) \in Nat
  <2> DEFINE S == n + 1 .. m
  <2>1. IsFiniteSet(S) /\ \A i \in S : i \in 1 .. m
    BY <1>1, FS_Interval
  <2>2. \A i \in S : k[i] \in Nat /\ k[i] = g[i]
    BY <1>6, <1>8, <2>1
  <2> HIDE DEF S
  <2>3. Sum(k, S) = Sum(g, S) /\ Sum(k, S) \in Nat
    BY <2>1, <2>2, SumSame, SumNat DEF Sum
  <2> QED
    BY <2>3 DEF S
<1> HIDE DEF n, m
<1>10. /\ Sum(g, 1 .. m) >= Sum(f, 1 .. n) - Sum(s, 1 .. n) + Sum(g, n + 1 .. m)
       /\ Sum(s, 1 .. n) \in Int
  BY <1>1, <1>6, <1>7, NotBelow
<1> DEFINE Less == \A i \in Ids : Has(lots', w, i) = Has(lots, w, i) - s[i]
<1>11. Less => Sum(k, 1 .. m) = Sum(h, 1 .. n) - Sum(s, 1 .. n) + Sum(k, n + 1 .. m)
  <2> SUFFICES ASSUME Less
               PROVE  Sum(k, 1 .. m) = Sum(h, 1 .. n) - Sum(s, 1 .. n) + Sum(k, n + 1 .. m)
    OBVIOUS
  <2>1. \A i \in 1 .. n : h[i] \in Int /\ s[i] \in Int /\ k[i] = h[i] - s[i]
    BY <1>1, <1>3, <1>7
  <2>2. \A i \in 1 .. m : k[i] \in Int
    BY <1>6
  <2>3. n \in Nat /\ m \in Nat /\ n <= m
    BY <1>1
  <2> HIDE DEF Less
  <2>4. \A i \in 1 .. n : k[i] \in Int /\ s[i] \in Int /\ h[i] = k[i] + s[i]
    BY <2>1
  <2>5. Sum(h, 1 .. n) = Sum(k, 1 .. n) + Sum(s, 1 .. n)
    <3> DEFINE R == 1 .. n
    <3>1. IsFiniteSet(R) /\ \A i \in R : k[i] \in Int /\ s[i] \in Int /\ h[i] = k[i] + s[i]
      BY <2>3, <2>4, Prefixes
    <3> HIDE DEF R
    <3>2. Sum(h, R) = Sum(k, R) + Sum(s, R)
      BY <3>1, SumAdd DEF Sum
    <3> QED
      BY <3>2 DEF R
  <2>6. /\ Sum(k, 1 .. m) = Sum(k, 1 .. n) + Sum(k, n + 1 .. m)
        /\ Sum(k, n + 1 .. m) \in Int /\ Sum(s, 1 .. n) \in Int
    <3> DEFINE S == 1 .. m
               R == 1 .. n
    <3>1. /\ IsFiniteSet(S) /\ IsFiniteSet(R) /\ R \in SUBSET S /\ S \ R = n + 1 .. m
          /\ IsFiniteSet(S \ R)
      <4>1. IsFiniteSet(S) /\ IsFiniteSet(R) /\ IsFiniteSet(n + 1 .. m)
        BY <2>3, Prefixes
      <4>2. R \in SUBSET S /\ S \ R = n + 1 .. m
        BY <2>3, Prefixes
      <4> HIDE DEF S, R
      <4> QED
        BY <4>1, <4>2
    <3>2. /\ \A i \in S : k[i] \in Int
          /\ \A i \in S \ R : k[i] \in Int
          /\ \A i \in R : s[i] \in Int
      BY <2>1, <2>2
    <3> HIDE DEF S, R
    <3>3. Sum(k, S) = Sum(k, R) + Sum(k, S \ R)
      BY <3>1, <3>2, SumSplit DEF Sum
    <3>4. Sum(k, S \ R) \in Int /\ Sum(s, R) \in Int
      BY <3>1, <3>2, SumElement DEF Sum
    <3> QED
      BY <3>1, <3>3, <3>4 DEF S, R
  <2>7. Sum(k, 1 .. n) \in Int
    <3> DEFINE R == 1 .. n
    <3>1. IsFiniteSet(R) /\ \A i \in R : k[i] \in Int
      BY <2>3, <2>4, Prefixes
    <3> HIDE DEF R
    <3>2. Sum(k, R) \in Int
      BY <3>1, SumElement DEF Sum
    <3> QED
      BY <3>2 DEF R
  <2> QED
    BY <2>5, <2>6, <2>7
<1>12. new .. new' - 1 = n + 1 .. m
  BY <1>1 DEF m
<1>13. /\ Sum(k, n + 1 .. m) = Sum(Held(w)', new .. new' - 1)
       /\ Sum(s, 1 .. n) = Sum(s, Ids)
  BY <1>1, <1>12 DEF k
<1> DEFINE added == Sum(Held(w)', new .. new' - 1)
           taken == Sum(s, Ids)
<1>14. /\ Sum(Worths(w), Ids)' >= Sum(Worths(w), Ids) - taken + added
       /\ taken \in Int /\ added \in Nat
  <2> HIDE DEF added, taken
  <2>1. Sum(g, 1 .. m) >= Sum(f, 1 .. n) - taken + added
    BY <1>9, <1>10, <1>13 DEF added, taken
  <2>2. taken \in Int /\ added \in Nat
    BY <1>9, <1>10, <1>13 DEF added, taken
  <2> QED
    BY <1>5, <2>1, <2>2
<1>15. Less => Total(LotsOf(w))' = Total(LotsOf(w)) - taken + added
  <2> HIDE DEF Less
  <2> QED
    BY <1>5, <1>11, <1>13
<1> QED
  BY <1>14, <1>15

-----------------------------------------------------------------------------
\* The lists of the engine, after each step.
LEMMA ListsFrame ==
  ASSUME Lists, UNCHANGED <<fifo, step, side, at, remain>>
  PROVE  Lists'
  BY DEF Lists, fifo, Updated

LEMMA LoadLists == LotsTypeOK /\ Lists /\ Load => Lists'
<1> SUFFICES ASSUME LotsTypeOK, Lists, Load PROVE Lists'
  OBVIOUS
<1>1. /\ heap' = LotsOf("SPOT") /\ loaded' = LotsOf("SPOT") /\ step' = "push"
      /\ UNCHANGED <<side, at, remain, toCreate, toUpdate, toDelete>> /\ step = "load"
  BY DEF Load, work
<1>2. \A i \in DOMAIN heap' : heap'[i].wallet = "SPOT" /\ loaded'[i] = heap'[i]
  BY <1>1 DEF LotsOf
<1>3. \A i \in DOMAIN heap' : heap'[i].quantity \in Nat
  <2>1. LotTable(LotsOf("SPOT"))
    BY Tables DEF Wallets
  <2> QED
    BY <1>1, <2>1 DEF LotTable, Lot
<1>4. \A i \in DOMAIN heap' : heap'[i].quantity <= loaded'[i].quantity
  BY <1>2, <1>3
<1> QED
  BY <1>1, <1>2, <1>4 DEF Lists

LEMMA BuyLists == LotsTypeOK /\ Lists /\ Buy => Lists'
<1> SUFFICES ASSUME LotsTypeOK, Lists, Buy PROVE Lists'
  OBVIOUS
<1>1. /\ toCreate' = Append(toCreate, [wallet |-> "SPOT", age |-> new, quantity |-> fills[at]])
      /\ step = "push" /\ side = "BUY"
      /\ UNCHANGED <<heap, toUpdate, toDelete, loaded, step, side, remain>>
  BY DEF Buy
<1>2. \A k \in DOMAIN toCreate' : toCreate'[k].wallet = "SPOT"
  BY <1>1 DEF LotsTypeOK, Lists
<1> QED
  BY <1>1, <1>2 DEF Lists, Updated

LEMMA SellLotLists ==
  ASSUME LotsTypeOK, Lists, NEW i \in Snapshot, SellLot(i)
  PROVE  Lists'
<1> DEFINE used == Min({heap[i].quantity, remain})
<1>0. used = Min({heap[i].quantity, remain})
  OBVIOUS
<1> HIDE DEF used
<1>1. /\ used \in Nat \ {0} /\ used <= heap[i].quantity /\ i \in DOMAIN heap
      /\ remain' = remain - used
  BY <1>0, SaleOfLot
<1>2. /\ step = "lot" /\ side = "SELL"
      /\ UNCHANGED <<toCreate, loaded, step, side, at>>
  BY DEF SellLot, work, Lists, LotsTypeOK
<1>3. \A j \in DOMAIN heap : heap[j] \in Lot /\ heap[j].quantity \in Nat
  BY DEF LotsTypeOK, Table, Lot
<1>4. DOMAIN heap' = DOMAIN heap
      /\ \A j \in DOMAIN heap : /\ j # i => heap'[j] = heap[j]
                                /\ heap'[j].wallet = heap[j].wallet
                                /\ heap'[j].quantity <= heap[j].quantity
      /\ Updated \union toDelete \union {i} = Updated' \union toDelete'
  <2>1. CASE toDelete' = toDelete \union {i} /\ UNCHANGED <<heap, toUpdate>>
    BY <1>3, <2>1 DEF Updated
  <2>2. CASE /\ used < heap[i].quantity
             /\ toUpdate' = Append(toUpdate, i) /\ UNCHANGED toDelete
             /\ heap' = [heap EXCEPT ![i].quantity = heap[i].quantity - used]
    <3>1. toUpdate \in Seq(DOMAIN heap) /\ Len(toUpdate) \in Nat
          /\ DOMAIN toUpdate = 1 .. Len(toUpdate)
      BY DEF LotsTypeOK
    <3>2. /\ DOMAIN toUpdate' = 1 .. Len(toUpdate) + 1
          /\ \A k \in 1 .. Len(toUpdate) : toUpdate'[k] = toUpdate[k]
          /\ toUpdate'[Len(toUpdate) + 1] = i
      BY <2>2, <3>1
    <3>3. DOMAIN toUpdate' = DOMAIN toUpdate \union {Len(toUpdate) + 1}
      BY <3>1, <3>2
    <3>4. Updated' = Updated \union {i}
      BY <3>1, <3>2, <3>3 DEF Updated
    <3>5. heap \in [DOMAIN heap -> Lot]
      BY DEF LotsTypeOK, Table
    <3>6. heap' = [heap EXCEPT ![i] = [heap[i] EXCEPT !.quantity = heap[i].quantity - used]]
      BY <2>2
    <3>7. heap'[i].wallet = heap[i].wallet /\ heap'[i].quantity = heap[i].quantity - used
      BY <1>1, <1>3, <3>5, <3>6 DEF Lot
    <3>8. DOMAIN heap' = DOMAIN heap /\ \A j \in DOMAIN heap \ {i} : heap'[j] = heap[j]
      BY <1>1, <3>5, <3>6
    <3>9. heap'[i].quantity <= heap[i].quantity
      BY <1>1, <1>3, <3>7
    <3> QED
      BY <1>3, <2>2, <3>4, <3>7, <3>8, <3>9
  <2> QED
    BY <1>0, <2>1, <2>2, SaleOfLot
<1>5. \A j \in DOMAIN heap : heap'[j].quantity \in Nat /\ loaded[j].quantity \in Nat
  <2>1. LotsTypeOK'
    BY SellLotTypes
  <2>2. \A j \in DOMAIN heap' : heap'[j] \in Lot
    BY <2>1 DEF LotsTypeOK, Table
  <2>3. \A j \in DOMAIN heap : loaded[j] \in Lot
    BY DEF LotsTypeOK, Table
  <2> QED
    BY <1>4, <2>2, <2>3 DEF Lot
<1>6. \A j \in DOMAIN heap' : /\ heap'[j].wallet = "SPOT" /\ loaded'[j].wallet = "SPOT"
                              /\ heap'[j].quantity <= loaded'[j].quantity
                              /\ j \notin (Updated \union toDelete)' => heap'[j] = loaded'[j]
  <2> TAKE j \in DOMAIN heap'
  <2>1. j \in DOMAIN heap
    BY <1>4
  <2>2. /\ heap[j].wallet = "SPOT" /\ loaded[j].wallet = "SPOT"
        /\ heap[j].quantity <= loaded[j].quantity
        /\ j \notin Updated \union toDelete => heap[j] = loaded[j]
    BY <2>1 DEF Lists
  <2>3. heap'[j].quantity <= loaded[j].quantity
    BY <1>3, <1>4, <1>5, <2>1, <2>2
  <2> QED
    BY <1>2, <1>4, <2>1, <2>2, <2>3
<1>7. \A k \in DOMAIN toCreate : toCreate[k].wallet = "SPOT"
  BY DEF Lists
<1> QED
  BY <1>2, <1>6, <1>7 DEF Lists

LEMMA ListsStep == LotsTypeOK /\ Lists /\ LotsNext => Lists'
<1> SUFFICES ASSUME LotsTypeOK, Lists, LotsNext PROVE Lists'
  OBVIOUS
<1>1. ASSUME NEW s \in {"SELL", "BUY"}, NEW q, StartJob(s, q) PROVE Lists'
  <2>1. /\ step = "idle" /\ step' = "load" /\ at' = 1 /\ UNCHANGED <<fifo, remain>>
    BY <1>1 DEF StartJob
  <2>2. DOMAIN heap = {} /\ toCreate = <<>> /\ toUpdate = <<>> /\ toDelete = {} /\ remain = 0
    BY <2>1 DEF Lists
  <2> QED
    BY <2>1, <2>2 DEF Lists, fifo
<1>2. CASE Sell
  BY <1>2 DEF Sell, Lists, fifo, LotsTypeOK, Updated
<1>3. CASE LotsDone
  BY <1>3 DEF LotsDone, Lists, fifo, work, Updated
<1>4. CASE Commit
  BY <1>4 DEF Commit, Lists, fifo, work, Updated
<1>5. CASE Reset \/ WorkerDies
  <2>1. Cleared /\ step' = "idle" /\ UNCHANGED work /\ remain' = 0
    BY <1>5 DEF Reset, WorkerDies, Lists
  <2> QED
    BY <2>1, ClearedTypes DEF Lists, work
<1>6. ASSUME UNCHANGED <<fifo, step, work, remain>> PROVE Lists'
  BY <1>6, ListsFrame DEF work
<1>7. ASSUME NEW amount \in Amounts,
             (\E w \in Wallets : FindLots(w, amount)) \/ DeductLots(amount) \/ AddRefundLot(amount)
      PROVE  UNCHANGED <<fifo, step, work, remain>>
  BY <1>7 DEF FindLots, DeductLots, AddRefundLot
<1>8. CASE ConvertLots \/ AllDone
  BY <1>6, <1>8 DEF ConvertLots, AllDone, lotsVars
<1> QED
  BY <1>1, <1>2, <1>3, <1>4, <1>5, <1>6, <1>7, <1>8, LoadLists, BuyLists, SellLotLists
  DEF LotsNext

-----------------------------------------------------------------------------
\* No step gives a lot to another wallet under its id.
LEMMA WalletsFrame ==
  ASSUME LotsTypeOK, WalletKept, UNCHANGED <<loaded, call>>,
         \A i \in DOMAIN lots' \intersect Ids :
           i \in DOMAIN lots /\ lots'[i].wallet = lots[i].wallet
  PROVE  WalletKept'
<1>1. DOMAIN loaded \subseteq Ids /\ DOMAIN call.found \subseteq Ids
  BY Tables
<1> QED
  BY <1>1 DEF WalletKept

LEMMA SameLots ==
  ASSUME LotsTypeOK, WalletKept, UNCHANGED <<lots, loaded, call>>
  PROVE  WalletKept'
  BY DEF WalletKept

LEMMA LoadWallets == LotsTypeOK /\ WalletKept /\ Load => WalletKept'
<1> SUFFICES ASSUME LotsTypeOK, WalletKept, Load PROVE WalletKept'
  OBVIOUS
<1>1. loaded' = LotsOf("SPOT") /\ UNCHANGED <<lots, call>>
  BY DEF Load, tables, api
<1>2. \A i \in DOMAIN loaded' : i \in DOMAIN lots /\ lots[i].wallet = "SPOT"
  BY <1>1 DEF LotsOf
<1> QED
  BY <1>1, <1>2 DEF WalletKept, Nobody

LEMMA CommitWallets == LotsTypeOK /\ Lists /\ WalletKept /\ Commit => WalletKept'
<1> SUFFICES ASSUME LotsTypeOK, Lists, WalletKept, Commit PROVE WalletKept'
  OBVIOUS
<1>1. PICK ks \in Agains : lots' = Written(ks)
  BY DEF Commit
<1>2. UNCHANGED <<loaded, call>>
  BY DEF Commit, fifo, api
<1>3. DOMAIN loaded \subseteq Ids /\ DOMAIN call.found \subseteq Ids /\ DOMAIN loaded = DOMAIN heap
  BY Tables
<1>4. \A i \in Ids \intersect DOMAIN lots' :
        \/ lots'[i].wallet = Nobody
        \/ i \in DOMAIN lots /\ lots'[i].wallet = lots[i].wallet
  <2> TAKE i \in Ids \intersect DOMAIN lots'
  <2>1. i \in (DOMAIN lots \union Updated) \ toDelete
    BY <1>1, WrittenLots
  <2>2. lots'[i] = IF i \in Updated THEN SavedLot(i, heap[i]) ELSE lots[i]
    BY <1>1, <2>1, WrittenLots
  <2>3. i \in Updated => SavedLot(i, heap[i]).wallet = RowWallet(i)
    BY ListTypes, SavedLots
  <2> QED
    BY <2>1, <2>2, <2>3 DEF RowWallet
<1> QED
  BY <1>2, <1>3, <1>4 DEF WalletKept

LEMMA FindWallets ==
  ASSUME LotsTypeOK, WalletKept, NEW w \in Wallets, NEW amount, FindLots(w, amount)
  PROVE  WalletKept'
<1>1. call' = [from |-> w, amount |-> amount, found |-> LotsOf(w)] /\ UNCHANGED <<lots, loaded>>
  BY DEF FindLots, tables, fifo
<1>2. call'.found = LotsOf(w) /\ call'.from = w
  BY <1>1
<1>3. \A i \in DOMAIN LotsOf(w) : i \in DOMAIN lots /\ lots[i].wallet = w /\ LotsOf(w)[i] = lots[i]
  BY DEF LotsOf
<1>4. w # Nobody
  BY DEF Wallets, Nobody
<1> QED
  BY <1>1, <1>2, <1>3, <1>4 DEF WalletKept

LEMMA ConvertWallets == LotsTypeOK /\ WalletKept /\ ConvertLots => WalletKept'
<1> SUFFICES ASSUME LotsTypeOK, WalletKept, ConvertLots PROVE WalletKept'
  OBVIOUS
<1>1. UNCHANGED loaded /\ call' = NoCall
  BY DEF ConvertLots, fifo
<1>2. DOMAIN call'.found = {}
  BY <1>1 DEF NoCall, NoLots
<1>3. DOMAIN loaded \subseteq Ids /\ LotTable(call.found) /\ DOMAIN call.found \subseteq Ids
      /\ call.amount \in Nat
  BY Converted, Tables, CallTypes
<1>4. ASSUME NEW i \in DOMAIN lots' \intersect DOMAIN loaded
      PROVE  lots'[i].wallet \in {"SPOT", Nobody}
  <2>1. i \in DOMAIN LeftNow /\ lots'[i] = LeftNow[i]
    <3>1. i \notin NewIds(SpentNow)
      BY <1>3, Converted DEF NewIds
    <3> QED
      BY <1>4, <3>1, Converted
  <2>2. CASE i \in SpentNow
    <3>1. LeftNow[i].wallet = RowWallet(i)
      BY <1>3, <2>1, <2>2, AfterLots DEF LeftNow, SpentNow
    <3> QED
      BY <1>4, <2>1, <3>1 DEF WalletKept, RowWallet
  <2>3. CASE i \notin SpentNow
    <3>1. i \in DOMAIN lots /\ LeftNow[i] = lots[i]
      BY <1>3, <1>4, <2>1, <2>3, AfterLots DEF LeftNow, SpentNow
    <3> QED
      BY <1>4, <2>1, <3>1 DEF WalletKept
  <2> QED
    BY <2>2, <2>3
<1> QED
  BY <1>1, <1>2, <1>4 DEF WalletKept

\* A withdrawal leaves the wallets of the lots it finds.
LEMMA DeductedWallets ==
  ASSUME LotsTypeOK, NEW amount \in Nat, NEW w \in Wallets
  PROVE  \A i \in DOMAIN After(LotsOf(w), amount) :
           i \in DOMAIN lots /\ After(LotsOf(w), amount)[i].wallet = lots[i].wallet
<1> DEFINE f == LotsOf(w)
           A == After(f, amount)
<1>1. LotTable(f) /\ \A i \in DOMAIN f : i \in DOMAIN lots /\ f[i] = lots[i] /\ f[i] \in Lot
  BY Tables DEF LotsOf, LotTable
<1>2. DOMAIN f \subseteq Ids
  BY <1>1, Tables
<1> HIDE DEF f
<1>3. DOMAIN A \subseteq Ids /\ Spent(f, amount) \subseteq DOMAIN f
  BY <1>1, <1>2, AfterLots
<1>4. \A i \in DOMAIN A \ Spent(f, amount) : i \in DOMAIN lots /\ A[i] = lots[i]
  BY <1>1, <1>2, <1>3, AfterLots
<1>5. ASSUME NEW i \in DOMAIN A \intersect Spent(f, amount)
      PROVE  i \in DOMAIN lots /\ A[i].wallet = lots[i].wallet
  <2>1. A[i].wallet = RowWallet(i)
    <3>1. \A j \in Spent(f, amount) :
            j \in DOMAIN After(f, amount) => After(f, amount)[j].wallet = RowWallet(j)
      BY <1>1, <1>2, AfterLots, ZenonT(40)
    <3>2. i \in Spent(f, amount) /\ i \in DOMAIN After(f, amount)
      OBVIOUS
    <3> QED
      BY <3>1, <3>2
  <2>2. i \in DOMAIN lots
    BY <1>1, <1>3
  <2> HIDE DEF A
  <2> QED
    BY <2>1, <2>2 DEF RowWallet
<1> QED
  BY <1>4, <1>5 DEF f

LEMMA WalletsStep == LotsTypeOK /\ Lists /\ WalletKept /\ LotsNext => WalletKept'
<1> SUFFICES ASSUME LotsTypeOK, Lists, WalletKept, LotsNext PROVE WalletKept'
  OBVIOUS
<1>1. ASSUME UNCHANGED <<lots, loaded, call>> PROVE WalletKept'
  BY <1>1, SameLots
<1>2. ASSUME NEW s, NEW q, StartJob(s, q) PROVE UNCHANGED <<lots, loaded, call>>
  BY <1>2 DEF StartJob, fifo, api
<1>3. CASE Buy
  BY <1>1, <1>3 DEF Buy, tables, api
<1>4. CASE Sell \/ LotsDone \/ AllDone
  BY <1>1, <1>4 DEF Sell, LotsDone, AllDone, tables, fifo, api, lotsVars
<1>5. ASSUME NEW i \in Snapshot, SellLot(i) PROVE UNCHANGED <<lots, loaded, call>>
  BY <1>5 DEF SellLot, tables, api
<1>6. CASE Reset \/ WorkerDies
  <2>1. Cleared /\ UNCHANGED <<lots, call>>
    BY <1>6 DEF Reset, WorkerDies, tables, api
  <2> QED
    BY <2>1, ClearedTypes DEF WalletKept
<1>7. ASSUME NEW amount \in Amounts, DeductLots(amount) PROVE WalletKept'
  <2>1. lots' = After(LotsOf("FUNDING"), amount) /\ UNCHANGED <<loaded, call>>
    BY <1>7 DEF DeductLots, fifo
  <2>2. amount \in Nat /\ "FUNDING" \in Wallets
    BY LotsAssumption DEF Wallets
  <2>3. \A i \in DOMAIN lots' : i \in DOMAIN lots /\ lots'[i].wallet = lots[i].wallet
    BY <2>1, <2>2, DeductedWallets
  <2> QED
    BY <2>1, <2>3, WalletsFrame
<1>8. ASSUME NEW amount \in Amounts, AddRefundLot(amount) PROVE WalletKept'
  <2>1. /\ lots' = [i \in DOMAIN lots \union {new} |->
                IF i = new THEN [wallet |-> "FUNDING", age |-> new, quantity |-> amount]
                ELSE lots[i]]
        /\ UNCHANGED <<loaded, call>>
    BY <1>8 DEF AddRefundLot, fifo
  <2>2. new \notin Ids
    BY Tables
  <2>3. \A i \in DOMAIN lots' \intersect Ids :
           i \in DOMAIN lots /\ lots'[i].wallet = lots[i].wallet
    BY <2>1, <2>2
  <2> QED
    BY <2>1, <2>3, WalletsFrame
<1> QED
  BY <1>1, <1>2, <1>3, <1>4, <1>5, <1>6, <1>7, <1>8, LoadWallets, CommitWallets, FindWallets,
     ConvertWallets DEF LotsNext

-----------------------------------------------------------------------------
\* What orders and transfers have reserved.
LEMMA Reservations ==
  ASSUME LotsTypeOK
  PROVE  /\ \A w \in Wallets : holding[w] \in Int
         /\ locked \in Nat /\ call.amount \in Nat /\ Traded \in Nat
         /\ call.from = "none" <=> call = NoCall
         /\ Available("SPOT") = holding["SPOT"] - locked
                                  - (IF call.from = "SPOT" THEN call.amount ELSE 0)
         /\ Available("FUNDING") = holding["FUNDING"]
                                     - (IF call.from = "FUNDING" THEN call.amount ELSE 0)
<1>1. (\A w \in Wallets : holding[w] \in Int) /\ locked \in Nat /\ Traded \in Nat
  BY JobTypes DEF LotsTypeOK
<1>2. call.amount \in Nat /\ (call.from = "none" <=> call = NoCall)
  <2>1. CASE call = NoCall
    BY <2>1 DEF NoCall, Nobody
  <2>2. CASE call # NoCall
    <3>1. call.from \in Wallets /\ call.amount \in Nat \ {0}
      BY <2>2, CallTypes
    <3> QED
      BY <2>2, <3>1 DEF Wallets
  <2> QED
    BY <2>1, <2>2
<1> QED
  BY <1>1, <1>2 DEF Available, Wallets

LEMMA ReservedFrame ==
  ASSUME Reserved, UNCHANGED <<holding, locked, call, side, fills>>,
         step' \in {"load", "push", "lot"} => step \in {"load", "push", "lot"}
  PROVE  Reserved'
<1>1. \A w \in Wallets : Available(w)' = Available(w)
  BY DEF Available
<1>2. Traded' = Traded
  BY DEF Traded
<1>3. Total(call.found)' = Total(call.found)
  OBVIOUS
<1> QED
  BY <1>1, <1>2, <1>3 DEF Reserved

LEMMA StartReserved ==
  ASSUME LotsTypeOK, Reserved, NEW s \in {"SELL", "BUY"}, NEW q \in Seq(Nat \ {0}), StartJob(s, q)
  PROVE  Reserved'
<1> DEFINE n == Sum(q, DOMAIN q)
<1>1. n \in Nat
  BY FillTypes
<1>2. /\ s = "SELL" => n <= Available("SPOT")
      /\ locked' = IF s = "SELL" THEN locked + n ELSE locked
      /\ side' = s /\ fills' = q /\ UNCHANGED <<holding, call>>
  BY DEF StartJob, api
<1>3. Traded' = n
  BY <1>2 DEF Traded
<1> HIDE DEF n
<1>4. LotsTypeOK'
  BY StartTypes
<1>5. \A w \in Wallets : Available(w)' >= 0
  <2>1. /\ \A w \in Wallets : holding[w] \in Int
        /\ locked \in Nat /\ call.amount \in Nat
    BY Reservations
  <2>2. \A w \in Wallets : Available(w) >= 0
    BY DEF Reserved
  <2> QED
    BY <1>1, <1>2, <2>1, <2>2 DEF Available, Wallets
<1>6. side' = "SELL" => locked' >= Traded'
  BY <1>1, <1>2, <1>3, Reservations
<1>7. Total(call.found)' = Total(call.found) /\ call'.amount = call.amount
  BY <1>2
<1> QED
  BY <1>2, <1>5, <1>6, <1>7 DEF Reserved

LEMMA CommitReserved == LotsTypeOK /\ Reserved /\ Commit => Reserved'
<1> SUFFICES ASSUME LotsTypeOK, Reserved, Commit PROVE Reserved'
  OBVIOUS
<1>1. /\ holding' = [holding EXCEPT !["SPOT"] = IF side = "BUY" THEN @ + Traded ELSE @ - Traded]
      /\ locked' = IF side = "BUY" THEN locked ELSE locked - Traded
      /\ step' = "reset" /\ UNCHANGED call
  BY DEF Commit, api
<1>2. /\ \A w \in Wallets : holding[w] \in Int
      /\ locked \in Nat /\ call.amount \in Nat /\ Traded \in Nat
      /\ holding \in [Wallets -> Int]
  BY Reservations DEF LotsTypeOK
<1>3. \A w \in Wallets : Available(w) >= 0
  BY DEF Reserved
<1>4. \A w \in Wallets : Available(w)' >= 0
  BY <1>1, <1>2, <1>3 DEF Available, Wallets
<1>5. Total(call.found)' = Total(call.found) /\ call'.amount = call.amount
  BY <1>1
<1> QED
  BY <1>1, <1>4, <1>5 DEF Reserved

LEMMA FindReserved ==
  ASSUME LotsTypeOK, Reserved, Enough, NEW w \in Wallets, NEW amount \in Amounts,
         FindLots(w, amount)
  PROVE  Reserved'
<1>1. /\ call' = [from |-> w, amount |-> amount, found |-> LotsOf(w)]
      /\ call = NoCall /\ amount <= Available(w)
      /\ UNCHANGED <<holding, locked, side, fills, step>>
  BY DEF FindLots, tables, work
<1>2. /\ holding[w] \in Int /\ locked \in Nat /\ call.from = "none" /\ amount \in Nat
      /\ \A x \in Wallets : holding[x] \in Int
  BY <1>1, Reservations, LotsAssumption
<1>3. call'.from = w /\ call'.amount = amount /\ call'.found = LotsOf(w)
  BY <1>1
<1>4. \A x \in Wallets : Available(x)' >= 0
  <2>1. \A x \in Wallets : Available(x) >= 0
    BY DEF Reserved
  <2> QED
    BY <1>1, <1>2, <1>3, <2>1 DEF Available, Wallets
<1>5. Total(LotsOf(w)) >= amount
  <2>1. Total(LotsOf(w)) >= holding[w]
    <3>1. SumsOf(w)
      BY TotalHeld DEF SumsKnown
    <3>2. Sum(Worths(w), Ids) >= holding[w]
      BY DEF Enough
    <3> QED
      BY <1>2, <3>1, <3>2 DEF SumsOf
  <2>2. holding[w] >= amount
    BY <1>1, <1>2 DEF Available, Wallets
  <2>3. Total(LotsOf(w)) \in Nat
    BY TotalHeld DEF SumsKnown, SumsOf
  <2> QED
    BY <1>2, <2>1, <2>2, <2>3
<1>6. Total(call.found)' = Total(LotsOf(w))
  BY <1>3
<1>7. Traded' = Traded
  BY <1>1 DEF Traded
<1> QED
  BY <1>1, <1>3, <1>4, <1>5, <1>6, <1>7 DEF Reserved

LEMMA ApiReserved ==
  ASSUME LotsTypeOK, Reserved, UNCHANGED <<locked, side, fills, step>>,
         \A w \in Wallets : Available(w)' >= 0,
         UNCHANGED call \/ call' = NoCall
  PROVE  Reserved'
<1>1. Traded' = Traded
  BY DEF Traded
<1>2. call' # NoCall => Total(call.found)' >= call'.amount
  <2>1. CASE UNCHANGED call
    <3>1. Total(call.found)' = Total(call.found) /\ call'.amount = call.amount
      BY <2>1
    <3> QED
      BY <2>1, <3>1 DEF Reserved
  <2> QED
    BY <2>1
<1> QED
  BY <1>1, <1>2 DEF Reserved

LEMMA ConvertReserved == LotsTypeOK /\ Reserved /\ ConvertLots => Reserved'
<1> SUFFICES ASSUME LotsTypeOK, Reserved, ConvertLots PROVE Reserved'
  OBVIOUS
<1>1. call # NoCall /\ call' = NoCall /\ UNCHANGED <<locked, side, fills, step>>
  BY DEF ConvertLots, work
<1>2. /\ call.from \in Wallets /\ call.amount \in Nat /\ locked \in Nat
      /\ \A w \in Wallets : holding[w] \in Int
      /\ holding \in [Wallets -> Int]
  BY <1>1, CallTypes, Reservations DEF LotsTypeOK
<1>3. holding' = [holding EXCEPT ![call.from] = holding[call.from] - call.amount,
                                 ![Other(call.from)] = holding[Other(call.from)] + call.amount]
  BY <1>2 DEF ConvertLots, Other, Wallets
<1>4. call'.from = "none" /\ call'.amount = 0
  BY <1>1 DEF NoCall, Nobody
<1>5. \A w \in Wallets : Available(w) >= 0
  BY DEF Reserved
<1>6. \A w \in Wallets : Available(w)' >= 0
  <2>1. CASE call.from = "SPOT"
    BY <1>1, <1>2, <1>3, <1>4, <1>5, <2>1 DEF Available, Wallets, Other
  <2>2. CASE call.from = "FUNDING"
    BY <1>1, <1>2, <1>3, <1>4, <1>5, <2>2 DEF Available, Wallets, Other
  <2> QED
    BY <1>2, <2>1, <2>2 DEF Wallets
<1> QED
  BY <1>1, <1>6, ApiReserved

LEMMA FundingReserved ==
  ASSUME LotsTypeOK, Reserved, NEW amount \in Amounts, DeductLots(amount) \/ AddRefundLot(amount)
  PROVE  Reserved'
<1>1. UNCHANGED <<call, locked, side, fills, step>>
  BY DEF DeductLots, AddRefundLot, work
<1>2. /\ amount \in Nat /\ locked \in Nat /\ call.amount \in Nat
      /\ \A w \in Wallets : holding[w] \in Int
      /\ holding \in [Wallets -> Int]
  BY Reservations, LotsAssumption DEF LotsTypeOK
<1>3. \A w \in Wallets : Available(w) >= 0
  BY DEF Reserved
<1>4. \A w \in Wallets : Available(w)' >= 0
  <2>1. CASE DeductLots(amount)
    <3>1. /\ holding' = [holding EXCEPT !["FUNDING"] = holding["FUNDING"] - amount]
          /\ amount <= Available("FUNDING")
      BY <2>1 DEF DeductLots
    <3> QED
      BY <1>1, <1>2, <1>3, <3>1 DEF Available, Wallets
  <2>2. CASE AddRefundLot(amount)
    <3>1. holding' = [holding EXCEPT !["FUNDING"] = holding["FUNDING"] + amount]
      BY <2>2 DEF AddRefundLot
    <3> QED
      BY <1>1, <1>2, <1>3, <3>1 DEF Available, Wallets
  <2> QED
    BY <2>1, <2>2
<1> QED
  BY <1>1, <1>4, ApiReserved

LEMMA ReservedStep == LotsTypeOK /\ Reserved /\ Enough /\ LotsNext => Reserved'
<1> SUFFICES ASSUME LotsTypeOK, Reserved, Enough, LotsNext PROVE Reserved'
  OBVIOUS
<1>1. ASSUME NEW q \in Sales, StartJob("SELL", q) PROVE Reserved'
  BY <1>1, StartReserved, LotsAssumption
<1>2. ASSUME NEW q \in Buys, StartJob("BUY", q) PROVE Reserved'
  BY <1>2, StartReserved, LotsAssumption
<1>3. CASE Load \/ Buy \/ Sell \/ LotsDone \/ Reset \/ WorkerDies \/ AllDone
  <2>1. /\ UNCHANGED <<holding, locked, call, side, fills>>
        /\ step' \in {"load", "push", "lot"} => step \in {"load", "push", "lot"}
    BY <1>3 DEF Load, Buy, Sell, LotsDone, Reset, WorkerDies, AllDone, tables, work, api, lotsVars
  <2> QED
    BY <2>1, ReservedFrame
<1>4. ASSUME NEW i \in Snapshot, SellLot(i) PROVE Reserved'
  <2>1. UNCHANGED <<holding, locked, call, side, fills, step>>
    BY <1>4 DEF SellLot, tables, work, api
  <2> QED
    BY <2>1, ReservedFrame
<1>5. ASSUME NEW amount \in Amounts, NEW w \in Wallets, FindLots(w, amount) PROVE Reserved'
  BY <1>5, FindReserved
<1> QED
  BY <1>1, <1>2, <1>3, <1>4, <1>5, CommitReserved, ConvertReserved, FundingReserved DEF LotsNext

-----------------------------------------------------------------------------
\* The books of a job.
LEMMA RestOf ==
  ASSUME LotsTypeOK
  PROVE  /\ at = 1 => Rest = Traded
         /\ at \notin DOMAIN fills => Rest = 0
         /\ at \in DOMAIN fills =>
              Rest = fills[at] + Sum(fills, at + 1 .. Len(fills)) /\ fills[at] \in Nat
         /\ Sum(fills, at + 1 .. Len(fills)) \in Nat
<1>1. /\ fills \in Seq(Nat \ {0}) /\ at \in 1 .. Len(fills) + 1 /\ Len(fills) \in Nat
      /\ DOMAIN fills = 1 .. Len(fills)
  BY DEF LotsTypeOK
<1>2. at = 1 => Rest = Traded
  BY <1>1 DEF Rest, Traded
<1>3. at \notin DOMAIN fills => Rest = 0
  <2> SUFFICES ASSUME at \notin DOMAIN fills PROVE Rest = 0
    OBVIOUS
  <2>1. at .. Len(fills) = {}
    BY <1>1
  <2> QED
    BY <2>1, SumEmpty DEF Rest, Sum
<1>4. Sum(fills, at + 1 .. Len(fills)) \in Nat
  <2>1. at + 1 .. Len(fills) \in SUBSET DOMAIN fills
    BY <1>1
  <2> QED
    BY <1>1, <2>1, FillTypes
<1>5. at \in DOMAIN fills => Rest = fills[at] + Sum(fills, at + 1 .. Len(fills)) /\ fills[at] \in Nat
  <2> SUFFICES ASSUME at \in DOMAIN fills
               PROVE  Rest = fills[at] + Sum(fills, at + 1 .. Len(fills)) /\ fills[at] \in Nat
    OBVIOUS
  <2> DEFINE S == at .. Len(fills)
  <2>1. S \in SUBSET DOMAIN fills /\ at \in S /\ S \ {at} = at + 1 .. Len(fills)
    BY <1>1
  <2>2. IsFiniteSet(S) /\ (\A k \in S : fills[k] \in Int) /\ fills[at] \in Nat
    BY <1>1, <2>1, FillTypes
  <2>3. Rest = Sum(fills, S)
    BY DEF Rest
  <2> HIDE DEF S
  <2>4. Sum(fills, S) = fills[at] + Sum(fills, S \ {at})
    BY <2>1, <2>2, SumElement DEF Sum
  <2> QED
    BY <2>1, <2>2, <2>3, <2>4
<1> QED
  BY <1>2, <1>3, <1>4, <1>5

SoldOfEach == [i \in DOMAIN loaded |-> SoldOf(i)]

LEMMA SoldTypes ==
  ASSUME LotsTypeOK, Lists
  PROVE  /\ IsFiniteSet(DOMAIN loaded) /\ DOMAIN loaded = DOMAIN heap
         /\ SoldSoFar = Sum(SoldOfEach, DOMAIN loaded)
         /\ \A i \in DOMAIN loaded :
              /\ SoldOfEach[i] = SoldOf(i) /\ SoldOf(i) \in Nat
              /\ loaded[i].quantity \in Nat /\ heap[i].quantity \in Nat
              /\ SoldOf(i) <= loaded[i].quantity
         /\ SoldSoFar \in Nat
<1>1. /\ IsFiniteSet(DOMAIN loaded) /\ DOMAIN loaded = DOMAIN heap
      /\ LotTable(heap) /\ LotTable(loaded)
  BY Tables DEF LotTable
<1>2. SoldSoFar = Sum(SoldOfEach, DOMAIN loaded)
  BY DEF SoldSoFar, SoldOfEach
<1>3. \A i \in DOMAIN loaded :
        /\ SoldOfEach[i] = SoldOf(i) /\ SoldOf(i) \in Nat
        /\ loaded[i].quantity \in Nat /\ heap[i].quantity \in Nat
        /\ SoldOf(i) <= loaded[i].quantity
  <2> TAKE i \in DOMAIN loaded
  <2>1. loaded[i].quantity \in Nat /\ heap[i].quantity \in Nat
    BY <1>1 DEF LotTable, Lot
  <2>2. heap[i].quantity <= loaded[i].quantity
    BY <1>1 DEF Lists
  <2>3. SoldOf(i) \in Nat /\ SoldOf(i) <= loaded[i].quantity
    BY <2>1, <2>2 DEF SoldOf
  <2> QED
    BY <2>1, <2>3 DEF SoldOfEach
<1>4. Sum(SoldOfEach, DOMAIN loaded) \in Nat
  BY <1>1, <1>3, SumNat DEF Sum
<1> QED
  BY <1>1, <1>2, <1>3, <1>4

LEMMA NothingSold ==
  ASSUME LotsTypeOK, Lists, heap = loaded, toDelete = {}
  PROVE  SoldSoFar = 0
<1>1. \A i \in DOMAIN loaded : SoldOfEach[i] = 0 /\ SoldOfEach[i] \in Int
  BY SoldTypes DEF SoldOf
<1>2. Sum(SoldOfEach, {}) = Sum(SoldOfEach, DOMAIN loaded)
  <2>1. {} \in SUBSET DOMAIN loaded /\ IsFiniteSet(DOMAIN loaded)
    BY SoldTypes
  <2> QED
    BY <1>1, <2>1, SumZeros DEF Sum
<1> QED
  BY <1>2, SumEmpty, SoldTypes DEF Sum

LEMMA NothingSoldAfter ==
  LotsTypeOK' /\ Lists' => (heap' = loaded' /\ toDelete' = {} => SoldSoFar' = 0)
<1> DEFINE Nothing == heap = loaded /\ toDelete = {} => SoldSoFar = 0
<1>1. LotsTypeOK /\ Lists => Nothing
  BY NothingSold
<1> HIDE DEF Nothing
<1>2. LotsTypeOK' /\ Lists' => Nothing'
  BY <1>1, PTL
<1> QED
  BY <1>2 DEF Nothing

LEMMA AllSold ==
  ASSUME LotsTypeOK, Lists, Snapshot = {}
  PROVE  SoldSoFar = Total(loaded)
<1>1. \A i \in DOMAIN loaded : i \in toDelete
  BY Tables DEF Snapshot
<1>2. LotTable(loaded)
  BY Tables
<1>3. Total(loaded) = Sum(Quantities(loaded), DOMAIN loaded)
      /\ \A i \in DOMAIN loaded : Quantities(loaded)[i] = loaded[i].quantity
  BY <1>2, QuantityTypes DEF Total
<1>4. \A i \in DOMAIN loaded : SoldOfEach[i] = Quantities(loaded)[i]
  BY <1>1, <1>3, SoldTypes DEF SoldOf
<1>5. Sum(SoldOfEach, DOMAIN loaded) = Sum(Quantities(loaded), DOMAIN loaded)
  BY <1>4, SoldTypes, SumSame DEF Sum
<1> QED
  BY <1>3, <1>5, SoldTypes

LEMMA SoldTypesAfter == LotsTypeOK' /\ Lists' =>
  /\ SoldSoFar' = Sum(SoldOfEach', DOMAIN loaded')
  /\ \A i \in DOMAIN loaded' : SoldOfEach'[i] = SoldOf(i)' /\ SoldOf(i)' \in Nat
<1> DEFINE Known == /\ SoldSoFar = Sum(SoldOfEach, DOMAIN loaded)
                    /\ \A i \in DOMAIN loaded : SoldOfEach[i] = SoldOf(i) /\ SoldOf(i) \in Nat
<1>1. LotsTypeOK /\ Lists => Known
  BY SoldTypes
<1> HIDE DEF Known
<1>2. LotsTypeOK' /\ Lists' => Known'
  BY <1>1, PTL
<1> QED
  BY <1>2 DEF Known

\* A sale of a lot shows in what the job has sold, and in its profits.
LEMMA SoldMore ==
  ASSUME LotsTypeOK, Lists, LotsTypeOK', Lists', NEW i \in Snapshot, SellLot(i),
         NEW used, used = Min({heap[i].quantity, remain})
  PROVE  /\ SoldSoFar' = SoldSoFar + used
         /\ Unsaved' = Unsaved + used
<1>1. /\ used \in Nat \ {0} /\ i \in DOMAIN loaded /\ i \in DOMAIN heap /\ i \notin toDelete
      /\ used <= heap[i].quantity
      /\ pnlList' = Append(pnlList, [saved |-> FALSE, quantity |-> used])
      /\ UNCHANGED loaded
  BY SaleOfLot, Tables DEF SellLot
<1>2. SoldOf(i)' = SoldOf(i) + used /\ \A j \in DOMAIN loaded \ {i} : SoldOf(j)' = SoldOf(j)
  <2>1. heap[i].quantity \in Nat /\ loaded[i].quantity \in Nat
    BY <1>1, SoldTypes
  <2>2. CASE /\ used = heap[i].quantity
             /\ toDelete' = toDelete \union {i} /\ UNCHANGED <<heap, toUpdate>>
    <3>1. SoldOf(i) = loaded[i].quantity - heap[i].quantity /\ SoldOf(i)' = loaded'[i].quantity - 0
      BY <1>1, <2>2 DEF SoldOf
    <3>0. used = heap[i].quantity
      BY <2>2
    <3>2. SoldOf(i)' = SoldOf(i) + used
      <4> DEFINE l == loaded[i].quantity
                 h == heap[i].quantity
      <4>1. l \in Nat /\ h \in Nat /\ used = h
        BY <2>1, <3>0
      <4>2. SoldOf(i) = l - h /\ SoldOf(i)' = l
        <5>1. SoldOf(i)' = loaded'[i].quantity - 0
          BY <3>1
        <5>2. loaded' = loaded
          BY <1>1
        <5>3. SoldOf(i)' = l - 0
          BY <5>1, <5>2
        <5> HIDE DEF l
        <5>4. l - 0 = l
          BY <4>1
        <5> QED
          BY <3>1, <5>3, <5>4 DEF l
      <4> HIDE DEF l, h
      <4> QED
        BY <4>1, <4>2
    <3>3. \A j \in DOMAIN loaded \ {i} : SoldOf(j)' = SoldOf(j)
      BY <1>1, <2>2 DEF SoldOf
    <3> QED
      BY <3>2, <3>3
  <2>3. CASE /\ used < heap[i].quantity
             /\ toUpdate' = Append(toUpdate, i) /\ UNCHANGED toDelete
             /\ heap' = [heap EXCEPT ![i].quantity = heap[i].quantity - used]
    <3>1. heap \in [DOMAIN heap -> Lot] /\ heap[i] \in Lot
      BY <1>1 DEF LotsTypeOK, Table
    <3>2. heap' = [heap EXCEPT ![i] = [heap[i] EXCEPT !.quantity = heap[i].quantity - used]]
      BY <2>3
    <3>3. heap'[i].quantity = heap[i].quantity - used
          /\ \A j \in DOMAIN heap \ {i} : heap'[j] = heap[j]
      BY <1>1, <3>1, <3>2 DEF Lot
    <3>4. DOMAIN loaded = DOMAIN heap
      BY Tables
    <3>5. SoldOf(i)' = SoldOf(i) + used
      <4>1. /\ SoldOf(i) = loaded[i].quantity - heap[i].quantity
            /\ SoldOf(i)' = loaded[i].quantity - heap'[i].quantity
        BY <1>1, <2>3 DEF SoldOf
      <4> QED
        BY <1>1, <2>1, <3>3, <4>1
    <3>6. \A j \in DOMAIN loaded \ {i} : SoldOf(j)' = SoldOf(j)
      BY <1>1, <2>3, <3>3, <3>4 DEF SoldOf
    <3> QED
      BY <3>5, <3>6
  <2> QED
    BY <2>2, <2>3, SaleOfLot
<1>3. SoldSoFar' = SoldSoFar + used
  <2> DEFINE f == SoldOfEach
             g == SoldOfEach'
             D == DOMAIN loaded
  <2>1. /\ IsFiniteSet(D) /\ i \in D
        /\ \A j \in D : f[j] = SoldOf(j) /\ f[j] \in Int
        /\ SoldSoFar = Sum(f, D)
    BY <1>1, SoldTypes
  <2>2. /\ \A j \in D : g[j] = SoldOf(j)' /\ g[j] \in Int
        /\ SoldSoFar' = Sum(g, D)
    BY <1>1, SoldTypesAfter
  <2>3. g[i] = f[i] + used /\ \A j \in D \ {i} : f[j] = g[j]
    BY <1>2, <2>1, <2>2
  <2> HIDE DEF f, g, D
  <2>4. Sum(g, D) = Sum(f, D) - f[i] + g[i]
    BY <2>1, <2>2, <2>3, SumChange DEF Sum
  <2>5. Sum(f, D) \in Int /\ f[i] \in Int
    BY <2>1, SumElement DEF Sum
  <2> QED
    BY <1>1, <2>1, <2>2, <2>3, <2>4, <2>5
<1>4. Unsaved' = Unsaved + used
  <2> DEFINE f == [k \in DOMAIN pnlList |-> NewPnl(pnlList[k])]
             g == [k \in DOMAIN pnlList' |-> NewPnl(pnlList'[k])]
             n == Len(pnlList)
             D == DOMAIN pnlList
             S == DOMAIN pnlList'
  <2>1. pnlList \in Seq(Realized) /\ pnlList' \in Seq(Realized)
    BY DEF LotsTypeOK
  <2>2. /\ n \in Nat /\ D = 1 .. n /\ S = 1 .. n + 1
        /\ \A k \in D : pnlList'[k] = pnlList[k]
        /\ pnlList'[n + 1] = [saved |-> FALSE, quantity |-> used]
    BY <1>1, <2>1
  <2>3. /\ \A k \in D : pnlList[k] \in Realized
        /\ \A k \in S : pnlList'[k] \in Realized
    BY <2>1
  <2>4. \A p \in Realized : NewPnl(p) \in Nat
    BY DEF NewPnl, Realized
  <2>5. \A k \in D : f[k] = NewPnl(pnlList[k])
    OBVIOUS
  <2>6. \A k \in S : g[k] = NewPnl(pnlList'[k])
    OBVIOUS
  <2>7. Unsaved = Sum(f, D) /\ Unsaved' = Sum(g, S)
    BY DEF Unsaved, NewPnl
  <2>8. IsFiniteSet(S) /\ n + 1 \in S /\ S \ {n + 1} = D /\ IsFiniteSet(D)
    BY <2>2, FS_Interval, SMTT(20)
  <2>9. NewPnl(pnlList'[n + 1]) = used
    BY <2>2 DEF NewPnl
  <2> HIDE DEF f, g, n, D, S
  <2>10. \A k \in S : g[k] \in Int
    BY <2>3, <2>4, <2>6
  <2>11. Sum(g, S) = g[n + 1] + Sum(g, D)
    BY <2>8, <2>10, SumElement DEF Sum
  <2>12. \A k \in D : g[k] = f[k]
    BY <2>2, <2>5, <2>6, <2>8
  <2>13. Sum(g, D) = Sum(f, D)
    BY <2>8, <2>12, SumSame DEF Sum
  <2>14. g[n + 1] = used
    BY <2>6, <2>8, <2>9
  <2>15. Sum(f, D) \in Nat
    BY <2>7, JobTypes
  <2> QED
    BY <1>1, <2>7, <2>11, <2>13, <2>14, <2>15
<1> QED
  BY <1>3, <1>4

LEMMA AccountsFrame ==
  ASSUME Books, UNCHANGED <<fifo, pnlList, step, side, fills, at, remain>>
  PROVE  Books'
<1>1. /\ SoldSoFar' = SoldSoFar /\ Traded' = Traded /\ Rest' = Rest /\ Bought' = Bought
      /\ Unsaved' = Unsaved /\ Selling' = Selling /\ Total(loaded)' = Total(loaded)
  BY DEF SoldSoFar, SoldOf, Traded, Rest, Bought, Unsaved, Selling, fifo
<1> QED
  BY <1>1 DEF Books

\* A step that leaves the job idle, or before its first fill.
LEMMA AccountsIdle ==
  ASSUME LotsTypeOK, Books, UNCHANGED pnlList, ~ Selling, step' \notin {"push", "lot"}
  PROVE  Books'
<1>1. Unsaved' = Unsaved /\ Unsaved = 0
  BY DEF Unsaved, Books
<1> QED
  BY <1>1 DEF Books, Selling

LEMMA LoadAccounts ==
  LotsTypeOK /\ Lists /\ Reserved /\ Books /\ Enough /\ Load => Books'
<1> SUFFICES ASSUME LotsTypeOK, Lists, Reserved, Books, Enough, Load PROVE Books'
  OBVIOUS
<1>1. /\ step = "load" /\ step' = "push" /\ heap' = LotsOf("SPOT") /\ loaded' = LotsOf("SPOT")
      /\ UNCHANGED <<toCreate, toUpdate, toDelete, pnlList, side, fills, at, remain>>
      /\ toCreate = <<>> /\ toDelete = {} /\ at = 1 /\ remain = 0
  BY DEF Load, work, Lists
<1>2. Rest' = Traded /\ Traded' = Traded /\ Traded \in Nat
  BY <1>1, RestOf, JobTypes DEF Rest, Traded
<1>3. SoldSoFar' = 0
  <2>1. LotsTypeOK' /\ Lists'
    BY LoadTypes, LoadLists
  <2> QED
    BY <1>1, <2>1, NothingSoldAfter
<1>4. side = "SELL" => Total(loaded)' >= Traded
  <2>1. Total(loaded)' = Total(LotsOf("SPOT"))
    BY <1>1
  <2>2. SumsOf("SPOT")
    BY TotalHeld DEF SumsKnown, Wallets
  <2>3. Sum(Worths("SPOT"), Ids) >= holding["SPOT"]
    BY DEF Enough, Wallets
  <2>4. Available("SPOT") >= 0 /\ (side = "SELL" => locked >= Traded)
    BY <1>1 DEF Reserved, Wallets
  <2>5. holding["SPOT"] \in Int /\ locked \in Nat /\ call.amount \in Nat
    BY Reservations DEF Wallets
  <2>6. holding["SPOT"] >= locked
    BY <2>4, <2>5, Reservations
  <2>7. Total(LotsOf("SPOT")) \in Nat /\ Total(LotsOf("SPOT")) >= holding["SPOT"]
    BY <2>2, <2>3, <2>5 DEF SumsOf
  <2> QED
    BY <1>2, <2>1, <2>4, <2>5, <2>6, <2>7
<1>5. Unsaved' = 0
  <2>1. Unsaved' = Unsaved
    BY <1>1 DEF Unsaved
  <2> QED
    BY <1>1, <2>1 DEF Books, Selling
<1>6. Bought' = 0
  <2>1. Bought' = Sum([k \in {} |-> toCreate'[k].quantity], {})
    BY <1>1 DEF Bought
  <2> QED
    BY <2>1, SumEmpty DEF Sum
<1>7. /\ SoldSoFar' = Traded' - remain' - Rest'
      /\ Unsaved' = Traded' - remain' - Rest'
      /\ Bought' = Traded' - Rest'
  BY <1>1, <1>2, <1>3, <1>5, <1>6
<1> QED
  BY <1>1, <1>2, <1>4, <1>5, <1>7 DEF Books, Selling

LEMMA BuyAccounts == LotsTypeOK /\ Books /\ Buy => Books'
<1> SUFFICES ASSUME LotsTypeOK, Books, Buy PROVE Books'
  OBVIOUS
<1>1. /\ step = "push" /\ side = "BUY" /\ at \in DOMAIN fills /\ at' = at + 1
      /\ toCreate' = Append(toCreate, [wallet |-> "SPOT", age |-> new, quantity |-> fills[at]])
      /\ UNCHANGED <<pnlList, step, side, fills, remain>>
  BY DEF Buy
<1>2. Rest' = Sum(fills, at + 1 .. Len(fills)) /\ Traded' = Traded /\ Traded \in Nat
  BY <1>1, JobTypes DEF Rest, Traded
<1>3. Rest = fills[at] + Rest' /\ Rest' \in Nat /\ fills[at] \in Nat
  BY <1>1, <1>2, RestOf
<1>4. Bought' = Bought + fills[at] /\ Bought \in Nat
  <2> DEFINE f == [k \in DOMAIN toCreate |-> toCreate[k].quantity]
             g == [k \in DOMAIN toCreate' |-> toCreate'[k].quantity]
             n == Len(toCreate)
             D == DOMAIN toCreate
             S == DOMAIN toCreate'
  <2>0. LotsTypeOK'
    BY BuyTypes
  <2>1. toCreate \in Seq(Lot) /\ toCreate' \in Seq(Lot)
    BY <2>0 DEF LotsTypeOK
  <2>2. /\ n \in Nat /\ D = 1 .. n /\ S = 1 .. n + 1
        /\ \A k \in D : toCreate'[k] = toCreate[k]
        /\ toCreate'[n + 1] = [wallet |-> "SPOT", age |-> new, quantity |-> fills[at]]
    BY <1>1, <2>1
  <2>3. \A k \in S : toCreate'[k] \in Lot
    BY <2>1
  <2>4. \A k \in S : g[k] = toCreate'[k].quantity /\ g[k] \in Int
    BY <2>3 DEF Lot
  <2>5. \A k \in D : f[k] = toCreate[k].quantity
    OBVIOUS
  <2>6. Bought = Sum(f, D) /\ Bought' = Sum(g, S)
    BY DEF Bought
  <2>7. IsFiniteSet(S) /\ n + 1 \in S /\ S \ {n + 1} = D /\ IsFiniteSet(D)
    BY <2>2, FS_Interval, SMTT(20)
  <2>8. toCreate'[n + 1].quantity = fills[at]
    BY <2>2
  <2> HIDE DEF f, g, n, D, S
  <2>9. Sum(g, S) = g[n + 1] + Sum(g, D)
    BY <2>4, <2>7, SumElement DEF Sum
  <2>10. \A k \in D : g[k] = f[k]
    BY <2>2, <2>4, <2>5, <2>7
  <2>11. Sum(g, D) = Sum(f, D)
    BY <2>7, <2>10, SumSame DEF Sum
  <2>12. g[n + 1] = fills[at]
    BY <2>4, <2>7, <2>8
  <2>13. Sum(f, D) \in Nat
    BY <2>6, JobTypes
  <2> QED
    BY <1>3, <2>6, <2>9, <2>11, <2>12, <2>13
<1>5. Bought = Traded - Rest
  BY <1>1 DEF Books
<1>6. Bought' = Traded' - Rest'
  BY <1>2, <1>3, <1>4, <1>5, SMTT(20)
<1>7. Unsaved' = Unsaved /\ Unsaved = 0
  BY <1>1 DEF Unsaved, Books, Selling
<1> QED
  BY <1>1, <1>6, <1>7 DEF Books, Selling

LEMMA SellAccounts == LotsTypeOK /\ Lists /\ Books /\ Sell => Books'
<1> SUFFICES ASSUME LotsTypeOK, Lists, Books, Sell PROVE Books'
  OBVIOUS
<1>1. /\ step = "push" /\ step' = "lot" /\ side = "SELL" /\ at \in DOMAIN fills
      /\ at' = at + 1 /\ remain' = fills[at] /\ remain = 0
      /\ UNCHANGED <<fifo, pnlList, side, fills>>
  BY DEF Sell, Lists
<1>2. Rest' = Sum(fills, at + 1 .. Len(fills)) /\ Traded' = Traded /\ Traded \in Nat
  BY <1>1, JobTypes DEF Rest, Traded
<1>3. Rest = fills[at] + Rest' /\ Rest' \in Nat /\ fills[at] \in Nat
  BY <1>1, <1>2, RestOf
<1>4. SoldSoFar' = SoldSoFar /\ Unsaved' = Unsaved /\ Total(loaded)' = Total(loaded)
  BY <1>1 DEF SoldSoFar, SoldOf, Unsaved, fifo
<1>5. /\ SoldSoFar = Traded - remain - Rest /\ Total(loaded) >= Traded
      /\ Unsaved = Traded - remain - Rest
  BY <1>1 DEF Books, Selling
<1>6. Traded - remain - Rest = Traded' - remain' - Rest'
  BY <1>1, <1>2, <1>3
<1> QED
  BY <1>1, <1>2, <1>4, <1>5, <1>6 DEF Books, Selling

LEMMA SellLotAccounts ==
  ASSUME LotsTypeOK, Lists, Books, NEW i \in Snapshot, SellLot(i)
  PROVE  Books'
<1> DEFINE used == Min({heap[i].quantity, remain})
<1>0. used = Min({heap[i].quantity, remain})
  OBVIOUS
<1> HIDE DEF used
<1>1. /\ used \in Nat \ {0} /\ remain' = remain - used /\ remain \in Nat
  BY <1>0, SaleOfLot DEF LotsTypeOK
<1>2. /\ step = "lot" /\ step' = "lot" /\ side = "SELL"
      /\ UNCHANGED <<side, fills, at, loaded>>
  BY DEF SellLot, work, Lists, LotsTypeOK
<1>3. LotsTypeOK' /\ Lists'
  BY SellLotTypes, SellLotLists
<1>4. SoldSoFar' = SoldSoFar + used /\ Unsaved' = Unsaved + used
  BY <1>0, <1>3, SoldMore
<1>5. Traded' = Traded /\ Rest' = Rest /\ Total(loaded)' = Total(loaded)
  BY <1>2 DEF Traded, Rest
<1>6. /\ SoldSoFar = Traded - remain - Rest /\ Total(loaded) >= Traded
      /\ Unsaved = Traded - remain - Rest
  BY <1>2 DEF Books, Selling
<1>7. Traded \in Nat /\ Rest \in Nat
  BY JobTypes
<1>8. Traded - (remain - used) - Rest = (Traded - remain - Rest) + used
  BY <1>1, <1>7
<1>9. /\ SoldSoFar' = Traded' - remain' - Rest'
      /\ Unsaved' = Traded' - remain' - Rest'
  BY <1>1, <1>4, <1>5, <1>6, <1>8
<1>10. Total(loaded)' >= Traded'
  BY <1>5, <1>6
<1> QED
  BY <1>2, <1>9, <1>10 DEF Books, Selling

\* The snapshot never runs out before the sale is done.
\* A sale that is not done has a lot to sell from.
SaleHasLots == step = "lot" /\ remain > 0 => Snapshot # {}

LEMMA LotsLeft == LotsTypeOK /\ Lists /\ Books => SaleHasLots
<1> SUFFICES ASSUME LotsTypeOK, Lists, Books, step = "lot", Snapshot = {} PROVE remain = 0
  BY DEF SaleHasLots
<1>1. SoldSoFar = Traded - remain - Rest /\ Total(loaded) >= Traded
  <2>1. side = "SELL"
    BY DEF Lists, LotsTypeOK
  <2> QED
    BY <2>1 DEF Books, Selling
<1>2. Traded \in Nat /\ Rest \in Nat /\ remain \in Nat
  BY JobTypes DEF LotsTypeOK
<1>3. SoldSoFar = Total(loaded) /\ SoldSoFar \in Nat
  BY AllSold, SoldTypes
<1> QED
  BY <1>1, <1>2, <1>3

LEMMA LotsDoneAccounts == LotsTypeOK /\ Lists /\ Books /\ LotsDone => Books'
<1> SUFFICES ASSUME LotsTypeOK, Lists, Books, LotsDone PROVE Books'
  OBVIOUS
<1>1. /\ step = "lot" /\ step' = "push" /\ remain' = 0 /\ side = "SELL"
      /\ remain = 0 \/ Snapshot = {}
      /\ UNCHANGED <<fifo, pnlList, side, fills, at>>
  BY DEF LotsDone, work, Lists, LotsTypeOK
<1>2. /\ SoldSoFar = Traded - remain - Rest /\ Total(loaded) >= Traded
      /\ Unsaved = Traded - remain - Rest
  BY <1>1 DEF Books, Selling
<1>3. Traded \in Nat /\ Rest \in Nat /\ remain \in Nat
  BY JobTypes DEF LotsTypeOK
<1>4. remain = 0
  <2>1. SaleHasLots
    BY LotsLeft
  <2> QED
    BY <1>1, <1>3, <2>1 DEF SaleHasLots
<1>5. /\ SoldSoFar' = SoldSoFar /\ Unsaved' = Unsaved /\ Total(loaded)' = Total(loaded)
      /\ Traded' = Traded /\ Rest' = Rest
  BY <1>1 DEF SoldSoFar, SoldOf, Unsaved, Traded, Rest, fifo
<1> QED
  BY <1>1, <1>2, <1>4, <1>5 DEF Books, Selling

LEMMA NoPnlUnsaved ==
  ASSUME NEW p \in Seq(Realized), \A k \in DOMAIN p : p[k].saved
  PROVE  Sum([k \in DOMAIN p |-> NewPnl(p[k])], DOMAIN p) = 0
<1> DEFINE f == [k \in DOMAIN p |-> NewPnl(p[k])]
<1>1. IsFiniteSet(DOMAIN p) /\ {} \in SUBSET DOMAIN p
  BY FS_Interval
<1>2. \A k \in DOMAIN p : f[k] = 0 /\ f[k] \in Int
  BY DEF NewPnl
<1> HIDE DEF f
<1>3. Sum(f, {}) = Sum(f, DOMAIN p)
  BY <1>1, <1>2, SumZeros DEF Sum
<1>4. Sum(f, {}) = 0
  BY SumEmpty DEF Sum
<1> QED
  BY <1>3, <1>4 DEF f

LEMMA CommitAccounts == LotsTypeOK /\ Lists /\ Reserved /\ Books /\ Commit => Books'
<1> SUFFICES ASSUME LotsTypeOK, Lists, Reserved, Books, Commit PROVE Books'
  OBVIOUS
<1>1. /\ pnlList' = [k \in DOMAIN pnlList |-> [pnlList[k] EXCEPT !.saved = TRUE]]
      /\ step' = "reset"
  BY DEF Commit
<1>2. pnlList \in Seq(Realized) /\ pnlList' \in Seq(Realized)
  BY CommitTypes DEF LotsTypeOK
<1>3. \A k \in DOMAIN pnlList' : pnlList'[k].saved
  <2>1. \A k \in DOMAIN pnlList : pnlList[k] \in Realized
    BY <1>2
  <2> QED
    BY <1>1, <2>1 DEF Realized
<1>4. Unsaved' = 0
  <2>1. Unsaved' = Sum([k \in DOMAIN pnlList' |-> NewPnl(pnlList'[k])], DOMAIN pnlList')
    BY DEF Unsaved, NewPnl
  <2> QED
    BY <1>2, <1>3, <2>1, NoPnlUnsaved
<1> QED
  BY <1>1, <1>4 DEF Books, Selling

LEMMA AccountsStep ==
  LotsTypeOK /\ Lists /\ Reserved /\ Books /\ Enough /\ LotsNext => Books'
<1> SUFFICES ASSUME LotsTypeOK, Lists, Reserved, Books, Enough, LotsNext PROVE Books'
  OBVIOUS
<1>1. ASSUME NEW s, NEW q, StartJob(s, q) PROVE Books'
  <2>1. UNCHANGED pnlList /\ ~ Selling /\ step' \notin {"push", "lot"}
    BY <1>1 DEF StartJob, Selling
  <2> QED
    BY <2>1, AccountsIdle
<1>2. CASE Reset
  <2>1. UNCHANGED pnlList /\ ~ Selling /\ step' \notin {"push", "lot"}
    BY <1>2 DEF Reset, Selling
  <2> QED
    BY <2>1, AccountsIdle
<1>3. CASE WorkerDies
  <2>1. pnlList' = <<>> /\ step' = "idle"
    BY <1>3 DEF WorkerDies
  <2>2. Unsaved' = Sum([k \in {} |-> NewPnl(pnlList'[k])], {})
    BY <2>1 DEF Unsaved, NewPnl
  <2>3. Unsaved' = 0
    BY <2>2, SumEmpty DEF Sum
  <2> QED
    BY <2>1, <2>3 DEF Books, Selling
<1>4. ASSUME UNCHANGED <<fifo, pnlList, step, work, remain>> PROVE Books'
  BY <1>4, AccountsFrame DEF work
<1>5. ASSUME NEW amount \in Amounts,
             (\E w \in Wallets : FindLots(w, amount)) \/ DeductLots(amount) \/ AddRefundLot(amount)
      PROVE  UNCHANGED <<fifo, pnlList, step, work, remain>>
  BY <1>5 DEF FindLots, DeductLots, AddRefundLot
<1>6. CASE ConvertLots \/ AllDone
  BY <1>4, <1>6 DEF ConvertLots, AllDone, lotsVars
<1> QED
  BY <1>1, <1>2, <1>3, <1>4, <1>5, <1>6, LoadAccounts, BuyAccounts, SellAccounts,
     SellLotAccounts, LotsDoneAccounts, CommitAccounts DEF LotsNext

-----------------------------------------------------------------------------
\* The lots and what the wallets hold.
Nothing == [i \in Ids |-> 0]

LEMMA NothingSum ==
  ASSUME LotsTypeOK
  PROVE  Sum(Nothing, Ids) = 0 /\ \A i \in Ids : Nothing[i] = 0
<1>1. \A i \in Ids : Nothing[i] = 0 /\ Nothing[i] \in Int
  BY DEF Nothing
<1>2. Sum(Nothing, {}) = Sum(Nothing, Ids)
  BY <1>1, Tables, SumZeros, {} \in SUBSET Ids DEF Sum
<1> QED
  BY <1>1, <1>2, SumEmpty DEF Sum

LEMMA Later ==
  ASSUME NEW a \in Nat \ {0}, NEW b \in Nat \ {0}
  PROVE  a .. b - 1 \in SUBSET (1 .. b - 1) /\ \A i \in a .. b - 1 : i \notin 1 .. a - 1
  OBVIOUS

LEMMA NewHeld ==
  ASSUME LotsTypeOK, LotsTypeOK', new' >= new, NEW w
  PROVE  /\ new .. new' - 1 \in SUBSET Ids' /\ IsFiniteSet(new .. new' - 1)
         /\ \A i \in new .. new' - 1 : Held(w)'[i] = Has(lots', w, i) /\ Held(w)'[i] \in Nat
                                       /\ i \notin Ids
         /\ (\A i \in new .. new' - 1 : Has(lots', w, i) = 0) =>
              Sum(Held(w)', new .. new' - 1) = 0
<1> DEFINE N == new .. new' - 1
           h == Held(w)'
<1>1. new \in Nat \ {0} /\ new' \in Nat \ {0}
  BY DEF LotsTypeOK
<1>2. N \in SUBSET Ids' /\ IsFiniteSet(N) /\ \A i \in N : i \notin Ids
  <2>1. Ids' = 1 .. new' - 1 /\ Ids = 1 .. new - 1
    BY DEF Ids
  <2>2. IsFiniteSet(N)
    BY <1>1, FS_Interval
  <2>3. N \in SUBSET (1 .. new' - 1) /\ \A i \in N : i \notin 1 .. new - 1
    BY <1>1, Later
  <2> HIDE DEF N
  <2> QED
    BY <2>1, <2>2, <2>3
<1>3. \A i \in Ids' : h[i] = Has(lots', w, i)
  BY DEF Held
<1>4. \A i \in Ids' : Has(lots', w, i) \in Nat
  <2>1. \A i \in DOMAIN lots' : lots'[i] \in Lot
    BY DEF LotsTypeOK, Table
  <2> QED
    BY <2>1 DEF Has, Lot
<1> HIDE DEF N, h
<1>5. \A i \in N : h[i] = Has(lots', w, i) /\ h[i] \in Nat
  BY <1>2, <1>3, <1>4
<1>6. (\A i \in N : Has(lots', w, i) = 0) => Sum(h, N) = 0
  <2> SUFFICES ASSUME \A i \in N : Has(lots', w, i) = 0 PROVE Sum(h, N) = 0
    OBVIOUS
  <2>1. \A i \in N : h[i] = 0 /\ h[i] \in Int
    BY <1>5
  <2>2. Sum(h, {}) = Sum(h, N)
    BY <1>2, <2>1, SumZeros, {} \in SUBSET N DEF Sum
  <2> QED
    BY <2>2, SumEmpty DEF Sum
<1> QED
  BY <1>2, <1>5, <1>6 DEF N, h

\* A step that moves no lot.
LEMMA QuietHoldings ==
  ASSUME LotsTypeOK, LotsTypeOK', Enough, LotsMatchHoldings, new' >= new,
         UNCHANGED <<lots, holding, stale>>,
         DOMAIN loaded' \subseteq Ids, DOMAIN call.found' \subseteq Ids,
         \A w \in Wallets : \A i \in Ids : Worth(w, i)' >= Worth(w, i)
  PROVE  Enough' /\ LotsMatchHoldings'
<1>1. LotsMatchHoldings'
  BY DEF LotsMatchHoldings, LotsOf
<1>2. ASSUME NEW w \in Wallets PROVE Sum(Worths(w), Ids)' >= holding'[w]
  <2>1. \A i \in Ids : Nothing[i] \in Int /\ Worth(w, i)' >= Worth(w, i) - Nothing[i]
    <3> TAKE i \in Ids
    <3>1. Nothing[i] = 0 /\ Worth(w, i)' >= Worth(w, i)
      BY NothingSum
    <3>2. Worth(w, i) \in Nat
      BY WorthBounds DEF WorthsKnown, WorthIs, Ids
    <3> QED
      BY <3>1, <3>2
  <2>2. /\ Sum(Worths(w), Ids)' >= Sum(Worths(w), Ids) - Sum(Nothing, Ids)
                                     + Sum(Held(w)', new .. new' - 1)
        /\ Sum(Held(w)', new .. new' - 1) \in Nat
    BY <2>1, LotsMoved
  <2>3. Sum(Nothing, Ids) = 0 /\ Sum(Worths(w), Ids) >= holding[w]
    BY NothingSum DEF Enough
  <2>4. Sum(Worths(w), Ids) \in Nat /\ holding[w] \in Int /\ holding'[w] = holding[w]
    BY TotalHeld, Reservations DEF SumsKnown, SumsOf
  <2>5. Sum(Worths(w), Ids)' \in Nat
    BY NextKnown DEF SumsKnown, SumsOf
  <2> QED
    BY <2>2, <2>3, <2>4, <2>5
<1> QED
  BY <1>1, <1>2 DEF Enough

LEMMA SameWorth ==
  ASSUME UNCHANGED <<lots, loaded, call>>
  PROVE  \A w \in Wallets : \A i \in Ids : Worth(w, i)' = Worth(w, i)
  BY DEF Worth

\* A fresh copy of lots of one wallet takes nothing from their worth.
LEMMA FreshCopy ==
  ASSUME LotsTypeOK, LotsTypeOK', UNCHANGED <<lots>>, NEW x \in Wallets,
         \/ loaded' = LotsOf(x) /\ UNCHANGED call
         \/ call'.found = LotsOf(x) /\ UNCHANGED loaded
  PROVE  \A w \in Wallets : \A i \in Ids : Worth(w, i)' >= Worth(w, i)
<1> SUFFICES ASSUME NEW w \in Wallets, NEW i \in Ids PROVE Worth(w, i)' >= Worth(w, i)
  OBVIOUS
<1>1. WorthIs(w, i) /\ WorthIs(w, i)'
  BY WorthBounds, NextKnown DEF WorthsKnown, Ids
<1>2. Has(lots', w, i) = Has(lots, w, i)
  OBVIOUS
<1>3. i \in DOMAIN LotsOf(x) => Has(lots, w, i) <= LotsOf(x)[i].quantity
  <2>1. i \in DOMAIN LotsOf(x) => /\ i \in DOMAIN lots /\ LotsOf(x)[i] = lots[i]
    BY DEF LotsOf
  <2>2. \A j \in DOMAIN lots : lots[j] \in Lot
    BY DEF LotsTypeOK, Table
  <2> QED
    BY <2>1, <2>2 DEF Has, Lot
<1>4. /\ i \in DOMAIN LotsOf(x) => LotsOf(x)[i].quantity \in Nat
      /\ i \in DOMAIN loaded => loaded[i].quantity \in Nat
      /\ i \in DOMAIN call.found => call.found[i].quantity \in Nat
  <2>1. LotTable(LotsOf(x)) /\ LotTable(loaded) /\ LotTable(call.found)
    BY Tables
  <2> QED
    BY <2>1 DEF LotTable, Lot
<1>5. Has(lots, w, i) \in Nat /\ Worth(w, i) \in Nat /\ Worth(w, i)' \in Nat
  BY <1>1 DEF WorthIs
<1>6. CASE loaded' = LotsOf(x) /\ UNCHANGED call
  <2>1. \/ Worth(w, i)' = Has(lots, w, i)
        \/ i \in DOMAIN LotsOf(x) /\ Worth(w, i)' = LotsOf(x)[i].quantity
        \/ i \in DOMAIN call.found /\ Worth(w, i)' = call.found[i].quantity
    BY <1>1, <1>2, <1>6 DEF WorthIs
  <2>2. Worth(w, i) <= Has(lots, w, i)
        /\ (i \in DOMAIN call.found => Worth(w, i) <= call.found[i].quantity)
    BY <1>1 DEF WorthIs
  <2> QED
    BY <1>3, <1>4, <1>5, <2>1, <2>2
<1>7. CASE call'.found = LotsOf(x) /\ UNCHANGED loaded
  <2>1. \/ Worth(w, i)' = Has(lots, w, i)
        \/ i \in DOMAIN LotsOf(x) /\ Worth(w, i)' = LotsOf(x)[i].quantity
        \/ i \in DOMAIN loaded /\ Worth(w, i)' = loaded[i].quantity
    BY <1>1, <1>2, <1>7 DEF WorthIs
  <2>2. Worth(w, i) <= Has(lots, w, i)
        /\ (i \in DOMAIN loaded => Worth(w, i) <= loaded[i].quantity)
    BY <1>1 DEF WorthIs
  <2> QED
    BY <1>3, <1>4, <1>5, <2>1, <2>2
<1> QED
  BY <1>6, <1>7

\* Without its copies the engine can take no worth away.
LEMMA LessCopies ==
  ASSUME LotsTypeOK, LotsTypeOK', UNCHANGED <<lots, call>>, DOMAIN loaded' = {}
  PROVE  \A w \in Wallets : \A i \in Ids : Worth(w, i)' >= Worth(w, i)
<1> SUFFICES ASSUME NEW w \in Wallets, NEW i \in Ids PROVE Worth(w, i)' >= Worth(w, i)
  OBVIOUS
<1>1. WorthIs(w, i) /\ WorthIs(w, i)'
  BY WorthBounds, NextKnown DEF WorthsKnown, Ids
<1>2. Has(lots', w, i) = Has(lots, w, i)
  OBVIOUS
<1>3. \/ Worth(w, i)' = Has(lots, w, i)
      \/ i \in DOMAIN call.found /\ Worth(w, i)' = call.found[i].quantity
  BY <1>1, <1>2 DEF WorthIs
<1>4. Worth(w, i) <= Has(lots, w, i)
      /\ (i \in DOMAIN call.found => Worth(w, i) <= call.found[i].quantity)
  BY <1>1 DEF WorthIs
<1>5. Has(lots, w, i) \in Nat /\ Worth(w, i) \in Nat /\ Worth(w, i)' \in Nat
  BY <1>1 DEF WorthIs
<1> QED
  BY <1>3, <1>4, <1>5

-----------------------------------------------------------------------------
\* What the transaction of a job does to the lots.
Sale == [i \in Ids |-> IF i \in DOMAIN loaded THEN SoldOf(i) ELSE 0]

LEMMA SaleSum ==
  ASSUME LotsTypeOK, Lists
  PROVE  /\ Sum(Sale, Ids) = SoldSoFar
         /\ \A i \in Ids : Sale[i] \in Nat /\ Sale[i] = IF i \in DOMAIN loaded THEN SoldOf(i) ELSE 0
<1>1. \A i \in Ids : Sale[i] = IF i \in DOMAIN loaded THEN SoldOf(i) ELSE 0
  BY DEF Sale
<1>2. /\ \A i \in DOMAIN loaded : SoldOfEach[i] = SoldOf(i) /\ SoldOf(i) \in Nat
      /\ SoldSoFar = Sum(SoldOfEach, DOMAIN loaded)
      /\ IsFiniteSet(Ids) /\ DOMAIN loaded \in SUBSET Ids
  BY SoldTypes, Tables
<1>3. /\ \A i \in DOMAIN loaded : SoldOfEach[i] \in Int /\ Sale[i] = SoldOfEach[i]
      /\ \A i \in Ids \ DOMAIN loaded : Sale[i] = 0
  BY <1>1, <1>2
<1>4. Sum(Sale, Ids) = Sum(SoldOfEach, DOMAIN loaded)
  BY <1>2, <1>3, SumOfPart
<1> QED
  BY <1>1, <1>2, <1>4

\* A lot that a commit saves keeps what the job left of it, if it is still the wallet's.
Saving(i) ==
  IF i \in DOMAIN lots /\ lots[i].wallet = "SPOT"
  THEN Has(lots', "SPOT", i) = heap[i].quantity
  ELSE Has(lots', "SPOT", i) = 0 /\ Has(lots, "SPOT", i) = 0

LEMMA CommitHas ==
  ASSUME LotsTypeOK, Lists, WalletKept, NEW ks \in Agains, lots' = Written(ks), NEW i \in Ids
  PROVE  /\ i \in toDelete =>
              /\ i \in DOMAIN loaded /\ Sale[i] = loaded[i].quantity
              /\ Has(lots', "SPOT", i) = 0 /\ Has(lots', "FUNDING", i) = 0
              /\ Has(lots, "FUNDING", i) = 0
         /\ i \in Updated \ toDelete =>
              /\ i \in DOMAIN loaded /\ Sale[i] = loaded[i].quantity - heap[i].quantity
              /\ Saving(i) /\ Has(lots', "FUNDING", i) = 0
              /\ Has(lots, "FUNDING", i) = 0
         /\ i \notin Updated \union toDelete =>
              /\ Sale[i] = 0
              /\ \A w \in Wallets : Has(lots', w, i) = Has(lots, w, i)
<1>1. /\ DOMAIN loaded = DOMAIN heap /\ Updated \subseteq DOMAIN heap
      /\ toDelete \subseteq DOMAIN heap
  BY Tables, ListTypes
<1>2. i \in DOMAIN lots' <=> i \in (DOMAIN lots \union Updated) \ toDelete
  BY WrittenLots
<1>3. i \in (DOMAIN lots \union Updated) \ toDelete =>
        lots'[i] = IF i \in Updated THEN SavedLot(i, heap[i]) ELSE lots[i]
  BY WrittenLots
<1>4. i \in DOMAIN heap =>
        /\ i \in DOMAIN lots => lots[i].wallet \in {"SPOT", Nobody}
        /\ i \notin Updated \union toDelete => heap[i] = loaded[i]
        /\ Has(lots, "FUNDING", i) = 0
        /\ heap[i].quantity \in Nat /\ loaded[i].quantity \in Nat
  <2> SUFFICES ASSUME i \in DOMAIN heap
               PROVE  /\ i \in DOMAIN lots => lots[i].wallet \in {"SPOT", Nobody}
                      /\ i \notin Updated \union toDelete => heap[i] = loaded[i]
                      /\ Has(lots, "FUNDING", i) = 0
                      /\ heap[i].quantity \in Nat /\ loaded[i].quantity \in Nat
    OBVIOUS
  <2>1. i \notin Updated \union toDelete => heap[i] = loaded[i]
    BY DEF Lists
  <2>2. i \in DOMAIN lots => lots[i].wallet \in {"SPOT", Nobody}
    BY <1>1 DEF WalletKept
  <2>3. Has(lots, "FUNDING", i) = 0
    BY <2>2 DEF Has, Nobody
  <2> QED
    BY <1>1, <2>1, <2>2, <2>3, SoldTypes
<1>5. Sale[i] = IF i \in DOMAIN loaded
                THEN loaded[i].quantity - (IF i \in toDelete THEN 0 ELSE heap[i].quantity) ELSE 0
  BY SaleSum DEF SoldOf
<1>6. ASSUME i \in toDelete
      PROVE  /\ i \in DOMAIN loaded /\ Sale[i] = loaded[i].quantity
             /\ Has(lots', "SPOT", i) = 0 /\ Has(lots', "FUNDING", i) = 0
             /\ Has(lots, "FUNDING", i) = 0
  <2>1. i \in DOMAIN heap /\ i \in DOMAIN loaded
    BY <1>1, <1>6
  <2>2. Sale[i] = loaded[i].quantity - 0 /\ loaded[i].quantity \in Nat
    BY <1>4, <1>5, <1>6, <2>1
  <2>3. Has(lots', "SPOT", i) = 0 /\ Has(lots', "FUNDING", i) = 0
    BY <1>2, <1>6 DEF Has
  <2> QED
    BY <1>4, <2>1, <2>2, <2>3
<1>7. ASSUME i \in Updated \ toDelete
      PROVE  /\ i \in DOMAIN loaded /\ Sale[i] = loaded[i].quantity - heap[i].quantity
             /\ Saving(i) /\ Has(lots', "FUNDING", i) = 0
             /\ Has(lots, "FUNDING", i) = 0
  <2>1. /\ i \in DOMAIN heap /\ i \in DOMAIN loaded /\ i \in DOMAIN lots'
        /\ lots'[i] = SavedLot(i, heap[i])
    BY <1>1, <1>2, <1>3, <1>7
  <2>2. lots'[i].quantity = heap[i].quantity /\ lots'[i].wallet = RowWallet(i)
    BY <2>1, ListTypes, SavedLots
  <2>3. RowWallet(i) \in {"SPOT", Nobody}
    BY <1>4, <2>1 DEF RowWallet
  <2>4. Has(lots', "FUNDING", i) = 0
    BY <2>2, <2>3 DEF Has, Nobody
  <2>5. Saving(i)
    BY <2>1, <2>2 DEF Saving, RowWallet, Has, Nobody
  <2> QED
    BY <1>4, <1>5, <1>7, <2>1, <2>4, <2>5
<1>8. ASSUME i \notin Updated \union toDelete
      PROVE  Sale[i] = 0 /\ \A w \in Wallets : Has(lots', w, i) = Has(lots, w, i)
  <2>1. i \in DOMAIN loaded => Sale[i] = loaded[i].quantity - heap[i].quantity
                               /\ heap[i] = loaded[i] /\ heap[i].quantity \in Nat
    BY <1>1, <1>4, <1>5, <1>8
  <2>2. Sale[i] = 0
    BY <1>5, <2>1
  <2>3. (i \in DOMAIN lots' <=> i \in DOMAIN lots) /\ (i \in DOMAIN lots => lots'[i] = lots[i])
    BY <1>2, <1>3, <1>8
  <2> QED
    BY <2>2, <2>3 DEF Has
<1> QED
  BY <1>6, <1>7, <1>8

LEMMA CommitWorth ==
  ASSUME LotsTypeOK, LotsTypeOK', Lists, WalletKept, UNCHANGED <<loaded, call>>,
         NEW ks \in Agains, lots' = Written(ks), NEW i \in Ids
  PROVE  /\ Worth("SPOT", i)' >= Worth("SPOT", i) - Sale[i]
         /\ Worth("FUNDING", i)' >= Worth("FUNDING", i)
         /\ Has(lots', "FUNDING", i) = Has(lots, "FUNDING", i)
         /\ Fresh(loaded, Updated \union toDelete) =>
              Has(lots', "SPOT", i) = Has(lots, "SPOT", i) - Sale[i]
<1>1. /\ WorthIs("SPOT", i) /\ WorthIs("SPOT", i)'
      /\ WorthIs("FUNDING", i) /\ WorthIs("FUNDING", i)'
  BY WorthBounds, NextKnown DEF WorthsKnown, Ids, Wallets
<1>2. /\ i \in DOMAIN loaded => loaded[i].quantity \in Nat /\ heap[i].quantity \in Nat
                                /\ heap[i].quantity <= loaded[i].quantity
      /\ i \in DOMAIN call.found => call.found[i].quantity \in Nat
  <2>1. DOMAIN loaded = DOMAIN heap /\ LotTable(call.found)
    BY Tables
  <2> QED
    BY <2>1, SoldTypes DEF LotTable, Lot, Lists
<1>3. Sale[i] \in Nat
  BY SaleSum
<1>4. ASSUME NEW w \in Wallets
      PROVE  /\ Has(lots, w, i) \in Nat /\ Has(lots', w, i) \in Nat
             /\ Worth(w, i) \in Nat /\ Worth(w, i)' \in Nat
             /\ Worth(w, i) <= Has(lots, w, i)
             /\ i \in DOMAIN loaded => Worth(w, i) <= loaded[i].quantity
             /\ i \in DOMAIN call.found => Worth(w, i) <= call.found[i].quantity
             /\ \/ Worth(w, i)' = Has(lots', w, i)
                \/ i \in DOMAIN loaded /\ Worth(w, i)' = loaded[i].quantity
                \/ i \in DOMAIN call.found /\ Worth(w, i)' = call.found[i].quantity
  BY <1>1 DEF WorthIs, Wallets
<1>5. Worth("SPOT", i)' >= Worth("SPOT", i) - Sale[i]
  <2> DEFINE v == Worth("SPOT", i)
             v2 == Worth("SPOT", i)'
             h == Has(lots, "SPOT", i)
             h2 == Has(lots', "SPOT", i)
  <2>1. /\ h \in Nat /\ h2 \in Nat /\ v \in Nat /\ v2 \in Nat /\ v <= h
        /\ i \in DOMAIN loaded => v <= loaded[i].quantity
        /\ i \in DOMAIN call.found => v <= call.found[i].quantity
        /\ \/ v2 = h2
           \/ i \in DOMAIN loaded /\ v2 = loaded[i].quantity
           \/ i \in DOMAIN call.found /\ v2 = call.found[i].quantity
    BY <1>4 DEF Wallets
  <2>2. /\ i \in toDelete => i \in DOMAIN loaded /\ Sale[i] = loaded[i].quantity
        /\ i \in Updated \ toDelete =>
             /\ i \in DOMAIN loaded /\ Sale[i] = loaded[i].quantity - heap[i].quantity
             /\ h2 = heap[i].quantity \/ h = 0
        /\ i \notin Updated \union toDelete => h2 = h
    BY CommitHas DEF Wallets, Saving
  <2> HIDE DEF v, v2, h, h2
  <2>3. ASSUME i \in toDelete PROVE v2 >= v - Sale[i]
    BY <1>2, <1>3, <2>1, <2>2, <2>3
  <2>4. ASSUME i \in Updated \ toDelete PROVE v2 >= v - Sale[i]
    BY <1>2, <1>3, <2>1, <2>2, <2>4
  <2>5. ASSUME i \notin Updated \union toDelete PROVE v2 >= v - Sale[i]
    BY <1>2, <1>3, <2>1, <2>2, <2>5
  <2>6. v2 >= v - Sale[i]
    BY <2>3, <2>4, <2>5
  <2> QED
    BY <2>6 DEF v, v2
<1>6. Has(lots', "FUNDING", i) = Has(lots, "FUNDING", i)
  BY CommitHas DEF Wallets
<1>7. Worth("FUNDING", i)' >= Worth("FUNDING", i)
  <2> DEFINE v == Worth("FUNDING", i)
             v2 == Worth("FUNDING", i)'
             h == Has(lots, "FUNDING", i)
  <2>1. /\ h \in Nat /\ v \in Nat /\ v2 \in Nat /\ v <= h
        /\ i \in DOMAIN loaded => v <= loaded[i].quantity
        /\ i \in DOMAIN call.found => v <= call.found[i].quantity
        /\ \/ v2 = h
           \/ i \in DOMAIN loaded /\ v2 = loaded[i].quantity
           \/ i \in DOMAIN call.found /\ v2 = call.found[i].quantity
    BY <1>4, <1>6 DEF Wallets
  <2> HIDE DEF v, v2, h
  <2>2. v2 >= v
    BY <1>2, <2>1
  <2> QED
    BY <2>2 DEF v, v2
<1>8. ASSUME Fresh(loaded, Updated \union toDelete)
      PROVE  Has(lots', "SPOT", i) = Has(lots, "SPOT", i) - Sale[i]
  <2> DEFINE h == Has(lots, "SPOT", i)
             h2 == Has(lots', "SPOT", i)
  <2>1. i \in Updated \union toDelete => i \in DOMAIN lots /\ lots[i] = loaded[i]
    BY <1>8 DEF Fresh
  <2>20. i \in Updated \union toDelete => lots[i].wallet = "SPOT"
    <3>1. i \in Updated \union toDelete => i \in DOMAIN loaded
      BY Tables, ListTypes
    <3>2. i \in DOMAIN loaded => loaded[i].wallet = "SPOT"
      BY Tables DEF Lists
    <3> QED
      BY <2>1, <3>1, <3>2
  <2>2. i \in Updated \union toDelete => h = loaded[i].quantity
    BY <2>1, <2>20 DEF Has
  <2>3. /\ i \in toDelete => i \in DOMAIN loaded /\ Sale[i] = loaded[i].quantity /\ h2 = 0
        /\ i \in Updated \ toDelete =>
             /\ i \in DOMAIN loaded /\ Sale[i] = loaded[i].quantity - heap[i].quantity
             /\ h2 = heap[i].quantity
        /\ i \notin Updated \union toDelete => h2 = h /\ Sale[i] = 0
    <3>1. i \in Updated \ toDelete =>
            /\ i \in DOMAIN loaded /\ Sale[i] = loaded[i].quantity - heap[i].quantity
            /\ Saving(i) /\ i \in DOMAIN lots /\ lots[i].wallet = "SPOT"
      BY <2>1, <2>20, CommitHas
    <3>2. i \in Updated \ toDelete => h2 = heap[i].quantity
      BY <3>1 DEF Saving
    <3>3. /\ i \in toDelete => i \in DOMAIN loaded /\ Sale[i] = loaded[i].quantity /\ h2 = 0
          /\ i \notin Updated \union toDelete => h2 = h /\ Sale[i] = 0
      BY CommitHas DEF Wallets
    <3> QED
      BY <3>1, <3>2, <3>3
  <2>4. h \in Nat /\ h2 \in Nat
    BY <1>4 DEF Wallets
  <2> HIDE DEF h, h2
  <2>5. h2 = h - Sale[i]
    BY <1>2, <2>2, <2>3, <2>4
  <2> QED
    BY <2>5 DEF h, h2
<1> QED
  BY <1>5, <1>6, <1>7, <1>8

\* Of the lots a commit inserts, the wallet gets those bought: one that is written
\* again is nobody's.
LEMMA CommitGains ==
  ASSUME LotsTypeOK, LotsTypeOK', Lists, NEW ks \in Agains, lots' = Written(ks),
         new' = new + Len(toUpdate) + Len(toCreate) + 1
  PROVE  /\ Sum(Held("SPOT")', new .. new' - 1) = Bought
         /\ Sum(Held("FUNDING")', new .. new' - 1) = 0
<1> DEFINE N == new .. new' - 1
           I == Inserted(ks)
           R == {new + k : k \in ks}
           B == {new + Len(toUpdate) + k : k \in DOMAIN toCreate}
           h == Held("SPOT")'
           y == [k \in DOMAIN toCreate |-> toCreate[k].quantity]
<1>1. /\ new \in Nat \ {0} /\ Len(toUpdate) \in Nat /\ Len(toCreate) \in Nat
      /\ DOMAIN toUpdate = 1 .. Len(toUpdate) /\ DOMAIN toCreate = 1 .. Len(toCreate)
      /\ ks \subseteq DOMAIN toUpdate /\ IsFiniteSet(ks) /\ IsFiniteSet(DOMAIN toCreate)
  <2>1. /\ Len(toUpdate) \in Nat /\ Len(toCreate) \in Nat
        /\ DOMAIN toUpdate = 1 .. Len(toUpdate) /\ DOMAIN toCreate = 1 .. Len(toCreate)
    BY ListTypes
  <2>2. IsFiniteSet(DOMAIN toCreate)
    BY <2>1, FS_Interval
  <2> QED
    BY <2>1, <2>2, WrittenLots, Tables
<1>2. new' >= new /\ new' - 1 = new + Len(toUpdate) + Len(toCreate)
  BY <1>1
<1>3. /\ IsFiniteSet(N) /\ \A i \in N : i \notin Ids
      /\ \A i \in N : h[i] = Has(lots', "SPOT", i) /\ h[i] \in Int
  BY <1>2, NewHeld
<1>4. I = R \union B /\ I \in SUBSET N /\ R \in SUBSET I /\ I \ R = B
  <2>1. I = R \union B
    BY DEF Inserted
  <2>2. I \subseteq new .. new + Len(toUpdate) + Len(toCreate)
    BY WrittenLots
  <2>3. I \in SUBSET N
    BY <1>2, <2>2
  <2>4. \A k \in ks : \A l \in DOMAIN toCreate : new + k # new + Len(toUpdate) + l
    BY <1>1
  <2>5. R \intersect B = {}
    BY <2>4
  <2> QED
    BY <2>1, <2>3, <2>5
<1>5. \A i \in N : i \in DOMAIN lots' <=> i \in I
  <2>1. DOMAIN lots' = ((DOMAIN lots \union Updated) \ toDelete) \union I
    BY WrittenLots
  <2>2. DOMAIN lots \subseteq Ids /\ Updated \subseteq Ids
    BY Tables, ListTypes
  <2> HIDE DEF N, I
  <2> QED
    BY <1>3, <2>1, <2>2
<1>6. \A k \in ks : new + k \in DOMAIN lots' /\ lots'[new + k].wallet = Nobody
  <2> TAKE k \in ks
  <2>1. new + k \in R /\ heap[toUpdate[k]] \in Lot
    BY <1>1, ListTypes
  <2>2. lots'[new + k] = Orphan(heap[toUpdate[k]])
    BY WrittenLots
  <2>3. new + k \in DOMAIN lots'
    BY <1>4, <1>5, <2>1
  <2> HIDE DEF h, N, R, I
  <2> QED
    BY <2>1, <2>2, <2>3, Orphans
<1>7. \A k \in DOMAIN toCreate : /\ h[new + Len(toUpdate) + k] = y[k] /\ y[k] \in Int
  <2> TAKE k \in DOMAIN toCreate
  <2>1. new + Len(toUpdate) + k \in B /\ y[k] = toCreate[k].quantity
    OBVIOUS
  <2>2. lots'[new + Len(toUpdate) + k] = toCreate[k]
    BY WrittenLots
  <2>3. toCreate[k].wallet = "SPOT" /\ toCreate[k] \in Lot
    BY ListTypes DEF Lists
  <2>4. new + Len(toUpdate) + k \in N /\ new + Len(toUpdate) + k \in DOMAIN lots'
    BY <1>4, <1>5, <2>1
  <2> HIDE DEF h, y, N, B, I
  <2> QED
    BY <1>3, <2>1, <2>2, <2>3, <2>4 DEF Has, Lot
<1>8. Bought = Sum(y, DOMAIN toCreate)
  BY DEF Bought
<1>9. \A i \in R : h[i] = 0
  <2> TAKE i \in R
  <2>1. PICK k \in ks : i = new + k
    OBVIOUS
  <2>2. lots'[i].wallet # "SPOT"
    BY <1>6, <2>1 DEF Nobody
  <2>3. h[i] = Has(lots', "SPOT", i)
    BY <1>3, <1>4
  <2> HIDE DEF h
  <2> QED
    BY <2>2, <2>3 DEF Has
<1>10. Sum(h, B) = Sum(y, DOMAIN toCreate)
  <2> DEFINE D == DOMAIN toCreate
             m == [k \in D |-> new + Len(toUpdate) + k]
  <2>1. B = {m[k] : k \in D}
    OBVIOUS
  <2>2. \A k, l \in D : m[k] = m[l] => k = l
    BY <1>1
  <2>3. \A k \in D : y[k] \in Int /\ h[m[k]] = y[k]
    BY <1>7
  <2>4. IsFiniteSet(D)
    BY <1>1
  <2> HIDE DEF m, h, y, B, D
  <2>5. SumFunctionOnSet(h, {m[k] : k \in D}) = SumFunctionOnSet(y, D)
    BY <2>2, <2>3, <2>4, SumRenamed
  <2> QED
    BY <2>1, <2>5 DEF Sum, D
<1>11. B \in SUBSET N /\ \A i \in N \ B : h[i] = 0
  <2>1. \A i \in N \ I : h[i] = 0
    BY <1>3, <1>5 DEF Has
  <2> HIDE DEF h, N, I, R, B
  <2> QED
    BY <1>4, <1>9, <2>1
<1>12. Sum(h, N) = Sum(h, B)
  <2> HIDE DEF h, N, B
  <2> QED
    BY <1>3, <1>11, SumZeros DEF Sum
<1>14. Sum(Held("FUNDING")', N) = 0
  <2>1. \A i \in N : Has(lots', "FUNDING", i) = 0
    <3> TAKE i \in N
    <3>1. CASE i \in R
      <4>1. PICK k \in ks : i = new + k
        BY <3>1
      <4>2. lots'[i].wallet # "FUNDING"
        BY <1>6, <4>1 DEF Nobody
      <4> QED
        BY <4>2 DEF Has
    <3>2. CASE i \in B
      <4>1. PICK k \in DOMAIN toCreate : i = new + Len(toUpdate) + k
        BY <3>2
      <4>2. lots'[i] = toCreate[k]
        BY <4>1, WrittenLots
      <4>3. toCreate[k].wallet = "SPOT"
        BY DEF Lists
      <4> QED
        BY <4>2, <4>3 DEF Has
    <3>3. CASE i \notin I
      BY <1>5, <3>3 DEF Has
    <3> QED
      BY <1>4, <3>1, <3>2, <3>3
  <2> QED
    BY <1>2, <2>1, NewHeld
<1> QED
  BY <1>8, <1>10, <1>12, <1>14

\* What a job writes is what it traded.
LEMMA CommitBooks ==
  ASSUME LotsTypeOK, Lists, Books, Commit
  PROVE  /\ Traded \in Nat /\ Bought \in Nat /\ SoldSoFar \in Nat
         /\ side = "SELL" => SoldSoFar = Traded /\ Bought = 0 /\ Unsaved = Traded
         /\ side = "BUY" => SoldSoFar = 0 /\ Bought = Traded /\ Unsaved = 0
         /\ holding'["SPOT"] = holding["SPOT"] - SoldSoFar + Bought
         /\ holding'["FUNDING"] = holding["FUNDING"]
<1>1. Traded \in Nat /\ Bought \in Nat /\ SoldSoFar \in Nat
  BY JobTypes, SoldTypes
<1>2. /\ step = "push" /\ at \notin DOMAIN fills
      /\ holding' = [holding EXCEPT !["SPOT"] = IF side = "BUY" THEN @ + Traded ELSE @ - Traded]
  BY DEF Commit
<1>3. remain = 0 /\ Rest = 0
  BY <1>2, RestOf DEF Lists
<1>4. side = "SELL" => SoldSoFar = Traded /\ Bought = 0 /\ Unsaved = Traded
  <2> SUFFICES ASSUME side = "SELL" PROVE SoldSoFar = Traded /\ Bought = 0 /\ Unsaved = Traded
    OBVIOUS
  <2>1. SoldSoFar = Traded - remain - Rest /\ Unsaved = Traded - remain - Rest
    BY <1>2 DEF Books, Selling
  <2>2. toCreate = <<>>
    BY DEF Lists
  <2>3. Bought = Sum([k \in {} |-> toCreate[k].quantity], {})
    BY <2>2 DEF Bought
  <2>4. Bought = 0
    BY <2>3, SumEmpty DEF Sum
  <2> QED
    BY <1>1, <1>3, <2>1, <2>4
<1>5. side = "BUY" => SoldSoFar = 0 /\ Bought = Traded /\ Unsaved = 0
  <2> SUFFICES ASSUME side = "BUY" PROVE SoldSoFar = 0 /\ Bought = Traded /\ Unsaved = 0
    OBVIOUS
  <2>1. Bought = Traded - Rest /\ Unsaved = 0
    BY <1>2 DEF Books, Selling
  <2>2. toUpdate = <<>> /\ toDelete = {}
    BY DEF Lists
  <2>3. Updated = {}
    BY <2>2 DEF Updated
  <2>4. \A i \in DOMAIN heap : heap[i] = loaded[i]
    BY <2>2, <2>3 DEF Lists
  <2>5. heap = loaded
    <3>1. heap \in [DOMAIN heap -> Lot] /\ loaded \in [DOMAIN heap -> Lot]
      BY DEF LotsTypeOK, Table
    <3> QED
      BY <2>4, <3>1
  <2>6. SoldSoFar = 0
    BY <2>2, <2>5, NothingSold
  <2> QED
    BY <1>1, <1>3, <2>1, <2>6
<1>6. holding \in [Wallets -> Int] /\ side \in {"BUY", "SELL"}
  BY DEF LotsTypeOK
<1>7. /\ holding'["SPOT"] = IF side = "BUY" THEN holding["SPOT"] + Traded ELSE holding["SPOT"] - Traded
      /\ holding'["FUNDING"] = holding["FUNDING"] /\ holding["SPOT"] \in Int
  BY <1>2, <1>6 DEF Wallets
<1>8. holding'["SPOT"] = holding["SPOT"] - SoldSoFar + Bought
  <2>1. CASE side = "BUY"
    BY <1>1, <1>5, <1>7, <2>1
  <2>2. CASE side = "SELL"
    BY <1>1, <1>4, <1>7, <2>2
  <2> QED
    BY <1>6, <2>1, <2>2
<1> QED
  BY <1>1, <1>4, <1>5, <1>7, <1>8

LEMMA CommitHoldings ==
  ASSUME LotsTypeOK, LotsTypeOK', Lists, WalletKept, Books, Enough, LotsMatchHoldings, Commit
  PROVE  Enough' /\ LotsMatchHoldings'
<1>1. PICK ks \in Agains : lots' = Written(ks)
  BY DEF Commit
<1>2. /\ new' = new + Len(toUpdate) + Len(toCreate) + 1 /\ UNCHANGED <<loaded, call>>
      /\ stale' = (stale \/ ~ Fresh(loaded, Updated \union toDelete))
  BY DEF Commit, fifo, api
<1>3. new' >= new /\ DOMAIN loaded' \subseteq Ids /\ DOMAIN call.found' \subseteq Ids
  <2>1. Len(toUpdate) \in Nat /\ Len(toCreate) \in Nat /\ new \in Nat
    BY ListTypes, Tables
  <2> QED
    BY <1>2, <2>1, Tables
<1>4. /\ Sum(Held("SPOT")', new .. new' - 1) = Bought
      /\ Sum(Held("FUNDING")', new .. new' - 1) = 0
  BY <1>1, <1>2, CommitGains
<1>5. \A i \in Ids :
        /\ Worth("SPOT", i)' >= Worth("SPOT", i) - Sale[i]
        /\ Worth("FUNDING", i)' >= Worth("FUNDING", i)
        /\ Has(lots', "FUNDING", i) = Has(lots, "FUNDING", i)
        /\ Fresh(loaded, Updated \union toDelete) =>
             Has(lots', "SPOT", i) = Has(lots, "SPOT", i) - Sale[i]
  BY <1>1, <1>2, CommitWorth
<1>6. Sum(Sale, Ids) = SoldSoFar /\ \A i \in Ids : Sale[i] \in Int
  BY SaleSum
<1>7. Sum(Nothing, Ids) = 0 /\ \A i \in Ids : Nothing[i] = 0
  BY NothingSum
<1>8. \A i \in Ids : Nothing[i] \in Int /\ Worth("FUNDING", i)' >= Worth("FUNDING", i) - Nothing[i]
                     /\ Has(lots', "FUNDING", i) = Has(lots, "FUNDING", i) - Nothing[i]
  <2> TAKE i \in Ids
  <2>1. WorthIs("FUNDING", i)
    BY WorthBounds DEF WorthsKnown, Ids, Wallets
  <2>2. Worth("FUNDING", i) \in Nat /\ Has(lots, "FUNDING", i) \in Nat /\ Nothing[i] = 0
    BY <1>7, <2>1 DEF WorthIs
  <2> QED
    BY <1>5, <2>2
<1>9. /\ Sum(Worths("SPOT"), Ids)' >= Sum(Worths("SPOT"), Ids) - SoldSoFar + Bought
      /\ Fresh(loaded, Updated \union toDelete) =>
           Total(LotsOf("SPOT"))' = Total(LotsOf("SPOT")) - SoldSoFar + Bought
  <2>1. \A i \in Ids : Sale[i] \in Int /\ Worth("SPOT", i)' >= Worth("SPOT", i) - Sale[i]
    BY <1>5, <1>6
  <2>2. "SPOT" \in Wallets
    BY DEF Wallets
  <2>3. /\ Sum(Worths("SPOT"), Ids)' >= Sum(Worths("SPOT"), Ids) - Sum(Sale, Ids)
                                         + Sum(Held("SPOT")', new .. new' - 1)
        /\ (\A i \in Ids : Has(lots', "SPOT", i) = Has(lots, "SPOT", i) - Sale[i]) =>
              Total(LotsOf("SPOT"))' = Total(LotsOf("SPOT")) - Sum(Sale, Ids)
                                         + Sum(Held("SPOT")', new .. new' - 1)
    BY <1>3, <2>1, <2>2, LotsMoved
  <2> QED
    BY <1>4, <1>5, <1>6, <2>3
<1>10. /\ Sum(Worths("FUNDING"), Ids)' >= Sum(Worths("FUNDING"), Ids) - 0 + 0
       /\ Total(LotsOf("FUNDING"))' = Total(LotsOf("FUNDING")) - 0 + 0
  <2>1. \A i \in Ids : Nothing[i] \in Int /\ Worth("FUNDING", i)' >= Worth("FUNDING", i) - Nothing[i]
    BY <1>8
  <2>2. "FUNDING" \in Wallets
    BY DEF Wallets
  <2>3. /\ Sum(Worths("FUNDING"), Ids)' >= Sum(Worths("FUNDING"), Ids) - Sum(Nothing, Ids)
                                         + Sum(Held("FUNDING")', new .. new' - 1)
        /\ (\A i \in Ids : Has(lots', "FUNDING", i) = Has(lots, "FUNDING", i) - Nothing[i]) =>
              Total(LotsOf("FUNDING"))' = Total(LotsOf("FUNDING")) - Sum(Nothing, Ids)
                                         + Sum(Held("FUNDING")', new .. new' - 1)
    BY <1>3, <2>1, <2>2, LotsMoved
  <2> QED
    BY <1>4, <1>7, <1>8, <2>3
<1>11. /\ SoldSoFar \in Nat /\ Bought \in Nat
       /\ holding'["SPOT"] = holding["SPOT"] - SoldSoFar + Bought
       /\ holding'["FUNDING"] = holding["FUNDING"]
       /\ holding["SPOT"] \in Int /\ holding["FUNDING"] \in Int
  BY CommitBooks, Reservations DEF Wallets, LotsTypeOK
<1>12. ASSUME NEW w \in Wallets
       PROVE  /\ Total(LotsOf(w)) \in Nat /\ Sum(Worths(w), Ids) \in Nat
              /\ Total(LotsOf(w))' \in Nat /\ Sum(Worths(w), Ids)' \in Nat
  BY TotalHeld, NextKnown DEF SumsKnown, SumsOf
<1>13. Enough'
  <2>1. Sum(Worths("SPOT"), Ids) >= holding["SPOT"] /\ Sum(Worths("FUNDING"), Ids) >= holding["FUNDING"]
    BY DEF Enough, Wallets
  <2>2. Sum(Worths("SPOT"), Ids)' >= holding'["SPOT"]
    <3>1. Sum(Worths("SPOT"), Ids) \in Nat /\ Sum(Worths("SPOT"), Ids)' \in Nat
      BY <1>12 DEF Wallets
    <3>2. Sum(Worths("SPOT"), Ids)' >= Sum(Worths("SPOT"), Ids) - SoldSoFar + Bought
      BY <1>9
    <3>3. /\ SoldSoFar \in Nat /\ Bought \in Nat /\ holding["SPOT"] \in Int
          /\ holding'["SPOT"] = holding["SPOT"] - SoldSoFar + Bought
      BY <1>4, <1>11
    <3> QED
      BY <2>1, <3>1, <3>2, <3>3
  <2>3. Sum(Worths("FUNDING"), Ids)' >= holding'["FUNDING"]
    BY <1>10, <1>11, <1>12, <2>1 DEF Wallets
  <2> QED
    BY <2>2, <2>3 DEF Enough, Wallets
<1>14. LotsMatchHoldings'
  <2> SUFFICES ASSUME ~ stale'
               PROVE  /\ Total(LotsOf("SPOT"))' = holding'["SPOT"]
                      /\ Total(LotsOf("FUNDING"))' = holding'["FUNDING"]
    BY DEF LotsMatchHoldings, Wallets
  <2>1. ~ stale /\ Fresh(loaded, Updated \union toDelete)
    BY <1>2
  <2>2. Total(LotsOf("SPOT")) = holding["SPOT"] /\ Total(LotsOf("FUNDING")) = holding["FUNDING"]
    BY <2>1 DEF LotsMatchHoldings, Wallets
  <2>3. Total(LotsOf("SPOT"))' = holding'["SPOT"]
    BY <1>9, <1>11, <2>1, <2>2
  <2>4. Total(LotsOf("FUNDING"))' = holding'["FUNDING"]
    BY <1>10, <1>11, <2>2
  <2> QED
    BY <2>3, <2>4
<1> QED
  BY <1>13, <1>14

-----------------------------------------------------------------------------
\* What a transfer or a withdrawal does to the lots it found.
TakenAt(f, amount) == [i \in Ids |-> IF i \in DOMAIN f THEN Taken(f, amount, i) ELSE 0]

LEMMA TakenSum ==
  ASSUME LotsTypeOK, NEW f, LotTable(f), DOMAIN f \subseteq Ids, NEW amount \in Nat,
         Total(f) >= amount
  PROVE  /\ Sum(TakenAt(f, amount), Ids) = amount
         /\ Sum(TakenOf(f, amount), Spent(f, amount)) = amount
<1> DEFINE D == DOMAIN f
           S == Spent(f, amount)
           s == TakenAt(f, amount)
           t == TakenOf(f, amount)
<1>1. Sum(t, D) = amount
  BY TakenInFull
<1>2. IsFiniteSet(Ids) /\ IsFiniteSet(D) /\ D \in SUBSET Ids /\ S \in SUBSET D
  BY Tables, AfterLots DEF LotTable
<1>3. \A i \in D : t[i] = Taken(f, amount, i) /\ t[i] \in Int
  <2> TAKE i \in D
  <2>1. Taken(f, amount, i) \in 0 .. f[i].quantity /\ f[i].quantity \in Nat
    BY TakenBounds, QuantityTypes
  <2>2. t[i] = Taken(f, amount, i)
    BY DEF TakenOf
  <2> HIDE DEF t
  <2> QED
    BY <2>1, <2>2
<1>4. \A i \in D : s[i] = Taken(f, amount, i)
  BY <1>2 DEF TakenAt
<1>5. \A i \in Ids \ D : s[i] = 0
  BY DEF TakenAt
<1>6. \A i \in D \ S : Taken(f, amount, i) = 0
  BY AfterLots
<1> HIDE DEF D, S, s, t
<1>7. \A i \in D : t[i] \in Int /\ s[i] = t[i]
  BY <1>3, <1>4
<1>8. Sum(s, Ids) = Sum(t, D)
  BY <1>2, <1>5, <1>7, SumOfPart
<1>9. \A i \in D \ S : t[i] = 0
  BY <1>3, <1>6
<1>10. Sum(t, S) = Sum(t, D)
  BY <1>2, <1>3, <1>9, SumZeros DEF Sum
<1> QED
  BY <1>1, <1>8, <1>10 DEF D, S, s, t

LEMMA AfterLotsOf ==
  ASSUME LotsTypeOK, NEW f, LotTable(f), DOMAIN f \subseteq Ids, NEW amount \in Nat
  PROVE  \A i \in Spent(f, amount) :
           /\ i \in DOMAIN After(f, amount) <=> Taken(f, amount, i) < f[i].quantity
           /\ i \in DOMAIN After(f, amount) =>
                /\ After(f, amount)[i].quantity = f[i].quantity - Taken(f, amount, i)
                /\ After(f, amount)[i].wallet = RowWallet(i)
  BY AfterLots

LEMMA SpentHas ==
  ASSUME LotsTypeOK, NEW f, LotTable(f), DOMAIN f \subseteq Ids, NEW amount \in Nat,
         NEW x \in Wallets,
         \A j \in DOMAIN lots \intersect DOMAIN f : lots[j].wallet \in {x, Nobody},
         NEW i \in Ids, NEW g,
         i \in DOMAIN g <=> i \in DOMAIN After(f, amount),
         i \in DOMAIN g => g[i] = After(f, amount)[i]
  PROVE  /\ i \in Spent(f, amount) =>
              /\ IF RowWallet(i) = x THEN Has(g, x, i) = f[i].quantity - TakenAt(f, amount)[i]
                 ELSE Has(g, x, i) = 0 /\ Has(lots, x, i) = 0
              /\ \A w \in Wallets \ {x} : Has(g, w, i) = 0 /\ Has(lots, w, i) = 0
         /\ i \notin Spent(f, amount) =>
              /\ TakenAt(f, amount)[i] = 0
              /\ \A w \in Wallets : Has(g, w, i) = Has(lots, w, i)
         /\ TakenAt(f, amount)[i] \in Nat
         /\ i \in DOMAIN f => f[i].quantity \in Nat
<1> DEFINE S == Spent(f, amount)
           t == TakenAt(f, amount)[i]
           A == After(f, amount)
<1>1. i \in DOMAIN f => f[i].quantity \in Nat /\ f[i] \in Lot
  BY DEF LotTable, Lot
<1>2. t = IF i \in DOMAIN f THEN Taken(f, amount, i) ELSE 0
  BY DEF TakenAt
<1>3. i \in DOMAIN f => Taken(f, amount, i) \in 0 .. f[i].quantity
  BY TakenBounds
<1>4. t \in Nat
  <2> HIDE DEF t
  <2> QED
    BY <1>1, <1>2, <1>3
<1>5. S \subseteq DOMAIN f
  BY AfterLots
<1>6. ASSUME i \in S
      PROVE  /\ IF RowWallet(i) = x THEN Has(g, x, i) = f[i].quantity - t
                ELSE Has(g, x, i) = 0 /\ Has(lots, x, i) = 0
             /\ \A w \in Wallets \ {x} : Has(g, w, i) = 0 /\ Has(lots, w, i) = 0
  <2>1. /\ i \in DOMAIN f /\ t = Taken(f, amount, i) /\ f[i] \in Lot
        /\ f[i].quantity \in Nat /\ t \in 0 .. f[i].quantity
    BY <1>1, <1>2, <1>3, <1>5, <1>6
  <2>2. i \in DOMAIN A <=> t < f[i].quantity
    <3>1. \A j \in S : j \in DOMAIN A <=> Taken(f, amount, j) < f[j].quantity
      BY AfterLotsOf
    <3> HIDE DEF S, A, t
    <3> QED
      BY <1>6, <2>1, <3>1
  <2>3. i \in DOMAIN A => A[i].wallet = RowWallet(i) /\ A[i].quantity = f[i].quantity - t
    <3>1. \A j \in S : j \in DOMAIN A => /\ A[j].quantity = f[j].quantity - Taken(f, amount, j)
                                         /\ A[j].wallet = RowWallet(j)
      BY AfterLotsOf, ZenonT(40)
    <3> HIDE DEF S, A, t
    <3> QED
      BY <1>6, <2>1, <3>1
  <2>4. (i \in DOMAIN g => g[i] = A[i]) /\ (i \in DOMAIN g <=> i \in DOMAIN A)
    OBVIOUS
  <2>5. RowWallet(i) \in {x, Nobody} /\ \A w \in Wallets : w # Nobody
    BY <2>1 DEF RowWallet, Wallets, Nobody
  <2> HIDE DEF S, A, t
  <2>6. ASSUME RowWallet(i) = x PROVE Has(g, x, i) = f[i].quantity - t
    <3>1. Has(g, x, i) = IF i \in DOMAIN A THEN f[i].quantity - t ELSE 0
      BY <2>3, <2>4, <2>6 DEF Has
    <3> QED
      BY <2>1, <2>2, <3>1
  <2>7. ASSUME NEW w \in Wallets, w # RowWallet(i) PROVE Has(g, w, i) = 0 /\ Has(lots, w, i) = 0
    <3>1. i \in DOMAIN g => g[i].wallet # w
      BY <2>3, <2>4, <2>7
    <3>2. i \in DOMAIN lots => lots[i].wallet # w
      BY <2>7 DEF RowWallet
    <3> QED
      BY <3>1, <3>2 DEF Has
  <2>8. \A w \in Wallets \ {x} : w # RowWallet(i)
    BY <2>5
  <2> QED
    BY <2>6, <2>7, <2>8
<1>7. ASSUME i \notin S
      PROVE  t = 0 /\ \A w \in Wallets : Has(g, w, i) = Has(lots, w, i)
  <2>1. i \in DOMAIN f => Taken(f, amount, i) = 0
    BY <1>7, AfterLots
  <2>2. /\ i \in DOMAIN A <=> i \in DOMAIN lots
        /\ i \in DOMAIN lots => A[i] = lots[i]
    BY <1>7, AfterLots
  <2>3. \A w \in Wallets : Has(g, w, i) = Has(lots, w, i)
    BY <2>2 DEF Has
  <2> QED
    BY <1>2, <2>1, <2>3
<1> QED
  BY <1>1, <1>4, <1>6, <1>7

LEMMA SpentWorth ==
  ASSUME LotsTypeOK, LotsTypeOK', NEW f, LotTable(f), DOMAIN f \subseteq Ids, NEW amount \in Nat,
         NEW x \in Wallets, \A j \in DOMAIN f : f[j].wallet = x,
         \A j \in DOMAIN lots \intersect DOMAIN f : lots[j].wallet \in {x, Nobody},
         NEW i \in Ids,
         i \in DOMAIN lots' <=> i \in DOMAIN After(f, amount),
         i \in DOMAIN lots' => lots'[i] = After(f, amount)[i],
         i \in DOMAIN f => Worth(x, i) <= f[i].quantity,
         UNCHANGED loaded, UNCHANGED call \/ call' = NoCall
  PROVE  /\ Worth(x, i)' >= Worth(x, i) - TakenAt(f, amount)[i]
         /\ Fresh(f, Spent(f, amount)) =>
              Has(lots', x, i) = Has(lots, x, i) - TakenAt(f, amount)[i]
         /\ \A w \in Wallets \ {x} : /\ Worth(w, i)' >= Worth(w, i)
                                     /\ Has(lots', w, i) = Has(lots, w, i)
<1> DEFINE S == Spent(f, amount)
           t == TakenAt(f, amount)[i]
<1>1. \A w \in Wallets : WorthIs(w, i) /\ WorthIs(w, i)'
  BY WorthBounds, NextKnown DEF WorthsKnown, Ids
<1>2. /\ i \in S => /\ IF RowWallet(i) = x THEN Has(lots', x, i) = f[i].quantity - t
                       ELSE Has(lots', x, i) = 0 /\ Has(lots, x, i) = 0
                    /\ \A w \in Wallets \ {x} : Has(lots', w, i) = 0 /\ Has(lots, w, i) = 0
      /\ i \notin S => /\ t = 0
                       /\ \A w \in Wallets : Has(lots', w, i) = Has(lots, w, i)
      /\ t \in Nat
      /\ i \in DOMAIN f => f[i].quantity \in Nat
  BY SpentHas
<1>3. S \subseteq DOMAIN f
  BY AfterLots
<1>4. /\ i \in DOMAIN loaded => loaded[i].quantity \in Nat
      /\ i \in DOMAIN call.found => call.found[i].quantity \in Nat
  <2>1. LotTable(call.found) /\ LotTable(loaded)
    BY Tables
  <2> QED
    BY <2>1 DEF LotTable, Lot
<1>5. DOMAIN NoCall.found = {}
  BY DEF NoCall, NoLots
<1>6. ASSUME NEW w \in Wallets
      PROVE  /\ Has(lots, w, i) \in Nat /\ Has(lots', w, i) \in Nat
             /\ Worth(w, i) \in Nat /\ Worth(w, i)' \in Nat
             /\ Worth(w, i) <= Has(lots, w, i)
             /\ i \in DOMAIN loaded => Worth(w, i) <= loaded[i].quantity
             /\ i \in DOMAIN call.found => Worth(w, i) <= call.found[i].quantity
             /\ \/ Worth(w, i)' = Has(lots', w, i)
                \/ i \in DOMAIN loaded /\ Worth(w, i)' = loaded[i].quantity
                \/ i \in DOMAIN call.found /\ Worth(w, i)' = call.found[i].quantity
  BY <1>1, <1>5 DEF WorthIs
<1>7. Worth(x, i)' >= Worth(x, i) - t
  <2> DEFINE v == Worth(x, i)
             v2 == Worth(x, i)'
             h == Has(lots, x, i)
             h2 == Has(lots', x, i)
  <2>1. /\ h \in Nat /\ h2 \in Nat /\ v \in Nat /\ v2 \in Nat /\ v <= h
        /\ i \in DOMAIN loaded => v <= loaded[i].quantity
        /\ i \in DOMAIN call.found => v <= call.found[i].quantity
        /\ \/ v2 = h2
           \/ i \in DOMAIN loaded /\ v2 = loaded[i].quantity
           \/ i \in DOMAIN call.found /\ v2 = call.found[i].quantity
    BY <1>6
  <2>2. /\ i \in S => /\ h2 = f[i].quantity - t \/ h = 0
                      /\ v <= f[i].quantity /\ f[i].quantity \in Nat
        /\ i \notin S => h2 = h
        /\ t \in Nat
    BY <1>2, <1>3
  <2> HIDE DEF v, v2, h, h2, t, S
  <2>3. ASSUME i \in S PROVE v2 >= v - t
    BY <1>4, <2>1, <2>2, <2>3
  <2>4. ASSUME i \notin S PROVE v2 >= v - t
    BY <1>4, <2>1, <2>2, <2>4
  <2>5. v2 >= v - t
    BY <2>3, <2>4
  <2> QED
    BY <2>5 DEF v, v2
<1>8. ASSUME NEW w \in Wallets \ {x}
      PROVE  Worth(w, i)' >= Worth(w, i) /\ Has(lots', w, i) = Has(lots, w, i)
  <2> DEFINE v == Worth(w, i)
             v2 == Worth(w, i)'
             h == Has(lots, w, i)
  <2>0. Has(lots', w, i) = h
    BY <1>2
  <2>1. /\ h \in Nat /\ v \in Nat /\ v2 \in Nat /\ v <= h
        /\ i \in DOMAIN loaded => v <= loaded[i].quantity
        /\ i \in DOMAIN call.found => v <= call.found[i].quantity
        /\ \/ v2 = h
           \/ i \in DOMAIN loaded /\ v2 = loaded[i].quantity
           \/ i \in DOMAIN call.found /\ v2 = call.found[i].quantity
    BY <1>6, <2>0
  <2> HIDE DEF v, v2, h
  <2>2. v2 >= v
    BY <1>4, <2>1
  <2> QED
    BY <2>0, <2>2 DEF v, v2, h
<1>9. ASSUME Fresh(f, S) PROVE Has(lots', x, i) = Has(lots, x, i) - t
  <2>1. i \in S => Has(lots, x, i) = f[i].quantity /\ RowWallet(i) = x
    BY <1>3, <1>9 DEF Fresh, Has, RowWallet
  <2>2. Has(lots, x, i) \in Nat /\ Has(lots', x, i) \in Nat
    BY <1>6
  <2> HIDE DEF t, S
  <2> QED
    BY <1>2, <1>3, <2>1, <2>2
<1> QED
  BY <1>7, <1>8, <1>9

\* A transfer adds to the other wallet what it took.
LEMMA ConvertGains ==
  ASSUME LotsTypeOK, LotsTypeOK', Reserved, ConvertLots,
         NEW x \in Wallets, x = call.from, NEW o \in Wallets, o = Other(call.from)
  PROVE  /\ Sum(Held(o)', new .. new' - 1) = call.amount
         /\ Sum(Held(x)', new .. new' - 1) = 0
<1> DEFINE N == new .. new' - 1
           h == Held(o)'
           S == SpentNow
           t == TakenOf(call.found, call.amount)
           I == NewIds(SpentNow)
<1>1. /\ call # NoCall /\ new' >= new
      /\ DOMAIN lots' = DOMAIN LeftNow \union I
      /\ DOMAIN LeftNow \subseteq Ids
  BY Converted
<1>2. /\ LotTable(call.found) /\ DOMAIN call.found \subseteq Ids /\ call.amount \in Nat
      /\ o # x /\ Total(call.found) >= call.amount
  BY <1>1, CallTypes DEF Reserved
<1>3. \A j \in S : new + j \in N /\ lots'[new + j] = [wallet |-> o, age |-> new + j,
                                                      quantity |-> TakenNow(j)]
  BY Converted
<1>30. \A j \in S : lots'[new + j].wallet = o /\ lots'[new + j].quantity = TakenNow(j)
  <2> TAKE j \in S
  <2>1. lots'[new + j] = [wallet |-> o, age |-> new + j, quantity |-> TakenNow(j)]
    BY <1>3
  <2> QED
    BY <2>1
<1>4. /\ Sum(t, S) = call.amount /\ IsFiniteSet(S) /\ S \subseteq DOMAIN call.found
      /\ \A j \in S : Taken(call.found, call.amount, j) \in Nat
  BY <1>2, TakenSum, AfterLots DEF SpentNow
<1>5. \A j \in S : t[j] = TakenNow(j) /\ t[j] \in Nat
  BY <1>4 DEF TakenOf, TakenNow
<1>6. /\ IsFiniteSet(N) /\ \A i \in N : i \notin Ids
      /\ \A i \in N : h[i] = Has(lots', o, i) /\ h[i] \in Int
  BY <1>1, NewHeld
<1>7. I = {new + j : j \in S} /\ I \in SUBSET N
  BY <1>3 DEF NewIds
<1>8. new \in Nat /\ \A j \in S : j \in Nat
  <2>1. new \in Nat \ {0} /\ Ids = 1 .. new - 1
    BY Tables
  <2>2. S \subseteq Ids
    BY <1>2, <1>4
  <2> QED
    BY <2>1, <2>2
<1> HIDE DEF N, h, S, t, I
<1>9. \A i \in N : i \in DOMAIN lots' <=> i \in I
  BY <1>1, <1>6
<1>10. \A j \in S : h[new + j] = t[j] /\ t[j] \in Int
  <2> TAKE j \in S
  <2>1. new + j \in I /\ new + j \in N
    BY <1>7
  <2>2. new + j \in DOMAIN lots'
    BY <1>9, <2>1
  <2>3. Has(lots', o, new + j) = TakenNow(j)
    <3>1. lots'[new + j].wallet = o /\ lots'[new + j].quantity = TakenNow(j)
      BY <1>30
    <3> QED
      BY <2>2, <3>1 DEF Has
  <2> QED
    BY <1>5, <1>6, <2>1, <2>3
<1>11. Sum(h, I) = Sum(t, S)
  <2> DEFINE m == [j \in S |-> new + j]
  <2>1. I = {m[j] : j \in S}
    BY <1>7
  <2>2. \A j, k \in S : m[j] = m[k] => j = k
    BY <1>8
  <2>3. \A j \in S : t[j] \in Int /\ h[m[j]] = t[j]
    BY <1>10
  <2>4. IsFiniteSet(S)
    BY <1>4
  <2> HIDE DEF m
  <2>5. SumFunctionOnSet(h, {m[j] : j \in S}) = SumFunctionOnSet(t, S)
    BY <2>2, <2>3, <2>4, SumRenamed
  <2> QED
    BY <2>1, <2>5 DEF Sum
<1>12. \A i \in N \ I : h[i] = 0
  BY <1>6, <1>9 DEF Has
<1>13. Sum(h, N) = Sum(h, I)
  BY <1>6, <1>7, <1>12, SumZeros DEF Sum
<1>14. \A i \in N : Has(lots', x, i) = 0
  <2> TAKE i \in N
  <2>1. CASE i \in I
    <3>1. PICK j \in S : i = new + j
      BY <1>7, <2>1
    <3>2. lots'[i].wallet = o
      BY <1>30, <3>1
    <3> QED
      BY <1>2, <3>2 DEF Has
  <2>2. CASE i \notin I
    BY <1>9, <2>2 DEF Has
  <2> QED
    BY <2>1, <2>2
<1>15. Sum(Held(x)', N) = 0
  BY <1>1, <1>14, NewHeld DEF N
<1>16. Sum(h, N) = call.amount
  BY <1>4, <1>11, <1>13
<1> QED
  BY <1>15, <1>16 DEF N, h

LEMMA ConvertMoves ==
  ASSUME LotsTypeOK, LotsTypeOK', WalletKept, ConvertLots, NEW i \in Ids,
         NEW x \in Wallets, x = call.from, NEW o \in Wallets, o = Other(call.from)
  PROVE  /\ Worth(x, i)' >= Worth(x, i) - TakenAt(call.found, call.amount)[i]
         /\ Fresh(call.found, SpentNow) =>
              Has(lots', x, i) = Has(lots, x, i) - TakenAt(call.found, call.amount)[i]
         /\ Worth(o, i)' >= Worth(o, i)
         /\ Has(lots', o, i) = Has(lots, o, i)
         /\ TakenAt(call.found, call.amount)[i] \in Nat
<1> DEFINE f == call.found
           a == call.amount
<1>1. /\ call # NoCall /\ UNCHANGED loaded /\ call' = NoCall
      /\ DOMAIN lots' = DOMAIN LeftNow \union NewIds(SpentNow)
      /\ \A j \in DOMAIN LeftNow : lots'[j] = LeftNow[j]
      /\ \A j \in SpentNow : new + j \notin Ids
  BY Converted DEF ConvertLots, fifo
<1>2. /\ LotTable(f) /\ DOMAIN f \subseteq Ids /\ a \in Nat
      /\ o \in Wallets \ {x}
  BY <1>1, CallTypes
<1>3. /\ \A j \in DOMAIN f : f[j].wallet = x
      /\ \A j \in DOMAIN lots \intersect DOMAIN f : lots[j].wallet \in {x, Nobody}
  BY DEF WalletKept
<1>4. i \notin NewIds(SpentNow)
  BY <1>1 DEF NewIds
<1>5. /\ i \in DOMAIN lots' <=> i \in DOMAIN After(f, a)
      /\ i \in DOMAIN lots' => lots'[i] = After(f, a)[i]
  BY <1>1, <1>4 DEF LeftNow
<1>6. i \in DOMAIN f => Worth(x, i) <= f[i].quantity
  <2>1. WorthIs(x, i)
    BY <1>2, WorthBounds DEF WorthsKnown, Ids
  <2> QED
    BY <2>1 DEF WorthIs
<1>7. SpentNow = Spent(f, a) /\ TakenAt(call.found, call.amount) = TakenAt(f, a)
  BY DEF SpentNow
<1>8. /\ Worth(x, i)' >= Worth(x, i) - TakenAt(f, a)[i]
      /\ Fresh(f, Spent(f, a)) => Has(lots', x, i) = Has(lots, x, i) - TakenAt(f, a)[i]
      /\ \A w \in Wallets \ {x} : /\ Worth(w, i)' >= Worth(w, i)
                                  /\ Has(lots', w, i) = Has(lots, w, i)
  <2> HIDE DEF f, a
  <2> QED
    BY <1>1, <1>2, <1>3, <1>5, <1>6, SpentWorth
<1>9. TakenAt(f, a)[i] \in Nat
  <2> HIDE DEF f, a
  <2> QED
    BY <1>2, <1>3, <1>5, SpentHas
<1> HIDE DEF f, a
<1>10. /\ Worth(o, i)' >= Worth(o, i)
       /\ Has(lots', o, i) = Has(lots, o, i)
  BY <1>2, <1>8
<1> QED
  BY <1>7, <1>8, <1>9, <1>10 DEF f, a

LEMMA ConvertHoldings ==
  ASSUME LotsTypeOK, LotsTypeOK', WalletKept, Reserved, Enough, LotsMatchHoldings, ConvertLots
  PROVE  Enough' /\ LotsMatchHoldings'
<1>00. PICK x \in Wallets, o \in Wallets : x = call.from /\ o = Other(call.from)
  BY CallTypes DEF ConvertLots
<1> DEFINE a == call.amount
           t == TakenAt(call.found, call.amount)
<1>0. /\ call # NoCall /\ new' >= new /\ UNCHANGED loaded /\ call' = NoCall
      /\ stale' = (stale \/ ~ Fresh(call.found, SpentNow))
  BY Converted DEF ConvertLots, fifo, SpentNow
<1>1. /\ x \in Wallets /\ o \in Wallets /\ x # o /\ \A w \in Wallets : w = x \/ w = o
      /\ a \in Nat /\ LotTable(call.found) /\ DOMAIN call.found \subseteq Ids
      /\ Total(call.found) >= a
  BY <1>00, <1>0, CallTypes DEF Reserved
<1>2. DOMAIN loaded' \subseteq Ids /\ DOMAIN call.found' \subseteq Ids
  BY <1>0, Tables DEF NoCall, NoLots
<1>3. Sum(Held(o)', new .. new' - 1) = a /\ Sum(Held(x)', new .. new' - 1) = 0
  BY <1>00, ConvertGains
<1>4. \A i \in Ids :
        /\ Worth(x, i)' >= Worth(x, i) - t[i] /\ t[i] \in Int
        /\ Fresh(call.found, SpentNow) => Has(lots', x, i) = Has(lots, x, i) - t[i]
        /\ Worth(o, i)' >= Worth(o, i)
        /\ Has(lots', o, i) = Has(lots, o, i)
  BY <1>00, ConvertMoves
<1>5. Sum(t, Ids) = a
  BY <1>1, TakenSum
<1>6. Sum(Nothing, Ids) = 0 /\ \A i \in Ids : Nothing[i] = 0
  BY NothingSum
<1>7. /\ holding'[x] = holding[x] - a /\ holding'[o] = holding[o] + a
      /\ holding[x] \in Int /\ holding[o] \in Int
  <2>1. holding \in [Wallets -> Int]
    BY DEF LotsTypeOK
  <2>2. holding' = [holding EXCEPT ![x] = @ - a, ![o] = @ + a]
    BY <1>00 DEF ConvertLots
  <2> HIDE DEF a
  <2> QED
    BY <1>1, <2>1, <2>2
<1> HIDE DEF a, t
<1>8. \A i \in Ids : Nothing[i] \in Int /\ Worth(o, i)' >= Worth(o, i) - Nothing[i]
                     /\ Has(lots', o, i) = Has(lots, o, i) - Nothing[i]
  <2> TAKE i \in Ids
  <2>1. WorthIs(o, i)
    BY <1>1, WorthBounds DEF WorthsKnown, Ids
  <2>2. Worth(o, i) \in Nat /\ Has(lots, o, i) \in Nat /\ Nothing[i] = 0
    BY <1>6, <2>1 DEF WorthIs
  <2> QED
    BY <1>4, <2>2
<1>9. /\ Sum(Worths(x), Ids)' >= Sum(Worths(x), Ids) - a + 0
      /\ Fresh(call.found, SpentNow) => Total(LotsOf(x))' = Total(LotsOf(x)) - a + 0
  <2>1. \A i \in Ids : t[i] \in Int /\ Worth(x, i)' >= Worth(x, i) - t[i]
    BY <1>4
  <2>2. /\ Sum(Worths(x), Ids)' >= Sum(Worths(x), Ids) - Sum(t, Ids)
                                     + Sum(Held(x)', new .. new' - 1)
        /\ (\A i \in Ids : Has(lots', x, i) = Has(lots, x, i) - t[i]) =>
              Total(LotsOf(x))' = Total(LotsOf(x)) - Sum(t, Ids) + Sum(Held(x)', new .. new' - 1)
    BY <1>0, <1>1, <1>2, <2>1, LotsMoved
  <2> QED
    BY <1>3, <1>4, <1>5, <2>2
<1>10. /\ Sum(Worths(o), Ids)' >= Sum(Worths(o), Ids) - 0 + a
       /\ Total(LotsOf(o))' = Total(LotsOf(o)) - 0 + a
  <2>1. \A i \in Ids : Nothing[i] \in Int /\ Worth(o, i)' >= Worth(o, i) - Nothing[i]
    BY <1>8
  <2>2. /\ Sum(Worths(o), Ids)' >= Sum(Worths(o), Ids) - Sum(Nothing, Ids)
                                     + Sum(Held(o)', new .. new' - 1)
        /\ (\A i \in Ids : Has(lots', o, i) = Has(lots, o, i) - Nothing[i]) =>
              Total(LotsOf(o))' = Total(LotsOf(o)) - Sum(Nothing, Ids)
                                    + Sum(Held(o)', new .. new' - 1)
    BY <1>0, <1>1, <1>2, <2>1, LotsMoved
  <2> QED
    BY <1>3, <1>6, <1>8, <2>2
<1>11. ASSUME NEW w \in Wallets
       PROVE  /\ Total(LotsOf(w)) \in Nat /\ Sum(Worths(w), Ids) \in Nat
              /\ Total(LotsOf(w))' \in Nat /\ Sum(Worths(w), Ids)' \in Nat
  BY TotalHeld, NextKnown DEF SumsKnown, SumsOf
<1>12. Enough'
  <2>1. Sum(Worths(x), Ids) >= holding[x] /\ Sum(Worths(o), Ids) >= holding[o]
    BY <1>1 DEF Enough
  <2>2. /\ Sum(Worths(x), Ids) \in Nat /\ Sum(Worths(x), Ids)' \in Nat
        /\ Sum(Worths(o), Ids) \in Nat /\ Sum(Worths(o), Ids)' \in Nat
    BY <1>1, <1>11
  <2>3. Sum(Worths(x), Ids)' >= holding'[x]
    BY <1>1, <1>7, <1>9, <2>1, <2>2
  <2>4. Sum(Worths(o), Ids)' >= holding'[o]
    BY <1>1, <1>7, <1>10, <2>1, <2>2
  <2> QED
    BY <1>1, <2>3, <2>4 DEF Enough
<1>13. LotsMatchHoldings'
  <2> SUFFICES ASSUME ~ stale', NEW w \in Wallets
               PROVE  Total(LotsOf(w))' = holding'[w]
    BY <1>0 DEF LotsMatchHoldings
  <2>1. ~ stale /\ Fresh(call.found, SpentNow)
    BY <1>0
  <2>2. \A u \in Wallets : Total(LotsOf(u)) = holding[u]
    BY <2>1 DEF LotsMatchHoldings
  <2>3. Total(LotsOf(x))' = holding'[x]
    BY <1>1, <1>7, <1>9, <2>1, <2>2
  <2>4. Total(LotsOf(o))' = holding'[o]
    BY <1>1, <1>7, <1>10, <2>2
  <2> QED
    BY <1>1, <2>3, <2>4
<1> QED
  BY <1>12, <1>13

\* A withdrawal takes its amount from the lots of its wallet.
LEMMA DeductHoldings ==
  ASSUME LotsTypeOK, LotsTypeOK', Enough, LotsMatchHoldings, NEW amount \in Amounts,
         DeductLots(amount)
  PROVE  Enough' /\ LotsMatchHoldings'
<1> DEFINE f == LotsOf("FUNDING")
           t == TakenAt(f, amount)
<1>0. /\ lots' = After(f, amount) /\ Total(f) >= amount
      /\ holding' = [holding EXCEPT !["FUNDING"] = holding["FUNDING"] - amount]
      /\ UNCHANGED <<loaded, call, new, stale>>
  <2>1. amount <= Total(f) /\ amount \in Nat
    BY LotsAssumption DEF DeductLots
  <2>2. Total(f) \in Nat
    BY TotalHeld DEF SumsKnown, SumsOf, Wallets
  <2>3. Total(f) >= amount
    <3> HIDE DEF f
    <3> QED
      BY <2>1, <2>2
  <2> QED
    BY <2>3 DEF DeductLots, fifo
<1>1. /\ amount \in Nat /\ LotTable(f) /\ DOMAIN f \subseteq Ids
      /\ "FUNDING" \in Wallets /\ "SPOT" \in Wallets /\ Wallets \ {"FUNDING"} = {"SPOT"}
      /\ \A j \in DOMAIN f : /\ f[j].wallet = "FUNDING" /\ j \in DOMAIN lots
                             /\ lots[j].wallet = "FUNDING" /\ f[j] = lots[j]
  BY LotsAssumption, Tables DEF LotsOf, Wallets
<1>2. new' >= new /\ DOMAIN loaded' \subseteq Ids /\ DOMAIN call.found' \subseteq Ids
  BY <1>0, Tables
<1>3. Fresh(f, Spent(f, amount))
  BY <1>1, AfterLots DEF Fresh
<1>4. \A i \in Ids : i \in DOMAIN f => Worth("FUNDING", i) <= f[i].quantity
  <2> TAKE i \in Ids
  <2>1. WorthIs("FUNDING", i)
    BY <1>1, WorthBounds DEF WorthsKnown, Ids
  <2>2. i \in DOMAIN f => Has(lots, "FUNDING", i) = f[i].quantity
    BY <1>1 DEF Has
  <2> QED
    BY <2>1, <2>2 DEF WorthIs
<1>5. Sum(t, Ids) = amount
  BY <1>0, <1>1, TakenSum
<1> HIDE DEF f
<1>6. ASSUME NEW i \in Ids
      PROVE  /\ Worth("FUNDING", i)' >= Worth("FUNDING", i) - t[i] /\ t[i] \in Int
             /\ Has(lots', "FUNDING", i) = Has(lots, "FUNDING", i) - t[i]
             /\ Worth("SPOT", i)' >= Worth("SPOT", i)
             /\ Has(lots', "SPOT", i) = Has(lots, "SPOT", i)
  <2>1. /\ \A j \in DOMAIN f : f[j].wallet = "FUNDING"
        /\ \A j \in DOMAIN lots \intersect DOMAIN f : lots[j].wallet = "FUNDING"
    BY <1>1
  <2>2. /\ i \in DOMAIN lots' <=> i \in DOMAIN After(f, amount)
        /\ i \in DOMAIN lots' => lots'[i] = After(f, amount)[i]
    BY <1>0
  <2>3. i \in DOMAIN f => Worth("FUNDING", i) <= f[i].quantity
    BY <1>4
  <2>4. UNCHANGED loaded /\ UNCHANGED call
    BY <1>0
  <2>5. /\ Worth("FUNDING", i)' >= Worth("FUNDING", i) - t[i]
        /\ Fresh(f, Spent(f, amount)) =>
             Has(lots', "FUNDING", i) = Has(lots, "FUNDING", i) - t[i]
        /\ \A w \in Wallets \ {"FUNDING"} : /\ Worth(w, i)' >= Worth(w, i)
                                            /\ Has(lots', w, i) = Has(lots, w, i)
    BY <1>1, <2>1, <2>2, <2>3, <2>4, SpentWorth
  <2>6. t[i] \in Nat
    BY <1>1, <2>1, <2>2, SpentHas
  <2> QED
    BY <1>1, <1>3, <2>5, <2>6
<1> HIDE DEF t
<1>7. Sum(Nothing, Ids) = 0 /\ \A i \in Ids : Nothing[i] = 0
  BY NothingSum
<1>8. \A i \in Ids : Nothing[i] \in Int /\ Worth("SPOT", i)' >= Worth("SPOT", i) - Nothing[i]
                     /\ Has(lots', "SPOT", i) = Has(lots, "SPOT", i) - Nothing[i]
  <2> TAKE i \in Ids
  <2>1. WorthIs("SPOT", i)
    BY <1>1, WorthBounds DEF WorthsKnown, Ids
  <2>2. Worth("SPOT", i) \in Nat /\ Has(lots, "SPOT", i) \in Nat /\ Nothing[i] = 0
    BY <1>7, <2>1 DEF WorthIs
  <2> QED
    BY <1>6, <2>2
<1>9. \A w \in Wallets : Sum(Held(w)', new .. new' - 1) = 0
  <2> TAKE w \in Wallets
  <2>1. \A i \in new .. new' - 1 : Has(lots', w, i) = 0
    <3>1. new \in Nat /\ new' = new
      BY <1>0, Tables
    <3>2. new .. new' - 1 = {}
      BY <3>1
    <3> QED
      BY <3>2
  <2> QED
    BY <1>2, <2>1, NewHeld
<1>10. /\ Sum(Worths("FUNDING"), Ids)' >= Sum(Worths("FUNDING"), Ids) - amount + 0
       /\ Total(LotsOf("FUNDING"))' = Total(LotsOf("FUNDING")) - amount + 0
  <2>1. \A i \in Ids : t[i] \in Int /\ Worth("FUNDING", i)' >= Worth("FUNDING", i) - t[i]
    BY <1>6
  <2>2. /\ Sum(Worths("FUNDING"), Ids)' >= Sum(Worths("FUNDING"), Ids) - Sum(t, Ids)
                                     + Sum(Held("FUNDING")', new .. new' - 1)
        /\ (\A i \in Ids : Has(lots', "FUNDING", i) = Has(lots, "FUNDING", i) - t[i]) =>
              Total(LotsOf("FUNDING"))' = Total(LotsOf("FUNDING")) - Sum(t, Ids)
                                            + Sum(Held("FUNDING")', new .. new' - 1)
    BY <1>1, <1>2, <2>1, LotsMoved
  <2> QED
    BY <1>1, <1>5, <1>6, <1>9, <2>2
<1>11. /\ Sum(Worths("SPOT"), Ids)' >= Sum(Worths("SPOT"), Ids) - 0 + 0
       /\ Total(LotsOf("SPOT"))' = Total(LotsOf("SPOT")) - 0 + 0
  <2>1. \A i \in Ids : Nothing[i] \in Int /\ Worth("SPOT", i)' >= Worth("SPOT", i) - Nothing[i]
    BY <1>8
  <2>2. /\ Sum(Worths("SPOT"), Ids)' >= Sum(Worths("SPOT"), Ids) - Sum(Nothing, Ids)
                                     + Sum(Held("SPOT")', new .. new' - 1)
        /\ (\A i \in Ids : Has(lots', "SPOT", i) = Has(lots, "SPOT", i) - Nothing[i]) =>
              Total(LotsOf("SPOT"))' = Total(LotsOf("SPOT")) - Sum(Nothing, Ids)
                                         + Sum(Held("SPOT")', new .. new' - 1)
    BY <1>1, <1>2, <2>1, LotsMoved
  <2> QED
    BY <1>1, <1>7, <1>8, <1>9, <2>2
<1>12. /\ holding'["FUNDING"] = holding["FUNDING"] - amount /\ holding'["SPOT"] = holding["SPOT"]
       /\ holding["FUNDING"] \in Int /\ holding["SPOT"] \in Int
  <2>1. holding \in [Wallets -> Int]
    BY DEF LotsTypeOK
  <2> QED
    BY <1>0, <1>1, <2>1 DEF Wallets
<1>13. ASSUME NEW w \in Wallets
       PROVE  /\ Total(LotsOf(w)) \in Nat /\ Sum(Worths(w), Ids) \in Nat
              /\ Total(LotsOf(w))' \in Nat /\ Sum(Worths(w), Ids)' \in Nat
  BY TotalHeld, NextKnown DEF SumsKnown, SumsOf
<1>14. Enough'
  <2>1. Sum(Worths("SPOT"), Ids) >= holding["SPOT"] /\ Sum(Worths("FUNDING"), Ids) >= holding["FUNDING"]
    BY DEF Enough, Wallets
  <2>2. /\ Sum(Worths("SPOT"), Ids) \in Nat /\ Sum(Worths("SPOT"), Ids)' \in Nat
        /\ Sum(Worths("FUNDING"), Ids) \in Nat /\ Sum(Worths("FUNDING"), Ids)' \in Nat
    BY <1>13 DEF Wallets
  <2>3. Sum(Worths("SPOT"), Ids)' >= holding'["SPOT"]
    BY <1>11, <1>12, <2>1, <2>2
  <2>4. Sum(Worths("FUNDING"), Ids)' >= holding'["FUNDING"]
    BY <1>1, <1>10, <1>12, <2>1, <2>2
  <2> QED
    BY <2>3, <2>4 DEF Enough, Wallets
<1>15. LotsMatchHoldings'
  <2> SUFFICES ASSUME ~ stale'
               PROVE  /\ Total(LotsOf("SPOT"))' = holding'["SPOT"]
                      /\ Total(LotsOf("FUNDING"))' = holding'["FUNDING"]
    BY DEF LotsMatchHoldings, Wallets
  <2>1. Total(LotsOf("SPOT")) = holding["SPOT"] /\ Total(LotsOf("FUNDING")) = holding["FUNDING"]
    BY <1>0 DEF LotsMatchHoldings, Wallets
  <2>3. Total(LotsOf("SPOT"))' = holding'["SPOT"]
    BY <1>11, <1>12, <2>1
  <2>4. Total(LotsOf("FUNDING"))' = holding'["FUNDING"]
    BY <1>1, <1>10, <1>12, <2>1
  <2> QED
    BY <2>3, <2>4
<1> QED
  BY <1>14, <1>15

LEMMA SumOfOne ==
  ASSUME NEW f, NEW i, f[i] \in Int
  PROVE  Sum(f, {i}) = f[i]
<1>1. IsFiniteSet({i}) /\ {i} \ {i} = {} /\ \A j \in {i} : f[j] \in Int
  BY FS_Singleton
<1>2. Sum(f, {i}) = f[i] + Sum(f, {i} \ {i})
  BY <1>1, SumElement DEF Sum
<1>3. Sum(f, {}) = 0
  BY SumEmpty DEF Sum
<1>4. Sum(f, {i}) = f[i] + 0
  BY <1>1, <1>2, <1>3, Zenon
<1> QED
  BY <1>4

\* A refund is a new lot.
LEMMA RefundHoldings ==
  ASSUME LotsTypeOK, LotsTypeOK', Enough, LotsMatchHoldings, NEW amount \in Amounts,
         AddRefundLot(amount)
  PROVE  Enough' /\ LotsMatchHoldings'
<1> DEFINE gain(w) == IF w = "FUNDING" THEN amount ELSE 0
<1>0. /\ lots' = [i \in DOMAIN lots \union {new} |->
                IF i = new THEN [wallet |-> "FUNDING", age |-> new, quantity |-> amount]
                ELSE lots[i]]
      /\ holding' = [holding EXCEPT !["FUNDING"] = holding["FUNDING"] + amount]
      /\ new' = new + 1
      /\ UNCHANGED <<loaded, call, stale>>
  BY DEF AddRefundLot, fifo
<1>1. amount \in Nat /\ new \in Nat \ {0} /\ new' >= new /\ new .. new' - 1 = {new}
      /\ new \notin Ids
  <2>1. new \in Nat \ {0} /\ new \notin Ids
    BY Tables DEF Ids
  <2>2. new' >= new /\ new .. new' - 1 = {new}
    BY <1>0, <2>1
  <2> QED
    BY <2>1, <2>2, LotsAssumption
<1>2. DOMAIN loaded' \subseteq Ids /\ DOMAIN call.found' \subseteq Ids
  BY <1>0, Tables
<1>3. \A i \in Ids : \A w \in Wallets : Has(lots', w, i) = Has(lots, w, i)
  BY <1>0, <1>1 DEF Has
<1>4. \A i \in Ids : \A w \in Wallets : Worth(w, i)' = Worth(w, i)
  BY <1>0, <1>3 DEF Worth
<1>5. \A w \in Wallets : Has(lots', w, new) = gain(w)
  BY <1>0, <1>1 DEF Has
<1>6. ASSUME NEW w \in Wallets PROVE Sum(Held(w)', new .. new' - 1) = gain(w)
  <2> DEFINE h == Held(w)'
             N == new .. new' - 1
  <2>1. \A i \in N : h[i] = Has(lots', w, i) /\ h[i] \in Nat
    BY <1>1, NewHeld
  <2>2. N = {new}
    BY <1>1
  <2> HIDE DEF h, N, gain
  <2>3. h[new] = Has(lots', w, new) /\ h[new] \in Nat
    BY <2>1, <2>2
  <2>4. Sum(h, {new}) = h[new]
    BY <2>3, SumOfOne
  <2>5. Sum(h, N) = gain(w)
    BY <1>5, <2>2, <2>3, <2>4
  <2> QED
    BY <2>5 DEF h, N
<1>7. Sum(Nothing, Ids) = 0 /\ \A i \in Ids : Nothing[i] = 0
  BY NothingSum
<1>8. ASSUME NEW w \in Wallets
      PROVE  /\ Total(LotsOf(w)) \in Nat /\ Sum(Worths(w), Ids) \in Nat
             /\ Total(LotsOf(w))' \in Nat /\ Sum(Worths(w), Ids)' \in Nat
  BY TotalHeld, NextKnown DEF SumsKnown, SumsOf
<1>9. ASSUME NEW w \in Wallets
      PROVE  /\ Sum(Worths(w), Ids)' >= Sum(Worths(w), Ids) + gain(w)
             /\ Total(LotsOf(w))' = Total(LotsOf(w)) + gain(w)
             /\ gain(w) \in Nat
  <2>1. \A i \in Ids : /\ Nothing[i] \in Int /\ Worth(w, i)' >= Worth(w, i) - Nothing[i]
                       /\ Has(lots', w, i) = Has(lots, w, i) - Nothing[i]
    <3> TAKE i \in Ids
    <3>1. WorthIs(w, i)
      BY WorthBounds DEF WorthsKnown, Ids
    <3>2. Worth(w, i) \in Nat /\ Has(lots, w, i) \in Nat /\ Nothing[i] = 0
      BY <1>7, <3>1 DEF WorthIs
    <3> QED
      BY <1>3, <1>4, <3>2
  <2>2. gain(w) \in Nat
    BY <1>1
  <2> HIDE DEF gain
  <2>3. /\ Sum(Worths(w), Ids)' >= Sum(Worths(w), Ids) - Sum(Nothing, Ids)
                                     + Sum(Held(w)', new .. new' - 1)
        /\ (\A i \in Ids : Has(lots', w, i) = Has(lots, w, i) - Nothing[i]) =>
              Total(LotsOf(w))' = Total(LotsOf(w)) - Sum(Nothing, Ids)
                                    + Sum(Held(w)', new .. new' - 1)
    BY <1>1, <1>2, <2>1, LotsMoved
  <2> QED
    BY <1>6, <1>7, <1>8, <2>1, <2>2, <2>3
<1>10. ASSUME NEW w \in Wallets
       PROVE  holding'[w] = holding[w] + gain(w) /\ holding[w] \in Int
  <2>1. holding \in [Wallets -> Int]
    BY DEF LotsTypeOK
  <2> QED
    BY <1>0, <1>1, <2>1
<1> HIDE DEF gain
<1>11. Enough'
  <2> SUFFICES ASSUME NEW w \in Wallets PROVE Sum(Worths(w), Ids)' >= holding'[w]
    BY DEF Enough
  <2>1. Sum(Worths(w), Ids) >= holding[w]
    BY DEF Enough
  <2> QED
    BY <1>8, <1>9, <1>10, <2>1
<1>12. LotsMatchHoldings'
  <2> SUFFICES ASSUME ~ stale', NEW w \in Wallets
               PROVE  Total(LotsOf(w))' = holding'[w]
    BY <1>0 DEF LotsMatchHoldings
  <2>1. Total(LotsOf(w)) = holding[w]
    BY <1>0 DEF LotsMatchHoldings
  <2> QED
    BY <1>9, <1>10, <2>1
<1> QED
  BY <1>11, <1>12

\* Holdings and worth are as they were when nothing moves.
LEMMA FillsHoldings ==
  ASSUME LotsTypeOK, LotsTypeOK', Enough, LotsMatchHoldings, new' >= new,
         UNCHANGED <<lots, holding, stale, loaded, call>>
  PROVE  Enough' /\ LotsMatchHoldings'
<1>1. DOMAIN loaded' \subseteq Ids /\ DOMAIN call.found' \subseteq Ids
  BY Tables
<1>2. \A w \in Wallets : \A i \in Ids : Worth(w, i)' >= Worth(w, i)
  <2> TAKE w \in Wallets
  <2> TAKE i \in Ids
  <2>1. Worth(w, i)' = Worth(w, i)
    BY SameWorth
  <2>2. Worth(w, i) \in Nat
    BY WorthBounds DEF WorthsKnown, WorthIs, Ids
  <2> QED
    BY <2>1, <2>2
<1> QED
  BY <1>1, <1>2, QuietHoldings

LEMMA LoadHoldings ==
  ASSUME LotsTypeOK, LotsTypeOK', Enough, LotsMatchHoldings, Load
  PROVE  Enough' /\ LotsMatchHoldings'
<1>1. UNCHANGED <<lots, holding, stale, call, new>> /\ loaded' = LotsOf("SPOT")
  BY DEF Load, tables, api
<1>2. "SPOT" \in Wallets /\ new' >= new
  BY <1>1, Tables DEF Wallets
<1>3. DOMAIN loaded' \subseteq Ids /\ DOMAIN call.found' \subseteq Ids
  <2>1. DOMAIN LotsOf("SPOT") \subseteq DOMAIN lots
    BY DEF LotsOf
  <2> QED
    BY <1>1, <2>1, Tables
<1>4. \A w \in Wallets : \A i \in Ids : Worth(w, i)' >= Worth(w, i)
  BY <1>1, <1>2, FreshCopy
<1> QED
  BY <1>1, <1>2, <1>3, <1>4, QuietHoldings

LEMMA FindHoldings ==
  ASSUME LotsTypeOK, LotsTypeOK', Enough, LotsMatchHoldings, NEW x \in Wallets,
         NEW amount \in Amounts, FindLots(x, amount)
  PROVE  Enough' /\ LotsMatchHoldings'
<1>1. UNCHANGED <<lots, holding, stale, loaded, new>> /\ call'.found = LotsOf(x)
  BY DEF FindLots, tables, fifo
<1>2. new' >= new
  BY <1>1, Tables
<1>3. DOMAIN loaded' \subseteq Ids /\ DOMAIN call.found' \subseteq Ids
  <2>1. DOMAIN LotsOf(x) \subseteq DOMAIN lots
    BY DEF LotsOf
  <2> QED
    BY <1>1, <2>1, Tables
<1>4. \A w \in Wallets : \A i \in Ids : Worth(w, i)' >= Worth(w, i)
  BY <1>1, FreshCopy
<1> QED
  BY <1>1, <1>2, <1>3, <1>4, QuietHoldings

LEMMA ClearedHoldings ==
  ASSUME LotsTypeOK, LotsTypeOK', Enough, LotsMatchHoldings, Reset \/ WorkerDies
  PROVE  Enough' /\ LotsMatchHoldings'
<1>1. UNCHANGED <<lots, holding, stale, call, new>> /\ Cleared
  BY DEF Reset, WorkerDies, tables, api
<1>2. new' >= new /\ DOMAIN loaded' = {}
  BY <1>1, Tables, ClearedTypes
<1>3. DOMAIN loaded' \subseteq Ids /\ DOMAIN call.found' \subseteq Ids
  BY <1>1, <1>2, Tables
<1>4. \A w \in Wallets : \A i \in Ids : Worth(w, i)' >= Worth(w, i)
  BY <1>1, <1>2, LessCopies
<1> QED
  BY <1>1, <1>2, <1>3, <1>4, QuietHoldings

LEMMA HoldingsStep ==
  ASSUME LotsTypeOK, LotsTypeOK', Lists, WalletKept, Reserved, Books, Enough,
         LotsMatchHoldings, LotsNext
  PROVE  Enough' /\ LotsMatchHoldings'
<1>1. ASSUME NEW s, NEW q, StartJob(s, q) PROVE Enough' /\ LotsMatchHoldings'
  <2>1. UNCHANGED <<lots, holding, stale, loaded, call, new>>
    BY <1>1 DEF StartJob, fifo, api
  <2> QED
    BY <2>1, Tables, FillsHoldings
<1>2. CASE Buy \/ Sell \/ LotsDone \/ AllDone
  <2>1. UNCHANGED <<lots, holding, stale, loaded, call>> /\ new' \in {new, new + 1}
    BY <1>2 DEF Buy, Sell, LotsDone, AllDone, tables, fifo, api, lotsVars
  <2>2. new' >= new
    BY <2>1, Tables
  <2> QED
    BY <2>1, <2>2, FillsHoldings
<1>3. ASSUME NEW i \in Snapshot, SellLot(i) PROVE Enough' /\ LotsMatchHoldings'
  <2>1. UNCHANGED <<lots, holding, stale, loaded, call, new>>
    BY <1>3 DEF SellLot, tables, api
  <2> QED
    BY <2>1, Tables, FillsHoldings
<1>4. ASSUME NEW amount \in Amounts, NEW w \in Wallets, FindLots(w, amount)
      PROVE  Enough' /\ LotsMatchHoldings'
  BY <1>4, FindHoldings
<1>5. ASSUME NEW amount \in Amounts, DeductLots(amount) \/ AddRefundLot(amount)
      PROVE  Enough' /\ LotsMatchHoldings'
  BY <1>5, DeductHoldings, RefundHoldings
<1> QED
  BY <1>1, <1>2, <1>3, <1>4, <1>5, LoadHoldings, ClearedHoldings, CommitHoldings,
     ConvertHoldings DEF LotsNext

-----------------------------------------------------------------------------
\* The history of realised profits.
LEMMA PnlStep == LotsTypeOK /\ Lists /\ Books /\ PnlOncePerSale /\ LotsNext => PnlOncePerSale'
<1> SUFFICES ASSUME LotsTypeOK, Lists, Books, PnlOncePerSale, LotsNext PROVE PnlOncePerSale'
  OBVIOUS
<1>1. CASE Commit
  <2>1. pnl' = pnl + Unsaved /\ sold' = IF side = "BUY" THEN sold ELSE sold + Traded
    BY <1>1 DEF Commit
  <2>2. pnl \in Nat /\ sold \in Nat /\ side \in {"BUY", "SELL"} /\ pnl = sold
    BY DEF LotsTypeOK, PnlOncePerSale
  <2>3. Traded \in Nat /\ (side = "SELL" => Unsaved = Traded) /\ (side = "BUY" => Unsaved = 0)
    BY <1>1, CommitBooks
  <2>4. pnl' = sold'
    BY <2>1, <2>2, <2>3
  <2> QED
    BY <2>4 DEF PnlOncePerSale
<1>2. ASSUME UNCHANGED <<pnl, sold>> PROVE PnlOncePerSale'
  BY <1>2 DEF PnlOncePerSale
<1>3. ASSUME NEW s, NEW q, StartJob(s, q) PROVE UNCHANGED <<pnl, sold>>
  BY <1>3 DEF StartJob
<1>4. CASE Load \/ Buy \/ Sell \/ LotsDone \/ Reset \/ WorkerDies \/ ConvertLots \/ AllDone
  <2>1. UNCHANGED <<pnl, sold>>
    BY <1>4 DEF Load, Buy, Sell, LotsDone, Reset, WorkerDies, ConvertLots, AllDone, tables, lotsVars
  <2> QED
    BY <1>2, <2>1
<1>5. ASSUME NEW i, SellLot(i) PROVE UNCHANGED <<pnl, sold>>
  BY <1>5 DEF SellLot, tables
<1>6. ASSUME NEW amount \in Amounts,
             (\E w \in Wallets : FindLots(w, amount)) \/ DeductLots(amount) \/ AddRefundLot(amount)
      PROVE  UNCHANGED <<pnl, sold>>
  BY <1>6 DEF FindLots, DeductLots, AddRefundLot, tables
<1> QED
  BY <1>1, <1>2, <1>3, <1>4, <1>5, <1>6 DEF LotsNext

-----------------------------------------------------------------------------
\* The initial states.
LEMMA FirstTypes == LotsInit => LotsTypeOK
<1> SUFFICES ASSUME LotsInit PROVE LotsTypeOK
  OBVIOUS
<1>1. /\ lots = [i \in DOMAIN FirstLots |->
                   [wallet |-> FirstLots[i].wallet, age |-> i, quantity |-> FirstLots[i].quantity]]
      /\ new = Len(FirstLots) + 1
  BY DEF LotsInit
<1>2. /\ DOMAIN FirstLots = 1 .. Len(FirstLots) /\ Len(FirstLots) \in Nat
      /\ \A i \in DOMAIN FirstLots : FirstLots[i] \in [wallet : Wallets, quantity : Nat \ {0}]
  <2> DEFINE R == [wallet : Wallets, quantity : Nat \ {0}]
  <2>1. FirstLots \in Seq(R)
    BY LotsAssumption
  <2> HIDE DEF R
  <2>2. DOMAIN FirstLots = 1 .. Len(FirstLots) /\ Len(FirstLots) \in Nat
    BY <2>1, LenProperties
  <2>3. \A i \in 1 .. Len(FirstLots) : FirstLots[i] \in R
    BY <2>1, ElementOfSeq
  <2> QED
    BY <2>2, <2>3 DEF R
<1>3. new \in Nat \ {0} /\ DOMAIN FirstLots = 1 .. new - 1
  BY <1>1, <1>2
<1>4. Table(lots)
  <2>1. DOMAIN lots = DOMAIN FirstLots
    BY <1>1
  <2>2. \A i \in DOMAIN lots : lots[i] \in Lot
    <3> TAKE i \in DOMAIN lots
    <3>1. i \in Nat /\ FirstLots[i].wallet \in Wallets /\ FirstLots[i].quantity \in Nat \ {0}
      BY <1>2, <2>1
    <3>2. lots[i] = [wallet |-> FirstLots[i].wallet, age |-> i, quantity |-> FirstLots[i].quantity]
      BY <1>1, <2>1
    <3> QED
      BY <3>1, <3>2 DEF Lot
  <2>3. lots = [i \in DOMAIN lots |-> lots[i]]
    BY <1>1
  <2> QED
    BY <1>3, <2>1, <2>2, <2>3 DEF Table
<1>5. Table(heap) /\ Table(loaded) /\ DOMAIN loaded = DOMAIN heap
  <2>1. DOMAIN NoLots = {} /\ NoLots \in [DOMAIN NoLots -> Lot]
    BY DEF NoLots
  <2>2. heap = NoLots /\ loaded = NoLots
    BY DEF LotsInit
  <2> QED
    BY <2>1, <2>2 DEF Table
<1>6. holding \in [Wallets -> Int]
  <2>1. holding = [w \in Wallets |-> Total(LotsOf(w))]
    BY DEF LotsInit
  <2>2. ASSUME NEW w \in Wallets PROVE Total(LotsOf(w)) \in Int
    <3>1. LotTable(LotsOf(w))
      <4>1. IsFiniteSet(1 .. new - 1) /\ 1 .. new - 1 \subseteq Nat
        BY <1>3, FS_Interval
      <4>2. DOMAIN LotsOf(w) \subseteq 1 .. new - 1 /\ LotsOf(w) \in [DOMAIN LotsOf(w) -> Lot]
        BY <1>4 DEF LotsOf, Table
      <4>3. IsFiniteSet(DOMAIN LotsOf(w))
        BY <4>1, <4>2, FS_Subset
      <4> QED
        BY <4>1, <4>2, <4>3 DEF LotTable
    <3> QED
      BY <3>1, QuantityTypes DEF Total
  <2> QED
    BY <2>1, <2>2
<1>7. /\ locked = 0 /\ pnl = 0 /\ toCreate = <<>> /\ toUpdate = <<>> /\ toDelete = {}
      /\ pnlList = <<>> /\ step = "idle" /\ side = "BUY" /\ fills = <<>> /\ at = 1
      /\ remain = 0 /\ call = NoCall /\ refundable = 0 /\ jobs = 0 /\ calls = 0 /\ deaths = 0
      /\ sold = 0 /\ usedUp = {} /\ stale = FALSE
  BY DEF LotsInit
<1>8. at \in 1 .. Len(fills) + 1 /\ fills \in Seq(Nat \ {0})
  BY <1>7
<1>9. jobs \in 0 .. MaxJobs /\ calls \in 0 .. MaxCalls /\ deaths \in 0 .. MaxDeaths
  BY <1>7, LotsAssumption
<1>10. toCreate \in Seq(Lot) /\ toUpdate \in Seq(DOMAIN heap) /\ pnlList \in Seq(Realized)
  BY <1>7
<1> QED
  BY <1>3, <1>4, <1>5, <1>6, <1>7, <1>8, <1>9, <1>10 DEF LotsTypeOK

LEMMA FirstLotsInv == LotsInit => LotsInv
<1> SUFFICES ASSUME LotsInit PROVE LotsInv
  OBVIOUS
<1>1. LotsTypeOK
  BY FirstTypes
<1>2. /\ locked = 0 /\ pnl = 0 /\ toCreate = <<>> /\ toUpdate = <<>> /\ toDelete = {}
      /\ pnlList = <<>> /\ step = "idle" /\ side = "BUY" /\ at = 1
      /\ remain = 0 /\ call = NoCall /\ sold = 0
      /\ heap = NoLots /\ loaded = NoLots /\ holding = [w \in Wallets |-> Total(LotsOf(w))]
  BY DEF LotsInit
<1>3. DOMAIN heap = {} /\ DOMAIN loaded = {} /\ DOMAIN call.found = {} /\ call.from = "none"
  BY <1>2 DEF NoLots, NoCall, Nobody
<1>4. Lists
  BY <1>2, <1>3 DEF Lists
<1>5. WalletKept
  BY <1>3 DEF WalletKept
<1>6. ASSUME NEW w \in Wallets
      PROVE  /\ holding[w] = Total(LotsOf(w)) /\ holding[w] \in Nat
             /\ Sum(Worths(w), Ids) = holding[w]
  <2>1. holding[w] = Total(LotsOf(w))
    BY <1>2
  <2>2. Total(LotsOf(w)) = Sum(Held(w), Ids) /\ Sum(Held(w), Ids) \in Nat
    BY <1>1, TotalHeld DEF SumsKnown, SumsOf
  <2>3. Worths(w) = Held(w)
    BY <1>3 DEF Worths, Held, Worth, Capped
  <2> QED
    BY <2>1, <2>2, <2>3
<1>7. Reserved
  <2>1. ASSUME NEW w \in Wallets PROVE Available(w) >= 0
    <3>1. Available(w) = holding[w] - 0 - 0
      BY <1>2, <1>3 DEF Available, Wallets
    <3> QED
      BY <1>6, <3>1
  <2> QED
    BY <1>2, <2>1 DEF Reserved
<1>8. Books
  <2>1. Unsaved = 0
    <3>1. pnlList \in Seq(Realized) /\ \A k \in DOMAIN pnlList : pnlList[k].saved
      BY <1>2
    <3> QED
      BY <3>1, NoPnlUnsaved DEF Unsaved
  <2> QED
    BY <1>2, <2>1 DEF Books, Selling
<1>9. Enough
  BY <1>6 DEF Enough
<1>10. LotsMatchHoldings
  BY <1>2, <1>6 DEF LotsMatchHoldings
<1>11. PnlOncePerSale
  BY <1>2 DEF PnlOncePerSale
<1> QED
  BY <1>1, <1>4, <1>5, <1>7, <1>8, <1>9, <1>10, <1>11 DEF LotsInv

-----------------------------------------------------------------------------
LEMMA LotsInvFrame == LotsInv /\ UNCHANGED lotsVars => LotsInv'
<1> SUFFICES ASSUME LotsInv, UNCHANGED lotsVars PROVE LotsInv'
  OBVIOUS
<1>1. /\ UNCHANGED <<lots, holding, locked, new, pnl, heap, toCreate, toUpdate, toDelete>>
      /\ UNCHANGED <<pnlList, step, side, fills, at, remain, call, refundable, jobs, calls>>
      /\ UNCHANGED <<deaths, sold, usedUp, loaded, stale>>
  BY DEF lotsVars, tables, fifo, work, api
<1>2. UNCHANGED <<LotsTypeOK, Lists, WalletKept, Reserved>>
  BY <1>1 DEF LotsTypeOK, Lists, WalletKept, Reserved, Table, Updated, Available, Traded
<1>3. UNCHANGED <<Books, Enough, LotsMatchHoldings, PnlOncePerSale>>
  BY <1>1 DEF Books, Selling, SoldSoFar, SoldOf, Traded, Rest, Unsaved, Bought, Enough, Worths,
              Worth, Ids, Has, LotsMatchHoldings, LotsOf, PnlOncePerSale
<1> QED
  BY <1>2, <1>3 DEF LotsInv

\* The lots, their copies and the books of the job in work keep together
\* through every step of a job and of the API: what the theorems below rest on
\* (balance-lot.service.ts:60-255, wallet.service.ts:256-311).
THEOREM LotsInvariance == LotsSpec => []LotsInv
<1>1. LotsInit => LotsInv
  BY FirstLotsInv
<1>2. LotsInv /\ [LotsNext]_lotsVars => LotsInv'
  <2>1. ASSUME LotsInv, LotsNext PROVE LotsInv'
    <3>1. LotsTypeOK' /\ Lists' /\ WalletKept'
      BY <2>1, LotsTypeStep, ListsStep, WalletsStep DEF LotsInv
    <3>2. Reserved' /\ Books' /\ PnlOncePerSale'
      BY <2>1, ReservedStep, AccountsStep, PnlStep DEF LotsInv
    <3>3. Enough' /\ LotsMatchHoldings'
      BY <2>1, <3>1, HoldingsStep DEF LotsInv
    <3> QED
      BY <3>1, <3>2, <3>3 DEF LotsInv
  <2> QED
    BY <2>1, LotsInvFrame
<1> QED
  BY <1>1, <1>2, PTL DEF LotsSpec

\* Every variable of the lots has its type, with positive quantities, and every
\* id is below the next one, whatever the engine writes back
\* (balance-lot.service.ts:232-248).
THEOREM LotsTypeCorrect == LotsSpec => []LotsTypeOK
<1>1. LotsInv => LotsTypeOK
  BY DEF LotsInv
<1> QED
  BY <1>1, LotsInvariance, PTL

\* For any lots, fills and amounts the lots that are found for a wallet add up to
\* what it holds, also after a commit inserted again what it had deleted, as long
\* as no row was written from a stale copy
\* (balance-lot.service.ts:156-248, wallet.service.ts:256-311).
THEOREM LotsMatch == LotsSpec => []LotsMatchHoldings
<1>1. LotsInv => LotsMatchHoldings
  BY DEF LotsInv
<1> QED
  BY <1>1, LotsInvariance, PTL

\* For any lots, fills and amounts each unit sold is realised once: the engine
\* never runs out of lots in a sale, however the API has changed them
\* (balance-lot.service.ts:164-214, 245-255).
THEOREM PnlExact == LotsSpec => []PnlOncePerSale
<1>1. LotsInv => PnlOncePerSale
  BY DEF LotsInv
<1> QED
  BY <1>1, LotsInvariance, PTL

\* A wallet's lots are worth at least what it holds, also when every copy that the
\* engine or a transfer still has of them is written back: LotsMatchHoldings says
\* nothing once a row was written from a stale copy, this does
\* (balance-lot.service.ts:232-248, wallet.service.ts:256-311).
THEOREM LotsSuffice == LotsSpec => []Enough
<1>1. LotsInv => Enough
  BY DEF LotsInv
<1> QED
  BY <1>1, LotsInvariance, PTL

\* No sale runs out of lots, so the loop that would then leave the rest of a sale
\* without profit or loss, and without an error, never ends early, whatever the
\* API did to the lots before the snapshot was taken or since
\* (balance-lot.service.ts:157-214).
THEOREM SalesFindLots == LotsSpec => []SaleHasLots
<1>1. LotsInv => SaleHasLots
  BY LotsLeft DEF LotsInv
<1> QED
  BY <1>1, LotsInvariance, PTL
=============================================================================
