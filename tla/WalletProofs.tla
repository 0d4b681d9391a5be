---------------------------- MODULE WalletProofs ----------------------------
(* Theorems about Wallet, for every value of its constants. *)
EXTENDS Wallet, TLAPS

USE DEF Accounts

(* toFixed(4) of a nonnegative amount is a natural number of units. *)
LEMMA RoundNat ==
  ASSUME NEW n \in Nat, NEW d \in Nat \ {0}
  PROVE  Round(n, d) \in Nat
  BY DEF Round

LEMMA ProductPositive ==
  ASSUME NEW m \in Nat \ {0}, NEW n \in Nat \ {0}
  PROVE  m * n \in Nat \ {0}
<1>1. m * n \in Int
  OBVIOUS
<1>2. m * n > 0
  OBVIOUS
<1>3. QED
  BY <1>1, <1>2

(* The amounts debited and credited are natural numbers. *)
LEMMA AmountsNat ==
  ASSUME NEW q \in Offered
  PROVE  /\ AmountStr(q) \in Nat
         /\ \A rate \in Rates[q.from, q.to] : TargetAmount(q, rate) \in Nat
<1>1. q.amount \in Nat \ {0} /\ q.from \in Currencies /\ q.to \in Currencies
  BY OfferedAssumption, FineAssumption DEF Request
<1>2. AmountStr(q) \in Nat
  BY <1>1, RoundNat, FineAssumption DEF AmountStr
<1>3. ASSUME NEW rate \in Rates[q.from, q.to]
      PROVE  TargetAmount(q, rate) \in Nat
  <2>1. rate \in (Nat \ {0}) \X (Nat \ {0})
    BY <1>1, RateAssumption
  <2>2. rate[1] \in Nat \ {0} /\ rate[2] \in Nat \ {0}
    BY <2>1
  <2>3. q.amount * rate[1] \in Nat /\ Fine * rate[2] \in Nat \ {0}
    BY <1>1, <2>2, FineAssumption, ProductPositive
  <2>4. QED
    BY <2>3, RoundNat DEF TargetAmount
<1>4. QED
  BY <1>2, <1>3

LEMMA AmountStrInt ==
  ASSUME NEW q \in Offered
  PROVE  AmountStr(q) \in Int
<1>1. AmountStr(q) \in Nat
  BY AmountsNat
<1>2. QED
  BY <1>1

(* An accepted request does not credit the account it debits. *)
LEMMA AccountsDiffer ==
  ASSUME NEW q \in Offered, WellFormed(q), Debits(q)
  PROVE  DebitAccount(q) # CreditAccount(q)
  BY OfferedAssumption
  DEF WellFormed, Debits, DebitAccount, CreditAccount, Request, Kinds

(* Both accounts of an accepted request exist. *)
LEMMA AccountsTyped ==
  ASSUME NEW q \in Offered
  PROVE  /\ DebitAccount(q) \in Accounts
         /\ WellFormed(q) => CreditAccount(q) \in Accounts
  BY OfferedAssumption
  DEF WellFormed, DebitAccount, CreditAccount, Request, Kinds

-----------------------------------------------------------------------------
(* A request past its checks is well formed, and only requests that move   *)
(* money get there.                                                        *)
Accepted == {"quote", "debit", "read", "insert", "compare", "update", "ledger", "commit", "reply"}

StageInv ==
  \A r \in Requests :
    /\ stage[r] \in Accepted \union {"lookup"} => req[r].kind # "balances"
    /\ stage[r] \in Accepted => WellFormed(req[r])
    /\ stage[r] = "quote" => NeedsQuote(req[r])
    /\ stage[r] = "debit" => Debits(req[r])

TypeInv == TypeOK /\ StageInv

(* Request r, and no other, is at stage s next. *)
Moves(r, s) == \A q \in Requests : stage'[q] = IF q = r THEN s ELSE stage[q]

LEMMA GotoMoves ==
  ASSUME TypeInv, NEW r \in Requests, NEW s, Goto(r, s)
  PROVE  Moves(r, s) /\ stage'[r] = s
  BY DEF TypeInv, TypeOK, Goto, Moves

(* The body of a request, and the accounts and amounts it names. *)
LEMMA RequestTyped ==
  ASSUME TypeOK, NEW r \in Requests
  PROVE  /\ req[r] \in Offered
         /\ req[r].kind \in Kinds
         /\ req[r].user \in Users
         /\ req[r].from \in Currencies
         /\ req[r].to \in Currencies
         /\ req[r].key \in Keys \union {NoKey}
         /\ req[r].peer \in Users \union {NoUser}
  BY OfferedAssumption DEF TypeOK, Request

(* The state a request leaves when it ends is well typed. *)
LEMMA FinishType ==
  ASSUME TypeInv, NEW r \in Requests, NEW status \in Statuses,
         NEW tx \in Requests \union {NoReq}, Finish(r, status, tx)
  PROVE  /\ req' \in [Requests -> Offered]
         /\ stage' \in [Requests -> Stages]
         /\ credit' \in [Requests -> Int]
         /\ seen' \in [Requests -> Int]
         /\ answer' \in [Requests -> [status : Statuses, tx : Requests \union {NoReq}]]
         /\ crashes' \in 0..MaxCrashes
         /\ StageInv'
  BY DEF TypeInv, TypeOK, StageInv, Finish, Goto, Stages, Accepted

LEMMA ReleaseType ==
  ASSUME TypeOK, NEW r \in Requests, ReleaseLocks(r)
  PROVE  /\ lock' \in [Accounts -> Requests \union {NoReq}]
         /\ draft' \in [Accounts -> Int]
         /\ keyLock' \in [Keys -> Requests \union {NoReq}]
  BY DEF TypeOK, ReleaseLocks

LEMMA WriteRowType ==
  ASSUME TypeOK, NEW r \in Requests, NEW a \in Accounts, NEW n \in Int,
         WriteRow(r, a, n)
  PROVE  /\ lock' \in [Accounts -> Requests \union {NoReq}]
         /\ draft' \in [Accounts -> Int]
         /\ keyLock' \in [Keys -> Requests \union {NoReq}]
  BY DEF TypeOK, WriteRow

LEMMA RollbackType ==
  ASSUME TypeInv, NEW r \in Requests, NEW status \in Statuses, Rollback(r, status)
  PROVE  TypeInv'
<1>1. Finish(r, status, NoReq) /\ ReleaseLocks(r) /\ UNCHANGED committed
  BY DEF Rollback
<1>2. QED
  BY <1>1, FinishType, ReleaseType DEF TypeInv, TypeOK, committed

(* A request that ends without touching the database. *)
LEMMA AnswerType ==
  ASSUME TypeInv, NEW r \in Requests, NEW status \in Statuses,
         NEW tx \in Requests \union {NoReq}, Finish(r, status, tx),
         UNCHANGED <<committed, open>>
  PROVE  TypeInv'
  BY FinishType DEF TypeInv, TypeOK, committed, open

LEMMA TypeInit == Init => TypeInv
  BY OpeningAssumption, BoundAssumption
  DEF Init, TypeInv, TypeOK, StageInv, Stages, Statuses, Accepted

LEMMA TypeBeforeTransaction ==
  ASSUME TypeInv, NEW r \in Requests, Arrive(r) \/ BeforeTransaction(r)
  PROVE  TypeInv'
<1>1. CASE Arrive(r)
  BY <1>1 DEF Arrive, Goto, TypeInv, TypeOK, StageInv, Stages, Accepted,
              local, committed, open
<1>2. CASE Refuse(r)
  BY <1>2, AnswerType DEF Refuse, Statuses
<1>3. CASE Replay(r)
  <2>1. <<req[r].user, req[r].key>> \in Users \X Keys
    BY <1>3, RequestTyped DEF Replay, Stored, TypeInv
  <2>2. record[req[r].user, req[r].key] \in Requests \union {NoReq}
    BY <2>1 DEF TypeInv, TypeOK
  <2>3. QED
    BY <1>3, <2>2, AnswerType DEF Replay, Statuses
<1>4. CASE Proceed(r)
  <2>1. AmountStr(req[r]) \in Nat
    BY AmountsNat DEF TypeInv, TypeOK
  <2>2. QED
    BY <1>4, <2>1 DEF Proceed, Goto, TypeInv, TypeOK, StageInv, Stages, Accepted,
                      NeedsQuote, committed, open
<1>5. CASE Quote(r)
  <2>1. PICK n \in Nat : credit' = [credit EXCEPT ![r] = n]
    BY <1>5, AmountsNat DEF Quote, TypeInv, TypeOK
  <2>2. credit' \in [Requests -> Int]
    BY <2>1 DEF TypeInv, TypeOK
  <2>3. TypeOK'
    BY <1>5, <2>2 DEF Quote, Goto, TypeInv, TypeOK, Stages, committed, open
  <2>4. StageInv'
    BY <1>5 DEF Quote, Goto, TypeInv, TypeOK, StageInv, Stages, Accepted,
                NeedsQuote, Debits
  <2>5. QED
    BY <2>3, <2>4 DEF TypeInv
<1>6. CASE QuoteFails(r)
  BY <1>6, AnswerType DEF QuoteFails, Statuses
<1>7. QED
  BY <1>1, <1>2, <1>3, <1>4, <1>5, <1>6 DEF BeforeTransaction

LEMMA TypeDebit ==
  ASSUME TypeInv, NEW r \in Requests, Debit(r) \/ DebitRefused(r)
  PROVE  TypeInv'
<1>1. CASE Debit(r)
  <2> DEFINE a == DebitAccount(req[r])
             n == balance[a] - AmountStr(req[r])
  <2>1. req[r] \in Offered
    BY RequestTyped DEF TypeInv
  <2>2. a \in Accounts /\ n \in Int
    BY <2>1, AccountsTyped, AmountStrInt DEF TypeInv, TypeOK
  <2>3. WriteRow(r, a, n)
    BY <1>1 DEF Debit
  <2> HIDE DEF a, n
  <2>4. TypeOK'
    BY <1>1, <2>2, <2>3, WriteRowType DEF Debit, Goto, TypeInv, TypeOK, Stages, local, committed
  <2>5. StageInv'
    BY <1>1 DEF Debit, Goto, TypeInv, TypeOK, StageInv, Accepted
  <2>6. QED
    BY <2>4, <2>5 DEF TypeInv
<1>2. CASE DebitRefused(r)
  BY <1>2, RollbackType DEF DebitRefused, Statuses
<1>3. QED
  BY <1>1, <1>2

LEMMA TypeCredit ==
  ASSUME TypeInv, NEW r \in Requests,
         \/ ReadCredited(r) \/ CompareCredited(r)
         \/ UpdateCredited(r) \/ InsertCredited(r)
         \/ InsertConflict(r) \/ CreditOverflow(r)
  PROVE  TypeInv'
<1>1. stage[r] \in {"read", "insert", "update"} => CreditAccount(req[r]) \in Accounts
  BY AccountsTyped, RequestTyped DEF TypeInv, StageInv, Accepted
<1>2. CASE ReadCredited(r)
  <2>1. PICK n \in Int : seen' = [seen EXCEPT ![r] = n]
    BY <1>1, <1>2 DEF ReadCredited, TypeInv, TypeOK
  <2>2. TypeOK'
    BY <1>2, <2>1 DEF ReadCredited, Goto, TypeInv, TypeOK, Stages, committed, open
  <2>3. StageInv'
    BY <1>2 DEF ReadCredited, Goto, TypeInv, TypeOK, StageInv, Accepted
  <2>4. QED
    BY <2>2, <2>3 DEF TypeInv
<1>3. CASE UpdateCredited(r) \/ InsertCredited(r)
  <2>1. PICK n \in Int : WriteRow(r, CreditAccount(req[r]), n)
    BY <1>3 DEF UpdateCredited, InsertCredited, TypeInv, TypeOK
  <2>2. CreditAccount(req[r]) \in Accounts
    BY <1>1, <1>3 DEF UpdateCredited, InsertCredited
  <2>3. /\ Goto(r, "ledger") /\ stage[r] \in {"insert", "update"}
        /\ UNCHANGED <<req, answer, crashes, local, committed>>
    BY <1>3 DEF UpdateCredited, InsertCredited
  <2>4. TypeOK'
    BY <2>1, <2>2, <2>3, WriteRowType DEF Goto, TypeInv, TypeOK, Stages, local, committed
  <2>5. StageInv'
    BY <2>3 DEF Goto, TypeInv, TypeOK, StageInv, Accepted
  <2>6. QED
    BY <2>4, <2>5 DEF TypeInv
<1>4. CASE InsertConflict(r)
  BY <1>4, RollbackType DEF InsertConflict, Statuses
<1>5. CASE CreditOverflow(r)
  BY <1>5, RollbackType DEF CreditOverflow, Statuses
<1>6. CASE CompareCredited(r)
  BY <1>6 DEF CompareCredited, Goto, TypeInv, TypeOK, StageInv, Stages, Accepted,
              local, committed, open
<1>7. QED
  BY <1>2, <1>3, <1>4, <1>5, <1>6

(* The rows a request adds to the ledger are rows of the table. *)
LEMMA LedgerRowsTyped ==
  ASSUME TypeInv, NEW r \in Requests, stage[r] = "commit"
  PROVE  LedgerRows(r) \subseteq Row
<1>1. /\ req[r].kind \in Kinds \ {"balances"}
      /\ req[r].user \in Users
      /\ req[r].from \in Currencies
      /\ req[r].to \in Currencies
      /\ req[r].key \in Keys \union {NoKey}
  BY RequestTyped DEF TypeInv, StageInv, Accepted
<1>2. req[r].kind = "p2p" => req[r].peer \in Users
  BY DEF TypeInv, StageInv, WellFormed, Accepted
<1>3. AmountStr(req[r]) \in Int /\ credit[r] \in Int
  BY AmountStrInt, RequestTyped DEF TypeInv, TypeOK
<1>4. ASSUME NEW u \in Users, NEW type \in Types, NEW to \in Currencies,
             NEW k \in Keys \union {NoKey}
      PROVE  Entry(r, u, type, to, k) \in Row
  BY <1>1, <1>3 DEF Entry, Row
<1>5. CASE req[r].kind = "p2p"
  BY <1>1, <1>2, <1>4, <1>5 DEF LedgerRows, Types
<1>6. CASE req[r].kind # "p2p"
  BY <1>1, <1>4, <1>6 DEF LedgerRows, Types, Kinds
<1>7. QED
  BY <1>5, <1>6

(* What a commit leaves in the database is well typed. *)
LEMMA PublishType ==
  ASSUME TypeInv, NEW r \in Requests, stage[r] = "commit", Publish(r)
  PROVE  /\ rows' \subseteq Accounts
         /\ balance' \in [Accounts -> Int]
         /\ ledger' \subseteq Row
         /\ record' \in [Users \X Keys -> Requests \union {NoReq}]
         /\ lock' \in [Accounts -> Requests \union {NoReq}]
         /\ draft' \in [Accounts -> Int]
         /\ keyLock' \in [Keys -> Requests \union {NoReq}]
<1>1. ledger' \subseteq Row /\ ReleaseLocks(r)
  BY LedgerRowsTyped DEF Publish, TypeInv, TypeOK
<1>2. rows' \subseteq Accounts /\ balance' \in [Accounts -> Int]
  BY DEF Publish, TypeInv, TypeOK
<1>3. record' \in [Users \X Keys -> Requests \union {NoReq}]
  BY DEF Publish, TypeInv, TypeOK
<1>4. QED
  BY <1>1, <1>2, <1>3, ReleaseType DEF TypeInv

(* An error of COMMIT: the transaction is rolled back after all, or it is  *)
(* committed and only its answer is lost.                                  *)
LEMMA CommitFailsCases ==
  ASSUME NEW r \in Requests, CommitFails(r)
  PROVE  /\ stage[r] = "commit"
         /\ Finish(r, "unknown", NoReq)
         /\ Rollback(r, "unknown") \/ Publish(r)
  BY DEF CommitFails, Rollback

LEMMA TypeLedger ==
  ASSUME TypeInv, NEW r \in Requests,
         \/ InsertLedger(r) \/ LedgerConflict(r)
         \/ Commit(r) \/ CommitFails(r) \/ Reply(r)
  PROVE  TypeInv'
<1>1. CASE InsertLedger(r)
  <2>1. TypeOK'
    BY <1>1 DEF InsertLedger, Goto, TypeInv, TypeOK, Stages, local, committed
  <2>2. StageInv'
    BY <1>1 DEF InsertLedger, Goto, TypeInv, TypeOK, StageInv, Accepted
  <2>3. QED
    BY <2>1, <2>2 DEF TypeInv
<1>2. CASE LedgerConflict(r)
  BY <1>2, RollbackType DEF LedgerConflict, Statuses
<1>3. CASE Commit(r)
  <2>1. TypeOK'
    BY <1>3, PublishType DEF Commit, Goto, TypeInv, TypeOK, Stages, local
  <2>2. StageInv'
    BY <1>3 DEF Commit, Goto, TypeInv, TypeOK, StageInv, Accepted
  <2>3. QED
    BY <2>1, <2>2 DEF TypeInv
<1>4. CASE Reply(r)
  BY <1>4, AnswerType DEF Reply, Statuses
<1>5. CASE CommitFails(r) /\ Rollback(r, "unknown")
  BY <1>5, RollbackType DEF Statuses
<1>6. CASE CommitFails(r) /\ Publish(r)
  <2>1. Finish(r, "unknown", NoReq) /\ stage[r] = "commit"
    BY <1>6, CommitFailsCases
  <2>2. TypeOK'
    BY <1>6, <2>1, PublishType, FinishType DEF TypeInv, TypeOK, Statuses
  <2>3. StageInv'
    BY <2>1, FinishType DEF Statuses
  <2>4. QED
    BY <2>2, <2>3 DEF TypeInv
<1>7. QED
  BY <1>1, <1>2, <1>3, <1>4, <1>5, <1>6, CommitFailsCases

LEMMA TypeBalances ==
  ASSUME TypeInv, NEW r \in Requests, GetBalances(r)
  PROVE  TypeInv'
<1>1. CASE ListBalances(r)
  BY <1>1, AnswerType DEF ListBalances, Statuses
<1>2. CASE NoBalances(r)
  BY <1>2 DEF NoBalances, Goto, TypeInv, TypeOK, StageInv, Stages, Accepted,
              local, committed, open
<1>3. CASE FindDefault(r)
  <2>1. CASE Finish(r, "listed", NoReq)
    BY <1>3, <2>1, AnswerType DEF FindDefault, Statuses
  <2>2. CASE Goto(r, "create") /\ UNCHANGED <<req, answer, crashes, local>>
    BY <1>3, <2>2 DEF FindDefault, Goto, TypeInv, TypeOK, StageInv, Stages, Accepted,
                      local, committed, open
  <2>3. QED
    BY <1>3, <2>1, <2>2 DEF FindDefault
<1>4. CASE CreateDefault(r)
  <2>1. <<req[r].user, NGN>> \in Accounts
    BY RequestTyped, NGNAssumption DEF TypeInv
  <2>2. rows' \subseteq Accounts /\ balance' \in [Accounts -> Int]
    BY <1>4, <2>1 DEF CreateDefault, TypeInv, TypeOK
  <2>3. QED
    BY <1>4, <2>2, FinishType DEF CreateDefault, TypeInv, TypeOK, Statuses, open
<1>5. CASE CreateConflict(r)
  BY <1>5, AnswerType DEF CreateConflict, Statuses
<1>6. QED
  BY <1>1, <1>2, <1>3, <1>4, <1>5 DEF GetBalances

LEMMA TypeCrash ==
  ASSUME TypeInv, Crash
  PROVE  TypeInv'
<1>1. crashes' \in 0..MaxCrashes
  BY BoundAssumption DEF Crash, TypeInv, TypeOK
<1>2. TypeOK'
  BY <1>1 DEF Crash, TypeInv, TypeOK, Stages, Statuses, committed
<1>3. StageInv'
  BY DEF Crash, TypeInv, TypeOK, StageInv, Accepted
<1>4. QED
  BY <1>2, <1>3 DEF TypeInv

LEMMA TypeStep == TypeInv /\ [Next]_vars => TypeInv'
<1> SUFFICES ASSUME TypeInv, [Next]_vars
             PROVE  TypeInv'
  OBVIOUS
<1>1. ASSUME NEW r \in Requests,
             Arrive(r) \/ Handle(r) \/ StatementFails(r) \/ CommitFails(r)
      PROVE  TypeInv'
  <2>1. CASE Arrive(r) \/ BeforeTransaction(r)
    BY <2>1, TypeBeforeTransaction
  <2>2. CASE GetBalances(r)
    BY <2>2, TypeBalances
  <2>3. CASE DeadlockVictim(r) \/ StatementFails(r)
    BY <2>3, RollbackType DEF DeadlockVictim, StatementFails, Statuses
  <2>4. CASE (Transaction(r) /\ ~DeadlockVictim(r)) \/ CommitFails(r)
    BY <2>4, TypeDebit, TypeCredit, TypeLedger DEF Transaction
  <2>5. QED
    BY <1>1, <2>1, <2>2, <2>3, <2>4 DEF Handle
<1>2. CASE Crash
  BY <1>2, TypeCrash
<1>3. CASE UNCHANGED vars
  BY <1>3 DEF vars, local, committed, open, TypeInv, TypeOK, StageInv
<1>4. QED
  BY <1>1, <1>2, <1>3 DEF Next, Quiet

LEMMA TypeInvariant == Spec => []TypeInv
  BY TypeInit, TypeStep, PTL DEF Spec

(* Every variable keeps its type, whatever the requests and their order.   *)
THEOREM TypeCorrect == Spec => []TypeOK
<1>1. TypeInv => TypeOK
  BY DEF TypeInv
<1>2. QED
  BY <1>1, TypeInvariant, PTL

-----------------------------------------------------------------------------
(* The amounts in flight.  A draft is in range because a debit is checked  *)
(* against the row it locks and a credit against the column.               *)
MoneyInv ==
  /\ \A r \in Requests : credit[r] \in Nat /\ seen[r] \in Nat
  /\ \A a \in Accounts : balance[a] \in 0..MaxBalance /\ draft[a] \in 0..MaxBalance

LEMMA FinishMoney ==
  ASSUME TypeInv, MoneyInv, NEW r \in Requests, NEW status, NEW tx,
         Finish(r, status, tx)
  PROVE  \A s \in Requests : credit'[s] \in Nat /\ seen'[s] \in Nat
  BY DEF TypeInv, TypeOK, MoneyInv, Finish

LEMMA RollbackMoney ==
  ASSUME TypeInv, MoneyInv, NEW r \in Requests, NEW status, Rollback(r, status)
  PROVE  MoneyInv'
<1>1. Finish(r, status, NoReq) /\ ReleaseLocks(r) /\ UNCHANGED committed
  BY DEF Rollback
<1>2. \A a \in Accounts : draft'[a] \in 0..MaxBalance
  BY <1>1, MaxAssumption DEF ReleaseLocks, MoneyInv
<1>3. QED
  BY <1>1, <1>2, FinishMoney DEF MoneyInv, committed

LEMMA AnswerMoney ==
  ASSUME TypeInv, MoneyInv, NEW r \in Requests, NEW status, NEW tx,
         Finish(r, status, tx), UNCHANGED <<committed, open>>
  PROVE  MoneyInv'
  BY FinishMoney DEF MoneyInv, committed, open

(* Writing an amount in range to a row keeps every draft in range. *)
LEMMA WriteRowMoney ==
  ASSUME TypeInv, MoneyInv, NEW r \in Requests, NEW a \in Accounts,
         NEW n \in 0..MaxBalance, WriteRow(r, a, n), UNCHANGED <<local, committed>>
  PROVE  MoneyInv'
  BY DEF TypeInv, TypeOK, MoneyInv, WriteRow, local, committed

(* So does committing a draft. *)
LEMMA PublishMoney ==
  ASSUME TypeInv, MoneyInv, NEW r \in Requests, Publish(r)
  PROVE  \A a \in Accounts : balance'[a] \in 0..MaxBalance /\ draft'[a] \in 0..MaxBalance
  BY MaxAssumption DEF Publish, ReleaseLocks, TypeInv, TypeOK, MoneyInv

LEMMA MoneyInit == Init => MoneyInv
  BY OpeningAssumption, MaxAssumption DEF Init, MoneyInv

LEMMA MoneyStep ==
  ASSUME TypeInv, MoneyInv, [Next]_vars
  PROVE  MoneyInv'
<1>1. ASSUME NEW r \in Requests, Arrive(r) \/ BeforeTransaction(r)
      PROVE  MoneyInv'
  <2>1. CASE Arrive(r)
    BY <2>1 DEF Arrive, MoneyInv, local, committed, open
  <2>2. CASE Refuse(r) \/ Replay(r) \/ QuoteFails(r)
    BY <2>2, AnswerMoney DEF Refuse, Replay, QuoteFails
  <2>3. CASE Proceed(r) \/ Quote(r)
    <3>1. PICK n \in Nat : credit' = [credit EXCEPT ![r] = n]
      BY <2>3, AmountsNat, RequestTyped DEF Proceed, Quote, TypeInv
    <3>2. UNCHANGED <<seen, committed, open>>
      BY <2>3 DEF Proceed, Quote
    <3>3. QED
      BY <3>1, <3>2 DEF TypeInv, TypeOK, MoneyInv, committed, open
  <2>4. QED
    BY <1>1, <2>1, <2>2, <2>3 DEF BeforeTransaction
<1>2. ASSUME NEW r \in Requests, Transaction(r) \/ StatementFails(r) \/ CommitFails(r)
      PROVE  MoneyInv'
  <2>1. stage[r] \in {"read", "insert", "update"} => CreditAccount(req[r]) \in Accounts
    BY AccountsTyped, RequestTyped DEF TypeInv, StageInv, Accepted
  <2>2. CASE Debit(r)
    <3> DEFINE a == DebitAccount(req[r])
               d == AmountStr(req[r])
    <3>1. req[r] \in Offered
      BY RequestTyped DEF TypeInv
    <3>2. a \in Accounts /\ d \in Nat
      BY <3>1, AccountsTyped, AmountsNat
    <3>3. balance[a] >= d /\ balance[a] \in 0..MaxBalance
      BY <2>2, <3>2 DEF Debit, Covers, MoneyInv
    <3>4. WriteRow(r, a, balance[a] - d) /\ UNCHANGED <<local, committed>>
      BY <2>2 DEF Debit
    <3> HIDE DEF a, d
    <3>5. balance[a] - d \in 0..MaxBalance
      BY <3>2, <3>3, MaxAssumption
    <3>6. QED
      BY <3>2, <3>4, <3>5, WriteRowMoney
  <2>3. CASE ReadCredited(r)
    BY <2>1, <2>3 DEF ReadCredited, TypeInv, TypeOK, MoneyInv, committed, open
  <2>4. CASE UpdateCredited(r) \/ InsertCredited(r)
    <3>1. PICK n \in 0..MaxBalance : WriteRow(r, CreditAccount(req[r]), n)
      BY <2>4, MaxAssumption DEF UpdateCredited, InsertCredited, MoneyInv
    <3>2. CreditAccount(req[r]) \in Accounts /\ UNCHANGED <<local, committed>>
      BY <2>1, <2>4 DEF UpdateCredited, InsertCredited
    <3>3. QED
      BY <3>1, <3>2, WriteRowMoney
  <2>5. CASE \/ DebitRefused(r) \/ InsertConflict(r) \/ CreditOverflow(r)
             \/ LedgerConflict(r) \/ DeadlockVictim(r) \/ StatementFails(r)
    BY <2>5, RollbackMoney DEF DebitRefused, InsertConflict, CreditOverflow,
                               LedgerConflict, DeadlockVictim, StatementFails
  <2>6. CASE InsertLedger(r)
    BY <2>6 DEF InsertLedger, MoneyInv, local, committed
  <2>7. CASE Commit(r)
    BY <2>7, PublishMoney DEF Commit, MoneyInv, local
  <2>8. CASE Reply(r)
    BY <2>8, AnswerMoney DEF Reply
  <2>9. CASE CompareCredited(r)
    BY <2>9 DEF CompareCredited, MoneyInv, local, committed, open
  <2>10. CASE CommitFails(r)
    <3>1. Finish(r, "unknown", NoReq) /\ (Rollback(r, "unknown") \/ Publish(r))
      BY <2>10, CommitFailsCases
    <3>2. QED
      BY <3>1, RollbackMoney, PublishMoney, FinishMoney DEF MoneyInv
  <2>11. QED
    BY <1>2, <2>2, <2>3, <2>4, <2>5, <2>6, <2>7, <2>8, <2>9, <2>10 DEF Transaction
<1>3. ASSUME NEW r \in Requests, GetBalances(r)
      PROVE  MoneyInv'
  <2>1. CASE ListBalances(r) \/ CreateConflict(r)
    BY <2>1, AnswerMoney DEF ListBalances, CreateConflict
  <2>2. CASE NoBalances(r)
    BY <2>2 DEF NoBalances, MoneyInv, local, committed, open
  <2>3. CASE FindDefault(r)
    BY <2>3, AnswerMoney DEF FindDefault, MoneyInv, local, committed, open
  <2>4. CASE CreateDefault(r)
    BY <2>4, FinishMoney, MaxAssumption
    DEF CreateDefault, TypeInv, TypeOK, MoneyInv, open
  <2>5. QED
    BY <1>3, <2>1, <2>2, <2>3, <2>4 DEF GetBalances
<1>4. CASE Crash
  BY <1>4, MaxAssumption DEF Crash, MoneyInv, committed
<1>5. CASE UNCHANGED vars
  BY <1>5 DEF vars, local, committed, open, MoneyInv
<1>6. QED
  BY <1>1, <1>2, <1>3, <1>4, <1>5 DEF Next, Handle, Quiet

LEMMA MoneyInvariant == Spec => []MoneyInv
  BY TypeInvariant, MoneyInit, MoneyStep, PTL DEF Spec

(* No committed balance is ever negative or beyond its column.             *)
THEOREM BalancesStayInRange == Spec => []BalanceInRange
<1>1. MoneyInv => BalanceInRange
  BY DEF MoneyInv, BalanceInRange
<1>2. QED
  BY <1>1, MoneyInvariant, PTL

-----------------------------------------------------------------------------
(* Idempotency keys.  The request about to commit owns the entry of its    *)
(* key, and no committed row carries a key somebody is about to commit.    *)
KeyInv ==
  /\ \A k \in Keys : keyLock[k] # NoReq => stage[keyLock[k]] = "commit"
  /\ \A r \in Requests, k \in Keys :
       stage[r] = "commit" /\ req[r].key = k => keyLock[k] = r /\ ~KeyTaken(k)
  /\ KeyAppliedOnce
  /\ RecordMatchesLedger

LEMMA TablesFrame ==
  ASSUME KeyAppliedOnce, RecordMatchesLedger, ledger' = ledger, record' = record
  PROVE  KeyAppliedOnce' /\ RecordMatchesLedger'
<1>1. KeyAppliedOnce'
  BY DEF KeyAppliedOnce
<1>2. ASSUME NEW u, NEW k, NEW r
      PROVE  Applied(u, k, r)' <=> Applied(u, k, r)
  BY DEF Applied
<1>3. RecordMatchesLedger'
  BY <1>2 DEF RecordMatchesLedger
<1>4. QED
  BY <1>1, <1>3

(* What a step that leaves the tables alone may do to the entries. *)
LEMMA KeyFrame ==
  ASSUME TypeInv, KeyInv, UNCHANGED <<req, committed>>,
         \A r \in Requests : stage'[r] = "commit" => stage[r] = "commit",
         \A k \in Keys : keyLock'[k] \in {keyLock[k], NoReq},
         \A k \in Keys : keyLock'[k] # NoReq => stage'[keyLock[k]] = "commit",
         \A r \in Requests, k \in Keys :
           stage'[r] = "commit" /\ keyLock[k] = r => keyLock'[k] = r
  PROVE  KeyInv'
<1>1. req' = req /\ ledger' = ledger /\ record' = record
  BY DEF committed
<1>2. KeyAppliedOnce' /\ RecordMatchesLedger'
  BY <1>1, TablesFrame DEF KeyInv
<1>3. \A k \in Keys : keyLock'[k] # NoReq => keyLock'[k] = keyLock[k]
  OBVIOUS
<1>4. \A r \in Requests, k \in Keys :
        stage'[r] = "commit" /\ req[r].key = k => keyLock'[k] = r /\ ~KeyTaken(k)
  BY DEF KeyInv
<1>5. \A k \in Keys : KeyTaken(k)' <=> KeyTaken(k)
  BY <1>1 DEF KeyTaken
<1>6. QED
  BY <1>1, <1>2, <1>3, <1>4, <1>5 DEF KeyInv

(* A request that moves on outside "ledger" and "commit". *)
LEMMA KeyMove ==
  ASSUME TypeInv, KeyInv, NEW r \in Requests, Moves(r, stage'[r]), stage'[r] # "commit",
         stage[r] # "commit", UNCHANGED <<req, committed, keyLock>>
  PROVE  KeyInv'
<1>1. \A q \in Requests : stage'[q] = "commit" <=> stage[q] = "commit"
  BY DEF Moves
<1>2. \A k \in Keys : keyLock[k] \in Requests \union {NoReq}
  BY DEF TypeInv, TypeOK
<1>3. \A k \in Keys : keyLock[k] # NoReq => stage'[keyLock[k]] = "commit"
  BY <1>1, <1>2 DEF KeyInv
<1>4. QED
  BY <1>1, <1>3, KeyFrame

LEMMA KeyRollback ==
  ASSUME TypeInv, KeyInv, NEW r \in Requests, NEW status, Rollback(r, status)
  PROVE  KeyInv'
<1>1. /\ Goto(r, "done") /\ UNCHANGED <<req, committed>>
      /\ keyLock' = [k \in Keys |-> IF keyLock[k] = r THEN NoReq ELSE keyLock[k]]
  BY DEF Rollback, Finish, ReleaseLocks
<1>2. \A q \in Requests : stage'[q] = IF q = r THEN "done" ELSE stage[q]
  BY <1>1 DEF Goto, TypeInv, TypeOK
<1>3. \A k \in Keys : keyLock[k] \in Requests \union {NoReq}
  BY DEF TypeInv, TypeOK
<1>4. \A k \in Keys : keyLock'[k] # NoReq => stage'[keyLock[k]] = "commit"
  BY <1>1, <1>2, <1>3 DEF KeyInv
<1>5. QED
  BY <1>1, <1>2, <1>4, KeyFrame

(* InsertLedger takes the entry of a key that is neither held nor used. *)
LEMMA KeyInsertLedger ==
  ASSUME TypeInv, KeyInv, NEW r \in Requests, InsertLedger(r)
  PROVE  KeyInv'
<1>1. /\ stage[r] = "ledger" /\ ~KeyTaken(req[r].key)
      /\ req[r].key # NoKey => keyLock[req[r].key] \in {NoReq, r}
      /\ keyLock' = [k \in Keys |-> IF k = req[r].key THEN r ELSE keyLock[k]]
      /\ UNCHANGED <<req, committed>>
  BY DEF InsertLedger, Free
<1>2. \A q \in Requests : stage'[q] = IF q = r THEN "commit" ELSE stage[q]
  BY DEF InsertLedger, Goto, TypeInv, TypeOK
<1>3. \A k \in Keys : keyLock[k] \in Requests \union {NoReq}
  BY DEF TypeInv, TypeOK
<1>4. \A k \in Keys : keyLock'[k] # NoReq => stage'[keyLock'[k]] = "commit"
  BY <1>1, <1>2, <1>3 DEF KeyInv
<1>5. \A q \in Requests, k \in Keys :
        stage'[q] = "commit" /\ req[q].key = k => keyLock'[k] = q /\ ~KeyTaken(k)
  BY <1>1, <1>2, KeyAssumption, NoReqAssumption DEF KeyInv
<1>6. req' = req /\ ledger' = ledger /\ record' = record
  BY <1>1 DEF committed
<1>7. KeyAppliedOnce' /\ RecordMatchesLedger'
  BY <1>6, TablesFrame DEF KeyInv
<1>8. \A k \in Keys : KeyTaken(k)' <=> KeyTaken(k)
  BY <1>6 DEF KeyTaken
<1>9. QED
  BY <1>4, <1>5, <1>6, <1>7, <1>8 DEF KeyInv

(* The rows of a request: the one of its user carries its key, the other,  *)
(* if there is one, carries none.                                          *)
LEMMA OwnRow ==
  ASSUME NEW r \in Requests
  PROVE  \E own \in LedgerRows(r) :
           /\ own.key = req[r].key /\ own.user = req[r].user /\ own.tx = r
           /\ \A x \in LedgerRows(r) : x = own \/ (x.key = NoKey /\ x.tx = r)
<1>1. CASE req[r].kind = "p2p"
  <2> DEFINE sent == Entry(r, req[r].user, "transfer_out", req[r].from, req[r].key)
             received == Entry(r, req[r].peer, "transfer_in", req[r].from, NoKey)
  <2>1. LedgerRows(r) = {sent, received}
    BY <1>1 DEF LedgerRows
  <2>2. /\ sent.key = req[r].key /\ sent.user = req[r].user /\ sent.tx = r
        /\ received.key = NoKey /\ received.tx = r
    BY DEF Entry
  <2> HIDE DEF sent, received
  <2>3. QED
    BY <2>1, <2>2
<1>2. CASE req[r].kind # "p2p"
  <2> DEFINE entry == Entry(r, req[r].user, req[r].kind, req[r].to, req[r].key)
  <2>1. LedgerRows(r) = {entry}
    BY <1>2 DEF LedgerRows
  <2>2. entry.key = req[r].key /\ entry.user = req[r].user /\ entry.tx = r
    BY DEF Entry
  <2> HIDE DEF entry
  <2>3. QED
    BY <2>1, <2>2
<1>3. QED
  BY <1>1, <1>2

(* At most one of the rows of a request carries its key, the one of its    *)
(* user, and no other key is used.                                         *)
LEMMA KeyedRow ==
  ASSUME NEW r \in Requests, NEW k \in Keys
  PROVE  /\ \A x, y \in LedgerRows(r) : x.key = k /\ y.key = k => x = y
         /\ \A x \in LedgerRows(r) :
              x.key = k => x.user = req[r].user /\ k = req[r].key
         /\ req[r].key = k =>
              \E x \in LedgerRows(r) : x.key = k /\ x.user = req[r].user
         /\ \A x \in LedgerRows(r) : x.tx = r
<1>1. k # NoKey
  BY KeyAssumption
<1>2. QED
  BY <1>1, OwnRow

(* Committing, whether or not its answer arrives, keeps the keys in order. *)
LEMMA KeyPublish ==
  ASSUME TypeInv, KeyInv, NEW r \in Requests, NEW s, stage[r] = "commit",
         Moves(r, s), s # "commit", Publish(r), req' = req, ledger' \subseteq Row
  PROVE  KeyInv'
<1>1. /\ stage[r] = "commit"
      /\ ledger' = ledger \union LedgerRows(r)
      /\ keyLock' = [k \in Keys |-> IF keyLock[k] = r THEN NoReq ELSE keyLock[k]]
      /\ req' = req
  BY DEF Publish, ReleaseLocks
<1>2. \A q \in Requests : stage'[q] = IF q = r THEN s ELSE stage[q]
  BY DEF Moves
<1>3. \A k \in Keys : keyLock[k] \in Requests \union {NoReq}
  BY DEF TypeInv, TypeOK
<1>4. \A k \in Keys : keyLock'[k] # NoReq => stage'[keyLock'[k]] = "commit"
  BY <1>1, <1>2, <1>3 DEF KeyInv
<1>5. \A k \in Keys : req[r].key = k => \A x \in ledger : x.key # k
  BY <1>1, KeyAssumption DEF KeyInv, KeyTaken
<1>6. ASSUME NEW q \in Requests, NEW k \in Keys,
             stage'[q] = "commit", req[q].key = k
      PROVE  keyLock'[k] = q /\ \A x \in ledger' : x.key # k
  <2>1. q # r /\ stage[q] = "commit"
    BY <1>2, <1>6
  <2>2. keyLock[k] = q /\ \A x \in ledger : x.key # k
    BY <1>6, <2>1, KeyAssumption DEF KeyInv, KeyTaken
  <2>3. req[r].key # k
    BY <1>1, <2>1, <2>2 DEF KeyInv
  <2>4. QED
    BY <1>1, <2>1, <2>2, <2>3, KeyedRow
<1>7. KeyAppliedOnce'
  <2>1. SUFFICES ASSUME NEW x \in ledger', NEW y \in ledger',
                        x.key = y.key, x.key # NoKey
                 PROVE  x = y
    BY DEF KeyAppliedOnce
  <2>2. x.key \in Keys
    BY <2>1 DEF Row
  <2>3. QED
    BY <1>1, <1>5, <2>1, <2>2, KeyedRow DEF KeyInv, KeyAppliedOnce
<1>8. RecordMatchesLedger'
  <2>1. SUFFICES ASSUME NEW u \in Users, NEW k \in Keys, NEW q \in Requests
                 PROVE  record'[u, k] = q <=> Applied(u, k, q)'
    BY DEF RecordMatchesLedger
  <2>2. record'[u, k] = IF u = req[r].user /\ k = req[r].key THEN r ELSE record[u, k]
    BY DEF Publish
  <2>3. record[u, k] = q <=> Applied(u, k, q)
    BY DEF KeyInv, RecordMatchesLedger
  <2>4. CASE u = req[r].user /\ k = req[r].key
    <3>1. \A x \in ledger' : x.key = k => x \in LedgerRows(r)
      BY <1>1, <1>5, <2>4
    <3>2. Applied(u, k, q)' => q = r
      BY <3>1, KeyedRow DEF Applied
    <3>3. Applied(u, k, r)'
      BY <1>1, <2>4, KeyedRow DEF Applied
    <3>4. QED
      BY <2>2, <2>4, <3>2, <3>3
  <2>5. CASE ~(u = req[r].user /\ k = req[r].key)
    <3>1. \A x \in LedgerRows(r) : ~(x.user = u /\ x.key = k)
      BY <2>5, KeyedRow
    <3>2. Applied(u, k, q)' <=> Applied(u, k, q)
      BY <1>1, <3>1 DEF Applied
    <3>3. QED
      BY <2>2, <2>3, <2>5, <3>2
  <2>6. QED
    BY <2>4, <2>5
<1>9. QED
  BY <1>1, <1>4, <1>6, <1>7, <1>8, KeyAssumption DEF KeyInv, KeyTaken

LEMMA KeyCommit ==
  ASSUME TypeInv, KeyInv, NEW r \in Requests, Commit(r) \/ CommitFails(r)
  PROVE  KeyInv'
<1>1. CASE CommitFails(r) /\ Rollback(r, "unknown")
  BY <1>1, KeyRollback
<1>2. CASE Publish(r)
  <2>1. stage[r] = "commit" /\ req' = req
    BY DEF Commit, CommitFails, Finish
  <2>2. Moves(r, stage'[r]) /\ stage'[r] \in {"reply", "done"}
    BY GotoMoves DEF Commit, CommitFails, Finish
  <2>3. ledger' \subseteq Row
    BY <1>2, <2>1, PublishType
  <2>4. QED
    BY <1>2, <2>1, <2>2, <2>3, KeyPublish
<1>3. QED
  BY <1>1, <1>2, CommitFailsCases DEF Commit

LEMMA KeyInit == Init => KeyInv
<1> SUFFICES ASSUME Init
             PROVE  KeyInv
  OBVIOUS
<1>1. KeyAppliedOnce
  BY DEF Init, KeyAppliedOnce
<1>2. RecordMatchesLedger
  BY NoReqAssumption DEF Init, RecordMatchesLedger, Applied
<1>3. QED
  BY <1>1, <1>2 DEF Init, KeyInv

LEMMA KeyStep ==
  ASSUME TypeInv, KeyInv, [Next]_vars
  PROVE  KeyInv'
<1>1. ASSUME NEW r \in Requests,
             Arrive(r) \/ BeforeTransaction(r) \/ Reply(r) \/ GetBalances(r)
      PROVE  KeyInv'
  <2>1. CASE ~CreateDefault(r)
    <3>1. stage[r] # "commit" /\ UNCHANGED <<req, committed, keyLock>>
      BY <1>1, <2>1
      DEF Arrive, BeforeTransaction, Refuse, Replay, Proceed, Quote, QuoteFails,
          Reply, GetBalances, ListBalances, NoBalances, FindDefault, CreateConflict,
          Finish, open
    <3>2. Moves(r, stage'[r]) /\ stage'[r] # "commit"
      <4>1. CASE \/ Refuse(r) \/ Replay(r) \/ QuoteFails(r) \/ Reply(r)
                 \/ ListBalances(r) \/ CreateConflict(r)
        BY <4>1, GotoMoves DEF Refuse, Replay, QuoteFails, Reply, ListBalances, CreateConflict, Finish
      <4>2. CASE Arrive(r) \/ Proceed(r) \/ Quote(r) \/ NoBalances(r)
        BY <4>2, GotoMoves DEF Arrive, Proceed, Quote, NoBalances
      <4>3. CASE FindDefault(r)
        BY <4>3, GotoMoves DEF FindDefault, Finish
      <4>4. QED
        BY <1>1, <2>1, <4>1, <4>2, <4>3 DEF BeforeTransaction, GetBalances
    <3>3. QED
      BY <3>1, <3>2, KeyMove
  <2>2. CASE CreateDefault(r)
    <3>1. \A q \in Requests : stage'[q] = "commit" <=> stage[q] = "commit"
      BY <2>2 DEF CreateDefault, Finish, Goto, TypeInv, TypeOK
    <3>2. \A k \in Keys : keyLock[k] \in Requests \union {NoReq}
      BY DEF TypeInv, TypeOK
    <3>3. UNCHANGED <<req, ledger, record, keyLock>>
      BY <2>2 DEF CreateDefault, Finish, open
    <3>4. KeyAppliedOnce' /\ RecordMatchesLedger'
      BY <3>3, TablesFrame DEF KeyInv
    <3>5. \A k \in Keys : KeyTaken(k)' <=> KeyTaken(k)
      BY <3>3 DEF KeyTaken
    <3>6. QED
      BY <3>1, <3>2, <3>3, <3>4, <3>5 DEF KeyInv
  <2>3. QED
    BY <2>1, <2>2
<1>2. ASSUME NEW r \in Requests,
             Transaction(r) \/ StatementFails(r) \/ CommitFails(r), ~Reply(r)
      PROVE  KeyInv'
  <2>1. CASE \/ Debit(r) \/ ReadCredited(r) \/ CompareCredited(r)
             \/ UpdateCredited(r) \/ InsertCredited(r)
    <3>1. stage[r] # "commit" /\ UNCHANGED <<req, committed, keyLock>>
      BY <2>1 DEF Debit, ReadCredited, CompareCredited, UpdateCredited, InsertCredited,
                  WriteRow, open
    <3>2. Moves(r, stage'[r]) /\ stage'[r] # "commit"
      BY <2>1, GotoMoves
      DEF Debit, ReadCredited, CompareCredited, UpdateCredited, InsertCredited
    <3>3. QED
      BY <3>1, <3>2, KeyMove
  <2>2. CASE \/ DebitRefused(r) \/ InsertConflict(r) \/ CreditOverflow(r)
             \/ LedgerConflict(r) \/ DeadlockVictim(r) \/ StatementFails(r)
    BY <2>2, KeyRollback DEF DebitRefused, InsertConflict, CreditOverflow,
                             LedgerConflict, DeadlockVictim, StatementFails
  <2>3. CASE InsertLedger(r)
    BY <2>3, KeyInsertLedger
  <2>4. CASE Commit(r) \/ CommitFails(r)
    BY <2>4, KeyCommit
  <2>5. QED
    BY <1>2, <2>1, <2>2, <2>3, <2>4 DEF Transaction
<1>3. CASE Crash
  <2>1. UNCHANGED <<req, committed>>
    BY <1>3 DEF Crash
  <2>2. \A r \in Requests : stage'[r] # "commit"
    BY <1>3 DEF Crash, InProgress
  <2>3. \A k \in Keys : keyLock'[k] = NoReq
    BY <1>3 DEF Crash
  <2>4. QED
    BY <2>1, <2>2, <2>3, KeyFrame
<1>4. CASE UNCHANGED vars
  <2>1. UNCHANGED <<req, stage, ledger, record, keyLock>>
    BY <1>4 DEF vars, committed, open
  <2>2. KeyAppliedOnce' /\ RecordMatchesLedger'
    BY <2>1, TablesFrame DEF KeyInv
  <2>3. \A k \in Keys : KeyTaken(k)' <=> KeyTaken(k)
    BY <2>1 DEF KeyTaken
  <2>4. QED
    BY <2>1, <2>2, <2>3 DEF KeyInv
<1>5. QED
  BY <1>1, <1>2, <1>3, <1>4 DEF Next, Handle, Transaction, Quiet

LEMMA KeyInvariant == Spec => []KeyInv
  BY TypeInvariant, KeyInit, KeyStep, PTL DEF Spec

(* A key, sent any number of times by any users at any time, moves money   *)
(* at most once.                                                           *)
THEOREM KeysAreAppliedOnce == Spec => []KeyAppliedOnce
<1>1. KeyInv => KeyAppliedOnce
  BY DEF KeyInv
<1>2. QED
  BY <1>1, KeyInvariant, PTL

(* The stored responses are those of the committed keyed transactions.     *)
THEOREM RecordsMatchLedger == Spec => []RecordMatchesLedger
<1>1. KeyInv => RecordMatchesLedger
  BY DEF KeyInv
<1>2. QED
  BY <1>1, KeyInvariant, PTL

(* A stored response is the last word on its key.                          *)
THEOREM StoredResponsesAreFinal == Spec => StoredResponseIsFinal
<1>1. ASSUME TypeInv, KeyInv, [Next]_vars, NEW u \in Users, NEW k \in Keys,
             record[u, k] # NoReq
      PROVE  record'[u, k] = record[u, k]
  <2>1. CASE \E r \in Requests : stage[r] = "commit" /\ Publish(r)
    <3>1. PICK r \in Requests : stage[r] = "commit" /\ Publish(r)
      BY <2>1
    <3>2. record'[u, k] = IF u = req[r].user /\ k = req[r].key THEN r ELSE record[u, k]
      BY <3>1 DEF Publish
    <3>3. record[u, k] \in Requests
      BY <1>1 DEF TypeInv, TypeOK
    <3>4. KeyTaken(k)
      <4>1. Applied(u, k, record[u, k])
        BY <1>1, <3>3 DEF KeyInv, RecordMatchesLedger
      <4>2. QED
        BY <4>1, KeyAssumption DEF Applied, KeyTaken
    <3>5. req[r].key # k
      BY <1>1, <3>1, <3>4 DEF KeyInv
    <3>6. QED
      BY <3>2, <3>5
  <2>2. CASE ~\E r \in Requests : stage[r] = "commit" /\ Publish(r)
    <3>1. record' = record
      BY <1>1, <2>2
      DEF Next, Handle, BeforeTransaction, Transaction, GetBalances, Arrive, Refuse,
          Replay, Proceed, Quote, QuoteFails, Debit, DebitRefused, ReadCredited,
          CompareCredited, Commit, CommitFails, UpdateCredited, InsertCredited, InsertConflict, CreditOverflow, InsertLedger,
          LedgerConflict, Reply, DeadlockVictim, StatementFails, ListBalances, NoBalances,
          FindDefault, CreateDefault, CreateConflict, Rollback, Crash, Quiet,
          vars, committed
    <3>2. QED
      BY <3>1
  <2>3. QED
    BY <2>1, <2>2
<1>2. TypeInv /\ KeyInv /\ [Next]_vars
        => [\A u \in Users, k \in Keys :
              record[u, k] # NoReq => record'[u, k] = record[u, k]]_record
  BY <1>1
<1>3. QED
  BY <1>2, TypeInvariant, KeyInvariant, PTL DEF Spec, StoredResponseIsFinal

-----------------------------------------------------------------------------
(* Row locks.  Only requests inside a transaction hold them, and a request *)
(* that has debited still holds the row, at the balance it found less the  *)
(* debit: nobody else has written the row since.                           *)
Locking == {"read", "insert", "compare", "update", "ledger", "commit"}

DebitHeld(r) ==
  LET a == DebitAccount(req[r])
  IN  lock[a] = r /\ draft[a] = balance[a] - AmountStr(req[r])

LockInv ==
  /\ \A a \in Accounts : lock[a] # NoReq => stage[lock[a]] \in Locking
  /\ \A r \in Requests : stage[r] \in Locking /\ Debits(req[r]) => DebitHeld(r)

LEMMA LocksTyped ==
  ASSUME TypeInv
  PROVE  \A a \in Accounts : lock[a] \in Requests \union {NoReq}
  BY DEF TypeInv, TypeOK

LEMMA DebitAccountTyped ==
  ASSUME TypeInv, NEW r \in Requests
  PROVE  DebitAccount(req[r]) \in Accounts
  BY AccountsTyped, RequestTyped DEF TypeInv

(* A step of r that leaves rows and locks alone. *)
LEMMA LockMove ==
  ASSUME TypeInv, LockInv, NEW r \in Requests, NEW s, Moves(r, s),
         UNCHANGED <<req, balance, lock, draft>>,
         stage[r] \in Locking => s \in Locking,
         s \in Locking /\ stage[r] \notin Locking => ~Debits(req[r])
  PROVE  LockInv'
<1>1. \A a \in Accounts : lock'[a] # NoReq => stage'[lock'[a]] \in Locking
  BY LocksTyped DEF LockInv, Moves
<1>2. ASSUME NEW q \in Requests, stage'[q] \in Locking, Debits(req[q])
      PROVE  DebitHeld(q)'
  <2>1. stage[q] \in Locking
    BY <1>2 DEF Moves
  <2>2. QED
    BY <1>2, <2>1 DEF LockInv, DebitHeld
<1>3. QED
  BY <1>1, <1>2 DEF LockInv

(* Releasing the locks of a request does not disturb the debits of others. *)
LEMMA LockRelease ==
  ASSUME TypeInv, LockInv, NEW r \in Requests, NEW s, Moves(r, s), s \notin Locking,
         ReleaseLocks(r), req' = req,
         \A a \in Accounts : lock[a] # r => balance'[a] = balance[a]
  PROVE  LockInv'
<1>1. \A a \in Accounts : lock'[a] # NoReq => stage'[lock'[a]] \in Locking
  BY LocksTyped DEF LockInv, Moves, ReleaseLocks
<1>2. ASSUME NEW q \in Requests, stage'[q] \in Locking, Debits(req[q])
      PROVE  DebitHeld(q)'
  <2>1. q # r /\ DebitHeld(q)
    BY <1>2 DEF Moves, LockInv
  <2>2. DebitAccount(req[q]) \in Accounts
    BY DebitAccountTyped
  <2>3. QED
    BY <2>1, <2>2 DEF ReleaseLocks, DebitHeld
<1>3. QED
  BY <1>1, <1>2 DEF LockInv

LEMMA LockRollback ==
  ASSUME TypeInv, LockInv, NEW r \in Requests, NEW status, Rollback(r, status)
  PROVE  LockInv'
<1>1. Moves(r, "done") /\ ReleaseLocks(r) /\ req' = req /\ balance' = balance
  BY GotoMoves DEF Rollback, Finish, committed
<1>2. QED
  BY <1>1, LockRelease DEF Locking

(* Taking the lock of a row that is free, or one's own. *)
LEMMA LockWrite ==
  ASSUME TypeInv, LockInv, NEW r \in Requests, NEW s \in Locking, Moves(r, s),
         NEW a \in Accounts, NEW n \in Int, WriteRow(r, a, n),
         UNCHANGED <<req, balance>>,
         Debits(req[r]) =>
           \/ a = DebitAccount(req[r]) /\ n = balance[a] - AmountStr(req[r])
           \/ a # DebitAccount(req[r]) /\ stage[r] \in Locking
  PROVE  LockInv'
<1>1. \A b \in Accounts :
        /\ lock'[b] = IF b = a THEN r ELSE lock[b]
        /\ draft'[b] = IF b = a THEN n ELSE draft[b]
  BY DEF WriteRow, TypeInv, TypeOK
<1>2. \A b \in Accounts : lock'[b] # NoReq => stage'[lock'[b]] \in Locking
  BY <1>1, LocksTyped DEF LockInv, Moves
<1>3. ASSUME NEW q \in Requests, stage'[q] \in Locking, Debits(req[q])
      PROVE  DebitHeld(q)'
  <2>1. DebitAccount(req[q]) \in Accounts
    BY DebitAccountTyped
  <2>2. CASE q = r
    BY <1>1, <1>3, <2>1, <2>2 DEF LockInv, DebitHeld
  <2>3. CASE q # r
    <3>1. DebitHeld(q)
      BY <1>3, <2>3 DEF Moves, LockInv
    <3>2. a # DebitAccount(req[q])
      BY <2>3, <3>1, NoReqAssumption DEF DebitHeld, WriteRow, Free
    <3>3. QED
      BY <1>1, <2>1, <3>1, <3>2 DEF DebitHeld
  <2>4. QED
    BY <2>2, <2>3
<1>4. QED
  BY <1>2, <1>3 DEF LockInv

LEMMA LockInit == Init => LockInv
  BY DEF Init, LockInv, Locking

LEMMA LockBefore ==
  ASSUME TypeInv, LockInv, NEW r \in Requests,
         Arrive(r) \/ BeforeTransaction(r) \/ Reply(r) \/ GetBalances(r)
  PROVE  LockInv'
<1>1. CASE \/ Refuse(r) \/ Replay(r) \/ QuoteFails(r) \/ Reply(r)
           \/ ListBalances(r) \/ CreateConflict(r)
  <2>1. /\ Moves(r, "done") /\ stage[r] \notin Locking
        /\ UNCHANGED <<req, balance, lock, draft>>
    BY <1>1, GotoMoves DEF Refuse, Replay, QuoteFails, Reply, ListBalances,
                           CreateConflict, Finish, committed, open, Locking
  <2>2. QED
    BY <2>1, LockMove DEF Locking
<1>2. CASE Arrive(r) \/ Quote(r) \/ NoBalances(r)
  <2>1. /\ Moves(r, stage'[r]) /\ stage'[r] \in {"balances", "lookup", "debit", "find"}
        /\ stage[r] \notin Locking /\ UNCHANGED <<req, balance, lock, draft>>
    BY <1>2, GotoMoves DEF Arrive, Quote, NoBalances, committed, open, Locking
  <2>2. QED
    BY <2>1, LockMove DEF Locking
<1>3. CASE Proceed(r)
  <2>1. /\ Moves(r, stage'[r]) /\ stage[r] \notin Locking
        /\ UNCHANGED <<req, balance, lock, draft>>
        /\ stage'[r] \in Locking => ~Debits(req[r])
    BY <1>3, GotoMoves DEF Proceed, committed, open, Locking
  <2>2. QED
    BY <2>1, LockMove
<1>4. CASE FindDefault(r)
  <2>1. /\ Moves(r, stage'[r]) /\ stage'[r] \in {"done", "create"}
        /\ stage[r] \notin Locking /\ UNCHANGED <<req, balance, lock, draft>>
    BY <1>4, GotoMoves DEF FindDefault, Finish, committed, open, Locking
  <2>2. QED
    BY <2>1, LockMove DEF Locking
<1>5. CASE CreateDefault(r)
  <2>1. /\ Moves(r, "done") /\ stage[r] \notin Locking
        /\ UNCHANGED <<req, lock, draft>>
    BY <1>5, GotoMoves DEF CreateDefault, Finish, open, Locking
  <2>2. \A a \in Accounts : lock[a] # NoReq => balance'[a] = balance[a]
    BY <1>5 DEF CreateDefault, TypeInv, TypeOK
  <2>3. \A a \in Accounts : lock'[a] # NoReq => stage'[lock'[a]] \in Locking
    BY <2>1, LocksTyped DEF LockInv, Moves
  <2>4. ASSUME NEW q \in Requests, stage'[q] \in Locking, Debits(req[q])
        PROVE  DebitHeld(q)'
    <3>1. DebitHeld(q) /\ DebitAccount(req[q]) \in Accounts
      BY <2>1, <2>4, DebitAccountTyped DEF Moves, LockInv, Locking
    <3>2. QED
      BY <2>1, <2>2, <3>1, NoReqAssumption DEF DebitHeld
  <2>5. QED
    BY <2>1, <2>3, <2>4 DEF LockInv
<1>6. QED
  BY <1>1, <1>2, <1>3, <1>4, <1>5 DEF BeforeTransaction, GetBalances

LEMMA LockTransaction ==
  ASSUME TypeInv, LockInv, NEW r \in Requests,
         Transaction(r) \/ StatementFails(r) \/ CommitFails(r), ~Reply(r)
  PROVE  LockInv'
<1>1. CASE Debit(r)
  <2> DEFINE a == DebitAccount(req[r])
             n == balance[a] - AmountStr(req[r])
  <2>1. a \in Accounts /\ AmountStr(req[r]) \in Int
    BY DebitAccountTyped, AmountStrInt, RequestTyped DEF TypeInv
  <2>2. n \in Int
    BY <2>1 DEF TypeInv, TypeOK
  <2>3. /\ WriteRow(r, a, n) /\ Moves(r, "read")
        /\ UNCHANGED <<req, balance>>
    BY <1>1, GotoMoves DEF Debit, committed
  <2>4. QED
    BY <2>1, <2>2, <2>3, LockWrite DEF Locking
<1>2. CASE ReadCredited(r) \/ CompareCredited(r)
  <2>1. /\ Moves(r, stage'[r]) /\ stage'[r] \in Locking /\ stage[r] \in Locking
        /\ UNCHANGED <<req, balance, lock, draft>>
    BY <1>2, GotoMoves DEF ReadCredited, CompareCredited, committed, open, Locking
  <2>2. QED
    BY <2>1, LockMove
<1>3. CASE UpdateCredited(r) \/ InsertCredited(r)
  <2>1. stage[r] \in Locking /\ WellFormed(req[r])
    BY <1>3 DEF UpdateCredited, InsertCredited, Locking, TypeInv, StageInv, Accepted
  <2>2. CreditAccount(req[r]) \in Accounts
    BY <2>1, AccountsTyped, RequestTyped DEF TypeInv
  <2>3. Debits(req[r]) => CreditAccount(req[r]) # DebitAccount(req[r])
    BY <2>1, AccountsDiffer, RequestTyped DEF TypeInv
  <2>4. PICK n \in Int : WriteRow(r, CreditAccount(req[r]), n)
    BY <1>3 DEF UpdateCredited, InsertCredited, TypeInv, TypeOK
  <2>5. Moves(r, "ledger") /\ UNCHANGED <<req, balance>>
    BY <1>3, GotoMoves DEF UpdateCredited, InsertCredited, committed
  <2>6. QED
    BY <2>1, <2>2, <2>3, <2>4, <2>5, LockWrite DEF Locking
<1>4. CASE \/ DebitRefused(r) \/ InsertConflict(r) \/ CreditOverflow(r)
           \/ LedgerConflict(r) \/ DeadlockVictim(r) \/ StatementFails(r)
  BY <1>4, LockRollback DEF DebitRefused, InsertConflict, CreditOverflow,
                            LedgerConflict, DeadlockVictim, StatementFails
<1>5. CASE InsertLedger(r)
  <2>1. /\ Moves(r, "commit") /\ stage[r] \in Locking
        /\ UNCHANGED <<req, balance, lock, draft>>
    BY <1>5, GotoMoves DEF InsertLedger, committed, Locking
  <2>2. QED
    BY <2>1, LockMove DEF Locking
<1>6. CASE (Commit(r) \/ CommitFails(r)) /\ Publish(r)
  <2>1. Moves(r, stage'[r]) /\ stage'[r] \in {"reply", "done"} /\ req' = req
    BY <1>6, GotoMoves DEF Commit, CommitFails, Finish
  <2>2. ReleaseLocks(r) /\ \A a \in Accounts : lock[a] # r => balance'[a] = balance[a]
    BY <1>6 DEF Publish
  <2>3. QED
    BY <2>1, <2>2, LockRelease DEF Locking
<1>7. CASE CommitFails(r) /\ Rollback(r, "unknown")
  BY <1>7, LockRollback
<1>8. QED
  BY <1>1, <1>2, <1>3, <1>4, <1>5, <1>6, <1>7, CommitFailsCases DEF Transaction, Commit

LEMMA LockStep ==
  ASSUME TypeInv, LockInv, [Next]_vars
  PROVE  LockInv'
<1>1. CASE Crash
  BY <1>1 DEF Crash, InProgress, LockInv, Locking
<1>2. CASE UNCHANGED vars
  BY <1>2 DEF vars, committed, open, LockInv, DebitHeld
<1>3. QED
  BY <1>1, <1>2, LockBefore, LockTransaction DEF Next, Handle, Transaction, Quiet

LEMMA LockInvariant == Spec => []LockInv
  BY TypeInvariant, LockInit, LockStep, PTL DEF Spec

(* Nothing but an open transaction holds a row or a key.                   *)
THEOREM LocksAreReleased == Spec => []LocksAreHeldInTransaction
<1>1. LockInv /\ KeyInv => LocksAreHeldInTransaction
  BY DEF LockInv, KeyInv, LocksAreHeldInTransaction, InTransaction, Locking
<1>2. QED
  BY <1>1, LockInvariant, KeyInvariant, PTL

(* A request moves on its own: only a crash moves several. *)
LEMMA EachStepMovesOne ==
  ASSUME TypeInv, NEW q \in Requests,
         Arrive(q) \/ Handle(q) \/ StatementFails(q) \/ CommitFails(q)
  PROVE  Moves(q, stage'[q])
<1>1. CASE \/ Refuse(q) \/ Replay(q) \/ QuoteFails(q) \/ Reply(q)
           \/ ListBalances(q) \/ CreateConflict(q) \/ CreateDefault(q)
  BY <1>1, GotoMoves DEF Refuse, Replay, QuoteFails, Reply, ListBalances,
                         CreateConflict, CreateDefault, Finish
<1>2. CASE Arrive(q) \/ Quote(q) \/ NoBalances(q) \/ Proceed(q) \/ FindDefault(q)
  BY <1>2, GotoMoves DEF Arrive, Quote, NoBalances, Proceed, FindDefault, Finish
<1>3. CASE \/ Debit(q) \/ ReadCredited(q) \/ CompareCredited(q)
           \/ UpdateCredited(q) \/ InsertCredited(q)
           \/ InsertLedger(q) \/ Commit(q) \/ CommitFails(q)
  BY <1>3, GotoMoves DEF Debit, ReadCredited, CompareCredited, UpdateCredited,
                         InsertCredited, InsertLedger, Commit, CommitFails, Finish
<1>4. CASE \/ DebitRefused(q) \/ InsertConflict(q) \/ CreditOverflow(q)
           \/ LedgerConflict(q) \/ DeadlockVictim(q) \/ StatementFails(q)
  BY <1>4, GotoMoves DEF DebitRefused, InsertConflict, CreditOverflow, LedgerConflict,
                         DeadlockVictim, StatementFails, Rollback, Finish
<1>5. QED
  BY <1>1, <1>2, <1>3, <1>4
  DEF Handle, BeforeTransaction, Transaction, GetBalances

(* A step that adds to the ledger is the commit of one request. *)
LEMMA OnlyCommitsAddRows ==
  ASSUME [Next]_vars, ledger' # ledger
  PROVE  \E q \in Requests :
           /\ stage[q] = "commit" /\ Publish(q) /\ req' = req
           /\ Commit(q) \/ CommitFails(q)
<1>1. ~Crash /\ ~UNCHANGED vars
  BY DEF Crash, committed, vars
<1>2. PICK q \in Requests : Arrive(q) \/ Handle(q) \/ StatementFails(q) \/ CommitFails(q)
  BY <1>1 DEF Next, Quiet
<1>3. Commit(q) \/ CommitFails(q)
  BY <1>2
  DEF Handle, BeforeTransaction, Transaction, GetBalances, Arrive, Refuse, Replay,
      Proceed, Quote, QuoteFails, Debit, DebitRefused, ReadCredited, CompareCredited,
      UpdateCredited, InsertCredited, InsertConflict, CreditOverflow, InsertLedger,
      LedgerConflict, Reply, DeadlockVictim, StatementFails, ListBalances, NoBalances,
      FindDefault, CreateDefault, CreateConflict, Rollback, committed
<1>4. stage[q] = "commit" /\ Publish(q) /\ req' = req
  BY <1>3 DEF Commit, CommitFails, Finish, committed
<1>5. QED
  BY <1>3, <1>4

(* The step in which a request takes effect commits its own transaction. *)
LEMMA EffectIsCommit ==
  ASSUME [Next]_vars, NEW r \in Requests, TakesEffect(r)
  PROVE  /\ stage[r] = "commit" /\ Publish(r) /\ req' = req
         /\ Commit(r) \/ CommitFails(r)
<1>1. PICK q \in Requests : /\ stage[q] = "commit" /\ Publish(q) /\ req' = req
                            /\ Commit(q) \/ CommitFails(q)
  BY OnlyCommitsAddRows DEF TakesEffect
<1>2. \A x \in LedgerRows(q) : x.tx = q
  BY DEF LedgerRows, Entry
<1>3. q = r
  BY <1>1, <1>2 DEF TakesEffect, Publish
<1>4. QED
  BY <1>1, <1>3

(* A committed debit is never computed from a balance that has changed.    *)
THEOREM DebitsAreExact == Spec => DebitIsExact
<1> DEFINE Exact ==
      \A r \in Requests :
        Debits(req[r]) /\ TakesEffect(r) =>
          balance'[DebitAccount(req[r])]
            = balance[DebitAccount(req[r])] - AmountStr(req[r])
<1>1. ASSUME TypeInv, LockInv, [Next]_vars
      PROVE  Exact
  <2>1. SUFFICES ASSUME NEW r \in Requests, Debits(req[r]), TakesEffect(r)
                 PROVE  balance'[DebitAccount(req[r])]
                          = balance[DebitAccount(req[r])] - AmountStr(req[r])
    OBVIOUS
  <2>2. stage[r] = "commit" /\ Publish(r) /\ DebitAccount(req[r]) \in Accounts
    BY <1>1, <2>1, EffectIsCommit, DebitAccountTyped
  <2>3. DebitHeld(r)
    BY <1>1, <2>1, <2>2 DEF LockInv, Locking
  <2>4. QED
    BY <2>2, <2>3 DEF Publish, DebitHeld
<1>2. TypeInv /\ LockInv /\ [Next]_vars => [Exact]_vars
  BY <1>1
<1>3. QED
  BY <1>2, TypeInvariant, LockInvariant, PTL DEF Spec, DebitIsExact

-----------------------------------------------------------------------------
(* Answers.  The rows of the ledger are those of requests that have passed *)
(* their commit, among them those whose COMMIT has answered an error; an    *)
(* answer that names a transaction names a committed one.                  *)
Effective == {"applied", "lost", "unknown"}

AnswerInv ==
  /\ \A x \in ledger :
       \/ stage[x.tx] = "reply"
       \/ stage[x.tx] = "done" /\ answer[x.tx].status \in Effective
  /\ \A r \in Requests : stage[r] # "done" => answer[r].status = "none"
  /\ \A r \in Requests :
       stage[r] = "reply" => \E x \in ledger : x.tx = r
  /\ \A r \in Requests :
       answer[r].tx # NoReq => \E x \in ledger : x.tx = answer[r].tx
  /\ ReplayIsOwn

(* Nothing leaves the ledger. *)
LEMMA LedgerGrows ==
  ASSUME [Next]_vars
  PROVE  ledger \subseteq ledger'
  BY DEF Next, Handle, BeforeTransaction, Transaction, GetBalances, Arrive, Refuse,
         Replay, Proceed, Quote, QuoteFails, Debit, DebitRefused, ReadCredited,
         CompareCredited, UpdateCredited, InsertCredited, InsertConflict, CreditOverflow,
         InsertLedger, LedgerConflict, Publish, Commit, CommitFails, Reply, DeadlockVictim, StatementFails, ListBalances,
         NoBalances, FindDefault, CreateDefault, CreateConflict, Rollback, Crash, Quiet,
         vars, committed

LEMMA AnswerFinish ==
  ASSUME TypeInv, AnswerInv, NEW r \in Requests, NEW status, NEW tx,
         Finish(r, status, tx), ledger' = ledger,
         stage[r] # "done",
         stage[r] = "reply" => status \in Effective,
         tx # NoReq => \E x \in ledger : x.tx = tx,
         status = "replayed" => Applied(req[r].user, req[r].key, tx)
  PROVE  AnswerInv'
<1>1. /\ Moves(r, "done")
      /\ answer' = [answer EXCEPT ![r] = [status |-> status, tx |-> tx]]
      /\ req' = req
  BY GotoMoves DEF Finish
<1>2. \A q \in Requests :
        /\ answer'[q].status = IF q = r THEN status ELSE answer[q].status
        /\ answer'[q].tx = IF q = r THEN tx ELSE answer[q].tx
  BY <1>1 DEF TypeInv, TypeOK
<1>3. \A x \in ledger : x.tx \in Requests
  BY DEF TypeInv, TypeOK, Row
<1>4. ASSUME NEW x \in ledger
      PROVE  \/ stage'[x.tx] = "reply"
             \/ stage'[x.tx] = "done" /\ answer'[x.tx].status \in Effective
  BY <1>1, <1>2, <1>3 DEF AnswerInv, Moves
<1>5. ASSUME NEW q \in Requests
      PROVE  /\ stage'[q] # "done" => answer'[q].status = "none"
             /\ stage'[q] = "reply" => \E x \in ledger : x.tx = q
             /\ answer'[q].tx # NoReq => \E x \in ledger : x.tx = answer'[q].tx
  BY <1>1, <1>2 DEF AnswerInv, Moves
<1>6. ASSUME NEW q \in Requests, answer'[q].status = "replayed"
      PROVE  Applied(req[q].user, req[q].key, answer'[q].tx)
  BY <1>2, <1>6 DEF AnswerInv, ReplayIsOwn
<1>7. ReplayIsOwn'
  BY <1>1, <1>6 DEF ReplayIsOwn, Applied
<1>8. QED
  BY <1>1, <1>4, <1>5, <1>7 DEF AnswerInv

LEMMA AnswerRollback ==
  ASSUME TypeInv, AnswerInv, NEW r \in Requests, NEW status, Rollback(r, status),
         stage[r] \notin {"done", "reply"}, status # "replayed"
  PROVE  AnswerInv'
<1>1. Finish(r, status, NoReq) /\ ledger' = ledger
  BY DEF Rollback, committed
<1>2. QED
  BY <1>1, AnswerFinish

(* A request that goes on without an answer. *)
LEMMA AnswerMove ==
  ASSUME TypeInv, AnswerInv, NEW r \in Requests, NEW s, Moves(r, s),
         stage[r] \notin {"done", "reply"}, s \notin {"done", "reply"},
         UNCHANGED <<req, answer, ledger>>
  PROVE  AnswerInv'
<1>1. \A x \in ledger : x.tx \in Requests
  BY DEF TypeInv, TypeOK, Row
<1>2. \A x \in ledger : stage'[x.tx] = stage[x.tx]
  BY <1>1 DEF AnswerInv, Moves
<1>3. \A q \in Requests : stage'[q] = "reply" <=> stage[q] = "reply"
  BY DEF Moves
<1>4. \A q \in Requests : stage'[q] # "done" => stage[q] # "done"
  BY DEF Moves
<1>5. ReplayIsOwn'
  BY DEF AnswerInv, ReplayIsOwn, Applied
<1>6. QED
  BY <1>2, <1>3, <1>4, <1>5 DEF AnswerInv

LEMMA AnswerCommit ==
  ASSUME TypeInv, AnswerInv, NEW r \in Requests,
         Commit(r) \/ CommitFails(r), Publish(r)
  PROVE  AnswerInv'
<1>1. PICK s \in {"reply", "done"} :
        /\ Moves(r, s)
        /\ \A q \in Requests :
             /\ q # r \/ s = "reply" => answer'[q] = answer[q]
             /\ q = r /\ s = "done" => /\ answer'[q].status = "unknown"
                                      /\ answer'[q].tx = NoReq
  <2>1. CASE Commit(r)
    <3>1. Moves(r, "reply") /\ answer' = answer
      BY <2>1, GotoMoves DEF Commit
    <3>2. QED
      BY <3>1
  <2>2. CASE CommitFails(r)
    <3>1. /\ Moves(r, "done")
          /\ answer' = [answer EXCEPT ![r] = [status |-> "unknown", tx |-> NoReq]]
      BY <2>2, GotoMoves DEF CommitFails, Finish
    <3>2. QED
      BY <3>1 DEF TypeInv, TypeOK
  <2>3. QED
    BY <2>1, <2>2
<1>2. /\ stage[r] = "commit" /\ req' = req
      /\ ledger' = ledger \union LedgerRows(r)
  BY DEF Commit, CommitFails, Publish, Finish
<1>3. \A x \in ledger : x.tx \in Requests
  BY DEF TypeInv, TypeOK, Row
<1>4. \A x \in LedgerRows(r) : x.tx = r
  BY DEF LedgerRows, Entry
<1>5. \E x \in LedgerRows(r) : x.tx = r
  BY DEF LedgerRows, Entry
<1>6. \A x \in ledger' :
        \/ stage'[x.tx] = "reply"
        \/ stage'[x.tx] = "done" /\ answer'[x.tx].status \in Effective
  <2>1. CASE s = "reply"
    BY <1>1, <1>2, <1>3, <1>4, <2>1 DEF AnswerInv, Moves
  <2>2. CASE s = "done"
    BY <1>1, <1>2, <1>3, <1>4, <2>2 DEF AnswerInv, Moves, Effective
  <2>3. QED
    BY <2>1, <2>2
<1>7. \A q \in Requests : stage'[q] = "reply" => \E x \in ledger' : x.tx = q
  BY <1>1, <1>2, <1>5 DEF AnswerInv, Moves
<1>8. \A q \in Requests : stage'[q] # "done" => answer'[q].status = "none"
  BY <1>1, <1>2 DEF AnswerInv, Moves
<1>9. \A q \in Requests :
        /\ answer'[q].tx # NoReq => answer'[q] = answer[q]
        /\ answer'[q].status = "replayed" => answer'[q] = answer[q]
  BY <1>1
<1>10. \A q \in Requests :
        answer'[q].tx # NoReq => \E x \in ledger' : x.tx = answer'[q].tx
  BY <1>2, <1>9 DEF AnswerInv
<1>11. ReplayIsOwn'
  <2>1. ASSUME NEW u, NEW k, NEW t, Applied(u, k, t)
        PROVE  Applied(u, k, t)'
    BY <1>2, <2>1 DEF Applied
  <2>2. QED
    BY <1>2, <1>9, <2>1 DEF AnswerInv, ReplayIsOwn
<1>12. QED
  BY <1>6, <1>7, <1>8, <1>10, <1>11 DEF AnswerInv

LEMMA AnswerCrash ==
  ASSUME TypeInv, AnswerInv, Crash
  PROVE  AnswerInv'
<1>1. \A r \in Requests :
        /\ stage'[r] = IF stage[r] \in {"idle", "done"} THEN stage[r] ELSE "done"
        /\ answer'[r] = IF stage[r] \in {"idle", "done"} THEN answer[r]
                        ELSE [status |-> "lost", tx |-> NoReq]
  BY DEF Crash, InProgress
<1>2. req' = req /\ ledger' = ledger
  BY DEF Crash, committed
<1>3. \A x \in ledger : x.tx \in Requests
  BY DEF TypeInv, TypeOK, Row
<1>4. ReplayIsOwn'
  BY <1>1, <1>2 DEF AnswerInv, ReplayIsOwn, Applied
<1>5. QED
  BY <1>1, <1>2, <1>3, <1>4 DEF AnswerInv, Effective

LEMMA AnswerInit == Init => AnswerInv
  BY DEF Init, AnswerInv, ReplayIsOwn

LEMMA AnswerStep ==
  ASSUME TypeInv, KeyInv, AnswerInv, [Next]_vars
  PROVE  AnswerInv'
<1>1. ASSUME NEW r \in Requests,
             \/ Refuse(r) \/ QuoteFails(r) \/ ListBalances(r) \/ CreateConflict(r)
             \/ CreateDefault(r)
      PROVE  AnswerInv'
  <2>1. PICK status \in {"refused", "listed", "conflict"} : Finish(r, status, NoReq)
    BY <1>1 DEF Refuse, QuoteFails, ListBalances, CreateConflict, CreateDefault
  <2>2. stage[r] \notin {"done", "reply"} /\ ledger' = ledger
    BY <1>1 DEF Refuse, QuoteFails, ListBalances, CreateConflict, CreateDefault, committed
  <2>3. QED
    BY <2>1, <2>2, AnswerFinish
<1>2. ASSUME NEW r \in Requests, Replay(r)
      PROVE  AnswerInv'
  <2> DEFINE tx == record[req[r].user, req[r].key]
  <2>1. Finish(r, "replayed", tx) /\ stage[r] = "lookup" /\ ledger' = ledger
    BY <1>2 DEF Replay, committed
  <2>2. req[r].user \in Users /\ req[r].key \in Keys /\ tx # NoReq
    BY <1>2, RequestTyped DEF Replay, Stored, TypeInv
  <2>3. tx \in Requests
    BY <2>2 DEF TypeInv, TypeOK
  <2>4. Applied(req[r].user, req[r].key, tx)
    <3>1. \A u \in Users, k \in Keys :
            record[u, k] \in Requests => Applied(u, k, record[u, k])
      BY DEF KeyInv, RecordMatchesLedger
    <3>2. QED
      BY <2>2, <2>3, <3>1
  <2> HIDE DEF tx
  <2>5. \E x \in ledger : x.tx = tx
    BY <2>4 DEF Applied
  <2>6. QED
    BY <2>1, <2>4, <2>5, AnswerFinish
<1>3. ASSUME NEW r \in Requests, Reply(r)
      PROVE  AnswerInv'
  <2>1. Finish(r, "applied", r) /\ stage[r] = "reply" /\ ledger' = ledger
    BY <1>3 DEF Reply, committed
  <2>2. \E x \in ledger : x.tx = r
    BY <2>1 DEF AnswerInv
  <2>3. QED
    BY <2>1, <2>2, AnswerFinish DEF Effective
<1>4. ASSUME NEW r \in Requests,
             \/ Arrive(r) \/ Proceed(r) \/ Quote(r) \/ NoBalances(r)
             \/ Debit(r) \/ ReadCredited(r) \/ CompareCredited(r)
             \/ UpdateCredited(r) \/ InsertCredited(r) \/ InsertLedger(r)
      PROVE  AnswerInv'
  <2>1. /\ Moves(r, stage'[r]) /\ stage'[r] \notin {"done", "reply"}
        /\ stage[r] \notin {"done", "reply"} /\ UNCHANGED <<req, answer, ledger>>
    BY <1>4, GotoMoves DEF Arrive, Proceed, Quote, NoBalances, Debit, ReadCredited,
                           CompareCredited, UpdateCredited, InsertCredited,
                           InsertLedger, committed
  <2>2. QED
    BY <2>1, AnswerMove
<1>5. ASSUME NEW r \in Requests, FindDefault(r)
      PROVE  AnswerInv'
  <2>1. stage[r] = "find" /\ ledger' = ledger
    BY <1>5 DEF FindDefault, committed
  <2>2. CASE Finish(r, "listed", NoReq)
    BY <2>1, <2>2, AnswerFinish
  <2>3. CASE Goto(r, "create") /\ UNCHANGED <<req, answer, crashes, local>>
    BY <2>1, <2>3, GotoMoves, AnswerMove
  <2>4. QED
    BY <1>5, <2>2, <2>3 DEF FindDefault
<1>6. ASSUME NEW r \in Requests,
             \/ DebitRefused(r) \/ InsertConflict(r) \/ CreditOverflow(r)
             \/ LedgerConflict(r) \/ StatementFails(r)
             \/ CommitFails(r) /\ Rollback(r, "unknown")
      PROVE  AnswerInv'
  <2>1. PICK status \in {"refused", "conflict", "aborted", "unknown"} : Rollback(r, status)
    BY <1>6 DEF DebitRefused, InsertConflict, CreditOverflow, LedgerConflict,
                StatementFails
  <2>2. stage[r] \notin {"done", "reply"}
    BY <1>6 DEF DebitRefused, InsertConflict, CreditOverflow, LedgerConflict,
                StatementFails, CommitFails, InTransaction
  <2>3. QED
    BY <2>1, <2>2, AnswerRollback
<1>7. ASSUME NEW r \in Requests, DeadlockVictim(r)
      PROVE  AnswerInv'
  <2>1. WaitsFor(r) # {} /\ Rollback(r, "aborted")
    BY <1>7 DEF DeadlockVictim
  <2>2. stage[r] \notin {"done", "reply"}
    BY <2>1 DEF WaitsFor
  <2>3. QED
    BY <2>1, <2>2, AnswerRollback
<1>8. CASE UNCHANGED vars
  BY <1>8 DEF vars, committed, AnswerInv, ReplayIsOwn, Applied
<1>9. ASSUME NEW r \in Requests, Commit(r) \/ CommitFails(r)
      PROVE  AnswerInv'
  BY <1>6, <1>9, AnswerCommit, CommitFailsCases DEF Commit
<1>10. QED
  BY <1>1, <1>2, <1>3, <1>4, <1>5, <1>6, <1>7, <1>8, <1>9, AnswerCrash
  DEF Next, Handle, BeforeTransaction, Transaction, GetBalances, Quiet

LEMMA AnswerInvariant == Spec => []AnswerInv
  BY TypeInvariant, KeyInvariant, AnswerInit, AnswerStep, PTL DEF Spec

(* What a client is told agrees with what was committed.                   *)
THEOREM AnswersMatchLedger == Spec => []AnswerMatchesLedger
<1>1. AnswerInv => AnswerMatchesLedger
  BY DEF AnswerInv, AnswerMatchesLedger, Effective
<1>2. QED
  BY <1>1, AnswerInvariant, PTL

(* A replayed answer is the one stored for the user and key that asked.    *)
THEOREM ReplaysAreOwn == Spec => []ReplayIsOwn
<1>1. AnswerInv => ReplayIsOwn
  BY DEF AnswerInv
<1>2. QED
  BY <1>1, AnswerInvariant, PTL
=============================================================================
