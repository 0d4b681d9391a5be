------------------------------- MODULE Wallet -------------------------------
(***************************************************************************)
(* WalletService and WalletRepository on PostgreSQL at its default         *)
(* isolation level, READ COMMITTED.                                        *)
(*                                                                         *)
(* A request is a process that advances from one awaited statement to the  *)
(* next; between two statements any other request may run.  A transaction  *)
(* sees committed rows and its own writes, holds the lock of every row it  *)
(* selected FOR UPDATE, updated or inserted until it ends, and waits for   *)
(* the locks of the others.  SELECT ... FOR UPDATE is used by debits only: *)
(* a credit reads without a lock and later saves an absolute value.        *)
(***************************************************************************)
EXTENDS WalletRequests, FiniteSets, FiniteSetsExt

CONSTANTS
  Requests,     \* request ids; also the ids of the transactions they record
  NoReq,        \* no request
  Opening,      \* balance rows at the start: account -> amount
  MaxBalance,   \* the largest value a decimal(18,4) column holds
  Concurrency,  \* bound: requests in progress at the same time
  MaxCrashes    \* bound: crashes of the server process

ASSUME NoReqAssumption   == NoReq \notin Requests
ASSUME MaxAssumption     == MaxBalance \in Nat
ASSUME OpeningAssumption ==
         /\ DOMAIN Opening \subseteq Accounts
         /\ \A a \in DOMAIN Opening : Opening[a] \in 0..MaxBalance
ASSUME BoundAssumption   == Concurrency \in Nat /\ MaxCrashes \in Nat

VARIABLES
  req,      \* body of each request
  stage,    \* the statement each request issues next
  credit,   \* amount a request credits, once it is known
  seen,     \* balance a request read before it credits the account
  answer,   \* how each request ended, and the transaction its reply names
  rows,     \* wallet_balances: accounts that have a committed row
  balance,  \* wallet_balances: committed amount of each account
  ledger,   \* transactions: committed rows
  record,   \* idempotency_records: transaction named by the stored response
  lock,     \* open transaction that holds the row or index entry
  draft,    \* amount that transaction wrote to the row
  keyLock,  \* open transaction that inserted a ledger row with the key
  crashes   \* crashes so far

local     == <<credit, seen>>
committed == <<rows, balance, ledger, record>>
open      == <<lock, draft, keyLock>>
vars      == <<req, stage, answer, crashes, local, committed, open>>

Stages == {"idle", "lookup", "quote", "debit", "read", "insert", "compare",
           "update", "ledger", "commit", "reply", "balances", "find", "create", "done"}

InTransaction(r) ==
  stage[r] \in {"debit", "read", "insert", "compare", "update", "ledger", "commit"}

InProgress == {r \in Requests : stage[r] \notin {"idle", "done"}}

Statuses == {"none", "applied", "replayed", "refused", "conflict", "aborted",
             "unknown", "listed", "lost"}
Types    == {"fund", "conversion", "trade", "transfer", "transfer_out",
             "transfer_in"}
Row      == [tx : Requests, user : Users, type : Types,
             from : Currencies, to : Currencies,
             amount : Int, credit : Int, key : Keys \union {NoKey}]

TypeOK ==
  /\ req \in [Requests -> Offered]
  /\ stage \in [Requests -> Stages]
  /\ credit \in [Requests -> Int]
  /\ seen \in [Requests -> Int]
  /\ answer \in [Requests -> [status : Statuses, tx : Requests \union {NoReq}]]
  /\ rows \subseteq Accounts
  /\ balance \in [Accounts -> Int]
  /\ ledger \subseteq Row
  /\ record \in [Users \X Keys -> Requests \union {NoReq}]
  /\ lock \in [Accounts -> Requests \union {NoReq}]
  /\ draft \in [Accounts -> Int]
  /\ keyLock \in [Keys -> Requests \union {NoReq}]
  /\ crashes \in 0..MaxCrashes

Init ==
  /\ req \in [Requests -> Offered]
  /\ stage = [r \in Requests |-> "idle"]
  /\ credit = [r \in Requests |-> 0]
  /\ seen = [r \in Requests |-> 0]
  /\ answer = [r \in Requests |-> [status |-> "none", tx |-> NoReq]]
  /\ rows = DOMAIN Opening
  /\ balance = [a \in Accounts |-> IF a \in DOMAIN Opening THEN Opening[a] ELSE 0]
  /\ ledger = {}
  /\ record = [uk \in Users \X Keys |-> NoReq]
  /\ lock = [a \in Accounts |-> NoReq]
  /\ draft = [a \in Accounts |-> 0]
  /\ keyLock = [k \in Keys |-> NoReq]
  /\ crashes = 0

-----------------------------------------------------------------------------
(* Steps shared by the handlers. *)

Goto(r, s) == stage' = [stage EXCEPT ![r] = s]

(* The handler ends; what it had read is gone. *)
Finish(r, status, tx) ==
  /\ Goto(r, "done")
  /\ answer' = [answer EXCEPT ![r] = [status |-> status, tx |-> tx]]
  /\ credit' = [credit EXCEPT ![r] = 0]
  /\ seen' = [seen EXCEPT ![r] = 0]
  /\ UNCHANGED <<req, crashes>>

(* COMMIT and ROLLBACK release every lock of the transaction. *)
ReleaseLocks(r) ==
  /\ lock' = [a \in Accounts |-> IF lock[a] = r THEN NoReq ELSE lock[a]]
  /\ draft' = [a \in Accounts |-> IF lock[a] = r THEN 0 ELSE draft[a]]
  /\ keyLock' = [k \in Keys |-> IF keyLock[k] = r THEN NoReq ELSE keyLock[k]]

(* Fault: the error path forgets to roll back the transaction. *)
RollbackForgotten(r, status) == Finish(r, status, NoReq) /\ UNCHANGED <<committed, open>>

(* An error inside dataSource.transaction: roll back and rethrow. *)
Rollback(r, status) ==
  /\ Finish(r, status, NoReq)
  /\ ReleaseLocks(r)
  /\ UNCHANGED committed

(* Fault: no pessimistic_write lock. *)
FreeForAll(owner, r) == TRUE

Free(owner, r) == owner \in {NoReq, r}

(* Write the amount to the row inside the open transaction. *)
WriteRow(r, a, amount) ==
  /\ Free(lock[a], r)
  /\ lock' = [lock EXCEPT ![a] = r]
  /\ draft' = [draft EXCEPT ![a] = amount]
  /\ UNCHANGED keyLock

-----------------------------------------------------------------------------
(* Before the transaction. *)

(* Fault: the lookup is skipped. *)
StoredNever(q) == FALSE

(* findIdempotency: a response is stored for the user and the key. *)
Stored(q) == q.key # NoKey /\ record[q.user, q.key] # NoReq

Arrive(r) ==
  /\ stage[r] = "idle"
  /\ Cardinality(InProgress) < Concurrency
  /\ Goto(r, IF req[r].kind = "balances" THEN "balances" ELSE "lookup")
  /\ UNCHANGED <<req, answer, crashes, local, committed, open>>

(* The checks of the body: 400, or 404 for an unknown recipient. *)
Refuse(r) ==
  /\ stage[r] = "lookup"
  /\ ~WellFormed(req[r])
  /\ CheckedFirst(req[r]) \/ ~Stored(req[r])
  /\ Finish(r, "refused", NoReq)
  /\ UNCHANGED <<committed, open>>

(* findIdempotency finds the key: return the stored response. *)
Replay(r) ==
  /\ stage[r] = "lookup"
  /\ CheckedFirst(req[r]) => WellFormed(req[r])
  /\ Stored(req[r])
  /\ Finish(r, "replayed", record[req[r].user, req[r].key])
  /\ UNCHANGED <<committed, open>>

(* No stored response: go on without holding anything against duplicates. *)
Proceed(r) ==
  /\ stage[r] = "lookup"
  /\ WellFormed(req[r])
  /\ ~Stored(req[r])
  /\ Goto(r, IF NeedsQuote(req[r]) THEN "quote"
             ELSE IF Debits(req[r]) THEN "debit" ELSE "read")
  /\ credit' = [credit EXCEPT ![r] = IF NeedsQuote(req[r]) THEN 0
                                     ELSE AmountStr(req[r])]
  /\ UNCHANGED <<req, answer, crashes, seen, committed, open>>

Quote(r) ==
  /\ stage[r] = "quote"
  /\ \E rate \in Rates[req[r].from, req[r].to] :
       credit' = [credit EXCEPT ![r] = TargetAmount(req[r], rate)]
  /\ Goto(r, "debit")
  /\ UNCHANGED <<req, answer, crashes, seen, committed, open>>

(* getRate throws: no rate for the pair, or no rates at all (503). *)
QuoteFails(r) ==
  /\ stage[r] = "quote"
  /\ Finish(r, "refused", NoReq)
  /\ UNCHANGED <<committed, open>>

-----------------------------------------------------------------------------
(* Inside dataSource.transaction. *)

(* Fault: the balance is not compared with the debit. *)
CoversUnchecked(a, d) == a \in rows

Covers(a, d) == a \in rows /\ balance[a] >= d

(* debitBalance: SELECT ... FOR UPDATE, the check and the save.  The lock  *)
(* is held from the first statement on, so the three are one step.         *)
Debit(r) ==
  LET a == DebitAccount(req[r])
      d == AmountStr(req[r])
  IN  /\ stage[r] = "debit"
      /\ Covers(a, d)
      /\ WriteRow(r, a, balance[a] - d)
      /\ Goto(r, "read")
      /\ UNCHANGED <<req, answer, crashes, local, committed>>

(* No row, or not enough on it: 'Insufficient balance'. *)
DebitRefused(r) ==
  LET a == DebitAccount(req[r])
  IN  /\ stage[r] = "debit"
      /\ ~Covers(a, AmountStr(req[r]))
      /\ a \in rows => Free(lock[a], r)
      /\ Rollback(r, "refused")

(* createOrGetBalance, first statement: findOne takes no lock. *)
ReadCredited(r) ==
  LET a == CreditAccount(req[r])
  IN  /\ stage[r] = "read"
      /\ Goto(r, IF a \in rows THEN "compare" ELSE "insert")
      /\ seen' = [seen EXCEPT ![r] = balance[a]]
      /\ UNCHANGED <<req, answer, crashes, credit, committed, open>>

(* Its save selects the row again, and has nothing to update when the row  *)
(* already holds what was read plus the credit.                            *)
CompareCredited(r) ==
  /\ stage[r] = "compare"
  /\ Goto(r, IF balance[CreditAccount(req[r])] = seen[r] + credit[r]
             THEN "ledger" ELSE "update")
  /\ UNCHANGED <<req, answer, crashes, local, committed, open>>

(* The UPDATE of save, which sets what was read plus the credit. *)
UpdateCredited(r) ==
  LET a == CreditAccount(req[r])
  IN  /\ stage[r] = "update"
      /\ seen[r] + credit[r] <= MaxBalance
      /\ WriteRow(r, a, seen[r] + credit[r])
      /\ Goto(r, "ledger")
      /\ UNCHANGED <<req, answer, crashes, local, committed>>

(* createOrGetBalance inserts the first row of the account. *)
InsertCredited(r) ==
  LET a == CreditAccount(req[r])
  IN  /\ stage[r] = "insert"
      /\ a \notin rows
      /\ credit[r] <= MaxBalance
      /\ WriteRow(r, a, credit[r])
      /\ Goto(r, "ledger")
      /\ UNCHANGED <<req, answer, crashes, local, committed>>

(* The unique constraint on (userId, currencyCode): another request has    *)
(* inserted the row since the read.                                        *)
InsertConflict(r) ==
  /\ stage[r] = "insert"
  /\ CreditAccount(req[r]) \in rows
  /\ Rollback(r, "conflict")

(* The sum does not fit decimal(18,4). *)
CreditOverflow(r) ==
  /\ stage[r] \in {"insert", "update"}
  /\ (IF stage[r] = "insert" THEN 0 ELSE seen[r]) + credit[r] > MaxBalance
  /\ Rollback(r, "aborted")

(* Fault: idempotency_key is not unique. *)
KeyNeverTaken(k) == FALSE

(* The unique index on idempotency_key spans the keys of all users. *)
KeyTaken(k) == k # NoKey /\ \E row \in ledger : row.key = k

(* Fault: the reply does not await the commit. *)
InsertLedgerUnawaited(r) ==
  /\ stage[r] = "ledger"
  /\ ~KeyTaken(req[r].key)
  /\ Goto(r, "reply")
  /\ UNCHANGED <<req, answer, crashes, local, committed, open>>

(* createTransaction: the ledger row takes its entry in the unique index.  *)
InsertLedger(r) ==
  LET k == req[r].key
  IN  /\ stage[r] = "ledger"
      /\ ~KeyTaken(k)
      /\ k # NoKey => Free(keyLock[k], r)
      /\ keyLock' = [j \in Keys |-> IF j = k THEN r ELSE keyLock[j]]
      /\ Goto(r, "commit")
      /\ UNCHANGED <<req, answer, crashes, local, committed, lock, draft>>

LedgerConflict(r) ==
  /\ stage[r] = "ledger"
  /\ KeyTaken(req[r].key)
  /\ Rollback(r, "conflict")

(* A ledger row of request r: who, in which role, and the key it carries. *)
Entry(r, u, type, to, k) ==
  [tx |-> r, user |-> u, type |-> type, from |-> req[r].from, to |-> to,
   amount |-> AmountStr(req[r]), credit |-> credit[r], key |-> k]

(* Fault: a P2P transfer is saved under the kind of the request. *)
LedgerRowsMistyped(r) ==
  LET q == req[r] IN {Entry(r, q.user, q.kind, q.to, q.key)}

(* Fault: both halves of a P2P transfer carry the key. *)
LedgerRowsShareKey(r) ==
  LET q == req[r]
  IN  IF q.kind = "p2p"
      THEN {Entry(r, q.user, "transfer_out", q.from, q.key),
            Entry(r, q.peer, "transfer_in", q.from, q.key)}
      ELSE {Entry(r, q.user, q.kind, q.to, q.key)}

(* The rows createTransaction saved: two for a P2P transfer, of which the  *)
(* sender's carries the key.                                               *)
LedgerRows(r) ==
  LET q == req[r]
  IN  IF q.kind = "p2p"
      THEN {Entry(r, q.user, "transfer_out", q.from, q.key),
            Entry(r, q.peer, "transfer_in", q.from, NoKey)}
      ELSE {Entry(r, q.user, q.kind, q.to, q.key)}

(* What the transaction wrote, saveIdempotency included, is committed. *)
Publish(r) ==
  LET q == req[r]
  IN  /\ rows' = rows \union {a \in Accounts : lock[a] = r}
      /\ balance' = [a \in Accounts |-> IF lock[a] = r THEN draft[a] ELSE balance[a]]
      /\ ledger' = ledger \union LedgerRows(r)
      /\ record' = [uk \in Users \X Keys |-> IF uk = <<q.user, q.key>> THEN r
                                                                      ELSE record[uk]]
      /\ ReleaseLocks(r)

Commit(r) ==
  /\ stage[r] = "commit"
  /\ Publish(r)
  /\ Goto(r, "reply")
  /\ UNCHANGED <<req, answer, crashes, local>>

(* The connection is lost during COMMIT: dataSource.transaction throws,    *)
(* whether or not PostgreSQL has committed.                                *)
CommitFails(r) ==
  /\ stage[r] = "commit"
  /\ Finish(r, "unknown", NoReq)
  /\ \/ Publish(r)
     \/ ReleaseLocks(r) /\ UNCHANGED committed

Reply(r) ==
  /\ stage[r] = "reply"
  /\ Finish(r, "applied", r)
  /\ UNCHANGED <<committed, open>>

-----------------------------------------------------------------------------
(* GET /wallet: getBalances, and ensureDefaultWallet for a user who has no *)
(* row yet.  Each statement commits on its own.                            *)

ListBalances(r) ==
  /\ stage[r] = "balances"
  /\ \E c \in Currencies : <<req[r].user, c>> \in rows
  /\ Finish(r, "listed", NoReq)
  /\ UNCHANGED <<committed, open>>

NoBalances(r) ==
  /\ stage[r] = "balances"
  /\ \A c \in Currencies : <<req[r].user, c>> \notin rows
  /\ Goto(r, "find")
  /\ UNCHANGED <<req, answer, crashes, local, committed, open>>

(* findOne of the NGN row; when there is one, the second getBalances. *)
FindDefault(r) ==
  LET a == <<req[r].user, NGN>>
  IN  /\ stage[r] = "find"
      /\ IF a \in rows THEN Finish(r, "listed", NoReq)
         ELSE /\ Goto(r, "create")
              /\ UNCHANGED <<req, answer, crashes, local>>
      /\ UNCHANGED <<committed, open>>

CreateDefault(r) ==
  LET a == <<req[r].user, NGN>>
  IN  /\ stage[r] = "create"
      /\ a \notin rows
      /\ lock[a] = NoReq
      /\ rows' = rows \union {a}
      /\ balance' = [balance EXCEPT ![a] = 0]
      /\ Finish(r, "listed", NoReq)
      /\ UNCHANGED <<ledger, record, open>>

CreateConflict(r) ==
  /\ stage[r] = "create"
  /\ <<req[r].user, NGN>> \in rows
  /\ Finish(r, "conflict", NoReq)
  /\ UNCHANGED <<committed, open>>

-----------------------------------------------------------------------------
(* Failures. *)

(* The transactions whose end request r waits for: one at most. *)
WaitsFor(r) ==
  LET debited  == DebitAccount(req[r])
      credited == CreditAccount(req[r])
      k        == req[r].key
  IN  {s \in Requests \ {r} :
         \/ stage[r] = "debit" /\ debited \in rows /\ lock[debited] = s
         \/ stage[r] = "update" /\ lock[credited] = s
         \/ stage[r] = "insert" /\ credited \notin rows /\ lock[credited] = s
         \/ stage[r] = "ledger" /\ k # NoKey /\ keyLock[k] = s}

(* PostgreSQL's deadlock detector aborts a transaction on a cycle of waits. *)
DeadlockVictim(r) ==
  /\ \E S \in SUBSET Requests :
       /\ r \in S
       /\ \A s \in S : WaitsFor(s) # {}
       /\ UNION {WaitsFor(s) : s \in S} = S
  /\ Rollback(r, "aborted")

(* A statement before COMMIT fails: connection lost, timeout. *)
StatementFails(r) ==
  /\ InTransaction(r)
  /\ Rollback(r, "aborted")

(* The server process dies: no request in progress is answered, PostgreSQL *)
(* rolls the open transactions back.                                       *)
Crash ==
  /\ crashes < MaxCrashes
  /\ InProgress # {}
  /\ crashes' = crashes + 1
  /\ stage' = [r \in Requests |-> IF r \in InProgress THEN "done" ELSE stage[r]]
  /\ answer' = [r \in Requests |-> IF r \in InProgress
                                   THEN [status |-> "lost", tx |-> NoReq]
                                   ELSE answer[r]]
  /\ credit' = [r \in Requests |-> 0]
  /\ seen' = [r \in Requests |-> 0]
  /\ lock' = [a \in Accounts |-> NoReq]
  /\ draft' = [a \in Accounts |-> 0]
  /\ keyLock' = [k \in Keys |-> NoReq]
  /\ UNCHANGED <<req, committed>>

(* Every request has been answered. *)
Quiet ==
  /\ \A r \in Requests : stage[r] = "done"
  /\ UNCHANGED vars

-----------------------------------------------------------------------------
BeforeTransaction(r) ==
  Refuse(r) \/ Replay(r) \/ Proceed(r) \/ Quote(r) \/ QuoteFails(r)

Transaction(r) ==
  \/ Debit(r) \/ DebitRefused(r)
  \/ ReadCredited(r) \/ CompareCredited(r) \/ UpdateCredited(r) \/ InsertCredited(r)
  \/ InsertConflict(r) \/ CreditOverflow(r)
  \/ InsertLedger(r) \/ LedgerConflict(r) \/ Commit(r) \/ Reply(r)
  \/ DeadlockVictim(r)

GetBalances(r) ==
  \/ ListBalances(r) \/ NoBalances(r)
  \/ FindDefault(r) \/ CreateDefault(r) \/ CreateConflict(r)

Handle(r) == BeforeTransaction(r) \/ Transaction(r) \/ GetBalances(r)

Next ==
  \/ \E r \in Requests : Arrive(r) \/ Handle(r) \/ StatementFails(r) \/ CommitFails(r)
  \/ Crash
  \/ Quiet

Spec == Init /\ [][Next]_vars

(* A request that has arrived is driven by the event loop, and every       *)
(* statement it awaits returns once the locks it needs are free.           *)
FairSpec == Spec /\ \A r \in Requests : WF_vars(Handle(r))

-----------------------------------------------------------------------------
(* Properties. *)

(* No interleaving of debits, credits, rollbacks and crashes takes a       *)
(* committed balance below zero or beyond its column: debitBalance's check *)
(* is made on a row nobody else can change before the debit commits.       *)
BalanceInRange == \A a \in Accounts : balance[a] \in 0..MaxBalance

(* However often a key is sent, by whoever, at once or after a crash, at   *)
(* most one committed ledger row carries it.                               *)
KeyAppliedOnce ==
  \A x, y \in ledger : x.key = y.key /\ x.key # NoKey => x = y

(* Request r committed the ledger row of user u with key k. *)
Applied(u, k, r) == \E x \in ledger : x.user = u /\ x.key = k /\ x.tx = r

(* saveIdempotency and createTransaction agree: a response is stored for   *)
(* <<user, key>> exactly when that user's ledger row with the key is       *)
(* committed, and the response names that row's transaction.               *)
RecordMatchesLedger ==
  \A u \in Users, k \in Keys, r \in Requests :
    record[u, k] = r <=> Applied(u, k, r)

(* A request that was answered from the store, or with an error of any     *)
(* statement but COMMIT, has moved no money; one that was told it was      *)
(* applied has its ledger row.  Of an error of COMMIT nothing follows.     *)
AnswerMatchesLedger ==
  \A r \in Requests :
    /\ answer[r].status \in {"replayed", "refused", "conflict", "aborted", "listed"}
         => \A x \in ledger : x.tx # r
    /\ answer[r].tx # NoReq => \E x \in ledger : x.tx = answer[r].tx

(* A replayed response belongs to the asking user and key.                 *)
ReplayIsOwn ==
  \A r \in Requests : answer[r].status = "replayed" =>
    Applied(req[r].user, req[r].key, answer[r].tx)

(* Only open transactions hold locks: whatever ends one releases them.     *)
LocksAreHeldInTransaction ==
  /\ \A a \in Accounts : lock[a] # NoReq => InTransaction(lock[a])
  /\ \A k \in Keys : keyLock[k] # NoReq => stage[keyLock[k]] = "commit"

(* A stored response is never replaced, although save() would update it.   *)
StoredResponseIsFinal ==
  [][\A u \in Users, k \in Keys :
       record[u, k] # NoReq => record'[u, k] = record[u, k]]_record

(* Request r takes effect in this step, whatever its client is told.       *)
TakesEffect(r) == /\ \A x \in ledger : x.tx # r
                  /\ \E x \in ledger' : x.tx = r

(* A committed debit takes exactly its amount off the balance of that      *)
(* moment, whatever ran between its SELECT FOR UPDATE and its COMMIT.      *)
DebitIsExact ==
  [][\A r \in Requests :
       Debits(req[r]) /\ TakesEffect(r) =>
         balance'[DebitAccount(req[r])]
           = balance[DebitAccount(req[r])] - AmountStr(req[r])]_vars

(* The wallet implements the promise of IdempotentWrites: a request takes  *)
(* effect when its transaction commits.                                    *)
Promise == INSTANCE IdempotentWrites
             WITH Bodies <- Offered,
                  applied <- {x.tx : x \in ledger},
                  told <- [r \in Requests |-> answer[r].tx]
KeepsPromise == Promise!Spec

(* What the committed transactions add up to on account a.                 *)
Inflow(x, a)  == IF x.type # "transfer_out" /\ <<x.user, x.to>> = a
                 THEN x.credit ELSE 0
Outflow(x, a) == IF x.type \notin {"fund", "transfer_in"} /\ <<x.user, x.from>> = a
                 THEN x.amount ELSE 0
NetFlow(entries, a) == MapThenSumSet(LAMBDA x : Inflow(x, a) - Outflow(x, a), entries)
LedgerBalance(a) ==
  (IF a \in DOMAIN Opening THEN Opening[a] ELSE 0) + NetFlow(ledger, a)

(* What the balance of an account is ahead of its ledger.                  *)
Drift(a) == balance[a] - LedgerBalance(a)

(* Balances and ledger move together, in every step of however many        *)
(* overlapping requests and crashes, but for the credits of                *)
(* createOrGetBalance.  One that was added to a balance that is not there  *)
(* any more takes the account back to what the request had read; one that  *)
(* save left out, as another request had brought the row to the same sum,  *)
(* is missing.                                                             *)
BalancesFollowLedger ==
  [][\A a \in Accounts :
       \/ Drift(a)' = Drift(a)
       \/ \E r \in Requests :
            /\ TakesEffect(r)
            /\ CreditAccount(req[r]) = a
            /\ Drift(a)' = IF lock[a] = r THEN seen[r] - LedgerBalance(a)
                                         ELSE Drift(a) - credit[r]]_vars

(* Every committed exchange was made at a quoted rate of its pair: the two *)
(* amounts, each rounded on its own, are off by less than half a unit of   *)
(* either currency.  What is only moved is credited as it was debited.     *)
LedgerIsPriced ==
  \A x \in ledger :
    IF x.type \in {"conversion", "trade", "transfer"}
    THEN \E rate \in Rates[x.from, x.to] :
           /\ 2 * (rate[2] * x.credit - rate[1] * x.amount) < rate[1] + rate[2]
           /\ 2 * (rate[1] * x.amount - rate[2] * x.credit) < rate[1] + rate[2]
    ELSE x.credit = x.amount

(* The balances are what the ledger says they are.  Holds when requests    *)
(* run one at a time, with crashes; not when they overlap, see the next.   *)
LedgerMatchesBalances ==
  \A a \in Accounts : balance[a] = LedgerBalance(a)

(* When requests run one at a time the wallet implements AtomicWallet: a   *)
(* request takes effect at its commit, with the credit of one of the       *)
(* quoted rates, and failures and crashes leave no trace on any balance.   *)
Atomic == INSTANCE AtomicWallet WITH applied <- {x.tx : x \in ledger}
RequestsAreAtomic == Atomic!Spec

(* "Prevent double-spending" (task.md:50): nobody spends more than the     *)
(* account ever held.  A credit overwrites a debit that commits between    *)
(* its read and its save, and the debited money can be spent again.        *)
NoDoubleSpend == \A a \in Accounts : LedgerBalance(a) >= 0

(* "duplicates return the stored response" (README.md:419): a request      *)
(* whose key has a stored response of its user is not turned away.         *)
DuplicateGetsStoredResponse ==
  \A r \in Requests, k \in Keys :
    answer[r].status = "conflict" /\ req[r].key = k => record[req[r].user, k] = NoReq

(* Every request that arrives is answered, or lost in a crash: waits for   *)
(* row locks and key entries end, and deadlocks are broken.                *)
RequestsAreAnswered ==
  \A r \in Requests : (stage[r] # "idle") ~> (stage[r] = "done")
=============================================================================
