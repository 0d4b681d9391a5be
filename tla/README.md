# Monibase in TLA+

Specifications, model-checking runs and proofs for the Monibase backend: a
NestJS server with multi-currency wallets on PostgreSQL, exchange rates from an
HTTP API, accounts with e-mail verification and token versions, KYC review, a
Redis cache and a Bull queue for mail. Paths below are relative to the
repository (`src/src/` is the TypeScript).

Sections: [1](#1-inventory) inventory of the system, [2](#2-plan) plan,
[3](#3-the-wallet) the wallet, [4](#4-the-exchange-rates) the exchange rates,
[5](#5-the-accounts) the accounts, [6](#6-kyc) KYC, [7](#7-the-mail-queue) the
mail queue, [8](#8-users-lists-and-seeds) users, lists and seeds, [9](#9-runs) runs
and bounds, [10](#10-fairness) fairness, [11](#11-what-the-runs-found) findings,
[12](#12-proofs) proofs, [13](#13-limits) limits, [14](#14-how-to-run) how to run.

## 1. Inventory

One server process serves requests concurrently: a handler runs without
interruption up to an `await`, where any other handler may go on. State is in
PostgreSQL (users, wallet balances, transactions, idempotency records, KYC),
in Redis (caches, the Bull queue) and, for rates, in the memory of the process.
Only the wallet uses database transactions; everywhere else each statement
commits on its own.

| component | state | operations | what makes it correct |
|---|---|---|---|
| Wallet (`modules/wallet`) | `wallet_balances`, `transactions`, `idempotency_records` | fund, convert, trade, transfer (between own currencies, or to another user), GET /wallet | balances stay in range; nobody spends money twice; balances equal what the ledger says; a key moves money at most once; replies tell the truth; locks end; every request is answered |
| FX rates (`modules/fx`) | cache per base currency, `lastStale`, both in memory | getRates, getRate, getRateWithContext, quotes, debug quotes | a rate not marked stale is fresh and of the base asked for; calls end though the API does not; 503 only without any rates |
| Transactions (`modules/transactions`) | none (reads the ledger) | list with filter, sort, pages | the pages show every row |
| Auth (`modules/auth`) | columns of `users`: otp, loginLimit, isLocked, lockedUntil, isActive, isActivated, tokenVersion; JWTs held by clients | register, verify-otp, login, logout, refresh, deactivate, token validation on each request | an account is locked after five wrong passwords; a logout revokes every older token; an OTP is used once; deactivation lasts |
| User (`modules/user`) | `users`; Redis `user:profile:<id>`, `users:list:<query>` | profile, list, deactivate, createUser, bulk creation | one account per address, counted once; what is cached differs from the table for a bounded time |
| KYC (`modules/kyc`) and guards (`common/guards`) | `kyc` row per user, uploaded files | submit, upload, list pending, review; the guard on convert and trade | what was verified is what was reviewed; only verified users trade |
| Email queue (`modules/email`, `modules/bull`, `tasks/workers`) | jobs in Redis, map of open queues | enqueue, process with retries, close | completed means sent; a queued mail is eventually sent or given up after a bounded number of attempts; who is told that a batch is queued can rely on it |
| Storage (`modules/storage`) | files | uploadFile | a failed upload leaves no key behind |
| List queries (`common/query`) | none | parse, skip/take, order, page links | page and limit stay in range; a walk along the next links sees every row |
| Seeders (`configs/seeds`) | `users` | seed at start-up | servers that start together create one administrator |
| HTTP shell (`main.ts`, filters, interceptors, middleware, config) | `isClosing` | shutdown by `app.close()`, which ends queues and Redis client while requests are still served | maps errors to statuses; wiring |

How they interact: the wallet calls `FxRatesService.getRate` before it opens a
transaction; the KYC guard reads the `kyc` row before convert or trade run; the
JWT strategy reads the user before every authenticated request; registration
enqueues an OTP mail and does not wait for it; the profile cache sits in front
of the same row that auth, KYC review's clients and admins change. The
exception filter turns a violated unique constraint into 400.

Behaviours that are hard: requests that overlap on one balance row, one key,
one user row or one KYC row (nearly all handlers read, await, and write back);
retries of a request whose first attempt is still running, or was answered by a
process that died; locks taken in opposite orders; HTTP responses that arrive
after a newer one; caches filled from a read that is older than their
invalidation. `PROJECT.json` lists each under "hazards" with its line.

## 2. Plan

Modules, in order. All of them are written.

| modules | about | abstract specification | proofs |
|---|---|---|---|
| `WalletRequests`, `Wallet`, `MCWallet` | requests, statements and commits of the wallet | `IdempotentWrites`: what a client with a key is promised; `AtomicWallet`: requests that take effect in one step | `WalletProofs`, `WalletPromiseProofs`, `WalletLedgerProofs` |
| `FxRates`, `MCFxRates` | cache, retries and fallback | `RatePromise`: which table a call may be told | `FxRatesProofs` |
| `Auth`, `MCAuth` | the row of an account, its tokens and codes | | `AuthProofs` |
| `Kyc`, `MCKyc` | the KYC row and its files, the guard in front of a trade | | `KycProofs` |
| `EmailQueue`, `MCEmailQueue` | jobs, processors, servers that come and go | `MailPromise`: what those who add jobs are promised | `EmailQueueProofs` |
| `ListQuery`, `Users`, `MCUsers` | page arithmetic; profiles, lists, bulk creation and seeds over table and cache | | `UsersProofs` |

`Users` extends `ListQuery`; the wallet sees the rates through its constant
`Rates`; `Kyc` composes the KYC service with the storage and with the guard of the
wallet's conversion; `EmailQueue` has the registration that does not wait for its
mail.

What could be added: an abstract session, granted and revoked at one instant, which
logouts that do not overlap implement; a register with bounded staleness as the
abstract specification of the cache; `Kyc` composed with `Wallet` itself instead of
with the beginning of its handler, which would say nothing new about either, since
they share no state beyond the guard's answer.

## 3. The wallet

`Wallet` models `WalletController`, `WalletService`, `WalletRepository` and the
entities on PostgreSQL at its default isolation level, READ COMMITTED.

**Requests** (`WalletRequests`). The body of a request is a record of kind,
user, peer, currencies, amount and key. The three ways to call `transfer` and
`convertOrTrade` are kinds of their own: `conversion`, `trade`, `transfer`
(between own currencies) and `p2p` (with a recipient). `WellFormed` is the
service's own validation; `CheckedFirst` tells that convert and trade validate
before the idempotency lookup and transfer after it, so that a repeated key with
a bad body is answered differently. Money is an integer number of 0.0001 units
(the columns are `decimal(18,4)`); a request's amount is an integer number of
1/`Fine` of that, since it is a JavaScript number with as many decimals as the
client likes, and `AmountStr`, `TargetAmount` round the way `toFixed(4)` does:
the amount by itself, the credited amount from the unrounded product.

**State.** Committed tables: `rows` and `balance` (wallet_balances), `ledger`
(transactions), `record` (idempotency_records). Open transactions: `lock` and
`draft` (which transaction holds a row, and what it wrote), `keyLock` (which
transaction inserted a ledger row with a key). Handlers: `stage` (the statement
a request issues next), `credit` and `seen` (its local variables), `answer`.

**Steps.** A request advances from one awaited statement to the next:

    lookup -> quote -> debit -> read -> insert ----------> ledger -> commit -> reply
                                  |                          ^
                                  +-> compare -> update -----+
                                        +--------------------+

| action | code |
|---|---|
| `Refuse`, `Replay`, `Proceed` | validation and `findIdempotency`, outside the transaction and without a lock |
| `Quote`, `QuoteFails` | `fxRates.getRate`, the amounts |
| `Debit`, `DebitRefused` | `debitBalance`: SELECT ... FOR UPDATE, the comparison, the save |
| `ReadCredited` | `createOrGetBalance`: `findOne`, which takes no lock |
| `CompareCredited` | its save: TypeORM selects the row again and leaves the UPDATE out, and with it the lock, when the row already holds the sum |
| `UpdateCredited`, `InsertCredited`, `InsertConflict`, `CreditOverflow` | its save: an UPDATE with an absolute value, or an INSERT, which may hit the unique constraint; a sum beyond the column |
| `InsertLedger`, `LedgerConflict` | `createTransaction`, against the unique index on `idempotency_key`, which spans all users |
| `Commit`, `CommitFails`, `Reply` | `saveIdempotency` and COMMIT; a connection lost during COMMIT, which has committed or not while the handler gets an error; the reply |
| `ListBalances`, `NoBalances`, `FindDefault`, `CreateDefault`, `CreateConflict` | GET /wallet with `ensureDefaultWallet`, outside any transaction |
| `DeadlockVictim`, `StatementFails`, `Crash` | the database's deadlock detector, a statement before COMMIT that fails, the death of the server |

Any statement that writes a row waits until no other transaction holds it
(`Free`), and an insert into a unique index waits for the transaction that
inserted the same entry; when that one commits, the waiting statement fails, and
when it rolls back, it goes on. SELECT without FOR UPDATE never waits and sees
committed rows only. COMMIT and ROLLBACK release every lock.

**Merged steps.** SELECT FOR UPDATE, comparison and save of a debit are one
step: the row is locked from the first on, nobody else can change or read the
draft. `saveIdempotency` and COMMIT are one step: the insert is private until
the commit, and a competitor with the same user and key is already stopped by
the ledger's index, whose entry this transaction holds. The second
`getBalances` that builds the response body of a write changes nothing and is
left out; a response is identified by the transaction it names.

**Answers.** `answer` has the outcome of a request. A client is told a transaction
(`applied`, `replayed`) or an error; which statement the error came from is the
model's own knowledge: `aborted` and `unknown`, the error of a COMMIT, are both the
500 of the exception filter, `conflict` is its 400, `lost` is no answer at all.

**Promises.** `IdempotentWrites` has three actions: a request takes effect
(`Apply`), is told so (`Confirm`), or is told the transaction that took effect
earlier for the same user and key (`Replay`); it may also take effect and never be
told. `Wallet` implements it under
`applied <- {x.tx : x \in ledger}`, `told <- answer`, however requests overlap.
`AtomicWallet` has one action, `Execute`: the amount leaves one account and what
it is worth at one quoted rate enters the other, in one step that overdraws
nobody. `Wallet` implements it (`RequestsAreAtomic`) under the same mapping of
`applied`, with `balance` as it is, when requests run one at a time.

**Properties.** These hold however requests overlap: `BalanceInRange`,
`KeyAppliedOnce`, `RecordMatchesLedger`,
`StoredResponseIsFinal`, `KeepsPromise`, and

- `LedgerIsPriced`: every committed exchange is priced at one quoted rate of its pair,
  as well as two separately rounded amounts can be;
- `BalancesFollowLedger`: the difference between a balance and what the ledger adds up
  to (`Drift`) changes in no step but two kinds of commits. A credit whose account has
  changed since `createOrGetBalance` read it takes the account back to what was read
  (a commit that holds the row: `seen - LedgerBalance`); a credit that save has left
  out, because another request had brought the row to the same sum, is missing (a
  commit that does not hold it: `- credit`). It says where money can get lost or
  made, and that it cannot anywhere else.
- `AnswerMatchesLedger`: whoever is told of a transaction finds it in the ledger, and an
  error means that no money has moved, unless COMMIT failed: then it may have. A client
  with a key can find out by a retry (`RecordMatchesLedger`), one without cannot.

`ReplayIsOwn`, `LocksAreHeldInTransaction` and `DebitIsExact` are proved (section 12)
and have no run of their own: `KeepsPromise` and `BalancesFollowLedger` say more.
`LedgerMatchesBalances`, `DuplicateGetsStoredResponse` and `RequestsAreAtomic` hold when
requests run one after the other; `NoDoubleSpend` and `DuplicateGetsStoredResponse` fail
when they overlap (section 11). `RequestsAreAnswered` is liveness.

## 4. The exchange rates

`FxRates` models `FxRatesService`. A call is a process that is interrupted at
two awaits only: the HTTP request and the delay before a retry. `cache` (an entry
per base with its expiry) and `lastStale` (one table, of whatever base was fetched
last) are shared. A table is the base it was quoted for, the instant of the quote
and the codes it lists; the numbers are left out. `since` is the `now` the code
reads at the beginning of `getRates`, and with which it compares and computes
the expiry, however long the fetch takes.

| action | code |
|---|---|
| `SameCurrency` | `getRate` of equal currencies: 1, without a table |
| `ServeCached`, `StartFetch` | the cache lookup of `getRates` |
| `ApiQuotes`, `Receive` | the API computes a response; it arrives, is stored and answered. Two steps, so that the responses to parallel calls arrive in any order |
| `AttemptFails`, `Retry` | an attempt of `fetchWithRetry` fails; the next one after the delay |
| `FallBack` | the last attempt fails: `lastStale`, or 503 |
| `Tick`, `Restart` | time passes; the process restarts with an empty cache |

`Answer` looks up the rate of the pair, as `getRate` and `getRateWithContext` do:
a table lists only the supported currencies the API returned, without its own
base. The response is assumed to be for the base that was asked for.

`RatePromise` knows no attempts, entries or expiries. A call that has begun is told one
of these, once: a table that is held, is of its base and was quoted less than `TTL`
before it began (`Serve`); one that was quoted for its base while it ran, which
becomes the latest and may be held (`Fetch`); the latest with the mark, or that
there is none (`FallBack`). `FxRates` implements it (`KeepsRatePromise`) with `held`
the tables in `cache` and `latest <- lastStale`.

`UnmarkedRatesAreFresh` (a response that comes late cannot leave an entry that
is served for too long), `KeepsRatePromise` and `CallsReturn` hold;
`QuoteIsForRoute` does not (section 11). `DownMeansNothingCached` is proved.

The wallet reads this service through the constant `Rates`: any positive rate
the service may quote, including one of the fallback. `getRate` drops the stale
mark, so the wallet cannot tell.

## 5. The accounts

`Auth` models `AuthService`, `LocalStrategy`, `JwtStrategy`, the e-mail guard and
`UserService.createUser` over the row of one account: all requests of an instance
concern one e-mail address. Nothing here uses a transaction or a row lock; a
handler reads the whole row, awaits, and updates named columns.

**State.** `user` is the row, or `NoUser`; `issued` the versions of the tokens
clients hold; `now` the clock. A handler has `stage` (its next statement), `read`
(the row as it read it last) and `token` (the version it came with). A password
and a code are known by the registration they were made for, a token by its
`tokenVersion`: the signature always holds, and nothing else in it is compared.
`crossed`, `wrong`, `confirmed`, `loggedOut`, `banned` and `began` record what
happened for the properties; no action but their own updates reads them.

| action | code |
|---|---|
| `Register`, `Create`, `StoreOtp` | `createUser` up to the insert, the insert (against the unique index), the update with the code |
| `Verify`, `Confirm` | `verifyOtp`: read and comparison, update |
| `Login`, `Unlock`, `Recheck`, `CountWrong`, `Sign` | `LocalStrategy.validate`: first read and `checkLockedStatus`, its update, the second read with the password, `increaseLoginLimit`; `AuthService.login` |
| `Authenticate`, `FindUser`, `BumpVersion` | `JwtStrategy.validate` and the guard; `logout`'s read and update |
| `Ban`, `Disable` | `deactivate` by an administrator; `deactivateAccount`, of this or the own account |
| `Fails`, `Tick` | a statement fails or the server dies, what was written stays; time passes |

**Merged steps.** `update` ends by reading the row again, which changes nothing.
`deactivate` reads a row it does not use. The clock is read with the statement
it is read for. The comparison of the password belongs to the read before it:
nothing but that read goes into it. `lastLogin` is not kept, `refresh` signs the
version that was just validated, and a token's expiry only takes tokens away.

**Properties.** `LimitMeansLocked`: a count at the limit means a locked row, though
counting, unlocking and deactivating all write both columns from older reads.
`AttemptsAreLimited` and `LogoutInvalidates` hold as long as no two logins, or no
two logouts, overlap; both count on a read-modify-write that nothing protects, and
the second fails when logouts do overlap (section 11). `OnlyLocksInForceRefuse`:
the two reads of a login see to it that an expired lock turns nobody away.
`AccessOnlyWhenVerified`, `CodeBelongsToPassword`, `DeactivationLasts` are about
codes: an access needs a code that was sent before it expired and used since the last
deactivation; with which password the account opens; when a deactivation can be
undone. The last excludes deactivations that meet a code which is stored or
on its way, since `verifyOtp` makes an account active whatever its state.

## 6. KYC

`Kyc` models `KycService`, `KycRepository`, `StorageService.uploadFile`, the roles
guard in front of the review and `KycVerifiedGuard` in front of convert and trade,
over the row of one user (`user_id` is unique). A value of a field, and a file, are
known by the request they came with.

**State.** `row` is the row or `NoRow`: a status, a version for each field, a key for
each document. `file` is what each upload has written. A handler has `stage` and
`read`, the row as it read it. `crossed` records which kinds of requests have
overlapped, `sent`, `placed` and `judged` the last values submitted, documents
entered and data approved: history, for the properties.

| action | code |
|---|---|
| `Submit`, `UpdateRow`, `CreateRow` | `submit`: the read, the update of status and merged fields, the insert against the unique index |
| `Upload`, `OpenRow`, `OpenFile`, `Stored`, `StoreFails`, `Attach` | `uploadDocument`: the read, a row without data, `uploadFile` with its clean-up, the update of one key |
| `Review`, `Judge` | `review` behind its guards: the read, the update of the status |
| `EnterTrade`, `Execute` | the guard of a conversion or trade, and its handler |
| `Fails` | a statement fails or the server dies, what was written stays |

`update` writes the columns it is given and reads the row again, which changes
nothing; it is one step. `UpdateRow`, `Judge` and `Attach` write their columns into
whatever the row has become; that is what the properties are about.

**Properties.** `VerifiedWasFound`: unless a submission overlaps a review, the data of
a verified row is what the approval has found; `LatestDataKept`: unless two
submissions overlap, every field is what was submitted for it last;
`DocumentsAreKept`: keys are those of the last uploads, with complete files, in every
interleaving; `TradesNeedApproval`: unless the status is changed between guard and
handler, users trade on verified rows only. The exceptions are real: `review` never
asks whether the row is still the one that was listed, nor whether it is pending.

## 7. The mail queue

`EmailQueue` models the way of a mail: `EmailJobService`, `TaskJobService` and
`BullQueueService` add jobs, the processors registered by `TasksWorkerService` take
them, `EmailService.send` calls the SMTP server. The queue is in Redis and is shared
by the servers, which crash, shut down and start again. Bull is modelled from how it
is used: delay, attempts with backoff, locks that its workers renew, `maxStalledCount`.

**State.** A request has `asked` (the size of its batch, whether its caller awaits it,
whether the payload is complete), `home` (its server), `added` and `answer`. A job
has `state`, `made` (attemptsMade), `stalled`, `worker` and `tries` (the loop
variable of `send`). `server` is up, closing or down. `calls`, `delivered` and
`copies` are history: calls of `sendMail`, whether the SMTP server has accepted the
mail, how often an acceptance was reported to a worker that was not lost.

    none -> delayed -> waiting -> sending -> sent/refused -> completed/failed
               ^          ^                     |
               +----------|------- backoff -----+
                          +-- lost (crash, Redis) from sending, sent, refused

| action | code |
|---|---|
| `Ask`, `Add`, `AddFails` | `enqueue...`, `addJob`, `addJobs`: a job at a time; an error ends the batch, the jobs before it stay, and the one at hand may have arrived |
| `Promote`, `Take`, `Stall` | Bull: the delay is over, a worker takes the job, a lost job is put back or given up |
| `Skip` | the processor calls `done()` for an incomplete payload |
| `SendSucceeds`, `SendFails` | a call of `sendMail`; one that rejects may have been accepted |
| `Done`, `DoneError`, `DoneFails` | `done` with a result, with an error, without reaching Redis |
| `Start`, `Shutdown`, `Closed`, `Crash` | `onModuleInit`, `onModuleDestroy`, the end of `queue.close`, the death of a server |

`register` does not await its mail: its request has `awaited = FALSE`, is
answered at once, and learns nothing of a failure.

**Promise.** `MailPromise` knows neither Bull nor servers. Jobs of a batch join the
queue in order and a caller who waits is answered "ok" with the last one (`Serve`); a
mail is sent for a job in the queue, boundedly often and never while a worker knows
of a success (`Send`); a lost worker forgets (`Forget`); a job ends once, as completed
only with a known success or nothing to send (`End`). `EmailQueue` implements it
(`KeepsMailPromise`) under `queued <- inQueue` (the state is not `none`), `known <-
knownSent` (an acceptance was reported to a worker that was not lost, and the job
has not ended), `outcome <- endedAs`.

**Properties.** `CompletedWasSent`, `SendsAreBounded` (the retries of `send` and
those of the queue multiply: `MaxSends * (Attempts + MaxStalls)`),
`AcknowledgedIsQueued`, `KeepsMailPromise`, and the liveness property `JobsEnd`.
`NotedOnce` (only a lost worker or a wrong error of the SMTP server makes a second
copy) is proved, and in runs a part of `KeepsMailPromise`.

## 8. Users, lists and seeds

`ListQuery` has the page arithmetic as operators: `ParsePage` and `ParseLimit` of raw
parameters (missing, zero, negative or too large), the `Slice` of `skip` and `take`
in the sort order, `HasNext`. `Users` models `UserService`, `RedisService` and the
seed over a table whose rows are known by their addresses, on several servers.

**State.** `user` (a row or `NoUser`), `profile` and `list` (the entries of Redis with
their expiry), `connected` (whether `RedisService` has its client, which
`onModuleDestroy` takes away while requests are still served), `now`; the handlers'
`stage`, variables `my` and `counted`. Each entry has a history field `late`: it was
no longer true when it was written. Of the columns of a profile, `shown` stands for
those that `Auth` changes (`isActive`, `isActivated`); `Change` is that update.

| action | code |
|---|---|
| `GetProfile`, `FindProfile`, `KeepProfile` | `getProfileWithCache`: get, `findById`, set |
| `Deactivate`, `Hide`, `Forget` | `deactivate`: `findById`, update, del |
| `StartList`, `GetList`, `FindItems`, `CountRows`, `KeepList` | `findAllPaginatedWithCache`, by a client that follows the next links: get, the two queries of `getManyAndCount`, set |
| `StartBulk`, `TakeEntry`, `Insert`, `EndBulk` | `createBulkUsers`, whose catch hides every error of an insert |
| `StartSeed`, `CheckSeed`, `InsertAdmin` | `seedUsers`: `countByRoles`, `createUser` |
| `Change`, `Tick`, `Disconnect`, `Fails` | `Auth`'s updates, expiry in Redis, shutdown, a failing statement |

TypeORM leaves the count out when the page shows that it is the last one (not full,
and not empty unless it is the first); `IsLast` has that, and it decides what a walk sees.

**Properties.** `CacheLagIsBounded`: what Redis holds differs from the table for less
than the time to live after a change, for all entries that were true when they were
written. `WalkSeesAll`: a client that follows the next links has seen every row
that was listed when it began, though users are created between its pages and between
the two queries of one page. `CreationsAreCounted`: bulk creations and seeds that run
at the same time count every user once.

## 9. Runs

| run | instance | shows |
|---|---|---|
| `wallet_concurrent` | 3 requests out of 10 bodies of all kinds, all at once, 2 users, 2 currencies, 1 key, 1 crash, failing statements and COMMITs | types, the safety properties of overlapping requests, what a step may do to balances and ledger, and the refinement of `IdempotentWrites` |
| `wallet_serial` | 4 requests, one at a time, 1 crash | the balances are what the ledger adds up to, a retry gets its stored response, and the wallet refines `AtomicWallet` |
| `wallet_liveness` | 3 requests that lock each other's rows and keys, 1 crash, `FairSpec` | every request that arrives ends |
| `wallet_doublespend` | 3 overlapping requests | violation: money is spent twice |
| `wallet_duplicate` | 2 overlapping requests on accounts that have rows | violation: a duplicate gets an error |
| `fx_rates` | 3 calls (of three kinds, on two bases), 3 currencies (the API may leave one out), 2 attempts, 2 instants, time to live 1, 1 restart, `FairSpec` | types, freshness, the refinement of `RatePromise`; every call ends |
| `fx_fallback` | 2 calls | violation: a rate of the wrong base |
| `auth` | 4 requests of all kinds on one account, 2 at a time, 2 attempts, 3 instants, locks and codes that last 1 | types and seven properties of locks, counts, codes, deactivations and tokens |
| `auth_logout` | 4 logins and logouts, 2 at a time | violation: a token that was logged out is accepted again |
| `kyc` | 4 submissions, uploads, reviews, trades, 2 at a time, 2 fields, both documents, one request of a wrong role | types; what is verified was found, no data and no document is lost, trades need an approval |
| `email_queue` | 1 request of 3 bodies (a registration's code, a batch of 2, an incomplete job), 2 servers, 2 attempts of 2 calls, 1 stall, 1 stop, `FairSpec` | types; completed means sent, bounded retries, honest answers, the refinement of `MailPromise`; every job ends |
| `users` | 2 of 8 requests of all kinds at a time, 3 rows, limits 1 to 2, times to live 2 and 1, 3 instants | types; bounded lag of the cache, complete walks, creations counted once |

Distinct states: `wallet_concurrent` 189,381, `wallet_serial` 1.3 million,
`wallet_liveness` 234,202, `fx_rates` 612,000, `auth` 1.2 million, `kyc` 1.9 million,
`email_queue` 517,000, `users` 1.5 million; each in about two minutes or less.

Bounds, and why they are enough:

- Three requests at once: every conflict in this code is between two
  transactions that share a row or a key, and the third observes or closes a
  cycle of waits. Two users and two currencies give every pairing of debited and
  credited rows, one of them without a row at the start.
- One key: different keys do not interact. Both users offer it.
- `MaxBalance` = 4 units stands for the column's 10^14 - 1; opening balances of 2
  make refusals, exact debits to zero and overflows all reachable.
- `Fine` = 10 and rates 3/2 and 2/3 make both amounts round up and down (an
  amount of 1.4 units; a credit of 2.6 x 3/2).
- `MaxCrashes` = 1: a crash forgets everything but the tables; a second one meets
  a state the first could have met.
- Rates: three calls give a response that overtakes another and a third call that
  is served what remains; `MaxTime` = 1 with `TTL` = 1 lets an entry expire, and a response
  arrive after the instant of its quote.

- Accounts: two handlers at a time give every overlap of two statements, and the
  four requests of a behaviour let overlaps follow one another: a registration, its
  verification, a deactivation and an access; or two wrong passwords, a lock that
  expires and a login. An attempt limit of 2 is the least that has a count below
  it. Each lock and code expires at the second of three instants.
- KYC: two handlers at a time give every overlap of two statements; four requests
  give a submission, an upload or a second submission, a review and a trade, which
  overlap pairwise in turn. Two fields distinguish what is sent from what is kept.
- Mail: two jobs of one batch are all that interact (through the limit of a server and
  the order of adding); requests share nothing but servers. `MaxStops` = 1 bounds the
  crashes and shutdowns, so that `JobsEnd` asks for servers that run in the end; the
  safety theorems hold for any number.
- Users: three rows with pages of one and two give walks of three pages, pages that are
  full and last, empty ones and limits cut to the maximum; a second request changes
  the table at every statement of the first. `Changing` has one row, as the rows'
  profiles do not interact. The theorems hold for any number of requests and rows.

Symmetry is used over requests and calls in runs that check no liveness.
Deadlock checking is on in every run: when everything has ended, `Quiet`
stutters, and any other state without a successor would be reported.

## 10. Fairness

Weak fairness of `Handle(r)` for each request: a handler that has been reached
goes on, because the event loop runs its continuation, a statement whose locks are
free returns, the database ends a cycle of waits by its detector, and the rates
service ends each call (`CallsReturn`). Weak fairness of `Advance(c)` for each
call of the rates service: the timer of the HTTP client (10 s) and those of the
retries fire. No fairness for arrivals, for failing statements, crashes, time,
restarts, or for the API: it may never answer.

In `EmailQueue`, weak fairness of `Promote`, `Stall` and `Take` for each job (the
timers of Bull fire, and a worker that is free asks for the next job), of
`Working` (the SMTP client times out, so that a call ends, whatever the SMTP server
does), of `Closed` (`queue.close` returns when the jobs in progress have ended) and of
`Start` (whoever runs the system starts a stopped server again). None for adding jobs,
crashes and shutdowns, nor for success. `Auth`, `Kyc` and `Users` state no fairness
and no liveness: a handler there waits for nobody.

## 11. What the runs found

- `NoDoubleSpend` (`wallet_doublespend`). `createOrGetBalance` reads without
  a lock (wallet.repository.ts:65) and saves the sum as an absolute value (70-71).
  A debit that commits in between is overwritten. `src/task.md:50` asks to
  "Prevent double-spending". (Credits are lost in the same way, and also when save
  finds nothing to update.) The theorem `DebitsAreExact`
  shows that the debits' own side is sound, and `BalancesFollowLedger` that the
  fault is in the credits alone: `FreshCreditsSuffice` proves that nothing is spent
  twice if a credit still finds the balance it read, when it is saved and at the
  commit (a lock, or an UPDATE that adds).
- `DuplicateGetsStoredResponse` (`wallet_duplicate`). A request with a key whose
  first use is still in its transaction waits in the unique index on
  `transactions.idempotency_key` and is answered 400 when the first commits, while
  `src/README.md:419` promises that duplicates return the stored response.
- `QuoteIsForRoute` (`fx_fallback`). `lastStale` is one field for all bases.
  After a failed fetch for NGN the rate NGN to EUR may be read from a table of
  USD rates, against fx-quote-response.dto.ts:37.
- `LoggedOutStaysOut` (`auth_logout`). `logout` reads `tokenVersion`
  (auth.service.ts:175) and writes the successor of what it read (177). A logout
  that is overtaken by two others writes version 1 when the row is at 2: the
  tokens of version 1, one of which a logout had been answered with, are accepted
  again. `src/README.md:343` says "Invalidate token". An increment in the database
  would do; `LogoutInvalidates` shows that nothing else interferes.

Seen while modelling, without a run: a key that another user has used is refused with
400 for good, since the ledger's index spans all users; no text speaks of that case. On a
failure the expired entry of the very
base asked for is passed over for `lastStale`; when that lacks the code, the call
ends in 503 'Rate not available' although the entry had it. Wrong passwords that
are tried in parallel read one count and write one successor, so that the limit
holds only for logins that come one after another. A correct password does not reset
`loginLimit`: only an expired lock does. `isDeactivated`, which DELETE
/user/deactivate sets, is read by no guard. A document of a verified user can be
replaced without another review, since `uploadDocument` leaves the status alone;
`review` does not ask whether a row is pending, and approves a submission that has
overtaken it unread. A transfer between own currencies converts at the same rates as
`convert` without the KYC guard. Two servers that seed at the same moment, or a
`SUPERADMIN_EMAIL` registered by an ordinary user, stop the start of a server, as
`seedUsers` throws its error on.

## 12. Proofs

TLAPS checks these for every value of the constants, under the named assumptions
next to them (finite bounds are not among them: any number of requests, users,
keys, calls).

**Wallet** (`WalletProofs`). The inductive invariants, each a lemma
`...Init`, `...Step`, `...Invariant`:

- `TypeInv`: `TypeOK` and `StageInv`. A request beyond its checks is well formed
  and one at `debit` does debit; without this the accounts a step indexes need not
  exist. Gives `TypeCorrect`.
- `MoneyInv`: drafts are in range as well as balances, and what handlers carry in
  their variables is natural. `BalanceInRange` alone is not inductive: a commit
  publishes the draft. Gives `BalancesStayInRange`.
- `KeyInv`: a request about to commit owns the index entry of its key, nobody
  else does, and no committed row has the key. Gives `KeysAreAppliedOnce`,
  `RecordsMatchLedger`, `StoredResponsesAreFinal`.
- `LockInv`: locks are held inside transactions, and a request past `debit` holds
  its row with the debited draft (`DebitHeld`). Gives `LocksAreReleased` and,
  with `AccountsDiffer` (a well-formed request never credits the row it
  debits), `DebitsAreExact`.
- `AnswerInv`: a ledger row belongs to a request that is about to reply, has
  replied "applied", was lost in a crash or got the error of its COMMIT, and a request
  about to reply has one.
  Gives
  `AnswersMatchLedger`, `ReplaysAreOwn`.

**Refinement** (`WalletPromiseProofs`). `PromiseInv` ties a ledger row to
its request's user and key, and a reply to the end of the request. `Commit`, and
`CommitFails` when it has committed, map to `Apply` (`CommitApplies`), `Reply` to `Confirm`, `Replay` to `Replay`, and each
other action leaves the abstract variables alone (`Unseen`). Gives
`WalletKeepsPromise`.

**Balances and ledger** (`WalletLedgerProofs`). `LedgerBalance` folds a sum over the
ledger. No induction theorem with an operator parameter can be used, so what the
proofs need of the sum (it exists, is an integer, and grows by the flow of an entry
that is added: `SumExists`, `SumSplits`, `SumOfAdd`) is derived from the
well-foundedness of the subsets of a finite set, applied to a set of subsets
(`SubsetsByRemoval`). On it rest:

- `HeldInv`: if a request past its credit holds the credited row, it does so until its
  commit, with what it read plus the credit as the draft (it does not when save left the
  UPDATE out); it holds no other rows than the two of its body; an account without a
  row has no balance. With `LockInv` for the debit, a commit moves `Drift` of the
  credited account to `seen[r] - LedgerBalance` if it holds the row, by `- credit[r]`
  if not, and of no other account (`CommitDrift`), and no other step moves it
  (`OnlyCommitsMoveMoney`).
  Gives `BalancesAndLedgerMoveTogether`, for any number of overlapping requests.
- `SerialInv`, under `Concurrency = 1`: no drift, what the one request in progress has read is
  the balance, and every conflict answered is explained by a key that the ledger has and
  that has no stored response of the asking user (`Explained`). `LedgerMatchesBalances` alone is not inductive: a
  commit keeps it only if `seen` is still right. Gives `SerialBalancesMatch`,
  `SerialNoDoubleSpend`, `SerialDuplicatesAreServed`.
- `PriceInv`: the amounts a handler carries inside its transaction come from one rate
  of its pair. With the bounds of `Round` (`RoundBounds`, `RoundedAtRate`) gives
  `LedgerKeepsPrices`, at any concurrency.
- Atomicity: a commit without drift is `Execute` (`CommitExecutes`): its row has a rate
  by `PriceInv`, its movement of balances is that of the ledger, its range is
  `BalanceInRange`. Gives `SerialWalletIsAtomic`.
- `FreshCreditsSuffice` puts `[][CreditIsFresh]_vars` (a commit finds the balance its
  credit was added to, and no credit but one of zero was left out by save) in the place
  of `Concurrency = 1`: the same books, no double spending and the refinement of
  `AtomicWallet` at any concurrency. It is no property of the code, which
  `wallet_doublespend` shows to lack it, but tells what a repair of `creditBalance`
  has to achieve. The second half is needed: a commit may find the very balance it has
  read and still have lost its credit, when another request took the row to the sum and
  a third one back.

**Rates** (`FxRatesProofs`). `TypeInv`; `AgeInv`: an entry belongs to its base and
expires no later than `TTL` after its table was quoted (`EntryInv`), because a
response on its way was quoted after its call began (`ResponseInv`);
`FallbackInv`: an empty `lastStale` means an empty cache. Give `FxTypeCorrect`,
`UnmarkedRatesFresh`, `OutageMeansNothingCached`. With `CallInv` (a call that has not ended
has been told nothing, and what is on its way to it was quoted while it ran) every
step maps to one of `RatePromise` or a stutter: the age of what `Serve` tells
is `EntryInv`, the base and the time of what `Fetch` tells `ResponseInv`. Gives
`ServiceKeepsPromise`.

**Accounts** (`AuthProofs`). `TypeInv` has `LimitMeansLocked` in it: a handler that
counts has read a row that was not locked, hence a count below the limit, so that
its successor is within the type; the two are inductive only together. Gives
`AuthTypeCorrect`, `LimitsLock`. `KindInv` says which requests stand where. The
steps are then sorted by what they do to the row: `Reading` describes those that
leave it alone, `Creating`, `Unlocking` and `Ending` those that write it, and the
further invariants are proved over these. `CodeInv`: who is about to store a
code created the row (`CodesMatch`). `AccessInv`: an activated row has been confirmed
since its last deactivation, and who is about to confirm has compared code and expiry
(`GuardHolds`). `BanInv`: after such a
deactivation no code exists and nobody is about to store or confirm one
(`BanLasts`). `ForceInv`: a lock a login meets at its second read runs at least to
the login's beginning (`LocksInForce`). `AttemptInv`, `LogoutInv`: while requests of
the kind come one at a time (`Alone`), the count is the number of wrong passwords
(`AttemptsLock`), and a logout's versions are the row's (`LogoutsLast`). Every
invariant a run of `Auth` passes is proved.

**KYC** (`KycProofs`). `TypeInv` adds to the types where requests stand (`StagesFit`)
and that whoever has read a row finds one (`ReadsFit`: rows are not deleted).
`OverlapsNoted`: two handlers in progress are in `crossed`, so the absence of a pair of
kinds there means that no other handler of the kind is under way. `StepCases` sorts
the steps into those that leave the row alone (`Calm`) and five that write it; over these
are proved `ReviewInv` (while no submission is under way, what a reviewer has read
is the row's data; gives `ApprovalsAreInformed`), `TradeInv` (who is
about to execute was let in by a verified row; `TradesAreGuarded`), `DataInv` (a
submission under way alone has read the row's data; `NoDataIsLost`) and `FileInv` (a
file about to be entered is complete; `UploadsAreKept`).

**Mail queue** (`EmailQueueProofs`). The invariant is a conjunction for each job and
each request. `JobInv` counts: a job has called `sendMail` at most `MaxSends` times for
each attempt made and each worker lost, plus what it has spent of the present
attempt (`Spent`); a job in `sent` has been delivered, `copies` is 1 at most there and
0 before. `RequestInv`: the first `added[r]` jobs of a batch are in the queue.
`WorkersFit`: jobs in progress have a worker. Gives `CompletionIsDelivery`,
`NoSecondNote`, `RetriesAreBounded`, `AnswersAreHonest`.

The refinement of `MailPromise` needs two more. `NoteInv`: unless completed, a job
has a noted copy exactly in `sent`; so `knownSent` is the set of jobs in `sent`
(`KnownIsSent`), and leaves no job but by `done` or a lost worker. `QuickInv`: only
a caller who does not wait has an answer while its jobs are being added. `Ask`, `Add`,
`AddFails` map to `Serve`, calls of `sendMail` to `Send` (bounded by `RetriesAreBounded`),
the loss of workers to `Forget`, whatever ends a job to `End`, backoff, promotion and
the life of servers to stutters. Gives `QueueKeepsPromise`.

**Users** (`UsersProofs`). Lemmas about finite lists come first: places in a list are
1 to its length (`EveryPlace`), so that a page behind which rows follow is full
(`FullSlice`). `TypeInv` adds where requests stand. `DbSteps` and `RedisSteps` sort the
steps by what they do to table and cache. `CreatorInv`: who counts a user is its only
creator, since the unique index lets one insert through (`NoCreationCountsTwice`).
`ProfilesFit`, `ListsFit`: an entry expires at most its time to live after it was
written, and a change since then is recent (`CacheIsBounded`). `WalkInv`: what a walk
has not seen yet lies behind the rows it has skipped, and as long as there is such a
row the page at hand is full and the link to the next one is given, whether the
count was read or left out (`WalksAreComplete`).

Every safety and action property that a passing run checks, and every refinement, is
the statement of a theorem. Only model-checked are the liveness properties
`RequestsAreAnswered`, `CallsReturn` and `JobsEnd`: fairness and ENABLED are out of the
prover's reach. What the theorems of one request at a time (`Concurrency = 1`) say is
false beyond, as the two violating runs show.

No module declares a RECURSIVE operator.

## 13. Limits

- Users exist and are not deleted; the guards before the controller (token,
  e-mail, KYC) are other components. A transfer body with an unsupported currency
  is one of the bodies that are not `WellFormed`.
- JavaScript numbers beyond 2^53 and the binary error of a product before
  `toFixed` are not modelled; amounts and rates are exact fractions.
- The ledger's column `rate` is not kept. The field `credit` of a row is not a
  column: it is the credited amount, kept for `LedgerBalance`.
- A COMMIT whose connection is lost is decided when the handler gets its error. That
  PostgreSQL may commit, or release the locks, a moment after the error has reached
  the client is not modelled.
- A failing statement of the lookup before the transaction is not an action: it changes
  nothing and ends the request. Nor is one of GET /wallet, whose only write, the empty
  NGN row, is made or not made whatever its client is told.
- `FxQuoteService` and the admin's debug quotes format what `getRateWithContext`
  returns. An API response for another base is not modelled.
- KYC is modelled for one user; rows of different users share nothing. Times and
  the reason of a rejection are left out, as is the list of pending rows.
- Bull is external: its order of jobs, its detection of stalled jobs that are not lost,
  and events are left out. A batch that is sent again is a new request, as its jobs get new
  ids.
- `connected` is one flag: all servers of `Users` lose their Redis client together. No
  property depends on a key being deleted, which is what a missing client prevents.
- Rows with equal sort keys are listed in an order that PostgreSQL chooses for each
  query; `RankAssumption` excludes them. Filters by role, sort parameters and the
  listing of transactions, which takes its pages in the same way, have no action of their
  own. `createBulkUsers` is modelled though no controller calls it.
- Not modelled: the HTTP shell (bootstrap, configuration, interceptors, audit log), which
  keeps no state and decides nothing but formats; reading `StorageService` operations,
  `findRole`, `getSkipTake` and `buildOrder`, which nothing calls.
- One account: requests of different accounts share no row. The validation of the
  administrator who deactivates another account is about that administrator's row and
  is left out. The mail of a code is taken to arrive, or somebody else's code to be
  tried: `verify` may come with any code at any time.

## 14. How to run

In this directory, with the community modules on the path:

    tlc -workers 2 -config MCWallet_concurrent.cfg MCWallet
    tlapm WalletProofs.tla

`PROJECT.json` lists the runs, the source lines of each definition, the
theorems, and for each checked property a mutated definition (an operator marked
"Fault:") under which the run must fail.
