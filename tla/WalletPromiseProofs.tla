------------------------- MODULE WalletPromiseProofs -------------------------
(* The wallet implements IdempotentWrites, for every set of users, keys,   *)
(* requests and balances and however many requests run at a time.          *)
EXTENDS WalletProofs

(* The committed rows of a request carry its own key, one of them does,    *)
(* and a request is told of a transaction when it ends and not before.     *)
PromiseInv ==
  /\ \A x \in ledger :
       x.key # NoKey => x.key = req[x.tx].key /\ x.user = req[x.tx].user
  /\ \A x \in ledger : \E y \in ledger : y.tx = x.tx /\ y.key = req[x.tx].key
  /\ \A r \in Requests : answer[r].tx # NoReq => stage[r] = "done"

appliedNow == {x.tx : x \in ledger}
toldNow    == [r \in Requests |-> answer[r].tx]

LEMMA RowsOfRequests ==
  ASSUME TypeInv
  PROVE  \A x \in ledger : x.tx \in Requests
  BY DEF TypeInv, TypeOK, Row

(* The rows LedgerRows builds: all of r, of its key or of none, one of its key. *)
LEMMA RowsOfCommit ==
  ASSUME NEW r \in Requests
  PROVE  /\ \A x \in LedgerRows(r) :
              /\ x.tx = r
              /\ x.key # NoKey => x.key = req[r].key /\ x.user = req[r].user
         /\ \E y \in LedgerRows(r) : y.tx = r /\ y.key = req[r].key
  BY OwnRow

-----------------------------------------------------------------------------
(* What each action of the wallet is to a client: nothing, or one of the   *)
(* three actions of the promise.                                           *)

Unseen == req' = req /\ ledger' = ledger /\ toldNow' = toldNow

LEMMA UnseenFinish ==
  ASSUME TypeInv, PromiseInv, NEW r \in Requests, NEW status,
         Finish(r, status, NoReq), ledger' = ledger, stage[r] # "done"
  PROVE  Unseen /\ PromiseInv'
<1>1. /\ Moves(r, "done") /\ req' = req
      /\ answer' = [answer EXCEPT ![r] = [status |-> status, tx |-> NoReq]]
  BY GotoMoves DEF Finish
<1>2. answer[r].tx = NoReq
  BY DEF PromiseInv
<1>3. \A q \in Requests : answer'[q].tx = answer[q].tx
  BY <1>1, <1>2 DEF TypeInv, TypeOK
<1>4. toldNow' = toldNow
  BY <1>3 DEF toldNow
<1>5. \A q \in Requests : answer'[q].tx # NoReq => stage'[q] = "done"
  BY <1>1, <1>3 DEF PromiseInv, Moves
<1>6. QED
  BY <1>1, <1>4, <1>5 DEF Unseen, PromiseInv

LEMMA UnseenMove ==
  ASSUME TypeInv, PromiseInv, NEW r \in Requests, NEW s, Moves(r, s),
         stage[r] # "done", UNCHANGED <<req, answer, ledger>>
  PROVE  Unseen /\ PromiseInv'
<1>1. \A q \in Requests : answer[q].tx # NoReq => stage'[q] = "done"
  BY DEF PromiseInv, Moves
<1>2. QED
  BY <1>1 DEF Unseen, toldNow, PromiseInv

LEMMA UnseenCrash ==
  ASSUME TypeInv, PromiseInv, Crash
  PROVE  Unseen /\ PromiseInv'
<1>1. \A r \in Requests :
        /\ stage'[r] = IF stage[r] \in {"idle", "done"} THEN stage[r] ELSE "done"
        /\ answer'[r] = IF stage[r] \in {"idle", "done"} THEN answer[r]
                        ELSE [status |-> "lost", tx |-> NoReq]
  BY DEF Crash, InProgress
<1>2. req' = req /\ ledger' = ledger
  BY DEF Crash, committed
<1>3. \A r \in Requests : answer'[r].tx = answer[r].tx
  BY <1>1 DEF PromiseInv
<1>4. toldNow' = toldNow
  BY <1>3 DEF toldNow
<1>5. \A r \in Requests : answer'[r].tx # NoReq => stage'[r] = "done"
  BY <1>1, <1>3 DEF PromiseInv
<1>6. QED
  BY <1>2, <1>4, <1>5 DEF Unseen, PromiseInv

(* A commit applies the request, whether or not its answer arrives. *)
LEMMA CommitApplies ==
  ASSUME TypeInv, KeyInv, AnswerInv, PromiseInv, NEW r \in Requests,
         Commit(r) \/ CommitFails(r), Publish(r)
  PROVE  Promise!Apply(r) /\ PromiseInv'
<1>1. /\ stage[r] = "commit" /\ req' = req
      /\ ledger' = ledger \union LedgerRows(r)
  BY DEF Commit, CommitFails, Finish, Publish
<1>2. Moves(r, stage'[r])
  BY EachStepMovesOne DEF Handle, Transaction
<1>3. answer[r].tx = NoReq
  BY <1>1 DEF PromiseInv
<1>4. \A q \in Requests : answer'[q].tx = answer[q].tx
  BY <1>3 DEF Commit, CommitFails, Finish, TypeInv, TypeOK
<1>5. toldNow[r] = NoReq /\ toldNow' = toldNow
  BY <1>3, <1>4 DEF toldNow
<1>6. appliedNow' = appliedNow \union {r}
  BY <1>1, RowsOfCommit DEF appliedNow
<1>7. ASSUME NEW x \in ledger
      PROVE  x.tx # r /\ ~Promise!SameKey(r, x.tx)
  <2>1. x.tx # r
    BY <1>1 DEF AnswerInv
  <2>2. req[r].key = req[x.tx].key /\ req[r].key # NoKey => KeyTaken(req[r].key)
    BY DEF PromiseInv, KeyTaken
  <2>3. req[r].key # NoKey => ~KeyTaken(req[r].key)
    BY <1>1, RequestTyped DEF KeyInv, TypeInv
  <2>4. QED
    BY <2>1, <2>2, <2>3 DEF Promise!SameKey
<1>8. Promise!Apply(r)
  BY <1>1, <1>5, <1>6, <1>7 DEF Promise!Apply, toldNow, appliedNow
<1>9. \A x \in ledger' :
        x.key # NoKey => x.key = req[x.tx].key /\ x.user = req[x.tx].user
  BY <1>1, RowsOfCommit DEF PromiseInv
<1>10. \A x \in ledger' : \E y \in ledger' : y.tx = x.tx /\ y.key = req[x.tx].key
  BY <1>1, RowsOfCommit DEF PromiseInv
<1>11. \A q \in Requests : answer'[q].tx # NoReq => stage'[q] = "done"
  BY <1>2, <1>3, <1>4 DEF PromiseInv, Moves
<1>12. QED
  BY <1>1, <1>8, <1>9, <1>10, <1>11 DEF PromiseInv

(* A reply that names a transaction. *)
LEMMA Told ==
  ASSUME TypeInv, PromiseInv, NEW r \in Requests, NEW status,
         NEW tx \in Requests \union {NoReq}, Finish(r, status, tx),
         ledger' = ledger, stage[r] # "done"
  PROVE  /\ toldNow[r] = NoReq /\ toldNow' = [toldNow EXCEPT ![r] = tx]
         /\ UNCHANGED <<req, appliedNow>> /\ PromiseInv'
<1>1. /\ Moves(r, "done") /\ req' = req
      /\ answer' = [answer EXCEPT ![r] = [status |-> status, tx |-> tx]]
  BY GotoMoves DEF Finish
<1>2. \A q \in Requests : answer'[q].tx = IF q = r THEN tx ELSE answer[q].tx
  BY <1>1 DEF TypeInv, TypeOK
<1>3. toldNow[r] = NoReq /\ toldNow' = [toldNow EXCEPT ![r] = tx]
  BY <1>2 DEF toldNow, PromiseInv
<1>4. \A q \in Requests : answer'[q].tx # NoReq => stage'[q] = "done"
  BY <1>1, <1>2 DEF PromiseInv, Moves
<1>5. QED
  BY <1>1, <1>3, <1>4 DEF PromiseInv, appliedNow

LEMMA ReplyConfirms ==
  ASSUME TypeInv, AnswerInv, PromiseInv, NEW r \in Requests, Reply(r)
  PROVE  Promise!Confirm(r) /\ PromiseInv'
<1>1. Finish(r, "applied", r) /\ ledger' = ledger /\ stage[r] = "reply"
  BY DEF Reply, committed
<1>2. r \in appliedNow
  BY <1>1 DEF AnswerInv, appliedNow
<1>3. /\ toldNow[r] = NoReq /\ toldNow' = [toldNow EXCEPT ![r] = r]
      /\ UNCHANGED <<req, appliedNow>> /\ PromiseInv'
  BY <1>1, Told
<1>4. QED
  BY <1>2, <1>3 DEF Promise!Confirm, toldNow, appliedNow

LEMMA ReplayReplays ==
  ASSUME TypeInv, KeyInv, AnswerInv, PromiseInv, NEW r \in Requests, Replay(r)
  PROVE  Promise!Replay(r) /\ PromiseInv'
<1> DEFINE tx == record[req[r].user, req[r].key]
<1>1. Finish(r, "replayed", tx) /\ stage[r] = "lookup" /\ ledger' = ledger
  BY DEF Replay, committed
<1>2. req[r].user \in Users /\ req[r].key \in Keys /\ tx # NoReq
  BY RequestTyped DEF Replay, Stored, TypeInv
<1>3. tx \in Requests
  BY <1>2 DEF TypeInv, TypeOK
<1>4. \A u \in Users, k \in Keys :
        record[u, k] \in Requests => Applied(u, k, record[u, k])
  BY DEF KeyInv, RecordMatchesLedger
<1>5. Applied(req[r].user, req[r].key, tx)
  BY <1>2, <1>3, <1>4
<1> HIDE DEF tx
<1>6. PICK x \in ledger : x.user = req[r].user /\ x.key = req[r].key /\ x.tx = tx
  BY <1>5 DEF Applied
<1>7. req[tx].key = req[r].key /\ req[tx].user = req[r].user /\ req[r].key # NoKey
  BY <1>2, <1>6, KeyAssumption DEF PromiseInv
<1>8. tx \in appliedNow
  BY <1>6 DEF appliedNow
<1>9. r \notin appliedNow
  BY <1>1 DEF AnswerInv, appliedNow
<1>10. /\ toldNow[r] = NoReq /\ toldNow' = [toldNow EXCEPT ![r] = tx]
       /\ UNCHANGED <<req, appliedNow>> /\ PromiseInv'
  BY <1>1, <1>3, Told
<1>11. QED
  BY <1>7, <1>8, <1>9, <1>10
  DEF Promise!Replay, Promise!SameKey, toldNow, appliedNow
-----------------------------------------------------------------------------
LEMMA PromiseInit == Init => PromiseInv /\ Promise!Init
  BY DEF Init, PromiseInv, Promise!Init

LEMMA PromiseStep ==
  ASSUME TypeInv, KeyInv, AnswerInv, PromiseInv, [Next]_vars
  PROVE  [Promise!Next]_Promise!vars /\ PromiseInv'
<1>1. Unseen => UNCHANGED Promise!vars
  BY DEF Unseen, toldNow, Promise!vars
<1>2. ASSUME NEW r \in Requests,
             \/ Refuse(r) \/ QuoteFails(r) \/ ListBalances(r) \/ CreateConflict(r)
             \/ CreateDefault(r)
      PROVE  Unseen /\ PromiseInv'
  <2>1. PICK status \in {"refused", "listed", "conflict"} : Finish(r, status, NoReq)
    BY <1>2 DEF Refuse, QuoteFails, ListBalances, CreateConflict, CreateDefault
  <2>2. stage[r] # "done" /\ ledger' = ledger
    BY <1>2 DEF Refuse, QuoteFails, ListBalances, CreateConflict, CreateDefault, committed
  <2>3. QED
    BY <2>1, <2>2, UnseenFinish
<1>3. ASSUME NEW r \in Requests,
             \/ Arrive(r) \/ Proceed(r) \/ Quote(r) \/ NoBalances(r)
             \/ Debit(r) \/ ReadCredited(r) \/ CompareCredited(r)
             \/ UpdateCredited(r) \/ InsertCredited(r) \/ InsertLedger(r)
      PROVE  Unseen /\ PromiseInv'
  <2>1. /\ Moves(r, stage'[r]) /\ stage[r] # "done"
        /\ UNCHANGED <<req, answer, ledger>>
    BY <1>3, GotoMoves DEF Arrive, Proceed, Quote, NoBalances, Debit, ReadCredited,
                           CompareCredited, UpdateCredited, InsertCredited,
                           InsertLedger, committed
  <2>2. QED
    BY <2>1, UnseenMove
<1>4. ASSUME NEW r \in Requests, FindDefault(r)
      PROVE  Unseen /\ PromiseInv'
  <2>1. stage[r] = "find" /\ ledger' = ledger
    BY <1>4 DEF FindDefault, committed
  <2>2. CASE Finish(r, "listed", NoReq)
    BY <2>1, <2>2, UnseenFinish
  <2>3. CASE Goto(r, "create") /\ UNCHANGED <<req, answer, crashes, local>>
    BY <2>1, <2>3, GotoMoves, UnseenMove
  <2>4. QED
    BY <1>4, <2>2, <2>3 DEF FindDefault
<1>5. ASSUME NEW r \in Requests,
             \/ DebitRefused(r) \/ InsertConflict(r) \/ CreditOverflow(r)
             \/ LedgerConflict(r) \/ StatementFails(r) \/ DeadlockVictim(r)
             \/ CommitFails(r) /\ Rollback(r, "unknown")
      PROVE  Unseen /\ PromiseInv'
  <2>1. PICK status \in {"refused", "conflict", "aborted", "unknown"} : Rollback(r, status)
    BY <1>5 DEF DebitRefused, InsertConflict, CreditOverflow, LedgerConflict,
                StatementFails, DeadlockVictim
  <2>2. stage[r] # "done"
    BY <1>5 DEF DebitRefused, InsertConflict, CreditOverflow, LedgerConflict,
                StatementFails, InTransaction, DeadlockVictim, WaitsFor, CommitFails
  <2>3. QED
    BY <2>1, <2>2, UnseenFinish DEF Rollback, committed
<1>6. ASSUME NEW r \in Requests,
             \/ Commit(r) \/ Reply(r) \/ Replay(r)
             \/ CommitFails(r) /\ Publish(r)
      PROVE  Promise!Next /\ PromiseInv'
  <2>1. CASE Reply(r) \/ Replay(r)
    BY <2>1, ReplyConfirms, ReplayReplays DEF Promise!Next
  <2>2. CASE (Commit(r) \/ CommitFails(r)) /\ Publish(r)
    BY <2>2, CommitApplies DEF Promise!Next
  <2>3. QED
    BY <1>6, <2>1, <2>2 DEF Commit
<1>7. CASE UNCHANGED vars
  <2>1. UNCHANGED <<req, stage, answer, ledger>>
    BY <1>7 DEF vars, committed
  <2>2. QED
    BY <2>1 DEF PromiseInv, Promise!vars
<1>8. QED
  BY <1>1, <1>2, <1>3, <1>4, <1>5, <1>6, <1>7, UnseenCrash, CommitFailsCases
  DEF Next, Handle, BeforeTransaction, Transaction, GetBalances, Quiet

LEMMA PromiseInvariant == Spec => []PromiseInv
  BY TypeInvariant, KeyInvariant, AnswerInvariant, PromiseInit, PromiseStep, PTL
  DEF Spec

(* The wallet keeps its promise to clients: every request takes effect at  *)
(* its commit or never, at most one request per key does, and a reply      *)
(* names the transaction that did.                                         *)
THEOREM WalletKeepsPromise == Spec => KeepsPromise
  BY PromiseInit, PromiseStep, TypeInvariant, KeyInvariant, AnswerInvariant,
     PromiseInvariant, PTL
  DEF Spec, KeepsPromise, Promise!Spec
=============================================================================
