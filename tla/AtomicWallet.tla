---------------------------- MODULE AtomicWallet ----------------------------
(***************************************************************************)
(* The wallet as its users think of it.  A request takes effect at once or *)
(* not at all: its amount leaves one account, and what the amount is worth *)
(* at a quoted rate enters the other.  No account is overdrawn.            *)
(***************************************************************************)
EXTENDS WalletRequests

CONSTANTS Requests, Opening, MaxBalance

VARIABLES
  req,      \* body of each request
  balance,  \* amount on each account
  applied   \* requests that have taken effect

vars == <<req, balance, applied>>

Init ==
  /\ req \in [Requests -> Offered]
  /\ balance = [a \in Accounts |-> IF a \in DOMAIN Opening THEN Opening[a] ELSE 0]
  /\ applied = {}

(* What the amount of a request is worth to whom it is credited.           *)
Worth(q) ==
  IF NeedsQuote(q) THEN {TargetAmount(q, rate) : rate \in Rates[q.from, q.to]}
                   ELSE {AmountStr(q)}

Leaves(q, a) == IF Debits(q) /\ a = DebitAccount(q) THEN AmountStr(q) ELSE 0

Execute(r) ==
  LET q == req[r]
  IN  /\ r \notin applied
      /\ WellFormed(q)
      /\ \E w \in Worth(q) :
           balance' = [a \in Accounts |-> (IF a = CreditAccount(q) THEN w ELSE 0)
                                            - Leaves(q, a) + balance[a]]
      /\ \A a \in Accounts : balance'[a] \in 0..MaxBalance
      /\ applied' = applied \union {r}
      /\ UNCHANGED req

Next == \E r \in Requests : Execute(r)

Spec == Init /\ [][Next]_vars
=============================================================================
