--------------------------- MODULE WalletRequests ---------------------------
(***************************************************************************)
(* What clients may ask of the wallet: the request bodies the controller   *)
(* passes to WalletService once the DTOs are validated, the checks the     *)
(* service makes on them before it touches the database, and the decimal   *)
(* arithmetic of amounts and rates.                                        *)
(*                                                                         *)
(* Money is an integer number of 1/10000 units, the scale of the columns   *)
(* decimal(18,4).  The amount of a request is a JavaScript number that may *)
(* carry more decimals than the column keeps: it is an integer number of   *)
(* 1/(10000*Fine) units.  A rate is a fraction <<numerator, denominator>>. *)
(***************************************************************************)
EXTENDS Integers

CONSTANTS
  Users,       \* ids of the users that exist
  NoUser,      \* an id that belongs to no user
  Currencies,  \* SUPPORTED_CURRENCIES
  NGN,         \* the currency every trade must involve
  Keys,        \* idempotency keys clients may send
  NoKey,       \* no key in the body (or a blank one)
  Fine,        \* sub-units of 0.0001 that the amount of a request may carry
  Rates,       \* the rates FxRatesService may quote for <<source, target>>
  Offered      \* the requests clients may send

Accounts == Users \X Currencies

(* TransactionType without its two P2P halves, P2P transfers (transfer     *)
(* with a toUserId) and GET /wallet.                                       *)
Kinds == {"fund", "conversion", "trade", "transfer", "p2p", "balances"}

(* peer is meaningful for "p2p" only, from for all but "fund", to for all  *)
(* but "p2p" (transfer ignores toCurrency when toUserId is given).  The    *)
(* DTOs let no amount below 0.0001 pass.                                   *)
Request == [kind : Kinds, user : Users, peer : Users \union {NoUser},
            from : Currencies, to : Currencies,
            amount : {n \in Nat : n >= Fine}, key : Keys \union {NoKey}]

ASSUME KeyAssumption  == NoKey \notin Keys
ASSUME UserAssumption == NoUser \notin Users
ASSUME NGNAssumption  == NGN \in Currencies
ASSUME FineAssumption == Fine \in Nat \ {0}
ASSUME RateAssumption ==
         Rates \in [Currencies \X Currencies
                      -> SUBSET ((Nat \ {0}) \X (Nat \ {0}))]
ASSUME OfferedAssumption == Offered \subseteq Request

(* convert and trade check the pair before the idempotency lookup;         *)
(* transfer checks its body after it.                                      *)
CheckedFirst(q) == q.kind \in {"conversion", "trade"}

WellFormed(q) ==
  CASE q.kind = "conversion" -> q.from # q.to
    [] q.kind = "trade"      -> NGN \in {q.from, q.to} /\ q.from # q.to
    [] q.kind = "transfer"   -> q.from # q.to
    [] q.kind = "p2p"        -> q.peer \in Users \ {q.user}
    [] OTHER                 -> TRUE

NeedsQuote(q) == q.kind \in {"conversion", "trade", "transfer"}
Debits(q)     == q.kind \notin {"fund", "balances"}

DebitAccount(q)  == <<q.user, q.from>>

(* Fault: a P2P transfer is credited to its sender. *)
CreditSender(q) == <<q.user, q.to>>

CreditAccount(q) == IF q.kind = "p2p" THEN <<q.peer, q.from>>
                                      ELSE <<q.user, q.to>>

(* toFixed(4): the nearest unit, halves upwards. *)
Round(n, d) == (2 * n + d) \div (2 * d)

AmountStr(q) == Round(q.amount, Fine)

(* Fault: the rate is applied the wrong way round. *)
TargetAmountInverted(q, rate) == Round(q.amount * rate[2], Fine * rate[1])

TargetAmount(q, rate) == Round(q.amount * rate[1], Fine * rate[2])
=============================================================================
