------------------------------ MODULE FxRates ------------------------------
(***************************************************************************)
(* FxRatesService: an in-memory cache of rate tables, one per base         *)
(* currency, in front of an HTTP API.  A call of the service is a process. *)
(* It runs without interruption except where it awaits the API or the      *)
(* delay before a retry; the map `cache` and the field `lastStale` are     *)
(* shared by all calls and lost when the server restarts.                  *)
(*                                                                         *)
(* A rate table is known by the base currency it was quoted for, the time  *)
(* at which the API quoted it and the codes it lists; the numbers in it    *)
(* are left out.  Time advances in steps of its own.                       *)
(***************************************************************************)
EXTENDS Integers

CONSTANTS
  Currencies,   \* SUPPORTED_CURRENCIES
  Listed,       \* the sets of codes the API may list in a response
  Calls,        \* ids of the calls of the service
  Offered,      \* the calls clients may make
  NoRates,      \* null
  TTL,          \* FX_CACHE_TTL_SECONDS
  Attempts,     \* RETRY_ATTEMPTS
  MaxTime,      \* bound: the last instant
  MaxRestarts   \* bound: restarts of the server

(* getRates (GET /fx/rates), getRate (the wallet) and getRateWithContext   *)
(* (GET /fx/quotes, the admin's quote-debug).                              *)
Call  == [kind : {"rates", "rate", "quote"}, from : Currencies, to : Currencies]
Table == [base : Currencies, at : Nat, codes : SUBSET Currencies]
Entry == [data : Table, expiresAt : Nat]

ASSUME ListedAssumption  == Listed \subseteq SUBSET Currencies
ASSUME OfferedAssumption == Offered \subseteq Call
ASSUME NoRatesAssumption == NoRates \notin Table /\ NoRates \notin Entry
ASSUME NumberAssumption  == /\ TTL \in Nat /\ MaxTime \in Nat /\ MaxRestarts \in Nat
                            /\ Attempts \in Nat \ {0}

VARIABLES
  asked,      \* what each call asks for
  stage,      \* what each call does next
  since,      \* `now` in each call: when it began
  tries,      \* attempts of each call that have failed
  response,   \* what the API has sent to each call, on its way
  result,     \* how each call ended
  cache,      \* cache: base -> entry
  lastStale,  \* the table fetched last, of whatever base
  now,        \* Date.now()
  restarts    \* restarts so far

shared == <<cache, lastStale>>
world  == <<asked, now, restarts>>
vars   == <<stage, since, tries, response, result, shared, world>>

Stages   == {"idle", "fetch", "receive", "wait", "done"}
Statuses == {"none", "answered", "unlisted", "down", "lost"}

InProgress == {c \in Calls : stage[c] \notin {"idle", "done"}}

TypeOK ==
  /\ asked \in [Calls -> Offered]
  /\ stage \in [Calls -> Stages]
  /\ since \in [Calls -> 0..MaxTime]
  /\ tries \in [Calls -> 0..(Attempts - 1)]
  /\ response \in [Calls -> Table \union {NoRates}]
  /\ result \in [Calls -> [status : Statuses, data : Table \union {NoRates},
                           stale : BOOLEAN]]
  /\ cache \in [Currencies -> Entry \union {NoRates}]
  /\ lastStale \in Table \union {NoRates}
  /\ now \in 0..MaxTime
  /\ restarts \in 0..MaxRestarts

Init ==
  /\ asked \in [Calls -> Offered]
  /\ stage = [c \in Calls |-> "idle"]
  /\ since = [c \in Calls |-> 0]
  /\ tries = [c \in Calls |-> 0]
  /\ response = [c \in Calls |-> NoRates]
  /\ result = [c \in Calls |-> [status |-> "none", data |-> NoRates, stale |-> FALSE]]
  /\ cache = [b \in Currencies |-> NoRates]
  /\ lastStale = NoRates
  /\ now = 0
  /\ restarts = 0

-----------------------------------------------------------------------------
Goto(c, s) == stage' = [stage EXCEPT ![c] = s]

Ends(c, status, data, stale) ==
  /\ Goto(c, "done")
  /\ result' = [result EXCEPT ![c] = [status |-> status, data |-> data, stale |-> stale]]
  /\ response' = [response EXCEPT ![c] = NoRates]
  /\ tries' = [tries EXCEPT ![c] = 0]

(* The rate the caller wants is in the table.  A table lists no rate for   *)
(* its own base; a quote for a pair of equal currencies is always 1.       *)
Lists(q, data) ==
  q.kind = "rates" \/ q.from = q.to \/ q.to \in data.codes

(* getRates returns data; getRate and getRateWithContext look the rate up  *)
(* and throw 'Rate not available' when there is none.                      *)
Answer(c, data, stale) ==
  Ends(c, IF Lists(asked[c], data) THEN "answered" ELSE "unlisted", data, stale)

Fresh(b) == cache[b] # NoRates /\ cache[b].expiresAt > now

(* getRate of a pair of equal currencies is 1. *)
SameCurrency(c) ==
  LET q == asked[c]
  IN  /\ stage[c] = "idle"
      /\ q.kind = "rate" /\ q.from = q.to
      /\ Ends(c, "answered", NoRates, FALSE)
      /\ since' = [since EXCEPT ![c] = now]
      /\ UNCHANGED <<shared, world>>

AsksForRates(c) ==
  stage[c] = "idle" /\ ~(asked[c].kind = "rate" /\ asked[c].from = asked[c].to)

ServeCached(c) ==
  LET b == asked[c].from
  IN  /\ AsksForRates(c)
      /\ Fresh(b)
      /\ Answer(c, cache[b].data, FALSE)
      /\ since' = [since EXCEPT ![c] = now]
      /\ UNCHANGED <<shared, world>>

StartFetch(c) ==
  /\ AsksForRates(c)
  /\ ~Fresh(asked[c].from)
  /\ Goto(c, "fetch")
  /\ since' = [since EXCEPT ![c] = now]
  /\ UNCHANGED <<tries, response, result, shared, world>>

(* The API answers; the response may take any time to arrive. *)
ApiQuotes(c) ==
  /\ stage[c] = "fetch"
  /\ \E codes \in Listed :
       response' = [response EXCEPT
         ![c] = [base |-> asked[c].from, at |-> now, codes |-> codes \ {asked[c].from}]]
  /\ Goto(c, "receive")
  /\ UNCHANGED <<since, tries, result, shared, world>>

(* Fault: the time to live counts from the arrival of the response. *)
RememberFromNow(c, data) ==
  /\ cache' = [cache EXCEPT ![asked[c].from] = [data |-> data, expiresAt |-> now + TTL]]
  /\ lastStale' = data

(* Fault: the table is cached but not kept for the fallback. *)
RememberFreshOnly(c, data) ==
  /\ cache' = [cache EXCEPT
       ![asked[c].from] = [data |-> data, expiresAt |-> since[c] + TTL]]
  /\ UNCHANGED lastStale

(* The time to live counts from the beginning of the call. *)
Remember(c, data) ==
  /\ cache' = [cache EXCEPT
       ![asked[c].from] = [data |-> data, expiresAt |-> since[c] + TTL]]
  /\ lastStale' = data

Receive(c) ==
  /\ stage[c] = "receive"
  /\ Remember(c, response[c])
  /\ Answer(c, response[c], FALSE)
  /\ UNCHANGED <<since, world>>

(* Fault: a retry starts the count again. *)
FailUncounted(c) == Goto(c, "wait") /\ UNCHANGED tries

(* Fault: one attempt too many. *)
FailTooOften(c) ==
  /\ tries[c] + 1 <= Attempts
  /\ tries' = [tries EXCEPT ![c] = @ + 1]
  /\ Goto(c, "wait")

(* One more attempt has failed, another is made after a delay. *)
Fail(c) ==
  /\ tries[c] + 1 < Attempts
  /\ tries' = [tries EXCEPT ![c] = @ + 1]
  /\ Goto(c, "wait")

(* The attempt fails: no connection, an HTTP error, a response without     *)
(* rates, or none within 10 seconds.                                       *)
AttemptFails(c) ==
  /\ stage[c] \in {"fetch", "receive"}
  /\ Fail(c)
  /\ response' = [response EXCEPT ![c] = NoRates]
  /\ UNCHANGED <<since, result, shared, world>>

Retry(c) ==
  /\ stage[c] = "wait"
  /\ Goto(c, "fetch")
  /\ UNCHANGED <<since, tries, response, result, shared, world>>

(* The last attempt has failed: the table fetched last, marked as stale,   *)
(* or 503 'FX rates temporarily unavailable'.                              *)
FallBack(c) ==
  /\ stage[c] \in {"fetch", "receive"}
  /\ tries[c] + 1 = Attempts
  /\ IF lastStale # NoRates THEN Answer(c, lastStale, TRUE)
                            ELSE Ends(c, "down", NoRates, FALSE)
  /\ UNCHANGED <<since, shared, world>>

-----------------------------------------------------------------------------
Tick ==
  /\ now < MaxTime
  /\ now' = now + 1
  /\ UNCHANGED <<stage, since, tries, response, result, shared, asked, restarts>>

(* The server restarts with an empty cache; nobody waits for the calls.    *)
Restart ==
  /\ restarts < MaxRestarts
  /\ restarts' = restarts + 1
  /\ stage' = [c \in Calls |-> IF c \in InProgress THEN "done" ELSE stage[c]]
  /\ result' = [c \in Calls |->
                 IF c \in InProgress
                 THEN [status |-> "lost", data |-> NoRates, stale |-> FALSE]
                 ELSE result[c]]
  /\ response' = [c \in Calls |-> NoRates]
  /\ cache' = [b \in Currencies |-> NoRates]
  /\ lastStale' = NoRates
  /\ tries' = [c \in Calls |-> 0]
  /\ UNCHANGED <<since, asked, now>>

Quiet ==
  /\ now = MaxTime
  /\ \A c \in Calls : stage[c] = "done"
  /\ UNCHANGED vars

Begin(c)   == SameCurrency(c) \/ ServeCached(c) \/ StartFetch(c)
Advance(c) == ApiQuotes(c) \/ Receive(c) \/ AttemptFails(c) \/ Retry(c) \/ FallBack(c)

Next ==
  \/ \E c \in Calls : Begin(c) \/ Advance(c)
  \/ Tick
  \/ Restart
  \/ Quiet

Spec == Init /\ [][Next]_vars

(* The timers of the retries and of the HTTP client fire, so that a call   *)
(* that has begun always has a next step; the API need not answer.         *)
FairSpec == Spec /\ \A c \in Calls : WF_vars(Advance(c))

-----------------------------------------------------------------------------
(* Properties. *)

(* Rates that are not marked as stale are rates of the base that was asked *)
(* for, quoted less than TTL before the call began: however late a         *)
(* response arrives and whichever response it overtakes or is overtaken    *)
(* by, the entry it leaves in the cache is not served for too long.        *)
UnmarkedRatesAreFresh ==
  \A c \in Calls :
    result[c].data # NoRates /\ ~result[c].stale =>
      /\ result[c].data.base = asked[c].from
      /\ result[c].data.at + TTL > since[c] \/ result[c].data.at >= since[c]

(* "503 when the upstream fails and there is no stale cache yet"           *)
(* (README.md:179): when a call is told that the rates are unavailable,    *)
(* nothing is cached for any base, by whichever call, expired or not.      *)
DownMeansNothingCached ==
  [][\A c \in Calls :
       result'[c].status = "down" /\ result[c].status # "down" =>
         \A b \in Currencies : cache[b] = NoRates]_vars

(* The service keeps RatePromise: each call is answered once, with a table *)
(* quoted while it ran, a held one that is young enough, or the one        *)
(* fetched last with the mark, however fetches overtake each other.        *)
Promise == INSTANCE RatePromise
             WITH begun  <- {c \in Calls : stage[c] # "idle"},
                  told   <- result,
                  held   <- {cache[b].data : b \in {x \in Currencies : cache[x] # NoRates}},
                  latest <- lastStale
KeepsRatePromise == Promise!Spec

(* Every call that has begun ends, although the API may never answer.      *)
CallsReturn == \A c \in Calls : (stage[c] = "fetch") ~> (stage[c] = "done")

(* "Exchange rate (1 source = rate target)" (fx-quote-response.dto.ts:37): *)
(* the rate of a pair is taken from a table quoted for the source.  The    *)
(* fallback takes it from the table fetched last, whatever its base.       *)
QuoteIsForRoute ==
  \A c \in Calls :
    /\ result[c].status = "answered"
    /\ asked[c].kind # "rates" /\ asked[c].from # asked[c].to
    => result[c].data.base = asked[c].from
=============================================================================
