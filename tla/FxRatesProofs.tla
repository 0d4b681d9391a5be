--------------------------- MODULE FxRatesProofs ---------------------------
(* Theorems about FxRates, for every number of calls, currencies and       *)
(* attempts, every time to live, and whatever the API lists.               *)
EXTENDS FxRates, TLAPS

(* What is on its way to a call, or cached, is typed and where it belongs. *)
TypeInv ==
  /\ TypeOK
  /\ \A c \in Calls : stage[c] = "receive" => response[c] \in Table

LEMMA CallTyped ==
  ASSUME TypeOK, NEW c \in Calls
  PROVE  asked[c].from \in Currencies /\ asked[c].to \in Currencies
  BY OfferedAssumption DEF TypeOK, Call

LEMMA EndsType ==
  ASSUME TypeInv, NEW c \in Calls, NEW status \in Statuses,
         NEW data \in Table \union {NoRates}, NEW stale \in BOOLEAN,
         Ends(c, status, data, stale)
  PROVE  /\ stage' \in [Calls -> Stages]
         /\ tries' \in [Calls -> 0..(Attempts - 1)]
         /\ response' \in [Calls -> Table \union {NoRates}]
         /\ result' \in [Calls -> [status : Statuses, data : Table \union {NoRates},
                                   stale : BOOLEAN]]
         /\ \A d \in Calls : stage'[d] = "receive" => response'[d] \in Table
  BY NumberAssumption DEF TypeInv, TypeOK, Ends, Goto, Stages

LEMMA AnswerType ==
  ASSUME TypeInv, NEW c \in Calls, NEW data \in Table, NEW stale \in BOOLEAN,
         Answer(c, data, stale)
  PROVE  \E status \in Statuses : Ends(c, status, data, stale)
  BY DEF Answer, Statuses

LEMMA RememberType ==
  ASSUME TypeInv, NEW c \in Calls, NEW data \in Table, Remember(c, data)
  PROVE  /\ cache' \in [Currencies -> Entry \union {NoRates}]
         /\ lastStale' \in Table \union {NoRates}
<1>1. since[c] + TTL \in Nat
  BY NumberAssumption DEF TypeInv, TypeOK
<1>2. [data |-> data, expiresAt |-> since[c] + TTL] \in Entry
  BY <1>1 DEF Entry
<1>3. QED
  BY <1>2 DEF Remember, TypeInv, TypeOK

LEMMA TypeInit == Init => TypeInv
  BY NumberAssumption DEF Init, TypeInv, TypeOK, Stages, Statuses

LEMMA TypeBegin ==
  ASSUME TypeInv, NEW c \in Calls, Begin(c)
  PROVE  TypeInv'
<1>1. CASE SameCurrency(c)
  <2>1. Ends(c, "answered", NoRates, FALSE) /\ "answered" \in Statuses
    BY <1>1 DEF SameCurrency, Statuses
  <2>2. QED
    BY <1>1, <2>1, EndsType DEF SameCurrency, TypeInv, TypeOK, shared, world
<1>2. CASE ServeCached(c)
  <2>1. cache[asked[c].from].data \in Table
    BY <1>2, CallTyped DEF ServeCached, Fresh, TypeInv, TypeOK, Entry
  <2>2. PICK status \in Statuses : Ends(c, status, cache[asked[c].from].data, FALSE)
    BY <1>2, <2>1, AnswerType DEF ServeCached
  <2>3. QED
    BY <1>2, <2>1, <2>2, EndsType DEF ServeCached, TypeInv, TypeOK, shared, world
<1>3. CASE StartFetch(c)
  BY <1>3 DEF StartFetch, Goto, Stages, TypeInv, TypeOK, shared, world
<1>4. QED
  BY <1>1, <1>2, <1>3 DEF Begin

LEMMA TypeAdvance ==
  ASSUME TypeInv, NEW c \in Calls, Advance(c)
  PROVE  TypeInv'
<1>1. CASE ApiQuotes(c)
  <2>1. PICK codes \in Listed :
          response' = [response EXCEPT
            ![c] = [base |-> asked[c].from, at |-> now,
                    codes |-> codes \ {asked[c].from}]]
    BY <1>1 DEF ApiQuotes
  <2>2. codes \ {asked[c].from} \in SUBSET Currencies /\ now \in Nat
    BY ListedAssumption, NumberAssumption DEF TypeInv, TypeOK
  <2>3. [base |-> asked[c].from, at |-> now, codes |-> codes \ {asked[c].from}] \in Table
    BY <2>2, CallTyped DEF Table, TypeInv
  <2>4. QED
    BY <1>1, <2>1, <2>3 DEF ApiQuotes, Goto, Stages, TypeInv, TypeOK, shared, world
<1>2. CASE Receive(c)
  <2>1. response[c] \in Table
    BY <1>2 DEF Receive, TypeInv
  <2>2. PICK status \in Statuses : Ends(c, status, response[c], FALSE)
    BY <1>2, <2>1, AnswerType DEF Receive
  <2>3. /\ cache' \in [Currencies -> Entry \union {NoRates}]
        /\ lastStale' \in Table \union {NoRates}
    BY <1>2, <2>1, RememberType DEF Receive
  <2>4. QED
    BY <1>2, <2>1, <2>2, <2>3, EndsType DEF Receive, TypeInv, TypeOK, world
<1>3. CASE AttemptFails(c)
  BY <1>3, NumberAssumption
  DEF AttemptFails, Fail, Goto, Stages, TypeInv, TypeOK, shared, world
<1>4. CASE Retry(c)
  BY <1>4 DEF Retry, Goto, Stages, TypeInv, TypeOK, shared, world
<1>5. CASE FallBack(c)
  <2>1. CASE lastStale # NoRates
    <3>1. lastStale \in Table
      BY <2>1 DEF TypeInv, TypeOK
    <3>2. PICK status \in Statuses : Ends(c, status, lastStale, TRUE)
      BY <1>5, <2>1, <3>1, AnswerType DEF FallBack
    <3>3. QED
      BY <1>5, <3>1, <3>2, EndsType DEF FallBack, TypeInv, TypeOK, shared, world
  <2>2. CASE lastStale = NoRates
    <3>1. Ends(c, "down", NoRates, FALSE) /\ "down" \in Statuses
      BY <1>5, <2>2 DEF FallBack, Statuses
    <3>2. QED
      BY <1>5, <3>1, EndsType DEF FallBack, TypeInv, TypeOK, shared, world
  <2>3. QED
    BY <2>1, <2>2
<1>6. QED
  BY <1>1, <1>2, <1>3, <1>4, <1>5 DEF Advance

LEMMA TypeRestart ==
  ASSUME TypeInv, Restart
  PROVE  TypeInv'
<1>1. stage' \in [Calls -> Stages] /\ \A c \in Calls : stage'[c] # "receive"
  BY DEF Restart, InProgress, Stages, TypeInv, TypeOK
<1>2. result' \in [Calls -> [status : Statuses, data : Table \union {NoRates},
                             stale : BOOLEAN]]
  BY DEF Restart, Statuses, TypeInv, TypeOK
<1>3. tries' \in [Calls -> 0..(Attempts - 1)] /\ restarts' \in 0..MaxRestarts
  BY NumberAssumption DEF Restart, TypeInv, TypeOK
<1>4. QED
  BY <1>1, <1>2, <1>3 DEF Restart, TypeInv, TypeOK

LEMMA TypeStep ==
  ASSUME TypeInv, [Next]_vars
  PROVE  TypeInv'
<1>1. CASE Tick
  BY <1>1, NumberAssumption DEF Tick, TypeInv, TypeOK, shared
<1>2. CASE UNCHANGED vars
  BY <1>2 DEF vars, shared, world, TypeInv, TypeOK
<1>3. QED
  BY <1>1, <1>2, TypeBegin, TypeAdvance, TypeRestart DEF Next, Quiet

LEMMA TypeInvariant == Spec => []TypeInv
  BY TypeInit, TypeStep, PTL DEF Spec

(* Every reachable state of the service is well typed.                     *)
THEOREM FxTypeCorrect == Spec => []TypeOK
<1>1. TypeInv => TypeOK
  BY DEF TypeInv
<1>2. QED
  BY <1>1, TypeInvariant, PTL

-----------------------------------------------------------------------------
(* Age.  An entry expires no later than TTL after its table was quoted,    *)
(* because the time to live counts from the beginning of the call that     *)
(* fetched it; a response is quoted after its call began.                  *)
EntryInv ==
  \A b \in Currencies : cache[b] # NoRates =>
    /\ cache[b].data.base = b
    /\ cache[b].expiresAt <= cache[b].data.at + TTL

ResponseInv ==
  \A c \in Calls :
    /\ since[c] <= now
    /\ response[c] # NoRates =>
         response[c].base = asked[c].from /\ response[c].at >= since[c]
    /\ stage[c] = "idle" => response[c] = NoRates /\ result[c].data = NoRates

AgeInv == EntryInv /\ ResponseInv /\ UnmarkedRatesAreFresh

LEMMA AgeInit == Init => AgeInv
  BY DEF Init, AgeInv, EntryInv, ResponseInv, UnmarkedRatesAreFresh

(* A call that ends with fresh rates, or with marked ones, or with none. *)
LEMMA AgeEnds ==
  ASSUME TypeInv, ResponseInv, UnmarkedRatesAreFresh, NEW c \in Calls,
         NEW status, NEW data, NEW stale, Ends(c, status, data, stale),
         UNCHANGED <<asked, now>>, NEW t \in {since[c], now},
         since' = [since EXCEPT ![c] = t],
         data # NoRates /\ ~stale =>
           /\ data.base = asked[c].from
           /\ data.at + TTL > t \/ data.at >= t
  PROVE  ResponseInv' /\ UnmarkedRatesAreFresh'
<1>1. \A d \in Calls : since'[d] = IF d = c THEN t ELSE since[d]
  BY DEF TypeInv, TypeOK
<1>2. \A d \in Calls : response'[d] = IF d = c THEN NoRates ELSE response[d]
  BY DEF Ends, TypeInv, TypeOK
<1>3. \A d \in Calls :
        /\ result'[d].data = IF d = c THEN data ELSE result[d].data
        /\ result'[d].stale = IF d = c THEN stale ELSE result[d].stale
  BY DEF Ends, TypeInv, TypeOK
<1>4. since[c] \in Nat /\ now \in Nat
  BY NumberAssumption DEF TypeInv, TypeOK
<1>5. ResponseInv'
  <2>1. \A d \in Calls : stage'[d] = IF d = c THEN "done" ELSE stage[d]
    BY DEF Ends, Goto, TypeInv, TypeOK
  <2>2. QED
    BY <1>1, <1>2, <1>3, <1>4, <2>1 DEF ResponseInv
<1>6. UnmarkedRatesAreFresh'
  BY <1>1, <1>3 DEF UnmarkedRatesAreFresh
<1>7. QED
  BY <1>5, <1>6

LEMMA AgeBegin ==
  ASSUME TypeInv, AgeInv, NEW c \in Calls, Begin(c)
  PROVE  AgeInv'
<1>1. EntryInv'
  BY DEF Begin, SameCurrency, ServeCached, StartFetch, shared, AgeInv, EntryInv
<1>2. UNCHANGED <<asked, now>> /\ since' = [since EXCEPT ![c] = now]
  BY DEF Begin, SameCurrency, ServeCached, StartFetch, world
<1>3. CASE SameCurrency(c)
  BY <1>1, <1>2, <1>3, AgeEnds DEF SameCurrency, AgeInv
<1>4. CASE ServeCached(c)
  <2> DEFINE b == asked[c].from
  <2>1. b \in Currencies /\ cache[b] # NoRates /\ cache[b].expiresAt > now
    BY <1>4, CallTyped DEF ServeCached, Fresh, TypeInv
  <2>2. cache[b] \in Entry
    BY <2>1 DEF TypeInv, TypeOK
  <2>3. cache[b].data.at \in Nat /\ cache[b].expiresAt \in Nat /\ now \in Nat
    BY <2>2 DEF Entry, Table, TypeInv, TypeOK
  <2>4. cache[b].data.base = b /\ cache[b].data.at + TTL > now
    BY <2>1, <2>3, NumberAssumption DEF AgeInv, EntryInv
  <2>5. \E status \in Statuses : Ends(c, status, cache[b].data, FALSE)
    BY <1>4 DEF ServeCached, Answer, Statuses
  <2>6. QED
    BY <1>1, <1>2, <2>4, <2>5, AgeEnds DEF AgeInv
<1>5. CASE StartFetch(c)
  <2>1. UNCHANGED <<response, result>> /\ stage[c] = "idle"
    BY <1>5 DEF StartFetch, AsksForRates
  <2>2. \A d \in Calls : /\ stage'[d] = IF d = c THEN "fetch" ELSE stage[d]
                        /\ since'[d] = IF d = c THEN now ELSE since[d]
    BY <1>5 DEF StartFetch, Goto, TypeInv, TypeOK
  <2>3. now \in Nat
    BY DEF TypeInv, TypeOK
  <2>4. ResponseInv'
    BY <1>2, <2>1, <2>2, <2>3 DEF AgeInv, ResponseInv
  <2>5. UnmarkedRatesAreFresh'
    BY <1>2, <2>1, <2>2 DEF AgeInv, ResponseInv, UnmarkedRatesAreFresh
  <2>6. QED
    BY <1>1, <2>4, <2>5 DEF AgeInv
<1>6. QED
  BY <1>3, <1>4, <1>5 DEF Begin

LEMMA AgeReceive ==
  ASSUME TypeInv, AgeInv, NEW c \in Calls, Receive(c)
  PROVE  AgeInv'
<1>1. stage[c] = "receive" /\ response[c] \in Table /\ response[c] # NoRates
  BY NoRatesAssumption DEF Receive, TypeInv
<1>2. response[c].base = asked[c].from /\ response[c].at >= since[c]
  BY <1>1 DEF AgeInv, ResponseInv
<1>3. since[c] \in Nat /\ response[c].at \in Nat /\ now \in Nat
  BY <1>1 DEF TypeInv, TypeOK, Table
<1>4. \A b \in Currencies :
        cache'[b] = IF b = asked[c].from
                    THEN [data |-> response[c], expiresAt |-> since[c] + TTL]
                    ELSE cache[b]
  BY DEF Receive, Remember, TypeInv, TypeOK
<1>5. EntryInv'
  BY <1>2, <1>3, <1>4, NumberAssumption DEF AgeInv, EntryInv
<1>6. PICK status \in Statuses : Ends(c, status, response[c], FALSE)
  BY DEF Receive, Answer, Statuses
<1>7. UNCHANGED <<asked, now>> /\ since' = [since EXCEPT ![c] = since[c]]
  BY DEF Receive, world, TypeInv, TypeOK
<1>8. QED
  BY <1>2, <1>5, <1>6, <1>7, AgeEnds DEF AgeInv

LEMMA AgeFallBack ==
  ASSUME TypeInv, AgeInv, NEW c \in Calls, FallBack(c)
  PROVE  AgeInv'
<1>1. PICK status, data, stale :
        Ends(c, status, data, stale) /\ (data # NoRates => stale)
  BY DEF FallBack, Answer
<1>2. UNCHANGED <<asked, now>> /\ since' = [since EXCEPT ![c] = since[c]]
  BY DEF FallBack, world, TypeInv, TypeOK
<1>3. EntryInv'
  BY DEF FallBack, shared, AgeInv, EntryInv
<1>4. QED
  BY <1>1, <1>2, <1>3, AgeEnds DEF AgeInv

(* The steps of a call that neither end it nor touch what is shared. *)
LEMMA AgeWait ==
  ASSUME TypeInv, AgeInv, NEW c \in Calls, ApiQuotes(c) \/ AttemptFails(c) \/ Retry(c)
  PROVE  AgeInv'
<1>1. UNCHANGED <<asked, since, now, result, shared>> /\ stage[c] # "idle"
  BY DEF ApiQuotes, AttemptFails, Retry, world
<1>2. \A d \in Calls \ {c} : stage'[d] = stage[d]
  BY DEF ApiQuotes, AttemptFails, Fail, Retry, Goto, TypeInv, TypeOK
<1>3. stage'[c] # "idle"
  BY DEF ApiQuotes, AttemptFails, Fail, Retry, Goto, TypeInv, TypeOK
<1>4. \A d \in Calls \ {c} : response'[d] = response[d]
  BY DEF ApiQuotes, AttemptFails, Retry, TypeInv, TypeOK
<1>5. \/ response'[c] \in {response[c], NoRates}
      \/ response'[c].base = asked[c].from /\ response'[c].at = now
  BY DEF ApiQuotes, AttemptFails, Retry, TypeInv, TypeOK
<1>6. since[c] \in Nat /\ now \in Nat
  BY DEF TypeInv, TypeOK
<1>7. ResponseInv'
  BY <1>1, <1>2, <1>3, <1>4, <1>5, <1>6 DEF AgeInv, ResponseInv
<1>8. EntryInv' /\ UnmarkedRatesAreFresh'
  BY <1>1 DEF AgeInv, EntryInv, UnmarkedRatesAreFresh, shared
<1>9. QED
  BY <1>7, <1>8 DEF AgeInv

LEMMA AgeRestart ==
  ASSUME TypeInv, AgeInv, Restart
  PROVE  AgeInv'
<1>1. \A c \in Calls : /\ response'[c] = NoRates
                       /\ stage'[c] = "idle" => stage[c] = "idle"
                       /\ result'[c] = result[c] \/ result'[c].data = NoRates
  BY DEF Restart, InProgress
<1>2. UNCHANGED <<asked, since, now>> /\ \A b \in Currencies : cache'[b] = NoRates
  BY DEF Restart
<1>3. \A c \in Calls : result[c].data = NoRates => result'[c].data = NoRates
  BY <1>1
<1>4. ResponseInv' /\ EntryInv'
  BY <1>1, <1>2, <1>3 DEF AgeInv, ResponseInv, EntryInv
<1>5. UnmarkedRatesAreFresh'
  BY <1>1, <1>2 DEF AgeInv, UnmarkedRatesAreFresh
<1>6. QED
  BY <1>4, <1>5 DEF AgeInv

LEMMA AgeStep ==
  ASSUME TypeInv, AgeInv, [Next]_vars
  PROVE  AgeInv'
<1>1. CASE Tick
  <2>1. UNCHANGED <<asked, stage, since, response, result, cache>> /\ now' = now + 1
    BY <1>1 DEF Tick, shared
  <2>2. now \in Nat /\ \A c \in Calls : since[c] \in Nat
    BY DEF TypeInv, TypeOK
  <2>3. QED
    BY <2>1, <2>2 DEF AgeInv, EntryInv, ResponseInv, UnmarkedRatesAreFresh
<1>2. CASE UNCHANGED vars
  BY <1>2 DEF vars, shared, world, AgeInv, EntryInv, ResponseInv, UnmarkedRatesAreFresh
<1>3. QED
  BY <1>1, <1>2, AgeBegin, AgeReceive, AgeFallBack, AgeWait, AgeRestart
  DEF Next, Advance, Quiet

LEMMA AgeInvariant == Spec => []AgeInv
  BY TypeInvariant, AgeInit, AgeStep, PTL DEF Spec

(* Rates that are not marked as stale belong to the base asked for and are *)
(* less than TTL old when the call begins, however late responses arrive   *)
(* and in whatever order.                                                  *)
THEOREM UnmarkedRatesFresh == Spec => []UnmarkedRatesAreFresh
<1>1. AgeInv => UnmarkedRatesAreFresh
  BY DEF AgeInv
<1>2. QED
  BY <1>1, AgeInvariant, PTL

-----------------------------------------------------------------------------
(* Outage.  Once anything is cached there is a table to fall back on.      *)
FallbackInv == lastStale = NoRates => \A b \in Currencies : cache[b] = NoRates

LEMMA FallbackStep ==
  ASSUME TypeInv, FallbackInv, [Next]_vars
  PROVE  FallbackInv'
<1>1. CASE \E c \in Calls : Receive(c)
  <2>1. PICK c \in Calls : Receive(c)
    BY <1>1
  <2>2. response[c] \in Table /\ lastStale' = response[c]
    BY <2>1 DEF Receive, Remember, TypeInv
  <2>3. QED
    BY <2>2, NoRatesAssumption DEF FallbackInv
<1>2. CASE Restart
  BY <1>2 DEF Restart, FallbackInv
<1>3. CASE ~Restart /\ ~\E c \in Calls : Receive(c)
  <2>1. UNCHANGED shared
    BY <1>3 DEF Next, Begin, Advance, SameCurrency, ServeCached, StartFetch, ApiQuotes,
                AttemptFails, Retry, FallBack, Tick, Quiet, vars
  <2>2. QED
    BY <2>1 DEF shared, FallbackInv
<1>4. QED
  BY <1>1, <1>2, <1>3

LEMMA FallbackInvariant == Spec => []FallbackInv
<1>1. Init => FallbackInv
  BY DEF Init, FallbackInv
<1>2. QED
  BY <1>1, TypeInvariant, FallbackStep, PTL DEF Spec

(* A call that ends with "down" ends in FallBack without a table. *)
LEMMA OnlyOutage ==
  ASSUME TypeInv, [Next]_vars, NEW c \in Calls,
         result'[c].status = "down", result[c].status # "down"
  PROVE  lastStale = NoRates
<1>1. result'[c] # result[c]
  OBVIOUS
<1>2. ~Restart
  BY <1>1 DEF Restart
<1>3. PICK d \in Calls : SameCurrency(d) \/ ServeCached(d) \/ Receive(d) \/ FallBack(d)
  BY <1>1, <1>2 DEF Next, Begin, Advance, StartFetch, ApiQuotes, AttemptFails, Retry,
                    Tick, Quiet, vars
<1>4. ASSUME NEW status, NEW data, NEW stale, Ends(d, status, data, stale)
      PROVE  status = "down"
  BY <1>1, <1>4 DEF Ends, TypeInv, TypeOK
<1>5. ~(SameCurrency(d) \/ ServeCached(d) \/ Receive(d))
  BY <1>4 DEF SameCurrency, ServeCached, Receive, Answer
<1>6. QED
  BY <1>3, <1>4, <1>5 DEF FallBack, Answer

(* Clients are told that the rates are unavailable only when nothing has   *)
(* been fetched since the server started.                                  *)
THEOREM OutageMeansNothingCached == Spec => DownMeansNothingCached
<1>1. TypeInv /\ FallbackInv /\ [Next]_vars =>
        [\A c \in Calls :
           result'[c].status = "down" /\ result[c].status # "down" =>
             \A b \in Currencies : cache[b] = NoRates]_vars
  BY OnlyOutage DEF FallbackInv
<1>2. QED
  BY <1>1, TypeInvariant, FallbackInvariant, PTL DEF Spec, DownMeansNothingCached

-----------------------------------------------------------------------------
(* The service keeps RatePromise.  A call that has not ended has not been  *)
(* told anything, and what is on its way to it was quoted while it ran.    *)
CallInv ==
  \A c \in Calls :
    /\ result[c].status = "none" <=> stage[c] # "done"
    /\ response[c] # NoRates => response[c].at <= now

(* Call c ends; the others go on. *)
LEMMA CallEnds ==
  ASSUME TypeInv, CallInv, NEW c \in Calls, NEW status \in Statuses \ {"none"},
         NEW data, NEW stale, Ends(c, status, data, stale), now' = now
  PROVE  CallInv'
<1>1. \A d \in Calls : stage'[d] = IF d = c THEN "done" ELSE stage[d]
  BY DEF Ends, Goto, TypeInv, TypeOK
<1>2. \A d \in Calls : response'[d] = IF d = c THEN NoRates ELSE response[d]
  BY DEF Ends, TypeInv, TypeOK
<1>3. \A d \in Calls : result'[d].status = IF d = c THEN status ELSE result[d].status
  BY DEF Ends, TypeInv, TypeOK
<1>4. QED
  BY <1>1, <1>2, <1>3 DEF CallInv

(* Call c moves on without an end. *)
LEMMA CallMoves ==
  ASSUME TypeInv, CallInv, NEW c \in Calls, stage[c] # "done",
         NEW s \in Stages \ {"done"}, Goto(c, s), UNCHANGED <<result, now>>,
         \A d \in Calls : response'[d] # NoRates =>
                            response'[d] = response[d] \/ response'[d].at = now
  PROVE  CallInv'
<1>1. \A d \in Calls : stage'[d] = IF d = c THEN s ELSE stage[d]
  BY DEF Goto, TypeInv, TypeOK
<1>2. now \in Nat
  BY DEF TypeInv, TypeOK
<1>3. QED
  BY <1>1, <1>2 DEF CallInv

LEMMA CallBegin ==
  ASSUME TypeInv, CallInv, NEW c \in Calls, Begin(c)
  PROVE  CallInv'
<1>1. CASE SameCurrency(c)
  BY <1>1, CallEnds DEF SameCurrency, Statuses, world
<1>2. CASE ServeCached(c)
  BY <1>2, CallEnds DEF ServeCached, Answer, Statuses, world
<1>3. CASE StartFetch(c)
  BY <1>3, CallMoves DEF StartFetch, AsksForRates, Stages, world
<1>4. QED
  BY <1>1, <1>2, <1>3 DEF Begin

LEMMA CallAdvance ==
  ASSUME TypeInv, CallInv, NEW c \in Calls, Advance(c)
  PROVE  CallInv'
<1>1. CASE Receive(c)
  BY <1>1, CallEnds DEF Receive, Answer, Statuses, world
<1>2. CASE FallBack(c)
  BY <1>2, CallEnds DEF FallBack, Answer, Statuses, world
<1>3. CASE ApiQuotes(c)
  <2>1. \A d \in Calls : response'[d] = response[d] \/ response'[d].at = now
    BY <1>3 DEF ApiQuotes, TypeInv, TypeOK
  <2>2. QED
    BY <1>3, <2>1, CallMoves DEF ApiQuotes, Stages, world
<1>4. CASE AttemptFails(c) \/ Retry(c)
  <2>1. \A d \in Calls : response'[d] # NoRates => response'[d] = response[d]
    BY <1>4 DEF AttemptFails, Retry, TypeInv, TypeOK
  <2>2. QED
    BY <1>4, <2>1, CallMoves DEF AttemptFails, Fail, Retry, Stages, world
<1>5. QED
  BY <1>1, <1>2, <1>3, <1>4 DEF Advance

LEMMA CallStep ==
  ASSUME TypeInv, CallInv, [Next]_vars
  PROVE  CallInv'
<1>1. CASE Tick
  <2>1. now' = now + 1 /\ UNCHANGED <<stage, response, result>>
    BY <1>1 DEF Tick
  <2>2. now \in Nat /\ \A c \in Calls : response[c] # NoRates => response[c].at \in Nat
    BY DEF TypeInv, TypeOK, Table
  <2>3. QED
    BY <2>1, <2>2 DEF CallInv
<1>2. CASE Restart
  <2>1. \A c \in Calls :
          /\ response'[c] = NoRates
          /\ stage'[c] = IF c \in InProgress THEN "done" ELSE stage[c]
          /\ result'[c].status = IF c \in InProgress THEN "lost" ELSE result[c].status
    BY <1>2 DEF Restart
  <2>2. QED
    BY <2>1 DEF CallInv
<1>3. CASE UNCHANGED vars
  BY <1>3 DEF vars, world, CallInv
<1>4. QED
  BY <1>1, <1>2, <1>3, CallBegin, CallAdvance DEF Next, Quiet

LEMMA CallInvariant == Spec => []CallInv
<1>1. Init => CallInv
  BY DEF Init, CallInv
<1>2. QED
  BY <1>1, CallStep, TypeInvariant, PTL DEF Spec

-----------------------------------------------------------------------------
(* The step simulation.                                                    *)
Begun == {c \in Calls : stage[c] # "idle"}
Held  == {cache[b].data : b \in {x \in Currencies : cache[x] # NoRates}}

LEMMA EndTells ==
  ASSUME TypeInv, CallInv, NEW c \in Calls, stage[c] # "done",
         NEW status, NEW data, NEW stale, Ends(c, status, data, stale)
  PROVE  Promise!Tell(c, status, data, stale) /\ Begun' = Begun \union {c}
<1>1. \A d \in Calls : stage'[d] = IF d = c THEN "done" ELSE stage[d]
  BY DEF Ends, Goto, TypeInv, TypeOK
<1>2. QED
  BY <1>1 DEF Ends, CallInv, Begun, Promise!Tell

LEMMA AnswerDelivers ==
  ASSUME TypeInv, CallInv, NEW c \in Calls, stage[c] # "done",
         NEW data \in Table, NEW stale, Answer(c, data, stale)
  PROVE  Promise!Deliver(c, data, stale) /\ Begun' = Begun \union {c}
<1>1. Lists(asked[c], data) <=> Promise!Wanted(asked[c]) \subseteq data.codes
  BY DEF Lists, Promise!Wanted
<1>2. QED
  BY <1>1, EndTells DEF Answer, Promise!Deliver

LEMMA BeginBegins ==
  ASSUME TypeInv, AgeInv, CallInv, NEW c \in Calls, Begin(c)
  PROVE  Promise!Begin(c)
<1>1. /\ stage[c] = "idle" /\ since' = [since EXCEPT ![c] = now]
      /\ UNCHANGED <<asked, shared, now>>
  BY DEF Begin, SameCurrency, ServeCached, StartFetch, AsksForRates, world
<1>2. c \notin Begun /\ UNCHANGED <<asked, Held, lastStale, now>>
  BY <1>1 DEF Begun, Held, shared
<1>3. /\ Begun' = Begun \union {c}
      /\ Promise!NeedsNoTable(c) \/ Promise!Serve(c) \/ UNCHANGED result
  <2>1. CASE SameCurrency(c)
    BY <1>1, <2>1, EndTells DEF SameCurrency, Promise!NeedsNoTable
  <2>2. CASE ServeCached(c)
    <3> DEFINE b == asked[c].from
    <3>1. b \in Currencies /\ cache[b] # NoRates /\ cache[b].expiresAt > now
      BY <2>2, CallTyped DEF ServeCached, Fresh, TypeInv
    <3>2. cache[b] \in Entry
      BY <3>1 DEF TypeInv, TypeOK
    <3>3. cache[b].data.base = b /\ cache[b].data.at + TTL > now
      BY <3>1, <3>2, NumberAssumption
      DEF AgeInv, EntryInv, Entry, Table, TypeInv, TypeOK
    <3>4. Promise!Deliver(c, cache[b].data, FALSE) /\ Begun' = Begun \union {c}
      BY <1>1, <2>2, <3>2, AnswerDelivers DEF ServeCached, Entry
    <3>5. cache[b].data \in Held
      BY <3>1 DEF Held
    <3>6. QED
      BY <3>3, <3>4, <3>5 DEF Promise!Serve, Held
  <2>3. CASE StartFetch(c)
    BY <1>1, <2>3 DEF StartFetch, Goto, Begun, TypeInv, TypeOK
  <2>4. QED
    BY <2>1, <2>2, <2>3 DEF Begin
<1>4. QED
  BY <1>1, <1>2, <1>3 DEF Promise!Begin, Begun, Held

LEMMA ReceiveFetches ==
  ASSUME TypeInv, AgeInv, CallInv, NEW c \in Calls, Receive(c)
  PROVE  Promise!Fetch(c)
<1> DEFINE b == asked[c].from
           t == response[c]
<1>1. stage[c] = "receive" /\ t \in Table /\ t # NoRates /\ lastStale' = t
  BY NoRatesAssumption DEF Receive, Remember, TypeInv
<1>2. c \in Begun /\ UNCHANGED <<asked, since, now>>
  BY <1>1 DEF Receive, world, Begun
<1>3. t \in Promise!Quotes(c)
  <2>1. t.base = b /\ t.at \in since[c]..now /\ t.codes \in SUBSET Currencies
    BY <1>1 DEF AgeInv, ResponseInv, CallInv, Table, TypeInv, TypeOK
  <2>2. QED
    BY <1>1, <2>1 DEF Table, Promise!Quotes
<1>4. Promise!Deliver(c, t, FALSE) /\ Begun' = Begun
  BY <1>1, <1>2, AnswerDelivers DEF Receive
<1>5. \A x \in Currencies :
        cache'[x] = IF x = b THEN [data |-> t, expiresAt |-> since[c] + TTL] ELSE cache[x]
  BY DEF Receive, Remember, TypeInv, TypeOK
<1>6. b \in Currencies /\ cache'[b] # NoRates
  <2>1. since[c] + TTL \in Nat
    BY NumberAssumption DEF TypeInv, TypeOK
  <2>2. b \in Currencies /\ cache'[b] \in Entry
    BY <1>1, <1>5, <2>1, CallTyped DEF Entry, TypeInv
  <2>3. QED
    BY <2>2, NoRatesAssumption
<1>7. t \in Held' /\ Held' \subseteq Held \union {t}
  BY <1>5, <1>6 DEF Held
<1>8. QED
  BY <1>1, <1>2, <1>3, <1>4, <1>7 DEF Promise!Fetch, Begun, Held

LEMMA FallBackFallsBack ==
  ASSUME TypeInv, CallInv, NEW c \in Calls, FallBack(c)
  PROVE  Promise!FallBack(c)
<1>1. stage[c] \notin {"idle", "done"} /\ c \in Begun
  BY DEF FallBack, Begun
<1>2. UNCHANGED <<asked, since, Held, lastStale, now>>
  BY DEF FallBack, shared, world, Held
<1>3. CASE lastStale = NoRates
  <2>1. Promise!Tell(c, "down", NoRates, FALSE) /\ Begun' = Begun
    BY <1>1, <1>3, EndTells DEF FallBack
  <2>2. QED
    BY <1>1, <1>2, <1>3, <2>1 DEF Promise!FallBack, Begun, Held
<1>4. CASE lastStale # NoRates
  <2>1. Promise!Deliver(c, lastStale, TRUE) /\ Begun' = Begun
    <3>1. lastStale \in Table /\ Answer(c, lastStale, TRUE)
      BY <1>4 DEF FallBack, TypeInv, TypeOK
    <3>2. Promise!Deliver(c, lastStale, TRUE) /\ Begun' = Begun \union {c}
      BY <1>1, <3>1, AnswerDelivers
    <3>3. QED
      BY <1>1, <3>2
  <2>2. QED
    BY <1>1, <1>2, <1>4, <2>1 DEF Promise!FallBack, Begun, Held
<1>5. QED
  BY <1>3, <1>4

LEMMA RestartRestarts ==
  ASSUME CallInv, Restart
  PROVE  Promise!Restart
<1>1. Held' = {} /\ lastStale' = NoRates /\ UNCHANGED <<asked, since, now>>
  BY DEF Restart, Held
<1>2. Begun' = Begun
  BY DEF Restart, InProgress, Begun
<1>3. \A c \in Calls : c \in InProgress <=> c \in Begun /\ result[c].status = "none"
  BY DEF InProgress, Begun, CallInv
<1>4. result' = [c \in Calls |->
                  IF c \in Begun /\ result[c].status = "none"
                  THEN [status |-> "lost", data |-> NoRates, stale |-> FALSE]
                  ELSE result[c]]
  BY <1>3 DEF Restart
<1>5. QED
  BY <1>1, <1>2, <1>4 DEF Promise!Restart, Begun, Held

(* Waiting for the API, or for the delay before a retry, is not seen.      *)
LEMMA WaitingIsUnseen ==
  ASSUME TypeInv, NEW c \in Calls, ApiQuotes(c) \/ AttemptFails(c) \/ Retry(c)
  PROVE  UNCHANGED Promise!vars
<1>1. UNCHANGED <<asked, since, result, shared, now>> /\ c \in Begun
  BY DEF ApiQuotes, AttemptFails, Retry, world, Begun
<1>2. PICK s \in {"receive", "wait", "fetch"} : Goto(c, s)
  BY DEF ApiQuotes, AttemptFails, Fail, Retry
<1>3. Begun' = Begun
  BY <1>1, <1>2 DEF Goto, Begun, TypeInv, TypeOK
<1>4. QED
  BY <1>1, <1>3 DEF Promise!vars, Begun, Held, shared

LEMMA PromiseInit == Init => Promise!Init
  BY DEF Init, Promise!Init

LEMMA PromiseStep ==
  ASSUME TypeInv, AgeInv, CallInv, [Next]_vars
  PROVE  [Promise!Next]_Promise!vars
<1>1. ASSUME NEW c \in Calls, Begin(c)
      PROVE  Promise!Next
  BY <1>1, BeginBegins DEF Promise!Next
<1>2. ASSUME NEW c \in Calls, Advance(c)
      PROVE  [Promise!Next]_Promise!vars
  BY <1>2, ReceiveFetches, FallBackFallsBack, WaitingIsUnseen DEF Advance, Promise!Next
<1>3. CASE Tick
  BY <1>3 DEF Tick, shared, Promise!Next, Promise!Tick
<1>4. CASE Restart
  BY <1>4, RestartRestarts DEF Promise!Next
<1>5. CASE UNCHANGED vars
  BY <1>5 DEF vars, shared, world, Promise!vars
<1>6. QED
  BY <1>1, <1>2, <1>3, <1>4, <1>5 DEF Next, Quiet

(* The rates service implements RatePromise: callers are told tables that  *)
(* were quoted while they waited, held ones that are young enough, or the  *)
(* last one with the mark, for any number of calls, failures and restarts. *)
THEOREM ServiceKeepsPromise == Spec => KeepsRatePromise
  BY PromiseInit, PromiseStep, TypeInvariant, AgeInvariant, CallInvariant, PTL
  DEF Spec, KeepsRatePromise, Promise!Spec
=============================================================================
