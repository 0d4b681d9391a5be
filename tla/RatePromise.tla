---------------------------- MODULE RatePromise ----------------------------
(***************************************************************************)
(* What the rates service promises its callers, whatever becomes of the    *)
(* requests it makes.  A call is answered once: with a table quoted for    *)
(* its base while it ran, or with one that is held and was quoted less     *)
(* than TTL before it began; failing that with the table fetched last,     *)
(* marked as stale; and refused when there is none.  A restart loses all   *)
(* tables and the calls that have begun.                                   *)
(***************************************************************************)
EXTENDS Integers

CONSTANTS Currencies, Calls, Offered, NoRates, TTL

VARIABLES
  asked,   \* what each call asks for
  begun,   \* calls that have begun
  since,   \* when they did
  told,    \* what each call was told
  held,    \* tables that are held to be served again
  latest,  \* the table fetched last, if any since the last restart
  now      \* the time

vars == <<asked, begun, since, told, held, latest, now>>

Init ==
  /\ asked \in [Calls -> Offered]
  /\ begun = {}
  /\ since = [c \in Calls |-> 0]
  /\ told = [c \in Calls |-> [status |-> "none", data |-> NoRates, stale |-> FALSE]]
  /\ held = {}
  /\ latest = NoRates
  /\ now = 0

Tell(c, status, data, stale) ==
  /\ told[c].status = "none"
  /\ told' = [told EXCEPT ![c] = [status |-> status, data |-> data, stale |-> stale]]

(* The codes a table must list to be of use to the caller.                 *)
Wanted(q) == IF q.kind = "rates" \/ q.from = q.to THEN {} ELSE {q.to}

Deliver(c, table, stale) ==
  Tell(c, IF Wanted(asked[c]) \subseteq table.codes THEN "answered" ELSE "unlisted",
       table, stale)

NeedsNoTable(c) ==
  /\ asked[c].kind = "rate" /\ asked[c].from = asked[c].to
  /\ Tell(c, "answered", NoRates, FALSE)

Serve(c) ==
  \E table \in held :
    /\ table.base = asked[c].from
    /\ table.at + TTL > now
    /\ Deliver(c, table, FALSE)

Begin(c) ==
  /\ c \notin begun
  /\ begun' = begun \union {c}
  /\ since' = [since EXCEPT ![c] = now]
  /\ NeedsNoTable(c) \/ Serve(c) \/ UNCHANGED told
  /\ UNCHANGED <<asked, held, latest, now>>

(* The tables that the API may quote while the call runs.                  *)
Quotes(c) ==
  [base : {asked[c].from}, at : since[c]..now, codes : SUBSET Currencies]

Fetch(c) ==
  /\ c \in begun
  /\ latest' \in Quotes(c)
  /\ Deliver(c, latest', FALSE)
  /\ latest' \in held' /\ held' \subseteq held \union {latest'}
  /\ UNCHANGED <<asked, begun, since, now>>

FallBack(c) ==
  /\ c \in begun
  /\ IF latest = NoRates THEN Tell(c, "down", NoRates, FALSE)
                         ELSE Deliver(c, latest, TRUE)
  /\ UNCHANGED <<asked, begun, since, held, latest, now>>

Restart ==
  /\ held' = {}
  /\ latest' = NoRates
  /\ told' = [c \in Calls |->
                IF c \in begun /\ told[c].status = "none"
                THEN [status |-> "lost", data |-> NoRates, stale |-> FALSE]
                ELSE told[c]]
  /\ UNCHANGED <<asked, begun, since, now>>

Tick == now' = now + 1 /\ UNCHANGED <<asked, begun, since, told, held, latest>>

Next ==
  \/ \E c \in Calls : Begin(c) \/ Fetch(c) \/ FallBack(c)
  \/ Restart
  \/ Tick

Spec == Init /\ [][Next]_vars
=============================================================================
