-------------------------- MODULE IdempotentWrites --------------------------
(***************************************************************************)
(* What the wallet promises the clients of its writing endpoints.  A       *)
(* request takes effect at one instant or never.  Of all the requests that *)
(* carry the same key at most one takes effect.  A reply that names a      *)
(* transaction names either the request's own, after it took effect, or    *)
(* the one that took effect for the same user and key, and then the        *)
(* request itself never does.  Other replies (errors) promise nothing.     *)
(***************************************************************************)
CONSTANTS Requests, NoReq, NoKey, Bodies

VARIABLES
  req,      \* body of each request
  applied,  \* requests that have taken effect
  told      \* transaction named by the reply to each request

vars == <<req, applied, told>>

SameKey(r, s) == req[r].key = req[s].key /\ req[r].key # NoKey

Init ==
  /\ req \in [Requests -> Bodies]
  /\ applied = {}
  /\ told = [r \in Requests |-> NoReq]

Apply(r) ==
  /\ told[r] = NoReq
  /\ \A s \in applied : s # r /\ ~SameKey(r, s)
  /\ applied' = applied \union {r}
  /\ UNCHANGED <<req, told>>

Confirm(r) ==
  /\ r \in applied
  /\ told[r] = NoReq
  /\ told' = [told EXCEPT ![r] = r]
  /\ UNCHANGED <<req, applied>>

Replay(r) ==
  /\ r \notin applied
  /\ told[r] = NoReq
  /\ \E s \in applied :
       /\ SameKey(r, s)
       /\ req[r].user = req[s].user
       /\ told' = [told EXCEPT ![r] = s]
  /\ UNCHANGED <<req, applied>>

Next == \E r \in Requests : Apply(r) \/ Confirm(r) \/ Replay(r)

Spec == Init /\ [][Next]_vars
=============================================================================
