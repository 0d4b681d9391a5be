------------------------------- MODULE MCUsers -------------------------------
(* Instances of Users for TLC: every kind of request, lists from the first *)
(* and from the second page, with limits that are missing, zero and above  *)
(* the maximum, and with and without the accounts that are hidden.         *)
EXTENDS Users, TLC

CONSTANTS a1, a2, a3

MCRank == (a1 :> 1) @@ (a2 :> 2) @@ (a3 :> 3)

Ask(kind) == [kind |-> kind, who |-> a2, entries |-> {}, isNew |-> TRUE,
              page |-> NoNumber, limit |-> NoNumber, all |-> FALSE]

MCOffered ==
  {Ask("profile"), Ask("seed"), [Ask("deactivate") EXCEPT !.who = a1],
   [Ask("bulk") EXCEPT !.entries = {a1, a2}],
   [Ask("bulk") EXCEPT !.entries = {a2}, !.isNew = FALSE],
   Ask("list"),
   [Ask("list") EXCEPT !.page = 2, !.limit = 0],
   [Ask("list") EXCEPT !.page = 0, !.limit = 3, !.all = TRUE]}

Symmetry == Permutations(Requests)
=============================================================================
