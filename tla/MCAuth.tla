------------------------------- MODULE MCAuth -------------------------------
(* Instances of Auth for TLC.  Every registration mails a code of its own, *)
(* which a client sends back or replaces by one that was never mailed.     *)
EXTENDS Auth, TLC

Ask(kind)  == [kind |-> kind, right |-> FALSE, code |-> NoCode]
Try(right) == [kind |-> "login", right |-> right, code |-> NoCode]
Use(code)  == [kind |-> "verify", right |-> FALSE, code |-> code]

MCOffered ==
  {Ask(kind) : kind \in {"register", "logout", "deactivate", "ban", "access"}}
    \union {Try(right) : right \in BOOLEAN}
    \union {Use(code) : code \in Codes \union {NoCode}}

(* Sessions alone: what a logout does to the tokens of other logins.       *)
MCSessions == {Ask("logout"), Try(TRUE)}

RequestSymmetry == Permutations(Requests)
=============================================================================
