-------------------------------- MODULE MCKyc --------------------------------
(* Instances of Kyc for TLC: submissions of any fields, uploads of both    *)
(* documents, both verdicts, trades, and requests of the wrong role.       *)
EXTENDS Kyc, TLC

Ask(kind) == [kind |-> kind, admin |-> FALSE, gives |-> {},
              document |-> "id", verdict |-> "verified"]

MCOffered ==
  {[Ask("submit") EXCEPT !.gives = given] : given \in SUBSET Fields}
    \union {[Ask("upload") EXCEPT !.document = d] : d \in Documents}
    \union {[Ask("review") EXCEPT !.admin = TRUE, !.verdict = v] :
              v \in {"verified", "rejected"}}
    \union {Ask("review"), Ask("trade"), [Ask("trade") EXCEPT !.admin = TRUE]}

Symmetry == Permutations(Requests) \union Permutations(Fields)
=============================================================================
