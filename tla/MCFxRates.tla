----------------------------- MODULE MCFxRates -----------------------------
(* Instances of FxRates for TLC: three currencies, of which the API may    *)
(* leave one out; calls of every kind on two bases and an equal pair.      *)
EXTENDS FxRates, TLC

CONSTANTS ngn, usd, eur

MCCurrencies == {ngn, usd, eur}
MCListed     == {MCCurrencies, {ngn, usd}}

Ask(kind, from, to) == [kind |-> kind, from |-> from, to |-> to]

MCOffered == {Ask("rates", usd, usd), Ask("rate", usd, ngn), Ask("rate", ngn, ngn),
              Ask("quote", ngn, eur), Ask("quote", ngn, ngn)}

(* One call of each kind, on two bases. *)
MCFew == {Ask("rates", usd, usd), Ask("rate", ngn, ngn), Ask("quote", ngn, eur)}

CallSymmetry == Permutations(Calls)
=============================================================================
