------------------------------ MODULE MCWallet ------------------------------
(* Instances of Wallet for TLC.  Fine = 10 and rates that are not integers *)
(* make the credited amounts round.                                        *)
EXTENDS Wallet, TLC

CONSTANTS ann, bob, noUser, ngn, usd, k1, noKey

RequestSymmetry == Permutations(Requests)

Ask(kind, user, from, to, amount, key) ==
  [kind |-> kind, user |-> user, peer |-> noUser, from |-> from, to |-> to,
   amount |-> amount, key |-> key]

Send(user, peer, from, amount, key) ==
  [kind |-> "p2p", user |-> user, peer |-> peer, from |-> from, to |-> from,
   amount |-> amount, key |-> key]

MCUsers      == {ann, bob}
MCCurrencies == {ngn, usd}
MCKeys       == {k1}
MCRates      == [p \in MCCurrencies \X MCCurrencies |->
                   IF p = <<usd, ngn>> THEN {<<3, 2>>} ELSE {<<2, 3>>}]

(* Ann starts with NGN 2 and USD 2, Bob has never opened his wallet.       *)
MCOpening == (<<ann, ngn>> :> 2) @@ (<<ann, usd>> :> 2)

(* Every kind of request, with and without the key, on Ann's two accounts  *)
(* and on Bob's missing ones; the last two bodies are not acceptable.      *)
MCOffered ==
  {Ask("fund", ann, ngn, ngn, 14, noKey),
   Ask("fund", bob, ngn, ngn, 10, k1),
   Ask("conversion", ann, ngn, usd, 20, noKey),
   Ask("trade", ann, usd, ngn, 14, noKey),
   Ask("transfer", ann, usd, ngn, 26, k1),
   Send(ann, bob, ngn, 20, k1),
   Send(bob, ann, ngn, 10, noKey),
   Ask("balances", bob, ngn, ngn, 10, noKey),
   Ask("conversion", ann, ngn, ngn, 10, k1),
   Send(ann, ann, ngn, 10, k1)}

(* Requests that wait for each other's rows and keys.                      *)
MCCrossing ==
  {Ask("conversion", ann, ngn, usd, 10, k1),
   Ask("trade", ann, usd, ngn, 10, noKey),
   Send(ann, bob, ngn, 10, k1),
   Send(bob, ann, ngn, 10, noKey)}

MCFunded == MCOpening @@ (<<bob, ngn>> :> 2)
=============================================================================
