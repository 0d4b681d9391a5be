SPECIFICATION Spec
CONSTANTS
  ann = ann
  bob = bob
  noUser = noUser
  ngn = ngn
  usd = usd
  k1 = k1
  noKey = noKey
  Users <- MCUsers
  NoUser = noUser
  Currencies <- MCCurrencies
  NGN = ngn
  Keys <- MCKeys
  NoKey = noKey
  Fine = 10
  Rates <- MCRates
  Offered <- MCOffered
  Requests = {r1, r2, r3}
  NoReq = NoReq
  Opening <- MCOpening
  MaxBalance = 4
  Concurrency = 3
  MaxCrashes = 0
SYMMETRY RequestSymmetry
INVARIANTS
  NoDoubleSpend
