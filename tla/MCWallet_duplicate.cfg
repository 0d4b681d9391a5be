SPECIFICATION Spec
CONSTANTS
  ann = ann
  bob = bob
  noUser = noUser
  ngn = ngn
  usd = usd
  k1 = k1
  noKey = noKey
  Users <- MCUsers
  NoUser = noUser
  Currencies <- MCCurrencies
  NGN = ngn
  Keys <- MCKeys
  NoKey = noKey
  Fine = 10
  Rates <- MCRates
  Offered <- MCOffered
  Requests = {r1, r2}
  NoReq = NoReq
  Opening <- MCFunded
  MaxBalance = 4
  Concurrency = 2
  MaxCrashes = 0
SYMMETRY RequestSymmetry
INVARIANTS
  DuplicateGetsStoredResponse
