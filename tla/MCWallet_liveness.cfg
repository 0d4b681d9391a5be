SPECIFICATION FairSpec
CONSTANTS
  ann = ann
  bob = bob
  noUser = noUser
  ngn = ngn
  usd = usd
  k1 = k1
  noKey = noKey
  Users <- MCUsers
  NoUser = noUser
  Currencies <- MCCurrencies
  NGN = ngn
  Keys <- MCKeys
  NoKey = noKey
  Fine = 10
  Rates <- MCRates
  Offered <- MCCrossing
  Requests = {r1, r2, r3}
  NoReq = NoReq
  Opening <- MCFunded
  MaxBalance = 4
  Concurrency = 3
  MaxCrashes = 1
PROPERTIES
  RequestsAreAnswered
