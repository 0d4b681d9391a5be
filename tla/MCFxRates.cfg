SPECIFICATION FairSpec
CONSTANTS
  ngn = ngn
  usd = usd
  eur = eur
  Currencies <- MCCurrencies
  Listed <- MCListed
  Calls = {c1, c2, c3}
  Offered <- MCFew
  NoRates = NoRates
  TTL = 1
  Attempts = 2
  MaxTime = 1
  MaxRestarts = 1
INVARIANTS
  TypeOK
  UnmarkedRatesAreFresh
PROPERTIES
  CallsReturn
  KeepsRatePromise
