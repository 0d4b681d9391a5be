SPECIFICATION Spec
CONSTANTS
  ngn = ngn
  usd = usd
  eur = eur
  Currencies <- MCCurrencies
  Listed <- MCListed
  Calls = {c1, c2}
  Offered <- MCOffered
  NoRates = NoRates
  TTL = 1
  Attempts = 2
  MaxTime = 2
  MaxRestarts = 0
SYMMETRY CallSymmetry
INVARIANTS
  QuoteIsForRoute
