SPECIFICATION Spec
CONSTANTS
  Requests = {r1, r2, r3, r4}
  Offered <- MCOffered
  Fields = {f1, f2}
  NoRow = NoRow
  NoData = NoData
  Concurrency = 2
SYMMETRY Symmetry
INVARIANTS
  TypeOK
  VerifiedWasFound
  LatestDataKept
  DocumentsAreKept
PROPERTIES
  TradesNeedApproval
