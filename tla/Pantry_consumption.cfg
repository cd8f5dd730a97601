SPECIFICATION Spec
CONSTANTS
  v1 = v1
  r1 = r1
  q1 = q1
  q2 = q2
  Unknown = Unknown
  Gone = Gone
  NoEntry = NoEntry
  All = All
  None = None
  Items <- TwoItems
  Reviews <- OneReview
  Rows <- NoRows
  Requests <- TwoRequests
  MaxQuantity = 1
  MaxLines = 2
  LowStock = 1
SYMMETRY Symmetric
INVARIANTS
  TypeOK
  ReviewMatchesLedger
PROPERTIES
  ImplementsLedger
