SPECIFICATION Spec
CONSTANTS
  v1 = v1
  r1 = r1
  q1 = q1
  q2 = q2
  Unknown = Unknown
  Gone = Gone
  NoEntry = NoEntry
  All = All
  None = None
  Items <- OneItem
  Reviews <- OneReview
  Rows <- OneRow
  Requests <- TwoRequests
  MaxQuantity = 2
  MaxLines = 1
  LowStock = 1
SYMMETRY Symmetric
INVARIANT
  LedgerExplainsStock
