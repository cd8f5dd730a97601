SPECIFICATION FairSpec
CONSTANTS
  a = a
  b = b
  f1 = f1
  f2 = f2
  q1 = q1
  q2 = q2
  None = None
  Recipes <- TwoRecipes
  Filters <- TwoFilters
  Requests <- TwoRequests
  RecentLimit = 1
  MaxCooked = 2
INVARIANTS
  TypeOK
  CookedOnce
PROPERTIES
  PollKeepsValidSelection
  CookedMovesOn
  EveryRequestIsAnswered
