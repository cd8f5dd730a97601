SPECIFICATION FairSpec
CONSTANTS
  s1 = s1
  s2 = s2
  c1 = c1
  c2 = c2
  c3 = c3
  Error = Error
  None = None
  Slugs <- OneSlug
  Calls <- ThreeCalls
  Tasks <- ThreeTasks
  MaxVersion = 1
  MaxClears = 1
INVARIANTS
  TypeOK
  SingleFlight
  RegisteredIsAwaited
  QuietRefreshReadsMealie
PROPERTIES
  EveryCallIsAnswered
