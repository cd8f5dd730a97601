SPECIFICATION FairSpec
CONSTANTS
  j1 = j1
  j2 = j2
  q1 = q1
  q2 = q2
  s1 = s1
  s2 = s2
  s3 = s3
  None = None
  Jobs <- OneJob
  Recipes <- OneRecipe
  Revisions <- OneRevision
  Requests <- TwoRequests
  Slugs <- TwoSlugs
  Results <- Clean
  Ops <- LiveOps
  Faults <- CrashFree
\* every job may be completed or cancelled, with nothing left to do
CHECK_DEADLOCK FALSE
PROPERTIES
  ImportEnds
  NormalizationEnds
