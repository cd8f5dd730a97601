SPECIFICATION Spec
CONSTANTS
  j1 = j1
  j2 = j2
  q1 = q1
  q2 = q2
  s1 = s1
  s2 = s2
  s3 = s3
  None = None
  Jobs <- TwoJobs
  Recipes <- OneRecipe
  Revisions <- OneRevision
  Requests <- TwoRequests
  Slugs <- TwoSlugs
  Results <- Clean
  Ops <- ImportOps
  Faults <- ImportFaults
SYMMETRY Symmetric
\* every job may be completed or cancelled, with nothing left to do
CHECK_DEADLOCK FALSE
INVARIANTS
  TypeOK
  OneItemPerRevision
  OneNormalizationPerRevision
