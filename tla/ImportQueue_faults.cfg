SPECIFICATION Spec
CONSTANTS
  j1 = j1
  j2 = j2
  q1 = q1
  q2 = q2
  s1 = s1
  s2 = s2
  s3 = s3
  None = None
  Jobs <- TwoJobs
  Recipes <- TwoRecipes
  Revisions <- OneRevision
  Requests <- OneRequest
  Slugs <- ThreeSlugs
  Results <- Clean
  Ops <- FaultOps
  Faults <- Crashing
SYMMETRY Symmetric
\* every job may be completed or cancelled, with nothing left to do
CHECK_DEADLOCK FALSE
INVARIANTS
  EveryRecipeTracked
  NoDuplicateRecipe
  CompletedIsTerminal
PROPERTIES
  ImportsAreIdempotent
