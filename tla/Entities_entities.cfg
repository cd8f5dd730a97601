SPECIFICATION Spec
CONSTANTS
  q1 = q1
  q2 = q2
  None = None
  Names <- AllNames
  Recipes <- TwoRecipes
  Text <- OneOfThem
  Requests <- TwoRequests
  Kind <- KindOf
  Key <- KeyOf
  Slug <- SlugOf
  Plain <- PlainOf
  Grouped <- GroupedOf
  Uses <- UsesOf
SYMMETRY Symmetric
INVARIANTS
  TypeOK
  UpgradeIsKept
PROPERTIES
  NoDuplicateCreation
  ConflictsAreRecovered
