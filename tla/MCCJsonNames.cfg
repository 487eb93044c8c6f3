SPECIFICATION Spec
CONSTANTS
  Items = {i1, i2, i3}
  Names = {"k", "K", "j"}
  Fold <- MCFold
  Texts = {TRUE}
  NULL = NULL
  MaxArray = 0
  MaxReferences = 1
SYMMETRY Symmetry
INVARIANT OneOwner
PROPERTY ReplacedIsFound
CHECK_DEADLOCK FALSE
