SPECIFICATION Spec
CONSTANTS
  Items = {i1, i2, i3, i4, i5}
  Names = {}
  Fold <- MCFold
  Texts = {FALSE}
  NULL = NULL
  MaxArray = 3
  MaxReferences = 2
SYMMETRY Symmetry
INVARIANTS TypeOK Linked OneOwner
PROPERTIES InsertShifts ImplementsTree
CHECK_DEADLOCK FALSE
