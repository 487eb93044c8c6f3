CONSTANTS
  Scripts <- MCScripts
  Node <- MCNode
  LeafValue <- MCNode
  MaxItems = 4
  Keys = {0, 1, 2, 3}
  MaxSlices = 2
SPECIFICATION Spec
CONSTRAINT SmallTwice
INVARIANTS
  TypeOK
  KeysUnique
  NoDangling
  BodyLink
  LinksLead
  LayoutIsPreorder
  ReachableFromRoot
CHECK_DEADLOCK FALSE
