\* Four names and trees of up to five nodes.
CONSTANTS
  Keys <- MCKeys
  MaxNodes = 5
SPECIFICATION Spec
INVARIANTS
  TypeOK
  NeverFallsOff
  IsSearchTree
  WalkLists
PROPERTY HiddenOnlyByNewKey
CHECK_DEADLOCK FALSE
