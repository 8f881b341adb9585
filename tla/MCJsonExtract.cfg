\* Every text of at most seven pieces.
CONSTANTS
  Alphabet <- mcPieces
  MaxLength = 7
SPECIFICATION Spec
INVARIANTS
  ProseThenObject
  FencedObject
CHECK_DEADLOCK FALSE
