SPECIFICATION Spec
CONSTANTS
  Image <- MCImage
  Games <- MCGames
  Consoles <- MCConsoles
  Code <- MCCode
  MaxPieces = 4
INVARIANTS DecodesByFields PointerAgrees
CHECK_DEADLOCK FALSE
