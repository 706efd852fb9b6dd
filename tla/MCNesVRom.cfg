SPECIFICATION Spec
CONSTANTS
  Image <- MCImage
  Games <- MCGames
  Consoles <- MCConsoles
  Code <- MCCode
  MaxPieces = 4
INVARIANTS VRomIntact
CHECK_DEADLOCK FALSE
