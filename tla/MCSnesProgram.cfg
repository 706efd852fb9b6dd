SPECIFICATION Spec
CONSTANTS
  Image <- MCImage
  IsRam <- MCIsRam
  Speed <- MCSpeed
  Programs <- MCPrograms
  Processors <- MCProcessors
  Code <- MCCode
  MaxPieces = 3
INVARIANTS DecodesByFields SliceTransparent InterruptTransparent
CHECK_DEADLOCK FALSE
