SPECIFICATION Spec
CONSTANTS
  Image <- MCImage
  Carts <- MCCarts
  Buttons <- MCButtons
  OpaqueRow <- MCOpaqueRow
  PatternFetch = 4096
  MainLoop <- MCMainLoop
  NmiCounter = 16
  IrqCounter = 17
  MaxFrames = 4
  MaxResets = 1
INVARIANTS FrameIrqOnTime InterruptsServed SpriteHitSeen
CHECK_DEADLOCK FALSE
