SPECIFICATION FairSpec
CONSTANTS
  MaxEvents = 4
INVARIANTS InputsReady
PROPERTIES BootFinishes MouseBytesInPlace BufferDrains
CHECK_DEADLOCK FALSE
