\* A handler may overwrite any word of a stacked frame that the monitor reads.
CONSTANTS
  SesTypes = {"Safe", "Naive", "Unnested"}
  MaxPrio = 3
  Capacity = 3
  FrameTypes <- MCStandardFrames
  ThreadStacks = {"MSP", "PSP"}
  Locals = {0}
  NestedSecure = FALSE
  StrayFields = {"pc", "lr", "r12"}
SPECIFICATION Spec
INVARIANTS
  NoFalseAlarm
PROPERTY
  ReturnsIntact
