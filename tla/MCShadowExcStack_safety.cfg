\* All four implementations, three priorities; one active exception at most may
\* have preempted Secure code.
CONSTANTS
  SesTypes = {"Safe", "Naive", "Unnested", "Null"}
  MaxPrio = 3
  Capacity = 3
  FrameTypes <- MCFrameTypes
  ThreadStacks = {"MSP", "PSP"}
  Locals = {0, 1}
  NestedSecure = FALSE
  StrayFields = {}
SPECIFICATION FairSpec
INVARIANTS
  TypeOK
  AllFramesProtected
  EnteredFramesProtected
  GenuineReturn
  WithinLimit
PROPERTY
  Drained
