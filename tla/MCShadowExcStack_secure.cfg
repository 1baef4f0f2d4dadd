\* Two active exceptions may both have preempted Secure code, which the dummy
\* frame cannot tell apart.
CONSTANTS
  SesTypes = {"Safe"}
  MaxPrio = 3
  Capacity = 3
  FrameTypes <- MCStandardFrames
  ThreadStacks = {"MSP", "PSP"}
  Locals = {0}
  NestedSecure = TRUE
  StrayFields = {}
SPECIFICATION Spec
INVARIANT
  GenuineReturn
