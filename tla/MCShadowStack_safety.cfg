\* Exceptions at every instruction, stray writes, both builds.
CONSTANTS
  Sites = {"a", "b"}
  Size = 2
  MaxNest = 3
  AbortingModes = {TRUE, FALSE}
  Stray = TRUE
SPECIFICATION Spec
INVARIANTS
  TypeOK
  ReturnsHome
  NoFalseAlarm
  Mirror
