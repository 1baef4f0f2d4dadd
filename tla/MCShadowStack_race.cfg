\* An exception between the two stores of a push.
CONSTANTS
  Sites = {"a", "b"}
  Size = 3
  MaxNest = 3
  AbortingModes = {TRUE, FALSE}
  Stray = FALSE
SPECIFICATION Spec
INVARIANT
  AlwaysHome
