CONSTANTS
  Slots = 4
  ArenaSize = 14
  InfoSize = 1
  ExcSize = 1
  StackSize = 1
  SecureStackSize = 2
  MaxNest = 3
  Depth = 1
  RawIds = {0, 1, 2, 3, 4, 5}
SPECIFICATION Spec
INVARIANTS TypeOK NeverPastSlots FrameFound
PROPERTY KeepsContexts
