CONSTANTS
  x = x
  y = y
  Tasks <- MCTasks
  Idle = "idle"
  MaxPriorities = 3
  TickMax = 3
  MaxPended = 1
  MaxLate = 1
  ValueBits = 1
  MaxLock = 2
  Queues <- MCTwoMutexes
  Length <- MCMutexLength
  Kind <- MCMutexKind
  Groups = {"g", "barrier"}
  Barriers = {"barrier"}
  Streams <- MCStreams
  StreamLength <- MCStreamLength
  IsMessages <- MCIsMessages
  FirstTrigger <- MCFirstTrigger
  TimerIds = {}
  TimerQueue = "none"
  FirstPeriod <- None
  FirstAuto <- None
  Pended <- None
  Scenarios <- MCBackwards
SPECIFICATION Spec
INVARIANT RunsHighest
