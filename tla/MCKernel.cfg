CONSTANTS
  x = x
  y = y
  Tasks <- MCTasks
  Idle = "idle"
  MaxPriorities = 3
  TickMax = 3
  MaxPended = 1
  MaxLate = 1
  ValueBits = 1
  MaxLock = 2
  Queues <- MCQueues
  Length <- MCLength
  Kind <- MCKind
  Groups = {"g", "barrier"}
  Barriers = {"barrier"}
  Streams <- MCStreams
  StreamLength <- MCStreamLength
  IsMessages <- MCIsMessages
  FirstTrigger <- MCFirstTrigger
  TimerIds <- MCTimerIds
  TimerQueue = "timers"
  FirstPeriod <- MCFirstPeriod
  FirstAuto <- MCFirstAuto
  Pended <- MCPended
  Scenarios <- MCApplications
SPECIFICATION Spec
INVARIANTS TypeOK OneStateList RunsHighest SleepsInTime NotTooEarly NoLostWakeup Inheritance
  NoForgottenWaiter BarrierKept StreamIntact NoForgottenPeer TimersInTime TimerTaskWakes
  TimersRearmed
PROPERTY QueueOrder
