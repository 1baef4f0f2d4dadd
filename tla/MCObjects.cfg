CONSTANTS
  HeapSize = 24
  Alignment = 2
  HeaderSize = 2
  AllocatedBit = 32
  MaxLeaving = 3
  Callers = {app, timerTask}
  TimerTask = timerTask
  Idle = idle
  MaxTerminating = 1
  Nobody = nobody
  Handles = {"h1", "h2"}
  Kinds <- SmallKinds
  SizeOf <- SmallSizes
  Requests <- SmallRequests
SPECIFICATION ObjectsSpec
INVARIANTS NoLeak Tiled Merged Accounted LargeEnough
