CONSTANTS
  idle = idle
  worker = worker
  Tasks = {idle, worker}
  AtStart <- FirstTasks
  Privileged = {idle}
  Callers = {idle}
  Buffers = {"buffer"}
  MaxNest = 2
  MaxNesting = 2
  NoTask = NoTask
SPECIFICATION Spec
INVARIANTS OwnContext Confinement NoFalseAlarm
PROPERTY KeepsProcessors
