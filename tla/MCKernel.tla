------------------------------ MODULE MCKernel ------------------------------
EXTENDS Kernel

CONSTANTS x, y  \* what is sent

C(op, obj, arg, wait) == [op |-> op, obj |-> obj, arg |-> arg, wait |-> wait]
T(task, prio) == [task |-> task, prio |-> prio]

None == << >>

App(created, menu, isr) ==
  [created |-> created, isr |-> isr,
   menu |-> [t \in Tasks |-> IF t \in DOMAIN menu THEN menu[t] ELSE None]]

MCTasks == {"a", "b", "c", "timer", "idle"}
MCQueues == {"q", "box", "m", "s", "timers"}
MCLength == [q \in MCQueues |-> IF q \in {"q", "timers"} THEN 2 ELSE 1]
MCKind == [q \in MCQueues |-> CASE q = "m" -> "mutex" [] q = "s" -> "semaphore" [] OTHER -> "queue"]

Wait(bits, clear, all) == [bits |-> bits, clear |-> clear, all |-> all, set |-> {}]
Meet(set, bits) == [bits |-> bits, clear |-> TRUE, all |-> TRUE, set |-> set]
Cells(v, n) == [cells |-> [i \in 1..n |-> Byte(v)], seen |-> 0, tail |-> 0]
Room(n) == [max |-> n, seen |-> 0, tail |-> 0]

MCStreams == {"bytes", "messages"}
MCStreamLength == [b \in MCStreams |-> IF b = "bytes" THEN 4 ELSE 5]
MCIsMessages == [b \in MCStreams |-> b = "messages"]
MCFirstTrigger == [b \in MCStreams |-> IF b = "bytes" THEN 2 ELSE 1]

MCTimerIds == {"t1", "t2"}
MCFirstPeriod == [t \in MCTimerIds |-> 1]
MCFirstAuto == [t \in MCTimerIds |-> t = "t1"]
MCPended == [n \in {"set1"} |-> C("setBits", "g", {1}, 0)]

TimerTask == C("timerTask", "timers", Nothing, 0)

MCTasksAndQueues ==
  [fifo |-> App(<<T("a", 2), T("b", 1)>>,
     [a |-> <<C("receive", "q", 0, TickMax), C("receive", "q", 0, 2)>>,
      b |-> <<C("send", "q", <<x, "back">>, 2), C("send", "q", <<y, "front">>, 0)>>],
     <<C("sendFromISR", "q", <<x, "back">>, 0)>>),
   drained |-> App(<<T("a", 2), T("b", 1)>>,
     [a |-> <<C("send", "q", <<x, "back">>, TickMax)>>,
      b |-> <<C("send", "q", <<x, "back">>, TickMax)>>],
     <<C("receiveFromISR", "q", 0, 0)>>),
   box |-> App(<<T("a", 2), T("b", 1), T("c", 1)>>,
     [a |-> <<C("peek", "box", 0, 1), C("receive", "box", 0, TickMax)>>,
      b |-> <<C("send", "box", <<x, "overwrite">>, 0), C("send", "box", <<y, "back">>, TickMax)>>,
      c |-> <<C("reset", "box", 0, 0)>>],
     None),
   mutex |-> App(<<T("c", 0), T("b", 1), T("a", 2)>>,
     [a |-> <<C("delay", "a", 0, 1), C("take", "m", 0, 1), C("send", "m", <<NoItem, "back">>, 0)>>,
      b |-> <<C("take", "m", 0, TickMax), C("send", "m", <<NoItem, "back">>, 0), C("delay", "b", 0, 1)>>,
      c |-> <<C("take", "m", 0, 0), C("send", "m", <<NoItem, "back">>, 0)>>],
     None),
   semaphore |-> App(<<T("a", 1), T("b", 1)>>,
     [a |-> <<C("take", "s", 0, 1)>>, b |-> <<C("take", "s", 0, TickMax)>>],
     <<C("giveFromISR", "s", 0, 0)>>),
   lifecycle |-> App(<<T("a", 1), T("b", 1)>>,
     [a |-> <<C("create", "c", 2, 0), C("create", "c", 1, 0), C("delete", "c", 0, 0), C("delay", "a", 0, 1)>>,
      b |-> <<C("yield", "b", 0, 0), C("hold", "b", 0, 0)>>,
      c |-> <<C("delete", "c", 0, 0), C("receive", "q", 0, 1)>>],
     None),
   suspension |-> App(<<T("a", 2), T("b", 1)>>,
     [a |-> <<C("suspend", "b", 0, 0), C("resume", "b", 0, 0), C("delayUntil", "a", 0, 2),
              C("suspend", "a", 0, 0)>>,
      b |-> <<C("resume", "a", 0, 0), C("take", "s", 0, 1), C("suspend", "b", 0, 0)>>],
     None),
   priorities |-> App(<<T("c", 0), T("a", 2)>>,
     [a |-> <<C("prioritySet", "c", 1, 0), C("prioritySet", "c", 0, 0), C("take", "m", 0, 1),
              C("send", "m", <<NoItem, "back">>, 0), C("delay", "a", 0, 1)>>,
      c |-> <<C("take", "m", 0, TickMax), C("send", "m", <<NoItem, "back">>, 0),
              C("prioritySet", "c", 1, 0)>>],
     None),
   notified |-> App(<<T("a", 2), T("b", 1)>>,
     [a |-> <<C("notifyTake", "a", "clear", 2), C("notifyWait", "a", <<1, 1>>, TickMax),
              C("notifyStateClear", "a", 0, 0)>>,
      b |-> <<C("notify", "a", <<1, "set bits">>, 0), C("notify", "a", <<0, "if none">>, 0),
              C("hold", "b", 0, 0)>>],
     <<C("notifyFromISR", "a", <<0, "increment">>, 0)>>)]

MCServices ==
  [barrier |-> App(<<T("a", 2), T("b", 1), T("c", 1)>>,
     [a |-> <<C("sync", "barrier", Meet({1}, {1, 2, 3}), TickMax)>>,
      b |-> <<C("sync", "barrier", Meet({2}, {1, 2, 3}), TickMax)>>,
      c |-> <<C("sync", "barrier", Meet({3}, {1, 2, 3}), TickMax), C("delay", "c", 0, 1)>>],
     None),
   bits |-> App(<<T("a", 2), T("b", 1), T("c", 1)>>,
     [a |-> <<C("waitBits", "g", Wait({1, 2}, TRUE, TRUE), 2),
              C("waitBits", "g", Wait({2}, FALSE, TRUE), TickMax)>>,
      b |-> <<C("setBits", "g", {2}, 0), C("clearBits", "g", {1, 2}, 0)>>,
      c |-> <<C("setBits", "g", {1}, 0), C("waitBits", "g", Wait({2}, TRUE, FALSE), 1)>>], None),
   pended |-> App(<<T("a", 2), T("timer", 1)>>,
     [a |-> <<C("waitBits", "g", Wait({1}, TRUE, TRUE), TickMax)>>,
      timer |-> <<TimerTask>>],
     <<C("pendFromISR", "set1", 0, 0)>>),
   bytes |-> App(<<T("a", 2), T("b", 1)>>,
     [a |-> <<C("receiveStream", "bytes", Room(3), 2), C("receiveStream", "bytes", Room(1), 0)>>,
      b |-> <<C("sendStream", "bytes", Cells(x, 1), 0), C("sendStream", "bytes", Cells(y, 2), TickMax)>>],
     None),
   messages |-> App(<<T("a", 2), T("b", 1)>>,
     [a |-> <<C("receiveStream", "messages", Room(1), 2), C("receiveStream", "messages", Room(2), 0),
              C("nextLength", "messages", Room(0), 0)>>,
      b |-> <<C("sendStream", "messages", Cells(x, 1), 0), C("sendStream", "messages", Cells(y, 2), 2)>>],
     None),
   timers |-> App(<<T("a", 2), T("b", 1), T("timer", 2)>>,
     [a |-> <<C("delay", "a", 0, 1), C("delay", "a", 0, 2)>>,
      b |-> <<C("timerCommand", "t1", <<"start", 0>>, 0), C("timerCommand", "t1", <<"stop", 0>>, 0)>>,
      timer |-> <<TimerTask>>],
     None),
   deleted |-> App(<<T("a", 1), T("b", 1)>>,
     [a |-> <<C("waitBits", "g", Wait({1}, TRUE, TRUE), 2)>>,
      b |-> <<C("deleteGroup", "g", 0, 0), C("createGroup", "g", 0, 0), C("setBits", "g", {2}, 0)>>],
     None),
   filled |-> App(<<T("b", 1)>>,
     [b |-> <<C("receiveStream", "bytes", Room(3), 1), C("resetStream", "bytes", 0, 0),
              C("setTrigger", "bytes", [level |-> 3], 0)>>],
     <<C("sendStreamFromISR", "bytes", Cells(x, 1), 0)>>),
   emptied |-> App(<<T("b", 1)>>,
     [b |-> <<C("sendStream", "messages", Cells(x, 2), 2)>>],
     <<C("receiveStreamFromISR", "messages", Room(2), 0)>>),
   shots |-> App(<<T("a", 1), T("timer", 2)>>,
     [a |-> <<C("timerCommand", "t2", <<"change period", 2>>, 0),
              C("timerCommand", "t2", <<"delete", 0>>, 0),
              C("createTimer", "t2", 0, 0)>>,
      timer |-> <<TimerTask>>],
     <<C("timerFromISR", "t2", <<"reset", 0>>, 0)>>),
   reload |-> App(<<T("a", 1), T("timer", 2)>>,
     [a |-> <<C("timerCommand", "t2", <<"start", 0>>, 0), C("setReloadMode", "t2", TRUE, 0),
              C("pendCall", "set1", 0, 0)>>,
      timer |-> <<TimerTask>>], None)]

MCApplications == MCTasksAndQueues @@ MCServices

MCIsr ==
  [isr |-> App(<<T("a", 1)>>,
     [a |-> <<C("nextLength", "messages", Room(0), 0)>>],
     <<C("sendStreamFromISR", "messages", Cells(x, 1), 0),
       C("sendStreamFromISR", "messages", Cells(x, 2), 0)>>)]

MCTwoMutexes == {"m", "n"}
MCMutexLength == [q \in MCTwoMutexes |-> 1]
MCMutexKind == [q \in MCTwoMutexes |-> "mutex"]

MCBackwards ==
  [backwards |-> App(<<T("c", 0), T("b", 0), T("a", 2)>>,
     [a |-> <<C("delay", "a", 0, 1), C("take", "m", 0, TickMax), C("send", "m", <<NoItem, "back">>, 0)>>,
      b |-> <<C("take", "n", 0, TickMax), C("send", "n", <<NoItem, "back">>, 0)>>,
      c |-> <<C("take", "m", 0, 0), C("take", "n", 0, 0), C("send", "m", <<NoItem, "back">>, 0),
              C("send", "n", <<NoItem, "back">>, 0)>>],
     None)]

=============================================================================
