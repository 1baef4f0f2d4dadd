------------------------------- MODULE Kernel -------------------------------
(***************************************************************************)
(* The FreeRTOS kernel of the example applications: tasks, queues, event   *)
(* groups, stream buffers and timers, and the interrupts that come between *)
(* any two steps of a task.                                                *)
(***************************************************************************)
EXTENDS Timers, EventGroups, StreamBuffers

CONSTANTS
  Barriers  \* the groups that are only used to wait for each other, forever

(* What the functions of the kernel may be called with: objects of their    *)
(* kind, and what their own assertions ask for.                             *)
IsMessage(m) == m.command # "none" /\ (m.command = "pended" => m.timer \in DOMAIN Pended)

ItemOK(q, item) == item # NoItem /\ (q = TimerQueue => IsMessage(item))

Proper(c) ==
  /\ c.op # "idle" /\ c.op # "none"
  /\ c.op \in {"create", "delete", "suspend", "resume", "prioritySet"} => c.obj \in Tasks \ {Idle}
  /\ c.op \in {"create", "prioritySet"} => c.arg \in Priorities
  /\ c.op \in {"notify", "notifyFromISR"} => c.obj \in Tasks
  /\ c.op \in QueueOps \cup {"reset", "waitRestricted", "sendFromISR", "receiveFromISR",
                             "giveFromISR"} => c.obj \in Queues
  /\ c.op \in {"send", "sendFromISR"} => 
        IF Kind[c.obj] = "queue" THEN /\ c.arg[2] \in {"back", "front", "overwrite"}
                                      /\ ItemOK(c.obj, c.arg[1])
                                      /\ c.arg[2] = "overwrite" => Length[c.obj] = 1
        ELSE c.arg[2] = "back"
  /\ c.op \in {"receive", "peek", "reset", "receiveFromISR", "sendFromISR"} => Kind[c.obj] = "queue"
  /\ c.op = "take" => Kind[c.obj] # "queue"
  /\ c.op = "giveFromISR" => Kind[c.obj] = "semaphore"
  /\ c.op \in {"setBits", "clearBits", "waitBits", "sync", "createGroup", "deleteGroup"} =>
        c.obj \in Groups
  /\ c.op \in {"waitBits", "sync"} => c.arg.bits # {}
  /\ c.op = "sync" => c.arg.clear /\ c.arg.all
  /\ c.op \in {"sendStream", "receiveStream", "nextLength", "resetStream", "setTrigger",
               "sendStreamFromISR", "receiveStreamFromISR"} => c.obj \in Streams
  /\ c.op \in {"timerTask", "timerCommand", "pendCall", "timerFromISR", "pendFromISR"} =>
        TimerQueue \in Queues /\ Kind[TimerQueue] = "queue"
  /\ c.op \in {"pendCall", "pendFromISR"} => c.obj \in DOMAIN Pended
  /\ c.op \in {"timerCommand", "timerFromISR"} => c.arg[1] \notin {"none", "pended"}
  /\ c.op = "timerTask" => c.obj = TimerQueue

(* The applications: main creates some tasks, each of them once, and whoever *)
(* calls the kernel does it properly.                                       *)
ASSUME ScenariosAssumption ==
  /\ \A n \in DOMAIN Scenarios :
       LET created == Scenarios[n].created
       IN  /\ created \in Seq([task : Tasks \ {Idle}, prio : Priorities])
           /\ \A i, j \in DOMAIN created : created[i].task = created[j].task => i = j
           /\ \A t \in Tasks : \A i \in DOMAIN Scenarios[n].menu[t] :
                 LET call == Scenarios[n].menu[t][i]
                 IN  Proper(call) /\ call.op # "waitRestricted"
           /\ \A i \in DOMAIN Scenarios[n].isr : Proper(Scenarios[n].isr[i])
  /\ \A p \in DOMAIN Pended : Proper(Pended[p]) /\ Pended[p].op \in {"setBits", "clearBits"}

vars == <<scenario, sched, stack, queue, group, stream, content, timer>>

Menu(t) == Scenarios[scenario].menu[t]

Init == SchedInit /\ QueueInit /\ GroupsInit /\ StreamsInit /\ TimersInit

Legal(call) ==
  /\ LegalTaskCall(call) /\ LegalQueueCall(call) /\ LegalGroupCall(call)
  /\ LegalStreamCall(call) /\ LegalTimerCall(call)

(* A failed assertion ends the program: interrupts stay masked.             *)
Running == ~timer.halted

(* A task whose call has returned makes the next one.                       *)
NewCall ==
  /\ Running
  /\ \E i \in DOMAIN Menu(me) : Legal(Menu(me)[i]) /\ Call(Menu(me)[i])
  /\ UNCHANGED <<queue, group, stream, content, timer>>

Step ==
  \/ Running /\ TaskStep /\ timer' = Aged /\ UNCHANGED <<queue, group, stream, content>>
  \/ Running /\ QueueStep /\ timer' = Aged /\ UNCHANGED <<group, stream, content>>
  \/ Running /\ GroupStep /\ timer' = Aged /\ UNCHANGED <<queue, stream, content>>
  \/ Running /\ StreamStep /\ timer' = Aged /\ UNCHANGED <<queue, group>>
  \/ Running /\ TimerStep /\ UNCHANGED <<group, stream, content>>

Interrupt ==
  \E i \in DOMAIN Scenarios[scenario].isr :
    LET call == Scenarios[scenario].isr[i]
    IN  /\ Running
        /\ \/ NotifyInterrupt(call) /\ UNCHANGED <<queue, group, stream, content, timer>>
           \/ QueueInterrupt(call) /\ UNCHANGED <<group, stream, content, timer>>
           \/ StreamInterrupt(call) /\ UNCHANGED <<queue, group, timer>>
           \/ LegalTimerCall(call) /\ TimerFromISR(call) /\ UNCHANGED <<group, stream, content>>

Tick ==
  /\ Running /\ SysTick /\ TimersKeepUp
  /\ timer' = Aged
  /\ UNCHANGED <<queue, group, stream, content>>

Switch == Running /\ PendSV /\ UNCHANGED <<queue, group, stream, content, timer>>

Next == NewCall \/ Step \/ Interrupt \/ Tick \/ Switch

Spec == Init /\ [][Next]_vars

----------------------------------------------------------------------------
(* Properties of the scheduler. *)

Alive == {t \in Tasks : InList(sched, t) # {}}

(* The scheduler and the timers keep their types: the tick count and the    *)
(* times that are computed from it wrap, and the bounds of the model hold.  *)
TypeOK == sched \in Schedulers /\ timer \in TimerRecords

(* Every task is in exactly one of the lists of task states, a ready one in *)
(* that of its current priority, and waits for one event at most.           *)
OneStateList ==
  \A t \in Tasks :
    /\ Cardinality(InList(sched, t)) <= 1
    /\ Contains(sched.pendingReady, t) => sched.suspendedAll > 0
    /\ stack[t] # << >> => InList(sched, t) # {}
    /\ \A p \in Priorities : Contains(sched.ready[p].items, t) => p = sched.prio[t]
    /\ Cardinality(Waits(sched, t)) + (IF Contains(sched.pendingReady, t) THEN 1 ELSE 0) <= 1
    /\ Waits(sched, t) # {} => InList(sched, t) \cap {"delayed", "overflow", "suspended"} # {}

(* The most urgent of the ready tasks runs, unless the scheduler is         *)
(* suspended or a switch is coming.                                         *)
AboutToYield ==
  /\ stack[me] # << >>
  /\ \/ Top.at = "yield"
     \/ Top.op = "create" /\ Top.at = "check"
     \/ Top.op = "suspend" /\ Top.at = "reset"

RunsHighest ==
  sched.suspendedAll = 0 /\ ~sched.pendsv =>
    /\ Ready(sched, me) \/ AboutToYield
    /\ \A t \in Tasks : Ready(sched, t) => sched.prio[t] <= sched.prio[me] \/ AboutToYield

(* A task sleeps as long as its call has still to wait, across any wrap of  *)
(* the tick count and however often it has been woken in vain, and the next *)
(* tick that unblocks someone is not missed.                                *)
SleepsInTime ==
  /\ \A t \in Tasks :
       Contains(sched.delayed, t) \/ Contains(sched.overflow, t) =>
         /\ Contains(sched.delayed, t) <=> sched.wake[t] > sched.tick
         /\ sched.entry[t].finite /\ stack[t][1].op \in QueueOps =>
              sched.entry[t].due = TickSince(sched.wake[t], sched.tick)
  /\ sched.delayed # << >> => sched.nextUnblock <= sched.wake[Head(sched.delayed)]

(* A call gives up only when its time is over.                              *)
NotTooEarly ==
  \A t \in Tasks :
    stack[t] # << >> /\ stack[t][1].then = "timed out" => sched.entry[t].due <= 0

----------------------------------------------------------------------------
(* Properties of queues. *)

(* Tasks that are in a call on q, wait for nothing and will look at it.     *)
Looking(q, ops) ==
  {t \in Tasks : /\ \E i \in DOMAIN stack[t] : stack[t][i].op \in ops /\ stack[t][i].obj = q
                 /\ Waits(sched, t) = {}}

NotNegative(n) == IF n < 0 THEN 0 ELSE n

(* While a task waits for a queue, there are as many tasks that have been   *)
(* woken for it (or will be when it is unlocked) as there are items; and    *)
(* the same for places.                                                     *)
NoLostWakeup ==
  \A q \in Queues :
    /\ sched.events[Received(q)] # << >> =>
         Cardinality(Looking(q, {"receive", "take", "peek", "timerTask"}))
           + NotNegative(queue[q].tx) >= queue[q].count
    /\ sched.events[Sent(q)] # << >> =>
         Cardinality(Looking(q, {"send"})) + NotNegative(queue[q].rx)
           >= Length[q] - queue[q].count

(* The mutexes that a task holds are counted, a task that holds none has    *)
(* its own priority, and the holder is as urgent as all who wait.           *)
HeldBy(t) == {q \in Queues : queue[q].holder = t}

Inheritance ==
  \A t \in Alive :
    /\ sched.held[t] = Cardinality(HeldBy(t))
    /\ sched.held[t] = 0 => sched.prio[t] = sched.base[t]
    /\ sched.prio[t] >= sched.base[t]
    /\ \A q \in HeldBy(t) : \A w \in Range(sched.events[Received(q)]) :
         sched.prio[w] <= sched.prio[t]

(* An item of a semaphore or a mutex.                                       *)
Token == [command |-> "given"]

Contents(q) ==
  [i \in 1..queue[q].count |->
     IF Kind[q] = "queue" THEN queue[q].storage[(queue[q].read + i) % Length[q]] ELSE Token]

(* The ring with its pointers is a bounded queue.                           *)
Abstract == INSTANCE BoundedQueues WITH items <- [q \in Queues |-> Contents(q)]

QueueOrder == Abstract!Spec

----------------------------------------------------------------------------
(* Properties of event groups. *)

(* Nobody waits for bits that are there, except while the scheduler is      *)
(* suspended and the task that set them is waking the others.               *)
NoForgottenWaiter ==
  sched.suspendedAll = 0 =>
    \A g \in Groups : \A t \in Range(sched.events[Waiting(g)]) :
      ~Satisfied(sched, t, group[g].bits)

(* The bits of a barrier are those of the tasks that wait there, from one   *)
(* rendezvous to the next: nobody gets past it before all have arrived.     *)
BarrierKept ==
  sched.suspendedAll = 0 =>
    \A g \in Barriers :
      group[g].bits = UNION {stack[t][1].arg.set : t \in Range(sched.events[Waiting(g)])}

----------------------------------------------------------------------------
(* Properties of stream buffers. *)

(* Where the reader began, while it has only read the length of a message.  *)
ReadFrom(b) ==
  LET reading == {f \in UNION {Range(stack[t]) : t \in Tasks} :
                    /\ f.op \in {"receiveStream", "nextLength"} /\ f.obj = b
                    /\ f.at \in {"message", "restore"}}
  IN  IF reading = {} THEN stream[b].tail ELSE (CHOOSE f \in reading : TRUE).arg.tail

(* The ring holds what has been written and not been read, in order.        *)
StreamIntact ==
  \A b \in Streams :
    /\ Len(content[b]) = CellsFrom(b, ReadFrom(b))
    /\ \A i \in 1..Len(content[b]) :
         content[b][i] = stream[b].storage[Around(b, ReadFrom(b) + i - 1)]

(* A reader does not sleep while there is enough to read, and a writer does *)
(* not while there is space, unless the other side is about to wake it.     *)
Asleep(t, b, op) ==
  /\ sched.notify[t] = "waiting" /\ ~Ready(sched, t) /\ ~Contains(sched.pendingReady, t)
  /\ Len(stack[t]) = 2 /\ stack[t][2].op = op /\ stack[t][2].obj = b

Finishing(b, op) ==
  \E t \in Tasks : stack[t] # << >> /\ stack[t][1].op = op /\ stack[t][1].obj = b
                   /\ stack[t][1].at \in {"write", "look", "completed", "wake", "message"}

NoForgottenPeer ==
  \A b \in Streams : \A t \in Tasks :
    /\ Asleep(t, b, "receiveStream") /\ CellsInBuffer(b) >= stream[b].trigger =>
         Finishing(b, "sendStream")
    /\ Asleep(t, b, "sendStream") /\ SpacesAvailable(b) >= Required(b, stack[t][2].arg.cells) =>
         Finishing(b, "receiveStream")

----------------------------------------------------------------------------
(* Properties of timers. *)

(* The timer task has seen the last wrap of the tick count.                 *)
UpToDate == sched.tick >= timer.lastTime /\ ~\E t \in Tasks : \E i \in DOMAIN stack[t] :
              stack[t][i].at \in {"switch", "switch for command"}

(* Every timer is in the list and at the place that lets it fire exactly    *)
(* when it is due, however late the timer task gets to run.                 *)
TimersInTime ==
  \A t \in TimerIds :
    LET round == IF Contains(timer.overflow, t) THEN TickMax + 1 ELSE 0
        missed == IF UpToDate THEN 0 ELSE TickMax + 1
    IN  Listed(t) => timer.of[t].due = timer.of[t].expiry - sched.tick + round - missed

(* While the timer task sleeps, it will wake in time for all timers.        *)
TimerTaskWakes ==
  TimerIds # {} /\ queue[TimerQueue].count = 0 =>
    \A t \in Range(sched.events[Received(TimerQueue)]) : \A i \in TimerIds :
      Listed(i) => /\ Contains(sched.delayed, t) \/ Contains(sched.overflow, t)
                   /\ TickSince(sched.wake[t], sched.tick) <= NotNegative(timer.of[i].due)

(* A timer that runs again and again is not lost: it is in a list, or there *)
(* is a command to put it there, which the timer task could send.           *)
TimersRearmed ==
  /\ ~timer.halted
  /\ \A t \in TimerIds :
       /\ Listed(t) => timer.of[t].active
       /\ FirstAuto[t] /\ timer.of[t].active => Listed(t) \/ CommandsFor(t) # {}

=============================================================================
