------------------------------- MODULE Queues -------------------------------
(***************************************************************************)
(* Queues, binary semaphores and mutexes of the FreeRTOS kernel            *)
(* (src/examples/freertos/queue.c).  A queue is a ring of items with its   *)
(* read and write positions, the count, and two locks that count what      *)
(* interrupt handlers do to the queue while a task is about to wait on it. *)
(* Semaphores and mutexes are queues of items without content.             *)
(***************************************************************************)
EXTENDS TaskCalls

CONSTANTS
  Length,   \* uxLength of every queue
  Kind,     \* "queue", "semaphore" or "mutex"
  MaxLock   \* bound: operations by handlers on a locked queue

NoTask == "nobody"

(* What is in an unused place; no message of the timer task is like it.     *)
NoItem == [command |-> "none"]

(* xQueueCreateMutex makes queues of length one.                            *)
ASSUME QueuesAssumption ==
  /\ Length \in [Queues -> Nat \ {0}]
  /\ Kind \in [Queues -> {"queue", "semaphore", "mutex"}]
  /\ \A q \in Queues : Kind[q] = "mutex" => Length[q] = 1
  /\ MaxLock \in Nat /\ NoTask \notin Tasks

VARIABLES
  queue  \* the Queue_t of every queue

Unlocked == -1  \* queueUNLOCKED; 0 is queueLOCKED_UNMODIFIED

NextPlace(q, i) == (i + 1) % Length[q]
PrevPlace(q, i) == (i - 1) % Length[q]

Sent(q) == <<"send", q>>
Received(q) == <<"receive", q>>

(* A new queue; a semaphore is created empty, a mutex given.                *)
NewQueue(q) ==
  [storage |-> [i \in 0..(Length[q] - 1) |-> NoItem],
   write |-> 0, read |-> Length[q] - 1,
   count |-> IF Kind[q] = "mutex" THEN 1 ELSE 0,
   tx |-> Unlocked, rx |-> Unlocked, holder |-> NoTask]

QueueInit == queue = [q \in Queues |-> NewQueue(q)]

Full(q) == queue[q].count = Length[q]
Empty(q) == queue[q].count = 0

----------------------------------------------------------------------------
(* prvCopyDataToQueue and prvCopyDataFromQueue. *)

(* Mutant: the item goes before the read position is moved.                 *)
ToFrontAfter(q, item) ==
  LET r == queue[q]
  IN  [r EXCEPT !.storage[PrevPlace(q, r.read)] = item, !.read = PrevPlace(q, r.read),
                !.count = @ + 1]

ToFront(q, item) ==
  LET r == queue[q]
  IN  [r EXCEPT !.storage[r.read] = item, !.read = PrevPlace(q, r.read), !.count = @ + 1]

ToBack(q, item) ==
  LET r == queue[q]
  IN  [r EXCEPT !.storage[r.write] = item, !.write = NextPlace(q, r.write), !.count = @ + 1]

(* Position "overwrite" is for queues of length one.                        *)
CopyTo(q, item, position) ==
  IF Kind[q] # "queue" THEN [queue[q] EXCEPT !.count = @ + 1, !.holder = NoTask]
  ELSE CASE position = "back" -> ToBack(q, item)
         [] position = "front" -> ToFront(q, item)
         [] position = "overwrite" -> [ToFront(q, item) EXCEPT !.count = 1]

(* The place that has been read is of no use any more.                      *)
CopyFrom(q) ==
  LET at == NextPlace(q, queue[q].read)
  IN  IF Kind[q] # "queue" THEN [queue[q] EXCEPT !.count = @ - 1]
      ELSE [queue[q] EXCEPT !.storage[at] = NoItem, !.read = at, !.count = @ - 1]

----------------------------------------------------------------------------
(* The calls of tasks.  All four that can wait are the same but for what    *)
(* they look for and what they do when they find it. *)

QueueOps == {"send", "receive", "take", "peek"}

AtQueue(at) == \E op \in QueueOps : At(op, at)

Blocked == IF Top.op = "send" THEN Full(Top.obj) ELSE Empty(Top.obj)

WaitList == IF Top.op = "send" THEN Sent(Top.obj) ELSE Received(Top.obj)

QueueReturn(s) == Return(ForgetTimeOut(s))

(* Mutant: a mutex that is given leaves the priority as it is.              *)
GivenKept(q, s) == [s |-> [s EXCEPT !.held[me] = IF @ > 0 THEN @ - 1 ELSE @], yes |-> FALSE]

(* What giving a mutex does to the scheduler, and whether to yield.         *)
Given(q, s) ==
  IF Kind[q] = "mutex" /\ queue[q].holder # NoTask THEN PriorityDisinherit(s, queue[q].holder)
  ELSE [s |-> s, yes |-> FALSE]

(* xQueueGenericSend.  Top.arg: the item and the position.                  *)
Send ==
  /\ At("send", "start")
  /\ ~Full(Top.obj) \/ Top.arg[2] = "overwrite"
  /\ LET q == Top.obj
         given == Given(q, sched)
         waiting == sched.events[Received(q)] # << >>
     IN  /\ queue' = [queue EXCEPT ![q] = CopyTo(q, Top.arg[1], Top.arg[2])]
         /\ QueueReturn(YieldIf(~waiting /\ given.yes, WakeFirst(given.s, Received(q))))

Receive ==
  /\ At("receive", "start") /\ ~Empty(Top.obj)
  /\ queue' = [queue EXCEPT ![Top.obj] = CopyFrom(Top.obj)]
  /\ QueueReturn(WakeFirst(sched, Sent(Top.obj)))

Taken(q, s) == IF Kind[q] = "mutex" THEN [s EXCEPT !.held[me] = @ + 1] ELSE s

(* xQueueSemaphoreTake.                                                     *)
Take ==
  /\ At("take", "start") /\ ~Empty(Top.obj)
  /\ LET q == Top.obj
     IN  /\ queue' = [queue EXCEPT ![q] = [CopyFrom(q) EXCEPT
                        !.holder = IF Kind[q] = "mutex" THEN me ELSE @]]
         /\ QueueReturn(WakeFirst(Taken(q, sched), Sent(q)))

(* The item stays, and may interest others who wait.                        *)
Peek ==
  /\ At("peek", "start") /\ ~Empty(Top.obj)
  /\ QueueReturn(WakeFirst(sched, Received(Top.obj)))
  /\ UNCHANGED queue

GiveUp ==
  /\ AtQueue("start")
  /\ Blocked /\ (Top.op = "send" => Top.arg[2] # "overwrite")
  /\ IF Top.wait = 0 THEN QueueReturn(sched)
     ELSE GoTo("suspend", SetTimeOut(sched, Top.wait))
  /\ UNCHANGED queue

QueueSuspend == AtQueue("suspend") /\ GoTo("lock", SuspendAll(sched)) /\ UNCHANGED queue

(* Mutant: a queue that is locked already is unlocked for handlers.         *)
LockNone(q) == queue[q]

Lock(q) ==
  [queue[q] EXCEPT !.rx = IF @ = Unlocked THEN 0 ELSE @, !.tx = IF @ = Unlocked THEN 0 ELSE @]

QueueLock ==
  /\ AtQueue("lock") \/ At("waitRestricted", "start")
  /\ queue' = [queue EXCEPT ![Top.obj] = Lock(Top.obj)]
  /\ GoTo("check", sched)

(* xTaskCheckForTimeOut.                                                    *)
QueueCheck ==
  /\ AtQueue("check")
  /\ LET r == CheckForTimeOut(sched, Top.wait)
     IN  /\ sched' = r.s
         /\ stack' = [stack EXCEPT ![me][1] =
              [@ EXCEPT !.wait = r.left, !.then = IF r.yes THEN "timed out" ELSE "again",
                        !.at = IF r.yes THEN "unlock tx" ELSE "look"]]
  /\ UNCHANGED <<queue, scenario>>

(* prvIsQueueFull, prvIsQueueEmpty.                                         *)
QueueLook ==
  /\ AtQueue("look")
  /\ GoTo(IF ~Blocked THEN "unlock tx"
          ELSE IF Top.op = "take" /\ Kind[Top.obj] = "mutex" THEN "inherit" ELSE "place", sched)
  /\ UNCHANGED queue

TakeInherit ==
  /\ At("take", "inherit")
  /\ LET r == PriorityInherit(sched, queue[Top.obj].holder)
     IN  /\ sched' = r.s
         /\ stack' = [stack EXCEPT ![me][1].at = "place", ![me][1].flag = r.yes]
  /\ UNCHANGED <<queue, scenario>>

QueuePlace ==
  /\ AtQueue("place")
  /\ sched' = PlaceOnEventList(sched, WaitList, Top.wait)
  /\ stack' = [stack EXCEPT ![me][1].at = "unlock tx", ![me][1].then = "yield"]
  /\ UNCHANGED <<queue, scenario>>

(* prvUnlockQueue: one of those who wait is woken for every operation that  *)
(* a handler has made on the locked queue.                                  *)
WakeMissed(s, l) ==
  IF s.events[l] = << >> THEN s
  ELSE LET r == RemoveFromEventList(s, l) IN IF r.yes THEN MissedYield(r.s) ELSE r.s

WakeCounted(s, l, n) == FoldLeft(LAMBDA a, i : WakeMissed(a, l), s, [i \in 1..n |-> i])

QueueUnlockTx ==
  /\ AtQueue("unlock tx") \/ At("waitRestricted", "unlock tx")
  /\ LET q == Top.obj
     IN  /\ queue' = [queue EXCEPT ![q].tx = Unlocked]
         /\ GoTo("unlock rx", WakeCounted(sched, Received(q), queue[q].tx))

QueueUnlockRx ==
  /\ AtQueue("unlock rx") \/ At("waitRestricted", "unlock rx")
  /\ LET q == Top.obj
         s == WakeCounted(sched, Sent(q), queue[q].rx)
     IN  /\ queue' = [queue EXCEPT ![q].rx = Unlocked]
         /\ IF Top.op = "waitRestricted" THEN Return(s) ELSE GoTo("resume", s)

(* vQueueWaitForMessageRestricted, for the timer task, which has suspended  *)
(* the scheduler: it only gets ready to wait.  Top.arg: without time limit. *)
WaitRestricted ==
  /\ At("waitRestricted", "check")
  /\ GoTo("unlock tx",
          IF Empty(Top.obj) THEN PlaceRestricted(sched, Received(Top.obj), Top.wait, Top.arg)
          ELSE sched)
  /\ UNCHANGED queue

QueueResume ==
  /\ AtQueue("resume")
  /\ LET s == ResumeAll(sched)
     IN  CASE Top.then = "again" -> GoTo("start", s)
           [] Top.then = "yield" -> GoTo(IF Yielded(s) THEN "start" ELSE "yield", s)
           [] Top.then = "timed out" ->
                IF Top.op = "send" THEN QueueReturn(s) ELSE GoTo("look again", s)
  /\ UNCHANGED queue

QueueYield == AtQueue("yield") /\ GoTo("start", Yield(sched)) /\ UNCHANGED queue

(* The time is over, but something may have come in the meantime.           *)
QueueLookAgain ==
  /\ AtQueue("look again")
  /\ IF ~Blocked THEN GoTo("start", sched)
     ELSE IF Top.flag THEN GoTo("disinherit", sched) ELSE QueueReturn(sched)
  /\ UNCHANGED queue

(* prvGetDisinheritPriorityAfterTimeout.                                    *)
HighestWaiting(q) ==
  LET waiting == sched.events[Received(q)]
  IN  IF waiting = << >> THEN 0 ELSE MaxPriorities - sched.evValue[Head(waiting)]

TakeDisinherit ==
  /\ At("take", "disinherit")
  /\ LET holder == queue[Top.obj].holder
     IN  QueueReturn(IF holder = NoTask THEN sched
                     ELSE DisinheritAfterTimeout(sched, holder, HighestWaiting(Top.obj)))
  /\ UNCHANGED queue

(* xQueueReset.                                                             *)
Reset ==
  /\ At("reset", "start")
  /\ queue' = [queue EXCEPT ![Top.obj] = NewQueue(Top.obj)]
  /\ Return(WakeFirst(sched, Sent(Top.obj)))

----------------------------------------------------------------------------
(* The calls of interrupt handlers. *)

(* The lock counts what the task that locked the queue has to make up for.  *)
FromISR(q, lock, after, l) ==
  IF after[lock] = Unlocked
  THEN sched' = WakeFirst(sched, l) /\ queue' = [queue EXCEPT ![q] = after]
  ELSE /\ after[lock] < MaxLock
       /\ queue' = [queue EXCEPT ![q] = [after EXCEPT ![lock] = @ + 1]]
       /\ UNCHANGED sched

SendFromISR(call) ==
  /\ call.op = "sendFromISR"
  /\ ~Full(call.obj) \/ call.arg[2] = "overwrite"
  /\ FromISR(call.obj, "tx", CopyTo(call.obj, call.arg[1], call.arg[2]), Received(call.obj))
  /\ UNCHANGED <<stack, scenario>>

GiveFromISR(call) ==
  /\ call.op = "giveFromISR" /\ ~Full(call.obj)
  /\ FromISR(call.obj, "tx", [queue[call.obj] EXCEPT !.count = @ + 1], Received(call.obj))
  /\ UNCHANGED <<stack, scenario>>

ReceiveFromISR(call) ==
  /\ call.op = "receiveFromISR" /\ ~Empty(call.obj)
  /\ FromISR(call.obj, "rx", CopyFrom(call.obj), Sent(call.obj))
  /\ UNCHANGED <<stack, scenario>>

----------------------------------------------------------------------------

(* Only its holder gives a mutex, and nobody takes one twice.               *)
LegalQueueCall(call) ==
  /\ call.op = "send" /\ Kind[call.obj] = "mutex" => queue[call.obj].holder = me
  /\ call.op = "take" => queue[call.obj].holder # me

QueueStep ==
  \/ Send \/ Receive \/ Take \/ Peek \/ GiveUp \/ Reset
  \/ QueueSuspend \/ QueueLock \/ QueueCheck \/ QueueLook \/ TakeInherit \/ QueuePlace
  \/ QueueUnlockTx \/ QueueUnlockRx \/ QueueResume \/ QueueYield
  \/ QueueLookAgain \/ TakeDisinherit \/ WaitRestricted

QueueInterrupt(call) == SendFromISR(call) \/ GiveFromISR(call) \/ ReceiveFromISR(call)

=============================================================================
