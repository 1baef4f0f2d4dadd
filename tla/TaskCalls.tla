----------------------------- MODULE TaskCalls -----------------------------
(***************************************************************************)
(* The functions of src/examples/freertos/tasks.c that tasks and interrupt *)
(* handlers call, the idle task, SysTick and PendSV.  What the tasks of an *)
(* application call is not part of the kernel: every task has a menu of    *)
(* calls and makes any of them at any time, again and again.               *)
(***************************************************************************)
EXTENDS Tasks

CONSTANTS
  Scenarios  \* the applications: which tasks are created before the scheduler
             \* starts, with their priorities, and who may call what

VARIABLES
  scenario   \* which of the Scenarios runs

me == sched.current

(* A call in progress.                                                      *)
Frame(call) ==
  [op |-> call.op, at |-> "start", obj |-> call.obj, arg |-> call.arg, wait |-> call.wait,
   flag |-> FALSE, then |-> "return"]

Top == stack[me][1]

TaskRuns == ~sched.pendsv

At(op, at) == TaskRuns /\ stack[me] # << >> /\ Top.op = op /\ Top.at = at

GoTo(at, s) == sched' = s /\ stack' = [stack EXCEPT ![me][1].at = at] /\ UNCHANGED scenario

Return(s) == sched' = s /\ stack' = [stack EXCEPT ![me] = Tail(@)] /\ UNCHANGED scenario

Call(call) ==
  /\ TaskRuns /\ stack[me] = << >>
  /\ stack' = [stack EXCEPT ![me] = <<Frame(call)>>]
  /\ UNCHANGED <<sched, scenario>>

----------------------------------------------------------------------------
(* Creation and the start of the scheduler. *)

Nobody ==
  [ready |-> [p \in Priorities |-> EmptyList],
   delayed |-> << >>, overflow |-> << >>, pendingReady |-> << >>,
   suspended |-> << >>, terminating |-> << >>,
   events |-> [l \in EventLists |-> << >>],
   wake |-> [t \in Tasks |-> 0], prio |-> [t \in Tasks |-> 0], base |-> [t \in Tasks |-> 0],
   held |-> [t \in Tasks |-> 0], evValue |-> [t \in Tasks |-> MaxPriorities],
   bits |-> [t \in Tasks |-> NoBits],
   notify |-> [t \in Tasks |-> "not waiting"], value |-> [t \in Tasks |-> 0],
   entry |-> [t \in Tasks |-> NoEntry],
   lastWake |-> [t \in Tasks |-> 0],
   current |-> Idle, top |-> 0, tick |-> 0, pendedTicks |-> 0, suspendedAll |-> 0,
   yieldPending |-> FALSE, nextUnblock |-> Forever, pendsv |-> FALSE]

InitialiseNewTask(s, t, p) ==
  [s EXCEPT !.prio[t] = p, !.base[t] = p, !.held[t] = 0, !.evValue[t] = MaxPriorities - p,
            !.bits[t] = NoBits, !.notify[t] = "not waiting", !.value[t] = 0]

(* Before the scheduler starts the last of the most urgent tasks becomes    *)
(* the current one.                                                         *)
AddFirstTask(s, new) ==
  LET added == AddToReady(InitialiseNewTask(s, new.task, new.prio), new.task)
  IN  IF s.prio[s.current] <= new.prio THEN [added EXCEPT !.current = new.task] ELSE added

(* main creates the tasks, vTaskStartScheduler the idle task.               *)
Started(created) == FoldLeft(AddFirstTask, Nobody, Append(created, [task |-> Idle, prio |-> 0]))

(* A call of the idle task's loop.                                          *)
IdleCall == [op |-> "idle", obj |-> Idle, arg |-> 0, wait |-> 0]

SchedInit ==
  /\ scenario \in DOMAIN Scenarios
  /\ sched = Started(Scenarios[scenario].created)
  /\ stack = [t \in Tasks |-> IF t = Idle THEN <<Frame(IdleCall)>> ELSE << >>]

(* xTaskCreate fails unless there is memory that no other task has.         *)
Create ==
  /\ At("create", "start")
  /\ IF InList(sched, Top.obj) = {}
     THEN GoTo("check", AddToReady(InitialiseNewTask(sched, Top.obj, Top.arg), Top.obj))
     ELSE Return(sched)

CreateCheck ==
  /\ At("create", "check")
  /\ Return(YieldIf(sched.prio[me] < sched.prio[Top.obj], sched))

(* What is left of a task whose memory has been freed.                      *)
Freed(s, t) == [InitialiseNewTask(s, t, 0) EXCEPT !.entry[t] = NoEntry]

(* Mutant: the task's event item stays where it is.                         *)
DetachState(s, t) == RemoveState(s, t)

Detach(s, t) == RemoveEvent(RemoveState(s, t), t)

DeleteSelf ==
  /\ At("delete", "start") /\ Top.obj = me
  /\ GoTo("yield", [Detach(sched, me) EXCEPT !.terminating = Append(@, me)])

DeleteOther ==
  /\ At("delete", "start") /\ Top.obj # me
  /\ sched' = ResetNextUnblock(Freed(Detach(sched, Top.obj), Top.obj))
  /\ stack' = [stack EXCEPT ![Top.obj] = << >>, ![me] = Tail(@)]
  /\ UNCHANGED scenario

(* The yield at the end of a function, when its task is switched back to.   *)
YieldAtEnd ==
  /\ \E op \in {"delete", "suspend", "delay", "delayUntil", "yield"} : At(op, "yield")
  /\ Return(Yield(sched))

----------------------------------------------------------------------------
(* Delays. *)

Delay ==
  /\ At("delay", "start")
  /\ IF Top.wait > 0 THEN GoTo("add", SuspendAll(sched)) ELSE GoTo("yield", sched)

DelayAdd ==
  /\ At("delay", "add")
  /\ GoTo("resume", AddCurrentToDelayed(sched, Top.wait, FALSE))

DelayUntil ==
  /\ At("delayUntil", "start")
  /\ GoTo("add", SuspendAll(sched))

(* Whether the next wake time is still to come.                             *)
ShouldDelay(tick, last, next) ==
  IF tick < last THEN next < last /\ next > tick ELSE next < last \/ next > tick

DelayUntilAdd ==
  /\ At("delayUntil", "add")
  /\ LET last == sched.lastWake[me]
         next == TickAfter(last, Top.wait)
         s == [sched EXCEPT !.lastWake[me] = next]
     IN  GoTo("resume",
              IF ShouldDelay(s.tick, last, next)
              THEN AddCurrentToDelayed(s, TickSince(next, s.tick), FALSE) ELSE s)

DelayResume ==
  /\ At("delay", "resume") \/ At("delayUntil", "resume")
  /\ LET s == ResumeAll(sched) IN IF Yielded(s) THEN Return(s) ELSE GoTo("yield", s)

(* vTaskSuspendAll and xTaskResumeAll around some work; and taskYIELD.      *)
Hold == At("hold", "start") /\ GoTo("held", SuspendAll(sched))
Release == At("hold", "held") /\ Return(ResumeAll(sched))
TaskYield == At("yield", "start") /\ GoTo("yield", sched)

----------------------------------------------------------------------------
(* Suspension and priorities. *)

Suspend ==
  /\ At("suspend", "start")
  /\ LET t == Top.obj
     IN  GoTo("reset", [Detach(sched, t) EXCEPT
                          !.suspended = Append(@, t),
                          !.notify[t] = IF @ = "waiting" THEN "not waiting" ELSE @])

SuspendReset ==
  /\ At("suspend", "reset")
  /\ LET s == ResetNextUnblock(sched) IN IF Top.obj = me THEN GoTo("yield", s) ELSE Return(s)

(* Suspended, and not waiting for anything without a time limit.            *)
IsSuspended(s, t) ==
  Contains(s.suspended, t) /\ ~Contains(s.pendingReady, t) /\ Waits(s, t) = {}

Resume ==
  /\ At("resume", "start")
  /\ LET t == Top.obj
     IN  Return(IF t # me /\ IsSuspended(sched, t)
                THEN YieldIf(sched.prio[t] >= sched.prio[me], ToReady(sched, t)) ELSE sched)

(* What the priority becomes when the base priority is set to p.            *)
Effective(s, t, p) == IF s.base[t] = s.prio[t] THEN p ELSE s.prio[t]

SetPriority(s, t, p) ==
  LET urgent == IF p > s.base[t] THEN t # s.current /\ p >= s.prio[s.current] ELSE t = s.current
      changed == ChangePriority(SetEventPriority(s, t, p), t, Effective(s, t, p))
  IN  IF p = s.base[t] THEN s ELSE YieldIf(urgent, [changed EXCEPT !.base[t] = p])

PrioritySet ==
  /\ At("prioritySet", "start")
  /\ Return(SetPriority(sched, Top.obj, Top.arg))

----------------------------------------------------------------------------
(* Task notifications. *)

BitsOf(v) == {i \in 0..(ValueBits - 1) : (v \div 2^i) % 2 = 1}
ValueOf(bits) == CHOOSE v \in Values : BitsOf(v) = bits

(* The task waits for a notification, if it has time; the switch comes when *)
(* the critical section ends.                                               *)
AwaitNotification(s, wait) ==
  LET waiting == [s EXCEPT !.notify[s.current] = "waiting"]
  IN  IF wait > 0 THEN Yield(AddCurrentToDelayed(waiting, wait, TRUE)) ELSE waiting

NotifyTake ==
  /\ At("notifyTake", "start")
  /\ GoTo("woken", IF sched.value[me] = 0 THEN AwaitNotification(sched, Top.wait) ELSE sched)

NotifyTaken ==
  /\ At("notifyTake", "woken")
  /\ Return([sched EXCEPT !.notify[me] = "not waiting",
                          !.value[me] = IF @ = 0 \/ Top.arg = "clear" THEN 0 ELSE @ - 1])

(* Top.arg: the bits to clear on entry and on exit.                         *)
NotifyWait ==
  /\ At("notifyWait", "start")
  /\ GoTo("woken",
          IF sched.notify[me] # "received"
          THEN AwaitNotification([sched EXCEPT !.value[me] = ValueOf(BitsOf(@) \ BitsOf(Top.arg[1]))],
                                 Top.wait)
          ELSE sched)

NotifyWaited ==
  /\ At("notifyWait", "woken")
  /\ Return([sched EXCEPT !.notify[me] = "not waiting",
                          !.value[me] = IF sched.notify[me] = "received"
                                        THEN ValueOf(BitsOf(@) \ BitsOf(Top.arg[2])) ELSE @])

NotifiedValue(old, state, new, action) ==
  CASE action = "set bits" -> ValueOf(BitsOf(old) \cup BitsOf(new))
    [] action = "increment" -> (old + 1) % 2^ValueBits
    [] action = "overwrite" -> new
    [] action = "if none" -> IF state = "received" THEN old ELSE new
    [] action = "none" -> old

Notified(s, t, new, action) ==
  [s EXCEPT !.notify[t] = "received", !.value[t] = NotifiedValue(@, s.notify[t], new, action)]

GenericNotify(s, t, new, action) ==
  LET n == Notified(s, t, new, action)
  IN  IF s.notify[t] = "waiting"
      THEN YieldIf(s.prio[t] > s.prio[s.current], ResetNextUnblock(ToReady(n, t))) ELSE n

NotifyFromISR(s, t, new, action) ==
  LET n == Notified(s, t, new, action)
      urgent == s.prio[t] > s.prio[s.current]
      woken == IF s.suspendedAll = 0 THEN ToReady(n, t)
               ELSE [n EXCEPT !.pendingReady = Append(@, t)]
  IN  IF s.notify[t] = "waiting"
      THEN YieldIf(urgent, [woken EXCEPT !.yieldPending = @ \/ urgent]) ELSE n

(* Top.arg: the value and the action.                                       *)
Notify ==
  /\ At("notify", "start")
  /\ Return(GenericNotify(sched, Top.obj, Top.arg[1], Top.arg[2]))

NotifyStateClear ==
  /\ At("notifyStateClear", "start")
  /\ Return([sched EXCEPT !.notify[Top.obj] = IF @ = "received" THEN "not waiting" ELSE @])

----------------------------------------------------------------------------
(* The idle task. *)

IdleCleanUp ==
  /\ At("idle", "start")
  /\ IF sched.terminating # << >>
     THEN LET t == Head(sched.terminating)
          IN  /\ sched' = Freed(RemoveState(sched, t), t)
              /\ stack' = [stack EXCEPT ![t] = << >>]
              /\ UNCHANGED scenario
     ELSE GoTo("share", sched)

IdleShare ==
  /\ At("idle", "share")
  /\ GoTo("sleep", YieldIf(Len(sched.ready[0].items) > 1, sched))

ExpectedIdleTime(s) ==
  IF s.prio[s.current] > 0 \/ Len(s.ready[0].items) > 1 \/ s.top > 0
  THEN 0 ELSE TickSince(s.nextUnblock, s.tick)

ExpectedIdleTimeBeforeSleep == 2

IdleSleep ==
  /\ At("idle", "sleep")
  /\ IF ExpectedIdleTime(sched) >= ExpectedIdleTimeBeforeSleep
     THEN GoTo("wake", SuspendAll(sched)) ELSE GoTo("start", sched)

IdleWake == At("idle", "wake") /\ GoTo("start", ResumeAll(sched))

----------------------------------------------------------------------------
(* Interrupts. *)

(* The bounds: nobody stays away for as long as the tick count takes to     *)
(* wrap (497 days), neither from the scheduler nor from a call.             *)
SysTick ==
  /\ sched.pendedTicks < MaxPended
  /\ \A t \in Tasks : sched.entry[t].finite => sched.entry[t].due > sched.pendedTicks - MaxLate
  /\ LET r == IncrementTick(sched) IN sched' = YieldIf(r.yes, r.s)
  /\ UNCHANGED <<stack, scenario>>

PendSV == sched.pendsv /\ sched' = SwitchContext(sched) /\ UNCHANGED <<stack, scenario>>

(* A handler calls xTaskNotifyFromISR or vTaskNotifyGiveFromISR.            *)
NotifyInterrupt(call) ==
  /\ call.op = "notifyFromISR"
  /\ sched' = NotifyFromISR(sched, call.obj, call.arg[1], call.arg[2])
  /\ UNCHANGED <<stack, scenario>>

----------------------------------------------------------------------------

(* What a task can do in good faith: nothing that blocks while it holds the *)
(* scheduler, and nothing to tasks that do not exist.                       *)
Exists(t) == InList(sched, t) # {} /\ ~Contains(sched.terminating, t)

LegalTaskCall(call) ==
  call.op \in {"delete", "suspend", "resume", "prioritySet", "notify", "notifyStateClear"} =>
    Exists(call.obj)

TaskStep ==
  \/ Create \/ CreateCheck \/ DeleteSelf \/ DeleteOther \/ YieldAtEnd
  \/ Delay \/ DelayAdd \/ DelayUntil \/ DelayUntilAdd \/ DelayResume
  \/ Hold \/ Release \/ TaskYield
  \/ Suspend \/ SuspendReset \/ Resume \/ PrioritySet
  \/ NotifyTake \/ NotifyTaken \/ NotifyWait \/ NotifyWaited \/ Notify \/ NotifyStateClear
  \/ IdleCleanUp \/ IdleShare \/ IdleSleep \/ IdleWake

=============================================================================
