------------------------------- MODULE Timers -------------------------------
(***************************************************************************)
(* Software timers of the FreeRTOS kernel                                  *)
(* (src/examples/freertos/timers.c).  Everything happens in the timer      *)
(* task: the others send it commands through a queue.  Like the scheduler  *)
(* it has a list of timers for the current round of the tick count and one *)
(* for the next, but it learns of a wrap only when it looks at the tick.   *)
(* The callbacks are code of the application and only counted as fired.    *)
(***************************************************************************)
EXTENDS Queues

CONSTANTS
  TimerIds,     \* the timers
  TimerQueue,   \* xTimerQueue, one of the Queues
  FirstPeriod,  \* the period a timer is created with
  FirstAuto,    \* whether it is created with auto-reload
  Pended        \* the calls that can be pended to the timer task, by name

ASSUME TimersAssumption ==
  /\ TimerIds # {} => TimerQueue \in Queues
  /\ FirstPeriod \in [TimerIds -> 1..(TickMax - MaxLate)] /\ FirstAuto \in [TimerIds -> BOOLEAN]

(* The static variables of timers.c and the timers.  `due` is not in the    *)
(* code: the ticks until the timer should fire.                             *)
TimerRecords ==
  [current : Seq(TimerIds), overflow : Seq(TimerIds), lastTime : Ticks, halted : BOOLEAN,
   of : [TimerIds -> [exists : BOOLEAN, active : BOOLEAN, auto : BOOLEAN, period : Ticks,
                      expiry : Ticks, due : (-MaxLate)..TickMax]]]

VARIABLES
  timer  \* the static variables of timers.c and the timers

NewTimer(t) ==
  [exists |-> TRUE, active |-> FALSE, auto |-> FirstAuto[t], period |-> FirstPeriod[t],
   expiry |-> 0, due |-> 0]

TimersInit ==
  timer = [current |-> << >>, overflow |-> << >>, lastTime |-> 0, halted |-> FALSE,
           of |-> [t \in TimerIds |-> NewTimer(t)]]

Message(command, t, value) == [command |-> command, timer |-> t, value |-> value]

Expiry(tm) == [t \in TimerIds |-> tm.of[t].expiry]

(* The value of an item means nothing outside of a list and is forgotten.   *)
Unlisted(tm, t) ==
  [tm EXCEPT !.current = Without(@, t), !.overflow = Without(@, t),
             !.of[t].expiry = 0, !.of[t].due = 0]

(* Mutant: a wrap between command and execution is not looked at.           *)
InsertNoWrap(tm, t, expiry, now, commanded) ==
  LET set == [tm EXCEPT !.of[t].expiry = expiry]
  IN  IF expiry <= now
      THEN [tm |-> [set EXCEPT !.overflow = InsertSorted(@, t, Expiry(set))], expired |-> FALSE]
      ELSE [tm |-> [set EXCEPT !.current = InsertSorted(@, t, Expiry(set))], expired |-> FALSE]

(* prvInsertTimerInActiveList: the lists, and whether the timer has expired *)
(* already and is in none.                                                  *)
Insert(tm, t, expiry, now, commanded) ==
  LET set == [tm EXCEPT !.of[t].expiry = expiry]
      overflow == [set EXCEPT !.overflow = InsertSorted(@, t, Expiry(set))]
      current == [set EXCEPT !.current = InsertSorted(@, t, Expiry(set))]
  IN  IF expiry <= now
      THEN IF TickSince(now, commanded) >= tm.of[t].period THEN [tm |-> tm, expired |-> TRUE]
           ELSE [tm |-> overflow, expired |-> FALSE]
      ELSE IF now < commanded /\ expiry >= commanded THEN [tm |-> tm, expired |-> TRUE]
           ELSE [tm |-> current, expired |-> FALSE]

(* The timer task sends a command to itself; it must not fail, and an       *)
(* assertion stops the program if it does.                                  *)
SendToSelf(tm, message) ==
  IF Full(TimerQueue)
  THEN timer' = [tm EXCEPT !.halted = TRUE] /\ UNCHANGED queue
  ELSE timer' = tm /\ queue' = [queue EXCEPT ![TimerQueue] = ToBack(TimerQueue, message)]

Keep(tm) == timer' = tm /\ UNCHANGED queue

----------------------------------------------------------------------------
(* The passing of time. *)

Listed(t) == Contains(timer.current, t) \/ Contains(timer.overflow, t)

(* What a step that may have made the tick count go on does to `due`.       *)
Aged ==
  [timer EXCEPT !.of = [t \in TimerIds |->
     [@[t] EXCEPT !.due = IF Listed(t) THEN @ - TickSince(sched'.tick, sched.tick) ELSE 0]]]

----------------------------------------------------------------------------
(* The calls of tasks and interrupt handlers. *)

(* The macros of timers.h give the tick count as the time of the command.   *)
Command(command, t, period) ==
  Message(command, t,
          CASE command \in {"start", "reset"} -> sched.tick
            [] command = "change period" -> period
            [] OTHER -> 0)

(* xTimerGenericCommand.  Top.arg: the command and a new period.            *)
TimerCommand ==
  /\ At("timerCommand", "start")
  /\ stack' = [stack EXCEPT ![me][1] =
       Frame([op |-> "send", obj |-> TimerQueue, wait |-> Top.wait,
              arg |-> <<Command(Top.arg[1], Top.obj, Top.arg[2]), "back">>])]
  /\ UNCHANGED <<sched, scenario, queue, timer>>

(* xTimerPendFunctionCall.                                                  *)
PendCall ==
  /\ At("pendCall", "start")
  /\ stack' = [stack EXCEPT ![me][1] =
       Frame([op |-> "send", obj |-> TimerQueue, wait |-> Top.wait,
              arg |-> <<Message("pended", Top.obj, 0), "back">>])]
  /\ UNCHANGED <<sched, scenario, queue, timer>>

CreateTimer ==
  /\ At("createTimer", "start")
  /\ timer' = [timer EXCEPT !.of[Top.obj] = NewTimer(Top.obj)]
  /\ Return(sched) /\ UNCHANGED queue

SetReloadMode ==
  /\ At("setReloadMode", "start")
  /\ timer' = [timer EXCEPT !.of[Top.obj].auto = Top.arg]
  /\ Return(sched) /\ UNCHANGED queue

TimerFromISR(call) ==
  /\ call.op \in {"timerFromISR", "pendFromISR"}
  /\ SendFromISR([op |-> "sendFromISR", obj |-> TimerQueue, wait |-> 0,
                  arg |-> <<IF call.op = "pendFromISR" THEN Message("pended", call.obj, 0)
                            ELSE Command(call.arg[1], call.obj, call.arg[2]), "back">>])
  /\ UNCHANGED timer

----------------------------------------------------------------------------
(* The timer task. *)

AtTimerTask(at) == At("timerTask", at)

Local(at, arg) ==
  stack' = [stack EXCEPT ![me][1] = [@ EXCEPT !.at = at, !.arg = arg]] /\ UNCHANGED scenario

(* What the timer task knows: the command it executes, and the time now.    *)
Knows(message, now) == [message |-> message, now |-> now]
Nothing == Knows(NoItem, 0)

TimerSuspend ==
  /\ AtTimerTask("start") /\ GoTo("sample", SuspendAll(sched)) /\ UNCHANGED <<queue, timer>>

(* prvSampleTimeNow, from either loop.  Before a command is executed its    *)
(* timer is removed from its list.                                          *)
TimerSample ==
  /\ AtTimerTask("sample") \/ AtTimerTask("sample for command")
  /\ LET commanded == Top.at = "sample for command"
         tm == IF commanded THEN Unlisted(timer, Top.arg.message.timer) ELSE timer
         wrapped == sched.tick < timer.lastTime
     IN  /\ timer' = [tm EXCEPT !.lastTime = sched.tick]
         /\ Local(IF commanded THEN IF wrapped THEN "switch for command" ELSE "read status"
                  ELSE IF wrapped THEN "switch" ELSE "decide",
                  Knows(Top.arg.message, sched.tick))
  /\ UNCHANGED <<sched, queue>>

Reloaded(tm, t) == [tm EXCEPT !.of[t].due = timer.of[t].due + timer.of[t].period]

(* prvSwitchTimerLists: what is left in the current list has expired, even  *)
(* more than once.                                                          *)
TimerSwitch ==
  /\ AtTimerTask("switch") \/ AtTimerTask("switch for command")
  /\ timer.current # << >>
  /\ LET t == Head(timer.current)
         removed == Unlisted(timer, t)
         reload == TickAfter(timer.of[t].expiry, timer.of[t].period)
         again == Reloaded([removed EXCEPT !.of[t].expiry = reload], t)
     IN  IF ~timer.of[t].auto THEN Keep(removed)
         ELSE IF reload > timer.of[t].expiry
         THEN Keep([again EXCEPT !.current = InsertSorted(@, t, Expiry(again))])
         ELSE SendToSelf(removed, Message("restart", t, timer.of[t].expiry))
  /\ UNCHANGED <<sched, stack, scenario>>

(* Mutant: the list of the next round is emptied before it is moved.        *)
SwappedEmpty(tm) == [tm EXCEPT !.overflow = << >>]

Swapped(tm) == [tm EXCEPT !.current = tm.overflow, !.overflow = << >>]

TimerSwitched ==
  /\ AtTimerTask("switch") \/ AtTimerTask("switch for command")
  /\ timer.current = << >>
  /\ timer' = Swapped(timer)
  /\ GoTo(IF Top.at = "switch" THEN "resume" ELSE "read status", sched)
  /\ UNCHANGED queue

(* Mutant: only the current list decides whether there is a time limit.     *)
NothingCurrent(tm) == tm.current = << >>

NothingListed(tm) == tm.current = << >> /\ tm.overflow = << >>

(* The rest of prvProcessTimerOrBlockTask: a timer has expired, or the task *)
(* waits for the next one or for a command.                                 *)
NextExpiry(tm) == IF tm.current = << >> THEN 0 ELSE tm.of[Head(tm.current)].expiry

TimerExpires(tm, now) == tm.current # << >> /\ NextExpiry(tm) <= now

TimerDecide ==
  /\ AtTimerTask("decide")
  /\ IF TimerExpires(timer, Top.arg.now) THEN GoTo("expired", ResumeAll(sched))
     ELSE LET wait == Frame([op |-> "waitRestricted", obj |-> TimerQueue,
                             arg |-> NothingListed(timer),
                             wait |-> TickSince(NextExpiry(timer), Top.arg.now)])
          IN  /\ stack' = [stack EXCEPT ![me] =
                   <<wait, [@[1] EXCEPT !.at = "wait", !.arg = Nothing]>>]
              /\ UNCHANGED <<sched, scenario>>
  /\ timer' = Aged /\ UNCHANGED queue

TimerWait ==
  /\ AtTimerTask("wait")
  /\ LET s == ResumeAll(sched) IN GoTo(IF Yielded(s) THEN "commands" ELSE "yield", s)
  /\ timer' = Aged /\ UNCHANGED queue

TimerYield == AtTimerTask("yield") /\ GoTo("commands", Yield(sched)) /\ UNCHANGED <<queue, timer>>

TimerResume ==
  /\ AtTimerTask("resume")
  /\ GoTo("commands", ResumeAll(sched))
  /\ timer' = Aged /\ UNCHANGED queue

(* prvProcessExpiredTimer.  The status is read and written back in two      *)
(* steps wherever the timer task changes it.                                *)
TimerExpired ==
  /\ AtTimerTask("expired")
  /\ LET t == Head(timer.current)
         next == timer.of[t].expiry
         removed == Unlisted(timer, t)
         r == Insert(removed, t, TickAfter(next, timer.of[t].period), Top.arg.now, next)
     IN  IF timer.of[t].auto
         THEN /\ IF r.expired THEN SendToSelf(r.tm, Message("restart", t, next))
                 ELSE Keep(Reloaded(r.tm, t))
              /\ Local("commands", Nothing)
         ELSE /\ Keep(removed)
              /\ Local("write expired", Knows(Message("expired", t, 0), 0))
  /\ UNCHANGED sched

TimerWriteExpired ==
  /\ AtTimerTask("write expired")
  /\ timer' = [timer EXCEPT !.of[Top.arg.message.timer].active = FALSE,
                            !.of[Top.arg.message.timer].auto = FALSE]
  /\ Local("commands", Nothing) /\ UNCHANGED <<sched, queue>>

----------------------------------------------------------------------------
(* prvProcessReceivedCommands. *)

TimerReceive ==
  /\ AtTimerTask("commands")
  /\ IF Empty(TimerQueue) THEN Local("start", Nothing) /\ UNCHANGED <<sched, queue>>
     ELSE LET message == queue[TimerQueue].storage[NextPlace(TimerQueue, queue[TimerQueue].read)]
          IN  /\ queue' = [queue EXCEPT ![TimerQueue] = CopyFrom(TimerQueue)]
              /\ Local(IF message.command = "pended" THEN "pended" ELSE "sample for command",
                       Knows(message, Top.arg.now))
              /\ sched' = WakeFirst(sched, Sent(TimerQueue))
  /\ UNCHANGED timer

(* The pended function is called within the timer task.                     *)
TimerPended ==
  /\ AtTimerTask("pended")
  /\ stack' = [stack EXCEPT ![me] =
       <<Frame(Pended[Top.arg.message.timer]), [@[1] EXCEPT !.at = "commands"]>>]
  /\ UNCHANGED <<sched, scenario, queue, timer>>

TimerReadStatus ==
  /\ AtTimerTask("read status")
  /\ stack' = [stack EXCEPT ![me][1] =
       [@ EXCEPT !.at = "execute", !.flag = timer.of[Top.arg.message.timer].auto]]
  /\ UNCHANGED <<sched, scenario, queue, timer>>

(* The truth about a timer whose period began at `tick`.                    *)
DueFrom(tm, t, tick) == [tm EXCEPT !.of[t].due = tm.of[t].period - TickSince(sched.tick, tick)]

Status(tm, t, active) == [tm EXCEPT !.of[t].active = active, !.of[t].auto = Top.flag]

Starting == {"start", "reset", "restart"}

Executed ==
  /\ stack' = [stack EXCEPT ![me][1] = [@ EXCEPT !.at = "commands", !.arg = Nothing, !.flag = FALSE]]
  /\ UNCHANGED <<sched, scenario>>

(* An expired timer fires at once, and an auto-reload one is started again  *)
(* for its next period.                                                     *)
TimerStart ==
  /\ AtTimerTask("execute") /\ Top.arg.message.command \in Starting
  /\ LET t == Top.arg.message.timer
         from == Top.arg.message.value
         next == TickAfter(from, timer.of[t].period)
         r == Insert(Status(timer, t, TRUE), t, next, Top.arg.now, from)
     IN  IF ~r.expired THEN Keep(DueFrom(r.tm, t, from))
         ELSE IF Top.flag THEN SendToSelf(r.tm, Message("restart", t, next))
         ELSE Keep(r.tm)
  /\ Executed

TimerStop ==
  /\ AtTimerTask("execute") /\ Top.arg.message.command = "stop"
  /\ Keep(Status(timer, Top.arg.message.timer, FALSE))
  /\ Executed

TimerChangePeriod ==
  /\ AtTimerTask("execute") /\ Top.arg.message.command = "change period"
  /\ LET t == Top.arg.message.timer
         tm == [Status(timer, t, TRUE) EXCEPT !.of[t].period = Top.arg.message.value]
         r == Insert(tm, t, TickAfter(Top.arg.now, Top.arg.message.value), Top.arg.now, Top.arg.now)
     IN  Keep(DueFrom(r.tm, t, Top.arg.now))
  /\ Executed

TimerDelete ==
  /\ AtTimerTask("execute") /\ Top.arg.message.command = "delete"
  /\ LET t == Top.arg.message.timer
     IN  Keep([Status(timer, t, FALSE) EXCEPT !.of[t].exists = FALSE])
  /\ Executed

----------------------------------------------------------------------------

(* The commands that have not been executed, with the one in execution.     *)
Commands ==
  {queue[TimerQueue].storage[(queue[TimerQueue].read + i) % Length[TimerQueue]] :
     i \in 1..queue[TimerQueue].count}
  \cup {f.arg.message : f \in {g \in UNION {Range(stack[t]) : t \in Tasks} :
          g.op = "timerTask" /\ g.at \in {"sample for command", "switch for command",
                                          "read status", "execute", "write expired"}}}
  \cup {f.arg[1] : f \in {g \in UNION {Range(stack[t]) : t \in Tasks} :
          g.op = "send" /\ g.obj = TimerQueue}}

CommandsFor(t) == {m \in Commands : m.timer = t}

(* Where the timer task relies on the time it has sampled.                  *)
Sampled ==
  {f.arg.now : f \in {g \in UNION {Range(stack[t]) : t \in Tasks} :
     g.op = "timerTask" /\ g.at \in {"decide", "expired", "switch for command", "read status",
                                     "execute"}}}

(* The bound: the timer task is late by MaxLate ticks at most, and executes *)
(* commands within that time.                                               *)
TimersKeepUp ==
  TimerIds # {} =>
    /\ \A t \in TimerIds : Listed(t) => timer.of[t].due > -MaxLate
    /\ \A m \in Commands : m.command \in Starting => TickSince(sched.tick, m.value) < MaxLate
    /\ \A now \in Sampled : TickSince(sched.tick, now) < MaxLate

(* A timer exists until it is deleted, and nobody uses it after that.       *)
LegalTimerCall(call) ==
  /\ call.op \in {"timerCommand", "setReloadMode", "timerFromISR"} =>
       /\ timer.of[call.obj].exists
       /\ \A m \in CommandsFor(call.obj) : m.command # "delete"
  /\ call.op = "createTimer" => ~timer.of[call.obj].exists

TimerStep ==
  \/ TimerCommand \/ PendCall \/ CreateTimer \/ SetReloadMode
  \/ TimerSuspend \/ TimerSample \/ TimerSwitch \/ TimerSwitched \/ TimerDecide
  \/ TimerWait \/ TimerYield \/ TimerResume \/ TimerExpired \/ TimerWriteExpired
  \/ TimerReceive \/ TimerPended \/ TimerReadStatus
  \/ TimerStart \/ TimerStop \/ TimerChangePeriod \/ TimerDelete

=============================================================================
