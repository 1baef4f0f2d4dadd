------------------------------- MODULE Tasks -------------------------------
(***************************************************************************)
(* The scheduler of the FreeRTOS kernel (src/examples/freertos/tasks.c) as *)
(* the example applications configure it: preemption, time slicing,        *)
(* mutexes, task notifications, tickless idle without a port that sleeps.  *)
(*                                                                         *)
(* The static variables of tasks.c and the task control blocks are one     *)
(* record, and each function of tasks.c an operator from records to        *)
(* records, so that the other files can call several of them in one        *)
(* critical section.  A critical section masks all interrupts: it is one   *)
(* step.  A function that blocks, or that consists of several critical     *)
(* sections, is a call in progress on its task's stack, with the point it  *)
(* has reached; interrupts come between any two steps.                     *)
(***************************************************************************)
EXTENDS Lists, FiniteSets, TLC

CONSTANTS
  Tasks,         \* the tasks there can be, the idle task among them
  Idle,
  MaxPriorities, \* configMAX_PRIORITIES
  TickMax,       \* the largest tick value, which is also portMAX_DELAY
  MaxPended,     \* bound: ticks that come while the scheduler is suspended
  MaxLate,       \* bound: ticks after the end of its time limit before a task runs
  ValueBits,     \* how many bits a notification value has
  Queues, Groups \* the objects with lists of waiting tasks

Priorities == 0..(MaxPriorities - 1)
Ticks == 0..TickMax
Forever == TickMax

(* Mutant: the tick count does not wrap.                                    *)
TickAfterEndless(tick, n) == tick + n

TickAfter(tick, n) == (tick + n) % (TickMax + 1)
TickSince(tick, n) == (tick - n) % (TickMax + 1)

Values == 0..(2^ValueBits - 1)

(* The lists of tasks that wait for something.                              *)
EventLists == ({"send", "receive"} \X Queues) \cup ({"bits"} \X Groups)

ASSUME TasksAssumption ==
  /\ Idle \in Tasks /\ IsFiniteSet(Tasks)
  /\ MaxPriorities \in Nat \ {0} /\ TickMax \in Nat \ {0}
  /\ MaxPended \in Nat /\ MaxLate \in Nat

(* The TimeOut_t of a call: when it began to wait, and whether              *)
(* xNumOfOverflows has changed since.  `due` is not in the code: how many   *)
(* ticks the call has still to wait, in truth.                              *)
Entries == [set : BOOLEAN, finite : BOOLEAN, tick : Ticks, wrapped : BOOLEAN,
            due : (-MaxLate)..TickMax]
NoEntry == [set |-> FALSE, finite |-> FALSE, tick |-> 0, wrapped |-> FALSE, due |-> 0]

(* What an event item holds while a task waits for bits of a group.         *)
NoBits == [inUse |-> FALSE, bits |-> {}, clear |-> FALSE, all |-> FALSE, satisfied |-> FALSE]

(* The static variables of tasks.c, and the fields of the task control      *)
(* blocks as functions of the task.                                         *)
Schedulers ==
  [ready : [Priorities -> [items : Seq(Tasks), index : Nat]],
   delayed : Seq(Tasks), overflow : Seq(Tasks), pendingReady : Seq(Tasks),
   suspended : Seq(Tasks), terminating : Seq(Tasks),
   events : [EventLists -> Seq(Tasks)],
   wake : [Tasks -> Ticks], prio : [Tasks -> Priorities], base : [Tasks -> Priorities],
   held : [Tasks -> Nat], evValue : [Tasks -> 0..MaxPriorities],
   bits : [Tasks -> [inUse : BOOLEAN, bits : SUBSET Nat, clear : BOOLEAN, all : BOOLEAN,
                     satisfied : BOOLEAN]],
   notify : [Tasks -> {"not waiting", "waiting", "received"}], value : [Tasks -> Values],
   entry : [Tasks -> Entries], lastWake : [Tasks -> Ticks],
   current : Tasks, top : Priorities, tick : Ticks, pendedTicks : 0..MaxPended,
   suspendedAll : Nat, yieldPending : BOOLEAN, nextUnblock : Ticks, pendsv : BOOLEAN]

VARIABLES
  sched,  \* the static variables of tasks.c and the task control blocks
  stack   \* the calls in progress of every task, the innermost first

(* What is known of a task at a time: ready and so on are the lists its     *)
(* xStateListItem can be in.                                                *)
InList(s, t) ==
  {l \in {"delayed", "overflow", "suspended", "terminating"} : Contains(s[l], t)}
    \cup {p \in Priorities : Contains(s.ready[p].items, t)}

Ready(s, t) == Contains(s.ready[s.prio[t]].items, t)

Waits(s, t) == {l \in EventLists : Contains(s.events[l], t)}

----------------------------------------------------------------------------
(* Lists and priorities. *)

(* Mutant: uxTopReadyPriority is not raised.                                *)
AddToReadyLow(s, t) == [s EXCEPT !.ready[s.prio[t]] = InsertEnd(@, t)]

AddToReady(s, t) ==
  [s EXCEPT !.top = IF s.prio[t] > @ THEN s.prio[t] ELSE @,
            !.ready[s.prio[t]] = InsertEnd(@, t)]

(* A wake time means nothing outside of the delayed lists and is forgotten. *)
RemoveState(s, t) ==
  [s EXCEPT !.ready = [p \in Priorities |-> RemoveItem(@[p], t)],
            !.delayed = Without(@, t), !.overflow = Without(@, t),
            !.suspended = Without(@, t), !.terminating = Without(@, t),
            !.wake[t] = 0]

RemoveEvent(s, t) ==
  [s EXCEPT !.events = [l \in EventLists |-> Without(@[l], t)],
            !.pendingReady = Without(@, t)]

ToReady(s, t) == AddToReady(RemoveState(s, t), t)

Yield(s) == [s EXCEPT !.pendsv = TRUE]

YieldIf(condition, s) == IF condition THEN Yield(s) ELSE s

ResetNextUnblock(s) ==
  [s EXCEPT !.nextUnblock = IF s.delayed = << >> THEN Forever ELSE s.wake[Head(s.delayed)]]

(* Mutant: a wake time past the wrap goes to the list of the current round. *)
WrapsNever(s, wake) == FALSE

Wraps(s, wake) == wake < s.tick

AddCurrentToDelayed(s, ticks, indefinitely) ==
  LET t == s.current
      wake == TickAfter(s.tick, ticks)
      removed == RemoveState(s, t)
      timed == [removed EXCEPT !.wake[t] = wake]
  IN  IF ticks = Forever /\ indefinitely
      THEN [removed EXCEPT !.suspended = Append(@, t)]
      ELSE IF Wraps(s, wake)
      THEN [timed EXCEPT !.overflow = InsertSorted(@, t, timed.wake)]
      ELSE [timed EXCEPT !.delayed = InsertSorted(@, t, timed.wake),
                         !.nextUnblock = IF wake < @ THEN wake ELSE @]

(* Removed and inserted again at the priority it has now.                   *)
ChangePriority(s, t, p) ==
  IF Ready(s, t)
  THEN AddToReady([RemoveState(s, t) EXCEPT !.prio[t] = p], t)
  ELSE [s EXCEPT !.prio[t] = p]

(* The value of an event item gives the place among those who wait, except  *)
(* while it holds bits.                                                     *)
SetEventPriority(s, t, p) ==
  IF s.bits[t].inUse THEN s ELSE [s EXCEPT !.evValue[t] = MaxPriorities - p]

----------------------------------------------------------------------------
(* Time. *)

SuspendAll(s) == [s EXCEPT !.suspendedAll = @ + 1]

WakeOne(acc, t) ==
  [s |-> ToReady(RemoveEvent(acc.s, t), t),
   yes |-> acc.yes \/ acc.s.prio[t] >= acc.s.prio[acc.s.current]]

SwitchDelayedLists(s) ==
  ResetNextUnblock(
    [s EXCEPT !.delayed = s.overflow, !.overflow = s.delayed,
              !.entry = [t \in Tasks |-> [@[t] EXCEPT !.wrapped = s.entry[t].finite]]])

NextTick(s) ==
  [s EXCEPT !.tick = TickAfter(@, 1),
            !.entry = [t \in Tasks |-> [@[t] EXCEPT !.due = IF s.entry[t].finite THEN @ - 1 ELSE @]]]

(* The delayed list is sorted: the search for those who are due ends at the *)
(* first who is not.                                                        *)
Expired(s) == SubSeq(s.delayed, 1, NotLarger(s.delayed, s.wake, s.tick))

(* xTaskIncrementTick: the new state and whether to switch.                 *)
IncrementTick(s) ==
  LET ticked == NextTick(s)
      now == IF ticked.tick = 0 THEN SwitchDelayedLists(ticked) ELSE ticked
      woken == FoldLeft(WakeOne, [s |-> now, yes |-> FALSE], Expired(now))
      after == IF now.tick >= now.nextUnblock
               THEN [woken EXCEPT !.s = ResetNextUnblock(@)]
               ELSE [s |-> now, yes |-> FALSE]
      slice == Len(after.s.ready[after.s.prio[s.current]].items) > 1
  IN  IF s.suspendedAll = 0
      THEN [s |-> after.s, yes |-> after.yes \/ slice \/ s.yieldPending]
      ELSE [s |-> [s EXCEPT !.pendedTicks = @ + 1], yes |-> s.yieldPending]

PendedTask(s, t) ==
  LET ready == ToReady(RemoveEvent(s, t), t)
  IN  [ready EXCEPT !.yieldPending = @ \/ ready.prio[t] >= ready.prio[ready.current]]

PendedTick(s, i) ==
  LET ticked == IncrementTick(s)
  IN  [ticked.s EXCEPT !.yieldPending = @ \/ ticked.yes]

(* What ResumeAll makes up for when the scheduler runs again.               *)
CatchUp(s) ==
  LET moved == FoldLeft(PendedTask, s, s.pendingReady)
      reset == IF s.pendingReady = << >> THEN moved ELSE ResetNextUnblock(moved)
  IN  [FoldLeft(PendedTick, reset, [i \in 1..s.pendedTicks |-> i]) EXCEPT !.pendedTicks = 0]

ResumeAll(s) ==
  LET resumed == [s EXCEPT !.suspendedAll = @ - 1]
      after == CatchUp(resumed)
  IN  IF resumed.suspendedAll > 0 THEN resumed ELSE YieldIf(after.yieldPending, after)

(* What ResumeAll returns: whether it has yielded.                          *)
Yielded(s) == s.suspendedAll = 0 /\ s.yieldPending

SelectHighest(s) ==
  LET p == Max({q \in 0..s.top : s.ready[q].items # << >>})
      list == Advance(s.ready[p])
  IN  [s EXCEPT !.ready[p] = list, !.current = AtIndex(list), !.top = p]

(* vTaskSwitchContext, from PendSV.                                         *)
SwitchContext(s) ==
  IF s.suspendedAll > 0 THEN [s EXCEPT !.yieldPending = TRUE, !.pendsv = FALSE]
  ELSE SelectHighest([s EXCEPT !.yieldPending = FALSE, !.pendsv = FALSE])

----------------------------------------------------------------------------
(* Waiting for events, for the other files. *)

PlaceOnEventList(s, l, ticks) ==
  AddCurrentToDelayed([s EXCEPT !.events[l] = InsertSorted(@, s.current, s.evValue)], ticks, TRUE)

PlaceOnUnordered(s, l, wanted, ticks) ==
  AddCurrentToDelayed(
    [s EXCEPT !.bits[s.current] = [wanted EXCEPT !.inUse = TRUE], !.evValue[s.current] = 0,
              !.events[l] = Append(@, s.current)], ticks, TRUE)

PlaceRestricted(s, l, ticks, indefinitely) ==
  AddCurrentToDelayed([s EXCEPT !.events[l] = Append(@, s.current)],
                      IF indefinitely THEN Forever ELSE ticks, indefinitely)

(* A task whose event item has just been removed.                           *)
MadeReady(s, t) ==
  IF s.suspendedAll = 0 THEN ResetNextUnblock(ToReady(s, t))
  ELSE [s EXCEPT !.pendingReady = Append(@, t)]

RemoveFromEventList(s, l) ==
  LET t == Head(s.events[l])
      yes == s.prio[t] > s.prio[s.current]
  IN  [s |-> [MadeReady(RemoveEvent(s, t), t) EXCEPT !.yieldPending = @ \/ yes], yes |-> yes]

(* The first task that waits, if any, is woken, with a yield if it is more  *)
(* urgent: the use queue.c makes of it.                                     *)
WakeFirst(s, l) ==
  IF s.events[l] = << >> THEN s
  ELSE LET r == RemoveFromEventList(s, l) IN YieldIf(r.yes, r.s)

RemoveFromUnordered(s, t, bits) ==
  LET ready == ToReady(RemoveEvent([s EXCEPT !.bits[t] = bits], t), t)
  IN  [ready EXCEPT !.yieldPending = @ \/ ready.prio[t] > ready.prio[ready.current]]

MissedYield(s) == [s EXCEPT !.yieldPending = TRUE]

(* The time of entry is not looked at when there is no limit.               *)
SetTimeOut(s, ticks) ==
  LET finite == ticks # Forever
  IN  IF s.entry[s.current].set THEN s
      ELSE [s EXCEPT !.entry[s.current] =
              [set |-> TRUE, finite |-> finite, tick |-> IF finite THEN s.tick ELSE 0,
               wrapped |-> FALSE, due |-> IF finite THEN ticks ELSE 0]]

(* Mutant: the time is over as soon as the tick count wraps.                *)
WentRoundEarly(s) == s.entry[s.current].wrapped

(* The tick count has wrapped and passed the time of entry again.           *)
WentRound(s) ==
  LET e == s.entry[s.current] IN e.wrapped /\ s.tick >= e.tick

(* The state, whether the time is over, and the ticks that are left.        *)
CheckForTimeOut(s, ticks) ==
  LET elapsed == TickSince(s.tick, s.entry[s.current].tick)
  IN  IF ticks = Forever THEN [s |-> s, yes |-> FALSE, left |-> ticks]
      ELSE IF WentRound(s) THEN [s |-> s, yes |-> TRUE, left |-> ticks]
      ELSE IF elapsed < ticks
      THEN [s |-> [s EXCEPT !.entry[s.current].tick = s.tick, !.entry[s.current].wrapped = FALSE],
            yes |-> FALSE, left |-> ticks - elapsed]
      ELSE [s |-> s, yes |-> TRUE, left |-> 0]

(* A call that had a TimeOut_t returns.                                     *)
ForgetTimeOut(s) == [s EXCEPT !.entry[s.current] = NoEntry]

----------------------------------------------------------------------------
(* Priority inheritance. *)

PriorityInherit(s, holder) ==
  LET p == s.prio[s.current]
  IN  IF s.prio[holder] < p
      THEN [s |-> ChangePriority(SetEventPriority(s, holder, p), holder, p), yes |-> TRUE]
      ELSE [s |-> s, yes |-> s.base[holder] < p]

(* The holder is the current task, which is ready.                          *)
PriorityDisinherit(s, t) ==
  LET given == [s EXCEPT !.held[t] = @ - 1]
  IN  IF s.prio[t] # s.base[t] /\ given.held[t] = 0
      THEN [s |-> [ChangePriority(given, t, s.base[t])
                     EXCEPT !.evValue[t] = MaxPriorities - s.base[t]], yes |-> TRUE]
      ELSE [s |-> given, yes |-> FALSE]

DisinheritAfterTimeout(s, holder, highest) ==
  LET p == IF s.base[holder] < highest THEN highest ELSE s.base[holder]
  IN  IF s.prio[holder] # p /\ s.held[holder] = 1
      THEN ChangePriority(SetEventPriority(s, holder, p), holder, p) ELSE s

=============================================================================
