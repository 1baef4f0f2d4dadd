---------------------------- MODULE KernelLemmas ----------------------------
(***************************************************************************)
(* The scheduler, for any tasks and lists of events: what the operations   *)
(* of modules Lists, Tasks and TaskCalls do to the lists of the scheduler, *)
(* and that every step of a task in one of TaskCalls' functions, every     *)
(* interrupt and every tick leaves each task in exactly one list, where    *)
(* the step it has reached says it should be (Core); and who may be more   *)
(* urgent than the current task.                                           *)
(***************************************************************************)
EXTENDS Kernel, FiniteSetTheorems, SequenceTheorems, WellFoundedInduction, TLAPS

----------------------------------------------------------------------------
(* Terms of the inductive invariant. *)

SchedFields ==
  {"ready", "delayed", "overflow", "pendingReady", "suspended", "terminating", "events",
   "wake", "prio", "base", "held", "evValue", "bits", "notify", "value", "entry", "lastWake",
   "current", "top", "tick", "pendedTicks", "suspendedAll", "yieldPending", "nextUnblock",
   "pendsv"}

FrameFields == {"op", "at", "obj", "arg", "wait", "flag", "then"}

(* Lists. *)
IsList(q) == q \in Seq(Tasks) /\ \A i, j \in 1..Len(q) : q[i] = q[j] => i = j

IsRing(l) ==
  /\ l = [items |-> l.items, index |-> l.index]
  /\ IsList(l.items) /\ l.index \in 0..Len(l.items)

Shaped(s) ==
  /\ s = [f \in SchedFields |-> s[f]]
  /\ s.ready = [p \in Priorities |-> s.ready[p]]
  /\ s.events = [l \in EventLists |-> s.events[l]]
  /\ s.prio \in [Tasks -> Priorities] /\ s.base \in [Tasks -> Priorities]
  /\ s.notify = [t \in Tasks |-> s.notify[t]]
  /\ s.evValue = [t \in Tasks |-> s.evValue[t]]
  /\ s.bits = [t \in Tasks |-> s.bits[t]]
  /\ s.entry = [t \in Tasks |-> s.entry[t]]
  /\ s.current \in Tasks /\ s.top \in Priorities
  /\ s.suspendedAll \in Nat /\ s.pendedTicks \in Nat

HasLists(s) ==
  /\ \A p \in Priorities : IsRing(s.ready[p])
  /\ \A l \in EventLists : IsList(s.events[l])
  /\ IsList(s.delayed) /\ IsList(s.overflow) /\ IsList(s.suspended)
  /\ IsList(s.terminating) /\ IsList(s.pendingReady)

Dormant(s, t) ==
  Contains(s.delayed, t) \/ Contains(s.overflow, t) \/ Contains(s.suspended, t)

Unlinked(s, t) ==
  ~Contains(s.pendingReady, t) /\ \A l \in EventLists : ~Contains(s.events[l], t)

Placed(s, t) ==
  /\ \A p \in Priorities : Contains(s.ready[p].items, t) =>
       p = s.prio[t] /\ ~Dormant(s, t) /\ ~Contains(s.terminating, t)
  /\ Contains(s.delayed, t) => ~Contains(s.overflow, t) /\ ~Contains(s.suspended, t)
  /\ Contains(s.overflow, t) => ~Contains(s.suspended, t)
  /\ Contains(s.terminating, t) => ~Dormant(s, t)
  /\ \A l \in EventLists : Contains(s.events[l], t) =>
       /\ Dormant(s, t) /\ ~Contains(s.pendingReady, t)
       /\ \A m \in EventLists : Contains(s.events[m], t) => m = l
  /\ s.notify[t] = "waiting" => Unlinked(s, t)

OnePlace(s) == \A t \in Tasks : Placed(s, t)

IdleReady(s) == Contains(s.ready[0].items, Idle) /\ s.prio[Idle] = 0

CurrentApart(s) == Ready(s, s.current) => ~Contains(s.pendingReady, s.current)

SchedOK(s) == Shaped(s) /\ HasLists(s) /\ OnePlace(s) /\ IdleReady(s) /\ CurrentApart(s)

ListedIn(s, t) ==
  Dormant(s, t) \/ Contains(s.terminating, t) \/ \E p \in Priorities : Contains(s.ready[p].items, t)

(* The modes of a task, from its innermost call. *)
Holds(f) ==
  \/ f.op \in {"delay", "delayUntil"} /\ f.at \in {"add", "resume"}
  \/ f.op = "hold" /\ f.at = "held"
  \/ f.op = "idle" /\ f.at = "wake"
  \/ f.op \in QueueOps /\ f.at \in {"lock", "check", "look", "inherit", "place", "unlock tx",
                                    "unlock rx", "resume"}
  \/ f.op = "waitRestricted"
  \/ f.op \in {"setBits", "deleteGroup"} /\ f.at \in {"walk", "resume"}
  \/ f.op \in {"waitBits", "sync"} /\ f.at \in {"test", "resume"}
  \/ f.op \in {"sendStream", "receiveStream"} /\ f.at \in {"wake", "resume"}
  \/ f.op = "timerTask" /\ f.at \in {"sample", "switch", "decide", "resume", "wait"}

Dozes(f) ==
  \/ f.op \in {"delay", "delayUntil"} /\ f.at = "resume"
  \/ f.at = "yield"
  \/ f.op \in QueueOps /\ f.at \in {"unlock tx", "unlock rx", "resume"} /\ f.then = "yield"
  \/ f.op \in {"waitBits", "sync"} /\ f.at = "resume" /\ f.then = "wait"
  \/ f.op = "waitRestricted" /\ f.at \in {"unlock tx", "unlock rx"}
  \/ f.op = "timerTask" /\ f.at = "wait"

Awaits(f) == f.op \in {"notifyTake", "notifyWait"} /\ f.at = "woken"

Grouped(f) ==
  /\ f.op \in {"waitBits", "sync"}
  /\ f.at \in {"yield", "woken", "reset"} \/ (f.at = "resume" /\ f.then # "return")

(* What a call knows at the points where it relies on it. *)
Stage(f) ==
  /\ f.op \in QueueOps /\ f.at = "inherit" => f.op = "take" /\ Kind[f.obj] = "mutex"
  /\ f.op \in {"waitBits", "sync"} /\ f.at = "reset" => f.wait \in 1..MaxPriorities
  /\ f.op \in {"waitBits", "sync"} /\ f.at = "resume" => f.then \in {"return", "wait"}
  /\ f.op = "timerTask" /\ f.at = "pended" => f.arg.message.timer \in DOMAIN Pended
  /\ f.op \in QueueOps /\ f.at \in {"look", "inherit", "place"} => f.then = "again"
  /\ f.op \in QueueOps /\ f.at \in {"unlock tx", "unlock rx", "resume"} =>
        f.then \in {"again", "yield", "timed out"}

IsFrame(f) == f = [k \in FrameFields |-> f[k]]

FrameOK(t, f) ==
  /\ IsFrame(f)
  /\ IF t = Idle THEN f.op = "idle" ELSE Proper(f)
  /\ Stage(f)

Over(f, g) ==
  \/ f.op = "notifyWait" /\ g.op \in {"sendStream", "receiveStream"} /\ g.at = "notified"
  \/ f.op = "waitRestricted" /\ g.op = "timerTask" /\ g.at = "wait"
  \/ f.op \in {"setBits", "clearBits"} /\ g.op = "timerTask" /\ g.at = "commands"

StackOK(st) ==
  /\ st = [t \in Tasks |-> st[t]]
  /\ \A t \in Tasks :
       \/ st[t] = << >>
       \/ /\ st[t] = <<st[t][1]>> /\ FrameOK(t, st[t][1]) /\ st[t][1].op # "waitRestricted"
       \/ /\ st[t] = <<st[t][1], st[t][2]>> /\ FrameOK(t, st[t][1]) /\ FrameOK(t, st[t][2])
          /\ Over(st[t][1], st[t][2])
  /\ st[Idle] # << >>

NoFrame == [op |-> "none", at |-> "none", obj |-> "none", arg |-> "none", wait |-> 0, flag |-> FALSE,
            then |-> "none"]
TopOf(st, t) == IF st[t] = << >> THEN NoFrame ELSE st[t][1]

Modes(s, st) ==
  \A t \in Tasks :
    /\ Holds(TopOf(st, t)) => t = s.current
    /\ s.notify[t] = "waiting" => Awaits(TopOf(st, t))
    /\ s.evValue[t] \in 1..MaxPriorities \/ Grouped(TopOf(st, t))
    /\ \A q \in Queues : Contains(s.events[Received(q)], t) => s.evValue[t] \in 1..MaxPriorities
    /\ st[t] # << >> => ListedIn(s, t)

Parks(s, f) == f.op = "suspend" /\ f.at = "reset" /\ f.obj = s.current

Runnable(s, f) ==
  Ready(s, s.current) \/ (s.pendsv /\ s.suspendedAll = 0) \/ Dozes(f) \/ Parks(s, f)

RunOK(s, f) ==
  /\ s.suspendedAll = IF Holds(f) THEN 1 ELSE 0
  /\ s.pendingReady # << >> => s.suspendedAll > 0
  /\ Runnable(s, f)
  /\ ListedIn(s, s.current)

(* Queues and streams. *)
QueueFields == {"storage", "write", "read", "count", "tx", "rx", "holder"}

QueueIs(q, r) ==
  /\ r = [k \in QueueFields |-> r[k]]
  /\ r.count \in 0..Length[q] /\ r.tx \in Int /\ r.rx \in Int
  /\ r.holder \in (Tasks \ {Idle}) \cup {NoTask}
  /\ IF Kind[q] = "mutex" THEN (r.count = 0 <=> r.holder # NoTask) ELSE r.holder = NoTask
  /\ Kind[q] = "queue" =>
       /\ r.storage = [i \in 0..(Length[q] - 1) |-> r.storage[i]]
       /\ r.read \in 0..(Length[q] - 1)
       /\ r.write = (r.read + 1 + r.count) % Length[q]
       /\ \A i \in 1..r.count : ItemOK(q, r.storage[(r.read + i) % Length[q]])

QueuesOK == queue = [q \in Queues |-> queue[q]] /\ \A q \in Queues : QueueIs(q, queue[q])

StreamFields == {"storage", "head", "tail", "trigger", "reader", "writer"}

PeersOK ==
  /\ stream = [b \in Streams |-> stream[b]]
  /\ \A b \in Streams :
    /\ stream[b] = [k \in StreamFields |-> stream[b][k]]
    /\ stream[b].reader \in Tasks \cup {NoOne} /\ stream[b].writer \in Tasks \cup {NoOne}

(* A mutex that a task inherits from is taken. *)
Inherits(f) == f.op = "take" /\ f.at = "inherit"

InheritOK == \A t \in Tasks : Inherits(TopOf(stack, t)) => queue[TopOf(stack, t).obj].count = 0

Core(s, st) ==
  /\ SchedOK(s) /\ StackOK(st) /\ Modes(s, st) /\ RunOK(s, TopOf(st, s.current))

Inv ==
  /\ scenario \in DOMAIN Scenarios
  /\ Core(sched, stack)
  /\ QueuesOK /\ PeersOK /\ InheritOK

NoSatisfied ==
  \A g \in Groups : \A t \in Range(sched.events[Waiting(g)]) :
      ~Satisfied(sched, t, group[g].bits)

----------------------------------------------------------------------------
(* Lists. *)

LEMMA ContainsDef == \A q, x : Contains(q, x) <=> \E i \in 1..Len(q) : q[i] = x
BY DEF Contains

LEMMA EmptyLists == IsList(<< >>) /\ \A x : ~Contains(<< >>, x)
<1>1. << >> \in Seq(Tasks) /\ Len(<< >>) = 0
  BY EmptySeq
<1> QED
  BY <1>1 DEF IsList, Contains

LEMMA AppendList ==
  ASSUME NEW q, NEW x \in Tasks, IsList(q), ~Contains(q, x)
  PROVE  /\ IsList(Append(q, x))
         /\ \A y : Contains(Append(q, x), y) <=> Contains(q, y) \/ y = x
<1>1. /\ q \in Seq(Tasks) /\ Append(q, x) \in Seq(Tasks) /\ Len(Append(q, x)) = Len(q) + 1
      /\ \A i \in 1..Len(q) : Append(q, x)[i] = q[i]
      /\ Append(q, x)[Len(q) + 1] = x
      /\ Len(q) \in Nat
  BY DEF IsList
<1>2. \A i \in 1..(Len(q) + 1) : i \in 1..Len(q) \/ i = Len(q) + 1
  BY <1>1
<1>3. \A i \in 1..Len(q) : q[i] # x
  BY DEF Contains
<1>4. IsList(Append(q, x))
  BY <1>1, <1>2, <1>3 DEF IsList
<1>5. ASSUME NEW y
      PROVE  Contains(Append(q, x), y) <=> Contains(q, y) \/ y = x
  BY <1>1, <1>2 DEF Contains
<1> QED
  BY <1>4, <1>5

LEMMA InsertAtParts ==
  ASSUME NEW S, NEW q \in Seq(S), NEW x \in S, NEW k \in 1..(Len(q) + 1)
  PROVE  /\ InsertAt(q, k, x) \in Seq(S) /\ Len(InsertAt(q, k, x)) = Len(q) + 1
         /\ \A i \in 1..(Len(q) + 1) : InsertAt(q, k, x)[i] =
              IF i < k THEN q[i] ELSE IF i = k THEN x ELSE q[i - 1]
<1> DEFINE a == SubSeq(q, 1, k - 1)
           b == SubSeq(q, k, Len(q))
<1>1. Len(q) \in Nat /\ k \in Nat
  OBVIOUS
<1>2. a \in Seq(S) /\ Len(a) = k - 1 /\ \A i \in 1..(k - 1) : a[i] = q[i]
  BY <1>1
<1>3. b \in Seq(S) /\ Len(b) = Len(q) - k + 1 /\ \A i \in 1..(Len(q) - k + 1) : b[i] = q[k + i - 1]
  BY <1>1
<1>4. <<x>> \in Seq(S) /\ Len(<<x>>) = 1 /\ <<x>>[1] = x
  OBVIOUS
<1>5. InsertAt(q, k, x) = (a \o <<x>>) \o b
  BY DEF InsertAt
<1> HIDE DEF a, b
<1>6. /\ a \o <<x>> \in Seq(S) /\ Len(a \o <<x>>) = k
      /\ \A i \in 1..k : (a \o <<x>>)[i] = IF i < k THEN a[i] ELSE x
  BY <1>1, <1>2, <1>4
<1> DEFINE c == a \o <<x>>
<1> HIDE DEF c
<1>7. /\ c \o b \in Seq(S) /\ Len(c \o b) = Len(q) + 1
      /\ \A i \in 1..(Len(q) + 1) : (c \o b)[i] = IF i <= k THEN c[i] ELSE b[i - k]
  BY <1>1, <1>3, <1>6 DEF c
<1>8. ASSUME NEW i \in 1..(Len(q) + 1), ~(i <= k)
      PROVE  b[i - k] = q[i - 1]
  <2>1. i - k \in 1..(Len(q) - k + 1) /\ k + (i - k) - 1 = i - 1
    BY <1>1, <1>8
  <2> QED
    BY <1>3, <2>1
<1>9. ASSUME NEW i \in 1..(Len(q) + 1)
      PROVE  (c \o b)[i] = IF i < k THEN q[i] ELSE IF i = k THEN x ELSE q[i - 1]
  <2>1. CASE i < k
    <3>1. i \in 1..(k - 1) /\ i \in 1..k /\ i <= k
      BY <2>1, <1>1
    <3> QED
      BY <3>1, <2>1, <1>2, <1>6, <1>7 DEF c
  <2>2. CASE i = k
    <3>1. i \in 1..k /\ i <= k /\ ~(i < k)
      BY <2>2, <1>1
    <3> QED
      BY <3>1, <2>2, <1>6, <1>7 DEF c
  <2>3. CASE ~(i <= k)
    <3>1. ~(i < k) /\ i # k
      BY <2>3, <1>1
    <3> QED
      BY <3>1, <2>3, <1>7, <1>8
  <2>4. i < k \/ i = k \/ ~(i <= k)
    BY <1>1
  <2> QED
    BY <2>1, <2>2, <2>3, <2>4
<1> QED
  BY <1>5, <1>7, <1>9 DEF c

LEMMA InsertAtList ==
  ASSUME NEW q, NEW x \in Tasks, IsList(q), ~Contains(q, x), NEW k \in 1..(Len(q) + 1)
  PROVE  /\ IsList(InsertAt(q, k, x)) /\ Len(InsertAt(q, k, x)) = Len(q) + 1
         /\ \A y : Contains(InsertAt(q, k, x), y) <=> Contains(q, y) \/ y = x
<1> DEFINE r == InsertAt(q, k, x)
<1>1. q \in Seq(Tasks) /\ Len(q) \in Nat /\ k \in Int
  BY DEF IsList
<1>0. k \in 1..(Len(q) + 1) /\ x \in Tasks
  OBVIOUS
<1> HIDE DEF r
<1>2. /\ r \in Seq(Tasks) /\ Len(r) = Len(q) + 1
      /\ \A i \in 1..(Len(q) + 1) : r[i] = IF i < k THEN q[i] ELSE IF i = k THEN x ELSE q[i - 1]
  BY <1>0, <1>1, InsertAtParts DEF r
<1> HIDE DEF r
<1>3. \A i \in 1..Len(q) : q[i] # x
  BY DEF Contains
<1>4. \A i \in 1..(Len(q) + 1) : \/ i < k /\ i \in 1..Len(q) /\ r[i] = q[i]
                                 \/ i = k /\ r[i] = x
                                 \/ i > k /\ i - 1 \in 1..Len(q) /\ r[i] = q[i - 1]
  <2> SUFFICES ASSUME NEW i \in 1..(Len(q) + 1)
               PROVE  \/ i < k /\ i \in 1..Len(q) /\ r[i] = q[i]
                      \/ i = k /\ r[i] = x
                      \/ i > k /\ i - 1 \in 1..Len(q) /\ r[i] = q[i - 1]
    OBVIOUS
  <2>1. CASE i < k
    BY <2>1, <1>0, <1>1, <1>2
  <2>2. CASE i = k
    BY <2>2, <1>0, <1>1, <1>2
  <2>3. CASE i > k
    BY <2>3, <1>0, <1>1, <1>2
  <2> QED
    BY <2>1, <2>2, <2>3, <1>1
<1>5. \A i, j \in 1..Len(q) : q[i] = q[j] => i = j
  BY DEF IsList
<1>6. ASSUME NEW i \in 1..(Len(q) + 1), NEW j \in 1..(Len(q) + 1), r[i] = r[j]
      PROVE  i = j
  <2>1. CASE i < k
    BY <2>1, <1>4, <1>5, <1>3, <1>6, <1>1
  <2>2. CASE i = k
    BY <2>2, <1>4, <1>5, <1>3, <1>6, <1>1
  <2>3. CASE i > k
    BY <2>3, <1>4, <1>5, <1>3, <1>6, <1>1
  <2> QED
    BY <2>1, <2>2, <2>3, <1>1
<1>7. IsList(r)
  BY <1>2, <1>6 DEF IsList
<1>8. ASSUME NEW i \in 1..Len(q)
      PROVE  \E j \in 1..(Len(q) + 1) : r[j] = q[i]
  <2>1. CASE i < k
    BY <2>1, <1>2, <1>1
  <2>2. CASE ~(i < k)
    <3>1. i + 1 \in 1..(Len(q) + 1) /\ ~(i + 1 < k) /\ i + 1 # k /\ (i + 1) - 1 = i
      BY <2>2, <1>1
    <3> QED
      BY <3>1, <1>2
  <2> QED
    BY <2>1, <2>2
<1>9. ASSUME NEW y
      PROVE  Contains(r, y) <=> Contains(q, y) \/ y = x
  <2>1. ASSUME Contains(r, y) PROVE Contains(q, y) \/ y = x
    BY <2>1, <1>2, <1>4 DEF Contains
  <2>2. ASSUME Contains(q, y) PROVE Contains(r, y)
    BY <2>2, <1>2, <1>8 DEF Contains
  <2>3. k \in 1..(Len(q) + 1) /\ r[k] = x
    BY <1>1, <1>2
  <2> QED
    BY <2>1, <2>2, <2>3, <1>2 DEF Contains
<1> QED
  BY <1>2, <1>7, <1>9 DEF r

LEMMA RemoveAtParts ==
  ASSUME NEW S, NEW q \in Seq(S), NEW k \in 1..Len(q)
  PROVE  /\ RemoveAt(q, k) \in Seq(S) /\ Len(RemoveAt(q, k)) = Len(q) - 1
         /\ \A i \in 1..(Len(q) - 1) : RemoveAt(q, k)[i] = IF i < k THEN q[i] ELSE q[i + 1]
<1> DEFINE a == SubSeq(q, 1, k - 1)
           b == SubSeq(q, k + 1, Len(q))
<1>1. Len(q) \in Nat /\ k \in Nat /\ k >= 1 /\ k <= Len(q)
  OBVIOUS
<1>2. a \in Seq(S) /\ Len(a) = k - 1 /\ \A i \in 1..(k - 1) : a[i] = q[i]
  BY <1>1
<1>3. b \in Seq(S) /\ Len(b) = Len(q) - k /\ \A i \in 1..(Len(q) - k) : b[i] = q[k + i]
  <2>1. CASE k = Len(q)
    BY <1>1, <2>1
  <2>2. CASE k < Len(q)
    BY <1>1, <2>2
  <2> QED
    BY <1>1, <2>1, <2>2
<1>4. RemoveAt(q, k) = a \o b
  BY DEF RemoveAt
<1> HIDE DEF a, b
<1>5. /\ a \o b \in Seq(S) /\ Len(a \o b) = Len(q) - 1
      /\ \A i \in 1..(Len(q) - 1) : (a \o b)[i] = IF i <= k - 1 THEN a[i] ELSE b[i - (k - 1)]
  <2>1. Len(a) + Len(b) = Len(q) - 1
    BY <1>1, <1>2, <1>3
  <2>2. /\ a \o b \in Seq(S) /\ Len(a \o b) = Len(a) + Len(b)
        /\ \A i \in 1..(Len(a) + Len(b)) :
             (a \o b)[i] = IF i <= Len(a) THEN a[i] ELSE b[i - Len(a)]
    BY <1>2, <1>3, ConcatProperties
  <2> QED
    BY <2>1, <2>2, <1>2, Zenon
<1>6. ASSUME NEW i \in 1..(Len(q) - 1)
      PROVE  (a \o b)[i] = IF i < k THEN q[i] ELSE q[i + 1]
  <2>1. CASE i < k
    BY <2>1, <1>1, <1>2, <1>5
  <2>2. CASE ~(i < k)
    <3>1. i - (k - 1) \in 1..(Len(q) - k) /\ k + (i - (k - 1)) = i + 1 /\ ~(i <= k - 1)
      BY <2>2, <1>1
    <3> QED
      BY <3>1, <2>2, <1>3, <1>5
  <2> QED
    BY <2>1, <2>2
<1> QED
  BY <1>4, <1>5, <1>6

LEMMA PlaceIsThere ==
  ASSUME NEW q, NEW x, Contains(q, x), q \in Seq(Tasks)
  PROVE  Place(q, x) \in 1..Len(q) /\ q[Place(q, x)] = x
BY DEF Contains, Place

LEMMA WithoutNothing == \A q, x : ~Contains(q, x) => Without(q, x) = q
BY DEF Without

LEMMA WithoutList ==
  ASSUME NEW q, NEW x, IsList(q)
  PROVE  /\ IsList(Without(q, x))
         /\ \A y : Contains(Without(q, x), y) <=> Contains(q, y) /\ y # x
         /\ Contains(q, x) => Len(Without(q, x)) = Len(q) - 1
<1>1. CASE ~Contains(q, x)
  BY <1>1 DEF Without
<1>2. CASE Contains(q, x)
  <2> DEFINE k == Place(q, x)
             r == RemoveAt(q, k)
  <2>1. q \in Seq(Tasks) /\ Len(q) \in Nat
    BY DEF IsList
  <2>2. k \in 1..Len(q) /\ q[k] = x
    BY <1>2, <2>1, PlaceIsThere
  <2>3. Without(q, x) = r
    BY <1>2 DEF Without
  <2> HIDE DEF k
  <2>4. /\ r \in Seq(Tasks) /\ Len(r) = Len(q) - 1
        /\ \A i \in 1..(Len(q) - 1) : r[i] = IF i < k THEN q[i] ELSE q[i + 1]
    BY <2>1, <2>2, RemoveAtParts
  <2> HIDE DEF r
  <2>5. \A i, j \in 1..Len(q) : q[i] = q[j] => i = j
    BY DEF IsList
  <2>6. \A i \in 1..(Len(q) - 1) :
           \/ i < k /\ i \in 1..Len(q) /\ r[i] = q[i]
           \/ i >= k /\ i + 1 \in 1..Len(q) /\ r[i] = q[i + 1]
    BY <2>1, <2>2, <2>4
  <2>7. IsList(r)
    <3>1. ASSUME NEW i \in 1..(Len(q) - 1), NEW j \in 1..(Len(q) - 1), r[i] = r[j]
          PROVE  i = j
      <4>1. CASE i < k
        BY <4>1, <3>1, <2>6, <2>5, <2>1, <2>2
      <4>2. CASE i >= k
        BY <4>2, <3>1, <2>6, <2>5, <2>1, <2>2
      <4> QED
        BY <4>1, <4>2, <2>1, <2>2
    <3> QED
      BY <3>1, <2>4 DEF IsList
  <2>8. ASSUME NEW y, Contains(r, y)
        PROVE  Contains(q, y) /\ y # x
    <3>1. PICK i \in 1..(Len(q) - 1) : r[i] = y
      BY <2>8, <2>4 DEF Contains
    <3>2. CASE i < k
      <4>1. i \in 1..Len(q) /\ q[i] = y /\ i # k
        BY <3>1, <3>2, <2>6, <2>2
      <4> QED
        BY <4>1, <2>2, <2>5 DEF Contains
    <3>3. CASE i >= k
      <4>1. i + 1 \in 1..Len(q) /\ q[i + 1] = y /\ i + 1 # k
        BY <3>1, <3>3, <2>6, <2>2
      <4> QED
        BY <4>1, <2>2, <2>5 DEF Contains
    <3> QED
      BY <3>2, <3>3, <2>1, <2>2
  <2>9. ASSUME NEW y, Contains(q, y), y # x
        PROVE  Contains(r, y)
    <3>1. PICK i \in 1..Len(q) : q[i] = y
      BY <2>9 DEF Contains
    <3>2. i # k
      BY <3>1, <2>2, <2>9
    <3>3. CASE i < k
      <4>1. i \in 1..(Len(q) - 1) /\ r[i] = y
        BY <3>1, <3>3, <2>4, <2>1, <2>2
      <4> QED
        BY <4>1, <2>4 DEF Contains
    <3>4. CASE i > k
      <4>1. i - 1 \in 1..(Len(q) - 1) /\ ~(i - 1 < k) /\ (i - 1) + 1 = i
        BY <3>1, <3>4, <2>1, <2>2
      <4>2. r[i - 1] = y
        BY <4>1, <3>1, <2>4
      <4> QED
        BY <4>1, <4>2, <2>4 DEF Contains
    <3> QED
      BY <3>2, <3>3, <3>4, <2>1, <2>2
  <2> QED
    BY <2>3, <2>4, <2>7, <2>8, <2>9
<1> QED
  BY <1>1, <1>2

LEMMA NotLargerBound ==
  ASSUME NEW q \in Seq(Tasks), NEW value, NEW v
  PROVE  NotLarger(q, value, v) \in 0..Len(q)
<1> DEFINE S == {i \in DOMAIN q : \A j \in 1..i : value[q[j]] <= v}
<1>1. Len(q) \in Nat /\ DOMAIN q = 1..Len(q)
  OBVIOUS
<1>2. IsFiniteSet(1..Len(q)) /\ Cardinality(1..Len(q)) = Len(q)
  BY <1>1, FS_Interval
<1>3. S \subseteq 1..Len(q)
  BY <1>1
<1>4. IsFiniteSet(S) /\ Cardinality(S) <= Len(q) /\ Cardinality(S) \in Nat
  BY <1>2, <1>3, FS_Subset, FS_CardinalityType
<1> QED
  BY <1>1, <1>4 DEF NotLarger

LEMMA SortedList ==
  ASSUME NEW q, NEW x \in Tasks, NEW value, IsList(q), ~Contains(q, x)
  PROVE  /\ IsList(InsertSorted(q, x, value))
         /\ \A y : Contains(InsertSorted(q, x, value), y) <=> Contains(q, y) \/ y = x
<1> DEFINE n == NotLarger(q, value, value[x])
<1>1. n \in 0..Len(q) /\ Len(q) \in Nat
  BY NotLargerBound DEF IsList
<1> HIDE DEF n
<1>2. n + 1 \in 1..(Len(q) + 1)
  BY <1>1
<1>3. InsertSorted(q, x, value) = InsertAt(q, n + 1, x)
  BY DEF InsertSorted, n
<1> QED
  BY <1>2, <1>3, InsertAtList

LEMMA HeadIsThere ==
  ASSUME NEW q, IsList(q), q # << >>
  PROVE  Head(q) \in Tasks /\ Contains(q, Head(q)) /\ Head(q) = q[1]
<1>1. q \in Seq(Tasks) /\ Len(q) \in Nat /\ Len(q) # 0
  BY EmptySeq DEF IsList
<1>2. 1 \in 1..Len(q) /\ Head(q) = q[1]
  BY <1>1
<1> QED
  BY <1>1, <1>2 DEF Contains

LEMMA ListedAreTasks ==
  ASSUME NEW q, IsList(q), NEW x, Contains(q, x)
  PROVE  x \in Tasks /\ q # << >>
<1>1. q \in Seq(Tasks) /\ Len(<< >>) = 0
  BY EmptySeq DEF IsList
<1> QED
  BY <1>1 DEF Contains

LEMMA NonEmptyLists ==
  ASSUME NEW q, IsList(q), q # << >>
  PROVE  \E x \in Tasks : Contains(q, x)
BY HeadIsThere

----------------------------------------------------------------------------

LEMMA EmptyRing == IsRing(EmptyList) /\ EmptyList.items = << >>
<1>1. Len(<< >>) = 0
  BY EmptySeq
<1> QED
  BY <1>1, EmptyLists DEF IsRing, EmptyList

LEMMA InsertEndRing ==
  ASSUME NEW l, IsRing(l), NEW x \in Tasks, ~Contains(l.items, x)
  PROVE  /\ IsRing(InsertEnd(l, x))
         /\ \A y : Contains(InsertEnd(l, x).items, y) <=> Contains(l.items, y) \/ y = x
<1>1. /\ l = [items |-> l.items, index |-> l.index] /\ IsList(l.items)
      /\ l.index \in 0..Len(l.items) /\ Len(l.items) \in Nat /\ l.items \in Seq(Tasks)
  BY DEF IsRing, IsList
<1>2. CASE l.index = 0
  <2>1. InsertEnd(l, x) = [items |-> Append(l.items, x), index |-> 0]
    BY <1>1, <1>2 DEF InsertEnd
  <2>2. Len(Append(l.items, x)) \in Nat
    BY <1>1
  <2> QED
    BY <2>1, <2>2, <1>1, AppendList DEF IsRing
<1>3. CASE l.index # 0
  <2>1. InsertEnd(l, x) = [items |-> InsertAt(l.items, l.index, x), index |-> l.index + 1]
    BY <1>1, <1>3 DEF InsertEnd
  <2>2. l.index \in 1..(Len(l.items) + 1) /\ l.index + 1 \in 0..(Len(l.items) + 1)
    BY <1>1, <1>3
  <2> QED
    BY <2>1, <2>2, <1>1, InsertAtList DEF IsRing
<1> QED
  BY <1>2, <1>3

LEMMA RemoveItemRing ==
  ASSUME NEW l, IsRing(l), NEW x
  PROVE  /\ IsRing(RemoveItem(l, x))
         /\ \A y : Contains(RemoveItem(l, x).items, y) <=> Contains(l.items, y) /\ y # x
<1>1. /\ l = [items |-> l.items, index |-> l.index] /\ IsList(l.items)
      /\ l.index \in 0..Len(l.items) /\ Len(l.items) \in Nat /\ l.items \in Seq(Tasks)
  BY DEF IsRing, IsList
<1>2. CASE ~Contains(l.items, x)
  BY <1>2 DEF RemoveItem
<1>3. CASE Contains(l.items, x)
  <2>1. RemoveItem(l, x) = [items |-> Without(l.items, x),
                            index |-> IF Place(l.items, x) <= l.index THEN l.index - 1 ELSE l.index]
    BY <1>3 DEF RemoveItem
  <2>2. Place(l.items, x) \in 1..Len(l.items)
    BY <1>1, <1>3, PlaceIsThere
  <2>3. /\ IsList(Without(l.items, x)) /\ Len(Without(l.items, x)) = Len(l.items) - 1
        /\ \A y : Contains(Without(l.items, x), y) <=> Contains(l.items, y) /\ y # x
    BY <1>1, <1>3, WithoutList
  <2>4. (IF Place(l.items, x) <= l.index THEN l.index - 1 ELSE l.index) \in 0..(Len(l.items) - 1)
    BY <1>1, <2>2
  <2> QED
    BY <2>1, <2>3, <2>4 DEF IsRing
<1> QED
  BY <1>2, <1>3

LEMMA AdvanceRing ==
  ASSUME NEW l, IsRing(l), l.items # << >>
  PROVE  /\ IsRing(Advance(l)) /\ Advance(l).items = l.items
         /\ AtIndex(Advance(l)) \in Tasks /\ Contains(l.items, AtIndex(Advance(l)))
<1>1. /\ l = [items |-> l.items, index |-> l.index] /\ IsList(l.items)
      /\ l.index \in 0..Len(l.items) /\ Len(l.items) \in Nat /\ l.items \in Seq(Tasks)
      /\ Len(l.items) # 0
  BY EmptySeq DEF IsRing, IsList
<1> DEFINE i == IF l.index = Len(l.items) THEN 1 ELSE l.index + 1
<1>2. Advance(l) = [items |-> l.items, index |-> i]
  BY <1>1 DEF Advance
<1>3. i \in 1..Len(l.items) /\ i \in 0..Len(l.items)
  BY <1>1
<1> HIDE DEF i
<1>4. AtIndex(Advance(l)) = l.items[i]
  BY <1>2 DEF AtIndex
<1> QED
  BY <1>1, <1>2, <1>3, <1>4 DEF IsRing, Contains

----------------------------------------------------------------------------
(* The lists of the scheduler. *)

IsSched(s) == s = [f \in SchedFields |-> s[f]]

Same(s, r, F) == \A f \in SchedFields \ F : r[f] = s[f]

WF(s) == Shaped(s) /\ HasLists(s)

Away(s, t) ==
  /\ ~Dormant(s, t) /\ ~Contains(s.terminating, t)
  /\ \A p \in Priorities : ~Contains(s.ready[p].items, t)

OnlyReady(s, t) ==
  /\ ~Dormant(s, t) /\ ~Contains(s.terminating, t)
  /\ \A p \in Priorities : Contains(s.ready[p].items, t) <=> p = s.prio[t]

AsListed(s, r, t) ==
  /\ Contains(r.delayed, t) <=> Contains(s.delayed, t)
  /\ Contains(r.overflow, t) <=> Contains(s.overflow, t)
  /\ Contains(r.suspended, t) <=> Contains(s.suspended, t)
  /\ Contains(r.terminating, t) <=> Contains(s.terminating, t)
  /\ \A p \in Priorities : Contains(r.ready[p].items, t) <=> Contains(s.ready[p].items, t)

AsLinked(s, r, t) ==
  /\ Contains(r.pendingReady, t) <=> Contains(s.pendingReady, t)
  /\ \A l \in EventLists : Contains(r.events[l], t) <=> Contains(s.events[l], t)

Others(s, r, t) ==
  \A u \in Tasks \ {t} :
    /\ AsListed(s, r, u) /\ AsLinked(s, r, u) /\ r.prio[u] = s.prio[u]
    /\ r.notify[u] = "waiting" => s.notify[u] = "waiting"

StateLists == {"ready", "delayed", "overflow", "suspended", "terminating", "wake"}

LEMMA Zero == 0 \in Priorities /\ Idle \in Tasks /\ MaxPriorities \in Nat /\ MaxPriorities > 0
BY TasksAssumption DEF Priorities

LEMMA WFParts ==
  ASSUME NEW s, WF(s)
  PROVE  /\ IsSched(s)
         /\ \A p \in Priorities : IsRing(s.ready[p]) /\ IsList(s.ready[p].items)
         /\ \A l \in EventLists : IsList(s.events[l])
         /\ IsList(s.delayed) /\ IsList(s.overflow) /\ IsList(s.suspended)
         /\ IsList(s.terminating) /\ IsList(s.pendingReady)
         /\ \A t \in Tasks : s.prio[t] \in Priorities /\ s.base[t] \in Priorities
         /\ s.current \in Tasks
BY DEF WF, Shaped, HasLists, IsSched, IsRing

LEMMA OthersSelf == ASSUME NEW s, NEW t PROVE Others(s, s, t)
BY DEF Others, AsListed, AsLinked

LEMMA OthersTransitive ==
  ASSUME NEW s, NEW r, NEW v, NEW t, Others(s, r, t), Others(r, v, t)
  PROVE  Others(s, v, t)
BY DEF Others, AsListed, AsLinked

LEMMA RemoveStateFields ==
  ASSUME NEW s, IsSched(s), NEW t
  PROVE  LET r == RemoveState(s, t)
         IN  /\ IsSched(r)
             /\ r.ready = [p \in Priorities |-> RemoveItem(s.ready[p], t)]
             /\ r.delayed = Without(s.delayed, t) /\ r.overflow = Without(s.overflow, t)
             /\ r.suspended = Without(s.suspended, t)
             /\ r.terminating = Without(s.terminating, t)
             /\ Same(s, r, StateLists)
BY DEF IsSched, RemoveState, SchedFields, Same, StateLists

LEMMA RemoveStateWF ==
  ASSUME NEW s, WF(s), NEW t \in Tasks
  PROVE  LET r == RemoveState(s, t)
         IN  /\ WF(r) /\ Others(s, r, t) /\ Away(r, t) /\ AsLinked(s, r, t)
             /\ Same(s, r, StateLists)
<1> DEFINE r == RemoveState(s, t)
<1>1. /\ IsSched(r)
      /\ r.ready = [p \in Priorities |-> RemoveItem(s.ready[p], t)]
      /\ r.delayed = Without(s.delayed, t) /\ r.overflow = Without(s.overflow, t)
      /\ r.suspended = Without(s.suspended, t)
      /\ r.terminating = Without(s.terminating, t)
      /\ Same(s, r, StateLists)
  BY WFParts, RemoveStateFields
<1> HIDE DEF r
<1>2. \A p \in Priorities : r.ready[p] = RemoveItem(s.ready[p], t)
  BY <1>1
<1>3. /\ r.prio = s.prio /\ r.notify = s.notify /\ r.pendingReady = s.pendingReady
      /\ r.events = s.events
  BY <1>1 DEF Same, SchedFields, StateLists
<1>4. HasLists(r)
  BY <1>1, <1>2, <1>3, WFParts, WithoutList, RemoveItemRing DEF HasLists
<1>5. Shaped(r)
  BY <1>1 DEF WF, Shaped, IsSched, Same, SchedFields, StateLists
<1>6. /\ \A y : Contains(r.delayed, y) <=> Contains(s.delayed, y) /\ y # t
      /\ \A y : Contains(r.overflow, y) <=> Contains(s.overflow, y) /\ y # t
      /\ \A y : Contains(r.suspended, y) <=> Contains(s.suspended, y) /\ y # t
      /\ \A y : Contains(r.terminating, y) <=> Contains(s.terminating, y) /\ y # t
  BY <1>1, WFParts, WithoutList
<1>7. \A p \in Priorities : \A y :
        Contains(r.ready[p].items, y) <=> Contains(s.ready[p].items, y) /\ y # t
  BY <1>2, WFParts, RemoveItemRing
<1>8. Away(r, t)
  BY <1>6, <1>7 DEF Away, Dormant
<1>9. Others(s, r, t) /\ AsLinked(s, r, t)
  BY <1>3, <1>6, <1>7 DEF Others, AsListed, AsLinked
<1> QED
  BY <1>1, <1>4, <1>5, <1>8, <1>9 DEF WF, r

LEMMA RemoveEventWF ==
  ASSUME NEW s, WF(s), NEW t \in Tasks
  PROVE  LET r == RemoveEvent(s, t)
         IN  /\ WF(r) /\ Others(s, r, t) /\ Unlinked(r, t) /\ AsListed(s, r, t)
             /\ Same(s, r, {"events", "pendingReady"})
             /\ \A l \in EventLists : \A u : Contains(r.events[l], u) <=> Contains(s.events[l], u) /\ u # t
             /\ \A u : Contains(r.pendingReady, u) <=> Contains(s.pendingReady, u) /\ u # t
<1> DEFINE r == RemoveEvent(s, t)
<1>1. /\ IsSched(r)
      /\ r.events = [l \in EventLists |-> Without(s.events[l], t)]
      /\ r.pendingReady = Without(s.pendingReady, t)
      /\ Same(s, r, {"events", "pendingReady"})
  BY WFParts DEF IsSched, RemoveEvent, SchedFields, Same
<1> HIDE DEF r
<1>2. \A l \in EventLists : r.events[l] = Without(s.events[l], t)
  BY <1>1
<1>3. /\ r.prio = s.prio /\ r.notify = s.notify /\ r.ready = s.ready /\ r.delayed = s.delayed
      /\ r.overflow = s.overflow /\ r.suspended = s.suspended /\ r.terminating = s.terminating
  BY <1>1 DEF Same, SchedFields
<1>4. HasLists(r)
  BY <1>1, <1>2, <1>3, WFParts, WithoutList DEF HasLists
<1>5. Shaped(r)
  BY <1>1 DEF WF, Shaped, IsSched, Same, SchedFields
<1>6. /\ \A y : Contains(r.pendingReady, y) <=> Contains(s.pendingReady, y) /\ y # t
      /\ \A l \in EventLists : \A y : Contains(r.events[l], y) <=> Contains(s.events[l], y) /\ y # t
  BY <1>1, <1>2, WFParts, WithoutList
<1>8. Unlinked(r, t) /\ AsListed(s, r, t)
  BY <1>3, <1>6 DEF Unlinked, AsListed
<1>9. Others(s, r, t)
  BY <1>3, <1>6 DEF Others, AsListed, AsLinked
<1> QED
  BY <1>1, <1>4, <1>5, <1>6, <1>8, <1>9 DEF WF, r

LEMMA AddToReadyWF ==
  ASSUME NEW s, WF(s), NEW t \in Tasks, Away(s, t)
  PROVE  LET r == AddToReady(s, t)
         IN  /\ WF(r) /\ Others(s, r, t) /\ OnlyReady(r, t) /\ AsLinked(s, r, t)
             /\ Same(s, r, {"ready", "top"})
<1> DEFINE r == AddToReady(s, t)
           p == s.prio[t]
<1>0. p \in Priorities /\ s.top \in Priorities
  BY DEF WF, Shaped
<1>1. /\ IsSched(r)
      /\ r.ready = [s.ready EXCEPT ![p] = InsertEnd(@, t)]
      /\ r.top \in Priorities
      /\ Same(s, r, {"ready", "top"})
  <2>1. /\ IsSched(r)
        /\ r.ready = [s.ready EXCEPT ![p] = InsertEnd(s.ready[p], t)]
        /\ Same(s, r, {"ready", "top"})
    BY <1>0, WFParts, ZenonT(30) DEF IsSched, AddToReady, SchedFields, Same
  <2>2. r.top = IF p > s.top THEN p ELSE s.top
    BY <1>0, WFParts DEF IsSched, AddToReady, SchedFields
  <2> QED
    BY <1>0, <2>1, <2>2
<1> HIDE DEF r, p
<1>2. /\ s.ready = [q \in Priorities |-> s.ready[q]]
      /\ r.ready = [q \in Priorities |-> r.ready[q]]
      /\ r.ready[p] = InsertEnd(s.ready[p], t)
      /\ \A q \in Priorities : q # p => r.ready[q] = s.ready[q]
  BY <1>0, <1>1 DEF WF, Shaped
<1>3. /\ r.prio = s.prio /\ r.notify = s.notify /\ r.pendingReady = s.pendingReady
      /\ r.events = s.events /\ r.delayed = s.delayed
      /\ r.overflow = s.overflow /\ r.suspended = s.suspended /\ r.terminating = s.terminating
  BY <1>1 DEF Same, SchedFields
<1>7. /\ IsRing(r.ready[p])
      /\ \A y : Contains(r.ready[p].items, y) <=> Contains(s.ready[p].items, y) \/ y = t
  <2>1. IsRing(s.ready[p]) /\ ~Contains(s.ready[p].items, t)
    BY <1>0, WFParts DEF Away
  <2> QED
    BY <2>1, <1>2, InsertEndRing
<1>4. HasLists(r)
  BY <1>2, <1>3, <1>7, WFParts DEF HasLists
<1>5. Shaped(r)
  BY <1>1, <1>2 DEF WF, Shaped, IsSched, Same, SchedFields
<1>8. OnlyReady(r, t)
  BY <1>0, <1>2, <1>3, <1>7 DEF Away, OnlyReady, Dormant, p
<1>9. Others(s, r, t) /\ AsLinked(s, r, t)
  BY <1>2, <1>3, <1>7 DEF Others, AsListed, AsLinked
<1> QED
  BY <1>1, <1>4, <1>5, <1>8, <1>9 DEF WF, r

LEMMA ToReadyWF ==
  ASSUME NEW s, WF(s), NEW t \in Tasks
  PROVE  LET r == ToReady(s, t)
         IN  /\ WF(r) /\ Others(s, r, t) /\ OnlyReady(r, t) /\ AsLinked(s, r, t)
             /\ Same(s, r, StateLists \cup {"top"})
<1> DEFINE m == RemoveState(s, t)
           r == AddToReady(m, t)
<1>1. /\ WF(m) /\ Others(s, m, t) /\ Away(m, t) /\ AsLinked(s, m, t) /\ Same(s, m, StateLists)
  BY RemoveStateWF
<1> HIDE DEF m
<1>2. /\ WF(r) /\ Others(m, r, t) /\ OnlyReady(r, t) /\ AsLinked(m, r, t)
      /\ Same(m, r, {"ready", "top"})
  BY <1>1, AddToReadyWF
<1> HIDE DEF r
<1>3. Others(s, r, t)
  BY <1>1, <1>2, OthersTransitive
<1>4. AsLinked(s, r, t)
  BY <1>1, <1>2 DEF AsLinked
<1>5. Same(s, r, StateLists \cup {"top"})
  BY <1>1, <1>2 DEF Same, StateLists
<1>6. r = ToReady(s, t)
  BY DEF ToReady, r, m
<1> QED
  BY <1>2, <1>3, <1>4, <1>5, <1>6

----------------------------------------------------------------------------
(* What is repeated for all of a list. *)

LEMMA Upward ==
  ASSUME NEW n \in Nat, NEW S, 0 \in S, \A i \in 1..n : i - 1 \in S => i \in S
  PROVE  \A i \in 0..n : i \in S
<1> DEFINE T == {i \in 0..n : i \notin S}
           R == OpToRel(<, Nat)
<1>1. SUFFICES ASSUME T # {} PROVE FALSE
  OBVIOUS
<1>2. T \subseteq Nat /\ IsWellFoundedOn(R, Nat)
  <2>1. T \subseteq Nat
    OBVIOUS
  <2> QED
    BY <2>1, NatLessThanWellFounded, Zenon
<1>3. PICK x \in T : \A y \in T : ~(<<y, x>> \in R)
  <2> HIDE DEF T, R
  <2> QED
    BY <1>1, <1>2, WFMin
<1>4. x \in 1..n /\ x - 1 \in 0..n
  OBVIOUS
<1>5. x - 1 \in T
  BY <1>4
<1>6. <<x - 1, x>> \in R
  BY <1>4 DEF OpToRel
<1> QED
  BY <1>3, <1>5, <1>6

LEMMA MaxIsLargest ==
  ASSUME NEW n \in Nat, NEW T \in SUBSET (0..n), T # {}
  PROVE  Max(T) \in T /\ \A y \in T : Max(T) >= y
<1> DEFINE D == {i \in 0..n : n - i \in T}
           R == OpToRel(<, Nat)
<1>1. PICK y \in T : TRUE
  OBVIOUS
<1>2. n - y \in 0..n /\ n - (n - y) = y
  OBVIOUS
<1>3. D # {} /\ D \subseteq Nat /\ IsWellFoundedOn(R, Nat)
  <2>1. n - y \in D /\ D \subseteq Nat
    BY <1>2
  <2> QED
    BY <2>1, NatLessThanWellFounded, Zenon
<1>4. PICK x \in D : \A z \in D : ~(<<z, x>> \in R)
  <2> HIDE DEF D, R
  <2> QED
    BY <1>3, WFMin
<1>5. n - x \in T /\ x \in 0..n
  OBVIOUS
<1>6. ASSUME NEW z \in T PROVE n - x >= z
  <2>1. n - z \in D /\ z \in 0..n
    OBVIOUS
  <2>2. ~(<<n - z, x>> \in R)
    BY <1>4, <2>1
  <2>3. ~(n - z < x)
    BY <2>1, <2>2, <1>5 DEF OpToRel
  <2> QED
    BY <2>1, <2>3, <1>5
<1>7. \E m \in T : \A z \in T : m >= z
  BY <1>5, <1>6
<1> QED
  BY <1>7 DEF Max

(* One step of any of the folds. *)
Work(kind, par, a, x) ==
  CASE kind = "wake" -> WakeOne(a, x)
    [] kind = "pend" -> PendedTask(a, x)
    [] kind = "tick" -> PendedTick(a, x)
    [] kind = "missed" -> WakeMissed(a, par)
    [] kind = "woken" -> (IF x \in par THEN RemoveFromUnordered(a, x, Unblocked) ELSE a)
    [] kind = "first" -> AddFirstTask(a, x)

Unfold(kind, par, base, q, n, g) ==
  [T \in SUBSET (1..n) |->
     IF T = {} THEN base ELSE Work(kind, par, g[T \ {Max(T)}], q[Max(T)])]

LEMMA FoldExists ==
  ASSUME NEW kind, NEW par, NEW base, NEW q, NEW n \in Nat
  PROVE  \E g : g = Unfold(kind, par, base, q, n, g)
<1> DEFINE Good(g, i) == g = [T \in SUBSET (1..i) |->
              IF T = {} THEN base ELSE Work(kind, par, g[T \ {Max(T)}], q[Max(T)])]
           S == {i \in 0..n : \E g : Good(g, i)}
<1>1. 0 \in S
  <2> DEFINE g == [T \in SUBSET (1..0) |-> base]
  <2>1. 1..0 = {} /\ SUBSET (1..0) = {{}}
    OBVIOUS
  <2>2. g = [T \in SUBSET (1..0) |->
              IF T = {} THEN base ELSE Work(kind, par, g[T \ {Max(T)}], q[Max(T)])]
    BY <2>1
  <2> HIDE DEF g
  <2>3. Good(g, 0)
    BY <2>2
  <2> QED
    BY <2>3
<1>2. ASSUME NEW i \in 1..n, i - 1 \in S PROVE i \in S
  <2>1. PICK g : Good(g, i - 1)
    BY <1>2
  <2> DEFINE h == [T \in SUBSET (1..i) |->
              IF T = {} THEN base ELSE Work(kind, par, g[T \ {Max(T)}], q[Max(T)])]
  <2>2. ASSUME NEW T \in SUBSET (1..i), T # {}
        PROVE  /\ T \ {Max(T)} \in SUBSET (1..(i - 1))
               /\ Max(T) \in T
    <3>1. T \in SUBSET (0..n)
      BY <2>2
    <3>2. Max(T) \in T /\ \A y \in T : Max(T) >= y
      BY <3>1, <2>2, MaxIsLargest
    <3>3. ASSUME NEW y \in T \ {Max(T)} PROVE y \in 1..(i - 1)
      <4>1. y \in 1..i /\ Max(T) \in 1..i /\ Max(T) >= y /\ Max(T) # y
        BY <3>2, <3>3
      <4> QED
        BY <4>1
    <3> QED
      BY <3>2, <3>3
  <2>3. ASSUME NEW U \in SUBSET (1..(i - 1))
        PROVE  h[U] = g[U]
    <3>1. U \in SUBSET (1..i)
      OBVIOUS
    <3>2. g[U] = IF U = {} THEN base ELSE Work(kind, par, g[U \ {Max(U)}], q[Max(U)])
      BY <2>1
    <3> QED
      BY <3>1, <3>2
  <2>4. h = [T \in SUBSET (1..i) |->
              IF T = {} THEN base ELSE Work(kind, par, h[T \ {Max(T)}], q[Max(T)])]
    <3>1. \A T \in SUBSET (1..i) : T # {} => h[T \ {Max(T)}] = g[T \ {Max(T)}]
      BY <2>2, <2>3
    <3>2. \A T \in SUBSET (1..i) :
            (IF T = {} THEN base ELSE Work(kind, par, g[T \ {Max(T)}], q[Max(T)]))
            = (IF T = {} THEN base ELSE Work(kind, par, h[T \ {Max(T)}], q[Max(T)]))
      BY <3>1
    <3>3. \A T \in SUBSET (1..i) : h[T] = IF T = {} THEN base ELSE Work(kind, par, g[T \ {Max(T)}], q[Max(T)])
      OBVIOUS
    <3>4. DOMAIN h = SUBSET (1..i) /\ h = [T \in SUBSET (1..i) |-> h[T]]
      OBVIOUS
    <3> HIDE DEF h
    <3> QED
      BY <3>2, <3>3, <3>4
  <2> HIDE DEF h
  <2>5. Good(h, i)
    BY <2>4
  <2>6. i \in 0..n
    OBVIOUS
  <2> HIDE DEF Good
  <2> QED
    BY <2>5, <2>6
<1>3. n \in S
  <2> HIDE DEF S
  <2>1. \A i \in 1..n : i - 1 \in S => i \in S
    BY <1>2
  <2>2. \A i \in 0..n : i \in S
    BY <1>1, <2>1, Upward
  <2> QED
    BY <2>2
<1>4. PICK g : Good(g, n)
  BY <1>3
<1>5. g = Unfold(kind, par, base, q, n, g)
  BY <1>4 DEF Unfold
<1> QED
  BY <1>5

(* Where a fold has got to after every element. *)
Climbs(kind, par, base, q, n, g) ==
  /\ g[1..0] = base
  /\ \A i \in 1..n : g[1..i] = Work(kind, par, g[1..(i - 1)], q[i])

Reaches(kind, par, base, q, n, a) ==
  \E F : /\ F[0] = base /\ F[n] = a
         /\ \A i \in 1..n : F[i] = Work(kind, par, F[i - 1], q[i])

LEMMA FoldSteps ==
  ASSUME NEW kind, NEW par, NEW base, NEW q, NEW n \in Nat, NEW g,
         g = Unfold(kind, par, base, q, n, g)
  PROVE  Climbs(kind, par, base, q, n, g)
<1>0. \A T \in SUBSET (1..n) : g[T] =
        IF T = {} THEN base ELSE Work(kind, par, g[T \ {Max(T)}], q[Max(T)])
  BY DEF Unfold
<1>1. 1..0 = {} /\ 1..0 \in SUBSET (1..n)
  OBVIOUS
<1>2. g[1..0] = base
  BY <1>0, <1>1
<1>3. ASSUME NEW i \in 1..n
      PROVE  g[1..i] = Work(kind, par, g[1..(i - 1)], q[i])
  <2>1. 1..i \in SUBSET (0..n) /\ 1..i \in SUBSET (1..n) /\ 1..i # {} /\ i \in 1..i
    OBVIOUS
  <2>2. Max(1..i) \in 1..i /\ \A y \in 1..i : Max(1..i) >= y
    BY <2>1, MaxIsLargest
  <2>3. Max(1..i) = i
    BY <2>1, <2>2
  <2>4. (1..i) \ {i} = 1..(i - 1)
    OBVIOUS
  <2>5. g[1..i] = Work(kind, par, g[(1..i) \ {Max(1..i)}], q[Max(1..i)])
    BY <1>0, <2>1
  <2> QED
    BY <2>3, <2>4, <2>5
<1> QED
  BY <1>2, <1>3 DEF Climbs

LEMMA FoldClimbs ==
  ASSUME NEW kind, NEW par, NEW base, NEW q, NEW n \in Nat, NEW c,
         c = Unfold(kind, par, base, q, n, c)
  PROVE  Reaches(kind, par, base, q, n, c[1..n])
<1>1. Climbs(kind, par, base, q, n, c)
  BY FoldSteps
<1> DEFINE F == [i \in 0..n |-> c[1..i]]
<1>2. F[0] = base /\ F[n] = c[1..n]
  BY <1>1 DEF Climbs
<1>3. \A i \in 1..n : F[i] = Work(kind, par, F[i - 1], q[i])
  BY <1>1 DEF Climbs
<1> QED
  BY <1>2, <1>3 DEF Reaches

WokenAll(base, q) == FoldLeft(WakeOne, base, q)
MovedAll(base, q) == FoldLeft(PendedTask, base, q)
MadeUp(base, q) == FoldLeft(PendedTick, base, q)
AddedAll(base, q) == FoldLeft(AddFirstTask, base, q)

LEMMA WakeFold ==
  ASSUME NEW base, NEW S, NEW q \in Seq(S)
  PROVE  \E F : /\ F[0] = base /\ F[Len(q)] = WokenAll(base, q)
                /\ \A i \in 1..Len(q) : F[i] = WakeOne(F[i - 1], q[i])
<1> DEFINE n == Len(q)
           Next1(g) == [T \in SUBSET DOMAIN q |->
              IF T = {} THEN base ELSE WakeOne(g[T \ {Max(T)}], q[Max(T)])]
           c == CHOOSE g : g = Next1(g)
<1>1. n \in Nat /\ DOMAIN q = 1..n
  OBVIOUS
<1>2. PICK g : g = Unfold("wake", {}, base, q, n, g)
  <2> HIDE DEF n
  <2> QED
    BY <1>1, FoldExists
<1>3. \A a, x : Work("wake", {}, a, x) = WakeOne(a, x)
  BY DEF Work
<1>4. \A T \in SUBSET DOMAIN q : g[T] =
        IF T = {} THEN base ELSE WakeOne(g[T \ {Max(T)}], q[Max(T)])
  BY <1>1, <1>2, <1>3 DEF Unfold
<1>5. g = [T \in SUBSET DOMAIN q |-> g[T]]
  BY <1>1, <1>2 DEF Unfold
<1>6. g = Next1(g)
  BY <1>4, <1>5
<1>7. c = Next1(c)
  <2> HIDE DEF Next1
  <2> QED
    BY <1>6
<1>8. WokenAll(base, q) = c[DOMAIN q]
  BY DEF WokenAll, FoldLeft, MapThenFoldSet
<1> HIDE DEF c
<1>9. \A T \in SUBSET (1..n) : c[T] =
        IF T = {} THEN base ELSE Work("wake", {}, c[T \ {Max(T)}], q[Max(T)])
  BY <1>1, <1>3, <1>7
<1>10. c = [T \in SUBSET (1..n) |-> c[T]]
  BY <1>1, <1>7
<1>11. c = Unfold("wake", {}, base, q, n, c)
  BY <1>9, <1>10 DEF Unfold
<1>12. PICK F : /\ F[0] = base /\ F[n] = c[1..n]
                /\ \A i \in 1..n : F[i] = Work("wake", {}, F[i - 1], q[i])
  <2>1. Reaches("wake", {}, base, q, n, c[1..n])
    <3> HIDE DEF n
    <3> QED
      BY <1>1, <1>11, FoldClimbs
  <2> QED
    BY <2>1 DEF Reaches
<1> QED
  BY <1>1, <1>3, <1>8, <1>12

LEMMA PendedTaskFold ==
  ASSUME NEW base, NEW S, NEW q \in Seq(S)
  PROVE  \E F : /\ F[0] = base /\ F[Len(q)] = MovedAll(base, q)
                /\ \A i \in 1..Len(q) : F[i] = PendedTask(F[i - 1], q[i])
<1> DEFINE n == Len(q)
           Next1(g) == [T \in SUBSET DOMAIN q |->
              IF T = {} THEN base ELSE PendedTask(g[T \ {Max(T)}], q[Max(T)])]
           c == CHOOSE g : g = Next1(g)
<1>1. n \in Nat /\ DOMAIN q = 1..n
  OBVIOUS
<1>2. PICK g : g = Unfold("pend", {}, base, q, n, g)
  <2> HIDE DEF n
  <2> QED
    BY <1>1, FoldExists
<1>3. \A a, x : Work("pend", {}, a, x) = PendedTask(a, x)
  BY DEF Work
<1>4. \A T \in SUBSET DOMAIN q : g[T] =
        IF T = {} THEN base ELSE PendedTask(g[T \ {Max(T)}], q[Max(T)])
  BY <1>1, <1>2, <1>3 DEF Unfold
<1>5. g = [T \in SUBSET DOMAIN q |-> g[T]]
  BY <1>1, <1>2 DEF Unfold
<1>6. g = Next1(g)
  BY <1>4, <1>5
<1>7. c = Next1(c)
  <2> HIDE DEF Next1
  <2> QED
    BY <1>6
<1>8. MovedAll(base, q) = c[DOMAIN q]
  BY DEF MovedAll, FoldLeft, MapThenFoldSet
<1> HIDE DEF c
<1>9. \A T \in SUBSET (1..n) : c[T] =
        IF T = {} THEN base ELSE Work("pend", {}, c[T \ {Max(T)}], q[Max(T)])
  BY <1>1, <1>3, <1>7
<1>10. c = [T \in SUBSET (1..n) |-> c[T]]
  BY <1>1, <1>7
<1>11. c = Unfold("pend", {}, base, q, n, c)
  BY <1>9, <1>10 DEF Unfold
<1>12. PICK F : /\ F[0] = base /\ F[n] = c[1..n]
                /\ \A i \in 1..n : F[i] = Work("pend", {}, F[i - 1], q[i])
  <2>1. Reaches("pend", {}, base, q, n, c[1..n])
    <3> HIDE DEF n
    <3> QED
      BY <1>1, <1>11, FoldClimbs
  <2> QED
    BY <2>1 DEF Reaches
<1> QED
  BY <1>1, <1>3, <1>8, <1>12

LEMMA PendedTickFold ==
  ASSUME NEW base, NEW S, NEW q \in Seq(S)
  PROVE  \E F : /\ F[0] = base /\ F[Len(q)] = MadeUp(base, q)
                /\ \A i \in 1..Len(q) : F[i] = PendedTick(F[i - 1], q[i])
<1> DEFINE n == Len(q)
           Next1(g) == [T \in SUBSET DOMAIN q |->
              IF T = {} THEN base ELSE PendedTick(g[T \ {Max(T)}], q[Max(T)])]
           c == CHOOSE g : g = Next1(g)
<1>1. n \in Nat /\ DOMAIN q = 1..n
  OBVIOUS
<1>2. PICK g : g = Unfold("tick", {}, base, q, n, g)
  <2> HIDE DEF n
  <2> QED
    BY <1>1, FoldExists
<1>3. \A a, x : Work("tick", {}, a, x) = PendedTick(a, x)
  BY DEF Work
<1>4. \A T \in SUBSET DOMAIN q : g[T] =
        IF T = {} THEN base ELSE PendedTick(g[T \ {Max(T)}], q[Max(T)])
  BY <1>1, <1>2, <1>3 DEF Unfold
<1>5. g = [T \in SUBSET DOMAIN q |-> g[T]]
  BY <1>1, <1>2 DEF Unfold
<1>6. g = Next1(g)
  BY <1>4, <1>5
<1>7. c = Next1(c)
  <2> HIDE DEF Next1
  <2> QED
    BY <1>6
<1>8. MadeUp(base, q) = c[DOMAIN q]
  BY DEF MadeUp, FoldLeft, MapThenFoldSet
<1> HIDE DEF c
<1>9. \A T \in SUBSET (1..n) : c[T] =
        IF T = {} THEN base ELSE Work("tick", {}, c[T \ {Max(T)}], q[Max(T)])
  BY <1>1, <1>3, <1>7
<1>10. c = [T \in SUBSET (1..n) |-> c[T]]
  BY <1>1, <1>7
<1>11. c = Unfold("tick", {}, base, q, n, c)
  BY <1>9, <1>10 DEF Unfold
<1>12. PICK F : /\ F[0] = base /\ F[n] = c[1..n]
                /\ \A i \in 1..n : F[i] = Work("tick", {}, F[i - 1], q[i])
  <2>1. Reaches("tick", {}, base, q, n, c[1..n])
    <3> HIDE DEF n
    <3> QED
      BY <1>1, <1>11, FoldClimbs
  <2> QED
    BY <2>1 DEF Reaches
<1> QED
  BY <1>1, <1>3, <1>8, <1>12

LEMMA AddFirstFold ==
  ASSUME NEW base, NEW S, NEW q \in Seq(S)
  PROVE  \E F : /\ F[0] = base /\ F[Len(q)] = AddedAll(base, q)
                /\ \A i \in 1..Len(q) : F[i] = AddFirstTask(F[i - 1], q[i])
<1> DEFINE n == Len(q)
           Next1(g) == [T \in SUBSET DOMAIN q |->
              IF T = {} THEN base ELSE AddFirstTask(g[T \ {Max(T)}], q[Max(T)])]
           c == CHOOSE g : g = Next1(g)
<1>1. n \in Nat /\ DOMAIN q = 1..n
  OBVIOUS
<1>2. PICK g : g = Unfold("first", {}, base, q, n, g)
  <2> HIDE DEF n
  <2> QED
    BY <1>1, FoldExists
<1>3. \A a, x : Work("first", {}, a, x) = AddFirstTask(a, x)
  BY DEF Work
<1>4. \A T \in SUBSET DOMAIN q : g[T] =
        IF T = {} THEN base ELSE AddFirstTask(g[T \ {Max(T)}], q[Max(T)])
  BY <1>1, <1>2, <1>3 DEF Unfold
<1>5. g = [T \in SUBSET DOMAIN q |-> g[T]]
  BY <1>1, <1>2 DEF Unfold
<1>6. g = Next1(g)
  BY <1>4, <1>5
<1>7. c = Next1(c)
  <2> HIDE DEF Next1
  <2> QED
    BY <1>6
<1>8. AddedAll(base, q) = c[DOMAIN q]
  BY DEF AddedAll, FoldLeft, MapThenFoldSet
<1> HIDE DEF c
<1>9. \A T \in SUBSET (1..n) : c[T] =
        IF T = {} THEN base ELSE Work("first", {}, c[T \ {Max(T)}], q[Max(T)])
  BY <1>1, <1>3, <1>7
<1>10. c = [T \in SUBSET (1..n) |-> c[T]]
  BY <1>1, <1>7
<1>11. c = Unfold("first", {}, base, q, n, c)
  BY <1>9, <1>10 DEF Unfold
<1>12. PICK F : /\ F[0] = base /\ F[n] = c[1..n]
                /\ \A i \in 1..n : F[i] = Work("first", {}, F[i - 1], q[i])
  <2>1. Reaches("first", {}, base, q, n, c[1..n])
    <3> HIDE DEF n
    <3> QED
      BY <1>1, <1>11, FoldClimbs
  <2> QED
    BY <2>1 DEF Reaches
<1> QED
  BY <1>1, <1>3, <1>8, <1>12

LEMMA WakeCountedFold ==
  ASSUME NEW base, NEW l, NEW m \in Int
  PROVE  \E n \in Nat : \E F :
           /\ F[0] = base /\ F[n] = WakeCounted(base, l, m)
           /\ \A i \in 1..n : F[i] = WakeMissed(F[i - 1], l)
<1> DEFINE q == [i \in 1..m |-> i]
           n == IF m < 0 THEN 0 ELSE m
           Next1(g) == [T \in SUBSET DOMAIN q |->
              IF T = {} THEN base ELSE WakeMissed(g[T \ {Max(T)}], l)]
           c == CHOOSE g : g = Next1(g)
<1>1. n \in Nat /\ DOMAIN q = 1..n
  OBVIOUS
<1>2. PICK g : g = Unfold("missed", l, base, q, n, g)
  <2> HIDE DEF n, q
  <2> QED
    BY <1>1, FoldExists
<1>3. \A a, x : Work("missed", l, a, x) = WakeMissed(a, l)
  BY DEF Work
<1>4. \A T \in SUBSET DOMAIN q : g[T] =
        IF T = {} THEN base ELSE WakeMissed(g[T \ {Max(T)}], l)
  BY <1>1, <1>2, <1>3 DEF Unfold
<1>5. g = [T \in SUBSET DOMAIN q |-> g[T]]
  BY <1>1, <1>2 DEF Unfold
<1>6. g = Next1(g)
  BY <1>4, <1>5
<1>7. c = Next1(c)
  <2> HIDE DEF Next1
  <2> QED
    BY <1>6
<1>8. WakeCounted(base, l, m) = c[DOMAIN q]
  BY DEF WakeCounted, FoldLeft, MapThenFoldSet
<1> HIDE DEF c
<1>9. \A T \in SUBSET (1..n) : c[T] =
        IF T = {} THEN base ELSE Work("missed", l, c[T \ {Max(T)}], q[Max(T)])
  <2> HIDE DEF n, q
  <2> QED
    BY <1>1, <1>3, <1>7
<1>10. c = [T \in SUBSET (1..n) |-> c[T]]
  BY <1>1, <1>7
<1>11. c = Unfold("missed", l, base, q, n, c)
  BY <1>9, <1>10 DEF Unfold
<1>12. PICK F : /\ F[0] = base /\ F[n] = c[1..n]
                /\ \A i \in 1..n : F[i] = Work("missed", l, F[i - 1], q[i])
  <2>1. Reaches("missed", l, base, q, n, c[1..n])
    <3> HIDE DEF n, q
    <3> QED
      BY <1>1, <1>11, FoldClimbs
  <2> QED
    BY <2>1 DEF Reaches
<1> HIDE DEF n, q
<1> QED
  BY <1>1, <1>3, <1>8, <1>12

Walked(base, g0, tasks) ==
  LET q == base.events[Waiting(g0)]
  IN  \E F : /\ F[0] = base /\ F[Len(q)] = Wake(base, g0, tasks)
             /\ \A i \in 1..Len(q) : F[i] = IF q[i] \in tasks
                  THEN RemoveFromUnordered(F[i - 1], q[i], Unblocked) ELSE F[i - 1]

LEMMA EventWakeFold ==
  ASSUME NEW base, NEW tasks, NEW g0, NEW S, base.events[Waiting(g0)] \in Seq(S)
  PROVE  Walked(base, g0, tasks)
<1> DEFINE q == base.events[Waiting(g0)]
           n == Len(q)
           Next1(g) == [T \in SUBSET DOMAIN q |->
              IF T = {} THEN base ELSE (IF q[Max(T)] \in tasks THEN RemoveFromUnordered(g[T \ {Max(T)}], q[Max(T)], Unblocked) ELSE g[T \ {Max(T)}])]
           c == CHOOSE g : g = Next1(g)
<1>1. n \in Nat /\ DOMAIN q = 1..n
  OBVIOUS
<1>2. PICK g : g = Unfold("woken", tasks, base, q, n, g)
  <2> HIDE DEF n, q
  <2> QED
    BY <1>1, FoldExists
<1>3. \A a, x : Work("woken", tasks, a, x) = (IF x \in tasks THEN RemoveFromUnordered(a, x, Unblocked) ELSE a)
  BY DEF Work
<1>4. \A T \in SUBSET DOMAIN q : g[T] =
        IF T = {} THEN base ELSE (IF q[Max(T)] \in tasks THEN RemoveFromUnordered(g[T \ {Max(T)}], q[Max(T)], Unblocked) ELSE g[T \ {Max(T)}])
  BY <1>1, <1>2, <1>3 DEF Unfold
<1>5. g = [T \in SUBSET DOMAIN q |-> g[T]]
  BY <1>1, <1>2 DEF Unfold
<1>6. g = Next1(g)
  BY <1>4, <1>5
<1>7. c = Next1(c)
  <2> HIDE DEF Next1
  <2> QED
    BY <1>6
<1>8. Wake(base, g0, tasks) = c[DOMAIN q]
  BY DEF Wake, FoldLeft, MapThenFoldSet
<1> HIDE DEF c
<1>9. \A T \in SUBSET (1..n) : c[T] =
        IF T = {} THEN base ELSE Work("woken", tasks, c[T \ {Max(T)}], q[Max(T)])
  BY <1>1, <1>3, <1>7
<1>10. c = [T \in SUBSET (1..n) |-> c[T]]
  BY <1>1, <1>7
<1>11. c = Unfold("woken", tasks, base, q, n, c)
  BY <1>9, <1>10 DEF Unfold
<1>12. PICK F : /\ F[0] = base /\ F[n] = c[1..n]
                /\ \A i \in 1..n : F[i] = Work("woken", tasks, F[i - 1], q[i])
  <2>1. Reaches("woken", tasks, base, q, n, c[1..n])
    <3> HIDE DEF n, q
    <3> QED
      BY <1>1, <1>11, FoldClimbs
  <2> QED
    BY <2>1 DEF Reaches
<1> QED
  BY <1>1, <1>3, <1>8, <1>12 DEF Walked

----------------------------------------------------------------------------
(* Moving a task between lists. *)

(* What the steps that wake tasks leave as it is. *)
Milder(s, r, t) ==
  /\ r.notify[t] = "waiting" => s.notify[t] = "waiting"
  /\ r.evValue[t] = s.evValue[t] \/ r.evValue[t] \in 1..MaxPriorities
  /\ ListedIn(s, t) => ListedIn(r, t)
  /\ \A l \in EventLists : Contains(r.events[l], t) => Contains(s.events[l], t)

Mild(s, r) ==
  /\ r.current = s.current
  /\ Ready(s, s.current) => Ready(r, r.current)
  /\ \A t \in Tasks : Milder(s, r, t)

Harmless(s, r) ==
  /\ Mild(s, r) /\ r.suspendedAll = s.suspendedAll /\ (s.pendsv => r.pendsv)
  /\ s.suspendedAll = 0 /\ s.pendingReady = << >> => r.pendingReady = << >>

LEMMA MildSelf == \A s : Mild(s, s)
BY DEF Mild, Milder

LEMMA HarmlessSelf == \A s : Harmless(s, s)
<1>1. TAKE s
<1>2. s.pendsv => s.pendsv
  BY Zenon
<1> QED
  BY <1>2, MildSelf DEF Harmless

LEMMA MildTransitive ==
  ASSUME NEW s, NEW r, NEW v, Mild(s, r), Mild(r, v)
  PROVE  Mild(s, v)
BY DEF Mild, Milder

LEMMA HarmlessTransitive ==
  ASSUME NEW s, NEW r, NEW v, Harmless(s, r), Harmless(r, v)
  PROVE  Harmless(s, v)
BY MildTransitive DEF Harmless

LEMMA OthersPlaced ==
  ASSUME NEW s, NEW r, NEW t, Others(s, r, t), \A u \in Tasks \ {t} : Placed(s, u)
  PROVE  /\ \A u \in Tasks \ {t} : Placed(r, u) /\ (Dormant(r, u) <=> Dormant(s, u))
         /\ \A u \in Tasks \ {t} : ListedIn(r, u) <=> ListedIn(s, u)
<1>1. ASSUME NEW u \in Tasks \ {t}
      PROVE  /\ Placed(r, u) /\ (Dormant(r, u) <=> Dormant(s, u))
             /\ ListedIn(r, u) <=> ListedIn(s, u)
  <2>1. /\ Placed(s, u) /\ AsListed(s, r, u) /\ AsLinked(s, r, u) /\ r.prio[u] = s.prio[u]
        /\ r.notify[u] = "waiting" => s.notify[u] = "waiting"
    BY DEF Others
  <2>2. Dormant(r, u) <=> Dormant(s, u)
    BY <2>1 DEF Dormant, AsListed
  <2>3. ListedIn(r, u) <=> ListedIn(s, u)
    BY <2>1, <2>2 DEF ListedIn, AsListed
  <2>4. Unlinked(r, u) <=> Unlinked(s, u)
    BY <2>1 DEF Unlinked, AsLinked
  <2>5. Placed(r, u)
    BY <2>1, <2>2, <2>4 DEF Placed, AsListed, AsLinked
  <2> QED
    BY <2>2, <2>3, <2>5
<1> QED
  BY <1>1

LEMMA OnePlaceKept ==
  ASSUME NEW s, NEW r, NEW t \in Tasks, Others(s, r, t), OnePlace(s), Placed(r, t)
  PROVE  OnePlace(r)
BY OthersPlaced DEF OnePlace

LEMMA OthersReady ==
  ASSUME NEW s, NEW r, NEW t, Others(s, r, t), NEW u \in Tasks \ {t}, WF(s)
  PROVE  /\ Ready(r, u) <=> Ready(s, u)
         /\ Contains(r.pendingReady, u) <=> Contains(s.pendingReady, u)
<1>1. s.prio[u] \in Priorities
  BY WFParts
<1> QED
  BY <1>1 DEF Others, AsListed, AsLinked, Ready

(* A task has been made ready. *)
LEMMA ReadiedOK ==
  ASSUME NEW s, SchedOK(s), NEW r, NEW t \in Tasks, WF(r), Others(s, r, t),
         OnlyReady(r, t), Unlinked(r, t), t = Idle => r.prio[t] = 0, r.current = s.current
  PROVE  /\ SchedOK(r)
         /\ Ready(s, s.current) => Ready(r, r.current)
         /\ \A u \in Tasks : ListedIn(s, u) => ListedIn(r, u)
<1>1. Placed(r, t)
  BY DEF OnlyReady, Placed, Dormant, Unlinked
<1>2. OnePlace(r)
  BY <1>1, OnePlaceKept DEF SchedOK
<1>3. r.prio[t] \in Priorities /\ Ready(r, t)
  BY WFParts DEF OnlyReady, Ready
<1>4. IdleReady(r)
  <2>1. CASE t = Idle
    BY <2>1, <1>3, Zero DEF IdleReady, OnlyReady
  <2>2. CASE t # Idle
    <3>1. Idle \in Tasks \ {t} /\ IdleReady(s)
      BY <2>2, Zero DEF SchedOK
    <3> QED
      BY <3>1, Zero DEF IdleReady, Others, AsListed
  <2> QED
    BY <2>1, <2>2
<1>5. CurrentApart(r) /\ (Ready(s, s.current) => Ready(r, r.current))
  <2>0. s.current \in Tasks /\ WF(s) /\ CurrentApart(s)
    BY DEF SchedOK, WF, Shaped
  <2>1. CASE t = s.current
    BY <2>1, <1>3 DEF CurrentApart, Unlinked
  <2>2. CASE t # s.current
    <3>1. /\ Ready(r, s.current) <=> Ready(s, s.current)
          /\ Contains(r.pendingReady, s.current) <=> Contains(s.pendingReady, s.current)
      BY <2>0, <2>2, OthersReady
    <3> QED
      BY <3>1, <2>0 DEF CurrentApart
  <2> QED
    BY <2>1, <2>2
<1>6. ASSUME NEW u \in Tasks, ListedIn(s, u) PROVE ListedIn(r, u)
  <2>1. CASE u = t
    BY <2>1, <1>3 DEF ListedIn, Ready
  <2>2. CASE u # t
    BY <1>6, <2>2, OthersPlaced DEF SchedOK, OnePlace
  <2> QED
    BY <2>1, <2>2
<1> QED
  BY <1>2, <1>4, <1>5, <1>6 DEF SchedOK, WF

(* ToReady of a task that waits for nothing. *)
LEMMA ToReadyOK ==
  ASSUME NEW s, SchedOK(s), NEW t \in Tasks, Unlinked(s, t)
  PROVE  LET r == ToReady(s, t)
         IN  /\ SchedOK(r) /\ Harmless(s, r) /\ OnlyReady(r, t) /\ Others(s, r, t)
             /\ Unlinked(r, t) /\ Same(s, r, StateLists \cup {"top"})
<1> DEFINE r == ToReady(s, t)
<1>0. WF(s)
  BY DEF SchedOK, WF
<1>1. /\ WF(r) /\ Others(s, r, t) /\ OnlyReady(r, t) /\ AsLinked(s, r, t)
      /\ Same(s, r, StateLists \cup {"top"})
  BY <1>0, ToReadyWF
<1> HIDE DEF r
<1>2. Unlinked(r, t)
  BY <1>1 DEF AsLinked, Unlinked
<1>3. /\ r.current = s.current /\ r.suspendedAll = s.suspendedAll /\ r.notify = s.notify
      /\ r.evValue = s.evValue /\ r.prio = s.prio /\ r.events = s.events
      /\ r.pendingReady = s.pendingReady /\ r.pendsv = s.pendsv
  BY <1>1 DEF Same, SchedFields, StateLists
<1>4. t = Idle => r.prio[t] = 0
  BY <1>3 DEF SchedOK, IdleReady
<1>5. /\ SchedOK(r) /\ (Ready(s, s.current) => Ready(r, r.current))
      /\ \A u \in Tasks : ListedIn(s, u) => ListedIn(r, u)
  BY <1>1, <1>2, <1>3, <1>4, ReadiedOK
<1>6. Harmless(s, r)
  BY <1>3, <1>5 DEF Harmless, Mild, Milder
<1> QED
  BY <1>1, <1>2, <1>5, <1>6 DEF r

(* A task is woken: it leaves what it waits for, and becomes ready. *)
LEMMA WokenUpOK ==
  ASSUME NEW s, SchedOK(s), NEW t \in Tasks
  PROVE  LET r == ToReady(RemoveEvent(s, t), t)
         IN  /\ SchedOK(r) /\ Harmless(s, r) /\ OnlyReady(r, t) /\ Others(s, r, t)
             /\ Unlinked(r, t)
             /\ Same(s, r, StateLists \cup {"top", "events", "pendingReady"})
             /\ \A u : Contains(r.pendingReady, u) <=> Contains(s.pendingReady, u) /\ u # t
<1> DEFINE m == RemoveEvent(s, t)
           r == ToReady(m, t)
<1>0. WF(s)
  BY DEF SchedOK, WF
<1>1. /\ WF(m) /\ Others(s, m, t) /\ Unlinked(m, t) /\ AsListed(s, m, t)
      /\ Same(s, m, {"events", "pendingReady"})
      /\ \A l \in EventLists : \A u : Contains(m.events[l], u) <=> Contains(s.events[l], u) /\ u # t
      /\ \A u : Contains(m.pendingReady, u) <=> Contains(s.pendingReady, u) /\ u # t
  BY <1>0, RemoveEventWF
<1> HIDE DEF m
<1>2. /\ WF(r) /\ Others(m, r, t) /\ OnlyReady(r, t) /\ AsLinked(m, r, t)
      /\ Same(m, r, StateLists \cup {"top"})
  BY <1>1, ToReadyWF
<1> HIDE DEF r
<1>3. Others(s, r, t)
  BY <1>1, <1>2, OthersTransitive
<1>4. Unlinked(r, t)
  BY <1>1, <1>2 DEF AsLinked, Unlinked
<1>5. /\ r.current = s.current /\ r.suspendedAll = s.suspendedAll /\ r.notify = s.notify
      /\ r.evValue = s.evValue /\ r.prio = s.prio /\ r.pendsv = s.pendsv
      /\ r.events = m.events /\ r.pendingReady = m.pendingReady
  BY <1>1, <1>2 DEF Same, SchedFields, StateLists
<1>6. t = Idle => r.prio[t] = 0
  BY <1>5 DEF SchedOK, IdleReady
<1>7. /\ SchedOK(r) /\ (Ready(s, s.current) => Ready(r, r.current))
      /\ \A u \in Tasks : ListedIn(s, u) => ListedIn(r, u)
  BY <1>2, <1>3, <1>4, <1>5, <1>6, ReadiedOK
<1>8. Same(s, r, StateLists \cup {"top", "events", "pendingReady"})
  BY <1>1, <1>2 DEF Same, StateLists
<1>9. Harmless(s, r)
  <2>1. Mild(s, r)
    BY <1>1, <1>5, <1>7 DEF Mild, Milder
  <2>2. s.pendingReady = << >> => r.pendingReady = << >>
    BY <1>0, <1>1, <1>2, <1>5, WFParts, NonEmptyLists, EmptyLists
  <2> QED
    BY <1>5, <2>1, <2>2 DEF Harmless
<1> QED
  BY <1>1, <1>2, <1>3, <1>4, <1>5, <1>7, <1>8, <1>9 DEF r, m

(* Fields that no list depends on. *)
Loose == {"yieldPending", "pendsv", "nextUnblock", "tick", "entry", "pendedTicks", "held",
          "value", "lastWake", "bits", "wake"}

LEMMA LooseOK ==
  ASSUME NEW s, SchedOK(s), NEW r, IsSched(r), Same(s, r, Loose), r.pendedTicks \in Nat,
         r.entry = [t \in Tasks |-> r.entry[t]], r.bits = [t \in Tasks |-> r.bits[t]],
         s.pendsv => r.pendsv
  PROVE  SchedOK(r) /\ Harmless(s, r)
<1>1. /\ r.ready = s.ready /\ r.delayed = s.delayed /\ r.overflow = s.overflow
      /\ r.suspended = s.suspended /\ r.terminating = s.terminating /\ r.events = s.events
      /\ r.pendingReady = s.pendingReady /\ r.prio = s.prio /\ r.notify = s.notify
      /\ r.base = s.base /\ r.evValue = s.evValue /\ r.current = s.current /\ r.top = s.top
      /\ r.suspendedAll = s.suspendedAll
  <2>1. /\ r.ready = s.ready /\ r.delayed = s.delayed /\ r.overflow = s.overflow
        /\ r.suspended = s.suspended /\ r.terminating = s.terminating /\ r.events = s.events
        /\ r.pendingReady = s.pendingReady
    BY SMTT(30) DEF Same, SchedFields, Loose
  <2>2. /\ r.prio = s.prio /\ r.notify = s.notify
        /\ r.base = s.base /\ r.evValue = s.evValue /\ r.current = s.current /\ r.top = s.top
        /\ r.suspendedAll = s.suspendedAll
    BY SMTT(30) DEF Same, SchedFields, Loose
  <2> QED
    BY <2>1, <2>2
<1>2. Shaped(r)
  BY <1>1 DEF SchedOK, Shaped, IsSched
<1>3. HasLists(r)
  BY <1>1 DEF SchedOK, HasLists
<1>4. OnePlace(r)
  BY <1>1 DEF SchedOK, OnePlace, Placed, Dormant, Unlinked
<1>5. IdleReady(r) /\ CurrentApart(r)
  BY <1>1 DEF SchedOK, IdleReady, CurrentApart, Ready
<1>6. Harmless(s, r)
  BY <1>1 DEF Harmless, Mild, Milder, Ready, ListedIn, Dormant
<1> QED
  BY <1>2, <1>3, <1>4, <1>5, <1>6 DEF SchedOK

LEMMA SchedIs ==
  ASSUME NEW s, SchedOK(s)
  PROVE  /\ IsSched(s) /\ WF(s) /\ s.pendedTicks \in Nat /\ s.current \in Tasks
         /\ s.suspendedAll \in Nat
         /\ s.entry = [t \in Tasks |-> s.entry[t]] /\ s.bits = [t \in Tasks |-> s.bits[t]]
BY DEF SchedOK, WF, Shaped, IsSched

LEMMA YieldOK ==
  ASSUME NEW s, SchedOK(s)
  PROVE  /\ SchedOK(Yield(s)) /\ Harmless(s, Yield(s)) /\ Yield(s).pendsv
         /\ Same(s, Yield(s), {"pendsv"})
<1> DEFINE r == Yield(s)
<1>0. IsSched(s)
  BY SchedIs
<1>1. IsSched(r) /\ Same(s, r, {"pendsv"})
  <2>1. IsSched(r)
    BY <1>0 DEF Yield, IsSched
  <2>2. Same(s, r, {"pendsv"})
    BY <1>0 DEF Yield, IsSched, SchedFields, Same
  <2> QED
    BY <2>1, <2>2
<1>2. r.pendsv
  BY <1>0 DEF Yield, IsSched, SchedFields
<1> HIDE DEF r
<1>3. Same(s, r, Loose) /\ r.pendedTicks = s.pendedTicks /\ r.entry = s.entry /\ r.bits = s.bits
  BY <1>1 DEF Same, Loose, SchedFields
<1>4. SchedOK(r) /\ Harmless(s, r)
  BY <1>1, <1>2, <1>3, SchedIs, LooseOK
<1> QED
  BY <1>1, <1>2, <1>4 DEF r

LEMMA YieldIfOK ==
  ASSUME NEW s, SchedOK(s), NEW c
  PROVE  /\ SchedOK(YieldIf(c, s)) /\ Harmless(s, YieldIf(c, s)) /\ Same(s, YieldIf(c, s), {"pendsv"})
         /\ c => YieldIf(c, s).pendsv
<1>1. CASE c
  BY <1>1, YieldOK DEF YieldIf
<1>2. CASE ~c
  BY <1>2, HarmlessSelf DEF YieldIf, Same
<1> QED
  BY <1>1, <1>2

----------------------------------------------------------------------------
(* The passing of time. *)

LEMMA TweakOK ==
  ASSUME NEW s, SchedOK(s), NEW f \in Loose \ {"pendsv", "pendedTicks", "entry", "bits"}, NEW v
  PROVE  LET r == [s EXCEPT ![f] = v]
         IN  SchedOK(r) /\ Harmless(s, r) /\ Same(s, r, {f}) /\ r[f] = v
<1> DEFINE r == [s EXCEPT ![f] = v]
<1>1. IsSched(s) /\ f \in SchedFields
  BY SchedIs DEF Loose, SchedFields
<1>2. IsSched(r) /\ Same(s, r, {f}) /\ r[f] = v
  BY <1>1 DEF IsSched, Same
<1> HIDE DEF r
<1>3. /\ Same(s, r, Loose) /\ r.pendedTicks = s.pendedTicks /\ r.entry = s.entry /\ r.bits = s.bits
      /\ r.pendsv = s.pendsv
  BY <1>2 DEF Same, Loose, SchedFields
<1>4. SchedOK(r) /\ Harmless(s, r)
  <2>1. s.pendsv => r.pendsv
    BY <1>3, Zenon
  <2> QED
    BY <1>2, <1>3, <2>1, SchedIs, LooseOK
<1> QED
  BY <1>2, <1>4 DEF r

LEMMA PendedTicksOK ==
  ASSUME NEW s, SchedOK(s), NEW v \in Nat
  PROVE  LET r == [s EXCEPT !.pendedTicks = v]
         IN  SchedOK(r) /\ Harmless(s, r) /\ Same(s, r, {"pendedTicks"}) /\ r.pendedTicks = v
<1> DEFINE r == [s EXCEPT !.pendedTicks = v]
<1>1. IsSched(s)
  BY SchedIs
<1>2. IsSched(r) /\ Same(s, r, {"pendedTicks"}) /\ r.pendedTicks = v
  BY <1>1 DEF IsSched, Same, SchedFields
<1> HIDE DEF r
<1>3. /\ Same(s, r, Loose) /\ r.entry = s.entry /\ r.bits = s.bits /\ r.pendsv = s.pendsv
  BY <1>2 DEF Same, Loose, SchedFields
<1>4. SchedOK(r) /\ Harmless(s, r)
  <2>1. s.pendsv => r.pendsv
    BY <1>3, Zenon
  <2> QED
    BY <1>2, <1>3, <2>1, SchedIs, LooseOK
<1> QED
  BY <1>2, <1>4 DEF r

LEMMA EntryOK ==
  ASSUME NEW s, SchedOK(s), NEW v, v = [t \in Tasks |-> v[t]]
  PROVE  LET r == [s EXCEPT !.entry = v]
         IN  SchedOK(r) /\ Harmless(s, r) /\ Same(s, r, {"entry"}) /\ r.entry = v
<1> DEFINE r == [s EXCEPT !.entry = v]
<1>1. IsSched(s)
  BY SchedIs
<1>2. IsSched(r) /\ Same(s, r, {"entry"}) /\ r.entry = v
  BY <1>1 DEF IsSched, Same, SchedFields
<1> HIDE DEF r
<1>3. /\ Same(s, r, Loose) /\ r.pendedTicks = s.pendedTicks /\ r.bits = s.bits /\ r.pendsv = s.pendsv
  BY <1>2 DEF Same, Loose, SchedFields
<1>4. SchedOK(r) /\ Harmless(s, r)
  <2>1. s.pendsv => r.pendsv
    BY <1>3, Zenon
  <2> QED
    BY <1>2, <1>3, <2>1, SchedIs, LooseOK
<1> QED
  BY <1>2, <1>4 DEF r

LEMMA BitsOK ==
  ASSUME NEW s, SchedOK(s), NEW v, v = [t \in Tasks |-> v[t]]
  PROVE  LET r == [s EXCEPT !.bits = v]
         IN  SchedOK(r) /\ Harmless(s, r) /\ Same(s, r, {"bits"}) /\ r.bits = v
<1> DEFINE r == [s EXCEPT !.bits = v]
<1>1. IsSched(s)
  BY SchedIs
<1>2. IsSched(r) /\ Same(s, r, {"bits"}) /\ r.bits = v
  BY <1>1 DEF IsSched, Same, SchedFields
<1> HIDE DEF r
<1>3. /\ Same(s, r, Loose) /\ r.pendedTicks = s.pendedTicks /\ r.entry = s.entry /\ r.pendsv = s.pendsv
  BY <1>2 DEF Same, Loose, SchedFields
<1>4. SchedOK(r) /\ Harmless(s, r)
  <2>1. s.pendsv => r.pendsv
    BY <1>3, Zenon
  <2> QED
    BY <1>2, <1>3, <2>1, SchedIs, LooseOK
<1> QED
  BY <1>2, <1>4 DEF r

LEMMA ResetNextUnblockOK ==
  ASSUME NEW s, SchedOK(s)
  PROVE  LET r == ResetNextUnblock(s)
         IN  SchedOK(r) /\ Harmless(s, r) /\ Same(s, r, {"nextUnblock"})
<1>1. "nextUnblock" \in Loose \ {"pendsv", "pendedTicks", "entry", "bits"}
  BY DEF Loose
<1> DEFINE v == IF s.delayed = << >> THEN Forever ELSE s.wake[Head(s.delayed)]
<1>2. ResetNextUnblock(s) = [s EXCEPT !["nextUnblock"] = v]
  BY DEF ResetNextUnblock
<1> HIDE DEF v
<1> DEFINE r == [s EXCEPT !["nextUnblock"] = v]
<1>3. SchedOK(r) /\ Harmless(s, r) /\ Same(s, r, {"nextUnblock"})
  BY <1>1, TweakOK
<1> QED
  BY <1>2, <1>3

LEMMA YieldPendingOK ==
  ASSUME NEW s, SchedOK(s), NEW v
  PROVE  LET r == [s EXCEPT !.yieldPending = v]
         IN  SchedOK(r) /\ Harmless(s, r) /\ Same(s, r, {"yieldPending"}) /\ r.yieldPending = v
<1>1. "yieldPending" \in Loose \ {"pendsv", "pendedTicks", "entry", "bits"}
  BY DEF Loose
<1> QED
  BY <1>1, TweakOK

LEMMA MissedYieldOK ==
  ASSUME NEW s, SchedOK(s)
  PROVE  SchedOK(MissedYield(s)) /\ Harmless(s, MissedYield(s))
         /\ Same(s, MissedYield(s), {"yieldPending"})
BY YieldPendingOK DEF MissedYield

LEMMA NextTickOK ==
  ASSUME NEW s, SchedOK(s)
  PROVE  LET r == NextTick(s)
         IN  SchedOK(r) /\ Harmless(s, r) /\ Same(s, r, {"tick", "entry"})
<1> DEFINE r == NextTick(s)
<1>1. IsSched(s)
  BY SchedIs
<1>2. IsSched(r)
  BY <1>1 DEF NextTick, IsSched
<1>3. Same(s, r, {"tick", "entry"})
  BY <1>1 DEF NextTick, IsSched, SchedFields, Same
<1>4. r.entry = [t \in Tasks |-> r.entry[t]]
  BY <1>1 DEF NextTick, IsSched, SchedFields
<1> HIDE DEF r
<1>5. /\ Same(s, r, Loose) /\ r.bits = s.bits /\ r.pendedTicks = s.pendedTicks
      /\ r.pendsv = s.pendsv
  BY <1>3 DEF Same, Loose, SchedFields
<1>6. s.pendsv => r.pendsv
  BY <1>5, Zenon
<1>7. SchedOK(r) /\ Harmless(s, r)
  BY <1>2, <1>4, <1>5, <1>6, SchedIs, LooseOK
<1> QED
  BY <1>3, <1>7 DEF r

(* The two delayed lists change places. *)
LEMMA SwitchDelayedListsOK ==
  ASSUME NEW s, SchedOK(s)
  PROVE  LET r == SwitchDelayedLists(s)
         IN  /\ SchedOK(r) /\ Harmless(s, r)
             /\ Same(s, r, {"delayed", "overflow", "entry", "nextUnblock"})
<1> DEFINE e == [t \in Tasks |-> [s.entry[t] EXCEPT !.wrapped = s.entry[t].finite]]
           m == [s EXCEPT !.delayed = s.overflow, !.overflow = s.delayed]
           n == [m EXCEPT !.entry = e]
           r == ResetNextUnblock(n)
<1>0. IsSched(s) /\ WF(s)
  BY SchedIs
<1>1. r = SwitchDelayedLists(s)
  BY <1>0 DEF SwitchDelayedLists, IsSched, SchedFields
<1>2. /\ IsSched(m) /\ m.delayed = s.overflow /\ m.overflow = s.delayed
      /\ Same(s, m, {"delayed", "overflow"})
  BY <1>0 DEF IsSched, SchedFields, Same
<1> HIDE DEF m
<1>3. /\ m.ready = s.ready /\ m.suspended = s.suspended /\ m.terminating = s.terminating
      /\ m.events = s.events /\ m.pendingReady = s.pendingReady /\ m.prio = s.prio
      /\ m.notify = s.notify /\ m.base = s.base /\ m.evValue = s.evValue
      /\ m.current = s.current /\ m.top = s.top /\ m.suspendedAll = s.suspendedAll
      /\ m.entry = s.entry /\ m.bits = s.bits /\ m.pendedTicks = s.pendedTicks
      /\ m.pendsv = s.pendsv
  BY <1>2 DEF Same, SchedFields
<1>4. Shaped(m)
  BY <1>2, <1>3 DEF SchedOK, Shaped, IsSched
<1>5. HasLists(m)
  BY <1>2, <1>3 DEF SchedOK, HasLists
<1>6. OnePlace(m)
  BY <1>2, <1>3 DEF SchedOK, OnePlace, Placed, Dormant, Unlinked
<1>7. IdleReady(m) /\ CurrentApart(m)
  BY <1>3 DEF SchedOK, IdleReady, CurrentApart, Ready
<1>8. SchedOK(m)
  BY <1>4, <1>5, <1>6, <1>7 DEF SchedOK
<1>9. Harmless(s, m)
  <2>1. s.pendsv => m.pendsv
    BY <1>3, Zenon
  <2> QED
    BY <1>2, <1>3, <2>1 DEF Harmless, Mild, Milder, Ready, ListedIn, Dormant
<1>10. e = [t \in Tasks |-> e[t]]
  OBVIOUS
<1> HIDE DEF e
<1>11. SchedOK(n) /\ Harmless(m, n) /\ Same(m, n, {"entry"})
  BY <1>8, <1>10, EntryOK
<1> HIDE DEF n
<1>12. SchedOK(r) /\ Harmless(n, r) /\ Same(n, r, {"nextUnblock"})
  BY <1>11, ResetNextUnblockOK
<1> HIDE DEF r
<1>13. Harmless(s, r)
  BY <1>9, <1>11, <1>12, HarmlessTransitive
<1>14. Same(s, r, {"delayed", "overflow", "entry", "nextUnblock"})
  BY <1>2, <1>11, <1>12 DEF Same
<1> QED
  BY <1>1, <1>12, <1>13, <1>14

(* A list of tasks is woken, one after the other. *)
LEMMA WakeListOK ==
  ASSUME NEW a, SchedOK(a.s), NEW q \in Seq(Tasks)
  PROVE  LET r == WokenAll(a, q).s
         IN  SchedOK(r) /\ Harmless(a.s, r) /\ Same(a.s, r, StateLists \cup {"top", "events", "pendingReady"})
<1> DEFINE Fine(r) == SchedOK(r) /\ Harmless(a.s, r) /\ Same(a.s, r, StateLists \cup {"top", "events", "pendingReady"})
<1>0. Len(q) \in Nat
  OBVIOUS
<1>1. PICK F : /\ F[0] = a /\ F[Len(q)] = WokenAll(a, q)
               /\ \A i \in 1..Len(q) : F[i] = WakeOne(F[i - 1], q[i])
  <2>1. q \in Seq(Tasks)
    OBVIOUS
  <2> QED
    BY ONLY <2>1, WakeFold
<1> DEFINE n == Len(q)
           S == {i \in 0..n : Fine(F[i].s)}
<1>2. 0 \in S
  BY <1>0, <1>1, HarmlessSelf DEF Same
<1>3. ASSUME NEW i \in 1..n, i - 1 \in S PROVE i \in S
  <2> DEFINE b == F[i - 1].s
             r == F[i].s
  <2>0. q[i] \in Tasks /\ F[i] = WakeOne(F[i - 1], q[i])
    BY <1>0, <1>1
  <2>1. r = ToReady(RemoveEvent(b, q[i]), q[i])
    BY <2>0 DEF WakeOne
  <2>2. SchedOK(b) /\ Harmless(a.s, b) /\ Same(a.s, b, StateLists \cup {"top", "events", "pendingReady"})
    BY <1>3
  <2> HIDE DEF b
  <2>3. SchedOK(r) /\ Harmless(b, r) /\ Same(b, r, StateLists \cup {"top", "events", "pendingReady"})
    BY <2>0, <2>1, <2>2, WokenUpOK
  <2>4. Fine(r)
    <3> HIDE DEF r
    <3>1. Harmless(a.s, r)
      BY <2>2, <2>3, HarmlessTransitive
    <3> QED
      BY <2>2, <2>3, <3>1 DEF Same
  <2> QED
    BY <1>0, <2>4
<1>4. n \in Nat /\ n \in 0..n
  BY <1>0
<1> HIDE DEF S
<1>5. \A i \in 0..n : i \in S
  <2> HIDE DEF n
  <2> QED
    BY <1>2, <1>3, <1>4, Upward
<1>6. Fine(F[n].s)
  <2> HIDE DEF n
  <2> QED
    BY <1>4, <1>5 DEF S
<1> QED
  BY <1>1, <1>6

LEMMA ExpiredTasks ==
  ASSUME NEW s, SchedOK(s)
  PROVE  Expired(s) \in Seq(Tasks)
<1>1. s.delayed \in Seq(Tasks) /\ NotLarger(s.delayed, s.wake, s.tick) \in 0..Len(s.delayed)
  BY NotLargerBound DEF SchedOK, HasLists, IsList
<1> QED
  BY <1>1, SubSeqProperties DEF Expired

(* What a tick changes. *)
Ticked == StateLists \cup {"top", "events", "pendingReady", "tick", "entry", "nextUnblock"}

LEMMA IncrementTickOK ==
  ASSUME NEW s, SchedOK(s)
  PROVE  LET r == IncrementTick(s).s
         IN  /\ SchedOK(r) /\ Harmless(s, r)
             /\ s.suspendedAll = 0 => Same(s, r, Ticked)
             /\ s.suspendedAll # 0 => Same(s, r, {"pendedTicks"})
<1> DEFINE ticked == NextTick(s)
           now == IF ticked.tick = 0 THEN SwitchDelayedLists(ticked) ELSE ticked
           woken == WokenAll([s |-> now, yes |-> FALSE], Expired(now))
           after == IF now.tick >= now.nextUnblock THEN ResetNextUnblock(woken.s) ELSE now
           r == IncrementTick(s).s
<1>1. SchedOK(ticked) /\ Harmless(s, ticked) /\ Same(s, ticked, {"tick", "entry"})
  BY NextTickOK
<1>2. r = IF s.suspendedAll = 0 THEN after ELSE [s EXCEPT !.pendedTicks = @ + 1]
  <2>1. CASE now.tick >= now.nextUnblock
    BY <2>1 DEF IncrementTick, WokenAll
  <2>2. CASE ~(now.tick >= now.nextUnblock)
    BY <2>2 DEF IncrementTick, WokenAll
  <2> QED
    BY <2>1, <2>2
<1> HIDE DEF ticked, r
<1>3. SchedOK(now) /\ Harmless(s, now) /\ Same(s, now, {"tick", "entry", "delayed", "overflow", "nextUnblock"})
  <2>1. CASE ticked.tick = 0
    <3>1. SchedOK(now) /\ Harmless(ticked, now) /\ Same(ticked, now, {"delayed", "overflow", "entry", "nextUnblock"})
      BY <1>1, <2>1, SwitchDelayedListsOK
    <3> HIDE DEF now
    <3> QED
      BY <1>1, <3>1, HarmlessTransitive DEF Same
  <2>2. CASE ticked.tick # 0
    BY <1>1, <2>2 DEF Same
  <2> QED
    BY <2>1, <2>2
<1> HIDE DEF now
<1>4. /\ SchedOK(woken.s) /\ Harmless(now, woken.s)
      /\ Same(now, woken.s, StateLists \cup {"top", "events", "pendingReady"})
  <2> DEFINE a == [s |-> now, yes |-> FALSE]
             q == Expired(now)
  <2>1. a.s = now /\ q \in Seq(Tasks)
    BY <1>3, ExpiredTasks
  <2> HIDE DEF a, q
  <2>2. woken = WokenAll(a, q)
    BY DEF a, q
  <2> HIDE DEF woken
  <2> QED
    BY <1>3, <2>1, <2>2, WakeListOK
<1> HIDE DEF woken
<1>5. SchedOK(after) /\ Harmless(s, after) /\ Same(s, after, Ticked)
  <2>1. CASE now.tick >= now.nextUnblock
    <3> DEFINE x == ResetNextUnblock(woken.s)
    <3>1. SchedOK(x) /\ Harmless(woken.s, x) /\ Same(woken.s, x, {"nextUnblock"})
      BY <1>4, ResetNextUnblockOK
    <3> HIDE DEF x
    <3>2. Harmless(s, x)
      BY <1>3, <1>4, <3>1, HarmlessTransitive
    <3>3. Same(s, x, Ticked)
      BY <1>3, <1>4, <3>1 DEF Same, Ticked, StateLists
    <3> QED
      BY <2>1, <3>1, <3>2, <3>3 DEF x
  <2>2. CASE ~(now.tick >= now.nextUnblock)
    BY <1>3, <2>2 DEF Same, Ticked, StateLists
  <2> QED
    BY <2>1, <2>2
<1> HIDE DEF after
<1>6. CASE s.suspendedAll = 0
  BY <1>2, <1>5, <1>6 DEF r
<1>7. CASE s.suspendedAll # 0
  <2>0. s.pendedTicks \in Nat
    BY SchedIs
  <2>1. s.pendedTicks + 1 \in Nat
    BY <2>0
  <2> QED
    BY <1>2, <1>7, <2>1, PendedTicksOK DEF r
<1> QED
  BY <1>6, <1>7 DEF r

----------------------------------------------------------------------------
(* Resuming the scheduler. *)

LEMMA PendedTaskOK ==
  ASSUME NEW s, SchedOK(s), NEW t \in Tasks
  PROVE  LET r == PendedTask(s, t)
         IN  /\ SchedOK(r) /\ Harmless(s, r)
             /\ Same(s, r, StateLists \cup {"top", "events", "pendingReady", "yieldPending"})
             /\ \A u : Contains(r.pendingReady, u) <=> Contains(s.pendingReady, u) /\ u # t
<1> DEFINE m == ToReady(RemoveEvent(s, t), t)
           v == m.yieldPending \/ m.prio[t] >= m.prio[m.current]
           r == [m EXCEPT !.yieldPending = v]
<1>1. r = PendedTask(s, t)
  BY DEF PendedTask
<1>2. /\ SchedOK(m) /\ Harmless(s, m)
      /\ Same(s, m, StateLists \cup {"top", "events", "pendingReady"})
      /\ \A u : Contains(m.pendingReady, u) <=> Contains(s.pendingReady, u) /\ u # t
  BY WokenUpOK
<1> HIDE DEF m, v
<1>3. SchedOK(r) /\ Harmless(m, r) /\ Same(m, r, {"yieldPending"})
  BY <1>2, YieldPendingOK
<1> HIDE DEF r
<1>4. r.pendingReady = m.pendingReady
  BY <1>3 DEF Same, SchedFields
<1>5. Harmless(s, r)
  BY <1>2, <1>3, HarmlessTransitive
<1>6. Same(s, r, StateLists \cup {"top", "events", "pendingReady", "yieldPending"})
  BY <1>2, <1>3 DEF Same
<1> QED
  BY <1>1, <1>2, <1>3, <1>4, <1>5, <1>6

(* All tasks that became ready while the scheduler was suspended. *)
Moved == StateLists \cup {"top", "events", "pendingReady", "yieldPending"}

LEMMA MovedAllOK ==
  ASSUME NEW s, SchedOK(s)
  PROVE  LET r == MovedAll(s, s.pendingReady)
         IN  SchedOK(r) /\ Harmless(s, r) /\ r.pendingReady = << >> /\ Same(s, r, Moved)
<1> DEFINE q == s.pendingReady
           n == Len(q)
<1>0. q \in Seq(Tasks) /\ n \in Nat /\ n \in 0..n
  BY DEF SchedOK, HasLists, IsList
<1>1. PICK F : /\ F[0] = s /\ F[n] = MovedAll(s, q)
               /\ \A i \in 1..n : F[i] = PendedTask(F[i - 1], q[i])
  <2>1. q \in Seq(Tasks)
    BY <1>0
  <2>2. \E F : /\ F[0] = s /\ F[Len(q)] = MovedAll(s, q)
               /\ \A i \in 1..Len(q) : F[i] = PendedTask(F[i - 1], q[i])
    <3> HIDE DEF q, n
    <3> QED
      BY ONLY <2>1, PendedTaskFold
  <2> QED
    BY <2>2
<1> DEFINE Fine(r, i) == /\ SchedOK(r) /\ Harmless(s, r) /\ Same(s, r, Moved)
                         /\ \A u : Contains(r.pendingReady, u) =>
                              Contains(q, u) /\ \A j \in 1..i : q[j] # u
           S == {i \in 0..n : Fine(F[i], i)}
<1>2. 0 \in S
  <2>1. Fine(s, 0)
    BY HarmlessSelf DEF Same
  <2> HIDE DEF Fine
  <2> QED
    BY <1>0, <1>1, <2>1
<1>3. ASSUME NEW i \in 1..n, i - 1 \in S PROVE i \in S
  <2> DEFINE b == F[i - 1]
             r == F[i]
  <2>1. q[i] \in Tasks /\ r = PendedTask(b, q[i])
    BY <1>0, <1>1
  <2>2. /\ SchedOK(b) /\ Harmless(s, b) /\ Same(s, b, Moved)
        /\ \A u : Contains(b.pendingReady, u) =>
                              Contains(q, u) /\ \A j \in 1..(i - 1) : q[j] # u
    BY <1>3
  <2> HIDE DEF b, r
  <2>3. /\ SchedOK(r) /\ Harmless(b, r) /\ Same(b, r, Moved)
        /\ \A u : Contains(r.pendingReady, u) <=> Contains(b.pendingReady, u) /\ u # q[i]
    BY <2>1, <2>2, PendedTaskOK DEF Moved
  <2>4. Harmless(s, r)
    BY <2>2, <2>3, HarmlessTransitive
  <2>5. Same(s, r, Moved)
    BY <2>2, <2>3 DEF Same
  <2>6. \A j \in 1..i : j \in 1..(i - 1) \/ j = i
    BY <1>0
  <2>7. Fine(r, i)
    BY <2>2, <2>3, <2>4, <2>5, <2>6
  <2> HIDE DEF Fine
  <2> QED
    BY <1>0, <2>7 DEF r
<1> HIDE DEF S, Fine
<1>4. \A i \in 0..n : i \in S
  <2> HIDE DEF n
  <2> QED
    BY <1>0, <1>2, <1>3, Upward
<1>5. Fine(F[n], n)
  <2> HIDE DEF n
  <2> QED
    BY <1>0, <1>4 DEF S
<1> DEFINE r == F[n]
<1>6. r.pendingReady = << >>
  <2>1. ASSUME NEW u, Contains(r.pendingReady, u) PROVE FALSE
    <3>1. Contains(q, u) /\ \A j \in 1..n : q[j] # u
      BY <1>5, <2>1 DEF Fine
    <3> QED
      BY <3>1, ContainsDef
  <2>2. IsList(r.pendingReady)
    BY <1>5 DEF Fine, SchedOK, HasLists
  <2> QED
    BY <2>1, <2>2, NonEmptyLists
<1> QED
  BY <1>1, <1>5, <1>6 DEF Fine

LEMMA PendedTickOK ==
  ASSUME NEW s, SchedOK(s), NEW i
  PROVE  LET r == PendedTick(s, i)
         IN  /\ SchedOK(r) /\ Harmless(s, r)
             /\ s.suspendedAll = 0 => Same(s, r, Ticked \cup {"yieldPending"})
<1> DEFINE x == IncrementTick(s)
           m == x.s
           v == m.yieldPending \/ x.yes
           r == [m EXCEPT !.yieldPending = v]
<1>1. r = PendedTick(s, i)
  BY DEF PendedTick
<1>2. SchedOK(m) /\ Harmless(s, m) /\ (s.suspendedAll = 0 => Same(s, m, Ticked))
  BY IncrementTickOK
<1> HIDE DEF m, v
<1>3. SchedOK(r) /\ Harmless(m, r) /\ Same(m, r, {"yieldPending"})
  BY <1>2, YieldPendingOK
<1> HIDE DEF r
<1>4. Harmless(s, r)
  BY <1>2, <1>3, HarmlessTransitive
<1>5. s.suspendedAll = 0 => Same(s, r, Ticked \cup {"yieldPending"})
  BY <1>2, <1>3 DEF Same
<1> QED
  BY <1>1, <1>3, <1>4, <1>5

LEMMA MadeUpOK ==
  ASSUME NEW s, SchedOK(s), s.suspendedAll = 0, NEW m \in Nat
  PROVE  LET r == MadeUp(s, [i \in 1..m |-> i])
         IN  SchedOK(r) /\ Harmless(s, r) /\ Same(s, r, Ticked \cup {"yieldPending"})
<1> DEFINE q == [i \in 1..m |-> i]
           n == Len(q)
<1> DEFINE D == 1..m
<1>0. q \in Seq(D) /\ n \in Nat /\ n \in 0..n
  OBVIOUS
<1> HIDE DEF q, D
<1>1. PICK F : /\ F[0] = s /\ F[n] = MadeUp(s, q)
               /\ \A i \in 1..n : F[i] = PendedTick(F[i - 1], q[i])
  <2>1. q \in Seq(D)
    BY <1>0
  <2>2. \E F : /\ F[0] = s /\ F[Len(q)] = MadeUp(s, q)
               /\ \A i \in 1..Len(q) : F[i] = PendedTick(F[i - 1], q[i])
    <3> HIDE DEF n
    <3> QED
      BY ONLY <2>1, PendedTickFold
  <2> QED
    BY <2>2
<1> DEFINE Fine(r) == SchedOK(r) /\ Harmless(s, r) /\ Same(s, r, Ticked \cup {"yieldPending"})
           S == {i \in 0..n : Fine(F[i])}
<1>2. 0 \in S
  <2>1. Fine(s)
    BY HarmlessSelf DEF Same
  <2> HIDE DEF Fine
  <2> QED
    BY <1>0, <1>1, <2>1
<1>3. ASSUME NEW i \in 1..n, i - 1 \in S PROVE i \in S
  <2> DEFINE b == F[i - 1]
             r == F[i]
  <2>1. r = PendedTick(b, q[i])
    BY <1>0, <1>1
  <2>2. SchedOK(b) /\ Harmless(s, b) /\ Same(s, b, Ticked \cup {"yieldPending"})
    BY <1>3
  <2> HIDE DEF b, r
  <2>3. SchedOK(r) /\ Harmless(b, r) /\ (b.suspendedAll = 0 => Same(b, r, Ticked \cup {"yieldPending"}))
    BY <2>1, <2>2, PendedTickOK
  <2>4. Harmless(s, r)
    BY <2>2, <2>3, HarmlessTransitive
  <2>5. Same(s, r, Ticked \cup {"yieldPending"})
    BY <2>2, <2>3 DEF Same, Harmless
  <2>6. Fine(r)
    BY <2>3, <2>4, <2>5
  <2> HIDE DEF Fine
  <2> QED
    BY <1>0, <2>6 DEF r
<1> HIDE DEF S, Fine
<1>4. \A i \in 0..n : i \in S
  <2> HIDE DEF n
  <2> QED
    BY <1>0, <1>2, <1>3, Upward
<1>5. Fine(F[n])
  <2> HIDE DEF n
  <2> QED
    BY <1>0, <1>4 DEF S
<1> QED
  BY <1>1, <1>5 DEF Fine, q

CaughtUp == StateLists \cup {"top", "events", "pendingReady", "tick", "entry", "nextUnblock",
                             "yieldPending", "pendedTicks"}

LEMMA CatchUpOK ==
  ASSUME NEW s, SchedOK(s), s.suspendedAll = 0
  PROVE  LET r == CatchUp(s)
         IN  SchedOK(r) /\ Harmless(s, r) /\ r.pendingReady = << >> /\ Same(s, r, CaughtUp)
<1> DEFINE moved == MovedAll(s, s.pendingReady)
           reset == IF s.pendingReady = << >> THEN moved ELSE ResetNextUnblock(moved)
           made == MadeUp(reset, [i \in 1..s.pendedTicks |-> i])
           r == [made EXCEPT !.pendedTicks = 0]
<1>1. r = CatchUp(s)
  BY DEF CatchUp, MovedAll, MadeUp
<1>2. SchedOK(moved) /\ Harmless(s, moved) /\ moved.pendingReady = << >> /\ Same(s, moved, Moved)
  BY MovedAllOK
<1> HIDE DEF moved
<1>3. SchedOK(reset) /\ Harmless(s, reset) /\ reset.pendingReady = << >> /\ Same(s, reset, CaughtUp)
  <2>1. CASE s.pendingReady = << >>
    BY <1>2, <2>1 DEF Same, Moved, CaughtUp
  <2>2. CASE s.pendingReady # << >>
    <3> DEFINE x == ResetNextUnblock(moved)
    <3>1. SchedOK(x) /\ Harmless(moved, x) /\ Same(moved, x, {"nextUnblock"})
      BY <1>2, ResetNextUnblockOK
    <3> HIDE DEF x
    <3>2. Harmless(s, x)
      BY <1>2, <3>1, HarmlessTransitive
    <3>3. x.pendingReady = << >>
      BY <1>2, <3>1 DEF Same, SchedFields
    <3>4. Same(s, x, CaughtUp)
      BY <1>2, <3>1 DEF Same, Moved, CaughtUp
    <3> QED
      BY <2>2, <3>1, <3>2, <3>3, <3>4 DEF x
  <2> QED
    BY <2>1, <2>2
<1> HIDE DEF reset
<1>4. SchedOK(made) /\ Harmless(reset, made) /\ Same(reset, made, Ticked \cup {"yieldPending"})
  <2>1. s.pendedTicks \in Nat
    BY SchedIs
  <2>2. reset.suspendedAll = 0
    BY <1>3 DEF Harmless
  <2> QED
    BY <1>3, <2>1, <2>2, MadeUpOK
<1> HIDE DEF made
<1>5. SchedOK(r) /\ Harmless(made, r) /\ Same(made, r, {"pendedTicks"})
  BY <1>4, PendedTicksOK
<1> HIDE DEF r
<1>6. Harmless(s, r)
  BY <1>3, <1>4, <1>5, HarmlessTransitive
<1>7. r.pendingReady = << >>
  <2>1. Harmless(reset, r) /\ reset.suspendedAll = 0
    BY <1>3, <1>4, <1>5, HarmlessTransitive DEF Harmless
  <2> QED
    BY <1>3, <2>1 DEF Harmless
<1>8. Same(s, r, CaughtUp)
  BY <1>3, <1>4, <1>5 DEF Same, Ticked, CaughtUp
<1> QED
  BY <1>1, <1>5, <1>6, <1>7, <1>8

LEMMA SuspendedOK ==
  ASSUME NEW s, SchedOK(s), NEW n \in Nat
  PROVE  LET r == [s EXCEPT !.suspendedAll = n]
         IN  SchedOK(r) /\ Mild(s, r) /\ r.suspendedAll = n /\ Same(s, r, {"suspendedAll"})
<1> DEFINE r == [s EXCEPT !.suspendedAll = n]
<1>1. IsSched(s)
  BY SchedIs
<1>2. IsSched(r) /\ r.suspendedAll = n /\ Same(s, r, {"suspendedAll"})
  BY <1>1 DEF IsSched, SchedFields, Same
<1> HIDE DEF r
<1>3. /\ r.ready = s.ready /\ r.delayed = s.delayed /\ r.overflow = s.overflow
      /\ r.suspended = s.suspended /\ r.terminating = s.terminating /\ r.events = s.events
      /\ r.pendingReady = s.pendingReady /\ r.prio = s.prio /\ r.notify = s.notify
      /\ r.base = s.base /\ r.evValue = s.evValue /\ r.current = s.current /\ r.top = s.top
      /\ r.entry = s.entry /\ r.bits = s.bits /\ r.pendedTicks = s.pendedTicks
  BY <1>2 DEF Same, SchedFields
<1>4. Shaped(r)
  BY <1>2, <1>3 DEF SchedOK, Shaped, IsSched
<1>5. HasLists(r)
  BY <1>3 DEF SchedOK, HasLists
<1>6. OnePlace(r)
  BY <1>3 DEF SchedOK, OnePlace, Placed, Dormant, Unlinked
<1>7. IdleReady(r) /\ CurrentApart(r)
  BY <1>3 DEF SchedOK, IdleReady, CurrentApart, Ready
<1>8. Mild(s, r)
  BY <1>3 DEF Mild, Milder, Ready, ListedIn, Dormant
<1> QED
  BY <1>2, <1>4, <1>5, <1>6, <1>7, <1>8 DEF SchedOK, r

LEMMA SuspendAllOK ==
  ASSUME NEW s, SchedOK(s)
  PROVE  LET r == SuspendAll(s)
         IN  /\ SchedOK(r) /\ Mild(s, r) /\ r.suspendedAll = s.suspendedAll + 1
             /\ Same(s, r, {"suspendedAll"})
<1>1. s.suspendedAll \in Nat
  BY SchedIs
<1>2. s.suspendedAll + 1 \in Nat
  BY <1>1
<1> QED
  BY <1>2, SuspendedOK DEF SuspendAll

(* xTaskResumeAll, by the only one who had suspended the scheduler. *)
LEMMA ResumeAllOK ==
  ASSUME NEW s, SchedOK(s), s.suspendedAll = 1
  PROVE  LET r == ResumeAll(s)
         IN  /\ SchedOK(r) /\ Mild(s, r) /\ r.suspendedAll = 0 /\ r.pendingReady = << >>
             /\ Yielded(r) => r.pendsv
             /\ Same(s, r, CaughtUp \cup {"pendsv", "suspendedAll"})
<1> DEFINE m == [s EXCEPT !.suspendedAll = 0]
           a == CatchUp(m)
           r == YieldIf(a.yieldPending, a)
<1>1. SchedOK(m) /\ Mild(s, m) /\ m.suspendedAll = 0 /\ Same(s, m, {"suspendedAll"})
  BY SuspendedOK
<1>2. r = ResumeAll(s)
  <2>1. [s EXCEPT !.suspendedAll = @ - 1] = m
    <3>1. s.suspendedAll - 1 = 0
      OBVIOUS
    <3> QED
      BY <3>1
  <2> HIDE DEF m
  <2> QED
    BY <1>1, <2>1 DEF ResumeAll
<1> HIDE DEF m
<1>3. SchedOK(a) /\ Harmless(m, a) /\ a.pendingReady = << >> /\ Same(m, a, CaughtUp)
  BY <1>1, CatchUpOK
<1> HIDE DEF a
<1>4. SchedOK(r) /\ Harmless(a, r) /\ Same(a, r, {"pendsv"}) /\ (a.yieldPending => r.pendsv)
  BY <1>3, YieldIfOK
<1> HIDE DEF r
<1>5. r.yieldPending = a.yieldPending /\ r.pendingReady = a.pendingReady
  BY <1>4 DEF Same, SchedFields
<1>6. Mild(s, r)
  BY <1>1, <1>3, <1>4, MildTransitive DEF Harmless
<1>7. r.suspendedAll = 0
  BY <1>1, <1>3, <1>4 DEF Harmless
<1>8. Yielded(r) => r.pendsv
  BY <1>4, <1>5 DEF Yielded
<1>9. Same(s, r, CaughtUp \cup {"pendsv", "suspendedAll"})
  BY <1>1, <1>3, <1>4 DEF Same
<1> QED
  BY <1>2, <1>3, <1>4, <1>5, <1>6, <1>7, <1>8, <1>9

----------------------------------------------------------------------------
(* Putting a task to sleep. *)

(* All but the place of one task is in order, and that one may be linked. *)
Linkable(s, t) ==
  /\ s.notify[t] = "waiting" => Unlinked(s, t)
  /\ \A l \in EventLists : Contains(s.events[l], t) =>
       /\ ~Contains(s.pendingReady, t)
       /\ \A m \in EventLists : Contains(s.events[m], t) => m = l

OKBut(s, t) == WF(s) /\ IdleReady(s) /\ t # Idle /\ \A u \in Tasks \ {t} : Placed(s, u)

LEMMA OthersMilder ==
  ASSUME NEW s, NEW r, NEW t, Others(s, r, t), \A u \in Tasks \ {t} : r.evValue[u] = s.evValue[u],
         \A u \in Tasks \ {t} : Placed(s, u)
  PROVE  \A u \in Tasks \ {t} : Milder(s, r, u)
<1>1. \A u \in Tasks \ {t} : ListedIn(r, u) <=> ListedIn(s, u)
  BY OthersPlaced
<1> QED
  BY <1>1 DEF Others, Milder, AsLinked

LEMMA OKButOthers ==
  ASSUME NEW s, NEW t \in Tasks, OKBut(s, t), NEW r, WF(r), Others(s, r, t)
  PROVE  OKBut(r, t)
<1>1. \A u \in Tasks \ {t} : Placed(r, u)
  BY OthersPlaced DEF OKBut
<1>2. IdleReady(r)
  BY Zero DEF OKBut, IdleReady, Others, AsListed
<1> QED
  BY <1>1, <1>2 DEF OKBut

LEMMA OKButPlaced ==
  ASSUME NEW s, NEW t \in Tasks, OKBut(s, t), Placed(s, t), CurrentApart(s)
  PROVE  SchedOK(s)
BY DEF OKBut, SchedOK, OnePlace, WF

LEMMA SchedOKBut ==
  ASSUME NEW s, SchedOK(s), NEW t \in Tasks \ {Idle}
  PROVE  OKBut(s, t) /\ Placed(s, t) /\ CurrentApart(s) /\ Linkable(s, t)
BY DEF OKBut, SchedOK, OnePlace, WF, Placed, Linkable

(* prvAddCurrentTaskToDelayedList. *)
LEMMA AddCurrentToDelayedOK ==
  ASSUME NEW s, OKBut(s, s.current), Linkable(s, s.current), NEW ticks, NEW indefinitely
  PROVE  LET r == AddCurrentToDelayed(s, ticks, indefinitely)
         IN  /\ SchedOK(r) /\ Others(s, r, s.current) /\ Dormant(r, s.current)
             /\ AsLinked(s, r, s.current)
             /\ Same(s, r, StateLists \cup {"nextUnblock"})
<1> DEFINE c == s.current
           wake == TickAfter(s.tick, ticks)
           m == RemoveState(s, c)
           n == [m EXCEPT !.wake[c] = wake]
           r == AddCurrentToDelayed(s, ticks, indefinitely)
           forever == [m EXCEPT !.suspended = Append(@, c)]
           later == [n EXCEPT !.overflow = InsertSorted(@, c, n.wake)]
           soon == [n EXCEPT !.delayed = InsertSorted(@, c, n.wake),
                             !.nextUnblock = IF wake < @ THEN wake ELSE @]
<1>1. c \in Tasks /\ WF(s)
  BY WFParts DEF OKBut
<1>2. /\ WF(m) /\ Others(s, m, c) /\ Away(m, c) /\ AsLinked(s, m, c) /\ Same(s, m, StateLists)
  BY <1>1, RemoveStateWF
<1>3. r = forever \/ r = later \/ r = soon
  BY DEF AddCurrentToDelayed
<1> HIDE DEF m, r, wake
<1>4. IsSched(m)
  BY <1>2, WFParts
<1>5. /\ IsSched(n) /\ Same(m, n, {"wake"})
  BY <1>4 DEF IsSched, SchedFields, Same
<1>6. /\ IsSched(forever) /\ Same(m, forever, {"suspended"})
      /\ forever.suspended = Append(m.suspended, c)
  BY <1>4 DEF IsSched, SchedFields, Same
<1> HIDE DEF n
<1>7. /\ IsSched(later) /\ Same(n, later, {"overflow"})
      /\ later.overflow = InsertSorted(n.overflow, c, n.wake)
  BY <1>5 DEF IsSched, SchedFields, Same
<1>8. /\ IsSched(soon) /\ Same(n, soon, {"delayed", "nextUnblock"})
      /\ soon.delayed = InsertSorted(n.delayed, c, n.wake)
  BY <1>5 DEF IsSched, SchedFields, Same
<1> HIDE DEF forever, later, soon
<1>9. /\ \A y : Contains(Append(m.suspended, c), y) <=> Contains(m.suspended, y) \/ y = c
      /\ IsList(Append(m.suspended, c))
  BY <1>1, <1>2, WFParts, AppendList DEF Away, Dormant
<1>10. /\ \A y : Contains(InsertSorted(m.overflow, c, n.wake), y) <=> Contains(m.overflow, y) \/ y = c
       /\ IsList(InsertSorted(m.overflow, c, n.wake))
  BY <1>1, <1>2, WFParts, SortedList DEF Away, Dormant
<1>11. /\ \A y : Contains(InsertSorted(m.delayed, c, n.wake), y) <=> Contains(m.delayed, y) \/ y = c
       /\ IsList(InsertSorted(m.delayed, c, n.wake))
  BY <1>1, <1>2, WFParts, SortedList DEF Away, Dormant
<1>12. /\ IsSched(r) /\ Same(m, r, {"suspended", "overflow", "delayed", "wake", "nextUnblock"})
       /\ \/ /\ r.suspended = Append(m.suspended, c)
             /\ r.overflow = m.overflow /\ r.delayed = m.delayed
          \/ /\ r.overflow = InsertSorted(m.overflow, c, n.wake)
             /\ r.suspended = m.suspended /\ r.delayed = m.delayed
          \/ /\ r.delayed = InsertSorted(m.delayed, c, n.wake)
             /\ r.suspended = m.suspended /\ r.overflow = m.overflow
  <2>1. CASE r = forever
    BY <2>1, <1>6 DEF Same, SchedFields
  <2>2. CASE r = later
    BY <2>2, <1>5, <1>7 DEF Same, SchedFields
  <2>3. CASE r = soon
    BY <2>3, <1>5, <1>8 DEF Same, SchedFields
  <2> QED
    BY <1>3, <2>1, <2>2, <2>3
<1>13. /\ r.ready = m.ready /\ r.terminating = m.terminating /\ r.events = m.events
       /\ r.pendingReady = m.pendingReady /\ r.prio = m.prio /\ r.notify = m.notify
       /\ r.base = m.base /\ r.evValue = m.evValue /\ r.current = m.current /\ r.top = m.top
       /\ r.entry = m.entry /\ r.bits = m.bits /\ r.pendedTicks = m.pendedTicks
       /\ r.suspendedAll = m.suspendedAll
  BY <1>12 DEF Same, SchedFields
<1>14. /\ IsList(r.suspended) /\ IsList(r.overflow) /\ IsList(r.delayed)
       /\ \A u \in Tasks \ {c} : /\ Contains(r.suspended, u) <=> Contains(m.suspended, u)
                                 /\ Contains(r.overflow, u) <=> Contains(m.overflow, u)
                                 /\ Contains(r.delayed, u) <=> Contains(m.delayed, u)
       /\ Dormant(r, c)
       /\ Contains(r.delayed, c) => ~Contains(r.overflow, c) /\ ~Contains(r.suspended, c)
       /\ Contains(r.overflow, c) => ~Contains(r.suspended, c)
  BY <1>2, <1>9, <1>10, <1>11, <1>12, WFParts DEF Away, Dormant
<1>15. WF(r)
  <2>1. Shaped(r)
    BY <1>2, <1>12, <1>13 DEF WF, Shaped, IsSched
  <2>2. HasLists(r)
    BY <1>2, <1>13, <1>14 DEF WF, HasLists
  <2> QED
    BY <2>1, <2>2 DEF WF
<1>16. Others(m, r, c)
  BY <1>13, <1>14 DEF Others, AsListed, AsLinked
<1>17. Others(s, r, c)
  BY <1>2, <1>16, OthersTransitive
<1>18. OKBut(r, c)
  BY <1>1, <1>15, <1>17, OKButOthers
<1>19. AsLinked(s, r, c)
  BY <1>2, <1>13 DEF AsLinked
<1>20. /\ \A p \in Priorities : ~Contains(r.ready[p].items, c)
       /\ ~Contains(r.terminating, c)
  BY <1>2, <1>13 DEF Away
<1>21. r.notify = s.notify /\ r.current = c
  BY <1>2, <1>13 DEF Same, StateLists, SchedFields
<1>22. Placed(r, c)
  <2>1. r.notify[c] = "waiting" => Unlinked(r, c)
    BY <1>19, <1>21 DEF Linkable, AsLinked, Unlinked
  <2>2. \A l \in EventLists : Contains(r.events[l], c) =>
       /\ ~Contains(r.pendingReady, c)
       /\ \A k \in EventLists : Contains(r.events[k], c) => k = l
    BY <1>19 DEF Linkable, AsLinked
  <2> QED
    BY <1>14, <1>20, <2>1, <2>2 DEF Placed
<1>23. CurrentApart(r)
  <2>1. r.prio[c] \in Priorities
    BY <1>1, <1>15, WFParts
  <2> QED
    BY <1>20, <1>21, <2>1 DEF CurrentApart, Ready
<1>24. SchedOK(r)
  BY <1>1, <1>18, <1>22, <1>23, OKButPlaced
<1>25. Same(s, r, StateLists \cup {"nextUnblock"})
  BY <1>2, <1>12 DEF Same, StateLists
<1> QED
  BY <1>14, <1>17, <1>19, <1>24, <1>25 DEF r, c

(* m is s after t has been put into the event list l, which is q then. *)
Links(s, m, t, l, q) ==
  /\ IsSched(m) /\ IsList(q)
  /\ \A y : Contains(q, y) <=> Contains(s.events[l], y) \/ y = t
  /\ m.events = [s.events EXCEPT ![l] = q]
  /\ Same(s, m, {"events", "evValue", "bits"})
  /\ m.evValue = [u \in Tasks |-> m.evValue[u]] /\ m.bits = [u \in Tasks |-> m.bits[u]]
  /\ \A u \in Tasks \ {t} : m.evValue[u] = s.evValue[u]

OnlyIn(r, t, l) == \A k \in EventLists : Contains(r.events[k], t) <=> k = l

(* A task that waits for nothing is put into an event list. *)
LEMMA LinkedOK ==
  ASSUME NEW s, SchedOK(s), NEW t \in Tasks \ {Idle}, Unlinked(s, t), s.notify[t] # "waiting",
         NEW l \in EventLists, NEW q, NEW m, Links(s, m, t, l, q)
  PROVE  OKBut(m, t) /\ Linkable(m, t) /\ Others(s, m, t) /\ OnlyIn(m, t, l)
<1>0. /\ IsSched(m) /\ IsList(q)
      /\ \A y : Contains(q, y) <=> Contains(s.events[l], y) \/ y = t
      /\ m.events = [s.events EXCEPT ![l] = q]
      /\ Same(s, m, {"events", "evValue", "bits"})
      /\ m.evValue = [u \in Tasks |-> m.evValue[u]] /\ m.bits = [u \in Tasks |-> m.bits[u]]
  BY DEF Links
<1>1. /\ m.ready = s.ready /\ m.terminating = s.terminating
      /\ m.delayed = s.delayed /\ m.overflow = s.overflow /\ m.suspended = s.suspended
      /\ m.pendingReady = s.pendingReady /\ m.prio = s.prio /\ m.notify = s.notify
      /\ m.base = s.base /\ m.current = s.current /\ m.top = s.top
      /\ m.entry = s.entry /\ m.pendedTicks = s.pendedTicks
      /\ m.suspendedAll = s.suspendedAll
  BY <1>0 DEF Same, SchedFields
<1>2. /\ s.events = [k \in EventLists |-> s.events[k]]
      /\ m.events = [k \in EventLists |-> m.events[k]]
      /\ m.events[l] = q /\ \A k \in EventLists : k # l => m.events[k] = s.events[k]
  BY <1>0 DEF SchedOK, Shaped
<1>3. Shaped(m)
  BY <1>0, <1>1, <1>2 DEF SchedOK, Shaped, IsSched
<1>4. HasLists(m)
  BY <1>0, <1>1, <1>2 DEF SchedOK, HasLists
<1>5. WF(m)
  BY <1>3, <1>4 DEF WF
<1>6. \A u \in Tasks \ {t} : \A k \in EventLists : Contains(m.events[k], u) <=> Contains(s.events[k], u)
  BY <1>0, <1>2
<1>7. Others(s, m, t)
  BY <1>1, <1>6 DEF Others, AsListed, AsLinked
<1>8. \A k \in EventLists : Contains(m.events[k], t) <=> k = l
  BY <1>0, <1>2 DEF Unlinked
<1>9. OKBut(m, t)
  BY <1>5, <1>7, SchedOKBut, OKButOthers
<1>10. Linkable(m, t)
  BY <1>1, <1>8 DEF Linkable, Unlinked
<1> QED
  BY <1>7, <1>8, <1>9, <1>10 DEF OnlyIn

(* What the current task leaves behind when it goes to wait. *)
Leaves(s, r) ==
  /\ SchedOK(r) /\ r.current = s.current /\ r.suspendedAll = s.suspendedAll /\ Dormant(r, r.current)
  /\ r.pendingReady = s.pendingReady /\ r.pendsv = s.pendsv /\ r.notify = s.notify
  /\ \A u \in Tasks \ {s.current} : Milder(s, r, u)

(* The current task may wait. *)
MayWait(s) == s.current # Idle /\ Unlinked(s, s.current)

LEMMA DelayLeaves ==
  ASSUME NEW s, SchedOK(s), s.current # Idle, NEW ticks, NEW indefinitely
  PROVE  LET r == AddCurrentToDelayed(s, ticks, indefinitely)
         IN  /\ Leaves(s, r) /\ r.evValue = s.evValue /\ AsLinked(s, r, s.current)
             /\ Same(s, r, StateLists \cup {"nextUnblock"})
<1> DEFINE r == AddCurrentToDelayed(s, ticks, indefinitely)
<1>1. s.current \in Tasks \ {Idle}
  BY SchedIs
<1>2. OKBut(s, s.current) /\ Linkable(s, s.current)
  BY <1>1, SchedOKBut
<1>3. /\ SchedOK(r) /\ Others(s, r, s.current) /\ Dormant(r, s.current)
      /\ AsLinked(s, r, s.current) /\ Same(s, r, StateLists \cup {"nextUnblock"})
  BY <1>2, AddCurrentToDelayedOK
<1> HIDE DEF r
<1>4. /\ r.current = s.current /\ r.suspendedAll = s.suspendedAll /\ r.pendingReady = s.pendingReady
      /\ r.pendsv = s.pendsv /\ r.notify = s.notify /\ r.evValue = s.evValue
  BY <1>3 DEF Same, StateLists, SchedFields
<1>5. \A u \in Tasks \ {s.current} : Milder(s, r, u)
  BY <1>2, <1>3, <1>4, OthersMilder DEF OKBut
<1> QED
  BY <1>3, <1>4, <1>5 DEF Leaves, r

(* The current task waits in an event list, and for a time. *)
WentToWait(s, m, l, r) ==
  /\ Leaves(s, r) /\ r.evValue = m.evValue /\ OnlyIn(r, s.current, l)
  /\ Same(s, r, StateLists \cup {"nextUnblock", "events", "evValue", "bits"})
  /\ r.bits = m.bits /\ r.events = m.events

LEMMA LinkedLeaves ==
  ASSUME NEW s, SchedOK(s), MayWait(s), s.notify[s.current] # "waiting",
         NEW l \in EventLists, NEW q, NEW m, Links(s, m, s.current, l, q),
         NEW ticks, NEW indefinitely
  PROVE  WentToWait(s, m, l, AddCurrentToDelayed(m, ticks, indefinitely))
<1> DEFINE r == AddCurrentToDelayed(m, ticks, indefinitely)
           c == s.current
<1>1. c \in Tasks \ {Idle} /\ Unlinked(s, c)
  BY SchedIs DEF MayWait
<1>2. /\ OKBut(m, c) /\ Linkable(m, c) /\ Others(s, m, c)
      /\ OnlyIn(m, c, l)
  BY <1>1, LinkedOK
<1>3. m.current = c /\ Same(s, m, {"events", "evValue", "bits"})
      /\ \A u \in Tasks \ {c} : m.evValue[u] = s.evValue[u]
  BY DEF Links, Same, SchedFields
<1>4. /\ SchedOK(r) /\ Others(m, r, c) /\ Dormant(r, c) /\ AsLinked(m, r, c)
      /\ Same(m, r, StateLists \cup {"nextUnblock"})
  BY <1>2, <1>3, AddCurrentToDelayedOK
<1> HIDE DEF r
<1>5. /\ r.current = c /\ r.suspendedAll = s.suspendedAll /\ r.pendingReady = s.pendingReady
      /\ r.pendsv = s.pendsv /\ r.notify = s.notify /\ r.evValue = m.evValue
      /\ r.bits = m.bits /\ r.events = m.events
  BY <1>3, <1>4 DEF Same, StateLists, SchedFields
<1>6. Others(s, r, c)
  BY <1>2, <1>4, OthersTransitive
<1>7. \A u \in Tasks \ {c} : Milder(s, r, u)
  <2>1. \A u \in Tasks \ {c} : Placed(s, u)
    BY <1>1, SchedOKBut DEF OKBut
  <2> QED
    BY <1>3, <1>5, <1>6, <2>1, OthersMilder
<1>8. OnlyIn(r, c, l)
  BY <1>2, <1>4 DEF AsLinked, OnlyIn
<1>9. Same(s, r, StateLists \cup {"nextUnblock", "events", "evValue", "bits"})
  BY <1>3, <1>4 DEF Same
<1> QED
  BY <1>4, <1>5, <1>7, <1>8, <1>9 DEF Leaves, WentToWait, r

LEMMA PlaceOnEventListOK ==
  ASSUME NEW s, SchedOK(s), MayWait(s), s.notify[s.current] # "waiting",
         NEW l \in EventLists, NEW ticks
  PROVE  LET r == PlaceOnEventList(s, l, ticks)
         IN  /\ Leaves(s, r) /\ r.evValue = s.evValue
             /\ OnlyIn(r, s.current, l)
             /\ Same(s, r, StateLists \cup {"nextUnblock", "events"})
<1> DEFINE q == InsertSorted(s.events[l], s.current, s.evValue)
           m == [s EXCEPT !.events[l] = q]
           r == AddCurrentToDelayed(m, ticks, TRUE)
<1>1. r = PlaceOnEventList(s, l, ticks)
  BY DEF PlaceOnEventList
<1>2. /\ IsList(q) /\ \A y : Contains(q, y) <=> Contains(s.events[l], y) \/ y = s.current
  BY SchedIs, WFParts, SortedList DEF MayWait, Unlinked
<1> HIDE DEF q
<1>3. IsSched(s) /\ s.evValue = [u \in Tasks |-> s.evValue[u]] /\ s.bits = [u \in Tasks |-> s.bits[u]]
  BY SchedIs DEF SchedOK, Shaped
<1>4. /\ IsSched(m) /\ m.events = [s.events EXCEPT ![l] = q] /\ Same(s, m, {"events"})
  BY <1>3 DEF IsSched, SchedFields, Same
<1> HIDE DEF m
<1>5. m.evValue = s.evValue /\ m.bits = s.bits /\ Same(s, m, {"events", "evValue", "bits"})
  BY <1>4 DEF Same, SchedFields
<1>l. Links(s, m, s.current, l, q)
  BY <1>2, <1>3, <1>4, <1>5 DEF Links
<1>6. /\ Leaves(s, r) /\ r.evValue = m.evValue
      /\ OnlyIn(r, s.current, l)
      /\ Same(s, r, StateLists \cup {"nextUnblock", "events", "evValue", "bits"})
      /\ r.bits = m.bits /\ r.events = m.events
  <2>1. WentToWait(s, m, l, r)
    BY <1>l, LinkedLeaves
  <2> QED
    BY <2>1 DEF WentToWait
<1> HIDE DEF r
<1>7. Same(s, r, StateLists \cup {"nextUnblock", "events"})
  BY <1>5, <1>6 DEF Same
<1> QED
  BY <1>1, <1>5, <1>6, <1>7

LEMMA PlaceOnUnorderedOK ==
  ASSUME NEW s, SchedOK(s), MayWait(s), s.notify[s.current] # "waiting",
         NEW l \in EventLists, NEW wanted, NEW ticks
  PROVE  LET r == PlaceOnUnordered(s, l, wanted, ticks)
         IN  /\ Leaves(s, r)
             /\ OnlyIn(r, s.current, l)
             /\ r.bits = [s.bits EXCEPT ![s.current] = [wanted EXCEPT !.inUse = TRUE]]
             /\ r.events = [s.events EXCEPT ![l] = Append(@, s.current)]
<1> DEFINE q == Append(s.events[l], s.current)
           w == [wanted EXCEPT !.inUse = TRUE]
           m == [s EXCEPT !.bits[s.current] = w, !.evValue[s.current] = 0,
                          !.events[l] = q]
           r == AddCurrentToDelayed(m, ticks, TRUE)
<1>0. IsSched(s)
  BY SchedIs
<1>1. r = PlaceOnUnordered(s, l, wanted, ticks)
  BY <1>0 DEF PlaceOnUnordered, IsSched, SchedFields
<1>2. /\ IsList(q) /\ \A y : Contains(q, y) <=> Contains(s.events[l], y) \/ y = s.current
  BY SchedIs, WFParts, AppendList DEF MayWait, Unlinked
<1>q. q = Append(s.events[l], s.current)
  OBVIOUS
<1> HIDE DEF q
<1>3. s.evValue = [u \in Tasks |-> s.evValue[u]] /\ s.bits = [u \in Tasks |-> s.bits[u]]
      /\ s.current \in Tasks
  BY SchedIs DEF SchedOK, Shaped
<1> HIDE DEF w
<1>4. /\ IsSched(m) /\ m.events = [s.events EXCEPT ![l] = q]
      /\ Same(s, m, {"events", "evValue", "bits"})
      /\ m.evValue = [s.evValue EXCEPT ![s.current] = 0]
      /\ m.bits = [s.bits EXCEPT ![s.current] = w]
  BY <1>0 DEF IsSched, SchedFields, Same
<1> HIDE DEF m
<1>5. /\ m.evValue = [u \in Tasks |-> m.evValue[u]] /\ m.bits = [u \in Tasks |-> m.bits[u]]
      /\ \A u \in Tasks \ {s.current} : m.evValue[u] = s.evValue[u]
  BY <1>3, <1>4
<1>l. Links(s, m, s.current, l, q)
  BY <1>2, <1>3, <1>4, <1>5 DEF Links
<1>6. /\ Leaves(s, r) /\ r.evValue = m.evValue
      /\ OnlyIn(r, s.current, l)
      /\ Same(s, r, StateLists \cup {"nextUnblock", "events", "evValue", "bits"})
      /\ r.bits = m.bits /\ r.events = m.events
  <2>1. WentToWait(s, m, l, r)
    BY <1>l, LinkedLeaves
  <2> QED
    BY <2>1 DEF WentToWait
<1> HIDE DEF r
<1> QED
  BY <1>1, <1>4, <1>6, <1>q DEF w

LEMMA PlaceRestrictedOK ==
  ASSUME NEW s, SchedOK(s), MayWait(s), s.notify[s.current] # "waiting",
         NEW l \in EventLists, NEW ticks, NEW indefinitely
  PROVE  LET r == PlaceRestricted(s, l, ticks, indefinitely)
         IN  /\ Leaves(s, r) /\ r.evValue = s.evValue
             /\ OnlyIn(r, s.current, l)
             /\ Same(s, r, StateLists \cup {"nextUnblock", "events"})
<1> DEFINE q == Append(s.events[l], s.current)
           m == [s EXCEPT !.events[l] = q]
           t == IF indefinitely THEN Forever ELSE ticks
           r == AddCurrentToDelayed(m, t, indefinitely)
<1>1. r = PlaceRestricted(s, l, ticks, indefinitely)
  BY DEF PlaceRestricted
<1>2. /\ IsList(q) /\ \A y : Contains(q, y) <=> Contains(s.events[l], y) \/ y = s.current
  BY SchedIs, WFParts, AppendList DEF MayWait, Unlinked
<1> HIDE DEF q, t
<1>3. IsSched(s) /\ s.evValue = [u \in Tasks |-> s.evValue[u]] /\ s.bits = [u \in Tasks |-> s.bits[u]]
  BY SchedIs DEF SchedOK, Shaped
<1>4. /\ IsSched(m) /\ m.events = [s.events EXCEPT ![l] = q] /\ Same(s, m, {"events"})
  BY <1>3 DEF IsSched, SchedFields, Same
<1> HIDE DEF m
<1>5. m.evValue = s.evValue /\ m.bits = s.bits /\ Same(s, m, {"events", "evValue", "bits"})
  BY <1>4 DEF Same, SchedFields
<1>l. Links(s, m, s.current, l, q)
  BY <1>2, <1>3, <1>4, <1>5 DEF Links
<1>6. /\ Leaves(s, r) /\ r.evValue = m.evValue
      /\ OnlyIn(r, s.current, l)
      /\ Same(s, r, StateLists \cup {"nextUnblock", "events", "evValue", "bits"})
      /\ r.bits = m.bits /\ r.events = m.events
  <2>1. WentToWait(s, m, l, r)
    BY <1>l, LinkedLeaves
  <2> QED
    BY <2>1 DEF WentToWait
<1> HIDE DEF r
<1>7. Same(s, r, StateLists \cup {"nextUnblock", "events"})
  BY <1>5, <1>6 DEF Same
<1> QED
  BY <1>1, <1>5, <1>6, <1>7

----------------------------------------------------------------------------
(* Waking tasks. *)

(* What wakes tasks changes at most this. *)
Woke == StateLists \cup {"top", "events", "pendingReady", "nextUnblock", "yieldPending", "pendsv"}

(* The notification state and the value of an event item. *)
LEMMA NotifyOK ==
  ASSUME NEW s, SchedOK(s), NEW r, IsSched(r), Same(s, r, {"notify", "value", "evValue", "held", "base"}),
         r.notify = [t \in Tasks |-> r.notify[t]], r.evValue = [t \in Tasks |-> r.evValue[t]],
         r.base \in [Tasks -> Priorities],
         \A t \in Tasks : r.notify[t] = "waiting" => s.notify[t] = "waiting",
         \A t \in Tasks : r.evValue[t] = s.evValue[t] \/ r.evValue[t] \in 1..MaxPriorities
  PROVE  SchedOK(r) /\ Harmless(s, r)
<1>1. /\ r.ready = s.ready /\ r.delayed = s.delayed /\ r.overflow = s.overflow
      /\ r.suspended = s.suspended /\ r.terminating = s.terminating /\ r.events = s.events
      /\ r.pendingReady = s.pendingReady /\ r.prio = s.prio
      /\ r.current = s.current /\ r.top = s.top
      /\ r.suspendedAll = s.suspendedAll /\ r.entry = s.entry /\ r.bits = s.bits
      /\ r.pendedTicks = s.pendedTicks /\ r.pendsv = s.pendsv
  BY DEF Same, SchedFields
<1>2. Shaped(r)
  BY <1>1 DEF SchedOK, Shaped, IsSched
<1>3. HasLists(r)
  BY <1>1 DEF SchedOK, HasLists
<1>4. OnePlace(r)
  BY <1>1 DEF SchedOK, OnePlace, Placed, Dormant, Unlinked
<1>5. IdleReady(r) /\ CurrentApart(r)
  BY <1>1 DEF SchedOK, IdleReady, CurrentApart, Ready
<1>6. s.pendsv => r.pendsv
  BY <1>1, Zenon
<1>7. Harmless(s, r)
  BY <1>1, <1>6 DEF Harmless, Mild, Milder, Ready, ListedIn, Dormant
<1> QED
  BY <1>2, <1>3, <1>4, <1>5, <1>7 DEF SchedOK

LEMMA UnnotifiedOK ==
  ASSUME NEW s, SchedOK(s), NEW t, NEW v, v # "waiting"
  PROVE  LET r == [s EXCEPT !.notify[t] = v]
         IN  SchedOK(r) /\ Harmless(s, r) /\ Same(s, r, {"notify"})
<1> DEFINE r == [s EXCEPT !.notify[t] = v]
<1>1. /\ IsSched(s) /\ s.notify = [u \in Tasks |-> s.notify[u]]
      /\ s.evValue = [u \in Tasks |-> s.evValue[u]] /\ s.base \in [Tasks -> Priorities]
  BY SchedIs DEF SchedOK, Shaped
<1>2. /\ IsSched(r) /\ Same(s, r, {"notify"}) /\ r.notify = [s.notify EXCEPT ![t] = v]
  BY <1>1 DEF IsSched, SchedFields, Same
<1> HIDE DEF r
<1>3. r.evValue = s.evValue /\ Same(s, r, {"notify", "value", "evValue", "held", "base"})
      /\ r.base = s.base
  BY <1>2 DEF Same, SchedFields
<1>4. /\ r.notify = [u \in Tasks |-> r.notify[u]]
      /\ \A u \in Tasks : r.notify[u] = "waiting" => s.notify[u] = "waiting"
  BY <1>1, <1>2
<1>5. SchedOK(r) /\ Harmless(s, r)
  BY <1>1, <1>2, <1>3, <1>4, NotifyOK
<1> QED
  BY <1>2, <1>5 DEF r

LEMMA EvValueOK ==
  ASSUME NEW s, SchedOK(s), NEW t \in Tasks, NEW v \in 1..MaxPriorities
  PROVE  LET r == [s EXCEPT !.evValue[t] = v]
         IN  SchedOK(r) /\ Harmless(s, r) /\ Same(s, r, {"evValue"})
<1> DEFINE r == [s EXCEPT !.evValue[t] = v]
<1>1. /\ IsSched(s) /\ s.notify = [u \in Tasks |-> s.notify[u]]
      /\ s.evValue = [u \in Tasks |-> s.evValue[u]] /\ s.base \in [Tasks -> Priorities]
  BY SchedIs DEF SchedOK, Shaped
<1>2. /\ IsSched(r) /\ Same(s, r, {"evValue"}) /\ r.evValue = [s.evValue EXCEPT ![t] = v]
  BY <1>1 DEF IsSched, SchedFields, Same
<1> HIDE DEF r
<1>3. r.notify = s.notify /\ Same(s, r, {"notify", "value", "evValue", "held", "base"})
      /\ r.base = s.base
  BY <1>2 DEF Same, SchedFields
<1>4. /\ r.evValue = [u \in Tasks |-> r.evValue[u]]
      /\ \A u \in Tasks : r.evValue[u] = s.evValue[u] \/ r.evValue[u] \in 1..MaxPriorities
  BY <1>1, <1>2
<1>5. SchedOK(r) /\ Harmless(s, r)
  BY <1>1, <1>2, <1>3, <1>4, NotifyOK
<1> QED
  BY <1>2, <1>5 DEF r

LEMMA RemoveEventOK ==
  ASSUME NEW s, SchedOK(s), NEW t \in Tasks
  PROVE  LET r == RemoveEvent(s, t)
         IN  /\ SchedOK(r) /\ Harmless(s, r) /\ Unlinked(r, t) /\ AsListed(s, r, t) /\ Others(s, r, t)
             /\ Same(s, r, {"events", "pendingReady"})
             /\ \A l \in EventLists : \A u : Contains(r.events[l], u) <=> Contains(s.events[l], u) /\ u # t
<1> DEFINE r == RemoveEvent(s, t)
<1>0. WF(s) /\ Placed(s, t)
  BY DEF SchedOK, WF, OnePlace
<1>1. /\ WF(r) /\ Others(s, r, t) /\ Unlinked(r, t) /\ AsListed(s, r, t)
      /\ Same(s, r, {"events", "pendingReady"})
      /\ \A l \in EventLists : \A u : Contains(r.events[l], u) <=> Contains(s.events[l], u) /\ u # t
      /\ \A u : Contains(r.pendingReady, u) <=> Contains(s.pendingReady, u) /\ u # t
  BY <1>0, RemoveEventWF
<1> HIDE DEF r
<1>2. /\ r.current = s.current /\ r.suspendedAll = s.suspendedAll /\ r.notify = s.notify
      /\ r.evValue = s.evValue /\ r.prio = s.prio /\ r.pendsv = s.pendsv /\ r.ready = s.ready
      /\ r.delayed = s.delayed /\ r.overflow = s.overflow /\ r.suspended = s.suspended
      /\ r.terminating = s.terminating
  BY <1>1 DEF Same, SchedFields
<1>3. Placed(r, t)
  BY <1>0, <1>1, <1>2 DEF Placed, Dormant, Unlinked
<1>4. OnePlace(r)
  BY <1>1, <1>3, OnePlaceKept DEF SchedOK
<1>5. IdleReady(r) /\ CurrentApart(r)
  BY <1>1, <1>2 DEF SchedOK, IdleReady, CurrentApart, Ready
<1>6. Mild(s, r)
  BY <1>1, <1>2 DEF Mild, Milder, Ready, ListedIn, Dormant
<1>7. s.pendingReady = << >> => r.pendingReady = << >>
  BY <1>0, <1>1, WFParts, NonEmptyLists, EmptyLists
<1>8. s.pendsv => r.pendsv
  BY <1>2, Zenon
<1> QED
  BY <1>1, <1>2, <1>4, <1>5, <1>6, <1>7, <1>8 DEF SchedOK, WF, Harmless, r

(* A task becomes ready while the scheduler is suspended. *)
LEMMA PendOK ==
  ASSUME NEW s, SchedOK(s), NEW t \in Tasks, Unlinked(s, t), s.notify[t] # "waiting",
         s.suspendedAll # 0, t = s.current => ~Ready(s, t)
  PROVE  LET r == [s EXCEPT !.pendingReady = Append(@, t)]
         IN  SchedOK(r) /\ Harmless(s, r) /\ Same(s, r, {"pendingReady"})
<1> DEFINE r == [s EXCEPT !.pendingReady = Append(@, t)]
<1>0. IsSched(s) /\ WF(s) /\ Placed(s, t)
  BY SchedIs DEF SchedOK, OnePlace
<1>1. IsSched(r) /\ Same(s, r, {"pendingReady"}) /\ r.pendingReady = Append(s.pendingReady, t)
  BY <1>0 DEF IsSched, SchedFields, Same
<1> HIDE DEF r
<1>2. /\ r.ready = s.ready /\ r.delayed = s.delayed /\ r.overflow = s.overflow
      /\ r.suspended = s.suspended /\ r.terminating = s.terminating /\ r.events = s.events
      /\ r.prio = s.prio /\ r.notify = s.notify /\ r.base = s.base /\ r.evValue = s.evValue
      /\ r.current = s.current /\ r.top = s.top
      /\ r.suspendedAll = s.suspendedAll /\ r.entry = s.entry /\ r.bits = s.bits
      /\ r.pendedTicks = s.pendedTicks /\ r.pendsv = s.pendsv
  BY <1>1 DEF Same, SchedFields
<1>3. /\ IsList(r.pendingReady)
      /\ \A y : Contains(r.pendingReady, y) <=> Contains(s.pendingReady, y) \/ y = t
  BY <1>0, <1>1, WFParts, AppendList DEF Unlinked
<1>4. Shaped(r)
  BY <1>1, <1>2 DEF SchedOK, Shaped, IsSched
<1>5. HasLists(r)
  BY <1>2, <1>3 DEF SchedOK, HasLists
<1>6. Others(s, r, t)
  BY <1>2, <1>3 DEF Others, AsListed, AsLinked
<1>7. Placed(r, t)
  BY <1>0, <1>2 DEF Placed, Dormant, Unlinked
<1>8. OnePlace(r)
  BY <1>6, <1>7, OnePlaceKept DEF SchedOK
<1>9. IdleReady(r) /\ CurrentApart(r)
  BY <1>2, <1>3 DEF SchedOK, IdleReady, CurrentApart, Ready
<1>10. s.pendsv => r.pendsv
  BY <1>2, Zenon
<1>11. Harmless(s, r)
  BY <1>2, <1>10 DEF Harmless, Mild, Milder, Ready, ListedIn, Dormant
<1> QED
  BY <1>1, <1>4, <1>5, <1>8, <1>9, <1>11 DEF SchedOK, r

LEMMA MadeReadyOK ==
  ASSUME NEW s, SchedOK(s), NEW t \in Tasks, Unlinked(s, t), s.notify[t] # "waiting",
         t = s.current => ~Ready(s, t)
  PROVE  LET r == MadeReady(s, t)
         IN  SchedOK(r) /\ Harmless(s, r) /\ Same(s, r, Woke)
<1>1. CASE s.suspendedAll = 0
  <2> DEFINE m == ToReady(s, t)
             r == ResetNextUnblock(m)
  <2>1. SchedOK(m) /\ Harmless(s, m) /\ Same(s, m, StateLists \cup {"top"})
    BY ToReadyOK
  <2> HIDE DEF m
  <2>2. SchedOK(r) /\ Harmless(m, r) /\ Same(m, r, {"nextUnblock"})
    BY <2>1, ResetNextUnblockOK
  <2> HIDE DEF r
  <2>3. Harmless(s, r) /\ Same(s, r, Woke)
    BY <2>1, <2>2, HarmlessTransitive DEF Same, Woke
  <2>4. r = MadeReady(s, t)
    BY <1>1 DEF MadeReady, r, m
  <2> QED
    BY <2>2, <2>3, <2>4
<1>2. CASE s.suspendedAll # 0
  <2> DEFINE r == [s EXCEPT !.pendingReady = Append(@, t)]
  <2>1. r = MadeReady(s, t)
    BY <1>2 DEF MadeReady
  <2>2. SchedOK(r) /\ Harmless(s, r) /\ Same(s, r, {"pendingReady"})
    BY <1>2, PendOK
  <2> HIDE DEF r
  <2> QED
    BY <2>1, <2>2 DEF Same, Woke
<1> QED
  BY <1>1, <1>2

LEMMA RemoveFromEventListOK ==
  ASSUME NEW s, SchedOK(s), NEW l \in EventLists, s.events[l] # << >>
  PROVE  LET r == RemoveFromEventList(s, l).s
         IN  SchedOK(r) /\ Harmless(s, r) /\ Same(s, r, Woke)
<1> DEFINE t == Head(s.events[l])
           m == RemoveEvent(s, t)
           n == MadeReady(m, t)
           v == n.yieldPending \/ s.prio[t] > s.prio[s.current]
           r == [n EXCEPT !.yieldPending = v]
<1>1. r = RemoveFromEventList(s, l).s
  BY DEF RemoveFromEventList
<1>2. t \in Tasks /\ Contains(s.events[l], t)
  BY HeadIsThere DEF SchedOK, HasLists
<1>3. Dormant(s, t) /\ s.notify[t] # "waiting" /\ ~Ready(s, t)
  <2>1. Placed(s, t) /\ s.prio[t] \in Priorities
    BY <1>2, SchedIs, WFParts DEF SchedOK, OnePlace
  <2> QED
    BY <1>2, <2>1 DEF Placed, Ready, Unlinked
<1> HIDE DEF t
<1>4. /\ SchedOK(m) /\ Harmless(s, m) /\ Unlinked(m, t)
      /\ Same(s, m, {"events", "pendingReady"})
  BY <1>2, RemoveEventOK
<1> HIDE DEF m
<1>5. m.notify = s.notify /\ m.prio = s.prio /\ m.ready = s.ready
  BY <1>4 DEF Same, SchedFields
<1>6. SchedOK(n) /\ Harmless(m, n) /\ Same(m, n, Woke)
  <2>1. m.notify[t] # "waiting" /\ ~Ready(m, t)
    BY <1>3, <1>5 DEF Ready
  <2> QED
    BY <1>2, <1>4, <2>1, MadeReadyOK
<1> HIDE DEF n, v
<1>7. SchedOK(r) /\ Harmless(n, r) /\ Same(n, r, {"yieldPending"})
  BY <1>6, YieldPendingOK
<1> HIDE DEF r
<1>8. Harmless(s, r)
  BY <1>4, <1>6, <1>7, HarmlessTransitive
<1>9. Same(s, r, Woke)
  BY <1>4, <1>6, <1>7 DEF Same, Woke
<1> QED
  BY <1>1, <1>7, <1>8, <1>9

LEMMA WakeFirstOK ==
  ASSUME NEW s, SchedOK(s), NEW l \in EventLists
  PROVE  LET r == WakeFirst(s, l)
         IN  SchedOK(r) /\ Harmless(s, r) /\ Same(s, r, Woke)
<1>1. CASE s.events[l] = << >>
  BY <1>1, HarmlessSelf DEF WakeFirst, Same
<1>2. CASE s.events[l] # << >>
  <2> DEFINE x == RemoveFromEventList(s, l)
             m == x.s
             r == YieldIf(x.yes, m)
  <2>1. SchedOK(m) /\ Harmless(s, m) /\ Same(s, m, Woke)
    BY <1>2, RemoveFromEventListOK
  <2>2. r = WakeFirst(s, l)
    BY <1>2 DEF WakeFirst
  <2> HIDE DEF m, x
  <2>3. SchedOK(r) /\ Harmless(m, r) /\ Same(m, r, {"pendsv"})
    BY <2>1, YieldIfOK
  <2> HIDE DEF r
  <2> QED
    BY <2>1, <2>2, <2>3, HarmlessTransitive DEF Same, Woke
<1> QED
  BY <1>1, <1>2

LEMMA WakeMissedOK ==
  ASSUME NEW s, SchedOK(s), NEW l \in EventLists
  PROVE  LET r == WakeMissed(s, l)
         IN  SchedOK(r) /\ Harmless(s, r) /\ Same(s, r, Woke)
<1>1. CASE s.events[l] = << >>
  BY <1>1, HarmlessSelf DEF WakeMissed, Same
<1>2. CASE s.events[l] # << >>
  <2> DEFINE x == RemoveFromEventList(s, l)
             m == x.s
             r == IF x.yes THEN MissedYield(m) ELSE m
  <2>1. SchedOK(m) /\ Harmless(s, m) /\ Same(s, m, Woke)
    BY <1>2, RemoveFromEventListOK
  <2>2. r = WakeMissed(s, l)
    BY <1>2 DEF WakeMissed
  <2> HIDE DEF m, x
  <2>3. SchedOK(r) /\ Harmless(m, r) /\ Same(m, r, {"yieldPending"})
    <3>1. CASE x.yes
      BY <3>1, <2>1, MissedYieldOK
    <3>2. CASE ~x.yes
      BY <3>2, <2>1, HarmlessSelf DEF Same
    <3> QED
      BY <3>1, <3>2
  <2> HIDE DEF r
  <2> QED
    BY <2>1, <2>2, <2>3, HarmlessTransitive DEF Same, Woke
<1> QED
  BY <1>1, <1>2

LEMMA WakeCountedOK ==
  ASSUME NEW s, SchedOK(s), NEW l \in EventLists, NEW k \in Int
  PROVE  LET r == WakeCounted(s, l, k)
         IN  SchedOK(r) /\ Harmless(s, r) /\ Same(s, r, Woke)
<1>1. PICK n \in Nat : \E F :
           /\ F[0] = s /\ F[n] = WakeCounted(s, l, k)
           /\ \A i \in 1..n : F[i] = WakeMissed(F[i - 1], l)
  <2>1. k \in Int
    OBVIOUS
  <2> QED
    BY ONLY <2>1, WakeCountedFold
<1>2. PICK F : /\ F[0] = s /\ F[n] = WakeCounted(s, l, k)
               /\ \A i \in 1..n : F[i] = WakeMissed(F[i - 1], l)
  BY <1>1
<1> DEFINE Fine(r) == SchedOK(r) /\ Harmless(s, r) /\ Same(s, r, Woke)
           S == {i \in 0..n : Fine(F[i])}
<1>3. 0 \in S
  <2>1. Fine(s)
    BY HarmlessSelf DEF Same
  <2> HIDE DEF Fine
  <2> QED
    BY <1>2, <2>1
<1>4. ASSUME NEW i \in 1..n, i - 1 \in S PROVE i \in S
  <2> DEFINE b == F[i - 1]
             r == F[i]
  <2>1. r = WakeMissed(b, l)
    BY <1>2
  <2>2. SchedOK(b) /\ Harmless(s, b) /\ Same(s, b, Woke)
    BY <1>4
  <2> HIDE DEF b, r
  <2>3. SchedOK(r) /\ Harmless(b, r) /\ Same(b, r, Woke)
    BY <2>1, <2>2, WakeMissedOK
  <2>4. Harmless(s, r)
    BY <2>2, <2>3, HarmlessTransitive
  <2>5. Fine(r)
    BY <2>2, <2>3, <2>4 DEF Same
  <2> HIDE DEF Fine
  <2> QED
    BY <2>5 DEF r
<1> HIDE DEF S, Fine
<1>5. \A i \in 0..n : i \in S
  BY <1>3, <1>4, Upward
<1>6. Fine(F[n])
  BY <1>5 DEF S
<1> QED
  BY <1>2, <1>6 DEF Fine

(* xTaskRemoveFromUnorderedEventList. *)
WokeBits == Woke \cup {"bits"}

LEMMA RemoveFromUnorderedOK ==
  ASSUME NEW s, SchedOK(s), NEW t \in Tasks, NEW b
  PROVE  LET r == RemoveFromUnordered(s, t, b)
         IN  /\ SchedOK(r) /\ Harmless(s, r) /\ Same(s, r, WokeBits)
             /\ r.bits = [s.bits EXCEPT ![t] = b]
             /\ Unlinked(r, t)
             /\ \A u \in Tasks \ {t} : AsLinked(s, r, u)
<1> DEFINE z == [s EXCEPT !.bits[t] = b]
           m == ToReady(RemoveEvent(z, t), t)
           v == m.yieldPending \/ m.prio[t] > m.prio[m.current]
           r == [m EXCEPT !.yieldPending = v]
<1>1. r = RemoveFromUnordered(s, t, b)
  BY DEF RemoveFromUnordered
<1>2. SchedOK(z) /\ Harmless(s, z) /\ Same(s, z, {"bits"}) /\ z.bits = [s.bits EXCEPT ![t] = b]
  <2> DEFINE w == [s.bits EXCEPT ![t] = b]
  <2>1. s.bits = [u \in Tasks |-> s.bits[u]]
    BY SchedIs
  <2>2. w = [u \in Tasks |-> w[u]]
    BY <2>1
  <2> HIDE DEF w
  <2> DEFINE y == [s EXCEPT !.bits = w]
  <2>3. SchedOK(y) /\ Harmless(s, y) /\ Same(s, y, {"bits"}) /\ y.bits = w
    BY <2>2, BitsOK
  <2> QED
    BY <2>3 DEF w
<1> HIDE DEF z
<1>3. /\ SchedOK(m) /\ Harmless(z, m) /\ Others(z, m, t) /\ Unlinked(m, t)
      /\ Same(z, m, StateLists \cup {"top", "events", "pendingReady"})
  BY <1>2, WokenUpOK
<1> HIDE DEF m, v
<1>4. SchedOK(r) /\ Harmless(m, r) /\ Same(m, r, {"yieldPending"})
  BY <1>3, YieldPendingOK
<1> HIDE DEF r
<1>5. Harmless(s, r)
  BY <1>2, <1>3, <1>4, HarmlessTransitive
<1>6. Same(s, r, WokeBits)
  BY <1>2, <1>3, <1>4 DEF Same, Woke, WokeBits
<1>7. /\ r.bits = z.bits /\ r.events = m.events /\ r.pendingReady = m.pendingReady
      /\ z.events = s.events /\ z.pendingReady = s.pendingReady
  BY <1>2, <1>3, <1>4 DEF Same, SchedFields, StateLists
<1>8. Unlinked(r, t) /\ \A u \in Tasks \ {t} : AsLinked(s, r, u)
  BY <1>3, <1>7 DEF Unlinked, Others, AsLinked
<1> QED
  BY <1>1, <1>2, <1>4, <1>5, <1>6, <1>7, <1>8

(* The walk along the list of an event group: those to wake wait no longer, *)
(* and the others wait for the same bits as before. *)
LEMMA WakeOK ==
  ASSUME NEW s, SchedOK(s), NEW g \in Groups, NEW tasks
  PROVE  LET r == Wake(s, g, tasks)
         IN  /\ SchedOK(r) /\ Harmless(s, r) /\ Same(s, r, WokeBits)
             /\ \A u \in Tasks : \/ r.bits[u] = s.bits[u]
                                 \/ Unlinked(r, u)
             /\ \A u \in tasks : ~Contains(r.events[Waiting(g)], u)
<1> DEFINE l == Waiting(g)
           q == s.events[l]
           n == Len(q)
<1>0. l \in EventLists
  BY DEF Waiting, EventLists
<1>00. q \in Seq(Tasks) /\ n \in Nat /\ n \in 0..n
  BY <1>0 DEF SchedOK, HasLists, IsList
<1>1. PICK F : /\ F[0] = s /\ F[n] = Wake(s, g, tasks)
               /\ \A i \in 1..n : F[i] = IF q[i] \in tasks
                                         THEN RemoveFromUnordered(F[i - 1], q[i], Unblocked) ELSE F[i - 1]
  <2>1. s.events[Waiting(g)] \in Seq(Tasks)
    BY <1>00
  <2>2. Walked(s, g, tasks)
    BY ONLY <2>1, EventWakeFold
  <2> QED
    BY <2>2 DEF Walked
<1> HIDE DEF l
<1> DEFINE Fine(r, i) ==
             /\ SchedOK(r) /\ Harmless(s, r) /\ Same(s, r, WokeBits)
             /\ \A u \in Tasks : r.bits[u] = s.bits[u] \/ Unlinked(r, u)
             /\ \A j \in 1..i : q[j] \in tasks => Unlinked(r, q[j])
           S == {i \in 0..n : Fine(F[i], i)}
<1>2. 0 \in S
  <2>1. Fine(s, 0)
    BY HarmlessSelf DEF Same
  <2> HIDE DEF Fine
  <2> QED
    BY <1>00, <1>1, <2>1
<1>3. ASSUME NEW i \in 1..n, i - 1 \in S PROVE i \in S
  <2> DEFINE b == F[i - 1]
             r == F[i]
  <2>1. q[i] \in Tasks /\ r = IF q[i] \in tasks THEN RemoveFromUnordered(b, q[i], Unblocked) ELSE b
    BY <1>00, <1>1
  <2>2. Fine(b, i - 1)
    BY <1>3
  <2>3. \A j \in 1..i : j \in 1..(i - 1) \/ j = i
    BY <1>00
  <2>4. \A j \in 1..i : q[j] \in Tasks
    BY <1>00
  <2> HIDE DEF b, r
  <2>5. CASE q[i] \in tasks
    <3> DEFINE t == q[i]
    <3>1. /\ SchedOK(r) /\ Harmless(b, r) /\ Same(b, r, WokeBits)
          /\ r.bits = [b.bits EXCEPT ![t] = Unblocked]
          /\ Unlinked(r, t)
          /\ \A u \in Tasks \ {t} : AsLinked(b, r, u)
      <4>1. r = RemoveFromUnordered(b, t, Unblocked)
        BY <2>1, <2>5
      <4> QED
        BY <2>1, <2>2, <4>1, RemoveFromUnorderedOK
    <3> HIDE DEF t
    <3>2. Harmless(s, r)
      BY <2>2, <3>1, HarmlessTransitive
    <3>3. Same(s, r, WokeBits)
      BY <2>2, <3>1 DEF Same
    <3>4. b.bits = [u \in Tasks |-> b.bits[u]]
      BY <2>2, SchedIs
    <3>6. \A u \in Tasks \ {t} : Unlinked(b, u) => Unlinked(r, u)
      BY <3>1 DEF Unlinked, AsLinked
    <3>7. \A u \in Tasks : r.bits[u] = s.bits[u] \/ Unlinked(r, u)
      BY <2>2, <3>1, <3>4, <3>6
    <3>8. \A j \in 1..i : q[j] \in tasks => Unlinked(r, q[j])
      BY <2>2, <2>3, <2>4, <3>1, <3>6 DEF t
    <3>9. Fine(r, i)
      BY <3>1, <3>2, <3>3, <3>7, <3>8
    <3> HIDE DEF Fine
    <3> QED
      BY <1>00, <3>9 DEF r
  <2>6. CASE q[i] \notin tasks
    <3>1. r = b
      BY <2>1, <2>6
    <3>2. Fine(r, i)
      BY <2>2, <2>3, <2>6, <3>1
    <3> HIDE DEF Fine
    <3> QED
      BY <1>00, <3>2 DEF r
  <2> QED
    BY <2>5, <2>6
<1> HIDE DEF S, Fine
<1>4. \A i \in 0..n : i \in S
  <2> HIDE DEF n
  <2> QED
    BY <1>00, <1>2, <1>3, Upward
<1>5. Fine(F[n], n)
  <2> HIDE DEF n
  <2> QED
    BY <1>00, <1>4 DEF S
<1> DEFINE r == F[n]
<1>6. \A u \in tasks : ~Contains(r.events[l], u)
  <2>1. SUFFICES ASSUME NEW u \in tasks, Contains(r.events[l], u) PROVE FALSE
    OBVIOUS
  <2>2. IsList(r.events[l])
    BY <1>0, <1>5 DEF Fine, SchedOK, HasLists
  <2>3. u \in Tasks
    BY <2>1, <2>2, ListedAreTasks
  <2>4. Contains(q, u)
    BY <1>0, <1>5, <2>1, <2>3 DEF Fine, Harmless, Mild, Milder
  <2>5. PICK j \in 1..n : q[j] = u
    BY <2>4, ContainsDef
  <2>6. Unlinked(r, u)
    BY <1>5, <2>5 DEF Fine
  <2> QED
    BY <1>0, <2>1, <2>6 DEF Unlinked
<1> QED
  BY <1>1, <1>5, <1>6 DEF Fine, l

----------------------------------------------------------------------------
(* Priorities and their inheritance. *)

PriorityFields == StateLists \cup {"top", "prio", "base", "held", "evValue", "pendsv"}

(* The priority alone, of a task that is in no ready list. *)
LEMMA PrioWF ==
  ASSUME NEW s, WF(s), NEW t \in Tasks, NEW p \in Priorities
  PROVE  LET r == [s EXCEPT !.prio[t] = p]
         IN  /\ WF(r) /\ Others(s, r, t) /\ AsListed(s, r, t) /\ AsLinked(s, r, t)
             /\ Same(s, r, {"prio"}) /\ r.prio[t] = p
<1> DEFINE r == [s EXCEPT !.prio[t] = p]
<1>1. IsSched(s) /\ s.prio \in [Tasks -> Priorities]
  BY WFParts DEF WF, Shaped
<1>2. IsSched(r) /\ Same(s, r, {"prio"}) /\ r.prio = [s.prio EXCEPT ![t] = p]
  BY <1>1 DEF IsSched, SchedFields, Same
<1> HIDE DEF r
<1>3. /\ r.ready = s.ready /\ r.delayed = s.delayed /\ r.overflow = s.overflow
      /\ r.suspended = s.suspended /\ r.terminating = s.terminating /\ r.events = s.events
      /\ r.notify = s.notify /\ r.base = s.base /\ r.evValue = s.evValue
      /\ r.current = s.current /\ r.top = s.top /\ r.pendingReady = s.pendingReady
      /\ r.suspendedAll = s.suspendedAll /\ r.entry = s.entry /\ r.bits = s.bits
      /\ r.pendedTicks = s.pendedTicks
  BY <1>2 DEF Same, SchedFields
<1>4. r.prio \in [Tasks -> Priorities] /\ r.prio[t] = p /\ \A u \in Tasks \ {t} : r.prio[u] = s.prio[u]
  BY <1>1, <1>2
<1>5. Shaped(r)
  BY <1>2, <1>3, <1>4 DEF WF, Shaped, IsSched
<1>6. HasLists(r)
  BY <1>3 DEF WF, HasLists
<1>7. Others(s, r, t) /\ AsListed(s, r, t) /\ AsLinked(s, r, t)
  BY <1>3, <1>4 DEF Others, AsListed, AsLinked
<1> QED
  BY <1>2, <1>4, <1>5, <1>6, <1>7 DEF WF, r

LEMMA ChangePriorityOK ==
  ASSUME NEW s, SchedOK(s), NEW t \in Tasks \ {Idle}, NEW p \in Priorities
  PROVE  LET r == ChangePriority(s, t, p)
         IN  /\ SchedOK(r) /\ Harmless(s, r) /\ Same(s, r, StateLists \cup {"top", "prio"})
<1>0. WF(s) /\ OKBut(s, t) /\ Placed(s, t) /\ CurrentApart(s) /\ s.prio[t] \in Priorities
  BY SchedIs, SchedOKBut, WFParts
<1>1. CASE Ready(s, t)
  <2> DEFINE m == RemoveState(s, t)
             n == [m EXCEPT !.prio[t] = p]
             r == AddToReady(n, t)
  <2>1. r = ChangePriority(s, t, p)
    BY <1>1 DEF ChangePriority
  <2>2. /\ WF(m) /\ Others(s, m, t) /\ Away(m, t) /\ AsLinked(s, m, t)
        /\ Same(s, m, StateLists)
    BY <1>0, RemoveStateWF
  <2> HIDE DEF m
  <2>3. /\ WF(n) /\ Others(m, n, t) /\ AsListed(m, n, t) /\ AsLinked(m, n, t)
        /\ Same(m, n, {"prio"}) /\ n.prio[t] = p
    BY <2>2, PrioWF
  <2> HIDE DEF n
  <2>4. Away(n, t)
    BY <2>2, <2>3 DEF Away, Dormant, AsListed
  <2>5. /\ WF(r) /\ Others(n, r, t) /\ OnlyReady(r, t) /\ AsLinked(n, r, t)
        /\ Same(n, r, {"ready", "top"})
    BY <2>3, <2>4, AddToReadyWF
  <2> HIDE DEF r
  <2>6. Others(s, r, t)
    BY <2>2, <2>3, <2>5, OthersTransitive
  <2>7. AsLinked(s, r, t)
    BY <2>2, <2>3, <2>5 DEF AsLinked
  <2>8. Same(s, r, StateLists \cup {"top", "prio"})
    BY <2>2, <2>3, <2>5 DEF Same, StateLists
  <2>9. /\ r.current = s.current /\ r.suspendedAll = s.suspendedAll /\ r.notify = s.notify
        /\ r.evValue = s.evValue /\ r.events = s.events /\ r.pendingReady = s.pendingReady
        /\ r.pendsv = s.pendsv
    BY <2>8 DEF Same, SchedFields, StateLists
  <2>10. Ready(r, t) /\ ListedIn(r, t)
    <3>1. r.prio[t] \in Priorities
      BY <2>5, WFParts
    <3> QED
      BY <2>5, <3>1 DEF OnlyReady, Ready, ListedIn
  <2>11. OKBut(r, t)
    BY <1>0, <2>5, <2>6, OKButOthers
  <2>12. Placed(r, t)
    <3>1. ~Dormant(s, t) /\ \A l \in EventLists : ~Contains(r.events[l], t)
      BY <1>0, <1>1, <2>9 DEF Placed, Ready
    <3>2. s.notify[t] = "waiting" => Unlinked(s, t)
      BY <1>0 DEF Placed
    <3>3. r.notify[t] = "waiting" => Unlinked(r, t)
      BY <2>9, <3>2 DEF Unlinked
    <3> QED
      BY <2>5, <3>1, <3>3 DEF Placed, OnlyReady, Dormant
  <2>13. (Ready(s, s.current) => Ready(r, r.current)) /\ CurrentApart(r)
    <3>1. CASE s.current = t
      BY <1>0, <1>1, <2>9, <2>10, <3>1 DEF CurrentApart
    <3>2. CASE s.current # t
      <4>1. s.current \in Tasks \ {t}
        BY <3>2, SchedIs
      <4>2. Ready(r, s.current) <=> Ready(s, s.current)
        BY <1>0, <2>6, <4>1, OthersReady
      <4> QED
        BY <1>0, <2>9, <4>2 DEF CurrentApart
    <3> QED
      BY <3>1, <3>2
  <2>14. SchedOK(r)
    BY <2>11, <2>12, <2>13, OKButPlaced
  <2>15. Harmless(s, r)
    <3>1. s.pendsv => r.pendsv
      BY <2>9, Zenon
    <3>2. \A u \in Tasks \ {t} : Milder(s, r, u)
      BY <1>0, <2>6, <2>9, OthersMilder DEF OKBut
    <3>3. Milder(s, r, t)
      BY <2>9, <2>10 DEF Milder
    <3> QED
      BY <2>9, <2>13, <3>1, <3>2, <3>3 DEF Harmless, Mild
  <2> QED
    BY <2>1, <2>8, <2>14, <2>15
<1>2. CASE ~Ready(s, t)
  <2> DEFINE r == [s EXCEPT !.prio[t] = p]
  <2>1. r = ChangePriority(s, t, p)
    BY <1>2 DEF ChangePriority
  <2>2. /\ WF(r) /\ Others(s, r, t) /\ AsListed(s, r, t) /\ AsLinked(s, r, t)
        /\ Same(s, r, {"prio"}) /\ r.prio[t] = p
    BY <1>0, PrioWF
  <2> HIDE DEF r
  <2>3. /\ r.current = s.current /\ r.suspendedAll = s.suspendedAll /\ r.notify = s.notify
        /\ r.evValue = s.evValue /\ r.events = s.events /\ r.pendingReady = s.pendingReady
        /\ r.pendsv = s.pendsv
    BY <2>2 DEF Same, SchedFields
  <2>4. \A q \in Priorities : ~Contains(s.ready[q].items, t)
    BY <1>0, <1>2 DEF Placed, Ready
  <2>5. Placed(r, t)
    BY <1>0, <2>2, <2>3, <2>4 DEF Placed, AsListed, AsLinked, Dormant, Unlinked
  <2>6. OKBut(r, t)
    BY <1>0, <2>2, OKButOthers
  <2>7. (Ready(s, s.current) => Ready(r, r.current)) /\ CurrentApart(r)
    <3>1. CASE s.current = t
      <4>1. ~Ready(r, t)
        BY <2>2, <2>4 DEF Ready, AsListed
      <4> QED
        BY <1>2, <2>3, <3>1, <4>1 DEF CurrentApart
    <3>2. CASE s.current # t
      <4>1. s.current \in Tasks \ {t}
        BY <3>2, SchedIs
      <4>2. Ready(r, s.current) <=> Ready(s, s.current)
        BY <1>0, <2>2, <4>1, OthersReady
      <4> QED
        BY <1>0, <2>3, <4>2 DEF CurrentApart
    <3> QED
      BY <3>1, <3>2
  <2>8. SchedOK(r)
    BY <2>5, <2>6, <2>7, OKButPlaced
  <2>9. Harmless(s, r)
    <3>1. s.pendsv => r.pendsv
      BY <2>3, Zenon
    <3>2. \A u \in Tasks \ {t} : Milder(s, r, u)
      BY <1>0, <2>2, <2>3, OthersMilder DEF OKBut
    <3>3. Milder(s, r, t)
      BY <2>2, <2>3 DEF Milder, ListedIn, AsListed, Dormant
    <3> QED
      BY <2>3, <2>7, <3>1, <3>2, <3>3 DEF Harmless, Mild
  <2>10. Same(s, r, StateLists \cup {"top", "prio"})
    BY <2>2 DEF Same
  <2> QED
    BY <2>1, <2>8, <2>9, <2>10
<1> QED
  BY <1>1, <1>2

LEMMA EventValue == \A p \in Priorities : MaxPriorities - p \in 1..MaxPriorities
BY Zero DEF Priorities

LEMMA SetEventPriorityOK ==
  ASSUME NEW s, SchedOK(s), NEW t \in Tasks, NEW p \in Priorities
  PROVE  LET r == SetEventPriority(s, t, p)
         IN  SchedOK(r) /\ Harmless(s, r) /\ Same(s, r, {"evValue"})
<1>1. CASE s.bits[t].inUse
  BY <1>1, HarmlessSelf DEF SetEventPriority, Same
<1>2. CASE ~s.bits[t].inUse
  <2> DEFINE v == MaxPriorities - p
  <2>1. v \in 1..MaxPriorities
    BY EventValue
  <2>2. SetEventPriority(s, t, p) = [s EXCEPT !.evValue[t] = v]
    BY <1>2 DEF SetEventPriority
  <2> HIDE DEF v
  <2> QED
    BY <2>1, <2>2, EvValueOK
<1> QED
  BY <1>1, <1>2

(* Both of them. *)
LEMMA RaisedOK ==
  ASSUME NEW s, SchedOK(s), NEW t \in Tasks \ {Idle}, NEW p \in Priorities, NEW q \in Priorities
  PROVE  LET r == ChangePriority(SetEventPriority(s, t, q), t, p)
         IN  SchedOK(r) /\ Harmless(s, r) /\ Same(s, r, PriorityFields)
<1> DEFINE m == SetEventPriority(s, t, q)
           r == ChangePriority(m, t, p)
<1>1. SchedOK(m) /\ Harmless(s, m) /\ Same(s, m, {"evValue"})
  BY SetEventPriorityOK
<1> HIDE DEF m
<1>2. SchedOK(r) /\ Harmless(m, r) /\ Same(m, r, StateLists \cup {"top", "prio"})
  BY <1>1, ChangePriorityOK
<1> HIDE DEF r
<1>3. Harmless(s, r)
  BY <1>1, <1>2, HarmlessTransitive
<1>4. Same(s, r, PriorityFields)
  BY <1>1, <1>2 DEF Same, PriorityFields
<1> QED
  BY <1>2, <1>3, <1>4 DEF r, m

LEMMA PriorityInheritOK ==
  ASSUME NEW s, SchedOK(s), NEW t \in Tasks \ {Idle}
  PROVE  LET r == PriorityInherit(s, t).s
         IN  SchedOK(r) /\ Harmless(s, r) /\ Same(s, r, PriorityFields)
<1> DEFINE p == s.prio[s.current]
<1>1. p \in Priorities
  BY SchedIs, WFParts
<1> HIDE DEF p
<1>2. CASE s.prio[t] < p
  <2>1. PriorityInherit(s, t).s = ChangePriority(SetEventPriority(s, t, p), t, p)
    BY <1>2 DEF PriorityInherit, p
  <2> QED
    BY <1>1, <2>1, RaisedOK
<1>3. CASE ~(s.prio[t] < p)
  <2>1. PriorityInherit(s, t).s = s
    BY <1>3 DEF PriorityInherit, p
  <2> QED
    BY <2>1, HarmlessSelf DEF Same
<1> QED
  BY <1>2, <1>3

LEMMA DisinheritAfterTimeoutOK ==
  ASSUME NEW s, SchedOK(s), NEW t \in Tasks \ {Idle}, NEW highest \in Priorities
  PROVE  LET r == DisinheritAfterTimeout(s, t, highest)
         IN  SchedOK(r) /\ Harmless(s, r) /\ Same(s, r, PriorityFields)
<1> DEFINE p == IF s.base[t] < highest THEN highest ELSE s.base[t]
<1>1. p \in Priorities
  BY SchedIs, WFParts
<1>2. CASE s.prio[t] # p /\ s.held[t] = 1
  <2>1. DisinheritAfterTimeout(s, t, highest) = ChangePriority(SetEventPriority(s, t, p), t, p)
    BY <1>2 DEF DisinheritAfterTimeout
  <2> HIDE DEF p
  <2> QED
    BY <1>1, <2>1, RaisedOK
<1>3. CASE ~(s.prio[t] # p /\ s.held[t] = 1)
  <2>1. DisinheritAfterTimeout(s, t, highest) = s
    BY <1>3 DEF DisinheritAfterTimeout
  <2> QED
    BY <2>1, HarmlessSelf DEF Same
<1> QED
  BY <1>2, <1>3

LEMMA HeldOK ==
  ASSUME NEW s, SchedOK(s), NEW t, NEW v
  PROVE  LET r == [s EXCEPT !.held[t] = v]
         IN  SchedOK(r) /\ Harmless(s, r) /\ Same(s, r, {"held"})
<1> DEFINE w == [s.held EXCEPT ![t] = v]
<1>1. "held" \in Loose \ {"pendsv", "pendedTicks", "entry", "bits"}
  BY DEF Loose
<1>2. [s EXCEPT !.held[t] = v] = [s EXCEPT !["held"] = w]
  OBVIOUS
<1> HIDE DEF w
<1> DEFINE r == [s EXCEPT !["held"] = w]
<1>3. SchedOK(r) /\ Harmless(s, r) /\ Same(s, r, {"held"})
  BY <1>1, TweakOK
<1> QED
  BY <1>2, <1>3

LEMMA PriorityDisinheritOK ==
  ASSUME NEW s, SchedOK(s), NEW t \in Tasks \ {Idle}
  PROVE  LET r == PriorityDisinherit(s, t).s
         IN  SchedOK(r) /\ Harmless(s, r) /\ Same(s, r, PriorityFields)
<1> DEFINE h == s.held[t] - 1
           given == [s EXCEPT !.held[t] = h]
           m == ChangePriority(given, t, s.base[t])
           v == MaxPriorities - s.base[t]
           r == [m EXCEPT !.evValue[t] = v]
<1>1. s.base[t] \in Priorities
  BY SchedIs, WFParts
<1>2. v \in 1..MaxPriorities
  BY <1>1, EventValue
<1>3. PriorityDisinherit(s, t).s = r \/ PriorityDisinherit(s, t).s = given
  <2>1. CASE s.prio[t] # s.base[t] /\ given.held[t] = 0
    BY <2>1 DEF PriorityDisinherit
  <2>2. CASE ~(s.prio[t] # s.base[t] /\ given.held[t] = 0)
    BY <2>2 DEF PriorityDisinherit
  <2> QED
    BY <2>1, <2>2
<1> HIDE DEF h, v
<1>4. SchedOK(given) /\ Harmless(s, given) /\ Same(s, given, {"held"})
  BY HeldOK
<1> HIDE DEF given
<1>5. SchedOK(m) /\ Harmless(given, m) /\ Same(given, m, StateLists \cup {"top", "prio"})
  BY <1>1, <1>4, ChangePriorityOK
<1> HIDE DEF m
<1>6. SchedOK(r) /\ Harmless(m, r) /\ Same(m, r, {"evValue"})
  BY <1>2, <1>5, EvValueOK
<1> HIDE DEF r
<1>7. Harmless(s, r)
  BY <1>4, <1>5, <1>6, HarmlessTransitive
<1>8. Same(s, r, PriorityFields) /\ Same(s, given, PriorityFields)
  BY <1>4, <1>5, <1>6 DEF Same, PriorityFields
<1> QED
  BY <1>3, <1>4, <1>6, <1>7, <1>8

LEMMA BaseOK ==
  ASSUME NEW s, SchedOK(s), NEW t \in Tasks, NEW p \in Priorities
  PROVE  LET r == [s EXCEPT !.base[t] = p]
         IN  SchedOK(r) /\ Harmless(s, r) /\ Same(s, r, {"base"})
<1> DEFINE r == [s EXCEPT !.base[t] = p]
<1>1. /\ IsSched(s) /\ s.notify = [u \in Tasks |-> s.notify[u]]
      /\ s.evValue = [u \in Tasks |-> s.evValue[u]] /\ s.base \in [Tasks -> Priorities]
  BY SchedIs DEF SchedOK, Shaped
<1>2. /\ IsSched(r) /\ Same(s, r, {"base"}) /\ r.base = [s.base EXCEPT ![t] = p]
  BY <1>1 DEF IsSched, SchedFields, Same
<1> HIDE DEF r
<1>3. r.notify = s.notify /\ Same(s, r, {"notify", "value", "evValue", "held", "base"})
      /\ r.evValue = s.evValue
  BY <1>2 DEF Same, SchedFields
<1>4. r.base \in [Tasks -> Priorities]
  BY <1>1, <1>2
<1>5. SchedOK(r) /\ Harmless(s, r)
  BY <1>1, <1>2, <1>3, <1>4, NotifyOK
<1> QED
  BY <1>2, <1>5 DEF r

LEMMA SetPriorityOK ==
  ASSUME NEW s, SchedOK(s), NEW t \in Tasks \ {Idle}, NEW p \in Priorities
  PROVE  LET r == SetPriority(s, t, p)
         IN  SchedOK(r) /\ Harmless(s, r) /\ Same(s, r, PriorityFields)
<1> DEFINE urgent == IF p > s.base[t] THEN t # s.current /\ p >= s.prio[s.current] ELSE t = s.current
           e == Effective(s, t, p)
           m == ChangePriority(SetEventPriority(s, t, p), t, e)
           n == [m EXCEPT !.base[t] = p]
           r == YieldIf(urgent, n)
<1>1. e \in Priorities
  BY SchedIs, WFParts DEF Effective
<1>2. CASE p = s.base[t]
  BY <1>2, HarmlessSelf DEF SetPriority, Same
<1>3. CASE p # s.base[t]
  <2>1. r = SetPriority(s, t, p)
    BY <1>3 DEF SetPriority
  <2> HIDE DEF e, urgent
  <2>2. SchedOK(m) /\ Harmless(s, m) /\ Same(s, m, PriorityFields)
    BY <1>1, RaisedOK
  <2> HIDE DEF m
  <2>3. SchedOK(n) /\ Harmless(m, n) /\ Same(m, n, {"base"})
    BY <2>2, BaseOK
  <2> HIDE DEF n
  <2>4. SchedOK(r) /\ Harmless(n, r) /\ Same(n, r, {"pendsv"})
    BY <2>3, YieldIfOK
  <2> HIDE DEF r
  <2>5. Harmless(s, r)
    BY <2>2, <2>3, <2>4, HarmlessTransitive
  <2>6. Same(s, r, PriorityFields)
    BY <2>2, <2>3, <2>4 DEF Same, PriorityFields
  <2> QED
    BY <2>1, <2>4, <2>5, <2>6
<1> QED
  BY <1>2, <1>3

----------------------------------------------------------------------------

NotifyFields == Woke \cup {"notify", "value"}

LEMMA NotifiedTaskOK ==
  ASSUME NEW s, SchedOK(s), NEW t \in Tasks, NEW new, NEW action
  PROVE  LET n == Notified(s, t, new, action)
         IN  /\ SchedOK(n) /\ Harmless(s, n) /\ Same(s, n, {"notify", "value"})
             /\ n.notify[t] # "waiting"
<1> DEFINE w == NotifiedValue(s.value[t], s.notify[t], new, action)
           r == Notified(s, t, new, action)
<1>1. /\ IsSched(s) /\ s.notify = [u \in Tasks |-> s.notify[u]]
      /\ s.evValue = [u \in Tasks |-> s.evValue[u]] /\ s.base \in [Tasks -> Priorities]
  BY SchedIs DEF SchedOK, Shaped
<1> HIDE DEF w
<1>2. /\ IsSched(r) /\ Same(s, r, {"notify", "value"}) /\ r.notify = [s.notify EXCEPT ![t] = "received"]
  <2>1. r = [s EXCEPT !.notify[t] = "received", !.value[t] = w]
    BY <1>1 DEF Notified, IsSched, SchedFields, w
  <2> HIDE DEF r
  <2> QED
    BY <1>1, <2>1 DEF IsSched, SchedFields, Same
<1> HIDE DEF r
<1>3. r.evValue = s.evValue /\ Same(s, r, {"notify", "value", "evValue", "held", "base"})
      /\ r.base = s.base
  BY <1>2 DEF Same, SchedFields
<1>4. /\ r.notify = [u \in Tasks |-> r.notify[u]] /\ r.notify[t] # "waiting"
      /\ \A u \in Tasks : r.notify[u] = "waiting" => s.notify[u] = "waiting"
  BY <1>1, <1>2
<1>5. SchedOK(r) /\ Harmless(s, r)
  BY <1>1, <1>2, <1>3, <1>4, NotifyOK
<1> QED
  BY <1>2, <1>4, <1>5 DEF r

LEMMA GenericNotifyOK ==
  ASSUME NEW s, SchedOK(s), NEW t \in Tasks, NEW new, NEW action
  PROVE  LET r == GenericNotify(s, t, new, action)
         IN  SchedOK(r) /\ Harmless(s, r) /\ Same(s, r, NotifyFields)
<1> DEFINE n == Notified(s, t, new, action)
           m == ToReady(n, t)
           x == ResetNextUnblock(m)
           r == YieldIf(s.prio[t] > s.prio[s.current], x)
<1>1. SchedOK(n) /\ Harmless(s, n) /\ Same(s, n, {"notify", "value"})
  BY NotifiedTaskOK
<1>2. GenericNotify(s, t, new, action) = IF s.notify[t] = "waiting" THEN r ELSE n
  BY DEF GenericNotify
<1> HIDE DEF n
<1>3. CASE s.notify[t] = "waiting"
  <2>1. Unlinked(n, t)
    <3>1. Unlinked(s, t)
      BY <1>3 DEF SchedOK, OnePlace, Placed
    <3>2. n.events = s.events /\ n.pendingReady = s.pendingReady
      BY <1>1 DEF Same, SchedFields
    <3> QED
      BY <3>1, <3>2 DEF Unlinked
  <2>2. SchedOK(m) /\ Harmless(n, m) /\ Same(n, m, StateLists \cup {"top"})
    BY <1>1, <2>1, ToReadyOK
  <2> HIDE DEF m
  <2>3. SchedOK(x) /\ Harmless(m, x) /\ Same(m, x, {"nextUnblock"})
    BY <2>2, ResetNextUnblockOK
  <2> HIDE DEF x
  <2>4. SchedOK(r) /\ Harmless(x, r) /\ Same(x, r, {"pendsv"})
    BY <2>3, YieldIfOK
  <2> HIDE DEF r
  <2>5. Harmless(s, r)
    BY <1>1, <2>2, <2>3, <2>4, HarmlessTransitive
  <2>6. Same(s, r, NotifyFields)
    BY <1>1, <2>2, <2>3, <2>4 DEF Same, NotifyFields, Woke
  <2> QED
    BY <1>2, <1>3, <2>4, <2>5, <2>6
<1>4. CASE s.notify[t] # "waiting"
  BY <1>1, <1>2, <1>4 DEF Same, NotifyFields
<1> QED
  BY <1>3, <1>4

LEMMA NotifyFromISROK ==
  ASSUME NEW s, SchedOK(s), NEW t \in Tasks, NEW new, NEW action,
         s.suspendedAll # 0 => s.notify[s.current] # "waiting"
  PROVE  LET r == NotifyFromISR(s, t, new, action)
         IN  SchedOK(r) /\ Harmless(s, r) /\ Same(s, r, NotifyFields)
<1> DEFINE n == Notified(s, t, new, action)
           urgent == s.prio[t] > s.prio[s.current]
           pended == [n EXCEPT !.pendingReady = Append(@, t)]
           m == IF s.suspendedAll = 0 THEN ToReady(n, t) ELSE pended
           v == m.yieldPending \/ urgent
           x == [m EXCEPT !.yieldPending = v]
           r == YieldIf(urgent, x)
<1>1. SchedOK(n) /\ Harmless(s, n) /\ Same(s, n, {"notify", "value"}) /\ n.notify[t] # "waiting"
  BY NotifiedTaskOK
<1>2. NotifyFromISR(s, t, new, action) = IF s.notify[t] = "waiting" THEN r ELSE n
  BY DEF NotifyFromISR
<1> HIDE DEF n
<1>3. CASE s.notify[t] = "waiting"
  <2>1. Unlinked(n, t) /\ n.suspendedAll = s.suspendedAll /\ n.current = s.current
    <3>1. Unlinked(s, t)
      BY <1>3 DEF SchedOK, OnePlace, Placed
    <3>2. n.events = s.events /\ n.pendingReady = s.pendingReady /\ n.current = s.current
          /\ n.suspendedAll = s.suspendedAll
      BY <1>1 DEF Same, SchedFields
    <3> QED
      BY <3>1, <3>2 DEF Unlinked
  <2>2. SchedOK(m) /\ Harmless(n, m) /\ Same(n, m, Woke)
    <3>1. CASE s.suspendedAll = 0
      <4> DEFINE y == ToReady(n, t)
      <4>1. SchedOK(y) /\ Harmless(n, y) /\ Same(n, y, StateLists \cup {"top"})
        BY <1>1, <2>1, ToReadyOK
      <4> HIDE DEF y
      <4>2. Same(n, y, Woke)
        BY <4>1 DEF Same, Woke
      <4> QED
        BY <3>1, <4>1, <4>2 DEF y
    <3>2. CASE s.suspendedAll # 0
      <4>1. t # s.current
        BY <1>3, <3>2
      <4>2. SchedOK(pended) /\ Harmless(n, pended) /\ Same(n, pended, {"pendingReady"})
        BY <1>1, <2>1, <3>2, <4>1, PendOK
      <4> HIDE DEF pended
      <4>3. Same(n, pended, Woke)
        BY <4>2 DEF Same, Woke
      <4> QED
        BY <3>2, <4>2, <4>3
    <3> QED
      BY <3>1, <3>2
  <2> HIDE DEF m, v, urgent
  <2>3. SchedOK(x) /\ Harmless(m, x) /\ Same(m, x, {"yieldPending"})
    BY <2>2, YieldPendingOK
  <2> HIDE DEF x
  <2>4. SchedOK(r) /\ Harmless(x, r) /\ Same(x, r, {"pendsv"})
    BY <2>3, YieldIfOK
  <2> HIDE DEF r
  <2>5. Harmless(s, r)
    BY <1>1, <2>2, <2>3, <2>4, HarmlessTransitive
  <2>6. Same(s, r, NotifyFields)
    BY <1>1, <2>2, <2>3, <2>4 DEF Same, NotifyFields, Woke
  <2> QED
    BY <1>2, <1>3, <2>4, <2>5, <2>6
<1>4. CASE s.notify[t] # "waiting"
  BY <1>1, <1>2, <1>4 DEF Same, NotifyFields
<1> QED
  BY <1>3, <1>4

----------------------------------------------------------------------------
(* Tasks that come and go. *)

----------------------------------------------------------------------------
(* Time limits of calls. *)

LEMMA SetTimeOutOK ==
  ASSUME NEW s, SchedOK(s), NEW ticks
  PROVE  LET r == SetTimeOut(s, ticks)
         IN  SchedOK(r) /\ Harmless(s, r) /\ Same(s, r, {"entry"})
<1> DEFINE e == [set |-> TRUE, finite |-> ticks # Forever, tick |-> IF ticks # Forever THEN s.tick ELSE 0,
                 wrapped |-> FALSE, due |-> IF ticks # Forever THEN ticks ELSE 0]
           v == [s.entry EXCEPT ![s.current] = e]
           r == [s EXCEPT !.entry = v]
<1>1. SetTimeOut(s, ticks) = IF s.entry[s.current].set THEN s ELSE r
  BY DEF SetTimeOut
<1>2. v = [t \in Tasks |-> v[t]]
  BY SchedIs
<1> HIDE DEF v
<1>3. SchedOK(r) /\ Harmless(s, r) /\ Same(s, r, {"entry"})
  BY <1>2, EntryOK
<1>4. SchedOK(s) /\ Harmless(s, s) /\ Same(s, s, {"entry"})
  BY HarmlessSelf DEF Same
<1> QED
  BY <1>1, <1>3, <1>4

LEMMA CheckForTimeOutOK ==
  ASSUME NEW s, SchedOK(s), NEW ticks
  PROVE  LET r == CheckForTimeOut(s, ticks).s
         IN  SchedOK(r) /\ Harmless(s, r) /\ Same(s, r, {"entry"})
<1> DEFINE c == s.current
           m == [s EXCEPT !.entry[c].tick = s.tick]
           n == [m EXCEPT !.entry[c].wrapped = FALSE]
           r == CheckForTimeOut(s, ticks).s
<1>1. r = s \/ r = n
  BY DEF CheckForTimeOut
<1>2. /\ IsSched(s) /\ s.entry = [t \in Tasks |-> s.entry[t]]
  BY SchedIs
<1> HIDE DEF r, c
<1>3. /\ IsSched(m) /\ Same(s, m, {"entry"}) /\ m.entry = [t \in Tasks |-> m.entry[t]]
  BY <1>2 DEF IsSched, Same, SchedFields
<1> HIDE DEF m
<1>4. /\ IsSched(n) /\ Same(m, n, {"entry"}) /\ n.entry = [t \in Tasks |-> n.entry[t]]
  BY <1>3 DEF IsSched, Same, SchedFields
<1> HIDE DEF n
<1>5. Same(s, n, {"entry"}) /\ Same(s, n, Loose) /\ n.pendedTicks = s.pendedTicks
      /\ n.bits = s.bits /\ n.pendsv = s.pendsv
  BY <1>3, <1>4 DEF Same, Loose, SchedFields
<1>6. SchedOK(n) /\ Harmless(s, n)
  <2>1. s.pendsv => n.pendsv
    BY <1>5, Zenon
  <2> QED
    BY <1>4, <1>5, <2>1, SchedIs, LooseOK
<1>7. SchedOK(s) /\ Harmless(s, s) /\ Same(s, s, {"entry"})
  BY HarmlessSelf DEF Same
<1>8. SchedOK(r) /\ Harmless(s, r) /\ Same(s, r, {"entry"})
  BY <1>1, <1>5, <1>6, <1>7
<1> QED
  BY <1>8 DEF r

LEMMA ForgetTimeOutOK ==
  ASSUME NEW s, SchedOK(s)
  PROVE  LET r == ForgetTimeOut(s)
         IN  SchedOK(r) /\ Harmless(s, r) /\ Same(s, r, {"entry"})
             /\ r.entry = [s.entry EXCEPT ![s.current] = NoEntry]
<1> DEFINE v == [s.entry EXCEPT ![s.current] = NoEntry]
           r == [s EXCEPT !.entry = v]
<1>1. ForgetTimeOut(s) = r
  BY DEF ForgetTimeOut
<1>2. v = [t \in Tasks |-> v[t]]
  BY SchedIs
<1>4. v = [s.entry EXCEPT ![s.current] = NoEntry]
  OBVIOUS
<1> HIDE DEF v
<1>3. SchedOK(r) /\ Harmless(s, r) /\ Same(s, r, {"entry"}) /\ r.entry = v
  BY <1>2, EntryOK
<1> QED
  BY <1>1, <1>3, <1>4

----------------------------------------------------------------------------
(* A task is put where it is neither ready nor waits for an event. *)

LEMMA ElsewhereOK ==
  ASSUME NEW s, SchedOK(s), NEW t \in Tasks \ {Idle}, NEW r, WF(r), Others(s, r, t),
         r.current = s.current, Unlinked(r, t), Placed(r, t)
  PROVE  /\ SchedOK(r)
         /\ t # s.current /\ Ready(s, s.current) => Ready(r, r.current)
         /\ \A u \in Tasks \ {t} : ListedIn(r, u) <=> ListedIn(s, u)
<1>1. OKBut(s, t) /\ CurrentApart(s) /\ WF(s) /\ s.current \in Tasks
  BY SchedOKBut, SchedIs
<1>2. OKBut(r, t)
  BY <1>1, OKButOthers
<1>3. CurrentApart(r) /\ (t # s.current /\ Ready(s, s.current) => Ready(r, r.current))
  <2>1. CASE t = s.current
    BY <2>1 DEF CurrentApart, Unlinked
  <2>2. CASE t # s.current
    <3>1. /\ Ready(r, s.current) <=> Ready(s, s.current)
          /\ Contains(r.pendingReady, s.current) <=> Contains(s.pendingReady, s.current)
      BY <1>1, <2>2, OthersReady
    <3> QED
      BY <1>1, <3>1 DEF CurrentApart
  <2> QED
    BY <2>1, <2>2
<1>4. SchedOK(r)
  BY <1>2, <1>3, OKButPlaced
<1>5. \A u \in Tasks \ {t} : ListedIn(r, u) <=> ListedIn(s, u)
  BY <1>1, OthersPlaced DEF OKBut
<1> QED
  BY <1>3, <1>4, <1>5

DetachFields == StateLists \cup {"events", "pendingReady"}

LEMMA DetachWF ==
  ASSUME NEW s, SchedOK(s), NEW t \in Tasks
  PROVE  LET r == Detach(s, t)
         IN  /\ WF(r) /\ Others(s, r, t) /\ Away(r, t) /\ Unlinked(r, t)
             /\ Same(s, r, DetachFields)
             /\ \A l \in EventLists : \A u : Contains(r.events[l], u) <=> Contains(s.events[l], u) /\ u # t
             /\ s.pendingReady = << >> => r.pendingReady = << >>
<1> DEFINE m == RemoveState(s, t)
           r == RemoveEvent(m, t)
<1>1. /\ WF(m) /\ Others(s, m, t) /\ Away(m, t) /\ AsLinked(s, m, t) /\ Same(s, m, StateLists)
  BY SchedIs, RemoveStateWF
<1> HIDE DEF m
<1>2. /\ WF(r) /\ Others(m, r, t) /\ Unlinked(r, t) /\ AsListed(m, r, t)
      /\ Same(m, r, {"events", "pendingReady"})
      /\ \A l \in EventLists : \A u : Contains(r.events[l], u) <=> Contains(m.events[l], u) /\ u # t
      /\ \A u : Contains(r.pendingReady, u) <=> Contains(m.pendingReady, u) /\ u # t
  BY <1>1, RemoveEventWF
<1> HIDE DEF r
<1>3. Others(s, r, t)
  BY <1>1, <1>2, OthersTransitive
<1>4. Away(r, t)
  BY <1>1, <1>2 DEF Away, AsListed, Dormant
<1>5. Same(s, r, DetachFields)
  BY <1>1, <1>2 DEF Same, DetachFields, StateLists
<1>6. m.events = s.events /\ m.pendingReady = s.pendingReady
  BY <1>1 DEF Same, StateLists, SchedFields
<1>7. s.pendingReady = << >> => r.pendingReady = << >>
  BY <1>2, <1>6, WFParts, NonEmptyLists, EmptyLists
<1>8. r = Detach(s, t)
  BY DEF Detach, r, m
<1> QED
  BY <1>2, <1>3, <1>4, <1>5, <1>6, <1>7, <1>8

(* What a task does to another or to itself that makes it leave all events. *)
Parked(s, r, t) ==
  /\ SchedOK(r) /\ r.current = s.current /\ r.suspendedAll = s.suspendedAll
  /\ r.pendsv = s.pendsv
  /\ t # s.current /\ Ready(s, s.current) => Ready(r, r.current)
  /\ s.pendingReady = << >> => r.pendingReady = << >>
  /\ \A u \in Tasks : Milder(s, r, u)
  /\ r.bits = s.bits /\ r.entry = s.entry /\ r.evValue = s.evValue /\ r.tick = s.tick
  /\ r.notify[t] # "waiting" /\ Unlinked(r, t) /\ ListedIn(r, t)

LEMMA ParkedOK ==
  ASSUME NEW s, SchedOK(s), NEW t \in Tasks \ {Idle}, NEW r, WF(r), Others(s, r, t),
         Unlinked(r, t), Placed(r, t), r.notify[t] # "waiting", ListedIn(r, t),
         Same(s, r, DetachFields \cup {"notify"}), s.pendingReady = << >> => r.pendingReady = << >>
  PROVE  Parked(s, r, t)
<1>1. /\ r.current = s.current /\ r.suspendedAll = s.suspendedAll /\ r.pendsv = s.pendsv
      /\ r.bits = s.bits /\ r.entry = s.entry /\ r.evValue = s.evValue /\ r.tick = s.tick
  BY DEF Same, DetachFields, StateLists, SchedFields
<1>2. /\ SchedOK(r)
      /\ t # s.current /\ Ready(s, s.current) => Ready(r, r.current)
  BY <1>1, ElsewhereOK
<1>3. \A u \in Tasks \ {t} : Milder(s, r, u)
  BY <1>1, SchedOKBut, OthersMilder DEF OKBut
<1>4. Milder(s, r, t)
  BY <1>1 DEF Milder, Unlinked
<1> QED
  BY <1>1, <1>2, <1>3, <1>4 DEF Parked

Suspended(s, t) ==
  [Detach(s, t) EXCEPT !.suspended = Append(@, t),
                       !.notify[t] = IF @ = "waiting" THEN "not waiting" ELSE @]

Deleted(s, t) == [Detach(s, t) EXCEPT !.terminating = Append(@, t)]

LEMMA SuspendedTaskOK ==
  ASSUME NEW s, SchedOK(s), NEW t \in Tasks \ {Idle}
  PROVE  Parked(s, Suspended(s, t), t)
<1> DEFINE m == Detach(s, t)
           r == [m EXCEPT !.suspended = Append(@, t),
                          !.notify[t] = IF @ = "waiting" THEN "not waiting" ELSE @]
<1>1. /\ WF(m) /\ Others(s, m, t) /\ Away(m, t) /\ Unlinked(m, t) /\ Same(s, m, DetachFields)
      /\ s.pendingReady = << >> => m.pendingReady = << >>
  BY DetachWF
<1>2. r = Suspended(s, t)
  BY DEF Suspended
<1> HIDE DEF m
<1>3. /\ IsSched(m) /\ m.notify = [u \in Tasks |-> m.notify[u]] /\ IsList(m.suspended)
      /\ ~Contains(m.suspended, t)
  BY <1>1, WFParts DEF WF, Shaped, Away, Dormant
<1>4. /\ IsSched(r) /\ Same(m, r, {"suspended", "notify"}) /\ r.suspended = Append(m.suspended, t)
  BY <1>3 DEF IsSched, SchedFields, Same
<1>5. r.notify = [m.notify EXCEPT ![t] = IF m.notify[t] = "waiting" THEN "not waiting" ELSE m.notify[t]]
  BY <1>3 DEF IsSched, SchedFields
<1> HIDE DEF r
<1>6. /\ IsList(r.suspended) /\ \A y : Contains(r.suspended, y) <=> Contains(m.suspended, y) \/ y = t
  BY <1>3, <1>4, AppendList
<1>7. /\ r.ready = m.ready /\ r.delayed = m.delayed /\ r.overflow = m.overflow
      /\ r.terminating = m.terminating /\ r.events = m.events /\ r.pendingReady = m.pendingReady
      /\ r.prio = m.prio
  BY <1>4 DEF Same, SchedFields
<1>8. /\ r.notify = [u \in Tasks |-> r.notify[u]] /\ r.notify[t] # "waiting"
      /\ \A u \in Tasks \ {t} : r.notify[u] = m.notify[u]
  BY <1>3, <1>5
<1>9. WF(r)
  <2>1. HasLists(r)
    BY <1>1, <1>6, <1>7 DEF WF, HasLists
  <2>2. Shaped(r)
    BY <1>1, <1>4, <1>8 DEF WF, Shaped, IsSched, Same, SchedFields
  <2> QED
    BY <2>1, <2>2 DEF WF
<1>10. Others(m, r, t)
  BY <1>6, <1>7, <1>8 DEF Others, AsListed, AsLinked
<1>11. Others(s, r, t)
  BY <1>1, <1>10, OthersTransitive
<1>12. Unlinked(r, t) /\ Contains(r.suspended, t)
  BY <1>1, <1>6, <1>7 DEF Unlinked
<1>13. Placed(r, t) /\ ListedIn(r, t)
  BY <1>1, <1>7, <1>12 DEF Placed, ListedIn, Dormant, Away, Unlinked
<1>14. Same(s, r, DetachFields \cup {"notify"})
  BY <1>1, <1>4 DEF Same, DetachFields, StateLists
<1>15. s.pendingReady = << >> => r.pendingReady = << >>
  BY <1>1, <1>7
<1> QED
  BY <1>2, <1>8, <1>9, <1>11, <1>12, <1>13, <1>14, <1>15, ParkedOK

LEMMA DeletedTaskOK ==
  ASSUME NEW s, SchedOK(s), NEW t \in Tasks \ {Idle}, s.notify[t] # "waiting"
  PROVE  Parked(s, Deleted(s, t), t)
<1> DEFINE m == Detach(s, t)
           r == [m EXCEPT !.terminating = Append(@, t)]
<1>1. /\ WF(m) /\ Others(s, m, t) /\ Away(m, t) /\ Unlinked(m, t) /\ Same(s, m, DetachFields)
      /\ s.pendingReady = << >> => m.pendingReady = << >>
  BY DetachWF
<1>2. r = Deleted(s, t)
  BY DEF Deleted
<1> HIDE DEF m
<1>3. /\ IsSched(m) /\ IsList(m.terminating) /\ ~Contains(m.terminating, t)
  BY <1>1, WFParts DEF Away
<1>4. /\ IsSched(r) /\ Same(m, r, {"terminating"}) /\ r.terminating = Append(m.terminating, t)
  BY <1>3 DEF IsSched, SchedFields, Same
<1> HIDE DEF r
<1>6. /\ IsList(r.terminating) /\ \A y : Contains(r.terminating, y) <=> Contains(m.terminating, y) \/ y = t
  BY <1>3, <1>4, AppendList
<1>7. /\ r.ready = m.ready /\ r.delayed = m.delayed /\ r.overflow = m.overflow
      /\ r.suspended = m.suspended /\ r.events = m.events /\ r.pendingReady = m.pendingReady
      /\ r.prio = m.prio /\ r.notify = m.notify /\ m.notify = s.notify
  BY <1>1, <1>4 DEF Same, SchedFields, DetachFields, StateLists
<1>9. WF(r)
  <2>1. HasLists(r)
    BY <1>1, <1>6, <1>7 DEF WF, HasLists
  <2>2. Shaped(r)
    BY <1>1, <1>4 DEF WF, Shaped, IsSched, Same, SchedFields
  <2> QED
    BY <2>1, <2>2 DEF WF
<1>10. Others(m, r, t)
  BY <1>6, <1>7 DEF Others, AsListed, AsLinked
<1>11. Others(s, r, t)
  BY <1>1, <1>10, OthersTransitive
<1>12. Unlinked(r, t) /\ Contains(r.terminating, t)
  BY <1>1, <1>6, <1>7 DEF Unlinked
<1>13. Placed(r, t) /\ ListedIn(r, t)
  BY <1>1, <1>7, <1>12 DEF Placed, ListedIn, Dormant, Away, Unlinked
<1>14. Same(s, r, DetachFields \cup {"notify"})
  BY <1>1, <1>4 DEF Same, DetachFields, StateLists
<1>15. s.pendingReady = << >> => r.pendingReady = << >>
  BY <1>1, <1>7
<1> QED
  BY <1>2, <1>7, <1>9, <1>11, <1>12, <1>13, <1>14, <1>15, ParkedOK

----------------------------------------------------------------------------
(* Tasks are created and freed. *)

NewTaskFields == {"prio", "base", "held", "evValue", "bits", "notify", "value"}

Fresh(s, r, t) ==
  /\ WF(r) /\ Others(s, r, t) /\ AsListed(s, r, t) /\ AsLinked(s, r, t)
  /\ Same(s, r, NewTaskFields)
  /\ r.notify[t] = "not waiting" /\ r.evValue[t] \in 1..MaxPriorities
  /\ \A u \in Tasks \ {t} : r.evValue[u] = s.evValue[u] /\ r.bits[u] = s.bits[u]

LEMMA NewTaskWF ==
  ASSUME NEW s, WF(s), NEW t \in Tasks, NEW p \in Priorities
  PROVE  Fresh(s, InitialiseNewTask(s, t, p), t) /\ InitialiseNewTask(s, t, p).prio[t] = p
<1> DEFINE r == InitialiseNewTask(s, t, p)
           e == MaxPriorities - p
<1>1. /\ IsSched(s) /\ s.prio \in [Tasks -> Priorities] /\ s.base \in [Tasks -> Priorities]
      /\ s.notify = [u \in Tasks |-> s.notify[u]] /\ s.evValue = [u \in Tasks |-> s.evValue[u]]
      /\ s.bits = [u \in Tasks |-> s.bits[u]]
  BY WFParts DEF WF, Shaped
<1>2. e \in 1..MaxPriorities
  BY EventValue
<1>3. r = [s EXCEPT !.prio[t] = p, !.base[t] = p, !.held[t] = 0, !.evValue[t] = e,
                    !.bits[t] = NoBits, !.notify[t] = "not waiting", !.value[t] = 0]
  BY DEF InitialiseNewTask
<1> HIDE DEF r, e
<1>4. IsSched(r)
  BY <1>1, <1>3, ZenonT(30) DEF IsSched, SchedFields
<1>5. Same(s, r, NewTaskFields)
  BY <1>1, <1>3 DEF IsSched, SchedFields, Same, NewTaskFields
<1>6. /\ r.prio = [s.prio EXCEPT ![t] = p] /\ r.base = [s.base EXCEPT ![t] = p]
      /\ r.evValue = [s.evValue EXCEPT ![t] = e]
      /\ r.notify = [s.notify EXCEPT ![t] = "not waiting"]
      /\ r.bits = [s.bits EXCEPT ![t] = NoBits]
  BY <1>1, <1>3 DEF IsSched, SchedFields
<1>7. /\ r.ready = s.ready /\ r.delayed = s.delayed /\ r.overflow = s.overflow
      /\ r.suspended = s.suspended /\ r.terminating = s.terminating /\ r.events = s.events
      /\ r.pendingReady = s.pendingReady /\ r.entry = s.entry /\ r.current = s.current
      /\ r.top = s.top /\ r.suspendedAll = s.suspendedAll /\ r.pendedTicks = s.pendedTicks
  BY <1>5 DEF Same, NewTaskFields, SchedFields
<1>8. /\ r.prio \in [Tasks -> Priorities] /\ r.base \in [Tasks -> Priorities]
      /\ r.notify = [u \in Tasks |-> r.notify[u]] /\ r.evValue = [u \in Tasks |-> r.evValue[u]]
      /\ r.bits = [u \in Tasks |-> r.bits[u]]
      /\ r.prio[t] = p /\ r.notify[t] = "not waiting" /\ r.evValue[t] = e
      /\ \A u \in Tasks \ {t} : /\ r.evValue[u] = s.evValue[u] /\ r.bits[u] = s.bits[u]
                                /\ r.prio[u] = s.prio[u] /\ r.notify[u] = s.notify[u]
  <2>1. r.prio \in [Tasks -> Priorities] /\ r.prio[t] = p
        /\ \A u \in Tasks \ {t} : r.prio[u] = s.prio[u]
    <3>1. s.prio \in [Tasks -> Priorities] /\ r.prio = [s.prio EXCEPT ![t] = p]
      BY <1>1, <1>6
    <3> QED
      BY <3>1
  <2>2. r.base \in [Tasks -> Priorities]
    BY <1>1, <1>6, ZenonT(30)
  <2>3. r.notify = [u \in Tasks |-> r.notify[u]] /\ r.notify[t] = "not waiting"
        /\ \A u \in Tasks \ {t} : r.notify[u] = s.notify[u]
    BY <1>1, <1>6
  <2>4. r.evValue = [u \in Tasks |-> r.evValue[u]] /\ r.evValue[t] = e
        /\ \A u \in Tasks \ {t} : r.evValue[u] = s.evValue[u]
    BY <1>1, <1>6
  <2>5. r.bits = [u \in Tasks |-> r.bits[u]] /\ \A u \in Tasks \ {t} : r.bits[u] = s.bits[u]
    BY <1>1, <1>6
  <2> QED
    BY <2>1, <2>2, <2>3, <2>4, <2>5
<1>9. WF(r)
  <2>1. HasLists(r)
    BY <1>7 DEF WF, HasLists
  <2>2. Shaped(r)
    BY <1>4, <1>7, <1>8 DEF WF, Shaped, IsSched
  <2> QED
    BY <2>1, <2>2 DEF WF
<1>10. Others(s, r, t) /\ AsListed(s, r, t) /\ AsLinked(s, r, t)
  BY <1>7, <1>8 DEF Others, AsListed, AsLinked
<1> QED
  BY <1>2, <1>5, <1>8, <1>9, <1>10 DEF r, Fresh

(* A task is gone, and nobody else has noticed. *)
Gone(s, r, t) ==
  /\ SchedOK(r) /\ r.current = s.current /\ r.suspendedAll = s.suspendedAll
  /\ r.pendsv = s.pendsv /\ r.tick = s.tick
  /\ Ready(s, s.current) => Ready(r, r.current)
  /\ s.pendingReady = << >> => r.pendingReady = << >>
  /\ \A u \in Tasks \ {t} : Milder(s, r, u) /\ r.bits[u] = s.bits[u] /\ r.entry[u] = s.entry[u]
  /\ r.notify[t] # "waiting" /\ r.evValue[t] \in 1..MaxPriorities /\ Unlinked(r, t)
  /\ r.entry[t] = NoEntry

LEMMA GoneOK ==
  ASSUME NEW s, SchedOK(s), NEW t \in Tasks \ {Idle}, t # s.current, NEW m, WF(m), Others(s, m, t),
         Away(m, t), Unlinked(m, t), Same(s, m, DetachFields),
         s.pendingReady = << >> => m.pendingReady = << >>
  PROVE  Gone(s, Freed(m, t), t)
<1> DEFINE n == InitialiseNewTask(m, t, 0)
           r == [n EXCEPT !.entry[t] = NoEntry]
<1>1. /\ WF(n) /\ Others(m, n, t) /\ AsListed(m, n, t) /\ AsLinked(m, n, t)
      /\ Same(m, n, NewTaskFields) /\ n.notify[t] = "not waiting" /\ n.evValue[t] \in 1..MaxPriorities
      /\ \A u \in Tasks \ {t} : n.evValue[u] = m.evValue[u] /\ n.bits[u] = m.bits[u]
  <2>1. Fresh(m, n, t)
    BY Zero, NewTaskWF
  <2> QED
    BY <2>1 DEF Fresh
<1>2. r = Freed(m, t)
  BY DEF Freed
<1> HIDE DEF n
<1>3. IsSched(n) /\ n.entry = [u \in Tasks |-> n.entry[u]]
  BY <1>1, WFParts DEF WF, Shaped
<1>4. IsSched(r) /\ Same(n, r, {"entry"}) /\ r.entry = [n.entry EXCEPT ![t] = NoEntry]
  BY <1>3 DEF IsSched, SchedFields, Same
<1> HIDE DEF r
<1>5. /\ r.ready = n.ready /\ r.delayed = n.delayed /\ r.overflow = n.overflow
      /\ r.suspended = n.suspended /\ r.terminating = n.terminating /\ r.events = n.events
      /\ r.pendingReady = n.pendingReady /\ r.prio = n.prio /\ r.notify = n.notify
      /\ r.evValue = n.evValue /\ r.bits = n.bits /\ r.base = n.base /\ r.current = n.current
      /\ r.top = n.top /\ r.suspendedAll = n.suspendedAll /\ r.pendedTicks = n.pendedTicks
  BY <1>4 DEF Same, SchedFields
<1>6. /\ r.entry = [u \in Tasks |-> r.entry[u]] /\ r.entry[t] = NoEntry
      /\ \A u \in Tasks \ {t} : r.entry[u] = n.entry[u]
  BY <1>3, <1>4
<1>7. WF(r)
  <2>1. HasLists(r)
    BY <1>1, <1>5 DEF WF, HasLists
  <2>2. Shaped(r)
    <3>1. Shaped(n) /\ r = [f \in SchedFields |-> r[f]]
      BY <1>1, <1>4 DEF WF, IsSched
    <3> QED
      BY <1>5, <1>6, <3>1 DEF Shaped
  <2> QED
    BY <2>1, <2>2 DEF WF
<1>8. Others(n, r, t) /\ AsListed(n, r, t) /\ AsLinked(n, r, t)
  BY <1>5 DEF Others, AsListed, AsLinked
<1>9. Others(s, r, t)
  <2>1. Others(s, n, t)
    BY <1>1, OthersTransitive
  <2> QED
    BY <1>8, <2>1, OthersTransitive
<1>10. Away(r, t) /\ Unlinked(r, t)
  BY <1>1, <1>8 DEF Away, Unlinked, AsListed, AsLinked, Dormant
<1>11. Placed(r, t)
  BY <1>10 DEF Placed, Away, Unlinked, Dormant
<1>12. /\ r.current = s.current /\ r.suspendedAll = s.suspendedAll /\ r.pendsv = s.pendsv
       /\ n.entry = s.entry /\ m.evValue = s.evValue /\ m.bits = s.bits /\ r.tick = s.tick
       /\ n.pendingReady = m.pendingReady
  BY <1>1, <1>4 DEF Same, DetachFields, StateLists, NewTaskFields, SchedFields
<1>13. SchedOK(r) /\ (Ready(s, s.current) => Ready(r, r.current))
  BY <1>7, <1>9, <1>10, <1>11, <1>12, ElsewhereOK
<1>14. \A u \in Tasks \ {t} : r.evValue[u] = s.evValue[u] /\ r.bits[u] = s.bits[u]
  BY <1>1, <1>5, <1>12
<1>15. \A u \in Tasks \ {t} : Milder(s, r, u)
  BY <1>9, <1>14, SchedOKBut, OthersMilder, SMTT(30) DEF OKBut
<1>16. \A u \in Tasks \ {t} : r.entry[u] = s.entry[u]
  BY <1>6, <1>12
<1>17. s.pendingReady = << >> => r.pendingReady = << >>
  BY <1>5, <1>12
<1>18. r.notify[t] # "waiting" /\ r.evValue[t] \in 1..MaxPriorities
  BY <1>1, <1>5
<1>19. Gone(s, r, t)
  BY <1>6, <1>10, <1>12, <1>13, <1>14, <1>15, <1>16, <1>17, <1>18 DEF Gone
<1> QED
  BY <1>2, <1>19

(* xTaskCreate, into memory that nobody has. *)
CreatedIn(s, t, p) == AddToReady(InitialiseNewTask(s, t, p), t)

LEMMA CreatedOK ==
  ASSUME NEW s, SchedOK(s), NEW t \in Tasks \ {Idle}, Away(s, t), Unlinked(s, t), NEW p \in Priorities
  PROVE  LET r == CreatedIn(s, t, p)
         IN  /\ SchedOK(r) /\ Harmless(s, r) /\ Same(s, r, NewTaskFields \cup {"ready", "top"})
             /\ \A u \in Tasks \ {t} : r.bits[u] = s.bits[u]
             /\ Unlinked(r, t)
<1> DEFINE m == InitialiseNewTask(s, t, p)
           r == AddToReady(m, t)
<1>1. /\ WF(m) /\ Others(s, m, t) /\ AsListed(s, m, t) /\ AsLinked(s, m, t)
      /\ Same(s, m, NewTaskFields) /\ m.notify[t] = "not waiting" /\ m.evValue[t] \in 1..MaxPriorities
      /\ \A u \in Tasks \ {t} : m.evValue[u] = s.evValue[u] /\ m.bits[u] = s.bits[u]
  <2>1. WF(s) /\ t \in Tasks
    BY SchedIs
  <2> QED
    <3>1. Fresh(s, m, t)
      BY <2>1, NewTaskWF
    <3> QED
      BY <3>1 DEF Fresh
<1>2. r = CreatedIn(s, t, p)
  BY DEF CreatedIn
<1> HIDE DEF m
<1>3. Away(m, t) /\ Unlinked(m, t)
  BY <1>1 DEF Away, Unlinked, AsListed, AsLinked, Dormant
<1>4. /\ WF(r) /\ Others(m, r, t) /\ OnlyReady(r, t) /\ AsLinked(m, r, t)
      /\ Same(m, r, {"ready", "top"})
  BY <1>1, <1>3, AddToReadyWF
<1> HIDE DEF r
<1>5. Others(s, r, t)
  BY <1>1, <1>4, OthersTransitive
<1>6. Unlinked(r, t)
  BY <1>3, <1>4 DEF AsLinked, Unlinked
<1>7. /\ r.current = s.current /\ r.suspendedAll = s.suspendedAll /\ r.pendsv = s.pendsv
      /\ r.evValue = m.evValue /\ r.bits = m.bits /\ r.notify = m.notify
      /\ r.pendingReady = s.pendingReady /\ r.events = s.events
  BY <1>1, <1>4 DEF Same, NewTaskFields, SchedFields
<1>8. /\ SchedOK(r) /\ (Ready(s, s.current) => Ready(r, r.current))
      /\ \A u \in Tasks : ListedIn(s, u) => ListedIn(r, u)
  BY <1>4, <1>5, <1>6, <1>7, ReadiedOK
<1>9. Harmless(s, r)
  <2>1. \A u \in Tasks : Milder(s, r, u)
    BY <1>1, <1>5, <1>7, <1>8 DEF Milder, Others
  <2>2. s.pendsv => r.pendsv
    BY <1>7, Zenon
  <2> QED
    BY <1>7, <1>8, <2>1, <2>2 DEF Harmless, Mild
<1>10. Same(s, r, NewTaskFields \cup {"ready", "top"})
  BY <1>1, <1>4 DEF Same
<1> QED
  BY <1>1, <1>2, <1>6, <1>7, <1>8, <1>9, <1>10

----------------------------------------------------------------------------
(* The current task waits for a notification. *)

LEMMA AwaitsOK ==
  ASSUME NEW s, SchedOK(s), MayWait(s)
  PROVE  LET r == [s EXCEPT !.notify[s.current] = "waiting"]
         IN  /\ SchedOK(r) /\ Same(s, r, {"notify"}) /\ Unlinked(r, r.current)
             /\ \A u \in Tasks \ {s.current} : r.notify[u] = s.notify[u]
<1> DEFINE c == s.current
           r == [s EXCEPT !.notify[c] = "waiting"]
<1>1. /\ IsSched(s) /\ c \in Tasks /\ s.notify = [u \in Tasks |-> s.notify[u]]
  BY SchedIs DEF SchedOK, Shaped
<1> HIDE DEF c
<1>2. IsSched(r) /\ Same(s, r, {"notify"}) /\ r.notify = [s.notify EXCEPT ![c] = "waiting"]
  BY <1>1 DEF IsSched, SchedFields, Same
<1> HIDE DEF r
<1>3. /\ r.notify = [u \in Tasks |-> r.notify[u]]
      /\ \A u \in Tasks \ {c} : r.notify[u] = s.notify[u]
  BY <1>1, <1>2
<1>4. /\ r.ready = s.ready /\ r.delayed = s.delayed /\ r.overflow = s.overflow
      /\ r.suspended = s.suspended /\ r.terminating = s.terminating /\ r.events = s.events
      /\ r.pendingReady = s.pendingReady /\ r.prio = s.prio /\ r.current = s.current
  BY <1>2 DEF Same, SchedFields
<1>5. Shaped(r)
  BY <1>2, <1>3 DEF SchedOK, Shaped, IsSched, Same, SchedFields
<1>6. HasLists(r)
  BY <1>4 DEF SchedOK, HasLists
<1>7. Unlinked(r, c)
  BY <1>4 DEF MayWait, Unlinked, c
<1>8. OnePlace(r)
  <2>1. ASSUME NEW u \in Tasks PROVE Placed(r, u)
    <3>1. r.notify[u] = "waiting" => Unlinked(r, u)
      BY <1>3, <1>4, <1>7 DEF SchedOK, OnePlace, Placed, Unlinked
    <3> QED
      BY <1>4, <3>1 DEF SchedOK, OnePlace, Placed, Dormant
  <2> QED
    BY <2>1 DEF OnePlace
<1>9. IdleReady(r) /\ CurrentApart(r)
  BY <1>4 DEF SchedOK, IdleReady, CurrentApart, Ready
<1> QED
  BY <1>2, <1>3, <1>4, <1>5, <1>6, <1>7, <1>8, <1>9 DEF SchedOK, r, c

(* What it leaves. *)
Expects(s, r, wait) ==
  /\ SchedOK(r) /\ r.current = s.current /\ r.suspendedAll = s.suspendedAll
  /\ r.pendingReady = s.pendingReady /\ r.evValue = s.evValue /\ r.events = s.events
  /\ r.bits = s.bits /\ r.entry = s.entry /\ r.tick = s.tick
  /\ \A u \in Tasks \ {s.current} : Milder(s, r, u)
  /\ Ready(r, r.current) \/ r.pendsv
  /\ ListedIn(r, r.current)

LEMMA AwaitNotificationOK ==
  ASSUME NEW s, SchedOK(s), MayWait(s), Ready(s, s.current), NEW wait
  PROVE  Expects(s, AwaitNotification(s, wait), wait)
<1> DEFINE w == [s EXCEPT !.notify[s.current] = "waiting"]
           m == AddCurrentToDelayed(w, wait, TRUE)
           r == Yield(m)
<1>1. /\ SchedOK(w) /\ Same(s, w, {"notify"}) /\ Unlinked(w, w.current)
      /\ \A u \in Tasks \ {s.current} : w.notify[u] = s.notify[u]
  BY AwaitsOK
<1>2. AwaitNotification(s, wait) = IF wait > 0 THEN r ELSE w
  BY DEF AwaitNotification
<1> HIDE DEF w
<1>3. /\ w.current = s.current /\ w.suspendedAll = s.suspendedAll /\ w.pendingReady = s.pendingReady
      /\ w.evValue = s.evValue /\ w.events = s.events /\ w.bits = s.bits /\ w.entry = s.entry
      /\ w.tick = s.tick /\ w.ready = s.ready /\ w.prio = s.prio /\ w.delayed = s.delayed
      /\ w.overflow = s.overflow /\ w.suspended = s.suspended /\ w.terminating = s.terminating
  BY <1>1 DEF Same, SchedFields
<1>4. Ready(w, w.current) /\ s.prio[s.current] \in Priorities /\ s.current \in Tasks
  BY <1>3, SchedIs, WFParts DEF Ready
<1>5. ListedIn(w, w.current)
  BY <1>3, <1>4 DEF ListedIn, Ready
<1>6. \A u \in Tasks \ {s.current} : Milder(s, w, u)
  BY <1>1, <1>3 DEF Milder, ListedIn, Dormant
<1>7. CASE wait > 0
  <2>1. /\ Leaves(w, m) /\ m.evValue = w.evValue /\ AsLinked(w, m, w.current)
        /\ Same(w, m, StateLists \cup {"nextUnblock"})
    BY <1>1, <1>3, DelayLeaves DEF MayWait
  <2> HIDE DEF m
  <2>2. SchedOK(m)
    BY <2>1 DEF Leaves
  <2>3. SchedOK(r) /\ r.pendsv /\ Same(m, r, {"pendsv"}) /\ Harmless(m, r)
    BY <2>2, YieldOK
  <2> HIDE DEF r
  <2>4. /\ r.current = s.current /\ r.suspendedAll = s.suspendedAll /\ r.pendingReady = s.pendingReady
        /\ r.evValue = s.evValue /\ r.events = s.events /\ r.bits = s.bits /\ r.entry = s.entry
        /\ r.tick = s.tick
    BY <1>3, <2>1, <2>3 DEF Same, SchedFields, StateLists
  <2>5. \A u \in Tasks \ {s.current} : Milder(s, r, u)
    BY <1>3, <1>6, <2>1, <2>3 DEF Leaves, Harmless, Mild, Milder
  <2>6. ListedIn(r, r.current)
    <3>1. m.current \in Tasks /\ ListedIn(m, m.current)
      BY <2>1, <2>2, SchedIs DEF Leaves, ListedIn
    <3> QED
      BY <2>3, <3>1 DEF Harmless, Mild, Milder
  <2> QED
    BY <1>2, <1>7, <2>3, <2>4, <2>5, <2>6 DEF Expects
<1>8. CASE ~(wait > 0)
  BY <1>1, <1>2, <1>3, <1>4, <1>5, <1>6, <1>8 DEF Expects
<1> QED
  BY <1>7, <1>8

(* uxTaskResetEventItemValue. *)
ItemReset(s, v) == [s EXCEPT !.bits[s.current] = NoBits, !.evValue[s.current] = v]

LEMMA ItemResetOK ==
  ASSUME NEW s, SchedOK(s), NEW v \in 1..MaxPriorities
  PROVE  LET r == ItemReset(s, v)
         IN  /\ SchedOK(r) /\ Harmless(s, r) /\ Same(s, r, {"bits", "evValue"})
             /\ r.evValue[r.current] \in 1..MaxPriorities
             /\ \A u \in Tasks \ {s.current} : r.bits[u] = s.bits[u]
<1> DEFINE c == s.current
           b == [s.bits EXCEPT ![c] = NoBits]
           m == [s EXCEPT !.bits = b]
           r == [m EXCEPT !.evValue[c] = v]
<1>0. /\ IsSched(s) /\ c \in Tasks /\ s.bits = [t \in Tasks |-> s.bits[t]]
  BY SchedIs
<1>1. r = ItemReset(s, v)
  BY <1>0 DEF ItemReset, IsSched, SchedFields
<1>2. /\ b = [t \in Tasks |-> b[t]] /\ \A u \in Tasks \ {c} : b[u] = s.bits[u]
  BY <1>0
<1> HIDE DEF b
<1>3. SchedOK(m) /\ Harmless(s, m) /\ Same(s, m, {"bits"}) /\ m.bits = b
  BY <1>2, BitsOK
<1> HIDE DEF m
<1>4. SchedOK(r) /\ Harmless(m, r) /\ Same(m, r, {"evValue"})
  BY <1>0, <1>3, EvValueOK
<1>5. r.evValue[c] = v
  <2>1. IsSched(m) /\ m.evValue = [t \in Tasks |-> m.evValue[t]]
    BY <1>3, SchedIs DEF SchedOK, Shaped
  <2> QED
    BY <1>0, <2>1 DEF IsSched, SchedFields
<1> HIDE DEF r
<1>6. Harmless(s, r) /\ Same(s, r, {"bits", "evValue"}) /\ r.bits = b /\ r.current = c
  BY <1>3, <1>4, HarmlessTransitive DEF Same, SchedFields
<1> QED
  BY <1>1, <1>2, <1>4, <1>5, <1>6

----------------------------------------------------------------------------
(* The current task and the others. *)

----------------------------------------------------------------------------
(* vTaskSwitchContext. *)

LEMMA SelectHighestOK ==
  ASSUME NEW s, SchedOK(s), s.pendingReady = << >>
  PROVE  LET r == SelectHighest(s)
         IN  /\ SchedOK(r) /\ Ready(r, r.current) /\ Same(s, r, {"ready", "current", "top"})
             /\ \A t \in Tasks : ListedIn(s, t) <=> ListedIn(r, t)
<1> DEFINE T == {q \in 0..s.top : s.ready[q].items # << >>}
           p == Max(T)
           list == Advance(s.ready[p])
           c == AtIndex(list)
           r == [s EXCEPT !.ready[p] = list, !.current = c, !.top = p]
<1>1. r = SelectHighest(s)
  BY DEF SelectHighest
<1>2. /\ IsSched(s) /\ s.ready = [q \in Priorities |-> s.ready[q]] /\ s.top \in Priorities
      /\ \A q \in Priorities : IsRing(s.ready[q])
  BY SchedIs, WFParts DEF SchedOK, Shaped
<1>3. s.top \in Nat /\ 0..s.top \subseteq Priorities /\ 0 \in 0..s.top
  BY <1>2, Zero DEF Priorities
<1>4. T \in SUBSET (0..s.top) /\ 0 \in T
  <2>1. s.ready[0].items # << >>
    BY EmptyLists DEF SchedOK, IdleReady
  <2> QED
    BY <1>3, <2>1
<1>5. p \in T
  <2> HIDE DEF T
  <2> QED
    BY <1>3, <1>4, MaxIsLargest
<1>6. p \in Priorities /\ s.ready[p].items # << >>
  BY <1>3, <1>5
<1> HIDE DEF T, p
<1>7. /\ IsRing(list) /\ list.items = s.ready[p].items
      /\ c \in Tasks /\ Contains(s.ready[p].items, c)
  BY <1>2, <1>6, AdvanceRing
<1> HIDE DEF list, c
<1>8. IsSched(r)
  BY <1>2 DEF IsSched, SchedFields
<1>9. Same(s, r, {"ready", "current", "top"})
  BY <1>2 DEF IsSched, SchedFields, Same
<1>10. r.ready = [s.ready EXCEPT ![p] = list] /\ r.current = c /\ r.top = p
  BY <1>2 DEF IsSched, SchedFields
<1> HIDE DEF r
<1>11. /\ r.delayed = s.delayed /\ r.overflow = s.overflow /\ r.suspended = s.suspended
       /\ r.terminating = s.terminating /\ r.events = s.events /\ r.pendingReady = s.pendingReady
       /\ r.prio = s.prio /\ r.notify = s.notify /\ r.base = s.base /\ r.evValue = s.evValue
       /\ r.bits = s.bits /\ r.entry = s.entry /\ r.suspendedAll = s.suspendedAll
       /\ r.pendedTicks = s.pendedTicks
  BY <1>9 DEF Same, SchedFields
<1>12. r.ready = [q \in Priorities |-> r.ready[q]]
  BY <1>2, <1>10
<1>13. \A q \in Priorities : IsRing(r.ready[q]) /\ r.ready[q].items = s.ready[q].items
  <2>1. r.ready[p] = list
    BY <1>2, <1>6, <1>10
  <2>2. \A q \in Priorities : q # p => r.ready[q] = s.ready[q]
    BY <1>2, <1>10
  <2> QED
    BY <1>2, <1>7, <2>1, <2>2
<1>14. Shaped(r)
  <2>1. Shaped(s) /\ r = [f \in SchedFields |-> r[f]] /\ r.current \in Tasks /\ r.top \in Priorities
    BY <1>6, <1>7, <1>8, <1>10 DEF SchedOK, IsSched
  <2> QED
    BY <1>11, <1>12, <2>1 DEF Shaped
<1>15. HasLists(r)
  BY <1>11, <1>13 DEF SchedOK, HasLists
<1>16. OnePlace(r)
  <2>1. ASSUME NEW t \in Tasks PROVE Placed(r, t)
    <3>1. Placed(s, t)
      BY DEF SchedOK, OnePlace
    <3>2. (Dormant(r, t) <=> Dormant(s, t)) /\ (Unlinked(r, t) <=> Unlinked(s, t))
      BY <1>11 DEF Dormant, Unlinked
    <3> QED
      BY <1>11, <1>13, <3>1, <3>2 DEF Placed
  <2> QED
    BY <2>1 DEF OnePlace
<1>17. IdleReady(r)
  BY <1>11, <1>13, Zero DEF SchedOK, IdleReady
<1>18. CurrentApart(r)
  BY <1>11, EmptyLists DEF CurrentApart
<1>19. Ready(r, r.current)
  <2>1. p = s.prio[c]
    BY <1>6, <1>7 DEF SchedOK, OnePlace, Placed
  <2> QED
    BY <1>6, <1>7, <1>10, <1>11, <1>13, <2>1 DEF Ready
<1>20. \A t \in Tasks : ListedIn(s, t) <=> ListedIn(r, t)
  BY <1>11, <1>13 DEF ListedIn, Dormant
<1> QED
  BY <1>1, <1>9, <1>14, <1>15, <1>16, <1>17, <1>18, <1>19, <1>20 DEF SchedOK

LEMMA Tails ==
  /\ \A x : Tail(<<x>>) = << >> /\ <<x>> # << >>
  /\ \A x, y : Tail(<<x, y>>) = <<y>> /\ <<x, y>> # << >>
<1>1. \A x : Tail(<<x>>) = << >> /\ <<x>> # << >>
  OBVIOUS
<1>2. ASSUME NEW x, NEW y PROVE Tail(<<x, y>>) = <<y>> /\ <<x, y>> # << >>
  <2> DEFINE S == {x, y}
  <2>1. <<x, y>> \in Seq(S) /\ <<x, y>> # << >> /\ Len(<<x, y>>) = 2
    OBVIOUS
  <2>2. Len(Tail(<<x, y>>)) = 1 /\ Tail(<<x, y>>) \in Seq(S) /\ Tail(<<x, y>>)[1] = y
    BY <2>1, HeadTailProperties
  <2> QED
    BY <2>2
<1> QED
  BY <1>1, <1>2

----------------------------------------------------------------------------
(* A step of the current task. *)

StackOf(t, w) ==
  \/ w = << >> /\ t # Idle
  \/ w = <<w[1]>> /\ FrameOK(t, w[1]) /\ w[1].op # "waitRestricted"
  \/ w = <<w[1], w[2]>> /\ FrameOK(t, w[1]) /\ FrameOK(t, w[2]) /\ Over(w[1], w[2])

FirstOf(w) == IF w = << >> THEN NoFrame ELSE w[1]

(* What the step may leave, when f is what the task is in then. *)
Lands(s, r, f) ==
  /\ SchedOK(r) /\ r.current = s.current
  /\ \A t \in Tasks \ {s.current} : Milder(s, r, t)
  /\ r.suspendedAll = IF Holds(f) THEN 1 ELSE 0
  /\ r.pendingReady # << >> => r.suspendedAll > 0
  /\ Runnable(r, f)
  /\ r.notify[r.current] = "waiting" => Awaits(f)
  /\ r.evValue[r.current] \in 1..MaxPriorities \/ Grouped(f)
  /\ \A q \in Queues :
       Contains(r.events[Received(q)], r.current) => r.evValue[r.current] \in 1..MaxPriorities
  /\ ListedIn(r, r.current)

LEMMA ReceivedList == \A q \in Queues : Received(q) \in EventLists /\ Sent(q) \in EventLists
BY DEF Received, Sent, EventLists

LEMMA WaitingList ==
  /\ \A g \in Groups : Waiting(g) \in EventLists
  /\ \A g, q : Waiting(g) # Received(q) /\ Waiting(g) # Sent(q) /\ Sent(g) # Received(q)
BY DEF Waiting, Received, Sent, EventLists

LEMMA Landed ==
  ASSUME NEW s, NEW st, Core(s, st), NEW r, NEW w, Lands(s, r, FirstOf(w)), StackOf(s.current, w)
  PROVE  Core(r, [st EXCEPT ![s.current] = w])
<1> DEFINE c == s.current
           v == [st EXCEPT ![c] = w]
<1>1. c \in Tasks /\ st = [t \in Tasks |-> st[t]] /\ r.current = c
  BY SchedIs DEF Core, StackOK, Lands
<1>2. /\ v = [t \in Tasks |-> v[t]] /\ v[c] = w
      /\ \A t \in Tasks \ {c} : v[t] = st[t]
  BY <1>1
<1> HIDE DEF v
<1>3. StackOK(v)
  <2>1. ASSUME NEW t \in Tasks
        PROVE  \/ v[t] = << >>
               \/ /\ v[t] = <<v[t][1]>> /\ FrameOK(t, v[t][1]) /\ v[t][1].op # "waitRestricted"
               \/ /\ v[t] = <<v[t][1], v[t][2]>> /\ FrameOK(t, v[t][1]) /\ FrameOK(t, v[t][2])
                  /\ Over(v[t][1], v[t][2])
    <3>1. CASE t = c
      BY <1>2, <3>1 DEF StackOf, c
    <3>2. CASE t # c
      <4>1. v[t] = st[t]
        BY <1>2, <3>2
      <4>2. StackOK(st)
        BY DEF Core
      <4> QED
        BY <4>1, <4>2 DEF StackOK
    <3> QED
      BY <3>1, <3>2
  <2>2. v[Idle] # << >>
    <3>1. st[Idle] # << >> /\ Idle \in Tasks
      BY Zero DEF Core, StackOK
    <3>2. c = Idle => w # << >>
      BY Tails DEF StackOf, c
    <3> QED
      BY <1>2, <3>1, <3>2
  <2> QED
    BY <1>2, <2>1, <2>2 DEF StackOK
<1>4. TopOf(v, c) = FirstOf(w) /\ \A t \in Tasks \ {c} : TopOf(v, t) = TopOf(st, t)
  BY <1>2 DEF TopOf, FirstOf
<1>5. Modes(r, v)
  <2>1. ASSUME NEW t \in Tasks \ {c}
        PROVE  /\ Holds(TopOf(v, t)) => t = r.current
               /\ r.notify[t] = "waiting" => Awaits(TopOf(v, t))
               /\ r.evValue[t] \in 1..MaxPriorities \/ Grouped(TopOf(v, t))
               /\ \A q \in Queues : Contains(r.events[Received(q)], t) => r.evValue[t] \in 1..MaxPriorities
               /\ v[t] # << >> => ListedIn(r, t)
    <3>1. Milder(s, r, t)
      BY <2>1 DEF Lands
    <3>2. Modes(s, st)
      BY DEF Core
    <3> QED
      BY <1>1, <1>2, <1>4, <3>1, <3>2, ReceivedList DEF Modes, Milder
  <2>2. /\ Holds(TopOf(v, c)) => c = r.current
        /\ r.notify[c] = "waiting" => Awaits(TopOf(v, c))
        /\ r.evValue[c] \in 1..MaxPriorities \/ Grouped(TopOf(v, c))
        /\ \A q \in Queues : Contains(r.events[Received(q)], c) => r.evValue[c] \in 1..MaxPriorities
        /\ v[c] # << >> => ListedIn(r, c)
    BY <1>1, <1>4 DEF Lands
  <2> QED
    BY <2>1, <2>2 DEF Modes
<1>6. RunOK(r, TopOf(v, r.current))
  BY <1>1, <1>4 DEF Lands, RunOK
<1> QED
  BY <1>3, <1>5, <1>6 DEF Core, Lands, v, c

(* A step that only wakes others. *)
Moves(s, r, f, g) ==
  /\ SchedOK(r) /\ Mild(s, r)
  /\ r.suspendedAll = IF Holds(g) THEN 1 ELSE 0
  /\ r.pendingReady # << >> => r.suspendedAll > 0
  /\ Dozes(f) \/ Parks(s, f) => Dozes(g) \/ (r.pendsv /\ r.suspendedAll = 0)
  /\ Awaits(f) => Awaits(g) \/ r.notify[r.current] # "waiting"
  /\ Grouped(f) => Grouped(g) \/ r.evValue[r.current] \in 1..MaxPriorities

LEMMA MovesLands ==
  ASSUME NEW s, NEW st, Core(s, st), ~s.pendsv, NEW r, NEW g, Moves(s, r, TopOf(st, s.current), g)
  PROVE  Lands(s, r, g)
<1> DEFINE c == s.current
<1>1. c \in Tasks /\ r.current = c /\ Modes(s, st) /\ RunOK(s, TopOf(st, c)) /\ Milder(s, r, c)
  BY SchedIs DEF Core, Moves, Mild
<1>2. Runnable(r, g)
  BY <1>1 DEF RunOK, Runnable, Moves, Mild
<1>3. /\ r.notify[c] = "waiting" => Awaits(g)
      /\ r.evValue[c] \in 1..MaxPriorities \/ Grouped(g)
  BY <1>1 DEF Moves, Milder, Modes
<1>4. \A q \in Queues : Contains(r.events[Received(q)], c) => r.evValue[c] \in 1..MaxPriorities
  BY <1>1, ReceivedList DEF Modes, Milder
<1>5. ListedIn(r, c)
  BY <1>1 DEF RunOK, Milder
<1> QED
  BY <1>1, <1>2, <1>3, <1>4, <1>5 DEF Lands, Moves, Mild

(* A harmless step that does not change the mode of the call. *)
LEMMA HarmlessMoves ==
  ASSUME NEW s, NEW st, Core(s, st), NEW r, SchedOK(r), Harmless(s, r), NEW g,
         Holds(TopOf(st, s.current)) <=> Holds(g),
         Dozes(TopOf(st, s.current)) \/ Parks(s, TopOf(st, s.current)) =>
           Dozes(g) \/ (r.pendsv /\ ~Holds(g)),
         Awaits(TopOf(st, s.current)) => Awaits(g) \/ r.notify[r.current] # "waiting",
         Grouped(TopOf(st, s.current)) => Grouped(g) \/ r.evValue[r.current] \in 1..MaxPriorities
  PROVE  Moves(s, r, TopOf(st, s.current), g)
<1>1. r.suspendedAll = IF Holds(g) THEN 1 ELSE 0
  BY DEF Harmless, Core, RunOK
<1>2. r.pendingReady # << >> => r.suspendedAll > 0
  <2>1. r.suspendedAll = s.suspendedAll /\ (s.suspendedAll = 0 => r.pendingReady = << >>)
    BY DEF Harmless, Core, RunOK
  <2>2. r.suspendedAll \in Nat
    BY SchedIs
  <2> QED
    BY <2>1, <2>2
<1> QED
  BY <1>1, <1>2 DEF Moves, Harmless

(* The frame on top is replaced by another of the same operation. *)
LEMMA TopReplaced ==
  ASSUME NEW st, StackOK(st), NEW t \in Tasks, st[t] # << >>, NEW f, FrameOK(t, f), f.op = st[t][1].op
  PROVE  StackOf(t, [st[t] EXCEPT ![1] = f]) /\ FirstOf([st[t] EXCEPT ![1] = f]) = f
<1> DEFINE w == [st[t] EXCEPT ![1] = f]
<1>1. CASE st[t] = <<st[t][1]>> /\ st[t][1].op # "waitRestricted"
  <2>1. w = <<f>>
    BY <1>1
  <2> QED
    BY <1>1, <2>1 DEF StackOf, FirstOf
<1>2. CASE st[t] = <<st[t][1], st[t][2]>> /\ FrameOK(t, st[t][2]) /\ Over(st[t][1], st[t][2])
  <2>1. w = <<f, st[t][2]>>
    BY <1>2
  <2>2. Over(f, st[t][2])
    BY <1>2 DEF Over
  <2> QED
    BY <1>2, <2>1, <2>2 DEF StackOf, FirstOf
<1> QED
  BY <1>1, <1>2 DEF StackOK

(* What is beneath a call that returns. *)
LEMMA Popped ==
  ASSUME NEW st, StackOK(st), NEW t \in Tasks \ {Idle}, st[t] # << >>, st[t][1].op # "waitRestricted"
  PROVE  LET w == Tail(st[t])
             f == FirstOf(w)
         IN  StackOf(t, w) /\ ~Holds(f) /\ ~Dozes(f) /\ ~Awaits(f) /\ ~Grouped(f)
<1>1. CASE st[t] = <<st[t][1]>>
  <2>1. Tail(st[t]) = << >>
    <3> DEFINE x == st[t][1]
    <3>1. st[t] = <<x>>
      BY <1>1
    <3> HIDE DEF x
    <3> QED
      BY <3>1, Tails
  <2> QED
    BY <2>1 DEF StackOf, FirstOf, NoFrame, Holds, Dozes, Awaits, Grouped, QueueOps
<1>2. CASE st[t] = <<st[t][1], st[t][2]>> /\ FrameOK(t, st[t][2]) /\ Over(st[t][1], st[t][2])
  <2> DEFINE g == st[t][2]
  <2>1. Tail(st[t]) = <<g>>
    <3> DEFINE x == st[t][1]
    <3>1. st[t] = <<x, g>>
      BY <1>2
    <3> HIDE DEF x, g
    <3> QED
      BY <3>1, Tails
  <2>2. \/ g.op \in {"sendStream", "receiveStream"} /\ g.at = "notified"
        \/ g.op = "timerTask" /\ g.at = "commands"
    BY <1>2 DEF Over
  <2>3. FrameOK(t, g)
    BY <1>2
  <2> HIDE DEF g
  <2>4. ~Holds(g) /\ ~Dozes(g) /\ ~Awaits(g) /\ ~Grouped(g)
    BY <2>2 DEF Holds, Dozes, Awaits, Grouped, QueueOps
  <2>5. StackOf(t, <<g>>) /\ FirstOf(<<g>>) = g
    BY <2>2, <2>3 DEF StackOf, FirstOf
  <2> QED
    BY <2>1, <2>4, <2>5
<1> QED
  BY <1>1, <1>2 DEF StackOK

(* No task that waits for bits is told anything. *)
Silent(s, r) ==
  \A g \in Groups : \A t \in Tasks :
    Contains(r.events[Waiting(g)], t) =>
      Contains(s.events[Waiting(g)], t) /\ r.bits[t] = s.bits[t]

(* What every step of the current task but one of an event group does. *)
Fine(s, st, r, v) ==
  /\ Core(r, v) /\ Silent(s, r) /\ r.current = s.current /\ ~Inherits(TopOf(v, r.current))

Quiet(s, f) == ~Holds(f) /\ ~Dozes(f) /\ ~Parks(s, f) /\ ~Awaits(f) /\ ~Grouped(f)

(* The current task is in a call. *)
Busy(s, st) == Core(s, st) /\ ~s.pendsv /\ st[s.current] # << >>

LEMMA SilentMild ==
  ASSUME NEW s, NEW r, Mild(s, r), r.bits = s.bits
  PROVE  Silent(s, r)
BY WaitingList DEF Silent, Mild, Milder

LEMMA BusyParts ==
  ASSUME NEW s, NEW st, Busy(s, st)
  PROVE  LET f == st[s.current][1]
         IN  /\ TopOf(st, s.current) = f /\ FrameOK(s.current, f) /\ IsFrame(f)
             /\ s.current \in Tasks /\ SchedOK(s) /\ StackOK(st) /\ RunOK(s, f)
             /\ s.current # Idle <=> f.op # "idle"
             /\ s.current # Idle => Proper(f)
             /\ Holds(f) => s.suspendedAll = 1
             /\ ~Holds(f) => s.suspendedAll = 0 /\ s.pendingReady = << >>
             /\ Ready(s, s.current) \/ Dozes(f) \/ Parks(s, f)
             /\ s.notify[s.current] = "waiting" => Awaits(f)
             /\ s.evValue[s.current] \in 1..MaxPriorities \/ Grouped(f)
             /\ ListedIn(s, s.current)
<1> DEFINE c == s.current
           f == st[c][1]
<1>1. TopOf(st, c) = f /\ c \in Tasks /\ SchedOK(s) /\ StackOK(st) /\ RunOK(s, f) /\ Modes(s, st)
      /\ st[c] # << >>
  BY SchedIs DEF Busy, Core, TopOf
<1>2. FrameOK(c, f)
  BY <1>1 DEF StackOK
<1>3. (c # Idle <=> f.op # "idle") /\ (c # Idle => Proper(f))
  BY <1>2 DEF FrameOK, Proper
<1>4. (Holds(f) => s.suspendedAll = 1) /\ (~Holds(f) => s.suspendedAll = 0 /\ s.pendingReady = << >>)
  BY <1>1 DEF RunOK
<1>5. Ready(s, c) \/ Dozes(f) \/ Parks(s, f)
  BY <1>1 DEF RunOK, Runnable, Busy
<1>6. /\ s.notify[c] = "waiting" => Awaits(f)
      /\ s.evValue[c] \in 1..MaxPriorities \/ Grouped(f)
      /\ ListedIn(s, c)
  BY <1>1 DEF Modes, RunOK
<1> HIDE DEF f, c
<1>7. IsFrame(f)
  BY <1>2 DEF FrameOK
<1> QED
  BY <1>1, <1>2, <1>3, <1>4, <1>5, <1>6, <1>7 DEF f, c

LEMMA AtFields ==
  ASSUME NEW f, IsFrame(f), NEW at
  PROVE  LET g == [f EXCEPT !.at = at]
         IN  /\ IsFrame(g) /\ g.op = f.op /\ g.at = at /\ g.obj = f.obj /\ g.arg = f.arg
             /\ g.wait = f.wait /\ g.flag = f.flag /\ g.then = f.then
BY DEF IsFrame, FrameFields

LEMMA ProperSame ==
  ASSUME NEW f, NEW g, Proper(f), g.op = f.op, g.obj = f.obj, g.arg = f.arg
  PROVE  Proper(g)
BY DEF Proper

LEMMA FrameKept ==
  ASSUME NEW t, NEW f, FrameOK(t, f), NEW g, IsFrame(g), g.op = f.op, g.obj = f.obj, g.arg = f.arg,
         Stage(g)
  PROVE  FrameOK(t, g)
BY ProperSame DEF FrameOK

(* The top frame becomes g. *)
WithTop(st, t, g) == [st EXCEPT ![t] = [st[t] EXCEPT ![1] = g]]

PutsTop(s, r, v, g) == Core(r, v) /\ r.current = s.current /\ TopOf(v, r.current) = g

LEMMA ReplaceOK ==
  ASSUME NEW s, NEW st, Busy(s, st), NEW r, NEW g, FrameOK(s.current, g),
         g.op = st[s.current][1].op, Lands(s, r, g)
  PROVE  PutsTop(s, r, WithTop(st, s.current, g), g)
<1> DEFINE c == s.current
           w == [st[c] EXCEPT ![1] = g]
           v == [st EXCEPT ![c] = w]
<1>1. StackOK(st) /\ c \in Tasks /\ st[c] # << >> /\ Core(s, st)
  BY BusyParts DEF Busy
<1>2. StackOf(c, w) /\ FirstOf(w) = g
  BY <1>1, TopReplaced
<1> HIDE DEF w
<1>3. Core(r, v)
  BY <1>1, <1>2, Landed
<1>4. r.current = c
  BY DEF Lands
<1>5. v[c] = w
  BY <1>1 DEF StackOK
<1>6. TopOf(v, c) = g
  BY <1>2, <1>5 DEF TopOf, FirstOf
<1>7. v = WithTop(st, s.current, g)
  BY DEF w, WithTop
<1> HIDE DEF v
<1>8. PutsTop(s, r, v, g)
  BY <1>3, <1>4, <1>6 DEF PutsTop
<1> QED
  BY <1>7, <1>8

LEMMA GoToOK ==
  ASSUME NEW s, NEW st, Busy(s, st), NEW r, NEW at, NEW g, g = [st[s.current][1] EXCEPT !.at = at],
         Stage(g), Lands(s, r, g), Silent(s, r), at # "inherit"
  PROVE  Fine(s, st, r, [st EXCEPT ![s.current][1].at = at])
<1> DEFINE f == st[s.current][1]
           v == WithTop(st, s.current, g)
<1>1. IsFrame(f) /\ FrameOK(s.current, f)
  BY BusyParts
<1> HIDE DEF f
<1>2. IsFrame(g) /\ g.op = f.op /\ g.obj = f.obj /\ g.arg = f.arg /\ g.at = at
  BY <1>1, AtFields DEF f
<1>3. FrameOK(s.current, g)
  BY <1>1, <1>2, FrameKept
<1>11. g.op = st[s.current][1].op
  BY <1>2 DEF f
<1>4. PutsTop(s, r, v, g)
  BY <1>3, <1>11, ReplaceOK
<1>5. v = [st EXCEPT ![s.current][1].at = at]
  BY DEF WithTop
<1> HIDE DEF v
<1>6. Fine(s, st, r, v)
  BY <1>2, <1>4 DEF Fine, Inherits, PutsTop
<1> QED
  BY <1>5, <1>6

LEMMA ReturnOK ==
  ASSUME NEW s, NEW st, Busy(s, st), NEW r, st[s.current][1].op \notin {"waitRestricted", "idle"},
         Lands(s, r, NoFrame), Silent(s, r)
  PROVE  Fine(s, st, r, [st EXCEPT ![s.current] = Tail(@)])
<1> DEFINE c == s.current
           w == Tail(st[c])
           v == [st EXCEPT ![c] = w]
           f == FirstOf(w)
<1>1. StackOK(st) /\ c \in Tasks \ {Idle} /\ st[c] # << >> /\ Core(s, st)
  BY BusyParts DEF Busy
<1>2. StackOf(c, w) /\ ~Holds(f) /\ ~Dozes(f) /\ ~Awaits(f) /\ ~Grouped(f)
  BY <1>1, Popped
<1>3. ~Inherits(f)
  BY <1>2 DEF Inherits, Holds, QueueOps
<1> HIDE DEF w, f
<1>4. ~Holds(NoFrame) /\ ~Dozes(NoFrame) /\ ~Awaits(NoFrame) /\ ~Grouped(NoFrame)
  BY DEF NoFrame, Holds, Dozes, Awaits, Grouped, QueueOps
<1>5. ~Parks(r, NoFrame)
  BY DEF NoFrame, Parks
<1>6. Lands(s, r, f)
  BY <1>2, <1>4, <1>5 DEF Lands, Runnable
<1>7. Core(r, v)
  BY <1>1, <1>2, <1>6, Landed DEF f
<1>8. v[c] = w /\ r.current = c
  BY <1>1 DEF StackOK, Lands
<1>9. TopOf(v, c) = f
  BY <1>8 DEF TopOf, FirstOf, f
<1> HIDE DEF v
<1>10. Fine(s, st, r, v)
  BY <1>3, <1>7, <1>8, <1>9 DEF Fine
<1> QED
  BY <1>10 DEF v, w

----------------------------------------------------------------------------
(* The usual steps. *)

LEMMA QuietLands ==
  ASSUME NEW s, NEW st, Busy(s, st), Quiet(s, st[s.current][1]),
         NEW r, SchedOK(r), Harmless(s, r), NEW g, ~Holds(g)
  PROVE  Lands(s, r, g)
<1>1. Core(s, st) /\ ~s.pendsv /\ TopOf(st, s.current) = st[s.current][1]
  BY BusyParts DEF Busy
<1>2. Moves(s, r, TopOf(st, s.current), g)
  BY <1>1, HarmlessMoves DEF Quiet
<1> QED
  BY <1>1, <1>2, MovesLands

LEMMA QuietReturn ==
  ASSUME NEW s, NEW st, Busy(s, st), Quiet(s, st[s.current][1]),
         st[s.current][1].op \notin {"waitRestricted", "idle"},
         NEW r, SchedOK(r), Harmless(s, r), r.bits = s.bits
  PROVE  Fine(s, st, r, [st EXCEPT ![s.current] = Tail(@)])
<1>1. ~Holds(NoFrame)
  BY DEF NoFrame, Holds, QueueOps
<1>2. Lands(s, r, NoFrame)
  BY <1>1, QuietLands
<1>3. Silent(s, r)
  BY SilentMild DEF Harmless
<1> QED
  BY <1>2, <1>3, ReturnOK

LEMMA QuietGoTo ==
  ASSUME NEW s, NEW st, Busy(s, st), Quiet(s, st[s.current][1]),
         NEW at, NEW g, g = [st[s.current][1] EXCEPT !.at = at], Stage(g), at # "inherit", ~Holds(g),
         NEW r, SchedOK(r), Harmless(s, r), r.bits = s.bits
  PROVE  Fine(s, st, r, [st EXCEPT ![s.current][1].at = at])
<1>1. Lands(s, r, g) /\ Silent(s, r)
  BY QuietLands, SilentMild DEF Harmless
<1> QED
  BY <1>1, GoToOK

(* vTaskSuspendAll, before a call goes on. *)
LEMMA SuspendingGoTo ==
  ASSUME NEW s, NEW st, Busy(s, st), Quiet(s, st[s.current][1]),
         NEW at, NEW g, g = [st[s.current][1] EXCEPT !.at = at], Stage(g), at # "inherit", Holds(g)
  PROVE  Fine(s, st, SuspendAll(s), [st EXCEPT ![s.current][1].at = at])
<1> DEFINE r == SuspendAll(s)
<1>1. Core(s, st) /\ ~s.pendsv /\ SchedOK(s) /\ TopOf(st, s.current) = st[s.current][1]
      /\ s.suspendedAll = 0
  BY BusyParts DEF Busy, Quiet
<1>2. /\ SchedOK(r) /\ Mild(s, r) /\ r.suspendedAll = s.suspendedAll + 1
      /\ Same(s, r, {"suspendedAll"})
  BY <1>1, SuspendAllOK
<1> HIDE DEF r
<1>3. r.suspendedAll = 1 /\ r.bits = s.bits
  BY <1>1, <1>2 DEF Same, SchedFields
<1>4. Moves(s, r, TopOf(st, s.current), g)
  BY <1>1, <1>2, <1>3 DEF Moves, Quiet
<1>5. Lands(s, r, g) /\ Silent(s, r)
  BY <1>1, <1>2, <1>3, <1>4, MovesLands, SilentMild
<1>6. Fine(s, st, r, [st EXCEPT ![s.current][1].at = at])
  BY <1>5, GoToOK
<1> QED
  BY <1>6 DEF r

(* xTaskResumeAll, and what the call does then. *)
LEMMA ResumingLands ==
  ASSUME NEW s, NEW st, Busy(s, st), Holds(st[s.current][1]), NEW g, ~Holds(g),
         ~Awaits(st[s.current][1]),
         Grouped(st[s.current][1]) => Grouped(g),
         Dozes(st[s.current][1]) \/ Parks(s, st[s.current][1]) => Dozes(g) \/ Yielded(ResumeAll(s))
  PROVE  Lands(s, ResumeAll(s), g) /\ Silent(s, ResumeAll(s))
<1> DEFINE r == ResumeAll(s)
<1>1. Core(s, st) /\ ~s.pendsv /\ SchedOK(s) /\ TopOf(st, s.current) = st[s.current][1]
      /\ s.suspendedAll = 1
  BY BusyParts DEF Busy
<1>2. /\ SchedOK(r) /\ Mild(s, r) /\ r.suspendedAll = 0 /\ r.pendingReady = << >>
      /\ Yielded(r) => r.pendsv
      /\ Same(s, r, CaughtUp \cup {"pendsv", "suspendedAll"})
  BY <1>1, ResumeAllOK
<1> HIDE DEF r
<1>3. r.bits = s.bits
  BY <1>2 DEF Same, CaughtUp, StateLists, SchedFields
<1>4. Dozes(st[s.current][1]) \/ Parks(s, st[s.current][1]) => Dozes(g) \/ Yielded(r)
  BY DEF r
<1>5. Moves(s, r, TopOf(st, s.current), g)
  BY <1>1, <1>2, <1>4 DEF Moves
<1>6. Lands(s, r, g) /\ Silent(s, r)
  BY <1>1, <1>2, <1>3, <1>5, MovesLands, SilentMild
<1> QED
  BY <1>6 DEF r

(* A step while the scheduler is suspended. *)
LEMMA InsideLands ==
  ASSUME NEW s, NEW st, Busy(s, st), Holds(st[s.current][1]), NEW g, Holds(g),
         ~Awaits(st[s.current][1]), Grouped(st[s.current][1]) => Grouped(g),
         Dozes(st[s.current][1]) \/ Parks(s, st[s.current][1]) => Dozes(g),
         NEW r, SchedOK(r), Harmless(s, r)
  PROVE  Lands(s, r, g)
<1>1. Core(s, st) /\ ~s.pendsv /\ TopOf(st, s.current) = st[s.current][1]
  BY BusyParts DEF Busy
<1>2. Moves(s, r, TopOf(st, s.current), g)
  BY <1>1, HarmlessMoves
<1> QED
  BY <1>1, <1>2, MovesLands

(* The current task, which is ready, waits for nothing. *)
LEMMA ReadyApart ==
  ASSUME NEW s, NEW st, Busy(s, st), ~Dozes(st[s.current][1]), ~Parks(s, st[s.current][1])
  PROVE  /\ Ready(s, s.current) /\ Unlinked(s, s.current)
         /\ ~Dormant(s, s.current) /\ ~Contains(s.terminating, s.current)
<1>1. Ready(s, s.current) /\ SchedOK(s) /\ s.current \in Tasks /\ s.prio[s.current] \in Priorities
  BY BusyParts, SchedIs, WFParts
<1> QED
  BY <1>1 DEF SchedOK, OnePlace, Placed, Unlinked, CurrentApart, Ready

(* What a step leaves that wakes others at most, and changes no bits. *)
Calm(s, r) == SchedOK(r) /\ Harmless(s, r) /\ r.bits = s.bits

LEMMA CalmTransitive ==
  ASSUME NEW s, NEW r, NEW v, Calm(s, r), Calm(r, v)
  PROVE  Calm(s, v)
BY HarmlessTransitive DEF Calm

LEMMA SameBits ==
  ASSUME NEW s, NEW r, NEW F, Same(s, r, F), "bits" \notin F
  PROVE  r.bits = s.bits
BY DEF Same, SchedFields

LEMMA CalmOps ==
  ASSUME NEW s, SchedOK(s)
  PROVE  /\ Calm(s, s) /\ Calm(s, Yield(s)) /\ Calm(s, ResetNextUnblock(s))
         /\ Calm(s, ForgetTimeOut(s))
         /\ \A c : Calm(s, YieldIf(c, s))
         /\ \A ticks : Calm(s, SetTimeOut(s, ticks)) /\ Calm(s, CheckForTimeOut(s, ticks).s)
<1>1. Calm(s, s)
  BY HarmlessSelf DEF Calm
<1>2. Calm(s, Yield(s))
  BY YieldOK, SameBits DEF Calm
<1>3. Calm(s, ResetNextUnblock(s))
  BY ResetNextUnblockOK, SameBits DEF Calm
<1>4. Calm(s, ForgetTimeOut(s))
  BY ForgetTimeOutOK, SameBits DEF Calm
<1>5. ASSUME NEW c PROVE Calm(s, YieldIf(c, s))
  BY YieldIfOK, SameBits DEF Calm
<1>6. ASSUME NEW ticks PROVE Calm(s, SetTimeOut(s, ticks)) /\ Calm(s, CheckForTimeOut(s, ticks).s)
  BY SetTimeOutOK, CheckForTimeOutOK, SameBits DEF Calm
<1> QED
  BY <1>1, <1>2, <1>3, <1>4, <1>5, <1>6

LEMMA CalmYields ==
  ASSUME NEW s, NEW r, Calm(s, r), NEW c
  PROVE  Calm(s, YieldIf(c, r)) /\ Calm(s, ForgetTimeOut(r)) /\ Calm(s, Yield(r))
BY CalmOps, CalmTransitive DEF Calm

LEMMA CalmWakes ==
  ASSUME NEW s, SchedOK(s), NEW l \in EventLists
  PROVE  Calm(s, WakeFirst(s, l)) /\ \A k \in Int : Calm(s, WakeCounted(s, l, k))
<1>1. "bits" \notin Woke
  BY DEF Woke, StateLists
<1>2. Calm(s, WakeFirst(s, l))
  BY <1>1, WakeFirstOK, SameBits DEF Calm
<1>3. ASSUME NEW k \in Int PROVE Calm(s, WakeCounted(s, l, k))
  BY <1>1, WakeCountedOK, SameBits DEF Calm
<1> QED
  BY <1>2, <1>3

LEMMA CalmPriorities ==
  ASSUME NEW s, SchedOK(s), NEW t \in Tasks \ {Idle}
  PROVE  /\ \A p \in Priorities : Calm(s, SetPriority(s, t, p)) /\ Calm(s, DisinheritAfterTimeout(s, t, p))
         /\ Calm(s, PriorityInherit(s, t).s) /\ Calm(s, PriorityDisinherit(s, t).s)
<1>1. "bits" \notin PriorityFields
  BY DEF PriorityFields, StateLists
<1>2. ASSUME NEW p \in Priorities
      PROVE  Calm(s, SetPriority(s, t, p)) /\ Calm(s, DisinheritAfterTimeout(s, t, p))
  BY <1>1, SetPriorityOK, DisinheritAfterTimeoutOK, SameBits DEF Calm
<1>3. Calm(s, PriorityInherit(s, t).s) /\ Calm(s, PriorityDisinherit(s, t).s)
  BY <1>1, PriorityInheritOK, PriorityDisinheritOK, SameBits DEF Calm
<1> QED
  BY <1>2, <1>3

LEMMA CalmNotifies ==
  ASSUME NEW s, SchedOK(s), NEW t \in Tasks, NEW new, NEW action
  PROVE  /\ Calm(s, GenericNotify(s, t, new, action))
         /\ (s.suspendedAll # 0 => s.notify[s.current] # "waiting")
              => Calm(s, NotifyFromISR(s, t, new, action))
<1>1. "bits" \notin NotifyFields
  BY DEF NotifyFields, Woke, StateLists
<1> QED
  BY <1>1, GenericNotifyOK, NotifyFromISROK, SameBits DEF Calm

----------------------------------------------------------------------------
(* The steps of the current task, as the actions state them. *)

FineStep == Fine(sched, stack, sched', stack')

AtTop(at) == [Top EXCEPT !.at = at]

LEMMA AtBusy ==
  ASSUME Core(sched, stack), NEW op, NEW at, At(op, at)
  PROVE  Busy(sched, stack) /\ Top.op = op /\ Top.at = at
BY DEF At, Busy, TaskRuns, me, Top

LEMMA BusyTop ==
  ASSUME Busy(sched, stack)
  PROVE  /\ Core(sched, stack) /\ SchedOK(sched) /\ IsFrame(Top) /\ FrameOK(me, Top) /\ me \in Tasks
         /\ TopOf(stack, me) = Top /\ StackOK(stack)
         /\ Top.op # "idle" => Proper(Top) /\ me # Idle
         /\ ~Holds(Top) => sched.suspendedAll = 0 /\ sched.pendingReady = << >>
         /\ Holds(Top) => sched.suspendedAll = 1
BY BusyParts DEF Busy, me, Top

LEMMA AtTopFields ==
  ASSUME Busy(sched, stack), NEW at
  PROVE  LET g == AtTop(at)
         IN  /\ IsFrame(g) /\ g.op = Top.op /\ g.at = at /\ g.obj = Top.obj /\ g.arg = Top.arg
             /\ g.wait = Top.wait /\ g.flag = Top.flag /\ g.then = Top.then
BY BusyTop, AtFields DEF AtTop

LEMMA QuietReturns ==
  ASSUME Busy(sched, stack), Quiet(sched, Top), Top.op \notin {"waitRestricted", "idle"},
         NEW r, Return(r), Calm(sched, r)
  PROVE  FineStep
<1>1. Fine(sched, stack, r, [stack EXCEPT ![sched.current] = Tail(@)])
  BY QuietReturn DEF Calm, Top, me
<1> QED
  BY <1>1 DEF FineStep, Return, me

LEMMA QuietGoesTo ==
  ASSUME Busy(sched, stack), Quiet(sched, Top), NEW at, at # "inherit",
         Stage(AtTop(at)), ~Holds(AtTop(at)), NEW r, GoTo(at, r), Calm(sched, r)
  PROVE  FineStep
<1>1. Fine(sched, stack, r, [stack EXCEPT ![sched.current][1].at = at])
  BY QuietGoTo DEF Calm, Top, me, AtTop
<1> QED
  BY <1>1 DEF FineStep, GoTo, me

LEMMA Suspends ==
  ASSUME Busy(sched, stack), Quiet(sched, Top), NEW at, at # "inherit",
         Stage(AtTop(at)), Holds(AtTop(at)), GoTo(at, SuspendAll(sched))
  PROVE  FineStep
<1>1. Fine(sched, stack, SuspendAll(sched), [stack EXCEPT ![sched.current][1].at = at])
  BY SuspendingGoTo DEF Top, me, AtTop
<1> QED
  BY <1>1 DEF FineStep, GoTo, me

LEMMA LandsAt ==
  ASSUME Busy(sched, stack), NEW at, at # "inherit", Stage(AtTop(at)), NEW r, GoTo(at, r),
         Lands(sched, r, AtTop(at)), Silent(sched, r)
  PROVE  FineStep
<1>1. Fine(sched, stack, r, [stack EXCEPT ![sched.current][1].at = at])
  BY GoToOK DEF Top, me, AtTop
<1> QED
  BY <1>1 DEF FineStep, GoTo, me

LEMMA ReturnsTo ==
  ASSUME Busy(sched, stack), Top.op \notin {"waitRestricted", "idle"}, NEW r, Return(r),
         Lands(sched, r, NoFrame), Silent(sched, r)
  PROVE  FineStep
<1>1. Fine(sched, stack, r, [stack EXCEPT ![sched.current] = Tail(@)])
  BY ReturnOK DEF Top, me
<1> QED
  BY <1>1 DEF FineStep, Return, me

(* A step inside of a suspension. *)
LEMMA HoldingGoesTo ==
  ASSUME Busy(sched, stack), Holds(Top), NEW at, at # "inherit", Stage(AtTop(at)), Holds(AtTop(at)),
         ~Awaits(Top), Grouped(Top) => Grouped(AtTop(at)),
         Dozes(Top) \/ Parks(sched, Top) => Dozes(AtTop(at)),
         NEW r, GoTo(at, r), Calm(sched, r)
  PROVE  FineStep
<1>1. Lands(sched, r, AtTop(at)) /\ Silent(sched, r)
  BY InsideLands, SilentMild DEF Calm, Harmless, Top, me
<1> QED
  BY <1>1, LandsAt

LEMMA ResumesAt ==
  ASSUME Busy(sched, stack), Holds(Top), NEW at, at # "inherit", Stage(AtTop(at)), ~Holds(AtTop(at)),
         ~Awaits(Top), Grouped(Top) => Grouped(AtTop(at)),
         Dozes(Top) \/ Parks(sched, Top) => Dozes(AtTop(at)) \/ Yielded(ResumeAll(sched)),
         GoTo(at, ResumeAll(sched))
  PROVE  FineStep
<1>1. Lands(sched, ResumeAll(sched), AtTop(at)) /\ Silent(sched, ResumeAll(sched))
  BY ResumingLands DEF Top, me
<1> HIDE DEF AtTop
<1> QED
  BY <1>1, LandsAt

LEMMA ResumesReturn ==
  ASSUME Busy(sched, stack), Holds(Top), Top.op \notin {"waitRestricted", "idle"},
         ~Awaits(Top), ~Grouped(Top),
         Dozes(Top) \/ Parks(sched, Top) => Yielded(ResumeAll(sched)),
         Return(ResumeAll(sched))
  PROVE  FineStep
<1>1. ~Holds(NoFrame)
  BY DEF NoFrame, Holds, QueueOps
<1>2. Lands(sched, ResumeAll(sched), NoFrame) /\ Silent(sched, ResumeAll(sched))
  BY <1>1, ResumingLands DEF Top, me
<1> QED
  BY <1>2, ReturnsTo

----------------------------------------------------------------------------
(* The steps of module TaskCalls. *)

LEMMA CreateCheckFine == ASSUME Core(sched, stack), CreateCheck PROVE FineStep
<1>1. Busy(sched, stack) /\ Top.op = "create" /\ Top.at = "check"
  BY AtBusy DEF CreateCheck
<1>2. Quiet(sched, Top)
  BY <1>1 DEF Quiet, Holds, Dozes, Parks, Awaits, Grouped, QueueOps
<1>3. Calm(sched, YieldIf(sched.prio[me] < sched.prio[Top.obj], sched))
  BY <1>1, BusyTop, CalmOps
<1> QED
  BY <1>1, <1>2, <1>3, QuietReturns DEF CreateCheck

LEMMA YieldAtEndFine == ASSUME Core(sched, stack), YieldAtEnd PROVE FineStep
<1>1. Busy(sched, stack) /\ Top.op \in {"delete", "suspend", "delay", "delayUntil", "yield"}
      /\ Top.at = "yield"
  BY AtBusy DEF YieldAtEnd
<1>2. ~Holds(Top) /\ ~Awaits(Top) /\ ~Grouped(Top) /\ ~Holds(NoFrame)
  BY <1>1 DEF Holds, Awaits, Grouped, QueueOps, NoFrame
<1>3. Calm(sched, Yield(sched)) /\ Yield(sched).pendsv
  BY <1>1, BusyTop, CalmOps, YieldOK
<1>4. TopOf(stack, sched.current) = Top /\ SchedOK(sched) /\ Core(sched, stack) /\ ~sched.pendsv
  BY <1>1, BusyTop DEF me, Busy
<1>5. Moves(sched, Yield(sched), TopOf(stack, sched.current), NoFrame)
  BY <1>2, <1>3, <1>4, HarmlessMoves DEF Calm
<1>6. Lands(sched, Yield(sched), NoFrame) /\ Silent(sched, Yield(sched))
  BY <1>3, <1>4, <1>5, MovesLands, SilentMild DEF Calm, Harmless
<1> QED
  BY <1>1, <1>6, ReturnsTo DEF YieldAtEnd

LEMMA DelayFine == ASSUME Core(sched, stack), Delay PROVE FineStep
<1>1. Busy(sched, stack) /\ Top.op = "delay" /\ Top.at = "start"
  BY AtBusy DEF Delay
<1>2. Quiet(sched, Top) /\ Calm(sched, sched)
  BY <1>1, BusyTop, CalmOps DEF Quiet, Holds, Dozes, Parks, Awaits, Grouped, QueueOps
<1>3. AtTop("add").op = "delay" /\ AtTop("yield").op = "delay"
      /\ AtTop("add").at = "add" /\ AtTop("yield").at = "yield"
  BY <1>1, AtTopFields
<1>4. Stage(AtTop("add")) /\ Holds(AtTop("add")) /\ Stage(AtTop("yield")) /\ ~Holds(AtTop("yield"))
  BY <1>3 DEF Stage, Holds, QueueOps
<1>5. CASE Top.wait > 0
  BY <1>1, <1>2, <1>4, <1>5, Suspends DEF Delay
<1>6. CASE ~(Top.wait > 0)
  BY <1>1, <1>2, <1>4, <1>6, QuietGoesTo DEF Delay
<1> QED
  BY <1>5, <1>6

(* The current task goes to wait, for a time or in an event list. *)
LEMMA LeavesLands ==
  ASSUME NEW s, NEW st, Busy(s, st), NEW r, NEW g, Holds(st[s.current][1]), Holds(g), Dozes(g),
         ~Awaits(st[s.current][1]), Leaves(s, r),
         \/ r.evValue[r.current] \in 1..MaxPriorities
         \/ Grouped(g) /\ \A q \in Queues : ~Contains(r.events[Received(q)], r.current)
  PROVE  Lands(s, r, g)
<1> DEFINE f == st[s.current][1]
<1>1. s.suspendedAll = 1 /\ ~(s.notify[s.current] = "waiting")
  BY BusyParts
<1>2. /\ SchedOK(r) /\ r.current = s.current /\ r.suspendedAll = 1 /\ r.notify = s.notify
      /\ \A u \in Tasks \ {s.current} : Milder(s, r, u)
      /\ ListedIn(r, r.current)
  BY <1>1 DEF Leaves, ListedIn
<1>3. Runnable(r, g)
  BY DEF Runnable
<1> QED
  BY <1>1, <1>2, <1>3 DEF Lands

LEMMA LeavesSilent ==
  ASSUME NEW s, NEW st, Busy(s, st), NEW r, Leaves(s, r), r.bits = s.bits,
         \A g \in Groups : ~Contains(r.events[Waiting(g)], s.current)
  PROVE  Silent(s, r)
BY WaitingList DEF Silent, Leaves, Milder

LEMMA DelayAddLands ==
  ASSUME Busy(sched, stack), Holds(Top), ~Awaits(Top), ~Grouped(Top), ~Dozes(Top), ~Parks(sched, Top),
         NEW s, NEW f, Calm(sched, s), NEW ticks, Holds(AtTop("resume")), Dozes(AtTop("resume")),
         Top.op # "idle", s.current = sched.current, s.pendingReady = sched.pendingReady,
         s.pendsv = sched.pendsv, s.notify = sched.notify, s.evValue = sched.evValue,
         AsLinked(sched, s, sched.current)
  PROVE  LET r == AddCurrentToDelayed(s, ticks, FALSE)
         IN  Lands(sched, r, AtTop("resume")) /\ Silent(sched, r)
<1> DEFINE r == AddCurrentToDelayed(s, ticks, FALSE)
           g == AtTop("resume")
           c == sched.current
<1>1. /\ Leaves(s, r) /\ r.evValue = s.evValue /\ AsLinked(s, r, s.current)
      /\ Same(s, r, StateLists \cup {"nextUnblock"})
  BY DelayLeaves, BusyTop DEF Calm, me
<1>2. r.bits = s.bits
  BY <1>1 DEF Same, StateLists, SchedFields
<1> HIDE DEF r, g
<1>3. Unlinked(sched, c) /\ ~Dormant(sched, c) /\ sched.evValue[c] \in 1..MaxPriorities
  BY ReadyApart, BusyParts DEF Top, me
<1>4. \A l \in EventLists : ~Contains(r.events[l], c)
  BY <1>1, <1>3 DEF AsLinked, Unlinked
<1>5. Leaves(sched, r)
  <2>1. \A u \in Tasks \ {c} : Milder(sched, r, u)
    <3>1. \A u \in Tasks \ {c} : Milder(sched, s, u) /\ Milder(s, r, u)
      BY <1>1 DEF Leaves, Calm, Harmless, Mild
    <3> QED
      BY <3>1 DEF Milder
  <2> QED
    BY <1>1, <2>1 DEF Leaves, Calm, Harmless
<1>6. r.evValue[r.current] \in 1..MaxPriorities
  BY <1>1, <1>3, <1>5 DEF Leaves
<1>7. Lands(sched, r, g)
  BY <1>5, <1>6, LeavesLands DEF g, Top, me
<1>8. r.bits = sched.bits /\ \A k \in Groups : ~Contains(r.events[Waiting(k)], c)
  BY <1>2, <1>4, WaitingList DEF Calm
<1>9. Silent(sched, r)
  BY <1>5, <1>8, LeavesSilent
<1> QED
  BY <1>7, <1>9 DEF r, g

LEMMA DelayAddFine == ASSUME Core(sched, stack), DelayAdd PROVE FineStep
<1>1. Busy(sched, stack) /\ Top.op = "delay" /\ Top.at = "add"
  BY AtBusy DEF DelayAdd
<1>2. Holds(Top) /\ ~Awaits(Top) /\ ~Grouped(Top) /\ ~Dozes(Top) /\ ~Parks(sched, Top)
  BY <1>1 DEF Holds, Dozes, Parks, Awaits, Grouped, QueueOps
<1>3. AtTop("resume").op = "delay" /\ AtTop("resume").at = "resume"
  BY <1>1, AtTopFields
<1>4. Stage(AtTop("resume")) /\ Holds(AtTop("resume")) /\ Dozes(AtTop("resume"))
  BY <1>3 DEF Stage, Holds, Dozes, QueueOps
<1>5. Calm(sched, sched) /\ AsLinked(sched, sched, sched.current)
  BY <1>1, BusyTop, CalmOps DEF AsLinked
<1> DEFINE r == AddCurrentToDelayed(sched, Top.wait, FALSE)
<1>6. Lands(sched, r, AtTop("resume")) /\ Silent(sched, r)
  BY <1>1, <1>2, <1>4, <1>5, DelayAddLands
<1>7. GoTo("resume", r)
  BY DEF DelayAdd
<1> HIDE DEF r
<1> QED
  BY <1>1, <1>4, <1>6, <1>7, LandsAt

LEMMA DelayUntilFine == ASSUME Core(sched, stack), DelayUntil PROVE FineStep
<1>1. Busy(sched, stack) /\ Top.op = "delayUntil" /\ Top.at = "start"
  BY AtBusy DEF DelayUntil
<1>2. Quiet(sched, Top)
  BY <1>1 DEF Quiet, Holds, Dozes, Parks, Awaits, Grouped, QueueOps
<1>3. AtTop("add").op = "delayUntil" /\ AtTop("add").at = "add"
  BY <1>1, AtTopFields
<1>4. Stage(AtTop("add")) /\ Holds(AtTop("add"))
  BY <1>3 DEF Stage, Holds, QueueOps
<1> QED
  BY <1>1, <1>2, <1>4, Suspends DEF DelayUntil

LEMMA DelayUntilAddFine == ASSUME Core(sched, stack), DelayUntilAdd PROVE FineStep
<1>1. Busy(sched, stack) /\ Top.op = "delayUntil" /\ Top.at = "add"
  BY AtBusy DEF DelayUntilAdd
<1>2. Holds(Top) /\ ~Awaits(Top) /\ ~Grouped(Top) /\ ~Dozes(Top) /\ ~Parks(sched, Top)
  BY <1>1 DEF Holds, Dozes, Parks, Awaits, Grouped, QueueOps
<1>3. AtTop("resume").op = "delayUntil" /\ AtTop("resume").at = "resume"
  BY <1>1, AtTopFields
<1>4. Stage(AtTop("resume")) /\ Holds(AtTop("resume")) /\ Dozes(AtTop("resume"))
  BY <1>3 DEF Stage, Holds, Dozes, QueueOps
<1> DEFINE last == sched.lastWake[me]
           next == TickAfter(last, Top.wait)
           s == [sched EXCEPT !.lastWake[me] = next]
           ticks == TickSince(next, s.tick)
           r == AddCurrentToDelayed(s, ticks, FALSE)
<1>5. SchedOK(sched)
  BY <1>1, BusyTop
<1>6. s = [sched EXCEPT !["lastWake"] = [@ EXCEPT ![me] = next]]
  OBVIOUS
<1>7. SchedOK(s) /\ Harmless(sched, s) /\ Same(sched, s, {"lastWake"})
  <2> HIDE DEF next
  <2> DEFINE v == [sched.lastWake EXCEPT ![me] = next]
             w == [sched EXCEPT !["lastWake"] = v]
  <2>1. s = w
    OBVIOUS
  <2> HIDE DEF v, s
  <2>2. "lastWake" \in Loose \ {"pendsv", "pendedTicks", "entry", "bits"}
    BY DEF Loose
  <2>3. SchedOK(w) /\ Harmless(sched, w) /\ Same(sched, w, {"lastWake"})
    BY <1>5, <2>2, TweakOK
  <2> QED
    BY <2>1, <2>3
<1>8. GoTo("resume", IF ShouldDelay(s.tick, last, next) THEN r ELSE s)
  BY DEF DelayUntilAdd
<1> HIDE DEF s, next, last, ticks
<1>9. /\ Calm(sched, s) /\ s.current = sched.current /\ s.pendingReady = sched.pendingReady
      /\ s.pendsv = sched.pendsv /\ s.notify = sched.notify /\ s.evValue = sched.evValue
      /\ s.events = sched.events
  BY <1>7 DEF Calm, Same, SchedFields
<1>10. AsLinked(sched, s, sched.current)
  BY <1>9 DEF AsLinked
<1>11. Lands(sched, r, AtTop("resume")) /\ Silent(sched, r)
  BY <1>1, <1>2, <1>4, <1>9, <1>10, DelayAddLands
<1> HIDE DEF r
<1>12. CASE ShouldDelay(s.tick, last, next)
  <2>1. GoTo("resume", r)
    BY <1>8, <1>12
  <2> QED
    BY <1>1, <1>4, <1>11, <2>1, LandsAt
<1>13. CASE ~ShouldDelay(s.tick, last, next)
  <2>1. GoTo("resume", s)
    BY <1>8, <1>13
  <2> QED
    BY <1>1, <1>2, <1>4, <1>9, <2>1, HoldingGoesTo
<1> QED
  BY <1>12, <1>13

LEMMA DelayResumeFine == ASSUME Core(sched, stack), DelayResume PROVE FineStep
<1>1. Busy(sched, stack) /\ Top.op \in {"delay", "delayUntil"} /\ Top.at = "resume"
  BY AtBusy DEF DelayResume
<1>2. Holds(Top) /\ ~Awaits(Top) /\ ~Grouped(Top)
  BY <1>1 DEF Holds, Dozes, Parks, Awaits, Grouped, QueueOps
<1>3. AtTop("yield").op \in {"delay", "delayUntil"} /\ AtTop("yield").at = "yield"
  BY <1>1, AtTopFields
<1>4. Stage(AtTop("yield")) /\ ~Holds(AtTop("yield")) /\ Dozes(AtTop("yield"))
  BY <1>3 DEF Stage, Holds, Dozes, QueueOps
<1>5. CASE Yielded(ResumeAll(sched))
  BY <1>1, <1>2, <1>5, ResumesReturn DEF DelayResume
<1>6. CASE ~Yielded(ResumeAll(sched))
  BY <1>1, <1>2, <1>4, <1>6, ResumesAt DEF DelayResume
<1> QED
  BY <1>5, <1>6

LEMMA HoldFine == ASSUME Core(sched, stack), Hold PROVE FineStep
<1>1. Busy(sched, stack) /\ Top.op = "hold" /\ Top.at = "start"
  BY AtBusy DEF Hold
<1>2. Quiet(sched, Top)
  BY <1>1 DEF Quiet, Holds, Dozes, Parks, Awaits, Grouped, QueueOps
<1>3. AtTop("held").op = "hold" /\ AtTop("held").at = "held"
  BY <1>1, AtTopFields
<1>4. Stage(AtTop("held")) /\ Holds(AtTop("held"))
  BY <1>3 DEF Stage, Holds, QueueOps
<1> QED
  BY <1>1, <1>2, <1>4, Suspends DEF Hold

LEMMA ReleaseFine == ASSUME Core(sched, stack), Release PROVE FineStep
<1>1. Busy(sched, stack) /\ Top.op = "hold" /\ Top.at = "held"
  BY AtBusy DEF Release
<1>2. Holds(Top) /\ ~Awaits(Top) /\ ~Grouped(Top) /\ ~Dozes(Top) /\ ~Parks(sched, Top)
  BY <1>1 DEF Holds, Dozes, Parks, Awaits, Grouped, QueueOps
<1> QED
  BY <1>1, <1>2, ResumesReturn DEF Release

LEMMA TaskYieldFine == ASSUME Core(sched, stack), TaskYield PROVE FineStep
<1>1. Busy(sched, stack) /\ Top.op = "yield" /\ Top.at = "start"
  BY AtBusy DEF TaskYield
<1>2. Quiet(sched, Top) /\ Calm(sched, sched)
  BY <1>1, BusyTop, CalmOps DEF Quiet, Holds, Dozes, Parks, Awaits, Grouped, QueueOps
<1>3. AtTop("yield").op = "yield" /\ AtTop("yield").at = "yield"
  BY <1>1, AtTopFields
<1>4. Stage(AtTop("yield")) /\ ~Holds(AtTop("yield"))
  BY <1>3 DEF Stage, Holds, QueueOps
<1> QED
  BY <1>1, <1>2, <1>4, QuietGoesTo DEF TaskYield

LEMMA CalmLands ==
  ASSUME NEW s, NEW st, Busy(s, st), ~Holds(st[s.current][1]), NEW r, Calm(s, r), NEW g, ~Holds(g),
         Dozes(st[s.current][1]) \/ Parks(s, st[s.current][1]) => Dozes(g) \/ r.pendsv,
         Awaits(st[s.current][1]) => Awaits(g) \/ r.notify[r.current] # "waiting",
         Grouped(st[s.current][1]) => Grouped(g) \/ r.evValue[r.current] \in 1..MaxPriorities
  PROVE  Lands(s, r, g) /\ Silent(s, r)
<1>1. Core(s, st) /\ ~s.pendsv /\ TopOf(st, s.current) = st[s.current][1]
  BY BusyParts DEF Busy
<1>2. Moves(s, r, TopOf(st, s.current), g)
  BY <1>1, HarmlessMoves DEF Calm
<1> QED
  BY <1>1, <1>2, MovesLands, SilentMild DEF Calm, Harmless

LEMMA CalmGoesTo ==
  ASSUME Busy(sched, stack), ~Holds(Top), NEW at, at # "inherit", Stage(AtTop(at)), ~Holds(AtTop(at)),
         NEW r, Calm(sched, r), GoTo(at, r),
         Dozes(Top) \/ Parks(sched, Top) => Dozes(AtTop(at)) \/ r.pendsv,
         Awaits(Top) => Awaits(AtTop(at)) \/ r.notify[r.current] # "waiting",
         Grouped(Top) => Grouped(AtTop(at)) \/ r.evValue[r.current] \in 1..MaxPriorities
  PROVE  FineStep
<1>1. Lands(sched, r, AtTop(at)) /\ Silent(sched, r)
  BY CalmLands DEF Top, me
<1> QED
  BY <1>1, LandsAt

LEMMA CalmReturns ==
  ASSUME Busy(sched, stack), ~Holds(Top), Top.op \notin {"waitRestricted", "idle"},
         NEW r, Calm(sched, r), Return(r),
         Dozes(Top) \/ Parks(sched, Top) => r.pendsv,
         Awaits(Top) => r.notify[r.current] # "waiting",
         Grouped(Top) => r.evValue[r.current] \in 1..MaxPriorities
  PROVE  FineStep
<1>1. ~Holds(NoFrame)
  BY DEF NoFrame, Holds, QueueOps
<1>2. Lands(sched, r, NoFrame) /\ Silent(sched, r)
  BY <1>1, CalmLands DEF Top, me
<1> QED
  BY <1>2, ReturnsTo

(* A task has been put into another state list. *)
LEMMA ParkedLands ==
  ASSUME NEW s, NEW st, Busy(s, st), Quiet(s, st[s.current][1]), NEW t, NEW r, Parked(s, r, t),
         NEW g, ~Holds(g), t = s.current => Parks(r, g) \/ Dozes(g)
  PROVE  Lands(s, r, g) /\ Silent(s, r)
<1> DEFINE f == st[s.current][1]
<1>1. /\ s.suspendedAll = 0 /\ s.pendingReady = << >> /\ Ready(s, s.current) /\ s.current \in Tasks
      /\ s.notify[s.current] # "waiting" /\ s.evValue[s.current] \in 1..MaxPriorities
      /\ ListedIn(s, s.current)
  BY BusyParts DEF Quiet
<1>2. Runnable(r, g)
  BY <1>1 DEF Runnable, Parked
<1>3. r.notify[s.current] # "waiting" /\ ListedIn(r, s.current)
  BY <1>1 DEF Parked, Milder
<1>4. Lands(s, r, g)
  BY <1>1, <1>2, <1>3 DEF Lands, Parked
<1>5. Silent(s, r)
  BY WaitingList DEF Silent, Parked, Milder
<1> QED
  BY <1>4, <1>5

LEMMA DeleteSelfFine == ASSUME Core(sched, stack), DeleteSelf PROVE FineStep
<1>1. Busy(sched, stack) /\ Top.op = "delete" /\ Top.at = "start"
  BY AtBusy DEF DeleteSelf
<1>2. Quiet(sched, Top)
  BY <1>1 DEF Quiet, Holds, Dozes, Parks, Awaits, Grouped, QueueOps
<1>3. AtTop("yield").op = "delete" /\ AtTop("yield").at = "yield"
  BY <1>1, AtTopFields
<1>4. Stage(AtTop("yield")) /\ ~Holds(AtTop("yield")) /\ Dozes(AtTop("yield"))
  BY <1>3 DEF Stage, Holds, Dozes, QueueOps
<1>5. me \in Tasks \ {Idle} /\ SchedOK(sched) /\ sched.notify[me] # "waiting"
  BY <1>1, <1>2, BusyTop, BusyParts DEF me, Top, Quiet
<1> DEFINE r == Deleted(sched, me)
<1>6. Parked(sched, r, me) /\ GoTo("yield", r)
  BY <1>5, DeletedTaskOK DEF DeleteSelf, Deleted
<1> HIDE DEF r
<1>7. Lands(sched, r, AtTop("yield")) /\ Silent(sched, r)
  BY <1>1, <1>2, <1>4, <1>6, ParkedLands DEF Top, me
<1> QED
  BY <1>1, <1>4, <1>6, <1>7, LandsAt

LEMMA SuspendFine == ASSUME Core(sched, stack), Suspend PROVE FineStep
<1>1. Busy(sched, stack) /\ Top.op = "suspend" /\ Top.at = "start"
  BY AtBusy DEF Suspend
<1>2. Quiet(sched, Top)
  BY <1>1 DEF Quiet, Holds, Dozes, Parks, Awaits, Grouped, QueueOps
<1>3. AtTop("reset").op = "suspend" /\ AtTop("reset").at = "reset" /\ AtTop("reset").obj = Top.obj
  BY <1>1, AtTopFields
<1>4. Stage(AtTop("reset")) /\ ~Holds(AtTop("reset"))
  BY <1>3 DEF Stage, Holds, Dozes, QueueOps
<1>5. Top.obj \in Tasks \ {Idle} /\ SchedOK(sched)
  BY <1>1, BusyTop DEF Proper
<1> DEFINE r == Suspended(sched, Top.obj)
<1>6. Parked(sched, r, Top.obj) /\ GoTo("reset", r)
  BY <1>5, SuspendedTaskOK DEF Suspend, Suspended
<1> HIDE DEF r
<1>7. Top.obj = sched.current => Parks(r, AtTop("reset"))
  BY <1>3, <1>6 DEF Parks, Parked
<1>8. Lands(sched, r, AtTop("reset")) /\ Silent(sched, r)
  BY <1>1, <1>2, <1>4, <1>6, <1>7, ParkedLands DEF Top, me
<1> QED
  BY <1>1, <1>4, <1>6, <1>8, LandsAt

LEMMA SuspendResetFine == ASSUME Core(sched, stack), SuspendReset PROVE FineStep
<1> DEFINE r == ResetNextUnblock(sched)
<1>1. Busy(sched, stack) /\ Top.op = "suspend" /\ Top.at = "reset"
  BY AtBusy DEF SuspendReset
<1>2. ~Holds(Top) /\ ~Dozes(Top) /\ ~Awaits(Top) /\ ~Grouped(Top)
      /\ (Parks(sched, Top) <=> Top.obj = me)
  BY <1>1 DEF Holds, Dozes, Parks, Awaits, Grouped, QueueOps, me
<1>3. AtTop("yield").op = "suspend" /\ AtTop("yield").at = "yield"
  BY <1>1, AtTopFields
<1>4. Stage(AtTop("yield")) /\ ~Holds(AtTop("yield")) /\ Dozes(AtTop("yield"))
  BY <1>3 DEF Stage, Holds, Dozes, QueueOps
<1>5. Calm(sched, r)
  BY <1>1, BusyTop, CalmOps
<1>6. IF Top.obj = me THEN GoTo("yield", r) ELSE Return(r)
  BY DEF SuspendReset
<1> HIDE DEF r
<1>7. CASE Top.obj = me
  BY <1>1, <1>2, <1>4, <1>5, <1>6, <1>7, CalmGoesTo
<1>8. CASE Top.obj # me
  BY <1>1, <1>2, <1>5, <1>6, <1>8, CalmReturns
<1> QED
  BY <1>7, <1>8

LEMMA ResumeFine == ASSUME Core(sched, stack), Resume PROVE FineStep
<1> DEFINE t == Top.obj
           r == ToReady(sched, t)
           v == IF t # me /\ IsSuspended(sched, t) THEN YieldIf(sched.prio[t] >= sched.prio[me], r)
                ELSE sched
<1>1. Busy(sched, stack) /\ Top.op = "resume" /\ Top.at = "start"
  BY AtBusy DEF Resume
<1>2. Quiet(sched, Top)
  BY <1>1 DEF Quiet, Holds, Dozes, Parks, Awaits, Grouped, QueueOps
<1>3. t \in Tasks \ {Idle} /\ SchedOK(sched)
  BY <1>1, BusyTop DEF Proper
<1>4. Return(v)
  BY DEF Resume
<1> HIDE DEF t, r
<1>5. CASE IsSuspended(sched, t)
  <2>1. Unlinked(sched, t)
    BY <1>5 DEF IsSuspended, Unlinked, Waits
  <2>2. "bits" \notin StateLists \cup {"top"}
    BY DEF StateLists
  <2>3. Calm(sched, r)
    BY <1>3, <2>1, <2>2, ToReadyOK, SameBits DEF Calm, r
  <2> QED
    BY <1>1, <1>2, <1>3, <1>4, <2>3, CalmYields, CalmOps, QuietReturns
<1>6. CASE ~IsSuspended(sched, t)
  BY <1>1, <1>2, <1>3, <1>4, <1>6, CalmOps, QuietReturns
<1> QED
  BY <1>5, <1>6

LEMMA PrioritySetFine == ASSUME Core(sched, stack), PrioritySet PROVE FineStep
<1>1. Busy(sched, stack) /\ Top.op = "prioritySet" /\ Top.at = "start"
  BY AtBusy DEF PrioritySet
<1>2. Quiet(sched, Top)
  BY <1>1 DEF Quiet, Holds, Dozes, Parks, Awaits, Grouped, QueueOps
<1>3. Top.obj \in Tasks \ {Idle} /\ Top.arg \in Priorities /\ SchedOK(sched)
  BY <1>1, BusyTop DEF Proper
<1>4. Calm(sched, SetPriority(sched, Top.obj, Top.arg))
  BY <1>3, CalmPriorities
<1> QED
  BY <1>1, <1>2, <1>4, QuietReturns DEF PrioritySet

----------------------------------------------------------------------------
(* Notifications. *)

(* A task's own notification state and value. *)
Told(s, t, v, x) == [s EXCEPT !.notify[t] = v, !.value[t] = x]

LEMMA OwnNotifyOK ==
  ASSUME NEW s, SchedOK(s), NEW t \in Tasks, NEW v, v # "waiting", NEW x
  PROVE  LET r == Told(s, t, v, x)
         IN  Calm(s, r) /\ r.notify[t] = v /\ r.current = s.current
<1> DEFINE m == [s EXCEPT !.notify[t] = v]
           q == [m.value EXCEPT ![t] = x]
           r == [m EXCEPT !["value"] = q]
<1>1. SchedOK(m) /\ Harmless(s, m) /\ Same(s, m, {"notify"})
  BY UnnotifiedOK
<1>8. IsSched(s) /\ s.notify = [u \in Tasks |-> s.notify[u]]
  BY SchedIs DEF WF, Shaped
<1>9. m.notify = [s.notify EXCEPT ![t] = v]
  BY <1>8 DEF IsSched, SchedFields
<1>2. m.notify[t] = v
  BY <1>8, <1>9
<1>3. Told(s, t, v, x) = r
  BY DEF Told
<1> HIDE DEF m, q
<1>4. "value" \in Loose \ {"pendsv", "pendedTicks", "entry", "bits"}
  BY DEF Loose
<1>5. SchedOK(r) /\ Harmless(m, r) /\ Same(m, r, {"value"})
  BY <1>1, <1>4, TweakOK
<1>6. Calm(s, m) /\ Calm(m, r)
  BY <1>1, <1>5, SameBits DEF Calm
<1>7. r.notify = m.notify /\ r.current = s.current
  BY <1>1, <1>5 DEF Same, SchedFields
<1> HIDE DEF r
<1> QED
  BY <1>2, <1>3, <1>6, <1>7, CalmTransitive

LEMMA ValueOK ==
  ASSUME NEW s, SchedOK(s), NEW v
  PROVE  LET r == [s EXCEPT !.value = v]
         IN  Calm(s, r) /\ Same(s, r, {"value"})
<1> DEFINE r == [s EXCEPT !["value"] = v]
<1>4. "value" \in Loose \ {"pendsv", "pendedTicks", "entry", "bits"}
  BY DEF Loose
<1>5. SchedOK(r) /\ Harmless(s, r) /\ Same(s, r, {"value"})
  BY <1>4, TweakOK
<1> QED
  BY <1>5, SameBits DEF Calm

(* The current task waits for a notification now. *)
LEMMA ExpectsLands ==
  ASSUME NEW s, NEW st, Busy(s, st), Quiet(s, st[s.current][1]), NEW m, Calm(s, m),
         Same(s, m, {"value"}), NEW r, NEW wait, Expects(m, r, wait), NEW g, ~Holds(g), Awaits(g)
  PROVE  Lands(s, r, g) /\ Silent(s, r)
<1>1. /\ s.suspendedAll = 0 /\ s.pendingReady = << >> /\ s.current \in Tasks
      /\ s.evValue[s.current] \in 1..MaxPriorities
  BY BusyParts DEF Quiet
<1>2. /\ m.current = s.current /\ m.suspendedAll = 0 /\ m.pendingReady = << >> /\ m.notify = s.notify
      /\ m.evValue = s.evValue /\ m.events = s.events /\ m.bits = s.bits
  BY <1>1 DEF Same, SchedFields
<1>3. \A u \in Tasks \ {s.current} : Milder(s, r, u)
  <2>1. \A u \in Tasks \ {s.current} : Milder(s, m, u) /\ Milder(m, r, u)
    BY <1>2 DEF Expects, Calm, Harmless, Mild
  <2> QED
    BY <2>1 DEF Milder
<1>4. Runnable(r, g)
  BY <1>2 DEF Runnable, Expects
<1>5. Lands(s, r, g)
  BY <1>1, <1>2, <1>3, <1>4 DEF Lands, Expects
<1>6. Silent(s, r)
  BY <1>2 DEF Silent, Expects
<1> QED
  BY <1>5, <1>6

LEMMA AwaitFine ==
  ASSUME Busy(sched, stack), Top.op \in {"notifyTake", "notifyWait"}, Top.at = "start",
         NEW m, Calm(sched, m), Same(sched, m, {"value"}),
         GoTo("woken", AwaitNotification(m, Top.wait)) \/ GoTo("woken", sched)
  PROVE  FineStep
<1>2. Quiet(sched, Top)
  BY DEF Quiet, Holds, Dozes, Parks, Awaits, Grouped, QueueOps
<1>3. AtTop("woken").op = Top.op /\ AtTop("woken").at = "woken"
  BY AtTopFields
<1>4. Stage(AtTop("woken")) /\ ~Holds(AtTop("woken")) /\ Awaits(AtTop("woken"))
  BY <1>3 DEF Stage, Holds, Awaits, QueueOps
<1>5. CASE GoTo("woken", sched)
  <2>1. Calm(sched, sched)
    BY BusyTop, CalmOps
  <2> QED
    BY <1>2, <1>4, <1>5, <2>1, QuietGoesTo
<1>6. CASE GoTo("woken", AwaitNotification(m, Top.wait))
  <2>1. Ready(sched, sched.current) /\ Unlinked(sched, sched.current) /\ sched.current # Idle
    BY <1>2, ReadyApart, BusyTop DEF Quiet, me, Top
  <2>2. m.current = sched.current /\ m.events = sched.events /\ m.pendingReady = sched.pendingReady
        /\ m.prio = sched.prio /\ m.ready = sched.ready
    BY DEF Same, SchedFields
  <2>3. MayWait(m) /\ Ready(m, m.current) /\ SchedOK(m)
    BY <2>1, <2>2 DEF MayWait, Unlinked, Ready, Calm
  <2> DEFINE r == AwaitNotification(m, Top.wait)
  <2>4. Expects(m, r, Top.wait)
    BY <2>3, AwaitNotificationOK
  <2> HIDE DEF r
  <2>5. Lands(sched, r, AtTop("woken")) /\ Silent(sched, r)
    BY <1>2, <1>4, <2>4, ExpectsLands DEF Top, me
  <2>6. GoTo("woken", r)
    BY <1>6 DEF r
  <2> QED
    BY <1>4, <2>5, <2>6, LandsAt
<1> QED
  BY <1>5, <1>6

LEMMA NotifyTakeFine == ASSUME Core(sched, stack), NotifyTake PROVE FineStep
<1>1. Busy(sched, stack) /\ Top.op = "notifyTake" /\ Top.at = "start"
  BY AtBusy DEF NotifyTake
<1>2. Calm(sched, sched) /\ Same(sched, sched, {"value"})
  BY <1>1, BusyTop, CalmOps DEF Same
<1>3. GoTo("woken", AwaitNotification(sched, Top.wait)) \/ GoTo("woken", sched)
  BY DEF NotifyTake
<1> QED
  BY <1>1, <1>2, <1>3, AwaitFine

LEMMA NotifyWaitFine == ASSUME Core(sched, stack), NotifyWait PROVE FineStep
<1> DEFINE v == [sched.value EXCEPT ![me] = ValueOf(BitsOf(@) \ BitsOf(Top.arg[1]))]
           m == [sched EXCEPT !.value = v]
<1>1. Busy(sched, stack) /\ Top.op = "notifyWait" /\ Top.at = "start"
  BY AtBusy DEF NotifyWait
<1>2. Calm(sched, m) /\ Same(sched, m, {"value"})
  <2> HIDE DEF v
  <2> QED
    BY <1>1, BusyTop, ValueOK
<1>3. GoTo("woken", AwaitNotification(m, Top.wait)) \/ GoTo("woken", sched)
  BY DEF NotifyWait
<1> HIDE DEF m
<1> QED
  BY <1>1, <1>2, <1>3, AwaitFine

LEMMA ToldFine ==
  ASSUME Busy(sched, stack), Top.op \in {"notifyTake", "notifyWait"}, Top.at = "woken",
         NEW v, Return([sched EXCEPT !.notify[me] = "not waiting", !.value[me] = v])
  PROVE  FineStep
<1> DEFINE n == "not waiting"
           r == Told(sched, me, n, v)
<1>1. ~Holds(Top) /\ ~Dozes(Top) /\ ~Parks(sched, Top) /\ ~Grouped(Top)
  BY DEF Holds, Dozes, Parks, Awaits, Grouped, QueueOps
<1>4. n # "waiting"
  OBVIOUS
<1> HIDE DEF n
<1>2. Calm(sched, r) /\ r.notify[me] = n /\ r.current = me
  BY <1>4, BusyTop, OwnNotifyOK DEF me
<1> HIDE DEF r
<1>3. Return(r)
  BY DEF r, Told, n
<1> QED
  BY <1>1, <1>2, <1>3, <1>4, CalmReturns

LEMMA NotifyTakenFine == ASSUME Core(sched, stack), NotifyTaken PROVE FineStep
<1>1. Busy(sched, stack) /\ Top.op = "notifyTake" /\ Top.at = "woken"
  BY AtBusy DEF NotifyTaken
<1> DEFINE v == IF sched.value[me] = 0 \/ Top.arg = "clear" THEN 0 ELSE sched.value[me] - 1
<1>2. Return([sched EXCEPT !.notify[me] = "not waiting", !.value[me] = v])
  BY DEF NotifyTaken
<1> HIDE DEF v
<1> QED
  BY <1>1, <1>2, ToldFine

LEMMA NotifyWaitedFine == ASSUME Core(sched, stack), NotifyWaited PROVE FineStep
<1>1. Busy(sched, stack) /\ Top.op = "notifyWait" /\ Top.at = "woken"
  BY AtBusy DEF NotifyWaited
<1> DEFINE v == IF sched.notify[me] = "received"
                THEN ValueOf(BitsOf(sched.value[me]) \ BitsOf(Top.arg[2])) ELSE sched.value[me]
<1>2. Return([sched EXCEPT !.notify[me] = "not waiting", !.value[me] = v])
  BY DEF NotifyWaited
<1> HIDE DEF v
<1> QED
  BY <1>1, <1>2, ToldFine

LEMMA NotifyFine == ASSUME Core(sched, stack), Notify PROVE FineStep
<1>1. Busy(sched, stack) /\ Top.op = "notify" /\ Top.at = "start"
  BY AtBusy DEF Notify
<1>2. Quiet(sched, Top)
  BY <1>1 DEF Quiet, Holds, Dozes, Parks, Awaits, Grouped, QueueOps
<1>3. Top.obj \in Tasks /\ SchedOK(sched)
  BY <1>1, BusyTop DEF Proper
<1>4. Calm(sched, GenericNotify(sched, Top.obj, Top.arg[1], Top.arg[2]))
  BY <1>3, CalmNotifies
<1> QED
  BY <1>1, <1>2, <1>4, QuietReturns DEF Notify

LEMMA NotifyStateClearFine == ASSUME Core(sched, stack), NotifyStateClear PROVE FineStep
<1> DEFINE v == IF sched.notify[Top.obj] = "received" THEN "not waiting" ELSE sched.notify[Top.obj]
           n == [sched.notify EXCEPT ![Top.obj] = v]
           r == [sched EXCEPT !.notify = n]
<1>1. Busy(sched, stack) /\ Top.op = "notifyStateClear" /\ Top.at = "start"
  BY AtBusy DEF NotifyStateClear
<1>2. Quiet(sched, Top) /\ SchedOK(sched)
  BY <1>1, BusyTop DEF Quiet, Holds, Dozes, Parks, Awaits, Grouped, QueueOps
<1>3. Return(r)
  BY DEF NotifyStateClear
<1>4. Calm(sched, r)
  <2>1. IsSched(sched) /\ WF(sched)
    BY <1>2, SchedIs
  <2>2. n = [t \in Tasks |-> n[t]] /\ \A t \in Tasks : n[t] = "waiting" => sched.notify[t] = "waiting"
    BY <2>1 DEF WF, Shaped
  <2> HIDE DEF n
  <2>3. IsSched(r) /\ r.notify = n
    BY <2>1 DEF IsSched, SchedFields
  <2>4. Same(sched, r, {"notify"})
    BY <2>1 DEF IsSched, Same, SchedFields
  <2>5. r.evValue = sched.evValue /\ r.base = sched.base
    BY <2>4 DEF Same, SchedFields
  <2>6. Same(sched, r, {"notify", "value", "evValue", "held", "base"})
    BY <2>4 DEF Same
  <2> HIDE DEF r
  <2>7. SchedOK(r) /\ Harmless(sched, r)
    BY <1>2, <2>1, <2>2, <2>3, <2>5, <2>6, NotifyOK DEF WF, Shaped
  <2> QED
    BY <2>4, <2>7, SameBits DEF Calm
<1> HIDE DEF r
<1> QED
  BY <1>1, <1>2, <1>3, <1>4, QuietReturns

LEMMA NowhereAway ==
  ASSUME NEW s, SchedOK(s), s.pendingReady = << >>, NEW t \in Tasks, InList(s, t) = {}
  PROVE  Away(s, t) /\ Unlinked(s, t)
<1>1. ~Contains(s.delayed, t) /\ ~Contains(s.overflow, t) /\ ~Contains(s.suspended, t)
      /\ ~Contains(s.terminating, t) /\ \A p \in Priorities : ~Contains(s.ready[p].items, t)
  BY DEF InList
<1>2. Away(s, t) /\ ~Dormant(s, t)
  BY <1>1 DEF Away, Dormant
<1>3. ~Contains(s.pendingReady, t)
  BY DEF Contains
<1>4. Placed(s, t)
  BY DEF SchedOK, OnePlace
<1> QED
  BY <1>2, <1>3, <1>4 DEF Unlinked, Placed

LEMMA CreateFine == ASSUME Core(sched, stack), Create PROVE FineStep
<1>1. Busy(sched, stack) /\ Top.op = "create" /\ Top.at = "start"
  BY AtBusy DEF Create
<1>2. Quiet(sched, Top)
  BY <1>1 DEF Quiet, Holds, Dozes, Parks, Awaits, Grouped, QueueOps
<1>3. Top.obj \in Tasks \ {Idle} /\ Top.arg \in Priorities /\ SchedOK(sched)
      /\ sched.pendingReady = << >>
  BY <1>1, <1>2, BusyTop DEF Proper, Quiet
<1>4. CASE InList(sched, Top.obj) # {}
  <2>1. Return(sched)
    BY <1>4 DEF Create
  <2> QED
    BY <1>1, <1>2, <1>3, <2>1, CalmOps, QuietReturns
<1>5. CASE InList(sched, Top.obj) = {}
  <2> DEFINE t == Top.obj
             r == CreatedIn(sched, t, Top.arg)
  <2>1. AtTop("check").op = "create" /\ AtTop("check").at = "check"
    BY <1>1, AtTopFields
  <2>2. Stage(AtTop("check")) /\ ~Holds(AtTop("check"))
    BY <2>1 DEF Stage, Holds, QueueOps
  <2>3. GoTo("check", r)
    BY <1>5 DEF Create, CreatedIn
  <2>4. Away(sched, t) /\ Unlinked(sched, t)
    BY <1>3, <1>5, NowhereAway
  <2>5. /\ SchedOK(r) /\ Harmless(sched, r)
        /\ \A u \in Tasks \ {t} : r.bits[u] = sched.bits[u]
        /\ Unlinked(r, t)
    BY <1>3, <2>4, CreatedOK
  <2> HIDE DEF r
  <2>6. Lands(sched, r, AtTop("check"))
    BY <1>1, <1>2, <2>2, <2>5, QuietLands DEF Top, me
  <2>7. Silent(sched, r)
    BY <2>5, WaitingList DEF Silent, Harmless, Mild, Milder, Unlinked
  <2> QED
    BY <1>1, <2>2, <2>3, <2>6, <2>7, LandsAt
<1> QED
  BY <1>4, <1>5

----------------------------------------------------------------------------
(* A task is gone, with its stack. *)

LEMMA GoneFine ==
  ASSUME NEW s, NEW st, Busy(s, st), ~Holds(st[s.current][1]), NEW t \in Tasks \ {Idle}, t # s.current,
         ~Dozes(st[s.current][1]), ~Parks(s, st[s.current][1]), NEW r, Gone(s, r, t)
  PROVE  LET v == [st EXCEPT ![t] = << >>]
         IN  Busy(r, v) /\ Silent(s, r) /\ r.current = s.current /\ v[s.current] = st[s.current]
<1> DEFINE v == [st EXCEPT ![t] = << >>]
           c == s.current
           f == st[c][1]
<1>1. /\ TopOf(st, c) = f /\ c \in Tasks /\ StackOK(st) /\ ~s.pendsv /\ st[c] # << >>
      /\ s.suspendedAll = 0 /\ s.pendingReady = << >> /\ Ready(s, c) /\ ListedIn(s, c)
      /\ Modes(s, st)
  BY BusyParts DEF Busy, Core
<1>2. /\ v = [u \in Tasks |-> v[u]] /\ v[t] = << >> /\ \A u \in Tasks \ {t} : v[u] = st[u]
  BY <1>1 DEF StackOK
<1> HIDE DEF v
<1>3. StackOK(v)
  <2>1. ASSUME NEW u \in Tasks
        PROVE  \/ v[u] = << >>
               \/ /\ v[u] = <<v[u][1]>> /\ FrameOK(u, v[u][1]) /\ v[u][1].op # "waitRestricted"
               \/ /\ v[u] = <<v[u][1], v[u][2]>> /\ FrameOK(u, v[u][1]) /\ FrameOK(u, v[u][2])
                  /\ Over(v[u][1], v[u][2])
    <3>1. CASE u = t
      BY <1>2, <3>1
    <3>2. CASE u # t
      <4>1. v[u] = st[u]
        BY <1>2, <3>2
      <4> QED
        BY <1>1, <4>1 DEF StackOK
    <3> QED
      BY <3>1, <3>2
  <2>2. v[Idle] # << >>
    BY <1>1, <1>2, Zero DEF StackOK
  <2> QED
    BY <1>2, <2>1, <2>2 DEF StackOK
<1>4. TopOf(v, t) = NoFrame /\ \A u \in Tasks \ {t} : TopOf(v, u) = TopOf(st, u)
  BY <1>2 DEF TopOf
<1>5. ~Holds(NoFrame)
  BY DEF NoFrame, Holds, QueueOps
<1>6. \A l \in EventLists : ~Contains(r.events[l], t)
  BY DEF Gone, Unlinked
<1>7. Modes(r, v)
  <2> SUFFICES ASSUME NEW u \in Tasks
               PROVE  /\ Holds(TopOf(v, u)) => u = r.current
                      /\ r.notify[u] = "waiting" => Awaits(TopOf(v, u))
                      /\ r.evValue[u] \in 1..MaxPriorities \/ Grouped(TopOf(v, u))
                      /\ \A q \in Queues : Contains(r.events[Received(q)], u) =>
                           r.evValue[u] \in 1..MaxPriorities
                      /\ v[u] # << >> => ListedIn(r, u)
    BY DEF Modes
  <2>1. CASE u = t
    BY <1>2, <1>4, <1>5, <2>1 DEF Gone
  <2>2. CASE u # t
    <3>1. Milder(s, r, u)
      BY <2>2 DEF Gone
    <3>2. /\ Holds(TopOf(st, u)) => u = s.current
          /\ s.notify[u] = "waiting" => Awaits(TopOf(st, u))
          /\ s.evValue[u] \in 1..MaxPriorities \/ Grouped(TopOf(st, u))
          /\ \A q \in Queues : Contains(s.events[Received(q)], u) => s.evValue[u] \in 1..MaxPriorities
          /\ st[u] # << >> => ListedIn(s, u)
      BY <1>1 DEF Modes
    <3>3. TopOf(v, u) = TopOf(st, u) /\ v[u] = st[u] /\ r.current = s.current
      BY <1>2, <1>4, <2>2 DEF Gone
    <3> QED
      BY <3>1, <3>2, <3>3, ReceivedList DEF Milder
  <2> QED
    BY <2>1, <2>2
<1>8. TopOf(v, c) = f /\ r.current = c /\ v[c] = st[c]
  BY <1>1, <1>2, <1>4 DEF Gone
<1>9. RunOK(r, f)
  <2>1. Ready(r, r.current) /\ r.suspendedAll = 0 /\ r.pendingReady = << >>
    BY <1>1 DEF Gone
  <2>2. ListedIn(r, r.current)
    BY <1>1, <1>8 DEF Gone, Milder
  <2> QED
    BY <2>1, <2>2 DEF RunOK, Runnable
<1>10. Core(r, v)
  BY <1>3, <1>7, <1>8, <1>9 DEF Core, Gone
<1>11. Busy(r, v)
  BY <1>1, <1>8, <1>10 DEF Busy, Gone
<1>12. Silent(s, r)
  BY <1>6, WaitingList DEF Silent, Gone, Milder
<1> QED
  BY <1>8, <1>11, <1>12 DEF v

LEMMA SilentTransitive ==
  ASSUME NEW s, NEW r, NEW v, Silent(s, r), Silent(r, v)
  PROVE  Silent(s, v)
BY DEF Silent

LEMMA IdleCleanUpFine == ASSUME Core(sched, stack), IdleCleanUp PROVE FineStep
<1>1. Busy(sched, stack) /\ Top.op = "idle" /\ Top.at = "start"
  BY AtBusy DEF IdleCleanUp
<1>2. Quiet(sched, Top) /\ ~Inherits(Top)
  BY <1>1 DEF Quiet, Holds, Dozes, Parks, Awaits, Grouped, QueueOps, Inherits
<1>3. SchedOK(sched) /\ Calm(sched, sched) /\ sched.pendingReady = << >> /\ me \in Tasks
  BY <1>1, <1>2, BusyTop, CalmOps DEF Quiet
<1>4. CASE sched.terminating = << >>
  <2>1. AtTop("share").op = "idle" /\ AtTop("share").at = "share"
    BY <1>1, AtTopFields
  <2>2. Stage(AtTop("share")) /\ ~Holds(AtTop("share"))
    BY <2>1 DEF Stage, Holds, QueueOps
  <2>3. GoTo("share", sched)
    BY <1>4 DEF IdleCleanUp
  <2> QED
    BY <1>1, <1>2, <1>3, <2>2, <2>3, QuietGoesTo
<1>5. CASE sched.terminating # << >>
  <2> DEFINE t == Head(sched.terminating)
             m == RemoveState(sched, t)
             r == Freed(m, t)
             v == [stack EXCEPT ![t] = << >>]
  <2>1. sched' = r /\ stack' = v
    BY <1>5 DEF IdleCleanUp
  <2>2. WF(sched) /\ IsList(sched.terminating)
    BY <1>3, WFParts, SchedIs
  <2>3. t \in Tasks /\ Contains(sched.terminating, t)
    BY <1>5, <2>2 DEF IsList, Contains
  <2> HIDE DEF t
  <2>4. Placed(sched, t) /\ ~Dormant(sched, t) /\ Placed(sched, Idle) /\ Placed(sched, me)
    BY <1>3, <2>3, Zero DEF SchedOK, OnePlace, Placed
  <2>5. t # Idle
    BY <1>3, <2>3, <2>4, Zero DEF SchedOK, IdleReady, Placed
  <2>6. t # me
    <3>1. Ready(sched, me) /\ sched.prio[me] \in Priorities
      BY <1>1, <1>2, <1>3, <2>2, ReadyApart, WFParts DEF Quiet, me, Top
    <3> QED
      BY <2>3, <2>4, <3>1 DEF Ready, Placed
  <2>7. ~Contains(sched.pendingReady, t)
    BY <1>3 DEF Contains
  <2>8. Unlinked(sched, t)
    BY <2>4, <2>7 DEF Placed, Unlinked
  <2>9. WF(m) /\ Others(sched, m, t) /\ Away(m, t) /\ AsLinked(sched, m, t) /\ Same(sched, m, StateLists)
    BY <2>2, <2>3, RemoveStateWF
  <2> HIDE DEF m
  <2>10. Unlinked(m, t) /\ Same(sched, m, DetachFields) /\ m.pendingReady = sched.pendingReady
    BY <2>8, <2>9 DEF Unlinked, AsLinked, Same, DetachFields, StateLists, SchedFields
  <2>11. Gone(sched, r, t)
    BY <1>3, <2>3, <2>5, <2>6, <2>9, <2>10, GoneOK DEF me
  <2> HIDE DEF r
  <2>12. Busy(r, v) /\ Silent(sched, r) /\ r.current = sched.current /\ v[sched.current] = stack[sched.current]
    BY <1>1, <1>2, <2>3, <2>5, <2>6, <2>11, GoneFine DEF Quiet, me, Top
  <2> HIDE DEF v
  <2>13. TopOf(v, r.current) = Top
    BY <1>1, <2>12, BusyTop DEF TopOf, me
  <2> QED
    BY <1>2, <2>1, <2>12, <2>13 DEF FineStep, Fine, Busy
<1> QED
  BY <1>4, <1>5

LEMMA DeleteOtherFine == ASSUME Core(sched, stack), DeleteOther PROVE FineStep
<1> DEFINE t == Top.obj
           m == Detach(sched, t)
           s == Freed(m, t)
           st == [stack EXCEPT ![t] = << >>]
           r == ResetNextUnblock(s)
           v == [st EXCEPT ![me] = Tail(@)]
<1>1. Busy(sched, stack) /\ Top.op = "delete" /\ Top.at = "start" /\ t # me
  BY AtBusy DEF DeleteOther
<1>2. Quiet(sched, Top)
  BY <1>1 DEF Quiet, Holds, Dozes, Parks, Awaits, Grouped, QueueOps
<1>3. t \in Tasks \ {Idle} /\ SchedOK(sched) /\ me \in Tasks /\ StackOK(stack)
  BY <1>1, BusyTop DEF Proper
<1>4. sched' = r /\ stack' = v
  BY <1>1, <1>3 DEF DeleteOther, StackOK
<1> HIDE DEF t
<1>5. /\ WF(m) /\ Others(sched, m, t) /\ Away(m, t) /\ Unlinked(m, t) /\ Same(sched, m, DetachFields)
      /\ sched.pendingReady = << >> => m.pendingReady = << >>
  BY <1>3, DetachWF
<1> HIDE DEF m
<1>6. Gone(sched, s, t)
  BY <1>1, <1>3, <1>5, GoneOK DEF me
<1> HIDE DEF s
<1>7. Busy(s, st) /\ Silent(sched, s) /\ s.current = sched.current /\ st[sched.current] = stack[sched.current]
  BY <1>1, <1>2, <1>3, <1>6, GoneFine DEF Quiet, me, Top
<1> HIDE DEF st
<1>8. st[s.current][1] = Top /\ s.current = me
  BY <1>7 DEF Top, me
<1>9. Quiet(s, st[s.current][1]) /\ st[s.current][1].op \notin {"waitRestricted", "idle"}
  BY <1>1, <1>2, <1>7, <1>8 DEF Quiet, Parks
<1>10. Calm(s, r)
  BY <1>7, CalmOps DEF Busy, Core
<1> HIDE DEF r
<1>11. Fine(s, st, r, [st EXCEPT ![s.current] = Tail(@)])
  BY <1>7, <1>9, <1>10, QuietReturn DEF Calm
<1>12. Fine(s, st, r, v)
  BY <1>8, <1>11
<1> HIDE DEF v
<1>13. Fine(sched, stack, r, v)
  BY <1>7, <1>12, SilentTransitive DEF Fine
<1> QED
  BY <1>4, <1>13 DEF FineStep

----------------------------------------------------------------------------
(* The idle task. *)

LEMMA IdleShareFine == ASSUME Core(sched, stack), IdleShare PROVE FineStep
<1>1. Busy(sched, stack) /\ Top.op = "idle" /\ Top.at = "share"
  BY AtBusy DEF IdleShare
<1>2. Quiet(sched, Top)
  BY <1>1 DEF Quiet, Holds, Dozes, Parks, Awaits, Grouped, QueueOps
<1>3. AtTop("sleep").op = "idle" /\ AtTop("sleep").at = "sleep"
  BY <1>1, AtTopFields
<1>4. Stage(AtTop("sleep")) /\ ~Holds(AtTop("sleep"))
  BY <1>3 DEF Stage, Holds, QueueOps
<1>5. Calm(sched, YieldIf(Len(sched.ready[0].items) > 1, sched))
  BY <1>1, BusyTop, CalmOps
<1> QED
  BY <1>1, <1>2, <1>4, <1>5, QuietGoesTo DEF IdleShare

LEMMA IdleSleepFine == ASSUME Core(sched, stack), IdleSleep PROVE FineStep
<1>1. Busy(sched, stack) /\ Top.op = "idle" /\ Top.at = "sleep"
  BY AtBusy DEF IdleSleep
<1>2. Quiet(sched, Top) /\ Calm(sched, sched)
  BY <1>1, BusyTop, CalmOps DEF Quiet, Holds, Dozes, Parks, Awaits, Grouped, QueueOps
<1>3. AtTop("wake").op = "idle" /\ AtTop("start").op = "idle"
      /\ AtTop("wake").at = "wake" /\ AtTop("start").at = "start"
  BY <1>1, AtTopFields
<1>4. Stage(AtTop("wake")) /\ Holds(AtTop("wake")) /\ Stage(AtTop("start")) /\ ~Holds(AtTop("start"))
  BY <1>3 DEF Stage, Holds, QueueOps
<1>5. CASE ExpectedIdleTime(sched) >= ExpectedIdleTimeBeforeSleep
  BY <1>1, <1>2, <1>4, <1>5, Suspends DEF IdleSleep
<1>6. CASE ~(ExpectedIdleTime(sched) >= ExpectedIdleTimeBeforeSleep)
  BY <1>1, <1>2, <1>4, <1>6, QuietGoesTo DEF IdleSleep
<1> QED
  BY <1>5, <1>6

LEMMA IdleWakeFine == ASSUME Core(sched, stack), IdleWake PROVE FineStep
<1>1. Busy(sched, stack) /\ Top.op = "idle" /\ Top.at = "wake"
  BY AtBusy DEF IdleWake
<1>2. Holds(Top) /\ ~Awaits(Top) /\ ~Grouped(Top) /\ ~Dozes(Top) /\ ~Parks(sched, Top)
  BY <1>1 DEF Holds, Dozes, Parks, Awaits, Grouped, QueueOps
<1>3. AtTop("start").op = "idle" /\ AtTop("start").at = "start"
  BY <1>1, AtTopFields
<1>4. Stage(AtTop("start")) /\ ~Holds(AtTop("start"))
  BY <1>3 DEF Stage, Holds, QueueOps
<1> QED
  BY <1>1, <1>2, <1>4, ResumesAt DEF IdleWake

LEMMA TaskStepFine == ASSUME Core(sched, stack), TaskStep PROVE FineStep /\ UNCHANGED scenario
<1>1. FineStep
  BY CreateFine, CreateCheckFine, DeleteSelfFine, DeleteOtherFine, YieldAtEndFine, DelayFine,
     DelayAddFine, DelayUntilFine, DelayUntilAddFine, DelayResumeFine, HoldFine, ReleaseFine,
     TaskYieldFine, SuspendFine, SuspendResetFine, ResumeFine, PrioritySetFine, NotifyTakeFine,
     NotifyTakenFine, NotifyWaitFine, NotifyWaitedFine, NotifyFine, NotifyStateClearFine,
     IdleCleanUpFine, IdleShareFine, IdleSleepFine, IdleWakeFine DEF TaskStep
<1>2. UNCHANGED scenario
  BY DEF TaskStep, Create, CreateCheck, DeleteSelf, DeleteOther, YieldAtEnd, Delay, DelayAdd,
     DelayUntil, DelayUntilAdd, DelayResume, Hold, Release, TaskYield, Suspend, SuspendReset,
     Resume, PrioritySet, NotifyTake, NotifyTaken, NotifyWait, NotifyWaited, Notify,
     NotifyStateClear, IdleCleanUp, IdleShare, IdleSleep, IdleWake, GoTo, Return
<1> QED
  BY <1>1, <1>2

----------------------------------------------------------------------------
(* Interrupts. *)

(* What an interrupt does that wakes tasks. *)
LEMMA InterruptCore ==
  ASSUME NEW s, NEW st, Core(s, st), NEW r, SchedOK(r), Harmless(s, r)
  PROVE  Core(r, st)
<1> DEFINE f == TopOf(st, s.current)
<1>1. /\ r.current = s.current /\ StackOK(st) /\ Modes(s, st) /\ RunOK(s, f)
      /\ Ready(s, s.current) => Ready(r, r.current)
      /\ \A t \in Tasks : Milder(s, r, t)
      /\ r.suspendedAll = s.suspendedAll /\ (s.pendsv => r.pendsv)
      /\ s.suspendedAll = 0 /\ s.pendingReady = << >> => r.pendingReady = << >>
  BY DEF Core, Harmless, Mild
<1>2. s.current \in Tasks /\ s.suspendedAll \in Nat
  BY SchedIs DEF Core
<1>3. Modes(r, st)
  BY <1>1, ReceivedList DEF Modes, Milder
<1> HIDE DEF f
<1>4. Runnable(r, f)
  BY <1>1 DEF RunOK, Runnable, Parks
<1>5. r.pendingReady # << >> => r.suspendedAll > 0
  BY <1>1, <1>2 DEF RunOK
<1>6. ListedIn(r, r.current)
  BY <1>1, <1>2 DEF RunOK, Milder
<1>7. RunOK(r, f)
  BY <1>1, <1>4, <1>5, <1>6 DEF RunOK
<1> QED
  BY <1>1, <1>3, <1>7 DEF Core, f

LEMMA NotWaiting ==
  ASSUME NEW s, NEW st, Core(s, st)
  PROVE  s.suspendedAll # 0 => s.notify[s.current] # "waiting"
<1> DEFINE f == TopOf(st, s.current)
<1>1. s.current \in Tasks /\ Modes(s, st) /\ RunOK(s, f)
  BY SchedIs DEF Core
<1>2. s.notify[s.current] = "waiting" => Awaits(f)
  BY <1>1 DEF Modes
<1> HIDE DEF f
<1>3. Awaits(f) => ~Holds(f)
  BY DEF Awaits, Holds, QueueOps
<1> QED
  BY <1>1, <1>2, <1>3 DEF RunOK

CalmInterrupt == Calm(sched, sched')

LEMMA NotifyInterruptCalm ==
  ASSUME Core(sched, stack), NEW call, Proper(call), NotifyInterrupt(call)
  PROVE  Calm(sched, sched')
<1>1. call.obj \in Tasks /\ SchedOK(sched)
  BY DEF NotifyInterrupt, Proper, Core
<1>2. Calm(sched, NotifyFromISR(sched, call.obj, call.arg[1], call.arg[2]))
  BY <1>1, NotWaiting, CalmNotifies
<1> QED
  BY <1>2 DEF NotifyInterrupt

LEMMA SysTickCalm == ASSUME Core(sched, stack), SysTick PROVE Calm(sched, sched')
<1> DEFINE r == IncrementTick(sched).s
           yes == IncrementTick(sched).yes
<1>1. /\ SchedOK(r) /\ Harmless(sched, r)
      /\ sched.suspendedAll = 0 => Same(sched, r, Ticked)
      /\ sched.suspendedAll # 0 => Same(sched, r, {"pendedTicks"})
  BY IncrementTickOK DEF Core
<1>2. sched' = YieldIf(yes, r)
  BY DEF SysTick
<1> HIDE DEF r, yes
<1>3. "bits" \notin Ticked
  BY DEF Ticked, StateLists
<1>4. Calm(sched, r)
  BY <1>1, <1>3, SameBits DEF Calm
<1> QED
  BY <1>2, <1>4, CalmYields

----------------------------------------------------------------------------
(* PendSV. *)

LEMMA SwitchedOffOK ==
  ASSUME NEW s, SchedOK(s), NEW v
  PROVE  LET r == [s EXCEPT !.yieldPending = v, !.pendsv = FALSE]
         IN  SchedOK(r) /\ Mild(s, r) /\ Same(s, r, {"yieldPending", "pendsv"})
<1> DEFINE r == [s EXCEPT !.yieldPending = v, !.pendsv = FALSE]
<1>1. IsSched(s)
  BY SchedIs
<1>2. IsSched(r) /\ Same(s, r, {"yieldPending", "pendsv"})
  BY <1>1 DEF IsSched, SchedFields, Same
<1> HIDE DEF r
<1>3. /\ r.ready = s.ready /\ r.delayed = s.delayed /\ r.overflow = s.overflow
      /\ r.suspended = s.suspended /\ r.terminating = s.terminating /\ r.events = s.events
      /\ r.pendingReady = s.pendingReady /\ r.prio = s.prio /\ r.notify = s.notify
      /\ r.base = s.base /\ r.evValue = s.evValue /\ r.current = s.current /\ r.top = s.top
      /\ r.entry = s.entry /\ r.bits = s.bits /\ r.pendedTicks = s.pendedTicks
      /\ r.suspendedAll = s.suspendedAll
  BY <1>2 DEF Same, SchedFields
<1>4. Shaped(r)
  BY <1>2, <1>3 DEF SchedOK, Shaped, IsSched
<1>5. HasLists(r)
  BY <1>3 DEF SchedOK, HasLists
<1>6. OnePlace(r)
  BY <1>3 DEF SchedOK, OnePlace, Placed, Dormant, Unlinked
<1>7. IdleReady(r) /\ CurrentApart(r)
  BY <1>3 DEF SchedOK, IdleReady, CurrentApart, Ready
<1>8. Mild(s, r)
  BY <1>3 DEF Mild, Milder, Ready, ListedIn, Dormant
<1> QED
  BY <1>2, <1>4, <1>5, <1>6, <1>7, <1>8 DEF SchedOK, r

(* After a switch nobody is about to give in. *)
LEMMA SwitchContextOK ==
  ASSUME NEW s, NEW st, Core(s, st)
  PROVE  LET r == SwitchContext(s)
         IN  /\ Core(r, st) /\ Silent(s, r)
             /\ Inherits(TopOf(st, r.current)) => r.current = s.current
<1> DEFINE f == TopOf(st, s.current)
           m == [s EXCEPT !.yieldPending = TRUE, !.pendsv = FALSE]
           n == [s EXCEPT !.yieldPending = FALSE, !.pendsv = FALSE]
           v == SelectHighest(n)
           r == SwitchContext(s)
<1>1. SchedOK(s) /\ StackOK(st) /\ Modes(s, st) /\ RunOK(s, f) /\ s.current \in Tasks
      /\ s.suspendedAll \in Nat
  BY SchedIs DEF Core
<1>2. SchedOK(m) /\ Mild(s, m) /\ Same(s, m, {"yieldPending", "pendsv"})
  BY <1>1, SwitchedOffOK
<1>3. SchedOK(n) /\ Mild(s, n) /\ Same(s, n, {"yieldPending", "pendsv"})
  BY <1>1, SwitchedOffOK
<1>4. r = IF s.suspendedAll > 0 THEN m ELSE v
  BY DEF SwitchContext
<1> HIDE DEF m, n, r, f
<1>5. CASE s.suspendedAll > 0
  <2>1. r = m
    BY <1>4, <1>5
  <2>2. /\ m.current = s.current /\ m.suspendedAll = s.suspendedAll /\ m.bits = s.bits
        /\ m.events = s.events
        /\ Ready(s, s.current) => Ready(m, m.current)
        /\ \A t \in Tasks : Milder(s, m, t)
    BY <1>2 DEF Same, SchedFields, Mild
  <2>3. Modes(m, st)
    BY <1>1, <2>2, ReceivedList DEF Modes, Milder
  <2>4. Runnable(m, f)
    BY <1>1, <1>5, <2>2 DEF RunOK, Runnable, Parks
  <2>5. ListedIn(m, m.current)
    BY <1>1, <2>2 DEF RunOK, Milder
  <2>6. RunOK(m, f)
    BY <1>1, <1>5, <2>2, <2>4, <2>5 DEF RunOK
  <2>7. Core(m, st)
    BY <1>1, <1>2, <2>2, <2>3, <2>6 DEF Core, f
  <2>8. Silent(s, m)
    BY <2>2 DEF Silent
  <2> QED
    BY <2>1, <2>2, <2>7, <2>8 DEF r
<1>6. CASE ~(s.suspendedAll > 0)
  <2>1. r = v
    BY <1>4, <1>6
  <2>2. s.suspendedAll = 0 /\ s.pendingReady = << >> /\ ~Holds(f)
    BY <1>1, <1>6 DEF RunOK
  <2>3. n.pendingReady = << >> /\ n.suspendedAll = 0 /\ n.bits = s.bits /\ n.events = s.events
        /\ n.notify = s.notify /\ n.evValue = s.evValue
        /\ \A t \in Tasks : ListedIn(s, t) => ListedIn(n, t)
    BY <1>3, <2>2 DEF Same, SchedFields, Mild, Milder
  <2>4. /\ SchedOK(v) /\ Ready(v, v.current) /\ Same(n, v, {"ready", "current", "top"})
        /\ \A t \in Tasks : ListedIn(n, t) <=> ListedIn(v, t)
    BY <1>3, <2>3, SelectHighestOK
  <2> HIDE DEF v
  <2>5. v.pendingReady = << >> /\ v.suspendedAll = 0 /\ v.bits = s.bits /\ v.events = s.events
        /\ v.notify = s.notify /\ v.evValue = s.evValue
    BY <2>3, <2>4 DEF Same, SchedFields
  <2>6. \A t \in Tasks : ~Holds(TopOf(st, t))
    BY <1>1, <2>2 DEF Modes, f
  <2>7. Modes(v, st)
    BY <1>1, <2>3, <2>4, <2>5, <2>6 DEF Modes
  <2>8. v.current \in Tasks
    BY <2>4, SchedIs
  <2>9. ListedIn(v, v.current)
    <3>1. v.prio[v.current] \in Priorities
      BY <2>4, <2>8, SchedIs, WFParts
    <3> QED
      BY <2>4, <3>1 DEF Ready, ListedIn
  <2>10. ~Holds(TopOf(st, v.current))
    BY <2>6, <2>8
  <2>11. RunOK(v, TopOf(st, v.current))
    BY <2>4, <2>5, <2>9, <2>10 DEF RunOK, Runnable
  <2>12. Core(v, st)
    BY <1>1, <2>4, <2>7, <2>11 DEF Core
  <2>13. Silent(s, v)
    BY <2>5 DEF Silent
  <2>14. ~Inherits(TopOf(st, v.current))
    BY <2>10 DEF Inherits, Holds, QueueOps
  <2> QED
    BY <2>1, <2>12, <2>13, <2>14 DEF r
<1> QED
  BY <1>5, <1>6

----------------------------------------------------------------------------
(* A new call. *)

LEMMA FrameFieldsOf ==
  ASSUME NEW call
  PROVE  LET g == Frame(call)
         IN  /\ IsFrame(g) /\ g.op = call.op /\ g.at = "start" /\ g.obj = call.obj /\ g.arg = call.arg
             /\ g.wait = call.wait /\ g.then = "return"
BY DEF Frame, IsFrame, FrameFields

LEMMA StartFrame ==
  ASSUME NEW t \in Tasks \ {Idle}, NEW call, Proper(call)
  PROVE  /\ FrameOK(t, Frame(call)) /\ Frame(call).op # "idle" /\ Frame(call).op = call.op
         /\ (Frame(call).op # "waitRestricted" => ~Holds(Frame(call)))
         /\ ~Inherits(Frame(call)) /\ ~Dozes(Frame(call))
<1> DEFINE g == Frame(call)
<1>1. /\ IsFrame(g) /\ g.op = call.op /\ g.at = "start" /\ g.obj = call.obj /\ g.arg = call.arg
  BY FrameFieldsOf
<1> HIDE DEF g
<1>2. Proper(g)
  BY <1>1 DEF Proper
<1>3. Stage(g)
  BY <1>1 DEF Stage
<1>4. (g.op # "waitRestricted" => ~Holds(g)) /\ ~Inherits(g) /\ ~Dozes(g)
  BY <1>1 DEF Holds, Inherits, Dozes
<1>5. FrameOK(t, g) /\ g.op # "idle"
  BY <1>1, <1>2, <1>3 DEF FrameOK, Proper
<1> QED
  BY <1>1, <1>4, <1>5 DEF g

LEMMA CallFine ==
  ASSUME Core(sched, stack), NEW call, Proper(call), call.op # "waitRestricted", Call(call)
  PROVE  FineStep
<1> DEFINE g == Frame(call)
           c == sched.current
           w == <<g>>
           v == [stack EXCEPT ![c] = w]
<1>1. /\ ~sched.pendsv /\ stack[c] = << >> /\ sched' = sched /\ stack' = v
  BY DEF Call, TaskRuns, me
<1>2. c \in Tasks \ {Idle} /\ SchedOK(sched) /\ TopOf(stack, c) = NoFrame /\ StackOK(stack)
  BY <1>1, SchedIs DEF Core, StackOK, TopOf
<1>3. FrameOK(c, g) /\ ~Holds(g) /\ ~Inherits(g) /\ g.op # "waitRestricted"
  BY <1>2, StartFrame
<1> HIDE DEF g
<1>4. w = <<w[1]>> /\ w[1] = g /\ w # << >>
  BY Tails
<1>5. StackOf(c, w) /\ FirstOf(w) = g
  BY <1>3, <1>4 DEF StackOf, FirstOf
<1>6. ~Holds(NoFrame) /\ ~Dozes(NoFrame) /\ ~Awaits(NoFrame) /\ ~Grouped(NoFrame) /\ ~Parks(sched, NoFrame)
  BY DEF NoFrame, Holds, Dozes, Awaits, Grouped, QueueOps, Parks
<1>7. Moves(sched, sched, TopOf(stack, c), g)
  BY <1>2, <1>3, <1>6, HarmlessSelf, HarmlessMoves
<1>8. Lands(sched, sched, FirstOf(w))
  BY <1>1, <1>5, <1>7, MovesLands
<1>9. Core(sched, v)
  BY <1>5, <1>8, Landed
<1>10. v[c] = w
  BY <1>2 DEF StackOK
<1>11. TopOf(v, c) = g
  BY <1>5, <1>10 DEF TopOf, FirstOf
<1> HIDE DEF v
<1>12. Silent(sched, sched)
  BY DEF Silent
<1>13. Fine(sched, stack, sched, v)
  BY <1>3, <1>9, <1>11, <1>12 DEF Fine
<1> QED
  BY <1>1, <1>13 DEF FineStep

----------------------------------------------------------------------------
(* No task is more urgent than the current one. *)

(* uxTopReadyPriority is no less than the priority of any ready task. *)
Topped(s) == \A t \in Tasks : Ready(s, t) => s.prio[t] <= s.top

(* No ready task, except for those in X, is more urgent than the current one. *)
Urgent(s, X) == \A t \in Tasks \ X : Ready(s, t) => s.prio[t] <= s.prio[s.current]

(* A switch will come. *)
Owes(s) == s.pendsv \/ s.yieldPending

Good(s, X) == Topped(s) /\ (Owes(s) \/ Urgent(s, X))

(* It will come at once, unless the scheduler is suspended. *)
Steady(s) == s.yieldPending /\ s.suspendedAll = 0 => s.pendsv

Serves(s, r) == \A X : Good(s, X) /\ Steady(s) => Good(r, X) /\ Steady(r)

LEMMA Levels == \A p \in Priorities : p \in Int
BY Zero DEF Priorities

LEMMA AddToReadyTop ==
  ASSUME NEW s, WF(s), NEW t \in Tasks
  PROVE  s.top <= AddToReady(s, t).top /\ s.prio[t] <= AddToReady(s, t).top
<1>1. IsSched(s) /\ s.prio[t] \in Int /\ s.top \in Int
  BY WFParts, Levels DEF WF, Shaped
<1>2. AddToReady(s, t).top = IF s.prio[t] > s.top THEN s.prio[t] ELSE s.top
  BY <1>1 DEF IsSched, AddToReady, SchedFields
<1> QED
  BY <1>1, <1>2

LEMMA OneTopped ==
  ASSUME NEW s, WF(s), NEW r, WF(r), NEW t \in Tasks, Others(s, r, t), s.top <= r.top,
         Ready(r, t) => r.prio[t] <= r.top, Topped(s)
  PROVE  Topped(r)
<1> SUFFICES ASSUME NEW u \in Tasks, Ready(r, u) PROVE r.prio[u] <= r.top
  BY DEF Topped
<1>1. CASE u = t
  BY <1>1
<1>2. CASE u # t
  <2>1. Ready(s, u) /\ r.prio[u] = s.prio[u]
    BY <1>2, OthersReady DEF Others
  <2>2. s.prio[u] <= s.top
    BY <2>1 DEF Topped
  <2>3. s.prio[u] \in Int /\ s.top \in Int /\ r.top \in Int
    BY WFParts, Levels DEF WF, Shaped
  <2> QED
    BY <2>1, <2>2, <2>3
<1> QED
  BY <1>1, <1>2

(* One task has changed its place or its priority. *)
LEMMA OneGood ==
  ASSUME NEW s, WF(s), NEW r, WF(r), NEW t \in Tasks, Others(s, r, t), s.top <= r.top,
         Ready(r, t) => r.prio[t] <= r.top, r.current = s.current, NEW X, Good(s, X),
         Owes(s) => Owes(r), t = s.current => s.prio[t] <= r.prio[t],
         Ready(r, t) => t \in X \/ r.prio[t] <= r.prio[r.current]
  PROVE  Good(r, X)
<1>1. Topped(r)
  BY OneTopped DEF Good
<1>2. CASE Owes(s)
  BY <1>1, <1>2 DEF Good
<1>3. CASE Urgent(s, X)
  <2> SUFFICES ASSUME NEW u \in Tasks \ X, Ready(r, u) PROVE r.prio[u] <= r.prio[r.current]
    BY <1>1 DEF Good, Urgent
  <2>1. CASE u = t
    BY <2>1
  <2>2. CASE u # t
    <3>1. Ready(s, u) /\ r.prio[u] = s.prio[u]
      BY <2>2, OthersReady DEF Others
    <3>2. s.prio[u] <= s.prio[s.current]
      BY <1>3, <3>1 DEF Urgent
    <3>3. s.current \in Tasks /\ s.prio[u] \in Int /\ s.prio[s.current] \in Int /\ r.prio[s.current] \in Int
      BY WFParts, Levels
    <3>4. s.prio[s.current] <= r.prio[s.current]
      <4>1. CASE t = s.current
        BY <4>1
      <4>2. CASE t # s.current
        BY <3>3, <4>2 DEF Others
      <4> QED
        BY <4>1, <4>2
    <3> QED
      BY <3>1, <3>2, <3>3, <3>4
  <2> QED
    BY <2>1, <2>2
<1> QED
  BY <1>2, <1>3 DEF Good

LEMMA SameGood ==
  ASSUME NEW s, NEW r, NEW F, Same(s, r, F),
         "ready" \notin F, "prio" \notin F, "current" \notin F, "top" \notin F,
         Owes(s) => Owes(r)
  PROVE  (Topped(s) => Topped(r)) /\ \A X : Good(s, X) => Good(r, X)
<1>1. r.ready = s.ready /\ r.prio = s.prio /\ r.current = s.current /\ r.top = s.top
  BY DEF Same, SchedFields
<1> QED
  BY <1>1 DEF Good, Topped, Urgent, Ready

LEMMA PlainServes ==
  ASSUME NEW s, NEW r, NEW F, Same(s, r, F),
         "ready" \notin F, "prio" \notin F, "current" \notin F, "top" \notin F,
         "pendsv" \notin F, "yieldPending" \notin F, "suspendedAll" \notin F
  PROVE  Serves(s, r)
<1>1. r.pendsv = s.pendsv /\ r.yieldPending = s.yieldPending /\ r.suspendedAll = s.suspendedAll
  BY DEF Same, SchedFields
<1>2. \A X : Good(s, X) => Good(r, X)
  BY <1>1, SameGood DEF Owes
<1> QED
  BY <1>1, <1>2 DEF Serves, Steady

LEMMA ServesTransitive ==
  ASSUME NEW s, NEW r, NEW v, Serves(s, r), Serves(r, v)
  PROVE  Serves(s, v)
BY DEF Serves

LEMMA YieldServes ==
  ASSUME NEW s, SchedOK(s)
  PROVE  /\ Serves(s, Yield(s)) /\ \A c : Serves(s, YieldIf(c, s))
         /\ \A X : Good(s, X) => Good(Yield(s), X)
<1> DEFINE r == Yield(s)
<1>1. Same(s, r, {"pendsv"}) /\ r.pendsv
  BY YieldOK
<1>2. \A c : YieldIf(c, s) = r \/ YieldIf(c, s) = s
  BY DEF YieldIf
<1> HIDE DEF r
<1>3. \A X : Good(s, X) => Good(r, X)
  BY <1>1, SameGood DEF Owes
<1>4. Serves(s, r) /\ Serves(s, s)
  BY <1>1, <1>3 DEF Serves, Steady
<1> QED
  BY <1>2, <1>3, <1>4 DEF r

----------------------------------------------------------------------------
(* Tasks that become ready. *)

LEMMA ToReadyTop ==
  ASSUME NEW s, WF(s), NEW t \in Tasks
  PROVE  s.top <= ToReady(s, t).top /\ s.prio[t] <= ToReady(s, t).top
<1> DEFINE m == RemoveState(s, t)
<1>1. WF(m) /\ Same(s, m, StateLists)
  BY RemoveStateWF
<1>2. ToReady(s, t) = AddToReady(m, t)
  BY DEF ToReady
<1> HIDE DEF m
<1>3. m.top = s.top /\ m.prio = s.prio
  BY <1>1 DEF Same, SchedFields, StateLists
<1> QED
  BY <1>1, <1>2, <1>3, AddToReadyTop

LEMMA ToReadyGood ==
  ASSUME NEW s, WF(s), NEW t \in Tasks
  PROVE  LET r == ToReady(s, t)
         IN  /\ Topped(s) => Topped(r)
             /\ \A X : Good(s, X) /\ (t \in X \/ s.prio[t] <= s.prio[s.current]) => Good(r, X)
<1> DEFINE r == ToReady(s, t)
<1>1. WF(r) /\ Others(s, r, t) /\ Same(s, r, StateLists \cup {"top"})
  BY ToReadyWF
<1>2. s.top <= r.top /\ s.prio[t] <= r.top
  BY ToReadyTop
<1> HIDE DEF r
<1>3. /\ r.prio = s.prio /\ r.current = s.current /\ r.pendsv = s.pendsv
      /\ r.yieldPending = s.yieldPending
  BY <1>1 DEF Same, SchedFields, StateLists
<1>4. Topped(s) => Topped(r)
  BY <1>1, <1>2, <1>3, OneTopped
<1>5. s.prio[t] \in Int
  BY WFParts, Levels
<1>6. ASSUME NEW X, Good(s, X), t \in X \/ s.prio[t] <= s.prio[s.current] PROVE Good(r, X)
  <2>1. Owes(s) => Owes(r)
    BY <1>3 DEF Owes
  <2>2. s.prio[t] <= r.prio[t] /\ (t \in X \/ r.prio[t] <= r.prio[r.current])
    BY <1>3, <1>5, <1>6
  <2> QED
    BY <1>1, <1>2, <1>3, <1>6, <2>1, <2>2, OneGood
<1> QED
  BY <1>4, <1>6 DEF r

LEMMA WokenUpGood ==
  ASSUME NEW s, SchedOK(s), NEW t \in Tasks
  PROVE  LET r == ToReady(RemoveEvent(s, t), t)
         IN  /\ Topped(s) => Topped(r)
             /\ \A X : Good(s, X) /\ (t \in X \/ s.prio[t] <= s.prio[s.current]) => Good(r, X)
<1> DEFINE m == RemoveEvent(s, t)
<1>1. SchedOK(m) /\ Same(s, m, {"events", "pendingReady"})
  BY RemoveEventOK
<1> HIDE DEF m
<1>2. /\ m.prio = s.prio /\ m.current = s.current /\ m.pendsv = s.pendsv
      /\ m.yieldPending = s.yieldPending
  BY <1>1 DEF Same, SchedFields
<1>3. (Topped(s) => Topped(m)) /\ \A X : Good(s, X) => Good(m, X)
  BY <1>1, <1>2, SameGood DEF Owes
<1>4. WF(m)
  BY <1>1, SchedIs
<1> QED
  BY <1>2, <1>3, <1>4, ToReadyGood DEF m

Upholds(s, r) == \A X : Good(s, X) => Good(r, X)

LEMMA UpholdsTransitive ==
  ASSUME NEW s, NEW r, NEW v, Upholds(s, r), Upholds(r, v)
  PROVE  Upholds(s, v)
BY DEF Upholds

(* While the scheduler is suspended, a yield may be pending. *)
LEMMA UpheldServes ==
  ASSUME NEW s, NEW r, Upholds(s, r), Steady(s) => Steady(r)
  PROVE  Serves(s, r)
BY DEF Upholds, Serves

LEMMA SuspendedServes ==
  ASSUME NEW s, NEW r, Upholds(s, r), r.suspendedAll # 0
  PROVE  Serves(s, r)
<1>1. Steady(r)
  BY DEF Steady
<1> QED
  BY <1>1, UpheldServes

LEMMA SameUpholds ==
  ASSUME NEW s, NEW r, NEW F, Same(s, r, F),
         "ready" \notin F, "prio" \notin F, "current" \notin F, "top" \notin F,
         Owes(s) => Owes(r)
  PROVE  Upholds(s, r)
BY SameGood DEF Upholds

(* m is s after t has become ready, and r is m once a yield has been asked  *)
(* for if t is more urgent than the current task. *)
LEMMA ReadiesGood ==
  ASSUME NEW s, NEW m, NEW t, Topped(s) => Topped(m),
         \A X : Good(s, X) /\ (t \in X \/ s.prio[t] <= s.prio[s.current]) => Good(m, X),
         NEW r, NEW F, Same(m, r, F),
         "ready" \notin F, "prio" \notin F, "current" \notin F, "top" \notin F,
         Owes(m) => Owes(r), s.prio[t] <= s.prio[s.current] \/ Owes(r)
  PROVE  Upholds(s, r)
<1>1. (Topped(m) => Topped(r)) /\ \A X : Good(m, X) => Good(r, X)
  BY SameGood
<1> SUFFICES ASSUME NEW X, Good(s, X) PROVE Good(r, X)
  BY DEF Upholds
<1>2. CASE s.prio[t] <= s.prio[s.current]
  BY <1>1, <1>2
<1>3. CASE Owes(r)
  BY <1>1, <1>3 DEF Good
<1> QED
  BY <1>2, <1>3

(* The same of a task that is woken. *)
LEMMA WakesGood ==
  ASSUME NEW s, SchedOK(s), NEW t \in Tasks, NEW r, NEW F,
         Same(ToReady(RemoveEvent(s, t), t), r, F),
         "ready" \notin F, "prio" \notin F, "current" \notin F, "top" \notin F,
         Owes(s) => Owes(r), s.prio[t] <= s.prio[s.current] \/ Owes(r)
  PROVE  Upholds(s, r)
<1> DEFINE m == ToReady(RemoveEvent(s, t), t)
<1>1. /\ Topped(s) => Topped(m)
      /\ \A X : Good(s, X) /\ (t \in X \/ s.prio[t] <= s.prio[s.current]) => Good(m, X)
  BY WokenUpGood
<1>2. Same(s, m, StateLists \cup {"top", "events", "pendingReady"})
  BY WokenUpOK
<1>3. Same(m, r, F)
  OBVIOUS
<1> HIDE DEF m
<1>4. m.pendsv = s.pendsv /\ m.yieldPending = s.yieldPending
  BY <1>2 DEF Same, SchedFields, StateLists
<1>5. Owes(m) => Owes(r)
  BY <1>4 DEF Owes
<1> QED
  BY <1>1, <1>3, <1>5, ReadiesGood

----------------------------------------------------------------------------
(* The tick. *)

GoodOr(s, yes, X) == Topped(s) /\ (yes \/ Owes(s) \/ Urgent(s, X))

LEMMA GoodIsGoodOr == \A s, X : Good(s, X) <=> GoodOr(s, FALSE, X)
BY DEF Good, GoodOr

LEMMA WakeOneGood ==
  ASSUME NEW a, SchedOK(a.s), NEW t \in Tasks, NEW X, GoodOr(a.s, a.yes, X)
  PROVE  GoodOr(WakeOne(a, t).s, WakeOne(a, t).yes, X)
<1> DEFINE s == a.s
           m == ToReady(RemoveEvent(s, t), t)
           yes == a.yes \/ s.prio[t] >= s.prio[s.current]
<1>1. WakeOne(a, t).s = m /\ WakeOne(a, t).yes = yes
  BY DEF WakeOne
<1>2. /\ Topped(s) => Topped(m)
      /\ \A Y : Good(s, Y) /\ (t \in Y \/ s.prio[t] <= s.prio[s.current]) => Good(m, Y)
  BY WokenUpGood
<1>3. s.prio[t] \in Int /\ s.prio[s.current] \in Int
  BY SchedIs, WFParts, Levels
<1> HIDE DEF m, s
<1>4. CASE yes
  BY <1>1, <1>2, <1>4 DEF GoodOr, s
<1>5. CASE ~yes
  <2>1. ~a.yes /\ ~(s.prio[t] >= s.prio[s.current])
    BY <1>5
  <2>2. s.prio[t] <= s.prio[s.current]
    BY <1>3, <2>1
  <2>3. Good(s, X)
    BY <2>1 DEF Good, GoodOr, s
  <2>4. Good(m, X)
    BY <1>2, <2>2, <2>3
  <2> QED
    BY <1>1, <2>4 DEF Good, GoodOr
<1> QED
  BY <1>4, <1>5

LEMMA WakeListGood ==
  ASSUME NEW a, SchedOK(a.s), NEW q \in Seq(Tasks), NEW X, GoodOr(a.s, a.yes, X)
  PROVE  GoodOr(WokenAll(a, q).s, WokenAll(a, q).yes, X)
<1> DEFINE Still(b) == SchedOK(b.s) /\ GoodOr(b.s, b.yes, X)
<1>0. Len(q) \in Nat
  OBVIOUS
<1>1. PICK F : /\ F[0] = a /\ F[Len(q)] = WokenAll(a, q)
               /\ \A i \in 1..Len(q) : F[i] = WakeOne(F[i - 1], q[i])
  <2>1. q \in Seq(Tasks)
    OBVIOUS
  <2> QED
    BY ONLY <2>1, WakeFold
<1> DEFINE n == Len(q)
           S == {i \in 0..n : Still(F[i])}
<1>2. 0 \in S
  BY <1>0, <1>1
<1>3. ASSUME NEW i \in 1..n, i - 1 \in S PROVE i \in S
  <2> DEFINE b == F[i - 1]
             c == F[i]
  <2>0. q[i] \in Tasks /\ c = WakeOne(b, q[i])
    BY <1>0, <1>1
  <2>1. SchedOK(b.s) /\ GoodOr(b.s, b.yes, X)
    BY <1>3
  <2> HIDE DEF b
  <2>2. c.s = ToReady(RemoveEvent(b.s, q[i]), q[i])
    BY <2>0 DEF WakeOne
  <2>3. SchedOK(c.s)
    BY <2>0, <2>1, <2>2, WokenUpOK
  <2>4. GoodOr(c.s, c.yes, X)
    BY <2>0, <2>1, WakeOneGood
  <2> QED
    BY <1>0, <2>3, <2>4
<1>4. n \in Nat /\ n \in 0..n
  BY <1>0
<1> HIDE DEF S
<1>5. \A i \in 0..n : i \in S
  <2> HIDE DEF n
  <2> QED
    BY <1>2, <1>3, <1>4, Upward
<1>6. Still(F[n])
  <2> HIDE DEF n
  <2> QED
    BY <1>4, <1>5 DEF S
<1> QED
  BY <1>1, <1>6

LEMMA WokenShape ==
  ASSUME NEW s, NEW yes, NEW q \in Seq(Tasks)
  PROVE  LET r == WokenAll([s |-> s, yes |-> yes], q) IN r = [s |-> r.s, yes |-> r.yes]
<1> DEFINE a == [s |-> s, yes |-> yes]
<1>0. Len(q) \in Nat
  OBVIOUS
<1>1. PICK F : /\ F[0] = a /\ F[Len(q)] = WokenAll(a, q)
               /\ \A i \in 1..Len(q) : F[i] = WakeOne(F[i - 1], q[i])
  <2>1. q \in Seq(Tasks)
    OBVIOUS
  <2> QED
    BY ONLY <2>1, WakeFold
<1> DEFINE r == WokenAll(a, q)
<1>2. CASE Len(q) = 0
  <2>1. r = a
    BY <1>1, <1>2
  <2> HIDE DEF r
  <2> QED
    BY <2>1 DEF r
<1>3. CASE Len(q) # 0
  <2> DEFINE b == F[Len(q) - 1]
  <2>1. r = WakeOne(b, q[Len(q)])
    BY <1>0, <1>1, <1>3
  <2> HIDE DEF r, b
  <2>2. r = [s |-> r.s, yes |-> r.yes]
    BY <2>1 DEF WakeOne
  <2> QED
    BY <2>2 DEF r
<1> QED
  BY <1>2, <1>3

LEMMA IncrementTickGood ==
  ASSUME NEW s, SchedOK(s), NEW X, Good(s, X)
  PROVE  GoodOr(IncrementTick(s).s, IncrementTick(s).yes, X)
<1> DEFINE ticked == NextTick(s)
           now == IF ticked.tick = 0 THEN SwitchDelayedLists(ticked) ELSE ticked
           woken == WokenAll([s |-> now, yes |-> FALSE], Expired(now))
           due == now.tick >= now.nextUnblock
           after == IF due THEN ResetNextUnblock(woken.s) ELSE now
           yes == due /\ woken.yes
           r == IncrementTick(s)
<1>1. SchedOK(ticked) /\ Same(s, ticked, {"tick", "entry"})
  BY NextTickOK
<1>2. r.s = IF s.suspendedAll = 0 THEN after ELSE [s EXCEPT !.pendedTicks = @ + 1]
  <2>1. CASE due
    BY <2>1 DEF IncrementTick, WokenAll
  <2>2. CASE ~due
    BY <2>2 DEF IncrementTick, WokenAll
  <2> QED
    BY <2>1, <2>2
<1>a. due /\ woken = [s |-> woken.s, yes |-> woken.yes] =>
        ([woken EXCEPT !.s = ResetNextUnblock(@)]).yes = woken.yes
  <2> HIDE DEF woken, due
  <2> QED
    OBVIOUS
<1>b. s.suspendedAll = 0 /\ due /\ woken = [s |-> woken.s, yes |-> woken.yes] =>
        r.yes = (([woken EXCEPT !.s = ResetNextUnblock(@)]).yes
                 \/ Len(([woken EXCEPT !.s = ResetNextUnblock(@)]).s.ready[([woken EXCEPT !.s = ResetNextUnblock(@)]).s.prio[s.current]].items) > 1
                 \/ s.yieldPending)
  BY DEF IncrementTick, WokenAll
<1> HIDE DEF ticked, r
<1>3. Good(ticked, X)
  <2>1. ticked.pendsv = s.pendsv /\ ticked.yieldPending = s.yieldPending
    BY <1>1 DEF Same, SchedFields
  <2>2. Owes(s) => Owes(ticked)
    BY <2>1 DEF Owes
  <2> QED
    BY <1>1, <2>2, SameGood
<1>4. SchedOK(now) /\ Good(now, X)
  <2>1. CASE ticked.tick = 0
    <3>1. SchedOK(now) /\ Same(ticked, now, {"delayed", "overflow", "entry", "nextUnblock"})
      BY <1>1, <2>1, SwitchDelayedListsOK
    <3> HIDE DEF now
    <3>2. now.pendsv = ticked.pendsv /\ now.yieldPending = ticked.yieldPending
      BY <3>1 DEF Same, SchedFields
    <3>3. Owes(ticked) => Owes(now)
      BY <3>2 DEF Owes
    <3> QED
      BY <1>3, <3>1, <3>3, SameGood
  <2>2. CASE ticked.tick # 0
    BY <1>1, <1>3, <2>2
  <2> QED
    BY <2>1, <2>2
<1> HIDE DEF now
<1>5. SchedOK(woken.s) /\ GoodOr(woken.s, woken.yes, X)
  <2> DEFINE a == [s |-> now, yes |-> FALSE]
             q == Expired(now)
  <2>1. a.s = now /\ a.yes = FALSE /\ q \in Seq(Tasks)
    BY <1>4, ExpiredTasks
  <2>2. GoodOr(a.s, a.yes, X)
    BY <1>4, <2>1, GoodIsGoodOr
  <2> HIDE DEF a, q
  <2>3. woken = WokenAll(a, q)
    BY DEF a, q
  <2> HIDE DEF woken
  <2> QED
    BY <1>4, <2>1, <2>2, <2>3, WakeListOK, WakeListGood
<1>c. woken = [s |-> woken.s, yes |-> woken.yes]
  <2>1. Expired(now) \in Seq(Tasks)
    BY <1>4, ExpiredTasks
  <2> QED
    BY <2>1, WokenShape
<1>d. s.suspendedAll = 0 /\ yes => r.yes
  <2> HIDE DEF woken
  <2> QED
    BY <1>a, <1>b, <1>c
<1> HIDE DEF woken
<1>6. GoodOr(after, yes, X)
  <2>1. CASE due
    <3> DEFINE x == ResetNextUnblock(woken.s)
               w == woken.s
    <3>1. Same(w, x, {"nextUnblock"})
      BY <1>5, ResetNextUnblockOK
    <3> HIDE DEF x
    <3>2. x.ready = w.ready /\ x.prio = w.prio /\ x.current = w.current /\ x.top = w.top
          /\ x.pendsv = w.pendsv /\ x.yieldPending = w.yieldPending
      BY <3>1 DEF Same, SchedFields
    <3>3. GoodOr(x, woken.yes, X)
      BY <1>5, <3>2 DEF GoodOr, Topped, Urgent, Owes, Ready
    <3>4. after = x
      BY <2>1 DEF x
    <3>5. woken.yes => yes
      BY <2>1
    <3> HIDE DEF yes, after, due
    <3> QED
      BY <3>3, <3>4, <3>5 DEF GoodOr
  <2>2. CASE ~due
    BY <1>4, <2>2 DEF Good, GoodOr
  <2> QED
    BY <2>1, <2>2
<1> HIDE DEF after, yes
<1>7. CASE s.suspendedAll = 0
  BY <1>2, <1>6, <1>7, <1>d DEF r, GoodOr
<1>8. CASE s.suspendedAll # 0
  <2> DEFINE x == [s EXCEPT !.pendedTicks = @ + 1]
  <2>0. s.pendedTicks \in Nat
    BY SchedIs
  <2>1. s.pendedTicks + 1 \in Nat
    BY <2>0
  <2>2. Same(s, x, {"pendedTicks"})
    BY <2>1, PendedTicksOK
  <2>3. x = r.s
    BY <1>2, <1>8
  <2> HIDE DEF x
  <2>4. x.pendsv = s.pendsv /\ x.yieldPending = s.yieldPending
    BY <2>2 DEF Same, SchedFields
  <2>5. Good(x, X)
    BY <2>2, <2>4, SameGood DEF Owes
  <2> QED
    BY <2>3, <2>5 DEF r, Good, GoodOr
<1> QED
  BY <1>7, <1>8

(* A yield pended or asked for. *)
LEMMA GoodOrYields ==
  ASSUME NEW s, NEW yes, NEW X, GoodOr(s, yes, X), NEW r, NEW F, Same(s, r, F),
         "ready" \notin F, "prio" \notin F, "current" \notin F, "top" \notin F,
         Owes(s) => Owes(r), yes => Owes(r)
  PROVE  Good(r, X)
<1>1. (Topped(s) => Topped(r)) /\ (Good(s, X) => Good(r, X))
  BY SameGood
<1> QED
  BY <1>1 DEF Good, GoodOr

LEMMA SysTickServes ==
  ASSUME NEW s, SchedOK(s)
  PROVE  LET r == IncrementTick(s) IN Serves(s, YieldIf(r.yes, r.s))
<1> DEFINE a == IncrementTick(s)
           m == a.s
           yes == a.yes
           r == YieldIf(yes, m)
<1>1. \A X : Good(s, X) => GoodOr(m, yes, X)
  BY IncrementTickGood
<1>2. /\ SchedOK(m)
      /\ s.suspendedAll = 0 => Same(s, m, Ticked)
      /\ s.suspendedAll # 0 => Same(s, m, {"pendedTicks"})
  BY IncrementTickOK
<1> HIDE DEF m, yes
<1>3. Same(m, r, {"pendsv"}) /\ (yes => r.pendsv) /\ (m.pendsv => r.pendsv)
  BY <1>2, YieldIfOK DEF Harmless
<1> HIDE DEF r
<1>4. /\ m.pendsv = s.pendsv /\ m.yieldPending = s.yieldPending
      /\ m.suspendedAll = s.suspendedAll
  BY <1>2 DEF Same, SchedFields, Ticked, StateLists
<1>5. r.yieldPending = m.yieldPending /\ r.suspendedAll = m.suspendedAll
  BY <1>3 DEF Same, SchedFields
<1>6. (Owes(m) => Owes(r)) /\ (yes => Owes(r))
  BY <1>3, <1>5 DEF Owes
<1>7. ASSUME NEW X, Good(s, X) PROVE Good(r, X)
  BY <1>1, <1>3, <1>6, <1>7, GoodOrYields
<1>8. Steady(s) => Steady(r)
  BY <1>3, <1>4, <1>5 DEF Steady
<1> QED
  BY <1>7, <1>8 DEF Serves, r, m, yes

(* Resuming the scheduler. *)

LEMMA PendedTaskGood ==
  ASSUME NEW s, SchedOK(s), NEW t \in Tasks
  PROVE  Upholds(s, PendedTask(s, t))
<1> DEFINE m == ToReady(RemoveEvent(s, t), t)
           v == m.yieldPending \/ m.prio[t] >= m.prio[m.current]
           r == [m EXCEPT !.yieldPending = v]
<1>1. r = PendedTask(s, t)
  BY DEF PendedTask
<1>2. SchedOK(m) /\ Same(s, m, StateLists \cup {"top", "events", "pendingReady"})
  BY WokenUpOK
<1>3. Same(m, r, {"yieldPending"}) /\ r.yieldPending = v
  BY <1>2, YieldPendingOK
<1>4. m.prio = s.prio /\ m.current = s.current /\ m.pendsv = s.pendsv /\ m.yieldPending = s.yieldPending
  BY <1>2 DEF Same, SchedFields, StateLists
<1>5. r.pendsv = m.pendsv
  BY <1>3 DEF Same, SchedFields
<1>6. v <=> s.yieldPending \/ s.prio[t] >= s.prio[s.current]
  BY <1>4
<1> HIDE DEF r, v
<1>7. Owes(s) => Owes(r)
  BY <1>3, <1>4, <1>5, <1>6 DEF Owes
<1>8. s.prio[t] <= s.prio[s.current] \/ Owes(r)
  <2>1. s.prio[t] \in Int /\ s.prio[s.current] \in Int
    BY SchedIs, WFParts, Levels
  <2>2. s.prio[t] <= s.prio[s.current] \/ s.prio[t] >= s.prio[s.current]
    BY <2>1
  <2> QED
    BY <1>3, <1>6, <2>2 DEF Owes
<1>9. Upholds(s, r)
  BY <1>3, <1>7, <1>8, WakesGood
<1> QED
  BY <1>1, <1>9

LEMMA MovedAllGood ==
  ASSUME NEW s, SchedOK(s)
  PROVE  Upholds(s, MovedAll(s, s.pendingReady))
<1> DEFINE q == s.pendingReady
           n == Len(q)
           Still(r) == SchedOK(r) /\ Upholds(s, r)
<1>0. q \in Seq(Tasks) /\ n \in Nat /\ n \in 0..n
  BY DEF SchedOK, HasLists, IsList
<1>1. PICK F : /\ F[0] = s /\ F[n] = MovedAll(s, q)
               /\ \A i \in 1..n : F[i] = PendedTask(F[i - 1], q[i])
  <2>1. q \in Seq(Tasks)
    BY <1>0
  <2>2. \E F : /\ F[0] = s /\ F[Len(q)] = MovedAll(s, q)
               /\ \A i \in 1..Len(q) : F[i] = PendedTask(F[i - 1], q[i])
    <3> HIDE DEF q, n
    <3> QED
      BY ONLY <2>1, PendedTaskFold
  <2> QED
    BY <2>2
<1> DEFINE S == {i \in 0..n : Still(F[i])}
<1>2. 0 \in S
  <2>1. Still(s)
    BY DEF Upholds
  <2> HIDE DEF Still
  <2> QED
    BY <1>0, <1>1, <2>1
<1>3. ASSUME NEW i \in 1..n, i - 1 \in S PROVE i \in S
  <2> DEFINE b == F[i - 1]
             r == F[i]
  <2>1. q[i] \in Tasks /\ r = PendedTask(b, q[i])
    BY <1>0, <1>1
  <2>2. SchedOK(b) /\ Upholds(s, b)
    BY <1>3
  <2> HIDE DEF b, r
  <2>3. SchedOK(r) /\ Upholds(b, r)
    BY <2>1, <2>2, PendedTaskOK, PendedTaskGood
  <2>4. Still(r)
    BY <2>2, <2>3, UpholdsTransitive
  <2> HIDE DEF Still
  <2> QED
    BY <1>0, <2>4 DEF r
<1> HIDE DEF S, Still
<1>4. \A i \in 0..n : i \in S
  <2> HIDE DEF n
  <2> QED
    BY <1>0, <1>2, <1>3, Upward
<1>5. Still(F[n])
  <2> HIDE DEF n
  <2> QED
    BY <1>0, <1>4 DEF S
<1> QED
  BY <1>1, <1>5 DEF Still

LEMMA PendedTickGood ==
  ASSUME NEW s, SchedOK(s), NEW i
  PROVE  Upholds(s, PendedTick(s, i))
<1> DEFINE x == IncrementTick(s)
           m == x.s
           yes == x.yes
           v == m.yieldPending \/ yes
           r == [m EXCEPT !.yieldPending = v]
<1>1. r = PendedTick(s, i)
  BY DEF PendedTick
<1>2. SchedOK(m)
  BY IncrementTickOK
<1>3. \A X : Good(s, X) => GoodOr(m, yes, X)
  BY IncrementTickGood
<1> HIDE DEF m, yes
<1>4. Same(m, r, {"yieldPending"}) /\ r.yieldPending = v
  BY <1>2, YieldPendingOK
<1>5. r.pendsv = m.pendsv
  BY <1>4 DEF Same, SchedFields
<1> HIDE DEF r
<1>6. (Owes(m) => Owes(r)) /\ (yes => Owes(r))
  BY <1>4, <1>5 DEF Owes
<1>7. Upholds(s, r)
  BY <1>3, <1>4, <1>6, GoodOrYields DEF Upholds
<1> QED
  BY <1>1, <1>7

LEMMA MadeUpGood ==
  ASSUME NEW s, SchedOK(s), NEW m \in Nat
  PROVE  Upholds(s, MadeUp(s, [i \in 1..m |-> i]))
<1> DEFINE q == [i \in 1..m |-> i]
           n == Len(q)
           D == 1..m
           Still(r) == SchedOK(r) /\ Upholds(s, r)
<1>0. q \in Seq(D) /\ n \in Nat /\ n \in 0..n
  OBVIOUS
<1> HIDE DEF q, D
<1>1. PICK F : /\ F[0] = s /\ F[n] = MadeUp(s, q)
               /\ \A i \in 1..n : F[i] = PendedTick(F[i - 1], q[i])
  <2>1. q \in Seq(D)
    BY <1>0
  <2>2. \E F : /\ F[0] = s /\ F[Len(q)] = MadeUp(s, q)
               /\ \A i \in 1..Len(q) : F[i] = PendedTick(F[i - 1], q[i])
    <3> HIDE DEF n
    <3> QED
      BY ONLY <2>1, PendedTickFold
  <2> QED
    BY <2>2
<1> DEFINE S == {i \in 0..n : Still(F[i])}
<1>2. 0 \in S
  <2>1. Still(s)
    BY DEF Upholds
  <2> HIDE DEF Still
  <2> QED
    BY <1>0, <1>1, <2>1
<1>3. ASSUME NEW i \in 1..n, i - 1 \in S PROVE i \in S
  <2> DEFINE b == F[i - 1]
             r == F[i]
  <2>1. r = PendedTick(b, q[i])
    BY <1>0, <1>1
  <2>2. SchedOK(b) /\ Upholds(s, b)
    BY <1>3
  <2> HIDE DEF b, r
  <2>3. SchedOK(r) /\ Upholds(b, r)
    BY <2>1, <2>2, PendedTickOK, PendedTickGood
  <2>4. Still(r)
    BY <2>2, <2>3, UpholdsTransitive
  <2> HIDE DEF Still
  <2> QED
    BY <1>0, <2>4 DEF r
<1> HIDE DEF S, Still
<1>4. \A i \in 0..n : i \in S
  <2> HIDE DEF n
  <2> QED
    BY <1>0, <1>2, <1>3, Upward
<1>5. Still(F[n])
  <2> HIDE DEF n
  <2> QED
    BY <1>0, <1>4 DEF S
<1> QED
  BY <1>1, <1>5 DEF Still, q

(* What changes nothing that matters here. *)
LEMMA PlainUpholds ==
  ASSUME NEW s, NEW r, NEW F, Same(s, r, F),
         "ready" \notin F, "prio" \notin F, "current" \notin F, "top" \notin F,
         "pendsv" \notin F, "yieldPending" \notin F
  PROVE  Upholds(s, r)
<1>1. r.pendsv = s.pendsv /\ r.yieldPending = s.yieldPending
  BY DEF Same, SchedFields
<1>2. Owes(s) => Owes(r)
  BY <1>1 DEF Owes
<1> QED
  BY <1>2, SameUpholds

LEMMA CatchUpGood ==
  ASSUME NEW s, SchedOK(s), s.suspendedAll = 0
  PROVE  Upholds(s, CatchUp(s))
<1> DEFINE moved == MovedAll(s, s.pendingReady)
           reset == IF s.pendingReady = << >> THEN moved ELSE ResetNextUnblock(moved)
           made == MadeUp(reset, [i \in 1..s.pendedTicks |-> i])
           r == [made EXCEPT !.pendedTicks = 0]
<1>1. r = CatchUp(s)
  BY DEF CatchUp, MovedAll, MadeUp
<1>2. SchedOK(moved) /\ Upholds(s, moved) /\ moved.suspendedAll = 0
  BY MovedAllOK, MovedAllGood DEF Harmless
<1> HIDE DEF moved
<1>3. SchedOK(reset) /\ Upholds(s, reset) /\ reset.suspendedAll = 0
  <2>1. CASE s.pendingReady = << >>
    BY <1>2, <2>1
  <2>2. CASE s.pendingReady # << >>
    <3> DEFINE x == ResetNextUnblock(moved)
    <3>1. SchedOK(x) /\ Harmless(moved, x) /\ Same(moved, x, {"nextUnblock"})
      BY <1>2, ResetNextUnblockOK
    <3> HIDE DEF x
    <3>2. Upholds(moved, x)
      BY <3>1, PlainUpholds
    <3>3. Upholds(s, x) /\ x.suspendedAll = 0
      BY <1>2, <3>1, <3>2, UpholdsTransitive DEF Harmless
    <3> QED
      BY <2>2, <3>1, <3>3 DEF x
  <2> QED
    BY <2>1, <2>2
<1> HIDE DEF reset
<1>4. SchedOK(made) /\ Upholds(reset, made)
  <2>1. s.pendedTicks \in Nat
    BY SchedIs
  <2> QED
    BY <1>3, <2>1, MadeUpOK, MadeUpGood
<1> HIDE DEF made
<1>5. Same(made, r, {"pendedTicks"})
  BY <1>4, PendedTicksOK
<1> HIDE DEF r
<1>6. Upholds(made, r)
  BY <1>5, PlainUpholds
<1> QED
  BY <1>1, <1>3, <1>4, <1>6, UpholdsTransitive

LEMMA SuspendAllServes ==
  ASSUME NEW s, SchedOK(s)
  PROVE  Serves(s, SuspendAll(s))
<1> DEFINE r == SuspendAll(s)
<1>1. r.suspendedAll = s.suspendedAll + 1 /\ Same(s, r, {"suspendedAll"})
  BY SuspendAllOK
<1> HIDE DEF r
<1>2. r.suspendedAll # 0
  <2>1. s.suspendedAll \in Nat
    BY SchedIs
  <2> QED
    BY <1>1, <2>1
<1>3. Upholds(s, r)
  BY <1>1, PlainUpholds
<1> QED
  BY <1>2, <1>3, SuspendedServes DEF r

LEMMA ResumeAllServes ==
  ASSUME NEW s, SchedOK(s), s.suspendedAll = 1
  PROVE  Serves(s, ResumeAll(s))
<1> DEFINE m == [s EXCEPT !.suspendedAll = 0]
           a == CatchUp(m)
           r == YieldIf(a.yieldPending, a)
<1>1. SchedOK(m) /\ m.suspendedAll = 0 /\ Same(s, m, {"suspendedAll"})
  BY SuspendedOK
<1>2. r = ResumeAll(s)
  <2>1. [s EXCEPT !.suspendedAll = @ - 1] = m
    <3>1. s.suspendedAll - 1 = 0
      OBVIOUS
    <3> QED
      BY <3>1
  <2> HIDE DEF m
  <2> QED
    BY <1>1, <2>1 DEF ResumeAll
<1> HIDE DEF m
<1>3. SchedOK(a) /\ Upholds(m, a)
  BY <1>1, CatchUpOK, CatchUpGood
<1> HIDE DEF a
<1>4. Same(a, r, {"pendsv"}) /\ (a.yieldPending => r.pendsv) /\ (a.pendsv => r.pendsv)
  BY <1>3, YieldIfOK DEF Harmless
<1> HIDE DEF r
<1>5. r.yieldPending = a.yieldPending
  BY <1>4 DEF Same, SchedFields
<1>6. Owes(a) => Owes(r)
  BY <1>4, <1>5 DEF Owes
<1>7. Upholds(s, m) /\ Upholds(a, r)
  BY <1>1, <1>4, <1>6, PlainUpholds, SameUpholds
<1>8. Upholds(s, r)
  BY <1>3, <1>7, UpholdsTransitive
<1>9. Steady(r)
  BY <1>4, <1>5 DEF Steady
<1> QED
  BY <1>2, <1>8, <1>9, UpheldServes

----------------------------------------------------------------------------
(* Waking tasks. *)

LEMMA RemoveFromEventListGood ==
  ASSUME NEW s, SchedOK(s), NEW l \in EventLists, s.events[l] # << >>
  PROVE  LET r == RemoveFromEventList(s, l)
         IN  /\ Upholds(s, r.s)
             /\ r.s.yieldPending => s.yieldPending \/ r.yes
             /\ r.s.pendsv = s.pendsv /\ r.s.suspendedAll = s.suspendedAll
<1> DEFINE t == Head(s.events[l])
           e == RemoveEvent(s, t)
           yes == s.prio[t] > s.prio[s.current]
           m == MadeReady(e, t)
           v == m.yieldPending \/ yes
           x == [m EXCEPT !.yieldPending = v]
           r == RemoveFromEventList(s, l)
<1>1. t \in Tasks /\ Contains(s.events[l], t)
  BY HeadIsThere DEF SchedOK, HasLists
<1>2. r.s = x /\ r.yes = yes
  BY DEF RemoveFromEventList
<1>3. /\ SchedOK(e) /\ Harmless(s, e) /\ Unlinked(e, t) /\ AsListed(s, e, t)
      /\ Same(s, e, {"events", "pendingReady"})
  BY <1>1, RemoveEventOK
<1>4. e.notify[t] # "waiting" /\ (t = e.current => ~Ready(e, t))
  <2>1. Placed(s, t) /\ Dormant(s, t) /\ s.notify[t] # "waiting"
    BY <1>1 DEF SchedOK, OnePlace, Placed, Unlinked
  <2>2. e.notify = s.notify /\ e.prio = s.prio
    BY <1>3 DEF Same, SchedFields
  <2>3. Dormant(e, t) /\ Placed(e, t)
    BY <1>1, <1>3, <2>1 DEF Dormant, AsListed, SchedOK, OnePlace
  <2>4. ~Ready(e, t)
    BY <1>1, <1>3, <2>3, SchedIs, WFParts DEF Ready, Placed
  <2> QED
    BY <2>1, <2>2, <2>4
<1>5. SchedOK(m) /\ Same(s, m, Woke) /\ Harmless(s, m)
  BY <1>1, <1>3, <1>4, MadeReadyOK, HarmlessTransitive DEF Same, Woke
<1>6. e.suspendedAll = s.suspendedAll /\ e.pendsv = s.pendsv /\ e.yieldPending = s.yieldPending
  BY <1>3 DEF Same, SchedFields
<1>7. CASE s.suspendedAll = 0
  <2> DEFINE w == ToReady(RemoveEvent(s, t), t)
  <2>1. m = ResetNextUnblock(w)
    BY <1>6, <1>7 DEF MadeReady
  <2>2. SchedOK(w) /\ Same(s, w, StateLists \cup {"top", "events", "pendingReady"})
    BY <1>1, WokenUpOK
  <2> HIDE DEF w, yes
  <2>3. Same(w, m, {"nextUnblock"})
    BY <2>1, <2>2, ResetNextUnblockOK
  <2> HIDE DEF m
  <2>4. Same(m, x, {"yieldPending"}) /\ x.yieldPending = v
    BY <1>5, YieldPendingOK
  <2>5. Same(w, x, {"nextUnblock", "yieldPending"})
    BY <2>3, <2>4 DEF Same
  <2>6. /\ w.pendsv = s.pendsv /\ w.yieldPending = s.yieldPending /\ w.suspendedAll = s.suspendedAll
        /\ m.yieldPending = w.yieldPending
    BY <2>2, <2>3 DEF Same, SchedFields, StateLists
  <2>7. x.pendsv = s.pendsv /\ x.suspendedAll = s.suspendedAll
    BY <2>5, <2>6 DEF Same, SchedFields
  <2>8. x.yieldPending <=> s.yieldPending \/ yes
    BY <2>4, <2>6
  <2> HIDE DEF x
  <2>9. Owes(s) => Owes(x)
    BY <2>7, <2>8 DEF Owes
  <2>10. s.prio[t] <= s.prio[s.current] \/ Owes(x)
    <3>1. s.prio[t] \in Int /\ s.prio[s.current] \in Int
      BY <1>1, SchedIs, WFParts, Levels
    <3>2. s.prio[t] <= s.prio[s.current] \/ yes
      BY <3>1 DEF yes
    <3> QED
      BY <2>8, <3>2 DEF Owes
  <2>11. Upholds(s, x)
    BY <1>1, <2>5, <2>9, <2>10, WakesGood DEF w
  <2> QED
    BY <1>2, <2>7, <2>8, <2>11
<1>8. CASE s.suspendedAll # 0
  <2>1. m = [e EXCEPT !.pendingReady = Append(@, t)]
    BY <1>6, <1>8 DEF MadeReady
  <2>2. Same(e, m, {"pendingReady"})
    BY <1>3, <1>1, <1>4, <1>6, <1>8, <2>1, PendOK
  <2> HIDE DEF e, m, yes
  <2>4. Same(m, x, {"yieldPending"}) /\ x.yieldPending = v
    BY <1>5, YieldPendingOK
  <2>5. Same(s, x, {"events", "pendingReady", "yieldPending"})
    BY <1>3, <2>2, <2>4 DEF Same
  <2>6. m.yieldPending = s.yieldPending
    BY <1>6, <2>2 DEF Same, SchedFields
  <2>7. x.pendsv = s.pendsv /\ x.suspendedAll = s.suspendedAll
    BY <2>5 DEF Same, SchedFields
  <2>8. x.yieldPending <=> s.yieldPending \/ yes
    BY <2>4, <2>6
  <2> HIDE DEF x
  <2>9. Owes(s) => Owes(x)
    BY <2>7, <2>8 DEF Owes
  <2>10. Upholds(s, x)
    BY <2>5, <2>9, SameUpholds
  <2> QED
    BY <1>2, <2>7, <2>8, <2>10
<1> QED
  BY <1>7, <1>8

LEMMA WakeFirstServes ==
  ASSUME NEW s, SchedOK(s), NEW l \in EventLists
  PROVE  Serves(s, WakeFirst(s, l))
<1>1. CASE s.events[l] = << >>
  BY <1>1 DEF WakeFirst, Serves
<1>2. CASE s.events[l] # << >>
  <2> DEFINE a == RemoveFromEventList(s, l)
             m == a.s
             yes == a.yes
             r == YieldIf(yes, m)
  <2>1. /\ Upholds(s, m) /\ (m.yieldPending => s.yieldPending \/ yes)
        /\ m.pendsv = s.pendsv /\ m.suspendedAll = s.suspendedAll
    BY <1>2, RemoveFromEventListGood
  <2>2. SchedOK(m)
    BY <1>2, RemoveFromEventListOK
  <2>3. r = WakeFirst(s, l)
    BY <1>2 DEF WakeFirst
  <2> HIDE DEF m, yes
  <2>4. Same(m, r, {"pendsv"}) /\ (yes => r.pendsv) /\ (m.pendsv => r.pendsv)
    BY <2>2, YieldIfOK DEF Harmless
  <2> HIDE DEF r
  <2>5. r.yieldPending = m.yieldPending /\ r.suspendedAll = m.suspendedAll
    BY <2>4 DEF Same, SchedFields
  <2>6. Owes(m) => Owes(r)
    BY <2>4, <2>5 DEF Owes
  <2>7. Upholds(s, r)
    BY <2>1, <2>4, <2>6, SameUpholds, UpholdsTransitive
  <2>8. Steady(s) => Steady(r)
    BY <2>1, <2>4, <2>5 DEF Steady
  <2> QED
    BY <2>3, <2>7, <2>8, UpheldServes
<1> QED
  BY <1>1, <1>2

LEMMA MissedYieldGood ==
  ASSUME NEW s, SchedOK(s)
  PROVE  Upholds(s, MissedYield(s))
<1> DEFINE r == MissedYield(s)
<1>1. Same(s, r, {"yieldPending"}) /\ r.yieldPending = TRUE
  BY YieldPendingOK DEF MissedYield
<1> HIDE DEF r
<1>2. Owes(r)
  BY <1>1 DEF Owes
<1> QED
  BY <1>1, <1>2, SameUpholds DEF r

LEMMA WakeMissedGood ==
  ASSUME NEW s, SchedOK(s), NEW l \in EventLists
  PROVE  Upholds(s, WakeMissed(s, l))
<1>1. CASE s.events[l] = << >>
  BY <1>1 DEF WakeMissed, Upholds
<1>2. CASE s.events[l] # << >>
  <2> DEFINE a == RemoveFromEventList(s, l)
             m == a.s
  <2>1. Upholds(s, m) /\ SchedOK(m)
    BY <1>2, RemoveFromEventListGood, RemoveFromEventListOK
  <2>2. WakeMissed(s, l) = IF a.yes THEN MissedYield(m) ELSE m
    BY <1>2 DEF WakeMissed
  <2> HIDE DEF m
  <2>3. Upholds(s, MissedYield(m))
    BY <2>1, MissedYieldGood, UpholdsTransitive
  <2> QED
    BY <2>1, <2>2, <2>3
<1> QED
  BY <1>1, <1>2

LEMMA WakeCountedServes ==
  ASSUME NEW s, SchedOK(s), s.suspendedAll # 0, NEW l \in EventLists, NEW k \in Int
  PROVE  Serves(s, WakeCounted(s, l, k))
<1> DEFINE Still(r) == SchedOK(r) /\ Upholds(s, r)
<1>1. PICK n \in Nat : \E F :
           /\ F[0] = s /\ F[n] = WakeCounted(s, l, k)
           /\ \A i \in 1..n : F[i] = WakeMissed(F[i - 1], l)
  <2>1. k \in Int
    OBVIOUS
  <2> QED
    BY ONLY <2>1, WakeCountedFold
<1>2. PICK F : /\ F[0] = s /\ F[n] = WakeCounted(s, l, k)
               /\ \A i \in 1..n : F[i] = WakeMissed(F[i - 1], l)
  BY <1>1
<1> DEFINE S == {i \in 0..n : Still(F[i])}
<1>3. 0 \in S
  <2>1. Still(s)
    BY DEF Upholds
  <2> HIDE DEF Still
  <2> QED
    BY <1>2, <2>1
<1>4. ASSUME NEW i \in 1..n, i - 1 \in S PROVE i \in S
  <2> DEFINE b == F[i - 1]
             r == F[i]
  <2>1. r = WakeMissed(b, l)
    BY <1>2
  <2>2. SchedOK(b) /\ Upholds(s, b)
    BY <1>4
  <2> HIDE DEF b, r
  <2>3. SchedOK(r) /\ Upholds(b, r)
    BY <2>1, <2>2, WakeMissedOK, WakeMissedGood
  <2>4. Still(r)
    BY <2>2, <2>3, UpholdsTransitive
  <2> HIDE DEF Still
  <2> QED
    BY <2>4 DEF r
<1> HIDE DEF S, Still
<1>5. \A i \in 0..n : i \in S
  BY <1>3, <1>4, Upward
<1>6. Upholds(s, F[n])
  BY <1>5 DEF S, Still
<1> DEFINE r == WakeCounted(s, l, k)
<1>7. r.suspendedAll # 0
  BY WakeCountedOK DEF Harmless
<1> QED
  BY <1>2, <1>6, <1>7, SuspendedServes

(* Groups: those that are woken while the scheduler is suspended. *)
LEMMA RemoveFromUnorderedGood ==
  ASSUME NEW s, SchedOK(s), NEW t \in Tasks, NEW b
  PROVE  Upholds(s, RemoveFromUnordered(s, t, b))
<1> DEFINE e == [s EXCEPT !.bits[t] = b]
           m == ToReady(RemoveEvent(e, t), t)
           v == m.yieldPending \/ m.prio[t] > m.prio[m.current]
           r == [m EXCEPT !.yieldPending = v]
<1>1. r = RemoveFromUnordered(s, t, b)
  BY DEF RemoveFromUnordered
<1>2. SchedOK(e) /\ Same(s, e, {"bits"})
  <2> DEFINE c == [s.bits EXCEPT ![t] = b]
  <2>1. c = [u \in Tasks |-> c[u]]
    BY SchedIs
  <2>2. e = [s EXCEPT !.bits = c]
    OBVIOUS
  <2> HIDE DEF e, c
  <2> QED
    BY <2>1, <2>2, BitsOK
<1> HIDE DEF e
<1>3. SchedOK(m) /\ Same(e, m, StateLists \cup {"top", "events", "pendingReady"})
  BY <1>2, WokenUpOK
<1>4. Same(m, r, {"yieldPending"}) /\ r.yieldPending = v
  BY <1>3, YieldPendingOK
<1>5. m.prio = e.prio /\ m.current = e.current /\ m.pendsv = e.pendsv /\ m.yieldPending = e.yieldPending
  BY <1>3 DEF Same, SchedFields, StateLists
<1>6. r.pendsv = m.pendsv
  BY <1>4 DEF Same, SchedFields
<1>7. v <=> e.yieldPending \/ e.prio[t] > e.prio[e.current]
  BY <1>5
<1> HIDE DEF r, v
<1>8. Owes(e) => Owes(r)
  BY <1>4, <1>5, <1>6, <1>7 DEF Owes
<1>9. e.prio[t] <= e.prio[e.current] \/ Owes(r)
  <2>1. e.prio[t] \in Int /\ e.prio[e.current] \in Int
    BY <1>2, SchedIs, WFParts, Levels
  <2>2. e.prio[t] <= e.prio[e.current] \/ e.prio[t] > e.prio[e.current]
    BY <2>1
  <2> QED
    BY <1>4, <1>7, <2>2 DEF Owes
<1>10. Upholds(e, r)
  BY <1>2, <1>4, <1>8, <1>9, WakesGood
<1>11. Upholds(s, e)
  BY <1>2, PlainUpholds
<1> QED
  BY <1>1, <1>10, <1>11, UpholdsTransitive

LEMMA WakeServes ==
  ASSUME NEW s, SchedOK(s), s.suspendedAll # 0, NEW g \in Groups, NEW tasks
  PROVE  Serves(s, Wake(s, g, tasks))
<1> DEFINE l == Waiting(g)
           q == s.events[l]
           n == Len(q)
           Still(r) == SchedOK(r) /\ Upholds(s, r)
<1>0. l \in EventLists
  BY DEF Waiting, EventLists
<1>00. q \in Seq(Tasks) /\ n \in Nat /\ n \in 0..n
  BY <1>0 DEF SchedOK, HasLists, IsList
<1>1. PICK F : /\ F[0] = s /\ F[n] = Wake(s, g, tasks)
               /\ \A i \in 1..n : F[i] = IF q[i] \in tasks
                                         THEN RemoveFromUnordered(F[i - 1], q[i], Unblocked) ELSE F[i - 1]
  <2>1. s.events[Waiting(g)] \in Seq(Tasks)
    BY <1>00
  <2>2. Walked(s, g, tasks)
    BY ONLY <2>1, EventWakeFold
  <2> QED
    BY <2>2 DEF Walked
<1> HIDE DEF l, q
<1> DEFINE S == {i \in 0..n : Still(F[i])}
<1>3. 0 \in S
  <2>1. Still(s)
    BY DEF Upholds
  <2> HIDE DEF Still
  <2> QED
    BY <1>00, <1>1, <2>1
<1>4. ASSUME NEW i \in 1..n, i - 1 \in S PROVE i \in S
  <2> DEFINE b == F[i - 1]
             r == F[i]
  <2>1. q[i] \in Tasks
    BY <1>00
  <2>2. r = IF q[i] \in tasks THEN RemoveFromUnordered(b, q[i], Unblocked) ELSE b
    BY <1>00, <1>1
  <2>3. SchedOK(b) /\ Upholds(s, b)
    BY <1>4
  <2> HIDE DEF b, r
  <2>4. SchedOK(RemoveFromUnordered(b, q[i], Unblocked)) /\ Upholds(b, RemoveFromUnordered(b, q[i], Unblocked))
    BY <2>1, <2>3, RemoveFromUnorderedOK, RemoveFromUnorderedGood
  <2>5. Still(r)
    BY <2>2, <2>3, <2>4, UpholdsTransitive
  <2> HIDE DEF Still
  <2> QED
    BY <1>00, <2>5 DEF r
<1> HIDE DEF S, Still
<1>5. \A i \in 0..n : i \in S
  <2> HIDE DEF n
  <2> QED
    BY <1>00, <1>3, <1>4, Upward
<1>6. Upholds(s, F[n])
  <2> HIDE DEF n
  <2> QED
    BY <1>00, <1>5 DEF S, Still
<1> DEFINE r == Wake(s, g, tasks)
<1>7. r.suspendedAll # 0
  BY WakeOK DEF Harmless
<1> QED
  BY <1>1, <1>6, <1>7, SuspendedServes

(* Fewer tasks are ready, and nothing else has changed. *)
LEMMA LessReadyServes ==
  ASSUME NEW s, NEW r, \A u \in Tasks : Ready(r, u) => Ready(s, u),
         r.prio = s.prio, r.current = s.current, r.top = s.top,
         r.pendsv = s.pendsv, r.yieldPending = s.yieldPending, r.suspendedAll = s.suspendedAll
  PROVE  Serves(s, r) /\ Upholds(s, r)
<1>1. Topped(s) => Topped(r)
  BY DEF Topped
<1>2. \A X : Urgent(s, X) => Urgent(r, X)
  BY DEF Urgent
<1>3. (Owes(s) <=> Owes(r)) /\ (Steady(s) => Steady(r))
  BY DEF Owes, Steady
<1>4. Upholds(s, r)
  BY <1>1, <1>2, <1>3 DEF Good, Upholds
<1> QED
  BY <1>3, <1>4, UpheldServes

LEMMA RemovedReady ==
  ASSUME NEW s, WF(s), NEW t, NEW u, NEW p \in Priorities,
         Contains(RemoveState(s, t).ready[p].items, u)
  PROVE  Contains(s.ready[p].items, u)
<1> DEFINE r == RemoveState(s, t)
<1>1. r.ready = [k \in Priorities |-> RemoveItem(s.ready[k], t)]
  BY WFParts, RemoveStateFields
<1> HIDE DEF r
<1>2. r.ready[p] = RemoveItem(s.ready[p], t) /\ IsRing(s.ready[p])
  BY <1>1, WFParts
<1> QED
  BY <1>2, RemoveItemRing DEF r

(* The current task goes to wait. *)
LEMMA AddCurrentServes ==
  ASSUME NEW s, WF(s), NEW m, IsSched(m), NEW F, Same(s, m, F),
         "ready" \notin F, "prio" \notin F, "current" \notin F, "top" \notin F,
         "pendsv" \notin F, "yieldPending" \notin F, "suspendedAll" \notin F,
         NEW ticks, NEW indefinitely
  PROVE  LET r == AddCurrentToDelayed(m, ticks, indefinitely)
         IN  Serves(s, r) /\ Upholds(s, r) /\ IsSched(r)
<1> DEFINE r == AddCurrentToDelayed(m, ticks, indefinitely)
           c == m.current
           wake == TickAfter(m.tick, ticks)
           n == RemoveState(m, c)
           v == [n EXCEPT !.wake[c] = wake]
           forever == [n EXCEPT !.suspended = Append(@, c)]
           later == [v EXCEPT !.overflow = InsertSorted(@, c, v.wake)]
           soon == [v EXCEPT !.delayed = InsertSorted(@, c, v.wake),
                             !.nextUnblock = IF wake < @ THEN wake ELSE @]
<1>0. /\ m.ready = s.ready /\ m.prio = s.prio /\ m.current = s.current /\ m.top = s.top
      /\ m.pendsv = s.pendsv /\ m.yieldPending = s.yieldPending /\ m.suspendedAll = s.suspendedAll
  BY DEF Same, SchedFields
<1>1. /\ IsSched(n) /\ Same(m, n, StateLists)
      /\ n.ready = [p \in Priorities |-> RemoveItem(m.ready[p], c)]
  BY RemoveStateFields
<1>2. r = forever \/ r = later \/ r = soon
  BY DEF AddCurrentToDelayed
<1> HIDE DEF n, r, wake, c
<1>3. IsSched(v) /\ Same(n, v, {"wake"})
  BY <1>1 DEF IsSched, SchedFields, Same
<1>4. IsSched(forever) /\ Same(n, forever, {"suspended"})
  BY <1>1 DEF IsSched, SchedFields, Same
<1> HIDE DEF v
<1>5. IsSched(later) /\ Same(v, later, {"overflow"})
  BY <1>3 DEF IsSched, SchedFields, Same
<1>6. IsSched(soon) /\ Same(v, soon, {"delayed", "nextUnblock"})
  BY <1>3 DEF IsSched, SchedFields, Same
<1> HIDE DEF forever, later, soon
<1>7. Same(n, r, {"suspended", "overflow", "delayed", "wake", "nextUnblock"})
  <2>1. Same(n, forever, {"suspended", "overflow", "delayed", "wake", "nextUnblock"})
    BY <1>4 DEF Same
  <2>2. Same(n, later, {"suspended", "overflow", "delayed", "wake", "nextUnblock"})
    BY <1>3, <1>5 DEF Same
  <2>3. Same(n, soon, {"suspended", "overflow", "delayed", "wake", "nextUnblock"})
    BY <1>3, <1>6 DEF Same
  <2> QED
    BY <1>2, <2>1, <2>2, <2>3
<1>8. /\ r.ready = [p \in Priorities |-> RemoveItem(s.ready[p], c)]
      /\ r.prio = s.prio /\ r.current = s.current /\ r.top = s.top
      /\ r.pendsv = s.pendsv /\ r.yieldPending = s.yieldPending /\ r.suspendedAll = s.suspendedAll
  BY <1>0, <1>1, <1>7 DEF Same, SchedFields, StateLists
<1>9. ASSUME NEW u \in Tasks, Ready(r, u) PROVE Ready(s, u)
  <2>1. s.prio[u] \in Priorities /\ IsRing(s.ready[s.prio[u]])
    BY WFParts
  <2>2. Contains(RemoveItem(s.ready[s.prio[u]], c).items, u)
    BY <1>8, <1>9, <2>1 DEF Ready
  <2> QED
    BY <2>1, <2>2, RemoveItemRing DEF Ready
<1>10. Serves(s, r) /\ Upholds(s, r)
  BY <1>8, <1>9, LessReadyServes
<1>11. IsSched(r)
  BY <1>2, <1>4, <1>5, <1>6
<1> QED
  BY <1>10, <1>11 DEF r

LEMMA PlaceOnEventListServes ==
  ASSUME NEW s, SchedOK(s), NEW l, NEW ticks
  PROVE  Serves(s, PlaceOnEventList(s, l, ticks))
<1> DEFINE m == [s EXCEPT !.events[l] = InsertSorted(@, s.current, s.evValue)]
<1>1. PlaceOnEventList(s, l, ticks) = AddCurrentToDelayed(m, ticks, TRUE)
  BY DEF PlaceOnEventList
<1>0. IsSched(s)
  BY SchedIs
<1>2. IsSched(m) /\ Same(s, m, {"events"})
  BY <1>0 DEF IsSched, SchedFields, Same
<1> HIDE DEF m
<1> QED
  BY <1>1, <1>2, SchedIs, AddCurrentServes

LEMMA PlaceOnUnorderedServes ==
  ASSUME NEW s, SchedOK(s), NEW l, NEW wanted, NEW ticks
  PROVE  Serves(s, PlaceOnUnordered(s, l, wanted, ticks))
<1> DEFINE m == [s EXCEPT !.bits[s.current] = [wanted EXCEPT !.inUse = TRUE],
                          !.evValue[s.current] = 0, !.events[l] = Append(@, s.current)]
<1>1. PlaceOnUnordered(s, l, wanted, ticks) = AddCurrentToDelayed(m, ticks, TRUE)
  BY DEF PlaceOnUnordered
<1>0. IsSched(s)
  BY SchedIs
<1>2. IsSched(m) /\ Same(s, m, {"events", "evValue", "bits"})
  BY <1>0 DEF IsSched, SchedFields, Same
<1> HIDE DEF m
<1> QED
  BY <1>1, <1>2, SchedIs, AddCurrentServes

LEMMA PlaceRestrictedServes ==
  ASSUME NEW s, SchedOK(s), NEW l, NEW ticks, NEW indefinitely
  PROVE  Serves(s, PlaceRestricted(s, l, ticks, indefinitely))
<1> DEFINE m == [s EXCEPT !.events[l] = Append(@, s.current)]
           x == IF indefinitely THEN Forever ELSE ticks
<1>1. PlaceRestricted(s, l, ticks, indefinitely) = AddCurrentToDelayed(m, x, indefinitely)
  BY DEF PlaceRestricted
<1>0. IsSched(s)
  BY SchedIs
<1>2. IsSched(m) /\ Same(s, m, {"events"})
  BY <1>0 DEF IsSched, SchedFields, Same
<1> HIDE DEF m, x
<1> QED
  BY <1>1, <1>2, SchedIs, AddCurrentServes

LEMMA AwaitNotificationServes ==
  ASSUME NEW s, SchedOK(s), NEW wait
  PROVE  Serves(s, AwaitNotification(s, wait))
<1> DEFINE m == [s EXCEPT !.notify[s.current] = "waiting"]
           n == AddCurrentToDelayed(m, wait, TRUE)
           r == [n EXCEPT !.pendsv = TRUE]
<1>0. IsSched(s)
  BY SchedIs
<1>1. IsSched(m) /\ Same(s, m, {"notify"})
  BY <1>0 DEF IsSched, SchedFields, Same
<1>2. AwaitNotification(s, wait) = IF wait > 0 THEN Yield(n) ELSE m
  BY DEF AwaitNotification
<1> HIDE DEF m
<1>3. Serves(s, m)
  BY <1>1, PlainServes
<1>4. Upholds(s, n) /\ Serves(s, n) /\ IsSched(n)
  BY <1>1, SchedIs, AddCurrentServes
<1> HIDE DEF n
<1>5. Same(n, r, {"pendsv"}) /\ r.pendsv
  BY <1>4 DEF IsSched, SchedFields, Same
<1>6. r = Yield(n)
  BY DEF Yield
<1> HIDE DEF r
<1>7. Upholds(n, r) /\ Steady(r)
  BY <1>5, SameUpholds DEF Owes, Steady
<1>8. Serves(s, r)
  BY <1>4, <1>7, UpholdsTransitive, UpheldServes
<1> QED
  BY <1>2, <1>3, <1>6, <1>8

----------------------------------------------------------------------------
(* Priorities. *)

(* The priority of a task changes: it is less, or it is no more than that   *)
(* of the current task, or a switch will come, or there is nothing to keep. *)
LEMMA ChangePriorityGood ==
  ASSUME NEW s, SchedOK(s), NEW t \in Tasks \ {Idle}, NEW p \in Priorities
  PROVE  LET r == ChangePriority(s, t, p)
         IN  /\ Topped(s) => Topped(r)
             /\ \A X : Good(s, X) /\ (t = s.current => s.prio[t] <= p)
                         /\ (p <= s.prio[t] \/ p <= s.prio[s.current] \/ t = s.current) => Good(r, X)
<1> DEFINE r == ChangePriority(s, t, p)
<1>0. WF(s) /\ s.prio[t] \in Int /\ p \in Int /\ s.current \in Tasks /\ s.prio[s.current] \in Int
  BY SchedIs, WFParts, Levels
<1>1. /\ WF(r) /\ Others(s, r, t) /\ r.prio[t] = p /\ r.current = s.current
      /\ r.pendsv = s.pendsv /\ r.yieldPending = s.yieldPending /\ s.top <= r.top
      /\ Ready(r, t) => Ready(s, t)
      /\ Ready(s, t) => p <= r.top
  <2>1. CASE Ready(s, t)
    <3> DEFINE m == RemoveState(s, t)
               n == [m EXCEPT !.prio[t] = p]
               v == AddToReady(n, t)
    <3>1. v = r
      BY <2>1 DEF ChangePriority
    <3>2. /\ WF(m) /\ Others(s, m, t) /\ Away(m, t) /\ Same(s, m, StateLists)
      BY <1>0, RemoveStateWF
    <3> HIDE DEF m, r
    <3>3. /\ WF(n) /\ Others(m, n, t) /\ AsListed(m, n, t) /\ Same(m, n, {"prio"}) /\ n.prio[t] = p
      BY <3>2, PrioWF
    <3> HIDE DEF n
    <3>4. Away(n, t)
      BY <3>2, <3>3 DEF Away, Dormant, AsListed
    <3>5. /\ WF(v) /\ Others(n, v, t) /\ Same(n, v, {"ready", "top"})
      BY <3>3, <3>4, AddToReadyWF
    <3>6. n.top <= v.top /\ n.prio[t] <= v.top
      BY <3>3, AddToReadyTop
    <3> HIDE DEF v
    <3>7. Others(s, v, t)
      BY <3>2, <3>3, <3>5, OthersTransitive
    <3>8. /\ n.top = s.top /\ v.prio = n.prio /\ v.current = s.current /\ v.pendsv = s.pendsv
          /\ v.yieldPending = s.yieldPending
      BY <3>2, <3>3, <3>5 DEF Same, StateLists, SchedFields
    <3> QED
      BY <2>1, <3>1, <3>3, <3>5, <3>6, <3>7, <3>8
  <2>2. CASE ~Ready(s, t)
    <3> DEFINE v == [s EXCEPT !.prio[t] = p]
    <3>1. v = r
      BY <2>2 DEF ChangePriority
    <3>2. /\ WF(v) /\ Others(s, v, t) /\ AsListed(s, v, t) /\ Same(s, v, {"prio"}) /\ v.prio[t] = p
      BY <1>0, PrioWF
    <3> HIDE DEF v, r
    <3>3. /\ v.current = s.current /\ v.pendsv = s.pendsv /\ v.top = s.top
          /\ v.yieldPending = s.yieldPending
      BY <3>2 DEF Same, SchedFields
    <3>4. s.top \in Int
      BY <1>0, Levels DEF WF, Shaped
    <3>5. ~Ready(v, t)
      <4>1. Placed(s, t) /\ s.prio[t] \in Priorities
        BY <1>0, WFParts DEF SchedOK, OnePlace
      <4>2. \A k \in Priorities : ~Contains(s.ready[k].items, t)
        BY <2>2, <4>1 DEF Placed, Ready
      <4> QED
        BY <3>2, <4>2 DEF AsListed, Ready
    <3> QED
      BY <2>2, <3>1, <3>2, <3>3, <3>4, <3>5
  <2> QED
    BY <2>1, <2>2
<1> HIDE DEF r
<1>2. Topped(s) => Topped(r)
  BY <1>0, <1>1, OneTopped
<1>3. ASSUME NEW X, Good(s, X), t = s.current => s.prio[t] <= p,
             p <= s.prio[t] \/ p <= s.prio[s.current] \/ t = s.current
      PROVE  Good(r, X)
  <2>1. Topped(r) /\ (Owes(s) => Owes(r))
    BY <1>1, <1>2, <1>3 DEF Good, Owes
  <2>2. CASE Owes(s)
    BY <2>1, <2>2 DEF Good
  <2>3. CASE Urgent(s, X)
    <3>1. Ready(r, t) => r.prio[t] <= r.top
      BY <1>1
    <3>2. t # s.current => r.prio[r.current] = s.prio[s.current]
      BY <1>0, <1>1 DEF Others
    <3>3. ASSUME Ready(r, t), t \notin X PROVE r.prio[t] <= r.prio[r.current]
      <4>1. s.prio[t] <= s.prio[s.current]
        BY <1>1, <2>3, <3>3 DEF Urgent
      <4>2. CASE t = s.current
        BY <1>0, <1>1, <4>2
      <4>3. CASE t # s.current
        BY <1>0, <1>1, <1>3, <3>2, <4>1, <4>3
      <4> QED
        BY <4>2, <4>3
    <3>4. t = s.current => s.prio[t] <= r.prio[t]
      BY <1>1, <1>3
    <3> QED
      BY <1>0, <1>1, <1>3, <2>1, <3>1, <3>3, <3>4, OneGood
  <2> QED
    BY <1>3, <2>2, <2>3 DEF Good
<1> QED
  BY <1>2, <1>3 DEF r

LEMMA SetPriorityServes ==
  ASSUME NEW s, SchedOK(s), NEW t \in Tasks \ {Idle}, NEW p \in Priorities
  PROVE  Serves(s, SetPriority(s, t, p))
<1> DEFINE b == s.base[t]
           c == s.current
           e == Effective(s, t, p)
           urgent == IF p > b THEN t # c /\ p >= s.prio[c] ELSE t = c
           m == SetEventPriority(s, t, p)
           n == ChangePriority(m, t, e)
           v == [n EXCEPT !.base[t] = p]
           r == YieldIf(urgent, v)
<1>0. /\ e \in Priorities /\ p \in Int /\ b \in Int /\ s.prio[t] \in Int /\ s.prio[c] \in Int
      /\ c \in Tasks /\ e \in Int
  BY SchedIs, WFParts, Levels DEF Effective
<1>1. CASE p = b
  <2>1. SetPriority(s, t, p) = s
    BY <1>1 DEF SetPriority
  <2> QED
    BY <2>1 DEF Serves
<1>2. CASE p # b
  <2>1. SetPriority(s, t, p) = r
    BY <1>2 DEF SetPriority
  <2>2. e = IF b = s.prio[t] THEN p ELSE s.prio[t]
    BY DEF Effective
  <2>u. urgent <=> (p > b /\ t # c /\ p >= s.prio[c]) \/ (~(p > b) /\ t = c)
    OBVIOUS
  <2> HIDE DEF e, urgent
  <2>3. SchedOK(m) /\ Same(s, m, {"evValue"})
    BY SetEventPriorityOK
  <2> HIDE DEF m
  <2>4. m.prio = s.prio /\ m.current = c /\ Upholds(s, m) /\ (Topped(s) => Topped(m))
    <3>1. m.pendsv = s.pendsv /\ m.yieldPending = s.yieldPending /\ m.prio = s.prio /\ m.current = c
      BY <2>3 DEF Same, SchedFields
    <3>2. Owes(s) => Owes(m)
      BY <3>1 DEF Owes
    <3> QED
      BY <2>3, <3>1, <3>2, SameUpholds, SameGood
  <2>5. /\ SchedOK(n) /\ Same(m, n, StateLists \cup {"top", "prio"})
        /\ Topped(m) => Topped(n)
        /\ \A X : Good(m, X) /\ (t = c => s.prio[t] <= e)
                    /\ (e <= s.prio[t] \/ e <= s.prio[c] \/ t = c) => Good(n, X)
    BY <1>0, <2>3, <2>4, ChangePriorityOK, ChangePriorityGood
  <2> HIDE DEF n
  <2>6. SchedOK(v) /\ Same(n, v, {"base"})
    BY <2>5, BaseOK
  <2> HIDE DEF v
  <2>7. Same(v, r, {"pendsv"}) /\ (urgent => r.pendsv) /\ (v.pendsv => r.pendsv)
    BY <2>6, YieldIfOK DEF Harmless
  <2> HIDE DEF r
  <2>8. /\ r.yieldPending = s.yieldPending /\ r.suspendedAll = s.suspendedAll /\ (s.pendsv => r.pendsv)
        /\ n.pendsv = s.pendsv
    BY <2>3, <2>5, <2>6, <2>7 DEF Same, StateLists, SchedFields
  <2>9. Same(n, r, {"base", "pendsv"}) /\ (Owes(n) => Owes(r))
    <3>1. n.yieldPending = s.yieldPending
      BY <2>3, <2>5 DEF Same, StateLists, SchedFields
    <3> QED
      BY <2>6, <2>7, <2>8, <3>1 DEF Same, Owes
  <2>10. (Topped(n) => Topped(r)) /\ \A X : Good(n, X) => Good(r, X)
    BY <2>9, SameGood
  <2>11. Steady(s) => Steady(r)
    BY <2>8 DEF Steady
  <2>12. CASE urgent
    <3>1. ASSUME NEW X, Good(s, X) PROVE Good(r, X)
      BY <2>4, <2>5, <2>7, <2>10, <2>12, <3>1 DEF Good, Owes
    <3> QED
      BY <2>1, <2>11, <3>1 DEF Serves
  <2>13. CASE ~urgent
    <3>1. t = c => s.prio[t] <= e
      BY <1>0, <1>2, <2>2, <2>u, <2>13
    <3>2. e <= s.prio[t] \/ e <= s.prio[c] \/ t = c
      BY <1>0, <1>2, <2>2, <2>u, <2>13
    <3>3. Upholds(s, r)
      BY <2>4, <2>5, <2>10, <3>1, <3>2 DEF Upholds
    <3> QED
      BY <2>1, <2>11, <3>3, UpheldServes
  <2> QED
    BY <2>12, <2>13
<1> QED
  BY <1>1, <1>2

----------------------------------------------------------------------------
(* Notifications. *)

LEMMA GenericNotifyServes ==
  ASSUME NEW s, SchedOK(s), NEW t \in Tasks, NEW new, NEW action
  PROVE  Serves(s, GenericNotify(s, t, new, action))
<1> DEFINE n == Notified(s, t, new, action)
           m == ToReady(n, t)
           x == ResetNextUnblock(m)
           urgent == s.prio[t] > s.prio[s.current]
           r == YieldIf(urgent, x)
<1>1. SchedOK(n) /\ Same(s, n, {"notify", "value"})
  BY NotifiedTaskOK
<1>2. GenericNotify(s, t, new, action) = IF s.notify[t] = "waiting" THEN r ELSE n
  BY DEF GenericNotify
<1>3. Serves(s, n)
  BY <1>1, PlainServes
<1> HIDE DEF n
<1>4. CASE s.notify[t] = "waiting"
  <2>1. Unlinked(n, t)
    <3>1. Unlinked(s, t)
      BY <1>4 DEF SchedOK, OnePlace, Placed
    <3>2. n.events = s.events /\ n.pendingReady = s.pendingReady
      BY <1>1 DEF Same, SchedFields
    <3> QED
      BY <3>1, <3>2 DEF Unlinked
  <2>2. SchedOK(m) /\ Same(n, m, StateLists \cup {"top"})
    BY <1>1, <2>1, ToReadyOK
  <2>3. /\ Topped(n) => Topped(m)
        /\ \A X : Good(n, X) /\ (t \in X \/ n.prio[t] <= n.prio[n.current]) => Good(m, X)
    BY <1>1, SchedIs, ToReadyGood
  <2> HIDE DEF m
  <2>4. SchedOK(x) /\ Same(m, x, {"nextUnblock"})
    BY <2>2, ResetNextUnblockOK
  <2> HIDE DEF x
  <2>5. Same(x, r, {"pendsv"}) /\ (urgent => r.pendsv) /\ (x.pendsv => r.pendsv)
    BY <2>4, YieldIfOK DEF Harmless
  <2>6. ~urgent => n.prio[t] <= n.prio[n.current]
    <3>1. n.prio = s.prio /\ n.current = s.current
      BY <1>1 DEF Same, SchedFields
    <3>2. s.prio[t] \in Int /\ s.prio[s.current] \in Int
      BY SchedIs, WFParts, Levels
    <3> QED
      BY <3>1, <3>2
  <2> HIDE DEF r, urgent
  <2>7. Same(m, r, {"nextUnblock", "pendsv"})
    BY <2>4, <2>5 DEF Same
  <2>8. /\ r.yieldPending = n.yieldPending /\ r.suspendedAll = n.suspendedAll /\ (n.pendsv => r.pendsv)
        /\ m.pendsv = n.pendsv /\ m.yieldPending = n.yieldPending
    BY <2>2, <2>4, <2>5 DEF Same, StateLists, SchedFields
  <2>9. (Owes(m) => Owes(r)) /\ (n.prio[t] <= n.prio[n.current] \/ Owes(r)) /\ (Steady(n) => Steady(r))
    BY <2>5, <2>6, <2>8 DEF Owes, Steady
  <2>10. Upholds(n, r)
    <3> DEFINE F == {"nextUnblock", "pendsv"}
    <3>1. "ready" \notin F /\ "prio" \notin F /\ "current" \notin F /\ "top" \notin F
      OBVIOUS
    <3>2. Same(m, r, F)
      BY <2>7
    <3> HIDE DEF F
    <3> QED
      BY ONLY <2>3, <2>9, <3>1, <3>2, ReadiesGood
  <2>11. Serves(n, r)
    BY <2>9, <2>10, UpheldServes
  <2> QED
    BY <1>2, <1>3, <1>4, <2>11, ServesTransitive
<1>5. CASE s.notify[t] # "waiting"
  BY <1>2, <1>3, <1>5
<1> QED
  BY <1>4, <1>5

LEMMA NotifyFromISRServes ==
  ASSUME NEW s, SchedOK(s), NEW t \in Tasks, NEW new, NEW action
  PROVE  Serves(s, NotifyFromISR(s, t, new, action))
<1> DEFINE n == Notified(s, t, new, action)
           urgent == s.prio[t] > s.prio[s.current]
           y == ToReady(n, t)
           pended == [n EXCEPT !.pendingReady = Append(@, t)]
           m == IF s.suspendedAll = 0 THEN y ELSE pended
           w == m.yieldPending \/ urgent
           x == [m EXCEPT !.yieldPending = w]
           r == YieldIf(urgent, x)
<1>1. SchedOK(n) /\ Same(s, n, {"notify", "value"})
  BY NotifiedTaskOK
<1>2. NotifyFromISR(s, t, new, action) = IF s.notify[t] = "waiting" THEN r ELSE n
  BY DEF NotifyFromISR
<1>3. Serves(s, n)
  BY <1>1, PlainServes
<1> HIDE DEF n
<1>4. CASE s.notify[t] = "waiting"
  <2>1. Unlinked(n, t) /\ n.prio = s.prio /\ n.current = s.current
    <3>1. Unlinked(s, t)
      BY <1>4 DEF SchedOK, OnePlace, Placed
    <3>2. n.events = s.events /\ n.pendingReady = s.pendingReady /\ n.prio = s.prio
          /\ n.current = s.current
      BY <1>1 DEF Same, SchedFields
    <3> QED
      BY <3>1, <3>2 DEF Unlinked
  <2>2. IsSched(y) /\ Same(n, y, StateLists \cup {"top"})
    BY <1>1, <2>1, ToReadyOK, SchedIs
  <2>3. /\ Topped(n) => Topped(y)
        /\ \A X : Good(n, X) /\ (t \in X \/ n.prio[t] <= n.prio[n.current]) => Good(y, X)
    BY <1>1, SchedIs, ToReadyGood
  <2> HIDE DEF y
  <2>n. IsSched(n)
    BY <1>1, SchedIs
  <2>4. IsSched(pended) /\ Same(n, pended, {"pendingReady"})
    BY <2>n DEF IsSched, SchedFields, Same
  <2> HIDE DEF pended
  <2>5. /\ IsSched(m) /\ m.pendsv = n.pendsv /\ m.yieldPending = n.yieldPending
        /\ m.suspendedAll = n.suspendedAll
    BY <2>2, <2>4 DEF Same, StateLists, SchedFields
  <2>6. ~urgent => n.prio[t] <= n.prio[n.current]
    <3>1. s.prio[t] \in Int /\ s.prio[s.current] \in Int
      BY SchedIs, WFParts, Levels
    <3> QED
      BY <2>1, <3>1
  <2>m. m = y \/ m = pended
    OBVIOUS
  <2> HIDE DEF m, urgent
  <2>7. IsSched(x) /\ Same(m, x, {"yieldPending"}) /\ x.yieldPending = w
    BY <2>5 DEF IsSched, SchedFields, Same
  <2> HIDE DEF x
  <2>8. r = IF urgent THEN [x EXCEPT !.pendsv = TRUE] ELSE x
    BY DEF YieldIf, Yield
  <2>9. Same(x, r, {"pendsv"}) /\ (urgent => r.pendsv) /\ (x.pendsv => r.pendsv)
    <3>1. CASE urgent
      BY <2>7, <2>8, <3>1 DEF IsSched, SchedFields, Same
    <3>2. CASE ~urgent
      BY <2>8, <3>2 DEF Same
    <3> QED
      BY <3>1, <3>2
  <2> HIDE DEF r
  <2>10. Same(m, r, {"yieldPending", "pendsv"})
    BY <2>7, <2>9 DEF Same
  <2>11. /\ r.yieldPending = w /\ r.suspendedAll = n.suspendedAll /\ (n.pendsv => r.pendsv)
    BY <2>5, <2>7, <2>9 DEF Same, SchedFields
  <2>12. /\ Owes(m) => Owes(r)
         /\ Owes(n) => Owes(r)
         /\ n.prio[t] <= n.prio[n.current] \/ Owes(r)
         /\ Steady(n) => Steady(r)
    BY <2>5, <2>6, <2>9, <2>11 DEF Owes, Steady
  <2> HIDE DEF w
  <2>13. Upholds(n, r)
    <3>1. CASE m = y
      BY <2>3, <2>10, <2>12, <3>1, ReadiesGood
    <3>2. CASE m = pended
      <4>1. Same(n, r, {"pendingReady", "yieldPending", "pendsv"})
        BY <2>4, <2>10, <3>2 DEF Same
      <4> QED
        BY <2>12, <4>1, SameUpholds
    <3> QED
      BY <2>m, <3>1, <3>2
  <2>14. Serves(n, r)
    BY <2>12, <2>13, UpheldServes
  <2> QED
    BY <1>2, <1>3, <1>4, <2>14, ServesTransitive
<1>5. CASE s.notify[t] # "waiting"
  BY <1>2, <1>3, <1>5
<1> QED
  BY <1>4, <1>5

----------------------------------------------------------------------------
(* Tasks that come and go. *)

LEMMA DetachedServes ==
  ASSUME NEW s, SchedOK(s), NEW t \in Tasks, NEW r, NEW F, Same(Detach(s, t), r, F),
         "ready" \notin F, "prio" \notin F, "current" \notin F, "top" \notin F,
         "pendsv" \notin F, "yieldPending" \notin F, "suspendedAll" \notin F
  PROVE  Serves(s, r)
<1> DEFINE m == Detach(s, t)
<1>1. WF(m) /\ Others(s, m, t) /\ Away(m, t) /\ Same(s, m, DetachFields)
  BY DetachWF
<1> HIDE DEF m
<1>2. m.prio = s.prio /\ m.current = s.current /\ m.top = s.top /\ m.pendsv = s.pendsv
      /\ m.yieldPending = s.yieldPending /\ m.suspendedAll = s.suspendedAll
  BY <1>1 DEF Same, SchedFields, DetachFields, StateLists
<1>3. ASSUME NEW u \in Tasks, Ready(m, u) PROVE Ready(s, u)
  <2>1. CASE u = t
    BY <1>1, <1>3, <2>1, WFParts DEF Away, Ready
  <2>2. CASE u # t
    BY <1>1, <1>3, <2>2, SchedIs, OthersReady
  <2> QED
    BY <2>1, <2>2
<1>4. Serves(s, m)
  BY <1>2, <1>3, LessReadyServes
<1>5. Serves(m, r)
  BY PlainServes DEF m
<1> QED
  BY <1>4, <1>5, ServesTransitive

LEMMA SuspendedTaskServes ==
  ASSUME NEW s, SchedOK(s), NEW t \in Tasks
  PROVE  Serves(s, Suspended(s, t)) /\ Serves(s, Deleted(s, t))
<1> DEFINE m == Detach(s, t)
           v == [m EXCEPT !.suspended = Append(@, t),
                          !.notify[t] = IF @ = "waiting" THEN "not waiting" ELSE @]
           w == [m EXCEPT !.terminating = Append(@, t)]
<1>1. Suspended(s, t) = v /\ Deleted(s, t) = w
  BY DEF Suspended, Deleted
<1>2. IsSched(m)
  BY DetachWF, WFParts
<1> HIDE DEF m
<1>3. Same(m, v, {"suspended", "notify"}) /\ Same(m, w, {"terminating"})
  BY <1>2 DEF IsSched, SchedFields, Same
<1> HIDE DEF v, w
<1>4. Serves(s, v)
  BY <1>3, DetachedServes DEF m
<1>5. Serves(s, w)
  BY <1>3, DetachedServes DEF m
<1> QED
  BY <1>1, <1>4, <1>5

(* t is in no list, and its memory is free. *)
LEMMA FreedServes ==
  ASSUME NEW s, SchedOK(s), NEW t \in Tasks \ {Idle}, t # s.current, NEW m, WF(m), Others(s, m, t),
         Away(m, t), Same(s, m, DetachFields), SchedOK(Freed(m, t))
  PROVE  Serves(s, Freed(m, t))
<1> DEFINE n == InitialiseNewTask(m, t, 0)
           r == [n EXCEPT !.entry[t] = NoEntry]
<1>1. Freed(m, t) = r
  BY DEF Freed
<1>2. Fresh(m, n, t)
  BY Zero, NewTaskWF
<1> HIDE DEF n
<1>3. WF(n) /\ IsSched(n) /\ Others(m, n, t) /\ AsListed(m, n, t) /\ Same(m, n, NewTaskFields)
  BY <1>2, WFParts DEF Fresh
<1>4. Same(n, r, {"entry"})
  BY <1>3 DEF IsSched, SchedFields, Same
<1> HIDE DEF r
<1>5. /\ r.ready = n.ready /\ r.prio = n.prio /\ r.notify = n.notify /\ r.delayed = n.delayed
      /\ r.overflow = n.overflow /\ r.suspended = n.suspended /\ r.terminating = n.terminating
      /\ r.pendingReady = n.pendingReady /\ r.events = n.events
  BY <1>4 DEF Same, SchedFields
<1>6. Others(n, r, t)
  BY <1>5 DEF Others, AsListed, AsLinked
<1>7. Others(s, r, t)
  BY <1>3, <1>6, OthersTransitive
<1>8. /\ r.current = s.current /\ r.top = s.top /\ r.pendsv = s.pendsv
      /\ r.yieldPending = s.yieldPending /\ r.suspendedAll = s.suspendedAll
  BY <1>3, <1>4 DEF Same, SchedFields, DetachFields, StateLists, NewTaskFields
<1>9. WF(s) /\ WF(r) /\ s.top \in Int
  <2>1. WF(s) /\ WF(r)
    BY <1>1, SchedIs
  <2>2. s.top \in Priorities
    BY <2>1 DEF WF, Shaped
  <2> QED
    BY <2>1, <2>2, Levels
<1>10. ~Ready(r, t)
  <2>1. r.prio[t] \in Priorities
    BY <1>9, WFParts
  <2> QED
    BY <1>3, <1>5, <2>1 DEF Away, AsListed, Ready
<1>11. ASSUME NEW X, Good(s, X) PROVE Good(r, X)
  BY <1>7, <1>8, <1>9, <1>10, <1>11, OneGood DEF Owes
<1> QED
  BY <1>1, <1>8, <1>11 DEF Serves, Steady

LEMMA CreatedGood ==
  ASSUME NEW s, SchedOK(s), NEW t \in Tasks \ {Idle}, t # s.current, Away(s, t), NEW p \in Priorities
  PROVE  LET r == CreatedIn(s, t, p)
         IN  (Good(s, {}) => Good(r, {t})) /\ (Steady(s) => Steady(r))
<1> DEFINE n == InitialiseNewTask(s, t, p)
           r == AddToReady(n, t)
<1>1. r = CreatedIn(s, t, p)
  BY DEF CreatedIn
<1>2. Fresh(s, n, t) /\ WF(s)
  BY SchedIs, NewTaskWF
<1> HIDE DEF n
<1>3. WF(n) /\ Others(s, n, t) /\ AsListed(s, n, t) /\ Same(s, n, NewTaskFields)
  BY <1>2 DEF Fresh
<1>4. Away(n, t)
  BY <1>3 DEF Away, AsListed, Dormant
<1>5. WF(r) /\ Others(n, r, t) /\ Same(n, r, {"ready", "top"})
  BY <1>3, <1>4, AddToReadyWF
<1>6. n.top <= r.top /\ n.prio[t] <= r.top
  BY <1>3, AddToReadyTop
<1> HIDE DEF r
<1>7. /\ n.top = s.top /\ r.prio = n.prio /\ r.current = s.current /\ r.pendsv = s.pendsv
      /\ r.yieldPending = s.yieldPending /\ r.suspendedAll = s.suspendedAll
  BY <1>3, <1>5 DEF Same, SchedFields, NewTaskFields
<1>8. Others(s, r, t)
  BY <1>3, <1>5, OthersTransitive
<1>9. ASSUME Good(s, {}) PROVE Good(r, {t})
  <2>1. Good(s, {t})
    BY <1>9 DEF Good, Urgent
  <2> QED
    BY <1>2, <1>5, <1>6, <1>7, <1>8, <2>1, OneGood DEF Owes
<1> QED
  BY <1>1, <1>7, <1>9 DEF Steady

LEMMA ServesOps ==
  ASSUME NEW s, SchedOK(s)
  PROVE  /\ Serves(s, s) /\ Serves(s, Yield(s)) /\ Serves(s, SuspendAll(s))
         /\ Serves(s, ResetNextUnblock(s)) /\ Serves(s, ForgetTimeOut(s))
         /\ \A c : Serves(s, YieldIf(c, s))
         /\ \A ticks : Serves(s, SetTimeOut(s, ticks)) /\ Serves(s, CheckForTimeOut(s, ticks).s)
<1>1. Serves(s, s)
  BY DEF Serves
<1>2. Serves(s, ResetNextUnblock(s))
  BY ResetNextUnblockOK, PlainServes
<1>3. Serves(s, ForgetTimeOut(s))
  BY ForgetTimeOutOK, PlainServes
<1>4. ASSUME NEW ticks PROVE Serves(s, SetTimeOut(s, ticks)) /\ Serves(s, CheckForTimeOut(s, ticks).s)
  BY SetTimeOutOK, CheckForTimeOutOK, PlainServes
<1> QED
  BY <1>1, <1>2, <1>3, <1>4, YieldServes, SuspendAllServes

LEMMA ForgetServes ==
  ASSUME NEW s, NEW r, SchedOK(r), Serves(s, r)
  PROVE  Serves(s, ForgetTimeOut(r)) /\ \A c : Serves(s, YieldIf(c, r))
BY ServesOps, ServesTransitive

LEMMA Goes ==
  /\ \A at, s : GoTo(at, s) => sched' = s
  /\ \A s : Return(s) => sched' = s
  /\ \A s : QueueReturn(s) => sched' = ForgetTimeOut(s)
BY DEF GoTo, Return, QueueReturn

(* A task that was suspended is ready. *)
LEMMA ResumedServes ==
  ASSUME NEW s, SchedOK(s), NEW t \in Tasks, IsSuspended(s, t)
  PROVE  Serves(s, YieldIf(s.prio[t] >= s.prio[s.current], ToReady(s, t)))
<1> DEFINE m == ToReady(s, t)
           urgent == s.prio[t] >= s.prio[s.current]
           r == YieldIf(urgent, m)
<1>1. Unlinked(s, t)
  BY DEF IsSuspended, Unlinked, Waits
<1>2. SchedOK(m) /\ Same(s, m, StateLists \cup {"top"})
  BY <1>1, ToReadyOK
<1>3. /\ Topped(s) => Topped(m)
      /\ \A X : Good(s, X) /\ (t \in X \/ s.prio[t] <= s.prio[s.current]) => Good(m, X)
  BY SchedIs, ToReadyGood
<1>4. ~urgent => s.prio[t] <= s.prio[s.current]
  <2>1. s.prio[t] \in Int /\ s.prio[s.current] \in Int
    BY SchedIs, WFParts, Levels
  <2> QED
    BY <2>1
<1> HIDE DEF m, urgent
<1>5. Same(m, r, {"pendsv"}) /\ (urgent => r.pendsv) /\ (m.pendsv => r.pendsv)
  BY <1>2, YieldIfOK DEF Harmless
<1> HIDE DEF r
<1>6. /\ r.yieldPending = s.yieldPending /\ r.suspendedAll = s.suspendedAll /\ (s.pendsv => r.pendsv)
      /\ m.pendsv = s.pendsv /\ m.yieldPending = s.yieldPending
  BY <1>2, <1>5 DEF Same, StateLists, SchedFields
<1>7. (Owes(m) => Owes(r)) /\ (s.prio[t] <= s.prio[s.current] \/ Owes(r)) /\ (Steady(s) => Steady(r))
  BY <1>4, <1>5, <1>6 DEF Owes, Steady
<1>8. Upholds(s, r)
  <2> DEFINE F == {"pendsv"}
  <2>1. "ready" \notin F /\ "prio" \notin F /\ "current" \notin F /\ "top" \notin F
    OBVIOUS
  <2>2. Same(m, r, F)
    BY <1>5
  <2> HIDE DEF F
  <2> QED
    BY ONLY <1>3, <1>7, <2>1, <2>2, ReadiesGood
<1> QED
  BY <1>7, <1>8, UpheldServes DEF r, m, urgent

(* A task is deleted by another, or its memory is freed by the idle task. *)
LEMMA GoneServes ==
  ASSUME NEW s, SchedOK(s), NEW t \in Tasks \ {Idle}, t # s.current, NEW m, WF(m), Others(s, m, t),
         Away(m, t), Unlinked(m, t), Same(s, m, DetachFields),
         s.pendingReady = << >> => m.pendingReady = << >>
  PROVE  Serves(s, Freed(m, t)) /\ SchedOK(Freed(m, t))
<1>1. SchedOK(Freed(m, t))
  BY GoneOK DEF Gone
<1> QED
  BY <1>1, FreedServes

LEMMA CleanUpServes ==
  ASSUME NEW s, SchedOK(s), Ready(s, s.current), s.pendingReady = << >>, s.terminating # << >>
  PROVE  LET t == Head(s.terminating) IN Serves(s, Freed(RemoveState(s, t), t))
<1> DEFINE t == Head(s.terminating)
           m == RemoveState(s, t)
<1>2. WF(s) /\ IsList(s.terminating) /\ s.current \in Tasks
  BY WFParts, SchedIs
<1>3. t \in Tasks /\ Contains(s.terminating, t)
  BY <1>2 DEF IsList, Contains
<1> HIDE DEF t
<1>4. Placed(s, t) /\ ~Dormant(s, t)
  BY <1>3 DEF SchedOK, OnePlace, Placed
<1>5. \A p \in Priorities : ~Contains(s.ready[p].items, t)
  BY <1>3, <1>4 DEF Placed
<1>6. t # Idle /\ t # s.current
  <2>1. s.prio[s.current] \in Priorities
    BY <1>2, WFParts
  <2> QED
    BY <1>5, <2>1, Zero DEF SchedOK, IdleReady, Ready
<1>7. ~Contains(s.pendingReady, t)
  BY DEF Contains
<1>8. Unlinked(s, t)
  BY <1>4, <1>7 DEF Placed, Unlinked
<1>9. WF(m) /\ Others(s, m, t) /\ Away(m, t) /\ AsLinked(s, m, t) /\ Same(s, m, StateLists)
  BY <1>2, <1>3, RemoveStateWF
<1> HIDE DEF m
<1>10. Unlinked(m, t) /\ Same(s, m, DetachFields) /\ m.pendingReady = s.pendingReady
  BY <1>8, <1>9 DEF Unlinked, AsLinked, Same, DetachFields, StateLists, SchedFields
<1>11. Serves(s, Freed(m, t))
  BY <1>3, <1>6, <1>9, <1>10, GoneServes
<1> QED
  BY <1>11 DEF t, m

----------------------------------------------------------------------------
(* The calls of tasks.c. *)

LEMMA DelaysServe ==
  ASSUME Core(sched, stack), Delay \/ DelayAdd \/ DelayUntil \/ DelayUntilAdd \/ DelayResume
  PROVE  Serves(sched, sched')
<1>0. SchedOK(sched) /\ IsSched(sched) /\ WF(sched) /\ sched.lastWake = sched.lastWake
  BY SchedIs DEF Core
<1>1. CASE Delay
  BY <1>0, <1>1, ServesOps, Goes DEF Delay
<1>2. CASE DelayAdd
  <2>1. sched' = AddCurrentToDelayed(sched, Top.wait, FALSE)
    BY <1>2, Goes DEF DelayAdd
  <2>2. Same(sched, sched, {"wake"})
    BY DEF Same
  <2> QED
    BY <1>0, <2>1, <2>2, AddCurrentServes
<1>3. CASE DelayUntil
  BY <1>0, <1>3, ServesOps, Goes DEF DelayUntil
<1>4. CASE DelayUntilAdd
  <2> DEFINE next == TickAfter(sched.lastWake[me], Top.wait)
             s == [sched EXCEPT !.lastWake[me] = next]
             ticks == TickSince(next, s.tick)
  <2>1. sched' = AddCurrentToDelayed(s, ticks, FALSE) \/ sched' = s
    BY <1>4, Goes DEF DelayUntilAdd
  <2> HIDE DEF next, ticks
  <2>2. IsSched(s) /\ Same(sched, s, {"lastWake"})
    BY <1>0 DEF IsSched, SchedFields, Same
  <2> HIDE DEF s
  <2>3. Serves(sched, s)
    BY <2>2, PlainServes
  <2>4. Serves(sched, AddCurrentToDelayed(s, ticks, FALSE))
    BY <1>0, <2>2, AddCurrentServes
  <2> QED
    BY <2>1, <2>3, <2>4
<1>5. CASE DelayResume
  <2>1. Busy(sched, stack) /\ Top.op \in {"delay", "delayUntil"} /\ Top.at = "resume"
    BY <1>5, AtBusy DEF DelayResume
  <2>2. sched.suspendedAll = 1
    BY <2>1, BusyTop DEF Holds
  <2>3. sched' = ResumeAll(sched)
    BY <1>5, Goes DEF DelayResume
  <2> QED
    BY <1>0, <2>2, <2>3, ResumeAllServes
<1> QED
  BY <1>1, <1>2, <1>3, <1>4, <1>5

LEMMA HoldsServe ==
  ASSUME Core(sched, stack),
         YieldAtEnd \/ Hold \/ Release \/ TaskYield \/ IdleShare \/ IdleSleep \/ IdleWake
  PROVE  Serves(sched, sched')
<1>0. SchedOK(sched)
  BY DEF Core
<1>1. CASE YieldAtEnd \/ Hold \/ TaskYield
  BY <1>0, <1>1, ServesOps, Goes DEF YieldAtEnd, Hold, TaskYield
<1>2. CASE IdleShare \/ IdleSleep
  BY <1>0, <1>2, ServesOps, Goes DEF IdleShare, IdleSleep
<1>3. CASE Release \/ IdleWake
  <2>1. /\ Busy(sched, stack)
        /\ (Top.op = "hold" /\ Top.at = "held") \/ (Top.op = "idle" /\ Top.at = "wake")
    BY <1>3, AtBusy DEF Release, IdleWake
  <2>2. sched.suspendedAll = 1
    BY <2>1, BusyTop DEF Holds
  <2>3. sched' = ResumeAll(sched)
    BY <1>3, Goes DEF Release, IdleWake
  <2> QED
    BY <1>0, <2>2, <2>3, ResumeAllServes
<1> QED
  BY <1>1, <1>2, <1>3

LEMMA NotifiesServe ==
  ASSUME Core(sched, stack),
         NotifyTake \/ NotifyTaken \/ NotifyWait \/ NotifyWaited \/ Notify \/ NotifyStateClear
  PROVE  Serves(sched, sched')
<1>0. SchedOK(sched) /\ IsSched(sched)
  BY SchedIs DEF Core
<1>1. CASE NotifyTake
  <2>1. sched' = AwaitNotification(sched, Top.wait) \/ sched' = sched
    BY <1>1, Goes DEF NotifyTake
  <2> QED
    BY <1>0, <2>1, AwaitNotificationServes, ServesOps
<1>2. CASE NotifyWait
  <2> DEFINE v == [sched.value EXCEPT ![me] = ValueOf(BitsOf(@) \ BitsOf(Top.arg[1]))]
             m == [sched EXCEPT !.value = v]
  <2>1. sched' = AwaitNotification(m, Top.wait) \/ sched' = sched
    BY <1>2, Goes DEF NotifyWait
  <2>2. SchedOK(m) /\ Same(sched, m, {"value"})
    <3> HIDE DEF v
    <3> QED
      BY <1>0, ValueOK DEF Calm
  <2> HIDE DEF m
  <2>3. Serves(sched, AwaitNotification(m, Top.wait))
    BY <2>2, PlainServes, AwaitNotificationServes, ServesTransitive
  <2> QED
    BY <1>0, <2>1, <2>3, ServesOps
<1>3. CASE NotifyTaken \/ NotifyWaited \/ NotifyStateClear
  <2>1. PICK n, v : sched' = [sched EXCEPT !.notify = n, !.value = v]
    <3>1. CASE NotifyTaken
      BY <3>1, Goes DEF NotifyTaken
    <3>2. CASE NotifyWaited
      BY <3>2, Goes DEF NotifyWaited
    <3>3. CASE NotifyStateClear
      <4> DEFINE n == [sched.notify EXCEPT ![Top.obj] = IF @ = "received" THEN "not waiting" ELSE @]
      <4>1. sched' = [sched EXCEPT !.notify = n]
        BY <3>3, Goes DEF NotifyStateClear
      <4> HIDE DEF n
      <4>2. sched' = [sched EXCEPT !.notify = n, !.value = sched.value]
        BY <1>0, <4>1 DEF IsSched, SchedFields
      <4> QED
        BY <4>2
    <3> QED
      BY <1>3, <3>1, <3>2, <3>3
  <2>2. Same(sched, sched', {"notify", "value"})
    BY <1>0, <2>1 DEF IsSched, SchedFields, Same
  <2> QED
    BY <2>2, PlainServes
<1>4. CASE Notify
  <2>1. Top.obj \in Tasks
    BY <1>4, AtBusy, BusyTop DEF Notify, Proper
  <2>2. sched' = GenericNotify(sched, Top.obj, Top.arg[1], Top.arg[2])
    BY <1>4, Goes DEF Notify
  <2> QED
    BY <1>0, <2>1, <2>2, GenericNotifyServes
<1> QED
  BY <1>1, <1>2, <1>3, <1>4

LEMMA ParksServe ==
  ASSUME Core(sched, stack),
         DeleteSelf \/ DeleteOther \/ Suspend \/ SuspendReset \/ Resume \/ PrioritySet \/ IdleCleanUp
  PROVE  Serves(sched, sched')
<1>0. SchedOK(sched) /\ me \in Tasks /\ me = sched.current
  BY SchedIs DEF Core, me
<1>1. CASE DeleteSelf
  <2>1. sched' = Deleted(sched, me)
    BY <1>1, Goes DEF DeleteSelf, Deleted
  <2> QED
    BY <1>0, <2>1, SuspendedTaskServes
<1>2. CASE DeleteOther
  <2> DEFINE t == Top.obj
             m == Detach(sched, t)
             s == Freed(m, t)
  <2>1. t \in Tasks \ {Idle} /\ t # sched.current
    BY <1>0, <1>2, AtBusy, BusyTop DEF DeleteOther, Proper
  <2>2. sched' = ResetNextUnblock(s)
    BY <1>2 DEF DeleteOther
  <2> HIDE DEF t
  <2>3. /\ WF(m) /\ Others(sched, m, t) /\ Away(m, t) /\ Unlinked(m, t) /\ Same(sched, m, DetachFields)
        /\ sched.pendingReady = << >> => m.pendingReady = << >>
    BY <1>0, <2>1, DetachWF
  <2> HIDE DEF m
  <2>4. Serves(sched, s) /\ SchedOK(s)
    BY <1>0, <2>1, <2>3, GoneServes
  <2> HIDE DEF s
  <2> QED
    BY <2>2, <2>4, ServesOps, ServesTransitive
<1>3. CASE Suspend
  <2>1. sched' = Suspended(sched, Top.obj)
    BY <1>3, Goes DEF Suspend, Suspended
  <2>2. Top.obj \in Tasks
    BY <1>3, AtBusy, BusyTop DEF Suspend, Proper
  <2> QED
    BY <1>0, <2>1, <2>2, SuspendedTaskServes
<1>4. CASE SuspendReset
  BY <1>0, <1>4, ServesOps, Goes DEF SuspendReset
<1>5. CASE Resume
  <2> DEFINE r == YieldIf(sched.prio[Top.obj] >= sched.prio[sched.current], ToReady(sched, Top.obj))
  <2>1. sched' = sched \/ (IsSuspended(sched, Top.obj) /\ sched' = r)
    BY <1>0, <1>5, Goes DEF Resume
  <2>2. Top.obj \in Tasks
    BY <1>5, AtBusy, BusyTop DEF Resume, Proper
  <2>3. IsSuspended(sched, Top.obj) => Serves(sched, r)
    BY <1>0, <2>2, ResumedServes
  <2> HIDE DEF r
  <2> QED
    BY <1>0, <2>1, <2>3, ServesOps
<1>6. CASE PrioritySet
  <2>1. sched' = SetPriority(sched, Top.obj, Top.arg)
    BY <1>6, Goes DEF PrioritySet
  <2>2. Top.obj \in Tasks \ {Idle} /\ Top.arg \in Priorities
    BY <1>6, AtBusy, BusyTop DEF PrioritySet, Proper
  <2> QED
    BY <1>0, <2>1, <2>2, SetPriorityServes
<1>7. CASE IdleCleanUp
  <2>1. Busy(sched, stack) /\ Top.op = "idle" /\ Top.at = "start"
    BY <1>7, AtBusy DEF IdleCleanUp
  <2>2. Quiet(sched, Top)
    BY <2>1 DEF Quiet, Holds, Dozes, Parks, Awaits, Grouped, QueueOps
  <2>3. Ready(sched, sched.current) /\ sched.pendingReady = << >>
    BY <2>1, <2>2, BusyTop, ReadyApart DEF Quiet, Top, me
  <2>4. CASE sched.terminating = << >>
    <3>1. sched' = sched
      BY <1>7, <2>4, Goes DEF IdleCleanUp
    <3> QED
      BY <1>0, <3>1, ServesOps
  <2>5. CASE sched.terminating # << >>
    <3> DEFINE t == Head(sched.terminating)
    <3>1. sched' = Freed(RemoveState(sched, t), t)
      BY <1>7, <2>5 DEF IdleCleanUp
    <3> QED
      BY <1>0, <2>3, <2>5, <3>1, CleanUpServes
  <2> QED
    BY <2>4, <2>5
<1> QED
  BY <1>1, <1>2, <1>3, <1>4, <1>5, <1>6, <1>7
=============================================================================
