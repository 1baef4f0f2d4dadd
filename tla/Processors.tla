---------------------------- MODULE Processors ----------------------------
(***************************************************************************)
(* What the port (examples/freertos/portable/GCC/ARM_CM33/non_secure)      *)
(* promises the tasks: each has a processor of its own, which goes on      *)
(* exactly where it stopped, whatever interrupts and other tasks do in     *)
(* between; nobody takes over from a task inside a critical section; a     *)
(* task's application code gains privilege in one way only, by calling the *)
(* monitor's TCRaisePrivilege itself.                                      *)
(***************************************************************************)
CONSTANTS
  Tasks,
  NoTask,
  Fresh,      \* where a task starts
  Elevating   \* where it is when its application code called TCRaisePrivilege

VARIABLES
  running,    \* the task whose turn it is
  exclusive,  \* the task inside a critical section, or NoTask
  place,      \* task -> where it is, as a set that is empty before it is created
  trusted     \* task -> whether its application code is privileged

Created == {t \in Tasks : place[t] # {}}

Init ==
  /\ running \in Created
  /\ exclusive = NoTask
  /\ \A t \in Created : place[t] = {Fresh}

Others(t) == \A u \in Tasks \ {t} : place'[u] = place[u] /\ trusted'[u] = trusted[u]

(* The task whose turn it is goes on.                                       *)
Step(t) ==
  /\ running = t /\ UNCHANGED running
  /\ exclusive' \in {NoTask, t}
  /\ \E p \in place'[t] : place'[t] = {p} /\ p # Fresh
  /\ trusted'[t] => trusted[t] \/ place[t] = {Elevating}
  /\ Others(t)

Create(u) ==
  /\ place[u] = {} /\ place'[u] = {Fresh}
  /\ Others(u)
  /\ UNCHANGED <<running, exclusive>>

Switch ==
  /\ exclusive = NoTask
  /\ running' \in Created
  /\ UNCHANGED <<exclusive, place, trusted>>

Next ==
  \/ \E t \in Tasks : Step(t) \/ Create(t)
  \/ Switch

Spec == Init /\ [][Next]_<<running, exclusive, place, trusted>>

=============================================================================
