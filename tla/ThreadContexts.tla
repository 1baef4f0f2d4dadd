--------------------------- MODULE ThreadContexts ---------------------------
(***************************************************************************)
(* What the monitor's thread management (src/src/monitor/threads.zig)      *)
(* promises its clients: every thread has a shadow exception stack, a      *)
(* shadow stack and a Secure stack of its own; a thread that is activated  *)
(* finds them as it left them; nothing but the current thread changes      *)
(* them.                                                                   *)
(***************************************************************************)
EXTENDS Integers

CONSTANTS
  Ids,        \* thread identifiers; 0 is the default thread
  Contexts,   \* what a thread owns: its three stacks and how far each is filled
  NoContext,  \* the context of an identifier that is not in use
  Places(_)   \* the memory that a context's stacks occupy

VARIABLES
  current,    \* the thread whose stacks are in use
  context     \* what every thread owns

Created == {i \in Ids : context[i] # NoContext}

Apart(c, d) == Places(c) \cap Places(d) = {}

Init ==
  /\ current = 0
  /\ DOMAIN context = Ids /\ context[0] \in Contexts
  /\ Created = {0}

Same(ids) == \A i \in ids : context'[i] = context[i]

(* The current thread and the handlers that preempt it use its stacks.      *)
Work ==
  /\ context'[current] \in Contexts
  /\ Places(context'[current]) = Places(context[current])
  /\ Same(Ids \ {current})
  /\ UNCHANGED current

(* A thread is created, with stacks that nobody else has.                   *)
Create(i) ==
  /\ i \notin Created
  /\ context'[i] \in Contexts
  /\ \A j \in Created : Apart(context'[i], context[j])
  /\ Same(Ids \ {i})
  /\ UNCHANGED current

Activate(i) ==
  /\ i \in Created
  /\ current' = i
  /\ UNCHANGED context

(* All threads but the default one are forgotten; it gets a new shadow      *)
(* stack.                                                                   *)
Reset ==
  /\ current' = 0
  /\ context'[0] \in Contexts
  /\ \A i \in Ids \ {0} : context'[i] = NoContext

Next ==
  /\ DOMAIN context' = Ids
  /\ Work \/ Reset \/ \E i \in Ids : Create(i) \/ Activate(i)

Spec == Init /\ [][Next]_<<current, context>>

=============================================================================
