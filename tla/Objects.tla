------------------------------ MODULE Objects ------------------------------
(***************************************************************************)
(* Who owns the blocks of the heap (module Heap): the tasks, queues, event *)
(* groups, buffers and timers of the kernel, which are created in memory   *)
(* of the heap or of the caller, and deleted; and the creations and        *)
(* deletions that are in progress, or fail half way.                       *)
(*                                                                         *)
(* A creation allocates the parts of an object one by one; any of them may *)
(* be refused.  Where the parts came from is noted in the object           *)
(* (ucStaticallyAllocated, or a flag of the same meaning), and that note   *)
(* decides what a deletion frees.  What objects do in between is the       *)
(* business of the modules of Kernel.                                      *)
(***************************************************************************)
EXTENDS Heap, Sequences

CONSTANTS
  Callers,    \* the tasks that create and delete, the timer task among them
  TimerTask,  \* it carries out the deletion of timers
  Idle,       \* the idle task, which frees the tasks that deleted themselves
  Handles,    \* the variables of the application that hold handles
  Kinds,      \* handle -> what the application keeps there
  SizeOf,     \* part -> its size
  MaxTerminating, \* how many tasks await their end at most
  Nobody

ASSUME OwnersAssumption ==
  /\ TimerTask \in Callers /\ Idle \notin Callers
  /\ Nobody \notin Callers \cup {Idle}
  /\ DOMAIN SizeOf = {"stack", "tcb", "queue", "eventGroup", "timer", "buffer",
                      "largeBuffer", "nothing", "bytes", "tooMuch"}
  /\ Requests = {SizeOf[part] : part \in DOMAIN SizeOf}

VARIABLES
  objects,      \* handle -> the object it refers to, if any
  call,         \* task -> the creation or deletion in progress
  terminating,  \* the tasks in xTasksWaitingTermination
  exclusive     \* who keeps all others from running: it is in a critical
                \* section, or has suspended the scheduler

memory == <<block, remaining, asked>>
allVars == <<block, remaining, asked, objects, call, terminating, exclusive>>

Agents == Callers \cup {Idle}

NoObject == [kind |-> "none", note |-> "static", blocks |-> << >>]
NoCall == [at |-> "none", handle |-> Nobody, parts |-> << >>, object |-> NoObject]

May(agent) == exclusive \in {Nobody, agent}
Doing(agent, at) == May(agent) /\ call[agent].at = at

ObjectsInit ==
  /\ Init
  /\ objects = << >> /\ terminating = << >> /\ exclusive = Nobody
  /\ call = [agent \in Agents |-> NoCall]

----------------------------------------------------------------------------
(* Creation.  The application keeps one object at a time in a variable.    *)

Starts(caller, handle, kind, parts, note) ==
  /\ Doing(caller, "none")
  /\ handle \notin DOMAIN objects /\ kind \in Kinds[handle]
  /\ \A other \in Callers : call[other].handle # handle
  /\ call' = [call EXCEPT ![caller] =
                [at |-> "create", handle |-> handle, parts |-> parts,
                 object |-> [kind |-> kind, note |-> note, blocks |-> << >>]]]
  /\ UNCHANGED <<memory, objects, terminating, exclusive>>

CreateTask(caller, handle) ==
  Starts(caller, handle, "task", <<"stack", "tcb">>, "dynamic")

CreateTaskStatic(caller, handle) == Starts(caller, handle, "task", << >>, "static")

CreateTaskRestricted(caller, handle) ==
  Starts(caller, handle, "task", <<"tcb">>, "stack static")

CreateTaskRestrictedStatic(caller, handle) ==
  Starts(caller, handle, "task", << >>, "static")

(* Any other object and its storage are one block.                          *)
CreateQueue(caller, handle) == Starts(caller, handle, "queue", <<"queue">>, "dynamic")

CreateQueueStatic(caller, handle) == Starts(caller, handle, "queue", << >>, "static")

CreateMutexStatic(caller, handle) == CreateQueueStatic(caller, handle)

CreateEventGroup(caller, handle) ==
  Starts(caller, handle, "eventGroup", <<"eventGroup">>, "dynamic")

CreateEventGroupStatic(caller, handle) ==
  Starts(caller, handle, "eventGroup", << >>, "static")

CreateStreamBuffer(caller, handle) ==
  \E part \in {"buffer", "largeBuffer"} :
    Starts(caller, handle, "streamBuffer", <<part>>, "dynamic")

CreateStreamBufferStatic(caller, handle) ==
  Starts(caller, handle, "streamBuffer", << >>, "static")

CreateTimer(caller, handle) == Starts(caller, handle, "timer", <<"timer">>, "dynamic")

CreateTimerStatic(caller, handle) == Starts(caller, handle, "timer", << >>, "static")

(* An allocation of the application itself.                                 *)
TakeMemory(caller, handle) ==
  \E part \in {"nothing", "bytes", "tooMuch"} :
    Starts(caller, handle, "memory", <<part>>, "dynamic")

Missing(caller) == call[caller].parts # << >>
NextSize(caller) == SizeOf[Head(call[caller].parts)]

(* The address that pvPortMalloc returns.                                   *)
Returned == CHOOSE a \in DOMAIN asked' : a \notin DOMAIN asked

Allocate(caller) ==
  /\ Doing(caller, "create") /\ Missing(caller)
  /\ Malloc(NextSize(caller))
  /\ call' = [call EXCEPT ![caller].parts = Tail(@),
                          ![caller].object.blocks = Append(@, Returned)]
  /\ UNCHANGED <<objects, terminating, exclusive>>

Frees(agent, blocks) ==
  call' = [call EXCEPT ![agent] =
             [NoCall EXCEPT !.at = "free", !.object.blocks = blocks]]

(* Mutant: what has been allocated before is kept.                          *)
UndoNothing(object) == << >>

(* The stack is freed if there is no memory for the TCB.                    *)
Undo(object) == object.blocks

CreateFails(caller) ==
  /\ Doing(caller, "create") /\ Missing(caller)
  /\ MallocFails(NextSize(caller))
  /\ Frees(caller, Undo(call[caller].object))
  /\ UNCHANGED <<objects, terminating, exclusive>>

Created(caller) ==
  /\ Doing(caller, "create") /\ ~Missing(caller)
  /\ objects' = [h \in DOMAIN objects \cup {call[caller].handle} |->
                   IF h = call[caller].handle THEN call[caller].object ELSE objects[h]]
  /\ call' = [call EXCEPT ![caller] = NoCall]
  /\ UNCHANGED <<memory, terminating, exclusive>>

----------------------------------------------------------------------------
(* Deletion. *)

(* Mutant: a task whose stack is the caller's is taken for a static one.    *)
PartsToFreeAllOrNothing(task) == IF task.note = "dynamic" THEN task.blocks ELSE << >>

(* prvDeleteTCB.                                                            *)
PartsToFree(task) ==
  CASE task.note = "dynamic" -> task.blocks
    [] task.note = "stack static" -> <<task.blocks[1]>>
    [] OTHER -> << >>

Whole(object) == IF object.note = "dynamic" THEN object.blocks ELSE << >>

Forget(handle, kind) ==
  /\ handle \in DOMAIN objects /\ objects[handle].kind = kind
  /\ objects' = [h \in DOMAIN objects \ {handle} |-> objects[h]]

Deletes(caller, handle, kind, blocks, excludes) ==
  /\ Doing(caller, "none")
  /\ Forget(handle, kind)
  /\ Frees(caller, blocks)
  /\ exclusive' = IF excludes THEN caller ELSE exclusive
  /\ UNCHANGED <<memory, terminating>>

(* Another task is deleted in a critical section.                           *)
DeleteTask(caller, handle) ==
  Deletes(caller, handle, "task", PartsToFree(objects[handle]), TRUE)

(* A task that deletes itself is still using its memory.                    *)
DeleteItself(handle) ==
  /\ exclusive = Nobody
  /\ Len(terminating) < MaxTerminating
  /\ Forget(handle, "task")
  /\ terminating' = Append(terminating, objects[handle])
  /\ UNCHANGED <<memory, call, exclusive>>

CheckTasksWaitingTermination ==
  /\ Doing(Idle, "none")
  /\ terminating # << >>
  /\ terminating' = Tail(terminating)
  /\ Frees(Idle, PartsToFree(Head(terminating)))
  /\ UNCHANGED <<memory, objects, exclusive>>

DeleteQueue(caller, handle) ==
  Deletes(caller, handle, "queue", Whole(objects[handle]), FALSE)

(* With the scheduler suspended.                                            *)
DeleteEventGroup(caller, handle) ==
  Deletes(caller, handle, "eventGroup", Whole(objects[handle]), TRUE)

DeleteStreamBuffer(caller, handle) ==
  Deletes(caller, handle, "streamBuffer", Whole(objects[handle]), FALSE)

(* tmrCOMMAND_DELETE.                                                       *)
DeleteTimer(handle) ==
  Deletes(TimerTask, handle, "timer", Whole(objects[handle]), FALSE)

GiveMemory(caller, handle) ==
  Deletes(caller, handle, "memory", objects[handle].blocks, FALSE)

(* The two halves of vPortFree.                                             *)
FreeBegins(agent) ==
  /\ Doing(agent, "free")
  /\ call[agent].object.blocks # << >>
  /\ ClearAllocated(Head(call[agent].object.blocks))
  /\ call' = [call EXCEPT ![agent].at = "insert"]
  /\ UNCHANGED <<objects, terminating, exclusive>>

FreeEnds(agent) ==
  /\ Doing(agent, "insert")
  /\ Free(Head(call[agent].object.blocks))
  /\ call' = [call EXCEPT ![agent].at = "free", ![agent].object.blocks = Tail(@)]
  /\ UNCHANGED <<objects, terminating, exclusive>>

Freed(agent) ==
  /\ Doing(agent, "free")
  /\ call[agent].object.blocks = << >>
  /\ call' = [call EXCEPT ![agent] = NoCall]
  /\ exclusive' = Nobody
  /\ UNCHANGED <<memory, objects, terminating>>

Creates(caller, handle) ==
  \/ CreateTask(caller, handle)
  \/ CreateTaskStatic(caller, handle)
  \/ CreateTaskRestricted(caller, handle)
  \/ CreateTaskRestrictedStatic(caller, handle)
  \/ CreateQueue(caller, handle)
  \/ CreateQueueStatic(caller, handle)
  \/ CreateMutexStatic(caller, handle)
  \/ CreateEventGroup(caller, handle)
  \/ CreateEventGroupStatic(caller, handle)
  \/ CreateStreamBuffer(caller, handle)
  \/ CreateStreamBufferStatic(caller, handle)
  \/ CreateTimer(caller, handle)
  \/ CreateTimerStatic(caller, handle)
  \/ TakeMemory(caller, handle)

Deletion(caller, handle) ==
  \/ DeleteTask(caller, handle)
  \/ DeleteQueue(caller, handle)
  \/ DeleteEventGroup(caller, handle)
  \/ DeleteStreamBuffer(caller, handle)
  \/ GiveMemory(caller, handle)

ObjectsNext ==
  \/ \E caller \in Callers, handle \in Handles :
       Creates(caller, handle) \/ Deletion(caller, handle)
  \/ \E caller \in Callers : Allocate(caller) \/ CreateFails(caller) \/ Created(caller)
  \/ \E handle \in Handles : DeleteItself(handle) \/ DeleteTimer(handle)
  \/ CheckTasksWaitingTermination
  \/ \E agent \in Agents : FreeBegins(agent) \/ FreeEnds(agent) \/ Freed(agent)

ObjectsSpec == ObjectsInit /\ [][ObjectsNext]_allVars

----------------------------------------------------------------------------
(* Properties. *)

(* Who holds which blocks, one by one.                                      *)
BlocksOf(owner, blocks) == {<<owner, i, blocks[i]>> : i \in DOMAIN blocks}

Holdings ==
  UNION ({BlocksOf(<<"object", h>>, objects[h].blocks) : h \in DOMAIN objects}
         \cup {BlocksOf(<<"call", agent>>, call[agent].object.blocks) : agent \in Agents}
         \cup {BlocksOf(<<"terminating", i>>, terminating[i].blocks) : i \in DOMAIN terminating})

Allocated == In("used") \cup In("leaving")

(* Every block that is not free belongs to one object, to one creation or  *)
(* deletion in progress, or to one task that awaits its end, and nobody    *)
(* holds a free block: nothing is leaked when a creation fails half way or *)
(* an object has parts of both kinds, and nothing is freed twice or while  *)
(* a task that deleted itself still runs on it.                            *)
NoLeak ==
  /\ {holding[3] : holding \in Holdings} = Allocated
  /\ Cardinality(Holdings) = Cardinality(Allocated)

=============================================================================
