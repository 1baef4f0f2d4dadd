------------------------------ MODULE Threads ------------------------------
(***************************************************************************)
(* Thread management of the monitor (src/src/monitor/threads.zig): slots,  *)
(* the arena the stacks are carved from, creation, activation and reset,   *)
(* with the parts of the two stack modules it calls.  TCCreateThread tests *)
(* for a free slot before it masks interrupts, so that a handler that      *)
(* creates a thread itself may come in between.                            *)
(*                                                                         *)
(* The arena is measured in units of 32 bytes, the strictest alignment.    *)
(***************************************************************************)
EXTENDS Integers, Sequences

CONSTANTS
  Slots,      \* threads.len
  ArenaSize,  \* arena.len
  InfoSize, ExcSize, StackSize, SecureStackSize, \* the four allocations
  MaxNest,    \* how many contexts there are: thread code and nested handlers
  Depth,      \* how far a thread's own code fills its stacks
  RawIds      \* the arguments TCActivateThread is called with

Sizes == <<InfoSize, ExcSize, StackSize, SecureStackSize>>

(* What the blocks of one thread take, alignment included.                  *)
ThreadSize == InfoSize + ExcSize + StackSize + SecureStackSize

ASSUME SizesAssumption ==
  /\ \A k \in 1..4 : Sizes[k] \in Nat \ {0}
  /\ Slots \in Nat \ {0} /\ ArenaSize \in Nat /\ ArenaSize >= StackSize
ASSUME ArenaAssumption == StackSize + (Slots - 1) * ThreadSize > ArenaSize
ASSUME ClientAssumption == MaxNest \in Nat \ {0} /\ Depth \in Nat /\ RawIds \subseteq Nat

VARIABLES
  threads,        \* the table; an entry is a NonSecureThread or NoThread
  nextFreeThread, \* next_free_thread
  curThread,      \* cur_thread
  used,           \* fixed_allocator.end_index
  live,           \* g_stack, g_shadow_stack_top with its guards, PSP_S with its limit
  ctx,            \* the contexts, the running one last: "run", or "checked" when
                  \* createThread has found a free slot and not yet masked interrupts
  fault           \* "none", "slot" (threads[threads.len] was written), "frame" (a
                  \* handler returned with an empty shadow exception stack)

vars == <<threads, nextFreeThread, curThread, used, live, ctx, fault>>

(* A stack: the address of its memory and the number of entries in use.     *)
DefaultStorage == -1    \* g_default_stack_storage
MainSecureStack == -2   \* the Secure process stack the boot code set up
Addresses == {DefaultStorage, MainSecureStack} \cup 0..ArenaSize
Stacks == [at : Addresses, top : 0..(Depth + MaxNest)]
Undefined == [at |-> -3, top |-> 0]

NonSecureThread == [exc : Stacks, stack : Stacks, psp : Stacks]
NoThread == [exc |-> Undefined, stack |-> Undefined, psp |-> Undefined]

(* The default thread's other members are set when it is first switched     *)
(* away from.                                                               *)
DefaultThread(stack) == [NoThread EXCEPT !.stack = stack]

Empty(address) == [at |-> address, top |-> 0]

----------------------------------------------------------------------------
(* init and TCReset. *)

InitialTable ==
  [i \in 0..(Slots - 1) |-> IF i = 0 THEN DefaultThread(Empty(0)) ELSE NoThread]

(* TCInitialize, before the Non-Secure program starts.                      *)
Init ==
  /\ threads = InitialTable
  /\ nextFreeThread = 1 /\ curThread = 0
  /\ used = StackSize
  /\ live = [exc |-> Empty(DefaultStorage), stack |-> Empty(0), psp |-> Empty(MainSecureStack)]
  /\ ctx = <<"run">> /\ fault = "none"

(* TCReset, from the default thread's own code.                             *)
TCReset ==
  /\ fault = "none" /\ ctx = <<"run">> /\ curThread = 0
  /\ threads' = InitialTable
  /\ nextFreeThread' = 1 /\ curThread' = 0
  /\ used' = StackSize
  /\ live' = [live EXCEPT !.stack = Empty(0)]
  /\ UNCHANGED <<ctx, fault>>

----------------------------------------------------------------------------
(* TCCreateThread. *)

At(location) == fault = "none" /\ ctx[Len(ctx)] = location

GoTo(location) == ctx' = [ctx EXCEPT ![Len(ctx)] = location]

(* The test that comes before setFaultmask.                                 *)
CreateCheck ==
  /\ At("run")
  /\ nextFreeThread < Slots
  /\ GoTo("checked")
  /\ UNCHANGED <<threads, nextFreeThread, curThread, used, live, fault>>

(* How much the first k allocations take.                                   *)
SizeOf(k) ==
  <<0, InfoSize, InfoSize + ExcSize, InfoSize + ExcSize + StackSize, ThreadSize>>[k + 1]

(* Mutant: running out of memory goes unnoticed.                            *)
FitsAlways(k) == TRUE

Fits(k) == used + SizeOf(k) <= ArenaSize

(* Mutant: nothing is recorded of the simulated frame.                      *)
NewThreadEmpty ==
  [exc   |-> [at |-> used + InfoSize, top |-> 0],
   stack |-> Empty(used + InfoSize + ExcSize),
   psp   |-> Empty(used + InfoSize + ExcSize + StackSize)]

(* The first exception frame is simulated, and recorded as if an exception  *)
(* had been taken.                                                          *)
NewThread ==
  [exc   |-> [at |-> used + InfoSize, top |-> 1],
   stack |-> Empty(used + InfoSize + ExcSize),
   psp   |-> Empty(used + InfoSize + ExcSize + StackSize)]

(* The part that runs with FAULTMASK set.                                   *)
CreateThread ==
  /\ At("checked")
  /\ Fits(4)
  /\ used' = used + ThreadSize
  /\ nextFreeThread' = nextFreeThread + 1
  /\ IF nextFreeThread < Slots
     THEN threads' = [threads EXCEPT ![nextFreeThread] = NewThread] /\ UNCHANGED fault
     ELSE fault' = "slot" /\ UNCHANGED threads
  /\ GoTo("run")
  /\ UNCHANGED <<curThread, live>>

(* The k-th allocation fails.  The errdefers free the blocks before it, but *)
(* a FixedBufferAllocator does not take memory back.                        *)
CreateFails(k) ==
  /\ At("checked")
  /\ Fits(k - 1) /\ ~Fits(k)
  /\ used' = used + SizeOf(k - 1)
  /\ GoTo("run")
  /\ UNCHANGED <<threads, nextFreeThread, curThread, live, fault>>

----------------------------------------------------------------------------
(* TCActivateThread. *)

SlotOf(raw) == raw % Slots

(* Mutants: nothing is saved; the exception stack is saved when the new     *)
(* thread's has been loaded already.                                        *)
SavedNothing(old, new) == threads[old]
SavedLate(old, new) == [live EXCEPT !.exc = threads[new].exc]

(* What is stored in the thread that is left.                               *)
Saved(old, new) == live

(* Called as the last thing of the outermost exception handler              *)
(* (examples/nonsecure-common/oshooks.zig).                                 *)
ActivateThread(raw) ==
  /\ At("run") /\ Len(ctx) = 2
  /\ threads[SlotOf(raw)] # NoThread
  /\ LET new == SlotOf(raw)
         table == [threads EXCEPT ![curThread] = Saved(curThread, new)]
     IN  /\ threads' = table
         /\ live' = table[new]
         /\ curThread' = new
  /\ UNCHANGED <<nextFreeThread, used, ctx, fault>>

----------------------------------------------------------------------------
(* The client (external). *)

(* An exception handler begins: its frame is recorded; and ends.            *)
Interrupt ==
  /\ fault = "none" /\ Len(ctx) < MaxNest
  /\ ctx' = Append(ctx, "run")
  /\ live' = [live EXCEPT !.exc.top = @ + 1]
  /\ UNCHANGED <<threads, nextFreeThread, curThread, used, fault>>

Return ==
  /\ At("run") /\ Len(ctx) > 1
  /\ ctx' = SubSeq(ctx, 1, Len(ctx) - 1)
  /\ IF live.exc.top > 0
     THEN live' = [live EXCEPT !.exc.top = @ - 1] /\ UNCHANGED fault
     ELSE fault' = "frame" /\ UNCHANGED live
  /\ UNCHANGED <<threads, nextFreeThread, curThread, used>>

(* Thread code calls functions and Secure functions, and they return.       *)
Work(part, n) ==
  /\ At("run") /\ Len(ctx) = 1
  /\ live' = [live EXCEPT ![part].top = n]
  /\ UNCHANGED <<threads, nextFreeThread, curThread, used, ctx, fault>>

Next ==
  \/ TCReset \/ CreateCheck \/ CreateThread
  \/ \E k \in 1..4 : CreateFails(k)
  \/ \E raw \in RawIds : ActivateThread(raw)
  \/ Interrupt \/ Return
  \/ \E part \in {"stack", "psp"}, n \in 0..Depth : Work(part, n)

Spec == Init /\ [][Next]_vars

----------------------------------------------------------------------------
(* Properties. *)

Created == {i \in 0..(Slots - 1) : threads[i] # NoThread}

TypeOK ==
  /\ threads \in [0..(Slots - 1) -> {NoThread} \cup
                    [exc : Stacks \cup {Undefined}, stack : Stacks, psp : Stacks \cup {Undefined}]]
  /\ nextFreeThread \in 1..(Slots + MaxNest) /\ curThread \in 0..(Slots - 1)
  /\ used \in 0..ArenaSize
  /\ live \in NonSecureThread
  /\ ctx \in Seq({"run", "checked"}) /\ ctx # << >>
  /\ fault \in {"none", "slot", "frame"}

(* createThread tests for a free slot before it masks interrupts, and       *)
(* several contexts can be past the test at once; still no thread is ever   *)
(* written past the end of `threads`, because the arena runs out first.     *)
NeverPastSlots == fault # "slot"

(* Whatever thread a handler returns to, its exception frame is on the      *)
(* shadow exception stack: the default thread's and, from its first         *)
(* activation on, every created one's (StackState.new records the simulated *)
(* frame).                                                                  *)
FrameFound == fault # "frame"

(* The memory a thread's stacks occupy.                                     *)
Block(address, size) == IF address < 0 THEN {address} ELSE address..(address + size - 1)

Places(c) ==
  Block(c.exc.at, ExcSize) \cup Block(c.stack.at, StackSize) \cup Block(c.psp.at, SecureStackSize)

Owned(i) == IF i = curThread THEN live ELSE threads[i]

(* Activation switches the three stacks together, a thread always gets back *)
(* its own as it left them, and creation gives it memory of its own; also   *)
(* when a creation fails half way or is preempted by another, and for the   *)
(* default thread, whose entry is not filled in before it is left.          *)
Abstract == INSTANCE ThreadContexts WITH
  Ids <- 0..(Slots - 1), Contexts <- NonSecureThread, NoContext <- NoThread,
  current <- curThread, context <- [i \in 0..(Slots - 1) |-> Owned(i)]

KeepsContexts == Abstract!Spec

=============================================================================
