# TLA+ models of TZmCFI

TZmCFI protects the control flow of firmware on Armv8-M microcontrollers with
TrustZone. A *monitor* written in Zig runs in the Secure state; the application
(bare metal or FreeRTOS) runs in the Non-Secure state and calls the monitor
through gateway functions. This directory holds TLA+ models of the monitor, of
the FreeRTOS kernel and port that run on it, TLC configurations that check them
on small instances, and TLAPS proofs for all instances.

All paths below are relative to the repository's root, except that those of the
FreeRTOS kernel (`tasks.c`, `queue.c`, …) are relative to `examples/freertos`.

## The system

There is one core. Concurrency comes from Non-Secure exceptions, which preempt
Non-Secure code at any instruction, Secure gateway code unless interrupts are
masked, and each other by priority; and from the context switch of FreeRTOS,
which is such an exception.

| component | state | operations | talks to |
| --- | --- | --- | --- |
| **Shadow exception stack** `src/monitor/shadowexcstack.zig`, trampolines `src/nonsecure_vector_ses.S`, `src/nonsecure_vector_unnest.S` | `g_stack` (Frames between `current` and `top`), `g_exception_entry_pc_set`, `FAULTMASK_NS` | `TCInitialize`, `__TCPrivateEnterInterrupt`, `__TCPrivateLeaveInterrupt`, `saveState`, `loadState` | the core (exception entry and return), the Non-Secure stacks it reads, Threads |
| **Shadow stack** `src/monitor/shadowstack.zig` | `g_shadow_stack_top`, the current thread's 16 entries between two MPU guard pages | `__TCPrivateShadowPush`, `ShadowAssertReturn`, `…Fast`, `ShadowAssert`, `saveState`, `loadState` | function prologues and epilogues of thread code and handlers, Threads |
| **Threads** `src/monitor/threads.zig` | `threads[64]`, `next_free_thread`, `cur_thread`, an 8 KiB arena, Secure PSP | `TCReset`, `TCCreateThread`, `TCLockdown`, `TCActivateThread` | both stacks, FreeRTOS port |
| **FreeRTOS port** `portable/GCC/ARM_CM33/non_secure`, `portable/Common/mpu_wrappers.c`, `examples/nonsecure-common/oshooks.zig` | `pxCurrentTCB`, PSP, PSPLIM, CONTROL, task stacks, MPU regions, `ulCriticalNesting`, `xSecureContext` | first task, PendSV, SVC, SysTick, critical sections, the wrappers of all API functions, `SecureContext_*` | kernel, Threads, trampolines, privilege raising |
| **Privilege raising** `src/monitor/nsutils.zig` | CONTROL_NS.nPRIV | `TCRaisePrivilege` | the wrappers; whoever else calls it |
| **FreeRTOS kernel** `tasks.c`, `list.c`, `queue.c`, `event_groups.c`, `stream_buffer.c`, `timers.c` | task states in lists, tick count, notification values; rings; bits; timers in lists | some 70 API functions and their variants for interrupts, the tick, the idle task, the timer task | each other, the port, the memory manager |
| **Memory manager** `portable/MemMang/heap_4.c` and the creating and deleting functions of the kernel | list of free blocks; who owns which block | `pvPortMalloc`, `vPortFree`, `x…Create…`, `v…Delete` | all of the kernel |
| **Gateway checks** `src/drivers/arm_cmse.zig` | SAU/MPU attributions | `checkObject`, `checkSlice`, `checkAddressRange` | every gateway that takes a pointer |
| **Profiler** `src/monitor/profiler.zig` | five counters, a running flag | `markEvent`, `TCDebugStart/Stop/Dump…` | called from all the gateways |
| **Memory protection drivers** `examples/drivers/tz_mpc.zig`, `lpc_protchecker.zig` | per-block attribution bits | `assignRangeTo…` → `updateRange` | Secure boot |
| **Tools** `tools/mkimplib`, `examples/tools/runbench`, `examples/build.zig` | symbol table; retry count, output buffer; build options | one run of a program | each other, through command lines |

What is hard here, per component, and what makes it correct:

* **Shadow exception stack.** An exception can be preempted at the first
  instruction of its trampoline, so that frames appear on the stack that no
  trampoline has reported (an *entry chain*); the core can tail-chain, reusing a
  frame whose entry was just popped; frames differ in size and in the stack
  they lie on; a frame may be changed by a handler at any time. Correct means:
  the recorded frames are those of the active exceptions, in order, as they
  were stacked; a return uses the right `EXC_RETURN`; only a changed frame makes
  the monitor panic; a changed frame is never returned through; `FAULTMASK_NS`
  is always released.
* **Shadow stack.** Push and pop are several instructions long and can be
  preempted by handlers that push and pop on the same stack; overflow must hit a
  guard page. Correct means: every function returns to where it was called from.
* **Threads.** The switch moves four pieces of state; creation allocates four
  blocks and may fail half way; the slot check is outside the masked region.
  Correct means: every thread finds its own stacks again, slots and memory are
  not handed out twice.
* **FreeRTOS port.** The switch of the registers, of the monitor's thread and of
  PSP are apart, and exceptions may come in between; a task may be switched out
  in the middle of raising or resetting its privilege. Correct means: every task
  has a processor of its own, and its application code gains no privilege that it
  does not take itself, by a call of `TCRaisePrivilege`.
* **FreeRTOS kernel.** Most functions are several critical sections, between
  which interrupts and other tasks change what they looked at; the tick count
  wraps; ticks and wake-ups that come while the scheduler is suspended are made up
  for later; waits time out when they have just succeeded. Correct means: the most
  urgent ready task runs; nobody sleeps past its time or beside what it waits
  for; what is sent arrives once and in order; timers fire when due.
* **Memory manager.** A creation can be refused at any of its allocations, objects
  have parts of the heap and of the caller, tasks that delete themselves run on
  the memory to be freed. Correct means: every block belongs to somebody, once.
* **Checks, drivers, tools.** Boundary arithmetic, partial blocks, several
  inputs, retries.

## Modules

| module | models |
| --- | --- |
| `ShadowExcStack` | the shadow exception stack, all four implementations, with the trampolines and an external model of the core's exceptions |
| `EntryPCSet` | the set of the trampolines' addresses: how it is read from the vector table and asked |
| `AddressChecks` | how gateways check the addresses Non-Secure code passes to them |
| `ShadowStack` | the shadow stack, load by load and store by store, with an external model of functions and handlers |
| `ThreadContexts` | abstract: every thread gets back the stacks it left, which are its own |
| `Threads` | slots, arena, creation and its failures, switch, reset; implements `ThreadContexts` |
| `Lists` | `list.c`: rings with an index, sorted insertion |
| `Tasks`, `TaskCalls` | `tasks.c`: the scheduler as operators on a record; its API, tick, idle task and context switch as actions |
| `BoundedQueues` | abstract: what a queue promises |
| `Queues` | `queue.c`: queues, semaphores, mutexes; implements `BoundedQueues` |
| `EventGroups`, `StreamBuffers`, `Timers` | the files of these names |
| `Kernel` | composes all of these, and states their properties |
| `Processors` | abstract: a processor for every task |
| `SystemCalls` | the wrappers of `mpu_wrappers.c`, by what they mean to the port |
| `Port` | the port with the monitor's threads and shadow exception stacks below it; implements `Processors` |
| `Heap` | `heap_4.c` |
| `Objects` | creation and deletion of kernel objects, on top of `Heap` |
| `TzMpc` | the driver of the memory protection controllers |
| `ShadowExcStackProofs`, `ThreadsProofs`, `PortProofs`, `TzMpcProofs` | theorems about the modules of these names |
| `MonitorProofs` | theorems about `ShadowStack`, `EntryPCSet` and `AddressChecks` |
| `ObjectsProofs` | theorems about `Heap` and `Objects` |
| `KernelLemmas`, `KernelProofs` | lemmas about the operators of `Lists`, `Tasks` and `TaskCalls`; theorems about `Kernel` |
| `MCShadowExcStack`, `MCShadowStack`, `MCThreads`, `MCKernel`, `MCPort`, `MCObjects` | the instances for TLC |

### ShadowExcStack

*The core (external).* `act` is the stack of active exceptions, outermost first.
An activation has its priority, its `EXC_RETURN` (`ret`, as a set of bits), the
value of MSP_NS while its handler holds no stack (`sp`), where its frame is, the
three words of the frame the monitor reads (`saved`), and a location: `entry`
(the first instruction of its stage 0 trampoline, still preemptible), `masked`
(after `cpsid f`), `pushing` (in the loop of `pushShadowExcStack`), `app` (its
handler runs), `secure` (the handler has called a Secure function), `leaving`
(after the return trampoline's `cpsid f`). `Preempt` is exception entry: a
pending exception of higher group priority, when FAULTMASK_NS is clear, with
`EXC_RETURN` and frame as the architecture defines them. `TailChain` is an
exception return that goes straight on to a pending exception with the frame
left in place. FAULTMASK_NS masks all Non-Secure exceptions because the Secure
boot code clears AIRCR.BFHFNMINS (`examples/secure/main.zig:36`).
`StrayWrite` is application code changing a word of some stacked frame.

*The monitor.* `ses` is `g_stack` from `current` to `top`; `it` and `buf` are the
locals of `pushShadowExcStack`: the iterator and the frames stored above `top`
but not yet committed. For Safe one iteration of the loop is one action
(`PushKnown`, `PushNext`, `PushLast`), so that liveness is about the loop, too;
the commit includes `reverse`. Naive, Unnested and Null are one action each.
`LeaveInterrupt`, `TailChain` and `LeavePanics` are the three outcomes of
`popShadowExcStack` and the `bx` after it. `impl` is the build option
`SHADOW_EXC_STACK_TYPE`, one of the initial states' choices, so a run covers
all implementations at once.

*Abstractions.* Addresses are integers in units of 8 bytes; the main stack grows
down from 0; the PSP frame and the dummy frame have addresses of their own. A
saved word is one of `entry` (the address of a trampoline), `code`, `zero`,
`stray`, or, for LR, an `EXC_RETURN`. `contains` is membership of `entry`, which
`EntryPCSet` justifies. The
Secure part of an exception taken from Secure code is not represented: neither
the monitor nor Non-Secure code can read it. `getMspNs` equals the top
activation's `sp`, since a handler restores SP before it returns. A thread
switch replaces `g_stack` and PSP together: that is `Threads` and `Port`.
With Unnested and Null the application gives all exceptions the same group
priority (`examples/nonsecure-common/init.zig`, required by `options.zig:27`), so
the only nesting there is comes from priorities that do not preempt: none.

### ShadowStack

*The application (external).* `ctx` is the thread and the handlers nested on it;
each has its own registers. Its functions are instrumented: `Call` is the start of
a prologue, which continues in `__TCPrivateShadowPush`; `Epilogue` reloads LR from
ordinary memory and continues in an assert gateway: one that returns, or
`__TCPrivateShadowAssert`, which continues at R12 in a jump to another function.
`calls` records, for every call in progress, where it has to return to (`home`)
and the saved LR (`saved`), which `StrayWrite` overwrites. A handler begins
between any two instructions (`Interrupt`) and ends when its own calls have
returned (`Resume`).

*The gateways.* Instructions that touch shared memory are actions of their own.
Push: load `g_shadow_stack_top`, store LR, store the pointer. Assert: load the
pointer, load the entry, store the pointer, compare (only with
`ABORTING_SHADOWSTACK`), `bxns`. `__TCPrivateShadowAssertReturn` and its `Fast`
variant differ only in the registers they use and are the same actions. An
access outside 1..`Size` is one to a guard page. `calls` changes with the store of
the pointer, the instruction that makes a push or a pop take effect. `torn` is a
history variable: a handler has come between the two stores of a push.

*Abstractions.* Addresses are indices; one thread (the switch is in `Threads`);
a program that has gone astray is not followed.

### Threads

A thread is three stacks (shadow exception stack, shadow stack, Secure process
stack): the address of each one's memory and how far it is filled. `live` is
what `g_stack`, `g_shadow_stack_top` and PSP_S hold now, `threads` the table.
`TCCreateThread` is two actions, because a handler may come between the test of
`next_free_thread` and `cpsid f` (`CreateCheck`; then `CreateThread`, or
`CreateFails(k)` for each of the four allocations). `ActivateThread` is called
with any identifier, as the last thing of the outermost handler. The arena is a
`FixedBufferAllocator`: it takes no memory back when a creation fails. Handlers push and pop on `live`; thread code fills its stacks to
any `Depth`.

`TCReset` is modelled from the default thread only, as the boot code and the
examples use it. `TCLockdown` only panics ("unimplemented").

### The kernel

*State.* `sched` is a record with one field per static variable of `tasks.c` and
one function per field of the TCBs; every static function of `tasks.c` is an
operator from such records to such records, so that the modules for queues,
groups, buffers and timers can call several of them in one critical section, as
the code does. `stack[t]` holds the calls task `t` has in progress, with the point
each has reached: a function that blocks, or that consists of several critical
sections, is several actions; `queue`, `group`, `stream` and `timer` are the
objects.

*Granularity.* A critical section masks all interrupts the kernel knows: it is one
step. Between two steps come `Interrupt` (any handler the application has: each
calls one `…FromISR` function, and is itself one step, since the model's handlers
do not nest and tasks cannot run in between), `Tick` and `Switch` (PendSV). What
the code does with the scheduler suspended is divided wherever an interrupt could
tell: stream buffers copy outside of any critical section, and so reading a
header, copying and moving a pointer are steps of their own. The message header
is one cell of the ring, as a whole.

*Applications.* What tasks call is not part of the kernel. A *scenario* gives
every task and the interrupts a menu of calls, of which they make any, at any
time, again and again: MCKernel defines twenty. `Legal…Call` is what the API asks
of its callers: a mutex is given by its holder and not taken twice, objects are
used between creation and deletion, a stream buffer has one reader and one
writer and is not reset while in use.

*History variables.* `entry[t].due` and `timer.of[t].due` count down to the moment a
call or timer should end; `content` is what has been written to a buffer and not
read. The code does not look at them, the properties compare the code's state
with them.

*Abstractions.* Event bits and notification values are small sets and numbers
(`% 2^ValueBits`); what is sent is a model value; callbacks of timers and of pended
calls are one call of the API or nothing; trace macros, statistics, run-time
counters and the debugging queries are left out; recursive mutexes, queue sets,
co-routines and the queue registry are configured out.

### Port

A register's content is the task and the place in its code it belongs to; a stack
holds cells: exception frames, callee-saved registers, saved contexts, locals of
a wrapper. PendSV_Handler is the steps between which its code can be interrupted
or calls something: save the context (`SaveContext`), `vTaskSwitchContext`
(`SelectNextTask`: any task, here), restore with the MPU registers
(`RestoreContext`), `TCActivateThread` (`ActivateThread`), and the end. Every
exception's frame is recorded on the current monitor thread's shadow exception
stack, and every return compares and removes it; `fault` is set when that return
is refused, or is made with the `EXC_RETURN` recorded for another exception. The
scan for entry chains is left to `ShadowExcStack`. A system call is a step of
`SystemCalls`' effects; the wrapper asks whether it is privileged, raises the
privilege (by an SVC or by the monitor, both builds), runs the function,
with its context switches and critical sections, and resets it.

*Secure functions.* Tasks and handlers call them, and both can be interrupted in
them (`SecureCode`, `SecureMoments`): handlers of interrupts and SysTick any that
changes nothing here, PendSV_Handler `TCActivateThread`, which masks interrupts
while it switches (`threads.zig:108-109`) but not before and after
(`HandlerGateway`). A frame in a Secure stack is represented by one dummy frame
(`shadowexcstack.zig:172`), so that the monitor takes it for the one recorded last
if that was in a Secure stack, too, and pushes nothing (line 325, `Recorded`). This
happens when a task is interrupted in a Secure function by a handler that is
interrupted in one itself; and also with just one handler in Secure code: an
interrupt comes at the end of `TCActivateThread` after the mask is cleared, and the task
switched to was itself interrupted in a Secure function when it was switched out. The
interrupt is then left with the task's `EXC_RETURN`, with PendSV still active.
The run `port` reaches both cases, and `NoFalseAlarm` names them as the only ones in
which a return goes wrong; what the processor does after one is not followed
(`Stopped`).

*Who may call `TCRaisePrivilege`.* It clears `nPRIV` and returns to whoever called it
(`nsutils.zig:5-22`). `Gateway.h:123-124` leaves it to control-flow integrity to keep
application code from it, which cannot be seen in the port. `Callers` are the tasks
whose application code does call it; it is any set of tasks in the proofs, and `{idle}`
in the run, where `idle` drops its privilege and raises it again. `Confinement` is
about the others, and `Processors` says that this call is the only way in which
application code gains privilege, for itself and nobody else.

Assumed: interrupts that use the kernel are enabled when the first task runs
(`portasm.c:166` unmasks them); SVC has the highest priority; tail-chaining is a
return and an entry; critical sections are balanced, and the API is not called
inside those of the application. A task is never deleted here:
`portCLEAN_UP_TCB` is empty and the monitor's threads of deleted tasks are never
freed, so nothing of the port's state changes. `xTaskCreateRestrictedStatic`,
`pvPortMalloc` and `vPortFree` have wrappers in `mpu_wrappers.c` although
`mpu_wrappers.h` does not redirect calls to them; they are listed in `SystemCalls`.

### Heap and Objects

`block` maps the address of every block, free or not, to its size and state; the
list of free blocks, which the code keeps sorted, is the set of free entries. A
block is `used`, `free`, or `leaving`: `vPortFree` has cleared its allocated bit
but not yet suspended the scheduler to insert it (`BeginFree`, `Free`). Sizes
are added and rounded with the wrap of a `size_t`.

`Objects` runs creations and deletions by several tasks on that heap: a creation
allocates its parts one by one, notes where they come from, and on a refusal gives
back what it has (`CreateFails`); a deletion frees what the note says; a task that
deletes itself waits in `terminating` for the idle task. Timers are deleted by the
timer task. What objects do in between is `Kernel`'s. Objects are deleted once and
by their owner, and no task is deleted in the middle of creating or deleting.

### EntryPCSet, AddressChecks and TzMpc

These are about data rather than interleavings, and mostly proved. `EntryPCSet`
has `setFromVtor` (`LaidOutAsExpected` is what it checks, else it panics) and
`contains`, whose rotation of a wrapped difference tests bounds and alignment at once.
`AddressChecks` has `checkAddressRange`, `checkObject` and `checkSlice` over an
external map `TT` of what the core says of each address. `TzMpc` is `updateRange`, one
step per access to the look-up table: a word is the set of its bits, `call` the
arguments in blocks, `before` a history variable. The control bit `autoincrement`
may be set at reset; each access then moves the index, so the steps depend on
`updateRange` clearing it.

## Runs

| run | shows |
| --- | --- |
| `ses_safety` | All four implementations, three priorities, both frame sizes, both stacks. Safe: `AllFramesProtected`. Naive: `EnteredFramesProtected`, which is exactly what it leaves out. All: `GenuineReturn`, `WithinLimit`, and `Drained`: once no more interrupts are raised, all handlers complete, the stack empties, FAULTMASK_NS is released. |
| `ses_stray` | Handlers that overwrite `pc`, `lr` or `r12` of any stacked frame at any time: `ReturnsIntact` (Safe and Unnested never return through a changed frame; Safe does not resume a preempted trampoline whose frame has changed) and `NoFalseAlarm` (a panic implies a changed frame). Null checks nothing and Naive does not look at the second frame, so `ReturnsIntact` is about the other two. |
| `ses_secure` | A violation, see below. |
| `ss_safety` | A thread and two levels of handlers, two entries, two return addresses, both values of `ABORTING_SHADOWSTACK`, stray writes, exceptions at every instruction. `Mirror`: the pointer counts the calls in progress and the entries are their return addresses; `ReturnsHome`: every function returns to its caller; `NoFalseAlarm`: a mismatch is reported only for an overwritten return address; all but the count with the exception of `torn`. |
| `ss_race` | A violation of `AlwaysHome` by an exception between the two stores of a push, see below. |
| `threads` | Creation that fits, fails half way or is preempted by another creation, activation of any identifier, reset: `NeverPastSlots` (several contexts can be past the test for a free slot at once; the arena runs out first), `FrameFound`, and `KeepsContexts`: `Threads` implements `ThreadContexts`. |
| `kernel` | Twenty applications, nine of tasks, queues, semaphores, mutexes, notifications, suspension, creation and deletion and eleven of event groups, stream and message buffers and timers. Of the tasks: `OneStateList`, `RunsHighest`, `SleepsInTime`, `NotTooEarly`, `NoLostWakeup`, `Inheritance`, and `QueueOrder`: the rings implement `BoundedQueues`. Of the services: `NoForgottenWaiter`, `BarrierKept`, `StreamIntact`, `NoForgottenPeer`, `TimersInTime`, `TimerTaskWakes`, `TimersRearmed`. |
| `kernel_mutexes`, `kernel_peek`, `tz_mpc` | Violations, see below. |
| `port` | A privileged task and an unprivileged one that the first creates, with interrupts between any two steps: `OwnContext`, `Confinement`, `NoFalseAlarm`, and `KeepsProcessors`: `Port` implements `Processors`. The first also calls `TCRaisePrivilege` from its application code. |
| `objects` | A task of the application and the timer task create and delete objects of all kinds, the idle task cleans up, on a heap of 24 bytes: `NoLeak`, and of the heap `Tiled`, `Merged`, `Accounted`, `LargeEnough`. |

Every action and every disjunct of the passing runs' next-state relations is
taken. Deadlock is checked in all runs.

### What was found

* `ses_secure`. `NestedSecure = FALSE` in the passing runs: at most one active
  exception has preempted Secure code. The code makes a related assumption in a
  comment (`shadowexcstack.zig:158`), but only for entry chains. Without the bound
  `GenuineReturn` is violated: an exception that preempted a Secure function calls
  a Secure function itself and is preempted there; both frames have the address of
  `dummy_exc_frame`, `pushShadowExcStack` takes the second for the first and
  pushes nothing, and the inner exception is left with the outer one's
  `EXC_RETURN`.
* `ss_race`. A push is not safe against exceptions between its two stores
  (`shadowstack.zig:128-129`): a handler that calls a function there pushes to the
  same slot, and the interrupted push then advances over the handler's entry. In
  the default build the function later returns to the handler's return address; in
  the aborting build it panics without cause. The opposite order of the stores, or
  masked interrupts, would not have this window.
* `tz_mpc`. `filterMasks` (`examples/drivers/tz_mpc.zig:124`) clears, instead of keeping,
  the bits outside of its filter: assigning a range that begins or ends inside a word
  of the look-up table makes the other blocks of that word Secure. The boot code's
  ranges are whole words for blocks of up to 64 KiB, where the driver is exact
  (theorem `ExactForWholeWords`).
* `kernel_peek`. A reader that only looks at the length of the next message moves
  the tail over it and back; an interrupt that sends in between takes the place
  for free and writes over the length (`stream_buffer.c:838`), although one reader
  and one writer may be a task and an interrupt (`include/message_buffer.h:42`).
* `kernel_mutexes`. A task that holds two mutexes and has inherited its priority through
  the first gives that one back first and keeps the priority. It loses it with the
  second one; if a less urgent task waits for that, `xQueueGenericSend` looks at this
  task only and not at what `xTaskPriorityDisinherit` asks for (`queue.c:844`, `857`), and
  the giver keeps the processor from a ready task that is more urgent. The comment at
  `tasks.c:4078` says that a switch should occur in just this case, "whether a task is
  waiting on it or not".
The last two are code of the FreeRTOS distribution that the repository carries. There
the model also shows, without a run of its own:

* `vTaskPrioritySet` of a holder with an inherited priority changes its base priority
  only (`tasks.c:1620`). If that is above the inherited one, the holder becomes more
  urgent at the moment the waiting task gives up (`tasks.c:4136`), and nobody looks
  whether it should run; `include/task.h:2359` describes a priority that only goes down.
* `vTaskPrioritySet` of a waiting task leaves it at its place in the list of waiting
  tasks (`tasks.c:1638`), so that the next event may wake a less urgent one;
  `tasks.c:3099` relies on the order of the list.
* A start command that the timer task carries out after the timer's time is over runs a
  one-shot timer's callback at once and leaves the timer marked active (`timers.c:774`),
  against `include/timers.h:414`.

### Bounds, and why they are enough

* *ShadowExcStack.* Priorities are what matters: with three, an entry chain of
  three and a known prefix below a new suffix occur. Two frame sizes make
  unwinding non-trivial; `Locals` lets handlers and threads hold stack when
  preempted. The proofs drop all of these bounds.
* *ShadowStack.* `MaxNest = 3` contexts and `Size = 2` entries: nested handlers, a
  push that overflows, a tail call above another entry. `ss_race` needs one thread
  call, one handler, and one call of its own.
* *Threads.* `Slots = 4` and an arena that holds two threads beside the default
  one: creation can succeed, fail at its last allocation, and then at its first;
  three contexts can be inside `TCCreateThread` at once. `Slots` and `ArenaSize`
  keep the code's relation (the arena holds fewer threads than there are slots,
  `ArenaAssumption`), so that the slots never run out.
* *Kernel.* `TickMax` 3 makes sleeps of any length cross a wrap of the tick
  count; 3 priorities and 2 or 3 tasks give a waiter more urgent, equally urgent
  and less urgent than the holder of a mutex. `MaxPended` bounds the ticks that come
  while the scheduler is suspended, `MaxLate` the ticks a ready task waits for the
  processor after its time is over; both bound the environment, and without them
  a small tick count would wrap unnoticed, as the 32-bit one does after 49 days.
  `MaxLock` bounds what interrupts do to a queue while it is locked (the code's limit
  is 127).
* *Port.* `MaxNest = 2` exceptions: one on top of PendSV, SysTick or another interrupt,
  in Secure code of theirs or not. Every pair of consecutive steps of the two tasks
  and the handler can be separated by one. A third would only nest on one that
  is recorded or on one that is not, which the proof covers for any number.
* *Objects.* Two blocks of most kinds fit and three do not, so that allocations
  fail at each place, first fit passes over free blocks that are too small, blocks
  are split and merged on either side, and one request wraps the sum of its size
  and the header. `MaxLeaving = 3` tasks inside `vPortFree` are all there are;
  `MaxTerminating = 1` task awaits its end.

### Fairness

Only `ses_safety` has a liveness property. The core executes what can run: weak
fairness on trampolines, monitor and Secure functions, and on taking a pending
exception. `ReturnTrampoline` is strongly fair: a handler that is preempted or
calls a Secure function again and again still gets to its end (the application's
obligation). No fairness is assumed of `Raise`, and `Drained` is conditional on it
stopping. That nobody is forgotten in the kernel is stated as safety
(`RunsHighest`, `NoLostWakeup`, `NoForgottenWaiter`, `NoForgottenPeer`,
`SleepsInTime`, `TimerTaskWakes`): whoever waits is in a list somebody will look at,
and wakes by the tick at which its time is over. An application whose most urgent
task never waits starves the others, which the kernel promises.

## Proofs

Every theorem is checked by TLAPS for all values of the constants, under the
assumptions named in the modules.

| module | theorem | says |
| --- | --- | --- |
| `ShadowExcStackProofs` | `TypeCorrect`, `Invariant` | every variable keeps its type, and the inductive invariant holds, in all four implementations |
| | `Protection`, `NaiveProtection` | Safe: the frames of all active exceptions are on the stack; Naive: those of the exceptions that have entered |
| | `GenuineReturnTheorem`, `NoFalseAlarmTheorem` | whichever implementation is built, exceptions are left with their own `EXC_RETURN`, and a panic implies a changed frame |
| | `ReturnsIntactTheorem` | Safe and Unnested: only unchanged frames are unstacked |
| | `WithinLimitTheorem` | whichever implementation is built, the stack stays within its storage |
| `MonitorProofs` | `PointerInBounds`, `StackMirrorsCalls`, `FunctionsReturnHome`, `MismatchIsReal` | the four properties of `ss_safety`, for any number of entries and any depth of handlers |
| | `ContainsTheTrampolines` | the set contains exactly the first instructions of the trampolines |
| | `EndsSuffice`, `ElementsAllowed`, `TableReadable` | the address checks accept exactly the ranges that may be accessed; so does `setFromVtor` |
| | `SliceTooLong` | the slice that `checkSlice` returns is longer than what it has checked (`arm_cmse.zig:133`) |
| `ThreadsProofs` | `ThreadsTyped` | every variable keeps its type |
| | `SlotsSuffice`, `FramesFound` | the arena runs out before the slots; every exception frame is found on its thread's stack |
| | `ThreadsKeepContexts` | `Threads` implements `ThreadContexts` |
| `ObjectsProofs` | `TiledTheorem`, `MergedTheorem` | blocks neither overlap nor get lost, and no two neighbours are both free |
| | `AccountedTheorem`, `LargeEnoughTheorem` | the count of free bytes is right; every block has the size asked for, for any sizes that a `size_t` holds |
| | `ObjectsUseHeap`, `ObjectsTiled` | creation and deletion of objects takes only steps of `Heap`; hence the same |
| | `ObjectsInvariant`, `NoLeakTheorem` | the notes are true of the blocks; every allocated block belongs to exactly one object or call |
| `PortProofs` | `PortInvariant` | the inductive invariant of the port, for any number of tasks, of nested interrupts and of critical sections |
| | `OwnContextTheorem`, `ConfinementTheorem`, `NoFalseAlarmTheorem` | a task runs with its own context and within its regions, and no return goes wrong but the one named (see Port above) |
| | `KeepsProcessorsTheorem` | `Port` implements `Processors`, whichever tasks call `TCRaisePrivilege` themselves |
| `KernelProofs` | `Invariance` | the inductive invariant of the kernel and its services, for any number of tasks, priorities and objects and any applications |
| | `OneList` | every task is in exactly one list of task states, a ready one in that of its priority, and waits for at most one event |
| | `GroupWaiters` | nobody is left waiting for bits of an event group that are there |
| | `BoundedQueuesKept` | `Queues` implements `BoundedQueues`: items leave in the order they came, none lost, doubled or made up |
| | `MostUrgentRuns` | in applications without mutexes no ready task is more urgent than the one that runs, unless a switch is due or the scheduler suspended |
| `TzMpcProofs` | `WholeRange`, `NothingExposed`, `ExactForWholeWords` | `updateRange` assigns its whole range, makes nothing else Non-Secure, and is exact for whole words |

*ShadowExcStack.* That all frames are recorded whenever a handler can run is not
inductive: between the entry of an exception and its push they are not. The invariant
describes these states, too. `MachineInv` is about what the core does to the stacks,
whichever implementation is built: `EXC_RETURN` tells what was interrupted and where its
frame is (`Nesting`), FAULTMASK_NS is set exactly in the masked steps (`Masking`),
Unnested and Null never have two exceptions (`Alone`), frames on the main stack lie one
below the other, adjacent in an entry chain (`StackOrder`, `ChainSpacing`: hence the
iterator's step finds each next frame). `MonitorInv` is about what each
implementation records. Safe: a prefix of the active exceptions, and those not recorded
have neither run nor been changed (`Recorded`); the iterator and the buffer of a
scan agree with the chain (`Scanning`). Naive: there is an increasing map from the
records to the exceptions that have been through the entry handler (`NaiveRecorded`).
Unnested and Null: the one exception there can be. At most one activation has preempted
Secure code (`OneSecure`): all but `TypeCorrect` assume `NestedSecure = FALSE`, and
`ses_secure` shows what happens otherwise. `NaiveProtection` assumes in addition that no
stray write changes a frame (`StrayFields = {}`): Naive records a frame only when its
handler enters, as changed as it is by then. That there is a Frame for every priority is
`PrioAssumption`.

*ShadowStack.* Preempted contexts hold copies of the pointer in their registers. The
invariant says of every one of them that its copy is right for the number of calls
there were when it was preempted (`Agrees`), which is the `base` of the context above
it (`Bases`): handlers leave as many calls as they found, so the copy is right again
when the context resumes. `Homes` says the same of return addresses. It holds until
a handler comes between the two stores of a push, when the entry just written is
no longer protected; the count survives this, since the pushing context writes back
its copy plus one in any case.

*Threads.* The stacks of created threads lie one behind the other in the arena, in the
order of creation (`Placed`). Every thread has taken its share of the arena, which
holds fewer threads than there are slots (`Counted`), so that the allocation fails
before a slot past the table is written, however many contexts have passed the test.
The current thread's exception stack has an entry for every active handler, any other
thread's has one (`Recorded`). With these, every step of `Threads` is one of
`ThreadContexts`, or none.

*Heap.* That blocks tile the heap (every block ends where another begins, or at the end
of the heap) is inductive: splitting a block, merging with either neighbour or both, and
changing a state keep it. So is, with it, that no two neighbours are free
(`NeighboursMerged`): what `prvInsertBlockIntoFreeList` inserts was not free and is merged
on both sides, and what a split leaves over lies between a used block and one that is
not free. The count of free bytes is the cardinality of `FreeSpace`, the set of
bytes in free blocks, which each operation changes by the bytes of one block; headers
move between free blocks without a change. `LargeEnough` needs the wrap of the sums: a
request whose sum with header and padding wraps is refused (`AskedFor`).

*Objects.* `Objects` only ever takes steps of `Heap`, since what a creation still has to
allocate has the size of a part of some object (`PartsKnown`). That nothing leaks
is not inductive by itself: a deletion frees what the note says, so the note has to be true
of the blocks an object holds, during its creation, in its handle and in the
list of tasks that await their end (`NoteTrue` in `ObjectsKnown` and `CallsKnown`). Then
`Owned` is kept: every block that is not free is held by exactly one of these.

*Port.* At any moment the context of at most one task is in the registers (`Live`: up
to the save in PendSV_Handler), and the others' are on their stacks. `StowedAt` says of
each of those what its stack looks like from top to bottom, and that the first entry of its
thread's shadow exception stack is where it was interrupted; `Running` says the same of
the registers and the stack of the live one, with or without an exception on top;
`Switching` says which of the registers already belong to the next task after each
step of PendSV_Handler. Every thread is one task's (`Distinct`), and the entries
of all active handlers are on the current thread's shadow exception stack (`Tracked`),
which changes in the middle of PendSV_Handler: no other handler is active then, since
only interrupts nest and they have returned (`Nested`). With this no return is refused,
and `OwnContext` and `Confinement` are read off.

So it is until an interrupt is not recorded. From then on the invariant is another one
(`Missed`): the exceptions on top of that interrupt are recorded one by one (`Matches`),
so they return properly, the handlers below do not run, and no task does, until the interrupt itself
is left, which the recorded entry cannot fit: it is that of a task, or of a handler
further out. Hence `IInv` is `Inv \/ Missed`, a state of `Missed` never leads back to `Inv`, and
`NoFalseAlarm` follows from `Matches` when `fault` is set. What tasks see does not change
in it (`Hidden`), which is why the refinement is kept to the end.

`Confinement` assumes that what a task may be given is neither another
task's stack nor the kernel's memory (`RegionsAssumption`): `vTaskAllocateMPURegions`
takes any address, and which it is given is the application's responsibility.
For the refinement, every task has a place and a privilege that can be told from the
invariant alone (`Code`, `Trusts`), wherever they are kept; each action leaves them
all as they are (`Idle`), moves the running task (`TaskStep`), creates one (`Creates`), or
selects another (`AllSame` with interrupts enabled); lemmas `OnePlace` and `Trusted` show
that the sets of frames on all stacks that the abstract variables are defined by
come to the same.

*The kernel.* Assumed are what the configuration says (`TasksAssumption`,
`QueuesAssumption`, `TimersAssumption`, `StreamsAssumption`: a queue has a length, a mutex
that of 1, the lists of different objects are different lists) and that the
applications call functions that exist on objects of the right kind and send
items (`ScenariosAssumption`). Nothing bounds the tasks, the priorities, the objects or the
calls. `KernelLemmas` says of every operator of `Lists`, `Tasks` and `TaskCalls` what it does to
which list, `KernelProofs` goes through the actions.

That every task is in one list is not inductive: it depends on who calls what.
`SchedOK` says of the record that every list is a list without repetition, every ring's
index is inside of it, and each task is `Placed`: in the ready ring of its current
priority or in one of the lists for those that sleep, and in an event list only while
it sleeps and is not already in the list `xPendingReadyList`. The idle task is always
ready, which is why `vTaskSwitchContext` always finds somebody. What a function
relies on later is said of the call (`StackOK`: which call can be nested in which,
`Stage`: what it has found out so far) and relates calls and lists (`Modes`): the scheduler
is suspended by at most one task, the current one (`Holds`), a task marked as waiting for a
notification is in the call that waits for one (`Awaits`), and the value of its
event list item is a priority unless it waits for bits (`Grouped`), so that sorted
insertion never compares bits with priorities. `RunOK` says of the current task that it
is ready, or has just put itself to sleep and is about to yield (`Dozes`), or
PendSV is pending: an interrupt that makes it ready again in between must not list it
twice. `QueuesOK` has the arithmetic of the rings (`write` is `read + 1 + count`
modulo the length, as there is no other record of how full the ring is), and that a mutex
without holder is one that can be taken and nothing else has a holder; `InheritOK` that a task which is about to
hand its priority on looks at a mutex that is taken. `GroupsOK` and `NoSatisfied` are about event
groups: between the critical sections of `xEventGroupSetBits` the waiters that it has still to look at
are told from those it has woken.

For the refinement, each action of the kernel leaves all rings as they are, or
moves one of them by one step of `BoundedQueues` (`InOrder`, from what each operation of
`queue.c` does to the ring, `RingMoves`). Overwriting needs a queue of one item, sending to the
front writes behind the index that reads: both are
facts about a remainder, for any length.

That the most urgent task runs (`MostUrgentRuns`) needs more than where the tasks are. A task is
more urgent than the current one for a while each time one is woken, and the duty to
switch is kept in two places, the pending PendSV and `xYieldPending`. `Good` says that
`uxTopReadyPriority` is no less than the priority of any ready task (`Topped`) and that
a switch is owed (`Owes`) or the current task is as urgent as all that are ready (`Urgent`);
`Steady` that `xYieldPending` alone is not relied on unless the scheduler is suspended,
when `xTaskResumeAll` will look at it. Every operation keeps both (`Serves`), whatever
the caller does next, with two exceptions: `xTaskCreate` lists the new task before it
compares priorities (`Newborn`), and what `queue.c` does to the priority of a holder.
`xTaskResumeAll` and the tick wake several tasks in a loop: the lemmas `WakeFold`,
`PendedTaskFold` and `PendedTickFold` give each loop its intermediate records, so that the
invariant is kept from one to the next. A task that
lowers its own priority, and one whose priority falls when it gives a mutex back, must
yield as well: the first always does (`SetPriorityServes`), the second not if it held two mutexes
(`kernel_mutexes`), hence the assumption that no queue is a mutex.

The proof changed the model in four places, where it could not be done and the code
was right. `Create` now returns when the task it is to create still exists or waits
for the idle task, which `create` of the scenarios had promised by their choice of
calls. `IdleCleanUp` forgets the calls that a deleted task had in progress, with its
stack. `Wake` of event groups takes the set of tasks to be woken, in the order of the list.
And the content of an empty place of a queue is a value (`NoItem`), not a constant.

*TzMpc.* The words from the first of the range to the local variable `group` are done and
the others untouched (`DoneUpTo`), the index register shows word `group` and does not
move by itself. What a word becomes is the part of the range in it: what it held
before is lost, which is the finding, and harmless if the range covers the word.

*EntryPCSet.* Arithmetic: rotation puts the remainder by the stride on top, so that
the result is below the number of trampolines only if the remainder is 0. The trampolines
may wrap around the end of memory. `Attribution` assumes of the core that an address
between two others with the same attributes, which allow an access, has these
attributes as well: they name regions, and regions are ranges.

### What is only model-checked

* Liveness (`Drained`): fairness and ENABLED are beyond the prover.
* `RunsHighest` of applications with mutexes. It is false of those that give back several
  mutexes in another order than they took them (`kernel_mutexes`), or that set the priority of
  a task which holds one.
* `NoLostWakeup`, `Inheritance`, `BarrierKept`, `NoForgottenPeer`: each is
  about applications that keep certain rules (no task is deleted in the middle of its
  call, all that synchronise use the same bits, ...), which the menus of the
  scenarios imply and no assumption states.
* `StreamIntact` is violated if a reader peeks (`kernel_peek`).
* `SleepsInTime`, `TimersInTime`, `TimersRearmed`, `TimerTaskWakes`, `NotTooEarly`:
  these need, in addition to the invariant proved, that the delayed lists are sorted by the time of
  waking across a wrap of the tick count, and the bounds of the environment.
* `Kernel`'s `TypeOK`: what the proofs need of it is in `Invariance`.

## Not modelled

* **Profiler** (`profiler.zig`): counters for measurements, off by default, which
  nothing reads but the dump; its dump takes the column's width minus the number's
  length and so expects counts below a million.
* **`lpc_protchecker.zig`**: its only calls are commented out, and its `updateRange`
  would not compile when called.
* **Tools** (`mkimplib`, `runbench`, `build.zig`): programs of the host, sequential, and
  mostly calls of other programs.
* **Secure boot, peripheral drivers, vector tables**: straight-line register access.
* **Example applications and CoreMark**: users of the monitor and the kernel. What they
  may do is in the models as external actions and scenarios.
* **Floating point registers, tickless idle**: the port saves the former lazily with the
  core's help, and does not define the latter.
* **Recursive mutexes, queue sets, the queue registry, co-routines, statistics and
  trace** of the kernel: configured out, or without influence on anything else.
* `TCReset` from a created thread: no code of the repository calls it.

## Plan: what is left

1. Of the kernel: that the delayed lists are sorted, and with that `SleepsInTime`
   and `TimersInTime`.
2. `TCReset` from any thread, with the shadow exception stack that stays the caller's.
3. The symbol collection of `mkimplib` and the retries of `runbench`, as pure functions.
