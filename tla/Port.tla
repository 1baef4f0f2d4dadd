-------------------------------- MODULE Port --------------------------------
(***************************************************************************)
(* The port of FreeRTOS to the ARMv8-M processor with TZmCFI               *)
(* (examples/freertos/portable/GCC/ARM_CM33/non_secure): the first task,   *)
(* the context switch in PendSV_Handler, SVC, SysTick, critical sections,  *)
(* the raising and resetting of privilege around a system call, the MPU    *)
(* settings of a task, and what all that asks of the monitor: a thread per *)
(* task, and a shadow exception stack per thread.                          *)
(*                                                                         *)
(* A register's content is the task and the place in its code it belongs   *)
(* to.  A stack holds cells: exception frames, callee-saved registers,     *)
(* saved contexts and the locals of a system call's wrapper.  Which task   *)
(* runs next is the scheduler's choice (module Tasks); here it is any.     *)
(***************************************************************************)
EXTENDS Integers, Sequences, FiniteSets, SequencesExt, SystemCalls

CONSTANTS
  Tasks,
  AtStart,      \* the tasks created before the scheduler starts, in that order
  Privileged,   \* those created with portPRIVILEGE_BIT
  Callers,      \* those whose application code calls TCRaisePrivilege itself
  Buffers,      \* what the configurable MPU regions of a task may cover
  MaxNest,      \* how many exceptions are active at most
  MaxNesting,   \* how deeply critical sections nest at most
  NoTask

ASSUME TasksAssumption ==
  /\ IsFiniteSet(Tasks) /\ NoTask \notin Tasks
  /\ Privileged \cup Callers \subseteq Tasks
  /\ AtStart \in Seq(Tasks) /\ AtStart # << >>
  /\ \A i, j \in DOMAIN AtStart : AtStart[i] = AtStart[j] => i = j
ASSUME BoundsAssumption == {MaxNest, MaxNesting} \subseteq Nat \ {0}

VARIABLES
  cpu,      \* the Non-Secure registers
  exc,      \* the active exceptions, the innermost last
  mem,      \* task -> its Non-Secure stack
  os,       \* the kernel's variables: pxCurrentTCB, per task pxTopOfStack and
            \* xMPUSettings, xSecureContext, ulCriticalNesting
  monitor,  \* the Secure side: current thread, number of threads, per thread the
            \* shadow exception stack and the Secure stack
  fault     \* whether a return from an exception was refused, or made with what
            \* was recorded for another one

vars == <<cpu, exc, mem, os, monitor, fault>>

Threads == 0..Cardinality(Tasks)

Created == {t \in Tasks : os.top[t].len > 0}

----------------------------------------------------------------------------
(* Cells of a stack. *)

FrameCell(pc) == [kind |-> "frame", pc |-> pc]
RegistersCell(regs) == [kind |-> "registers", regs |-> regs]
ContextCell(secureContext, psplim, npriv, ret) ==
  [kind |-> "context", secureContext |-> secureContext, psplim |-> psplim,
   npriv |-> npriv, ret |-> ret]
CallCell(effect, was) == [kind |-> "call", effect |-> effect, was |-> was]

At(t, location) == [of |-> t, at |-> location]
Nowhere == At(NoTask, "none")
Pointer(t, len) == [of |-> t, len |-> len]

(* The cells below a stack pointer, with more pushed.                       *)
Push(stack, pointer, cells) == SubSeq(stack[pointer.of], 1, pointer.len) \o cells

(* Where Secure code runs on behalf of a task, and of a handler.            *)
SecureCode == {"gateway", "raising", "elevating"}
SecureMoments == {"gateway", "activating", "activated"}

----------------------------------------------------------------------------
(* vPortStoreTaskMPUSettings and the memory map. *)

MPUSettings(old, regions, bottom, depth) ==
  [stack |-> IF depth > 0 THEN bottom ELSE old.stack, regions |-> regions]

NoSettings == [stack |-> NoTask, regions |-> {}]

(* The regions prvSetupMPU programs once and for all.                       *)
CommonRegions == {"unprivileged_flash", "devices"}
PrivilegedRegions == {"privileged_flash", "privileged_ram"}

(* What a task may be given are its stack and memory of the application.    *)
ASSUME RegionsAssumption ==
  /\ Tasks \cap (Buffers \cup CommonRegions \cup PrivilegedRegions) = {}
  /\ Buffers \cap PrivilegedRegions = {}

(* What thread code reaches: the background region is for privileged code.  *)
Reachable ==
  CommonRegions \cup cpu.mpu.regions \cup {cpu.mpu.stack}
    \cup IF cpu.npriv THEN {} ELSE PrivilegedRegions \cup Tasks \cup Buffers

----------------------------------------------------------------------------
(* The creation of a task, as far as the port is concerned. *)

(* The frame SecureContext_AllocateContext hands to TCCreateThread, and     *)
(* what pxPortInitialiseStack lays out.                                     *)
FirstEntry(t) == [ret |-> "thread", pc |-> At(t, "fresh"), sp |-> Pointer(t, 1)]

(* portPRIVILEGE_BIT in the priority asked for.                             *)
RunPrivileged(t) == t \in Privileged

InitialStack(t, id) ==
  <<FrameCell(At(t, "fresh")), RegistersCell(Nowhere),
    ContextCell(id, t, ~RunPrivileged(t), "thread")>>

(* Mutant: a task is given the thread that was created last.                *)
AllocateLast(m, t) == m.next - 1

(* TCCreateThread numbers the threads as they come.                         *)
AllocateContext(m, t) == m.next

NewThread(m, t) ==
  [m EXCEPT !.next = @ + 1, !.ses[AllocateContext(m, t)] = <<FirstEntry(t)>>]

InitialTCB(kernel, t, regions) ==
  [kernel EXCEPT !.top[t] = Pointer(t, 3),
                 !.settings[t] = MPUSettings(NoSettings, regions, t, 1)]

----------------------------------------------------------------------------
(* main creates tasks and calls vTaskStartScheduler, which masks interrupts *)
(* and selects the first one.                                               *)

IdOf(t) == CHOOSE i \in DOMAIN AtStart : AtStart[i] = t

Init ==
  /\ cpu = [pc |-> At(NoTask, "main"), regs |-> Nowhere, psp |-> Pointer(NoTask, 0),
            psplim |-> NoTask, npriv |-> FALSE, primask |-> TRUE, pendsv |-> FALSE,
            mpu |-> NoSettings]
  /\ exc = << >>
  /\ mem = [t \in Tasks |-> IF t \in ToSet(AtStart) THEN InitialStack(t, IdOf(t)) ELSE << >>]
  /\ \E first \in ToSet(AtStart) :
       os = [current |-> first, nesting |-> 0, secureContext |-> 0,
             top |-> [t \in Tasks |-> Pointer(t, Len(mem[t]))],
             settings |-> [t \in Tasks |-> IF t \in ToSet(AtStart)
                                           THEN MPUSettings(NoSettings, {}, t, 1)
                                           ELSE NoSettings]]
  /\ monitor = [cur |-> 0, next |-> Len(AtStart) + 1,
                ses |-> [i \in Threads |-> IF i \in DOMAIN AtStart
                                           THEN <<FirstEntry(AtStart[i])>> ELSE << >>],
                sec |-> [i \in Threads |-> << >>]]
  /\ fault = FALSE

----------------------------------------------------------------------------
(* Exceptions.  The entry records the frame on the shadow exception stack   *)
(* of the current thread, the return compares and removes it (module        *)
(* ShadowExcStack).                                                         *)

(* The EXC_RETURN an exception gets now, by its bits MODE and S.            *)
ReturnKind ==
  IF exc # << >>
  THEN IF Last(exc).at \in SecureMoments THEN "secure_handler" ELSE "handler"
  ELSE IF cpu.pc.at \in SecureCode THEN "secure" ELSE "thread"

SecureDepth == Len(monitor.sec[monitor.cur])

Entry ==
  CASE ReturnKind \in {"handler", "secure_handler"} ->
         [ret |-> ReturnKind, pc |-> At(NoTask, Last(exc).kind), sp |-> Pointer(NoTask, Len(exc))]
    [] ReturnKind = "secure" ->
         [ret |-> "secure", pc |-> cpu.pc, sp |-> Pointer(NoTask, SecureDepth + 1)]
    [] OTHER ->
         [ret |-> "thread", pc |-> cpu.pc, sp |-> Pointer(cpu.psp.of, cpu.psp.len + 1)]

(* The dummy frame stands for every frame in a Secure stack, so that        *)
(* pushShadowExcStack takes such a frame for the one recorded last if that  *)
(* was in a Secure stack, too, and pushes nothing.                          *)
IsDummy(ret) == ret \in {"secure", "secure_handler"}

Recorded(entries) ==
  IF entries # << >> /\ IsDummy(Last(entries).ret) /\ IsDummy(ReturnKind)
  THEN entries ELSE Append(entries, Entry)

(* The processor saves more when it leaves Secure code, and clears it.      *)
Enter(kind) ==
  /\ exc' = Append(exc, [kind |-> kind, at |-> "start", ret |-> ReturnKind])
  /\ cpu' = [cpu EXCEPT !.psp = IF ReturnKind = "thread" THEN Entry.sp ELSE @,
                        !.regs = IF ReturnKind = "secure" THEN Nowhere ELSE @,
                        !.pendsv = @ /\ kind # "pendsv"]
  /\ mem' = IF ReturnKind = "thread"
            THEN [mem EXCEPT ![cpu.psp.of] = Push(mem, cpu.psp, <<FrameCell(cpu.pc)>>)]
            ELSE mem
  /\ monitor' = [monitor EXCEPT
       !.ses[monitor.cur] = Recorded(@),
       !.sec[monitor.cur] = IF ReturnKind = "secure"
                            THEN Append(@, [pc |-> cpu.pc, regs |-> cpu.regs]) ELSE @]
  /\ UNCHANGED <<os, fault>>

Started == cpu.pc.at # "main"

(* PendSV and SysTick have the lowest priority; other interrupts may come   *)
(* while they are handled, but not once PendSV has set FAULTMASK.           *)
MayTake(kind) ==
  /\ ~fault /\ Started /\ ~cpu.primask
  /\ IF kind = "irq" THEN Len(exc) < MaxNest ELSE exc = << >>

Interrupt == MayTake("irq") /\ Enter("irq")
SysTick == MayTake("systick") /\ Enter("systick")
PendSV == MayTake("pendsv") /\ cpu.pendsv /\ Enter("pendsv")

Handles(kind, at) == ~fault /\ exc # << >> /\ Last(exc).kind = kind /\ Last(exc).at = at

Goes(at) == exc' = [exc EXCEPT ![Len(exc)].at = at]

(* An interrupt handler may call FreeRTOS and ask for a context switch.     *)
InterruptHandler ==
  /\ Handles("irq", "start") /\ Goes("done")
  /\ \E yield \in BOOLEAN : cpu' = [cpu EXCEPT !.pendsv = @ \/ yield]
  /\ UNCHANGED <<mem, os, monitor, fault>>

(* It runs with interrupts masked, and restores the mask.                   *)
SysTickHandler ==
  /\ Handles("systick", "start") /\ Goes("done")
  /\ \E switch \in BOOLEAN : cpu' = [cpu EXCEPT !.pendsv = @ \/ switch]
  /\ UNCHANGED <<mem, os, monitor, fault>>

(* A handler enters and leaves a Secure function: PendSV_Handler            *)
(* TCActivateThread, which sets FAULTMASK for the switch but neither before *)
(* nor after it, the others any that leaves the threads alone.              *)
HandlerGateway ==
  /\ \/ Handles("pendsv", "restored") /\ Goes("activating")
     \/ Handles("pendsv", "activated") /\ Goes("loaded")
     \/ \E kind \in {"irq", "systick"} :
          \/ Handles(kind, "start") /\ Goes("gateway")
          \/ Handles(kind, "gateway") /\ Goes("start")
  /\ UNCHANGED <<cpu, mem, os, monitor, fault>>

(* __TCPrivateLeaveInterrupt, with c the registers and m the monitor as     *)
(* they are by then: the frame must be the one recorded.  For a frame in a  *)
(* Secure stack the monitor compares the dummy frame with itself; there it  *)
(* is the processor that goes wrong with another exception's EXC_RETURN.    *)
Intact(c, m, e, depth) ==
  CASE e.ret \in {"handler", "secure_handler"} -> depth > 0 /\ e.sp.len = depth
    [] e.ret = "secure" -> /\ depth = 0 /\ e.sp.len = Len(m.sec[m.cur])
                           /\ Last(m.sec[m.cur]).pc = e.pc
    [] OTHER -> /\ depth = 0 /\ e.sp = c.psp
                /\ mem[c.psp.of][c.psp.len] = FrameCell(e.pc)

Return(c, m, active) ==
  LET e == Last(m.ses[m.cur])
  IN  IF m.ses[m.cur] # << >> /\ Intact(c, m, e, Len(active) - 1)
      THEN /\ exc' = Front(active)
           /\ cpu' = CASE e.ret \in {"handler", "secure_handler"} -> c
                       [] e.ret = "secure" ->
                            [c EXCEPT !.pc = e.pc, !.regs = Last(m.sec[m.cur]).regs]
                       [] OTHER -> [c EXCEPT !.pc = e.pc, !.psp.len = @ - 1]
           /\ mem' = IF e.ret \in {"handler", "secure_handler"} THEN mem
                     ELSE [mem EXCEPT ![c.psp.of] =
                             SubSeq(@, 1, IF e.ret = "thread" THEN c.psp.len - 1 ELSE c.psp.len)]
           /\ monitor' = [m EXCEPT !.ses[m.cur] = Front(@),
                                   !.sec[m.cur] = IF e.ret = "secure" THEN Front(@) ELSE @]
           /\ UNCHANGED fault
      ELSE fault' = TRUE /\ UNCHANGED <<cpu, exc, mem, monitor>>

ExceptionReturn ==
  /\ ~fault /\ exc # << >> /\ Last(exc).at = "done"
  /\ Return(cpu, monitor, exc)
  /\ UNCHANGED <<os>>

----------------------------------------------------------------------------
(* PendSV_Handler, cut where an interrupt can make a difference. *)

(* Mutant: the bit is tested the wrong way round.                           *)
UsedNonSecureStack(ret) == ret # "secure"

(* Bit 6 of EXC_RETURN.                                                     *)
UsedSecureStack(ret) == ret = "secure"

(* The registers that are not saved automatically go onto the stack only    *)
(* if the processor has not put them on the Secure one.                     *)
SaveContext ==
  /\ Handles("pendsv", "start") /\ Goes("saved")
  /\ LET ret == Last(exc).ret
         context == ContextCell(os.secureContext, cpu.psplim, cpu.npriv, ret)
         cells == IF UsedSecureStack(ret) THEN <<context>>
                  ELSE <<RegistersCell(cpu.regs), context>>
     IN  /\ mem' = [mem EXCEPT ![cpu.psp.of] = Push(mem, cpu.psp, cells)]
         /\ os' = [os EXCEPT !.top[os.current] =
                     Pointer(cpu.psp.of, cpu.psp.len + Len(cells))]
  /\ UNCHANGED <<cpu, monitor, fault>>

(* With interrupts masked.                                                  *)
SelectNextTask ==
  /\ Handles("pendsv", "saved") /\ Goes("selected")
  /\ \E t \in Created : os' = [os EXCEPT !.current = t]
  /\ UNCHANGED <<cpu, mem, monitor, fault>>

(* r4-r11 carry the MPU settings meanwhile.                                 *)
WithContext(c, context) ==
  [c EXCEPT !.psplim = context.psplim, !.npriv = context.npriv,
            !.mpu = os.settings[os.current], !.regs = Nowhere]

SavedContext(t) == mem[os.top[t].of][os.top[t].len]

RestoreContext ==
  /\ Handles("pendsv", "selected") /\ Goes("restored")
  /\ cpu' = WithContext(cpu, SavedContext(os.current))
  /\ os' = [os EXCEPT !.secureContext = SavedContext(os.current).secureContext]
  /\ UNCHANGED <<mem, monitor, fault>>

(* SecureContext_LoadContext, which is TCActivateThread.                    *)
LoadContext(m, id) == [m EXCEPT !.cur = id]

ActivateThread ==
  /\ Handles("pendsv", "activating") /\ Goes("activated")
  /\ monitor' = LoadContext(monitor, os.secureContext)
  /\ UNCHANGED <<cpu, mem, os, fault>>

(* How many cells a task's stack has on top of its exception frame.         *)
SavedCells(ret) == IF UsedSecureStack(ret) THEN 1 ELSE 2

(* r4-r11, PSP, and after FAULTMASK is set the return.                      *)
LeavePendSV ==
  /\ Handles("pendsv", "loaded")
  /\ LET top == os.top[os.current]
         ret == SavedContext(os.current).ret
     IN  Return([cpu EXCEPT
                   !.psp = Pointer(top.of, top.len - SavedCells(ret)),
                   !.regs = IF UsedSecureStack(ret) THEN @ ELSE mem[top.of][top.len - 1].regs],
                monitor, exc)
  /\ UNCHANGED <<os>>

(* vStartFirstTask and the SVC it takes: vRestoreContextOfFirstTask loads   *)
(* the context of the first task.  main's own frame stays where it is.      *)
StartFirstTask ==
  /\ ~fault /\ ~Started
  /\ LET top == os.top[os.current]
         context == SavedContext(os.current)
         main == [ret |-> "thread", pc |-> cpu.pc, sp |-> Pointer(NoTask, 1)]
     IN  /\ Return([WithContext(cpu, context) EXCEPT
                      !.psp = Pointer(top.of, top.len - 2), !.primask = FALSE],
                   LoadContext([monitor EXCEPT !.ses[0] = Append(@, main)],
                               context.secureContext),
                   <<[kind |-> "svc", at |-> "done", ret |-> "thread"]>>)
         /\ os' = [os EXCEPT !.secureContext = context.secureContext]

----------------------------------------------------------------------------
(* Thread code of a task: the application, and the kernel's functions. *)

(* A pending switch that is not masked comes first.                         *)
Runs(t, location) ==
  /\ ~fault /\ exc = << >>
  /\ cpu.pc = At(t, location)
  /\ ~cpu.pendsv \/ cpu.primask

Moved(c, location) ==
  [c EXCEPT !.pc.at = location, !.regs = At(c.pc.of, location)]

Becomes(c) == cpu' = c /\ UNCHANGED <<exc, mem, os, monitor, fault>>

Begin(t) == Runs(t, "fresh") /\ Becomes(Moved(cpu, "app"))

(* Bit 0 of CONTROL.                                                        *)
IsPrivileged == ~cpu.npriv
Raised(c) == [c EXCEPT !.npriv = FALSE]

(* The wrapper of a system call, with xIsPrivileged's answer in its locals. *)
SystemCall(t, effect) ==
  /\ Runs(t, "app") /\ os.nesting = 0
  /\ Wrappers(effect) # {}
  /\ mem' = [mem EXCEPT ![t] = Push(mem, cpu.psp, <<CallCell(effect, IsPrivileged)>>)]
  /\ cpu' = [Moved(cpu, IF IsPrivileged THEN "api" ELSE "raise") EXCEPT !.psp.len = @ + 1]
  /\ UNCHANGED <<exc, os, monitor, fault>>

(* Mutant: an SVC raises the privilege wherever it comes from.              *)
FromAnywhere(pc) == TRUE

(* __syscalls_flash_start__ <= ulPC <= __syscalls_flash_end__.              *)
FromSystemCall(pc) == pc.at = "raise"

(* vPortSVCHandler_C; SVC has a higher priority than all interrupts.        *)
RaiseBySVC(t, location) ==
  /\ Runs(t, location) /\ os.nesting = 0
  /\ LET next == Moved(cpu, IF location = "raise" THEN "api" ELSE location)
     IN  Becomes(IF FromSystemCall(cpu.pc) THEN Raised(next) ELSE next)

(* TCRaisePrivilege, a Secure function, which the wrappers call in builds   *)
(* with portACCEL_RAISE_PRIVILEGE; here either way may be taken at any      *)
(* time.  It does not look at who calls it: only control-flow integrity     *)
(* keeps application code from it (Gateway.h).                              *)
RaiseBySecure(t) ==
  \/ Runs(t, "raise") /\ Becomes(Moved(cpu, "raising"))
  \/ Runs(t, "raising") /\ Becomes(Raised(Moved(cpu, "api")))
  \/ t \in Callers /\ Runs(t, "app") /\ Becomes(Moved(cpu, "elevating"))
  \/ Runs(t, "elevating") /\ Becomes(Raised(Moved(cpu, "app")))

(* A call of any function of the monitor that changes none of this.         *)
Gateway(t) ==
  \/ Runs(t, "app") /\ Becomes(Moved(cpu, "gateway"))
  \/ Runs(t, "gateway") /\ Becomes(Moved(cpu, "app"))

(* The wrapper's locals.                                                    *)
Call(t) == mem[t][cpu.psp.len]

(* vPortResetPrivilege, and the end of the system call.                     *)
ResetPrivilege(t) ==
  /\ Runs(t, "api") /\ os.nesting = 0
  /\ cpu' = [Moved(cpu, "app") EXCEPT !.npriv = @ \/ ~Call(t).was, !.psp.len = @ - 1]
  /\ mem' = [mem EXCEPT ![t] = Front(@)]
  /\ UNCHANGED <<exc, os, monitor, fault>>

(* The application calls vResetPrivilege itself                             *)
(* (examples/nonsecure-bench-rtos.zig).                                     *)
DropPrivilege(t) ==
  /\ Runs(t, "app") /\ os.nesting = 0
  /\ Becomes([cpu EXCEPT !.npriv = TRUE])

Kernel(t, effects) ==
  \/ Runs(t, "app") /\ IsPrivileged
  \/ Runs(t, "api") /\ Call(t).effect \in effects

Yield(t) == Kernel(t, {"yields", "creates"}) /\ Becomes([cpu EXCEPT !.pendsv = TRUE])

SetInterruptMask(c) == [c EXCEPT !.primask = TRUE]
ClearInterruptMask(c) == [c EXCEPT !.primask = FALSE]

EnterCritical(t) ==
  /\ Kernel(t, Effects)
  /\ os.nesting < MaxNesting
  /\ cpu' = SetInterruptMask(cpu)
  /\ os' = [os EXCEPT !.nesting = @ + 1]
  /\ UNCHANGED <<exc, mem, monitor, fault>>

(* Mutant: the inner critical section ends the outer one.                   *)
UnmasksAlways(nesting) == TRUE

Unmasks(nesting) == nesting = 0

ExitCritical(t) ==
  /\ Kernel(t, Effects)
  /\ os.nesting > 0
  /\ os' = [os EXCEPT !.nesting = @ - 1]
  /\ cpu' = IF Unmasks(os'.nesting) THEN ClearInterruptMask(cpu) ELSE cpu
  /\ UNCHANGED <<exc, mem, monitor, fault>>

(* A task may be created with the scheduler running.                        *)
CreateTask(t, u, regions) ==
  /\ Runs(t, "api") /\ Call(t).effect = "creates" /\ os.nesting = 0
  /\ u \notin Created
  /\ mem' = [mem EXCEPT ![u] = InitialStack(u, AllocateContext(monitor, u))]
  /\ os' = InitialTCB(os, u, regions)
  /\ monitor' = NewThread(monitor, u)
  /\ UNCHANGED <<cpu, exc, fault>>

(* vTaskAllocateMPURegions: a running task gets them at its next turn.      *)
AllocateMPURegions(t, u, regions) ==
  /\ Runs(t, "api") /\ Call(t).effect = "regions" /\ os.nesting = 0
  /\ u \in Created
  /\ os' = [os EXCEPT !.settings[u] = MPUSettings(@, regions, NoTask, 0)]
  /\ UNCHANGED <<cpu, exc, mem, monitor, fault>>

----------------------------------------------------------------------------

Exceptions ==
  \/ Interrupt \/ SysTick \/ PendSV
  \/ InterruptHandler \/ SysTickHandler \/ ExceptionReturn
  \/ HandlerGateway
  \/ SaveContext \/ SelectNextTask \/ RestoreContext \/ ActivateThread \/ LeavePendSV

Task(t) ==
  \/ Begin(t) \/ RaiseBySVC(t, "raise") \/ RaiseBySVC(t, "app") \/ RaiseBySecure(t)
  \/ Gateway(t) \/ ResetPrivilege(t) \/ DropPrivilege(t)
  \/ Yield(t) \/ EnterCritical(t) \/ ExitCritical(t)
  \/ \E effect \in Effects : SystemCall(t, effect)
  \/ \E u \in Tasks, regions \in SUBSET Buffers :
        CreateTask(t, u, regions) \/ AllocateMPURegions(t, u, regions)

(* A panic does not return; a processor that went wrong is not followed.    *)
Stopped == fault /\ UNCHANGED vars

Next == StartFirstTask \/ Exceptions \/ Stopped \/ \E t \in Tasks : Task(t)

Spec == Init /\ [][Next]_vars

----------------------------------------------------------------------------
(* Properties. *)

(* Whenever thread code of a task runs, the stack pointer, its limit, the   *)
(* stack's MPU region, the callee-saved registers and the monitor's thread  *)
(* are that task's: PendSV_Handler replaces them in separate steps, with    *)
(* interrupts and Secure code in between.                                   *)
OwnContext ==
  exc = << >> /\ Started /\ ~fault =>
    LET t == cpu.pc.of
    IN  /\ t = os.current
        /\ cpu.psp = Pointer(t, Len(mem[t])) /\ cpu.psplim = t
        /\ cpu.mpu.stack = t
        /\ cpu.pc.at # "fresh" => cpu.regs = cpu.pc
        /\ os.secureContext = monitor.cur /\ monitor.ses[monitor.cur] = << >>

(* Unprivileged code reaches its own stack and the buffers it was given,    *)
(* but neither the kernel nor another task's stack; the kernel's functions  *)
(* reach everything; and the application code of a task that was created    *)
(* without portPRIVILEGE_BIT and never calls TCRaisePrivilege itself is     *)
(* unprivileged, whatever supervisor calls it makes, and whatever others do *)
(* when it is switched out while its privilege is raised or reset.          *)
Confinement ==
  exc = << >> /\ Started /\ ~fault =>
    LET t == cpu.pc.of
    IN  /\ t \in Reachable
        /\ cpu.npriv => Reachable \cap (PrivilegedRegions \cup (Tasks \ {t})) = {}
        /\ cpu.pc.at = "api" => PrivilegedRegions \subseteq Reachable
        /\ t \notin Privileged \cup Callers /\ cpu.pc.at # "api" => cpu.npriv

(* Every exception is returned from with its own EXC_RETURN, and no return  *)
(* is refused, whichever task or handler it interrupted and between         *)
(* whichever steps of PendSV_Handler it came, with one exception: it came   *)
(* while a handler was in a Secure function, and the frame on top of the    *)
(* thread's shadow exception stack is one in a Secure stack, as when        *)
(* TCActivateThread has just switched to a task that was interrupted in     *)
(* Secure code and has cleared FAULTMASK again.                             *)
NoFalseAlarm ==
  fault => /\ exc # << >> /\ Last(exc).ret = "secure_handler"
           /\ IsDummy(Last(monitor.ses[monitor.cur]).ret)

(* Where the code of a task is, in a frame on one of the stacks if it does  *)
(* not run.                                                                 *)
Frames(t) ==
  {c.pc.at : c \in {d \in UNION {ToSet(mem[u]) : u \in Tasks} : d.kind = "frame" /\ d.pc.of = t}}
    \cup {c.pc.at : c \in {d \in UNION {ToSet(monitor.sec[i]) : i \in Threads} : d.pc.of = t}}

PlaceOf(t) == IF exc = << >> /\ cpu.pc.of = t THEN {cpu.pc.at} ELSE Frames(t)

Unprivileged(t) ==
  IF mem[t] # << >> /\ Last(mem[t]).kind = "context" THEN Last(mem[t]).npriv ELSE cpu.npriv

Calls(t) == {c \in ToSet(mem[t]) : c.kind = "call"}

TrustedCode(t) ==
  t \in Created /\ IF Calls(t) # {} THEN \A c \in Calls(t) : c.was ELSE ~Unprivileged(t)

(* The port gives every task a processor of its own.                        *)
Abstract == INSTANCE Processors WITH
  Fresh <- "fresh", Elevating <- "elevating", running <- os.current,
  exclusive <- IF os.nesting > 0 THEN os.current ELSE NoTask,
  place <- [t \in Tasks |-> PlaceOf(t)],
  trusted <- [t \in Tasks |-> TrustedCode(t)]

KeepsProcessors == Abstract!Spec

=============================================================================
