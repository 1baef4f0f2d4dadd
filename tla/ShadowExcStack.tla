--------------------------- MODULE ShadowExcStack ---------------------------
(***************************************************************************)
(* The shadow exception stacks of TZmCFI (src/src/monitor/                 *)
(* shadowexcstack.zig) with the exception trampolines that call them       *)
(* (src/src/nonsecure_vector_ses.S, nonsecure_vector_unnest.S), composed   *)
(* with an external model of how an Armv8-M core takes and returns from    *)
(* Non-Secure exceptions: priorities, late preemption of a trampoline at   *)
(* its first instruction (an "exception entry chain"), tail-chaining,      *)
(* preemption of Secure code, standard and extended frames.                *)
(*                                                                         *)
(* Addresses are integers: the Non-Secure main stack occupies the          *)
(* non-positive ones and grows downwards in units of 8 bytes.  An          *)
(* EXC_RETURN value is the set of the bits the code looks at.              *)
(***************************************************************************)
EXTENDS Integers, Sequences, SequencesExt

CONSTANTS
  SesTypes,     \* the values of SHADOW_EXC_STACK_TYPE to consider
  MaxPrio,      \* exceptions have priorities 1..MaxPrio, larger preempts smaller
  Capacity,     \* number of Frames in the storage of the shadow stack
  FrameTypes,   \* the values of the FTYPE bit that occur: a subset of SUBSET {"FTYPE"}
  ThreadStacks, \* the stacks thread code uses: a subset of {"MSP", "PSP"}
  Locals,       \* how much stack code may be holding when it is preempted
  NestedSecure, \* may two active exceptions both have preempted Secure code?
  StrayFields   \* the words of an active frame a stray write may change

ASSUME SesTypesAssumption == SesTypes \subseteq {"Safe", "Naive", "Unnested", "Null"}
ASSUME PrioAssumption     == MaxPrio \in Nat \ {0} /\ Capacity \in Nat /\ MaxPrio <= Capacity
ASSUME FrameAssumption    == FrameTypes \subseteq SUBSET {"FTYPE"}
ASSUME StackAssumption    == ThreadStacks \subseteq {"MSP", "PSP"} /\ Locals \subseteq Nat
ASSUME SecureAssumption   == NestedSecure \in BOOLEAN
ASSUME StrayAssumption    == StrayFields \subseteq {"pc", "lr", "r12"}

VARIABLES
  impl,      \* SHADOW_EXC_STACK_TYPE, fixed at build time
  threadAt,  \* where Thread mode is: "app" or "secure"
  act,       \* the active exceptions, outermost first
  pending,   \* the priorities that have a pending exception
  faultmask, \* FAULTMASK_NS
  ses,       \* g_stack: the Frames from `current` up to `top`
  it,        \* pushShadowExcStack's local ChainedExceptionStackIterator
  buf,       \* the Frames it has stored above `top` so far
  fault      \* "none", "panic" (@panic was called), or "derailed" (an exception
             \* return was made with some other activation's EXC_RETURN)

machine == <<threadAt, act, pending, faultmask>>
monitor == <<ses, it, buf>>
vars == <<impl, machine, monitor, fault>>

Prios       == 1..MaxPrio
ExcReturns  == SUBSET {"S", "FTYPE", "MODE", "SPSEL"}

(* Locations: an activation starts at "entry" (the first instruction of its *)
(* stage 0 trampoline, still preemptible), is "masked" after `cpsid f`,     *)
(* "pushing" inside pushShadowExcStack's loop, then runs the handler        *)
(* ("app"), which may call Secure functions ("secure"), and is "leaving"    *)
(* after the return trampoline's `cpsid f`.                                 *)
Locations   == {"entry", "masked", "pushing", "app", "secure", "leaving"}

Words       == {"entry", "code", "zero", "stray"}
LrWords     == ExcReturns \cup {{"code"}, {"stray"}}
Saved       == [pc : Words, lr : LrWords, r12 : Words]

Frame       == [pc : Words, lr : LrWords, exc_return : LrWords, frame : Int, r12 : Words]
Activations == [prio : Prios, at : Locations, ret : ExcReturns, frame : Int,
                sp : Int, saved : Saved]
Iterators   == [msp : Int, exc_return : LrWords, frame : Int]

----------------------------------------------------------------------------
(* The machine, as far as the monitor can see it. *)

Dummy == 1    \* &dummy_exc_frame[0]
Psp   == 2    \* PSP_NS while the thread is suspended

Top == act[Len(act)]
At  == IF act = << >> THEN threadAt ELSE Top.at

(* MSP_NS at the trampolines: a handler restores SP before it returns.      *)
Msp == IF act = << >> THEN 0 ELSE Top.sp

(* With Unnested and Null the application gives every exception the same    *)
(* group priority.                                                          *)
Group(p) == IF impl \in {"Unnested", "Null"} THEN 1 ELSE p

CurrentPrio == IF act = << >> THEN 0 ELSE Group(Top.prio)

Zeros == [pc |-> "zero", lr |-> {}, r12 |-> "zero"]

(* The part of memory the monitor reads through frame addresses.            *)
Mem(address) ==
  IF \E i \in DOMAIN act : act[i].frame = address
  THEN act[CHOOSE i \in DOMAIN act : act[i].frame = address].saved
  ELSE Zeros

(* Size of a basic or an extended exception frame on the stack.             *)
StackedSize(ftype) == IF "FTYPE" \in ftype THEN 4 ELSE 13

(* What the core stacks for the context it interrupts at location `at`. At  *)
(* the first instruction of a trampoline LR still holds the interrupted     *)
(* exception's own EXC_RETURN, `ret`.                                       *)
Stacked(at, ret) ==
  IF at = "entry" THEN [pc |-> "entry", lr |-> ret, r12 |-> "code"]
                  ELSE [pc |-> "code", lr |-> {"code"}, r12 |-> "code"]

SecureLocations == {"secure", "pushing"}

----------------------------------------------------------------------------
(* ChainedExceptionStackIterator. *)

(* ExecptionEntryPCSet.contains: is `pc` the start of a stage 0 trampoline? *)
IsEntryPc(pc) == pc = "entry"

(* Mutant: the SPSEL bit is not looked at.                                  *)
FrameAddressMsp(r, m) == IF "S" \in r THEN Dummy ELSE m

(* fillFrameAddress: where the frame of an activation whose EXC_RETURN is r *)
(* lies, MSP_NS being m when its handler starts.                            *)
FrameAddress(r, m) ==
  IF "S" \in r THEN Dummy ELSE IF "SPSEL" \in r THEN Psp ELSE m

(* Mutant: the saved PC is read where the saved LR is.                      *)
AsFrameShifted(i) ==
  [pc |-> Mem(i.frame).pc, lr |-> {Mem(i.frame).pc}, exc_return |-> i.exc_return,
   frame |-> i.frame, r12 |-> Mem(i.frame).r12]

NewIterator(r) == [msp |-> Msp, exc_return |-> r, frame |-> FrameAddress(r, Msp)]

AsFrame(i) ==
  [pc |-> Mem(i.frame).pc, lr |-> Mem(i.frame).lr, exc_return |-> i.exc_return,
   frame |-> i.frame, r12 |-> Mem(i.frame).r12]

(* Mutant: every frame is taken for a basic one.                            *)
FrameSizeBasic(r) == 4

(* moveNext: whether the interrupted context is itself an exception that    *)
(* has not executed anything yet, and the iterator moved to it.             *)
HasNext(i) == "MODE" \notin i.exc_return /\ IsEntryPc(Mem(i.frame).pc)

FrameSize(r) == IF "FTYPE" \in r THEN 4 ELSE 13

Moved(i) ==
  LET r == Mem(i.frame).lr
      m == i.msp + FrameSize(i.exc_return)
  IN  [msp |-> m, exc_return |-> r, frame |-> FrameAddress(r, m)]

NoIterator == [msp |-> 0, exc_return |-> {}, frame |-> 0]

----------------------------------------------------------------------------
(* Non-Secure exceptions, handlers and Secure function calls (external).    *)

Init ==
  /\ impl \in SesTypes
  /\ threadAt = "app" /\ act = << >> /\ pending = {} /\ faultmask = FALSE
  /\ ses = << >> /\ it = NoIterator /\ buf = << >>
  /\ fault = "none"

(* A peripheral or software makes an exception of priority p pending.       *)
Raise(p) ==
  /\ fault = "none"
  /\ p \notin pending
  /\ pending' = pending \cup {p}
  /\ UNCHANGED <<impl, threadAt, act, faultmask, monitor, fault>>

(* The EXC_RETURN of an exception taken now: `psp` says that Non-Secure     *)
(* thread code is using PSP_NS; Secure thread code always uses PSP_S.       *)
NewExcReturn(psp, ftype) ==
  (IF At \in SecureLocations THEN {"S"} ELSE {}) \cup ftype
  \cup (IF act = << >> THEN {"MODE"} ELSE {})
  \cup (IF act = << >> /\ (psp \/ At = "secure") THEN {"SPSEL"} ELSE {})

(* Exception entry.  A frame stacked for Secure code lies in a Secure stack *)
(* that neither the monitor nor Non-Secure code reads, so it is given here  *)
(* as the dummy frame that stands for it.                                   *)
Entered(p, psp, ftype, held) ==
  LET ret    == NewExcReturn(psp, ftype)
      sp     == Msp - held
      onMsp  == "S" \notin ret /\ "SPSEL" \notin ret
      nsp    == IF onMsp THEN sp - StackedSize(ftype) ELSE sp
  IN  [prio |-> p, at |-> "entry", ret |-> ret, sp |-> nsp,
       frame |-> IF "S" \in ret THEN Dummy ELSE IF onMsp THEN nsp ELSE Psp,
       saved |-> IF "S" \in ret THEN Zeros
                 ELSE Stacked(At, IF act = << >> THEN {} ELSE Top.ret)]

(* Code holds stack only while a handler or the thread's own code runs, and *)
(* thread code that uses PSP holds none of the main stack.                  *)
MayHold(psp, held) == held # 0 => At \in {"app", "secure"} /\ ~(act = << >> /\ psp)

Preempt(p, psp, ftype, held) ==
  /\ fault = "none"
  /\ p \in pending /\ Group(p) > CurrentPrio /\ ~faultmask
  /\ psp => act = << >>
  /\ MayHold(psp, held)
  /\ At = "secure" => NestedSecure \/ \A i \in DOMAIN act : "S" \notin act[i].ret
  /\ pending' = pending \ {p}
  /\ act' = Append(act, Entered(p, psp, ftype, held))
  /\ UNCHANGED <<impl, threadAt, faultmask, monitor, fault>>

(* Application code calls a Secure function, and the function returns.      *)
MoveTo(from, to) ==
  /\ fault = "none"
  /\ At = from
  /\ IF act = << >> THEN threadAt' = to /\ UNCHANGED act
     ELSE act' = [act EXCEPT ![Len(act)].at = to] /\ UNCHANGED threadAt
  /\ UNCHANGED <<impl, pending, faultmask, monitor, fault>>

SecureCall   == MoveTo("app", "secure")
SecureReturn == MoveTo("secure", "app")

(* A handler's stray store changes one word of the frame of an active       *)
(* exception.                                                               *)
StrayWrite(i, field) ==
  /\ fault = "none"
  /\ act # << >> /\ At = "app"
  /\ act[i].frame # Dummy
  /\ act' = [act EXCEPT ![i].saved[field] = IF field = "lr" THEN {"stray"} ELSE "stray"]
  /\ UNCHANGED <<impl, threadAt, pending, faultmask, monitor, fault>>

----------------------------------------------------------------------------
(* The exception entry trampoline and __tcEnterInterrupt.                   *)

(* Stage 0: `cpsid f` (absent from nonsecure_vector_unnest.S), then the     *)
(* branch to __TCPrivateEnterInterrupt.                                     *)
Stage0 ==
  /\ fault = "none"
  /\ act # << >> /\ At = "entry"
  /\ faultmask' = (impl # "Unnested")
  /\ act' = [act EXCEPT ![Len(act)].at = "masked"]
  /\ UNCHANGED <<impl, threadAt, pending, monitor, fault>>

(* pushShadowExcStack has returned: stage 2 executes `cpsie f` and calls    *)
(* the handler.                                                             *)
StartHandler ==
  /\ faultmask' = FALSE
  /\ act' = [act EXCEPT ![Len(act)].at = "app"]
  /\ it' = NoIterator /\ buf' = << >>
  /\ UNCHANGED <<impl, threadAt, pending>>

Entering == fault = "none" /\ act # << >> /\ At = "masked"

(* fullImpl(true): construct the iterator; the loop follows.                *)
EnterSafe ==
  /\ Entering /\ impl = "Safe"
  /\ act' = [act EXCEPT ![Len(act)].at = "pushing"]
  /\ it' = NewIterator(Top.ret)
  /\ buf' = << >>
  /\ UNCHANGED <<impl, threadAt, pending, faultmask, ses, fault>>

(* Mutants: scanning never stops at a recorded frame; or stops at once      *)
(* whenever anything is recorded.                                           *)
KnownFrameNever == FALSE
KnownFrameAny   == ses # << >>

Looping == fault = "none" /\ act # << >> /\ At = "pushing"

KnownFrame == ses # << >> /\ it.frame = ses[Len(ses)].frame

(* The frame the iterator is at is already the top of the shadow stack.     *)
PushKnown ==
  /\ Looping /\ KnownFrame
  /\ ses' = ses \o Reverse(buf)
  /\ StartHandler
  /\ UNCHANGED fault

(* Store the frame and move on; moveNext asserts that SPSEL is clear.       *)
PushNext ==
  /\ Looping /\ ~KnownFrame /\ HasNext(it)
  /\ buf' = Append(buf, AsFrame(it))
  /\ it' = Moved(it)
  /\ fault' = IF "SPSEL" \in it.exc_return THEN "panic" ELSE fault
  /\ UNCHANGED <<impl, machine, ses>>

(* Store the frame; there is no next one.                                   *)
PushLast ==
  /\ Looping /\ ~KnownFrame /\ ~HasNext(it)
  /\ ses' = ses \o Reverse(Append(buf, AsFrame(it)))
  /\ StartHandler
  /\ UNCHANGED fault

(* fullImpl(false): push exactly one frame.                                 *)
EnterNaive ==
  /\ Entering /\ impl = "Naive"
  /\ ses' = Append(ses, AsFrame(NewIterator(Top.ret)))
  /\ StartHandler
  /\ UNCHANGED fault

(* The Mode bit check of __TCPrivateEnterInterrupt, and unnested_impl's.    *)
BadNesting == "MODE" \notin Top.ret \/ ses # << >>

EnterUnnested ==
  /\ Entering /\ impl = "Unnested"
  /\ ses' = IF BadNesting THEN ses ELSE << AsFrame(NewIterator(Top.ret)) >>
  /\ StartHandler
  /\ fault' = IF BadNesting THEN "panic" ELSE fault

(* min_impl: only remembers EXC_RETURN.                                     *)
EnterNull ==
  /\ Entering /\ impl = "Null"
  /\ ses' = << [pc |-> "zero", lr |-> {}, exc_return |-> Top.ret, frame |-> Dummy,
                r12 |-> "zero"] >>
  /\ StartHandler
  /\ UNCHANGED fault

----------------------------------------------------------------------------
(* The exception return trampoline and __tcLeaveInterrupt.                  *)

(* The handler has returned; `cpsid f` (absent from the unnested one).      *)
ReturnTrampoline ==
  /\ fault = "none"
  /\ act # << >> /\ At = "app"
  /\ faultmask' = (impl # "Unnested")
  /\ act' = [act EXCEPT ![Len(act)].at = "leaving"]
  /\ UNCHANGED <<impl, threadAt, pending, monitor, fault>>

Leaving == fault = "none" /\ act # << >> /\ At = "leaving"

(* The EXC_RETURN popShadowExcStack returns, when it does not panic.        *)
PoppedExcReturn == ses[Len(ses)].exc_return

(* Mutants: only the top entry is validated; or the stack is always         *)
(* expected to hold two.                                                    *)
PopAcceptsTopOnly ==
  \/ impl = "Null"
  \/ ses # << >> /\ AsFrame(NewIterator(PoppedExcReturn)) = ses[Len(ses)]

PopAcceptsTwo ==
  \/ impl = "Null"
  \/ Len(ses) > 1 /\ AsFrame(NewIterator(PoppedExcReturn)) = ses[Len(ses)]

(* Mutant: `top` is not decremented.                                        *)
PoppedNone == ses

(* The checks of popShadowExcStack: the top entry against memory and, with  *)
(* Safe, the entry below it when the top one heads an entry chain.          *)
PopAccepts ==
  \/ impl = "Null"
  \/ /\ ses # << >>
     /\ AsFrame(NewIterator(PoppedExcReturn)) = ses[Len(ses)]
     /\ impl = "Safe" /\ HasNext(NewIterator(PoppedExcReturn)) =>
          /\ "SPSEL" \notin PoppedExcReturn
          /\ Len(ses) > 1
          /\ AsFrame(Moved(NewIterator(PoppedExcReturn))) = ses[Len(ses) - 1]

Popped == IF impl = "Null" THEN ses ELSE SubSeq(ses, 1, Len(ses) - 1)

(* __tcLeaveInterrupt panics.                                               *)
LeavePanics ==
  /\ Leaving /\ ~PopAccepts
  /\ fault' = "panic"
  /\ UNCHANGED <<impl, machine, monitor>>

(* `bx r0` with the popped EXC_RETURN: the core leaves the exception and    *)
(* clears FAULTMASK_NS.                                                     *)
ExceptionReturn ==
  /\ Leaving /\ PopAccepts
  /\ ses' = Popped
  /\ faultmask' = FALSE
  /\ fault' = IF PoppedExcReturn = Top.ret THEN "none" ELSE "derailed"
  /\ UNCHANGED <<impl, threadAt, it, buf>>

Outer == SubSeq(act, 1, Len(act) - 1)

LeaveInterrupt ==
  /\ ExceptionReturn
  /\ act' = Outer
  /\ UNCHANGED pending

(* The core tail-chains to a pending exception instead of unstacking: the   *)
(* frame, EXC_RETURN and stack pointer stay as they are.                    *)
TailChain(p) ==
  /\ ExceptionReturn
  /\ p \in pending
  /\ Outer # << >> => Group(p) > Group(act[Len(act) - 1].prio)
  /\ act' = [act EXCEPT ![Len(act)].prio = p, ![Len(act)].at = "entry"]
  /\ pending' = pending \ {p}

(* The panic handler never returns; a derailed core is not followed.        *)
Stopped == fault # "none" /\ UNCHANGED vars

----------------------------------------------------------------------------
EnterInterrupt ==
  \/ EnterSafe \/ PushKnown \/ PushNext \/ PushLast
  \/ EnterNaive \/ EnterUnnested \/ EnterNull

Next ==
  \/ \E p \in Prios : Raise(p)
  \/ \E p \in Prios, s \in ThreadStacks, f \in FrameTypes, h \in Locals :
       Preempt(p, s = "PSP" /\ act = << >>, f, h)
  \/ SecureCall \/ SecureReturn
  \/ \E i \in DOMAIN act, field \in StrayFields : StrayWrite(i, field)
  \/ Stage0 \/ EnterInterrupt
  \/ ReturnTrampoline \/ LeavePanics \/ LeaveInterrupt
  \/ \E p \in Prios : TailChain(p)
  \/ Stopped

(* Code that can run does run: the core executes trampolines, the monitor   *)
(* and handlers, and takes what is pending; handlers return.                *)
Fairness ==
  /\ WF_vars(Stage0) /\ WF_vars(EnterInterrupt)
  /\ WF_vars(SecureReturn) /\ WF_vars(LeaveInterrupt)
  /\ SF_vars(ReturnTrampoline)
  /\ WF_vars(\E p \in Prios, s \in ThreadStacks, f \in FrameTypes, h \in Locals :
               Preempt(p, s = "PSP" /\ act = << >>, f, h))

Spec == Init /\ [][Next]_vars

FairSpec == Spec /\ Fairness

----------------------------------------------------------------------------
(* Properties. *)

TypeOK ==
  /\ impl \in SesTypes
  /\ threadAt \in {"app", "secure"}
  /\ act \in Seq(Activations)
  /\ pending \subseteq Prios
  /\ faultmask \in BOOLEAN
  /\ ses \in Seq(Frame) /\ buf \in Seq(Frame)
  /\ it \in Iterators
  /\ fault \in {"none", "panic", "derailed"}

(* What the core stacked when it took the i-th active exception.  The       *)
(* context below it has not moved since.                                    *)
Original(i) ==
  IF "S" \in act[i].ret THEN Zeros
  ELSE IF i = 1 THEN Stacked(threadAt, {})
  ELSE Stacked(act[i - 1].at, act[i - 1].ret)

(* The Frame that protects the i-th active exception.                       *)
Protecting(i) ==
  [pc |-> Original(i).pc, lr |-> Original(i).lr, exc_return |-> act[i].ret,
   frame |-> act[i].frame, r12 |-> Original(i).r12]

Intact(i)  == act[i].saved = Original(i)

(* Whether the i-th active exception has been through __tcEnterInterrupt.   *)
HasEntered(i) == act[i].at \in {"app", "secure", "leaving"}

(* Safe: whenever a handler can run, the shadow stack holds exactly the     *)
(* frames of all active exceptions, in order, as they were stacked          *)
(* (options.zig: "scans the stacks to make sure all active exception frames *)
(* are protected by the shadow stack").                                     *)
AllFramesProtected ==
  impl = "Safe" /\ fault = "none" /\ act # << >> /\ At \in {"app", "secure"} =>
    ses = [i \in DOMAIN act |-> Protecting(i)]

(* Naive: exactly the exceptions whose trampoline got past its first        *)
(* instruction are recorded, in order, one Frame for each: an entry chain   *)
(* leaves the frames below it out until their own trampoline resumes.       *)
EnteredFramesProtected ==
  impl = "Naive" /\ fault = "none" =>
    \E entered \in [DOMAIN ses -> DOMAIN act] :
      /\ \A k, l \in DOMAIN ses : k < l => entered[k] < entered[l]
      /\ {entered[k] : k \in DOMAIN ses} = {i \in DOMAIN act : HasEntered(i)}
      /\ \A k \in DOMAIN ses : ses[k] = Protecting(entered[k])

(* __tcLeaveInterrupt and the nesting checks only panic when some active    *)
(* frame really has changed since it was stacked: no legal interleaving of  *)
(* exceptions is reported as an attack.                                     *)
NoFalseAlarm ==
  fault = "panic" => \E i \in DOMAIN act : ~Intact(i)

(* popShadowExcStack returns "the EXC_RETURN that corresponds to the        *)
(* current exception activation".                                           *)
GenuineReturn == fault # "derailed"

(* fullImpl never checks `limit`; no run of nested exceptions passes it     *)
(* anyway when there are at most as many priorities as Frames.              *)
WithinLimit == Len(ses) + Len(buf) <= Capacity

(* Safe and Unnested: an exception return never unstacks, and tail-chaining *)
(* never hands on, a frame that changed since the core stacked it, even if  *)
(* that happened while its own trampoline had not run yet; and Safe does    *)
(* not resume such a trampoline once its frame has changed                  *)
(* (popShadowExcStack: "Validate two top entries").                         *)
ReturnsIntact ==
  [][(act # << >> /\ At = "leaving" /\ act' # act /\ impl \in {"Safe", "Unnested"})
       => /\ Intact(Len(act))
          /\ Outer # << >> /\ act[Len(act) - 1].at = "entry" => Intact(Len(act) - 1)]_vars

(* When interrupts cease, every active and pending exception gets its       *)
(* handler run to completion and the shadow stack drains.                   *)
Drained ==
  <>[][\A p \in Prios : ~Raise(p)]_vars =>
    <>[](act = << >> /\ pending = {} /\ faultmask = FALSE /\ (impl # "Null" => ses = << >>))

=============================================================================
