---------------------------- MODULE ShadowStack ----------------------------
(***************************************************************************)
(* The shadow stack of TZmCFI (src/src/monitor/shadowstack.zig), store by  *)
(* store: thread code and the exception handlers that preempt it, and one  *)
(* another, call and leave functions, whose prologues and epilogues call   *)
(* the monitor's push and assert gateways.  The gateways run with          *)
(* interrupts enabled and share g_shadow_stack_top.                        *)
(***************************************************************************)
EXTENDS Integers, Sequences

CONSTANTS
  Sites,         \* return addresses
  Size,          \* STACK_SIZE: entries between the guard pages
  MaxNest,       \* contexts: the thread and the handlers nested on it
  AbortingModes, \* the values of ABORTING_SHADOWSTACK to consider
  Stray          \* may a saved return address in ordinary memory be overwritten?

ASSUME SizeAssumption == Size \in Nat \ {0} /\ MaxNest \in Nat \ {0} /\ Sites # {}
ASSUME ModeAssumption ==
  AbortingModes \subseteq BOOLEAN /\ Stray \in BOOLEAN

VARIABLES
  aborting, \* ABORTING_SHADOWSTACK, fixed at build time
  top,      \* g_shadow_stack_top, as an index: the entries in use are 1..top
  slots,    \* the memory of the shadow stack
  calls,    \* the calls that are on the shadow stack: where each one has to
            \* return to, and the copy of LR it saved in ordinary memory
  ctx,      \* the contexts, outermost first; the last one is running
  torn,     \* not in the code: has an exception come between the two stores of a push?
  fault     \* "none", "panic" (TCShadowStackMismatch), "guard" (a guard page was
            \* hit), or "astray" (a function returned to somewhere else)

vars == <<aborting, top, slots, calls, ctx, torn, fault>>

Calls == [home : Sites, saved : Sites]

(* Where a context is: "run" in application code; "push", "store", "commit" *)
(* in __TCPrivateShadowPush; "load", "take", "drop", "check" and "leave" in *)
(* one of the assert gateways.                                              *)
Locations == {"run", "push", "store", "commit", "load", "take", "drop", "check", "leave"}

(* A context: its registers (r is the stack pointer register of the         *)
(* gateways, x the loaded entry), whether its epilogue continues elsewhere  *)
(* (tail), where the function that is being entered or left must return to, *)
(* and how many calls there were when it began.                             *)
Contexts == [at : Locations, lr : Sites, r : Int, x : Sites, tail : BOOLEAN,
             home : Sites, base : Nat]

AnySite == CHOOSE s \in Sites : TRUE

Fresh(n) == [at |-> "run", lr |-> AnySite, r |-> 0, x |-> AnySite, tail |-> FALSE,
             home |-> AnySite, base |-> n]

Running == ctx[Len(ctx)]

At(location) == fault = "none" /\ Running.at = location

(* The running context becomes c.                                           *)
Become(c) == ctx' = [ctx EXCEPT ![Len(ctx)] = c]

(* It is back in application code; what the gateway left in the registers   *)
(* is not used again.                                                       *)
BackToApplication == Become(Fresh(Running.base))

(* StackState.new with loadState.                                           *)
Init ==
  /\ aborting \in AbortingModes
  /\ top = 0 /\ slots = [i \in 1..Size |-> AnySite] /\ calls = << >>
  /\ ctx = << Fresh(0) >>
  /\ torn = FALSE /\ fault = "none"

----------------------------------------------------------------------------
(* Application code (external): instrumented functions and exceptions.      *)

(* A function is called; its prologue calls __TCPrivateShadowPush.          *)
Call(site) ==
  /\ At("run")
  /\ Become([Running EXCEPT !.at = "push", !.lr = site, !.home = site])
  /\ UNCHANGED <<aborting, torn, top, slots, calls, fault>>

(* Its epilogue reloads LR and calls an assert gateway; `tail`: the one     *)
(* that continues at R12, which ends in a jump to another function.         *)
Epilogue(tail) ==
  /\ At("run")
  /\ Len(calls) > Running.base
  /\ Become([Running EXCEPT !.at = "load", !.lr = calls[Len(calls)].saved, !.tail = tail])
  /\ UNCHANGED <<aborting, torn, top, slots, calls, fault>>

StrayWrite(i, site) ==
  /\ Stray /\ At("run")
  /\ calls' = [calls EXCEPT ![i].saved = site]
  /\ UNCHANGED <<aborting, torn, top, slots, ctx, fault>>

(* An exception handler begins, between any two instructions.               *)
Interrupt ==
  /\ fault = "none"
  /\ Len(ctx) < MaxNest
  /\ ctx' = Append(ctx, Fresh(Len(calls)))
  /\ torn' = (torn \/ Running.at = "commit")
  /\ UNCHANGED <<aborting, top, slots, calls, fault>>

Resume ==
  /\ At("run")
  /\ Len(ctx) > 1 /\ Len(calls) = Running.base
  /\ ctx' = SubSeq(ctx, 1, Len(ctx) - 1)
  /\ UNCHANGED <<aborting, torn, top, slots, calls, fault>>

----------------------------------------------------------------------------
(* __TCPrivateShadowPush. *)

PushLoad ==
  /\ At("push")
  /\ Become([Running EXCEPT !.at = "store", !.r = top])
  /\ UNCHANGED <<aborting, torn, top, slots, calls, fault>>

(* The entry a store through the pointer r writes.                          *)
Slot(r) == r + 1

PushStore ==
  /\ At("store")
  /\ IF Slot(Running.r) \in 1..Size
     THEN /\ slots' = [slots EXCEPT ![Slot(Running.r)] = Running.lr]
          /\ Become([Running EXCEPT !.at = "commit"])
          /\ UNCHANGED fault
     ELSE fault' = "guard" /\ UNCHANGED <<slots, ctx>>
  /\ UNCHANGED <<aborting, torn, top, calls>>

PushCommit ==
  /\ At("commit")
  /\ top' = Running.r + 1
  /\ calls' = Append(calls, [home |-> Running.home, saved |-> Running.lr])
  /\ BackToApplication
  /\ UNCHANGED <<aborting, torn, slots, fault>>

----------------------------------------------------------------------------
(* __TCPrivateShadowAssertReturn, ...Fast and __TCPrivateShadowAssert.      *)

AssertLoad ==
  /\ At("load")
  /\ Become([Running EXCEPT !.at = "take", !.r = top])
  /\ UNCHANGED <<aborting, torn, top, slots, calls, fault>>

AssertTake ==
  /\ At("take")
  /\ IF Running.r \in 1..Size
     THEN /\ Become([Running EXCEPT !.at = "drop", !.r = Running.r - 1, !.x = slots[Running.r]])
          /\ UNCHANGED fault
     ELSE fault' = "guard" /\ UNCHANGED ctx
  /\ UNCHANGED <<aborting, torn, top, slots, calls>>

(* Mutants: the pop is not committed, or twice; the untrusted LR is kept.   *)
DroppedTop(r) == top
PoppedTwice(r) == r - 1
LrKept(c) == c.lr

(* What a pop writes back: the pointer, decremented by the load.            *)
NewTop(r) == r

(* Without ABORTING_SHADOWSTACK the loaded entry replaces LR.               *)
LrAfter(c) == IF aborting THEN c.lr ELSE c.x

AssertDrop ==
  /\ At("drop")
  /\ top' = NewTop(Running.r)
  /\ calls' = SubSeq(calls, 1, Len(calls) - 1)
  /\ Become([Running EXCEPT !.at = IF aborting THEN "check" ELSE "leave",
                            !.lr = LrAfter(Running), !.home = calls[Len(calls)].home])
  /\ UNCHANGED <<aborting, torn, slots, fault>>

(* Mutants: no comparison; one that fails for every tail call.              *)
MismatchNever(c) == FALSE
MismatchTail(c) == c.tail \/ c.x # c.lr

Mismatch(c) == c.x # c.lr

AssertCheck ==
  /\ At("check")
  /\ IF Mismatch(Running) THEN fault' = "panic" /\ UNCHANGED ctx
     ELSE Become([Running EXCEPT !.at = "leave"]) /\ UNCHANGED fault
  /\ UNCHANGED <<aborting, torn, top, slots, calls>>

(* `bxns lr`: the function returns to its caller.                           *)
LeaveToCaller ==
  /\ At("leave") /\ ~Running.tail
  /\ BackToApplication
  /\ fault' = IF Running.lr = Running.home THEN "none" ELSE "astray"
  /\ UNCHANGED <<aborting, torn, top, slots, calls>>

(* `bxns r12`: the function jumps to another one, which will return to the  *)
(* same caller and pushes LR first.                                         *)
LeaveToContinuation ==
  /\ At("leave") /\ Running.tail
  /\ Become([Fresh(Running.base) EXCEPT !.at = "push", !.lr = Running.lr,
                                        !.home = Running.home])
  /\ UNCHANGED <<aborting, torn, top, slots, calls, fault>>

(* The panic handler and the MPU fault never return; a stray program is not *)
(* followed.                                                                *)
Stopped == fault # "none" /\ UNCHANGED vars

----------------------------------------------------------------------------
ShadowPush == PushLoad \/ PushStore \/ PushCommit

ShadowAssert ==
  \/ AssertLoad \/ AssertTake \/ AssertDrop \/ AssertCheck
  \/ LeaveToCaller \/ LeaveToContinuation

Next ==
  \/ \E site \in Sites : Call(site)
  \/ \E tail \in BOOLEAN : Epilogue(tail)
  \/ \E i \in DOMAIN calls, site \in Sites : StrayWrite(i, site)
  \/ Interrupt \/ Resume
  \/ ShadowPush \/ ShadowAssert
  \/ Stopped

Spec == Init /\ [][Next]_vars

----------------------------------------------------------------------------
(* Properties. *)

(* The pointer stays between the guard pages (g_shadow_stack_top), and every *)
(* other variable has its type.                                             *)
TypeOK ==
  /\ aborting \in BOOLEAN
  /\ top \in 0..Size
  /\ slots \in [1..Size -> Sites]
  /\ calls \in Seq(Calls)
  /\ ctx \in Seq(Contexts) /\ ctx # << >>
  /\ fault \in {"none", "panic", "guard", "astray"}

(* Every function returns to its caller, whatever handlers and stray writes *)
(* do in between, also through tail calls (the `bxns` of the assert         *)
(* gateways).                                                               *)
AlwaysHome == fault # "astray"

(* They do unless a handler came between the two stores of a push.          *)
ReturnsHome == torn \/ AlwaysHome

(* The assert gateways branch to TCShadowStackMismatch only for a function  *)
(* whose saved return address has been overwritten.                         *)
NoFalseAlarm == fault = "panic" => torn \/ Running.lr # Running.home

(* However the loads and stores of pushes, pops and handlers interleave,    *)
(* g_shadow_stack_top counts the calls in progress: no push is lost and no  *)
(* entry is popped twice.  The entries below it are the return addresses of *)
(* those calls, in order, unless a handler came between the two stores of a *)
(* push.                                                                    *)
Mirror ==
  /\ top = Len(calls)
  /\ torn \/ \A i \in DOMAIN calls : slots[i] = calls[i].home

=============================================================================
