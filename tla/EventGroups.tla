---------------------------- MODULE EventGroups ----------------------------
(***************************************************************************)
(* Event groups of the FreeRTOS kernel                                     *)
(* (src/examples/freertos/event_groups.c): sets of bits that tasks wait    *)
(* for.  Everything but clearing bits happens with the scheduler suspended *)
(* and not in a critical section: interrupts come, but cannot see it.      *)
(***************************************************************************)
EXTENDS TaskCalls

VARIABLES
  group  \* uxEventBits of every group, and whether the group exists

NewGroup == [exists |-> TRUE, bits |-> {}]

GroupsInit == group = [g \in Groups |-> NewGroup]

Waiting(g) == <<"bits", g>>

(* Mutant: any of the bits is enough.                                       *)
MetByAny(bits, wanted, all) == wanted \cap bits # {}

(* prvTestWaitCondition.                                                    *)
Met(bits, wanted, all) == IF all THEN wanted \subseteq bits ELSE wanted \cap bits # {}

Satisfied(s, t, bits) == Met(bits, s.bits[t].bits, s.bits[t].all)

Unblocked == [NoBits EXCEPT !.inUse = TRUE, !.satisfied = TRUE]

(* Mutant: the walk ends with the first task that is woken.                 *)
WokenFirst(s, g, bits) ==
  LET waiting == s.events[Waiting(g)]
  IN  {waiting[i] : i \in {j \in DOMAIN waiting :
         \A k \in 1..j : Satisfied(s, waiting[k], bits) <=> k = j}}

(* Who is woken when these are the bits.                                    *)
Woken(s, g, bits) == {t \in Range(s.events[Waiting(g)]) : Satisfied(s, t, bits)}

(* The walk along the list of those who wait.                               *)
Wake(s, g, tasks) ==
  FoldLeft(LAMBDA a, t : IF t \in tasks THEN RemoveFromUnordered(a, t, Unblocked) ELSE a,
           s, s.events[Waiting(g)])

(* The bits that those who are woken want cleared.                          *)
Cleared(s, tasks) == UNION {s.bits[t].bits : t \in {u \in tasks : s.bits[u].clear}}

----------------------------------------------------------------------------
(* xEventGroupSetBits, xEventGroupClearBits, vEventGroupDelete. *)

SetBits == At("setBits", "start") /\ GoTo("walk", SuspendAll(sched)) /\ UNCHANGED group

SetBitsWalk ==
  /\ At("setBits", "walk")
  /\ LET bits == group[Top.obj].bits \cup Top.arg
         woken == Woken(sched, Top.obj, bits)
     IN  /\ group' = [group EXCEPT ![Top.obj].bits = bits \ Cleared(sched, woken)]
         /\ GoTo("resume", Wake(sched, Top.obj, woken))

ClearBits ==
  /\ At("clearBits", "start")
  /\ group' = [group EXCEPT ![Top.obj].bits = @ \ Top.arg]
  /\ Return(sched)

DeleteGroup == At("deleteGroup", "start") /\ GoTo("walk", SuspendAll(sched)) /\ UNCHANGED group

DeleteGroupWalk ==
  /\ At("deleteGroup", "walk")
  /\ group' = [group EXCEPT ![Top.obj] = [exists |-> FALSE, bits |-> {}]]
  /\ GoTo("resume", Wake(sched, Top.obj, Range(sched.events[Waiting(Top.obj)])))

GroupResume ==
  /\ At("setBits", "resume") \/ At("deleteGroup", "resume")
  /\ Return(ResumeAll(sched)) /\ UNCHANGED group

CreateGroup ==
  /\ At("createGroup", "start")
  /\ group' = [group EXCEPT ![Top.obj] = NewGroup]
  /\ Return(sched)

----------------------------------------------------------------------------
(* xEventGroupWaitBits and xEventGroupSync. *)

AtGroup(at) == At("waitBits", at) \/ At("sync", at)

(* Top.arg.bits is what the call waits for.  A sync clears them always.     *)
Wanted == [NoBits EXCEPT !.bits = Top.arg.bits, !.clear = Top.arg.clear, !.all = Top.arg.all]

ClearedIfMet(bits) ==
  IF Met(bits, Top.arg.bits, Top.arg.all) /\ Top.arg.clear THEN bits \ Top.arg.bits ELSE bits

GroupSuspend == AtGroup("start") /\ GoTo("test", SuspendAll(sched)) /\ UNCHANGED group

(* What is left to do when the bits are these: return or wait.              *)
PlaceUnless(met, s) ==
  LET waits == ~met /\ Top.wait > 0
  IN  /\ sched' = IF waits THEN PlaceOnUnordered(s, Waiting(Top.obj), Wanted, Top.wait) ELSE s
      /\ stack' = [stack EXCEPT ![me][1] =
           [@ EXCEPT !.at = "resume", !.then = IF waits THEN "wait" ELSE "return"]]
      /\ UNCHANGED scenario

WaitBitsTest ==
  /\ At("waitBits", "test")
  /\ group' = [group EXCEPT ![Top.obj].bits = ClearedIfMet(@)]
  /\ PlaceUnless(Met(group[Top.obj].bits, Top.arg.bits, Top.arg.all), sched)

Rendezvous(bits, met) == IF met THEN bits \ Top.arg.bits ELSE bits

(* The bits of this task are set by a call of xEventGroupSetBits in the     *)
(* middle, whose own suspension of the scheduler changes nothing.           *)
SyncTest ==
  /\ At("sync", "test")
  /\ LET bits == group[Top.obj].bits \cup Top.arg.set
         woken == Woken(sched, Top.obj, bits)
         left == bits \ Cleared(sched, woken)
         met == Top.arg.bits \subseteq bits
     IN  /\ group' = [group EXCEPT ![Top.obj].bits = Rendezvous(left, met)]
         /\ PlaceUnless(met, Wake(sched, Top.obj, woken))

GroupReturn ==
  /\ AtGroup("resume")
  /\ LET s == ResumeAll(sched)
     IN  IF Top.then = "return" THEN Return(s)
         ELSE GoTo(IF Yielded(s) THEN "woken" ELSE "yield", s)
  /\ UNCHANGED group

GroupYield == AtGroup("yield") /\ GoTo("woken", Yield(sched)) /\ UNCHANGED group

(* uxTaskResetEventItemValue: reads the item and the priority, and writes   *)
(* the item; not in a critical section.                                     *)
GroupWoken ==
  /\ AtGroup("woken")
  /\ stack' = [stack EXCEPT ![me][1] =
       [@ EXCEPT !.at = "reset", !.flag = sched.bits[me].satisfied,
                 !.wait = MaxPriorities - sched.prio[me]]]
  /\ UNCHANGED <<sched, scenario, group>>

GroupReset ==
  /\ AtGroup("reset")
  /\ LET s == [sched EXCEPT !.bits[me] = NoBits, !.evValue[me] = Top.wait]
     IN  IF Top.flag THEN Return(s) ELSE GoTo("test again", s)
  /\ UNCHANGED group

(* The time is over, but the bits may have come in the meantime.            *)
GroupTestAgain ==
  /\ AtGroup("test again")
  /\ group' = [group EXCEPT ![Top.obj].bits = ClearedIfMet(@)]
  /\ Return(sched)

----------------------------------------------------------------------------

GroupCalls == {"setBits", "clearBits", "waitBits", "sync", "deleteGroup"}

InGroupCall(t, g) == \E i \in DOMAIN stack[t] : stack[t][i].op \in GroupCalls /\ stack[t][i].obj = g

(* A group is used while it exists, and deleted when nobody uses it who     *)
(* does not wait for its bits.                                              *)
LegalGroupCall(call) ==
  /\ call.op \in GroupCalls => group[call.obj].exists
  /\ call.op = "createGroup" => ~group[call.obj].exists
  /\ call.op = "deleteGroup" =>
       \A t \in Tasks \ {me} :
         InGroupCall(t, call.obj) => Contains(sched.events[Waiting(call.obj)], t)

GroupStep ==
  \/ SetBits \/ SetBitsWalk \/ ClearBits \/ GroupResume
  \/ CreateGroup \/ DeleteGroup \/ DeleteGroupWalk
  \/ GroupSuspend \/ WaitBitsTest \/ SyncTest \/ GroupReturn \/ GroupYield
  \/ GroupWoken \/ GroupReset \/ GroupTestAgain

=============================================================================
