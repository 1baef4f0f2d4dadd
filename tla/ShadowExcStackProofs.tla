------------------------ MODULE ShadowExcStackProofs ------------------------
(***************************************************************************)
(* Theorems about ShadowExcStack, for every number of priorities.          *)
(***************************************************************************)
EXTENDS ShadowExcStack, TLAPS

(* Sequences: the last element, and an update of it.                        *)
LEMMA LastElement ==
  ASSUME NEW S, NEW s \in Seq(S), s # << >>
  PROVE  Len(s) \in Nat \ {0} /\ Len(s) \in DOMAIN s /\ s[Len(s)] \in S
OBVIOUS

LEMMA TopType ==
  ASSUME TypeOK, act # << >>
  PROVE  Top \in Activations /\ Len(act) \in Nat \ {0}
<1>1. act \in Seq(Activations)
  BY DEF TypeOK
<1> QED BY <1>1, LastElement DEF Top

(* An action that only moves the running exception to another location.     *)
LEMMA SetAt ==
  ASSUME TypeOK, act # << >>, NEW x \in Locations
  PROVE  LET t == [act EXCEPT ![Len(act)].at = x]
         IN  /\ t \in Seq(Activations)
             /\ Len(t) = Len(act)
             /\ \A i \in 1..(Len(act) - 1) : t[i] = act[i]
             /\ t[Len(act)] = [Top EXCEPT !.at = x]
<1>1. act \in Seq(Activations) /\ Len(act) \in Nat \ {0} /\ Top \in Activations
  BY TopType DEF TypeOK
<1>2. [Top EXCEPT !.at = x] \in Activations
  BY <1>1 DEF Activations
<1> DEFINE t == [act EXCEPT ![Len(act)].at = x]
<1>3. t = [act EXCEPT ![Len(act)] = [Top EXCEPT !.at = x]]
  BY DEF Top
<1> HIDE DEF t
<1>4. /\ t \in Seq(Activations) /\ Len(t) = Len(act)
      /\ \A i \in 1..(Len(act) - 1) : t[i] = act[i]
      /\ t[Len(act)] = [Top EXCEPT !.at = x]
  BY <1>1, <1>2, <1>3
<1> QED BY <1>4 DEF t

(* The values popShadowExcStack and pushShadowExcStack read from memory.    *)
LEMMA MemType ==
  ASSUME TypeOK, NEW a \in Int
  PROVE  Mem(a) \in Saved
<1>1. Zeros \in Saved
  BY DEF Zeros, Saved, Words, LrWords, ExcReturns
<1>2. CASE \E i \in DOMAIN act : act[i].frame = a
  <2> DEFINE i == CHOOSE i \in DOMAIN act : act[i].frame = a
  <2>1. i \in DOMAIN act
    BY <1>2
  <2>2. act[i] \in Activations
    BY <2>1 DEF TypeOK
  <2> QED BY <1>2, <2>2 DEF Mem, Activations
<1>3. CASE ~ \E i \in DOMAIN act : act[i].frame = a
  BY <1>1, <1>3 DEF Mem
<1> QED BY <1>2, <1>3

LEMMA AsFrameType ==
  ASSUME TypeOK, NEW i \in Iterators
  PROVE  AsFrame(i) \in Frame
<1>1. Mem(i.frame) \in Saved
  BY MemType DEF Iterators
<1> QED BY <1>1 DEF AsFrame, Frame, Saved, Iterators

LEMMA NewIteratorType ==
  ASSUME TypeOK, NEW r \in LrWords
  PROVE  NewIterator(r) \in Iterators
<1>1. Msp \in Int
  BY TopType DEF Msp, Activations
<1> QED BY <1>1 DEF NewIterator, Iterators, FrameAddress, Dummy, Psp

LEMMA MovedType ==
  ASSUME TypeOK, NEW i \in Iterators
  PROVE  Moved(i) \in Iterators
<1>1. Mem(i.frame) \in Saved
  BY MemType DEF Iterators
<1> QED BY <1>1 DEF Moved, Iterators, FrameAddress, Dummy, Psp, FrameSize, Saved

LEMMA TopFrameType ==
  ASSUME TypeOK, ses # << >>
  PROVE  ses[Len(ses)] \in Frame /\ Len(ses) \in Nat \ {0}
<1>1. ses \in Seq(Frame)
  BY DEF TypeOK
<1> QED BY <1>1, LastElement

LEMMA ReverseType ==
  ASSUME NEW S, NEW s \in Seq(S)
  PROVE  /\ Reverse(s) \in Seq(S)
         /\ Len(Reverse(s)) = Len(s)
         /\ \A i \in 1..Len(s) : Reverse(s)[i] = s[Len(s) - i + 1]
<1>1. \A i \in 1..Len(s) : Len(s) - i + 1 \in 1..Len(s)
  OBVIOUS
<1>2. \A i \in 1..Len(s) : s[(Len(s) - i) + 1] \in S
  BY <1>1
<1> QED BY <1>2 DEF Reverse

LEMMA EnteredType ==
  ASSUME TypeOK, NEW p \in Prios, NEW psp \in BOOLEAN, NEW ftype \in FrameTypes,
         NEW held \in Locals
  PROVE  Entered(p, psp, ftype, held) \in Activations
<1>1. NewExcReturn(psp, ftype) \in ExcReturns
  BY FrameAssumption DEF NewExcReturn, ExcReturns
<1>2. Msp \in Int /\ held \in Int
  BY TopType, StackAssumption DEF Msp, Activations
<1>3. Stacked(At, IF act = << >> THEN {} ELSE Top.ret) \in Saved /\ Zeros \in Saved
  BY TopType DEF Stacked, Saved, Words, LrWords, ExcReturns, Activations, Zeros
<1>4. \A r, m : m \in Int => FrameAddress(r, m) \in Int
  BY DEF FrameAddress, Dummy, Psp
<1>5. StackedSize(ftype) \in Int
  BY DEF StackedSize
<1> DEFINE ret == NewExcReturn(psp, ftype)
           nsp == IF "S" \notin ret /\ "SPSEL" \notin ret
                  THEN (Msp - held) - StackedSize(ftype) ELSE Msp - held
           sv == IF "S" \in ret THEN Zeros
                 ELSE Stacked(At, IF act = << >> THEN {} ELSE Top.ret)
<1>6. Entered(p, psp, ftype, held) =
        [prio |-> p, at |-> "entry", ret |-> ret, sp |-> nsp,
         frame |-> FrameAddress(ret, nsp), saved |-> sv]
  BY DEF Entered, FrameAddress
<1>7. nsp \in Int
  BY <1>2, <1>5
<1>8. FrameAddress(ret, nsp) \in Int
  BY <1>4, <1>7
<1>9. sv \in Saved
  BY <1>3
<1>10. ret \in ExcReturns
  BY <1>1
<1> HIDE DEF ret, nsp, sv
<1> QED BY <1>6, <1>7, <1>8, <1>9, <1>10 DEF Activations, Locations

----------------------------------------------------------------------------
(* Type correctness of every implementation, by cases on the actions.       *)

LEMMA NoIteratorType == NoIterator \in Iterators
BY DEF NoIterator, Iterators, LrWords, ExcReturns

LEMMA InitType == Init => TypeOK
<1>1. \A S : << >> \in Seq(S)
  OBVIOUS
<1> QED BY <1>1, NoIteratorType DEF Init, TypeOK

LEMMA StartHandlerType ==
  ASSUME TypeOK, act # << >>, StartHandler, ses' \in Seq(Frame),
         fault' \in {"none", "panic", "derailed"}
  PROVE  TypeOK'
<1>1. act' \in Seq(Activations)
  BY SetAt DEF StartHandler, Locations
<1>2. \A S : << >> \in Seq(S)
  OBVIOUS
<1> QED BY <1>1, <1>2, NoIteratorType DEF StartHandler, TypeOK

LEMMA ActType ==
  ASSUME TypeOK, act' \in Seq(Activations), threadAt' \in {"app", "secure"},
         pending' \subseteq Prios, faultmask' \in BOOLEAN,
         UNCHANGED <<impl, monitor, fault>>
  PROVE  TypeOK'
BY DEF TypeOK, monitor

LEMMA PopType ==
  ASSUME TypeOK, ExceptionReturn, act' \in Seq(Activations), pending' \subseteq Prios
  PROVE  TypeOK'
<1>1. Popped \in Seq(Frame)
  <2>1. CASE impl = "Null"
    BY <2>1 DEF Popped, TypeOK
  <2>2. CASE impl # "Null"
    <3>1. ses # << >> /\ ses \in Seq(Frame)
      BY <2>2 DEF ExceptionReturn, PopAccepts, TypeOK
    <3>2. Len(ses) \in Nat \ {0}
      BY <3>1, LastElement
    <3>3. SubSeq(ses, 1, Len(ses) - 1) \in Seq(Frame)
      BY <3>1, <3>2
    <3> QED BY <2>2, <3>3 DEF Popped
  <2> QED BY <2>1, <2>2
<1> QED BY <1>1 DEF ExceptionReturn, TypeOK

LEMMA NextType == TypeOK /\ [Next]_vars => TypeOK'
<1> SUFFICES ASSUME TypeOK, [Next]_vars
             PROVE  TypeOK'
  OBVIOUS
<1>1. ASSUME NEW p \in Prios, Raise(p)
      PROVE  TypeOK'
  BY <1>1 DEF Raise, TypeOK, monitor
<1>2. ASSUME NEW p \in Prios, NEW psp \in BOOLEAN, NEW f \in FrameTypes, NEW h \in Locals,
             Preempt(p, psp, f, h)
      PROVE  TypeOK'
  <2>1. Append(act, Entered(p, psp, f, h)) \in Seq(Activations)
    BY EnteredType DEF TypeOK
  <2> QED BY <1>2, <2>1, ActType DEF Preempt, TypeOK
<1>3. ASSUME NEW from \in {"app", "secure"}, NEW to \in {"app", "secure"}, MoveTo(from, to)
      PROVE  TypeOK'
  <2>1. act' \in Seq(Activations)
    BY <1>3, SetAt DEF MoveTo, TypeOK, Locations
  <2> QED BY <1>3, <2>1, ActType DEF MoveTo, TypeOK
<1>4. ASSUME NEW i \in DOMAIN act, NEW field \in StrayFields, StrayWrite(i, field)
      PROVE  TypeOK'
  <2> DEFINE w == IF field = "lr" THEN {"stray"} ELSE "stray"
             sv == [act[i].saved EXCEPT ![field] = w]
  <2>0. act \in Seq(Activations) /\ act[i] \in Activations
    BY DEF TypeOK
  <2>1. act \in Seq(Activations) /\ act[i] \in Activations /\ act[i].saved \in Saved
    BY <2>0 DEF Activations
  <2>2. sv \in Saved
    <3>1. field \in {"pc", "lr", "r12"}
      BY StrayAssumption
    <3>2. CASE field = "pc"
      BY <2>1, <3>2 DEF Saved, Words
    <3>3. CASE field = "lr"
      BY <2>1, <3>3 DEF Saved, LrWords
    <3>4. CASE field = "r12"
      BY <2>1, <3>4 DEF Saved, Words
    <3> QED BY <3>1, <3>2, <3>3, <3>4
  <2>3. act' = [act EXCEPT ![i] = [act[i] EXCEPT !.saved = sv]]
    BY <1>4 DEF StrayWrite
  <2>4. [act[i] EXCEPT !.saved = sv] \in Activations
    BY <2>1, <2>2 DEF Activations
  <2> HIDE DEF sv
  <2>5. act' \in Seq(Activations)
    BY <2>1, <2>3, <2>4
  <2> QED BY <1>4, <2>5, ActType DEF StrayWrite, TypeOK
<1>5. CASE Stage0
  <2>1. act' \in Seq(Activations)
    BY <1>5, SetAt DEF Stage0, Locations
  <2> QED BY <1>5, <2>1, ActType DEF Stage0, TypeOK
<1>6. CASE EnterSafe
  <2>1. act' \in Seq(Activations)
    BY <1>6, SetAt DEF EnterSafe, Entering, Locations
  <2>2. NewIterator(Top.ret) \in Iterators
    BY <1>6, TopType, NewIteratorType DEF EnterSafe, Entering, Activations, LrWords
  <2> QED BY <1>6, <2>1, <2>2 DEF EnterSafe, TypeOK
<1>7. CASE PushKnown
  <2>1. ses' \in Seq(Frame)
    BY <1>7, ReverseType DEF PushKnown, TypeOK
  <2> QED BY <1>7, <2>1, StartHandlerType DEF PushKnown, Looping, TypeOK
<1>8. CASE PushNext
  <2>1. AsFrame(it) \in Frame /\ Moved(it) \in Iterators
    BY AsFrameType, MovedType DEF TypeOK
  <2> QED BY <1>8, <2>1 DEF PushNext, machine, TypeOK
<1>9. CASE PushLast
  <2>1. Append(buf, AsFrame(it)) \in Seq(Frame)
    BY AsFrameType DEF TypeOK
  <2>3. Reverse(Append(buf, AsFrame(it))) \in Seq(Frame)
    BY <2>1, ReverseType
  <2>2. ses' \in Seq(Frame)
    BY <1>9, <2>3 DEF PushLast, TypeOK
  <2> QED BY <1>9, <2>2, StartHandlerType DEF PushLast, Looping, TypeOK
<1>10. CASE EnterNaive \/ EnterUnnested \/ EnterNull
  <2>1. act # << >> /\ StartHandler
    BY <1>10 DEF EnterNaive, EnterUnnested, EnterNull, Entering
  <2>2. AsFrame(NewIterator(Top.ret)) \in Frame
    BY <2>1, TopType, NewIteratorType, AsFrameType DEF Activations, LrWords
  <2>3. [pc |-> "zero", lr |-> {}, exc_return |-> Top.ret, frame |-> Dummy,
         r12 |-> "zero"] \in Frame
    BY <2>1, TopType DEF Frame, Words, LrWords, ExcReturns, Activations, Dummy
  <2>5. \A f \in Frame : << f >> \in Seq(Frame) /\ Append(ses, f) \in Seq(Frame)
    BY DEF TypeOK
  <2>4. ses' \in Seq(Frame) /\ fault' \in {"none", "panic", "derailed"}
    <3>1. CASE EnterNaive
      BY <3>1, <2>2, <2>5 DEF EnterNaive, TypeOK
    <3>2. CASE EnterUnnested
      BY <3>2, <2>2, <2>5 DEF EnterUnnested, TypeOK
    <3>3. CASE EnterNull
      BY <3>3, <2>3, <2>5 DEF EnterNull, TypeOK
    <3> QED BY <1>10, <3>1, <3>2, <3>3
  <2> QED BY <2>1, <2>4, StartHandlerType
<1>11. CASE ReturnTrampoline
  <2>1. act' \in Seq(Activations)
    BY <1>11, SetAt DEF ReturnTrampoline, Locations
  <2> QED BY <1>11, <2>1, ActType DEF ReturnTrampoline, TypeOK
<1>12. CASE LeavePanics
  BY <1>12 DEF LeavePanics, TypeOK, machine, monitor
<1>13. CASE LeaveInterrupt
  <2>1. act # << >> /\ act \in Seq(Activations)
    BY <1>13 DEF LeaveInterrupt, ExceptionReturn, Leaving, TypeOK
  <2>2. Len(act) \in Nat \ {0}
    BY <2>1, LastElement
  <2>3. Outer \in Seq(Activations)
    BY <2>1, <2>2 DEF Outer
  <2> QED BY <1>13, <2>3, PopType DEF LeaveInterrupt, TypeOK
<1>14. ASSUME NEW p \in Prios, TailChain(p)
       PROVE  TypeOK'
  <2>1. act # << >> /\ act \in Seq(Activations)
    BY <1>14 DEF TailChain, ExceptionReturn, Leaving, TypeOK
  <2>2. Len(act) \in DOMAIN act /\ act[Len(act)] \in Activations
    BY <2>1, LastElement
  <2>3. act' = [act EXCEPT ![Len(act)] = [act[Len(act)] EXCEPT !.prio = p, !.at = "entry"]]
    BY <1>14, <2>1, <2>2 DEF TailChain
  <2>4. [act[Len(act)] EXCEPT !.prio = p, !.at = "entry"] \in Activations
    BY <2>2 DEF Activations, Locations
  <2>5. act' \in Seq(Activations)
    BY <2>1, <2>2, <2>3, <2>4
  <2> QED BY <1>14, <2>5, PopType DEF TailChain, TypeOK
<1>15. CASE Stopped \/ UNCHANGED vars
  BY <1>15 DEF Stopped, vars, machine, monitor, TypeOK
<1> QED
  BY <1>1, <1>2, <1>3, <1>4, <1>5, <1>6, <1>7, <1>8, <1>9, <1>10, <1>11, <1>12, <1>13,
     <1>14, <1>15
  DEF Next, EnterInterrupt, SecureCall, SecureReturn

(* Every variable keeps its type, in all four implementations.              *)
THEOREM TypeCorrect == Spec => []TypeOK
<1> QED BY InitType, NextType, PTL DEF Spec

----------------------------------------------------------------------------
(* The inductive invariant: of the machine, whatever the implementation ... *)

OnMsp(i) == "S" \notin act[i].ret /\ "SPSEL" \notin act[i].ret

(* The location the i-th active exception interrupted.                      *)
Below(i) == IF i = 1 THEN threadAt ELSE act[i - 1].at

(* EXC_RETURN tells what was interrupted and where its frame is.            *)
Nesting ==
  \A i \in DOMAIN act :
    /\ "MODE" \in act[i].ret <=> i = 1
    /\ "SPSEL" \in act[i].ret => i = 1
    /\ "S" \in act[i].ret <=> Below(i) = "secure"
    /\ "S" \in act[i].ret => act[i].saved = Zeros
    /\ act[i].frame = FrameAddress(act[i].ret, act[i].sp)
    /\ act[i].prio >= i
    /\ i < Len(act) => act[i].at \in {"entry", "app", "secure"}

(* FAULTMASK_NS covers the monitor and the trampolines that call it; with   *)
(* Unnested there is no need to, as no exception preempts another.          *)
Masking ==
  impl # "Unnested" => (faultmask <=> (act # << >> /\ At \in {"masked", "pushing", "leaving"}))

Alone == impl \in {"Unnested", "Null"} => Len(act) <= 1

OneSecure ==
  \A i, j \in DOMAIN act : "S" \in act[i].ret /\ "S" \in act[j].ret => i = j

(* Frames on the main stack are stacked one below the other ...             *)
StackOrder ==
  /\ \A i \in DOMAIN act : act[i].sp <= 0
  /\ \A i, j \in DOMAIN act :
       i < j => /\ act[j].sp <= act[i].sp
                /\ OnMsp(j) => act[j].sp < act[i].sp

(* ... and adjacent to one another within an entry chain.                   *)
ChainSpacing ==
  \A i \in DOMAIN act :
    i < Len(act) /\ act[i].at = "entry" =>
      act[i + 1].sp + StackedSize(act[i + 1].ret) = act[i].sp

(* ... and of the monitor.                                                  *)

(* Safe: the shadow stack records a prefix of the active exceptions, and    *)
(* those it does not record yet have neither run nor been changed.          *)
Recorded ==
  /\ Len(ses) + Len(buf) <= Len(act)
  /\ \A i \in DOMAIN ses : ses[i] = Protecting(i)
  /\ \A i \in DOMAIN act : HasEntered(i) => i <= Len(ses)
  /\ \A i \in DOMAIN act : i > Len(ses) => Intact(i)

(* Safe: the loop invariant of pushShadowExcStack.                          *)
Scanning ==
  IF act # << >> /\ At = "pushing"
  THEN LET m == Len(act) - Len(buf)
       IN  /\ m \in DOMAIN act /\ m >= Len(ses)
           /\ it = [msp |-> act[m].sp, exc_return |-> act[m].ret, frame |-> act[m].frame]
           /\ \A j \in DOMAIN buf : buf[j] = Protecting(Len(act) - j + 1)
  ELSE buf = << >>

Verdict ==
  /\ fault # "derailed"
  /\ fault = "panic" => \E i \in DOMAIN act : ~Intact(i)

(* Naive: `entered` lists the exceptions that have entered, which are those *)
(* recorded.                                                                *)
Entries(entered) ==
  /\ \A k, l \in DOMAIN ses : k < l => entered[k] < entered[l]
  /\ \A k \in DOMAIN ses : k <= entered[k] /\ HasEntered(entered[k])
  /\ \A i \in DOMAIN act : HasEntered(i) => \E k \in DOMAIN ses : entered[k] = i
  /\ \A k \in DOMAIN ses : /\ ses[k].exc_return = act[entered[k]].ret
                           /\ Intact(entered[k]) => ses[k] = Protecting(entered[k])

NaiveRecorded == \E entered \in [DOMAIN ses -> DOMAIN act] : Entries(entered)

UnnestedRecorded ==
  /\ ses # << >> => Len(ses) = 1 /\ act # << >> /\ HasEntered(1) /\ ses[1] = Protecting(1)
  /\ act # << >> => IF HasEntered(1) THEN ses # << >> ELSE Intact(1)

NullRecorded ==
  /\ Len(ses) <= 1
  /\ act # << >> /\ HasEntered(1) => ses # << >> /\ ses[Len(ses)].exc_return = act[1].ret

NotScanning == buf = << >> /\ At # "pushing"

MachineInv == Nesting /\ Masking /\ Alone /\ OneSecure /\ StackOrder /\ ChainSpacing

MonitorInv ==
  /\ impl = "Safe" => Recorded /\ Scanning
  /\ impl # "Safe" => NotScanning
  /\ impl = "Naive" => NaiveRecorded
  /\ impl = "Unnested" => UnnestedRecorded
  /\ impl = "Null" => NullRecorded
  /\ Verdict

Inv == TypeOK /\ MachineInv /\ MonitorInv

----------------------------------------------------------------------------
(* What the iterator finds on a stack the invariant describes.              *)

IteratorAt(m) == [msp |-> act[m].sp, exc_return |-> act[m].ret, frame |-> act[m].frame]

LEMMA ActAt ==
  ASSUME TypeOK, NEW i \in DOMAIN act
  PROVE  /\ act[i] \in Activations /\ i \in 1..Len(act) /\ Len(act) \in Nat
         /\ act[i].sp \in Int /\ act[i].frame \in Int /\ act[i].saved \in Saved
         /\ act[i].ret \in ExcReturns /\ act[i].prio \in Prios /\ act[i].at \in Locations
<1>1. act \in Seq(Activations)
  BY DEF TypeOK
<1>2. act[i] \in Activations /\ i \in 1..Len(act) /\ Len(act) \in Nat
  BY <1>1
<1> QED BY <1>2 DEF Activations

(* No two active exceptions have their frames at one address.               *)
LEMMA FramesDistinct ==
  ASSUME TypeOK, Nesting, OneSecure, StackOrder,
         NEW i \in DOMAIN act, NEW j \in DOMAIN act, act[i].frame = act[j].frame
  PROVE  i = j
<1>1. \A k \in DOMAIN act :
        /\ "S" \in act[k].ret => act[k].frame = 1
        /\ "S" \notin act[k].ret /\ "SPSEL" \in act[k].ret => act[k].frame = 2 /\ k = 1
        /\ OnMsp(k) => act[k].frame = act[k].sp
  BY DEF Nesting, FrameAddress, Dummy, Psp, OnMsp
<1>2. \A k \in DOMAIN act : act[k].sp \in Int /\ act[k].sp <= 0
  BY ActAt DEF StackOrder
<1>3. i \in Int /\ j \in Int
  BY ActAt
<1>4. CASE OnMsp(i) /\ OnMsp(j)
  BY <1>1, <1>2, <1>3, <1>4 DEF StackOrder
<1>5. CASE ~OnMsp(i) \/ ~OnMsp(j)
  BY <1>1, <1>2, <1>5 DEF OneSecure, OnMsp
<1> QED BY <1>4, <1>5

LEMMA MemAt ==
  ASSUME TypeOK, Nesting, OneSecure, StackOrder, NEW i \in DOMAIN act
  PROVE  Mem(act[i].frame) = act[i].saved
BY FramesDistinct DEF Mem

(* An intact frame is stored as the Frame that protects it.                 *)
LEMMA AsFrameAt ==
  ASSUME TypeOK, Nesting, OneSecure, StackOrder, NEW m \in DOMAIN act
  PROVE  /\ Intact(m) => AsFrame(IteratorAt(m)) = Protecting(m)
         /\ AsFrame(IteratorAt(m)) = Protecting(m) => Intact(m)
<1>1. Mem(IteratorAt(m).frame) = act[m].saved
  BY MemAt DEF IteratorAt
<1>2. AsFrame(IteratorAt(m)) =
        [pc |-> act[m].saved.pc, lr |-> act[m].saved.lr, exc_return |-> act[m].ret,
         frame |-> act[m].frame, r12 |-> act[m].saved.r12]
  BY <1>1 DEF AsFrame, IteratorAt
<1>3. act[m].saved \in Saved
  BY ActAt
<1>4. Original(m) \in Saved
  <2>1. m = 1 \/ m - 1 \in DOMAIN act
    BY ActAt DEF TypeOK
  <2>2. m = 1 \/ act[m - 1].ret \in ExcReturns
    BY <2>1, ActAt
  <2> QED BY <2>2 DEF Original, Stacked, Zeros, Saved, Words, LrWords, ExcReturns
<1>5. act[m].saved = Original(m) <=>
        /\ act[m].saved.pc = Original(m).pc /\ act[m].saved.lr = Original(m).lr
        /\ act[m].saved.r12 = Original(m).r12
  BY <1>3, <1>4 DEF Saved
<1> QED BY <1>2, <1>5 DEF Protecting, Intact

(* moveNext goes to the exception below exactly when that one has not       *)
(* executed anything yet, and then finds its frame.                         *)
LEMMA ChainBelow ==
  ASSUME TypeOK, Nesting, OneSecure, StackOrder, ChainSpacing,
         NEW m \in DOMAIN act, Intact(m)
  PROVE  /\ HasNext(IteratorAt(m)) <=> (m > 1 /\ act[m - 1].at = "entry")
         /\ HasNext(IteratorAt(m)) => /\ "SPSEL" \notin act[m].ret
                                      /\ Moved(IteratorAt(m)) = IteratorAt(m - 1)
<1>1. Mem(IteratorAt(m).frame) = Original(m)
  BY MemAt DEF IteratorAt, Intact
<1>2. m \in 1..Len(act) /\ Len(act) \in Nat
  BY ActAt
<1>3. HasNext(IteratorAt(m)) <=> m # 1 /\ Original(m).pc = "entry"
  BY <1>1 DEF HasNext, IteratorAt, IsEntryPc, Nesting
<1>4. CASE m = 1
  BY <1>3, <1>4
<1>5. CASE m # 1
  <2>1. m - 1 \in DOMAIN act /\ m - 1 < Len(act) /\ m > 1
    BY <1>2, <1>5 DEF TypeOK
  <2>2. CASE act[m - 1].at = "entry"
    <3>1. "S" \notin act[m].ret /\ "SPSEL" \notin act[m].ret
      BY <1>5, <2>2 DEF Nesting, Below
    <3>2. Original(m) = [pc |-> "entry", lr |-> act[m - 1].ret, r12 |-> "code"]
      BY <1>5, <2>2, <3>1 DEF Original, Stacked
    <3>3. act[m].sp + FrameSize(act[m].ret) = act[m - 1].sp
      BY <2>1, <2>2 DEF ChainSpacing, StackedSize, FrameSize
    <3>4. Moved(IteratorAt(m)) = IteratorAt(m - 1)
      BY <1>1, <2>1, <3>2, <3>3 DEF Moved, IteratorAt, Nesting
    <3> QED BY <1>3, <1>5, <2>1, <2>2, <3>1, <3>2, <3>4
  <2>3. CASE act[m - 1].at # "entry"
    BY <1>3, <1>5, <2>3 DEF Original, Stacked, Zeros
  <2> QED BY <2>2, <2>3
<1> QED BY <1>4, <1>5

----------------------------------------------------------------------------
(* An action that only moves the running exception leaves the stacked       *)
(* state, and so most of the invariant, alone.                              *)
LEMMA MoveTop ==
  ASSUME TypeOK, act # << >>, NEW x \in Locations,
         act' = [act EXCEPT ![Len(act)].at = x], threadAt' = threadAt
  PROVE  /\ act' # << >> /\ At' = x
         /\ Len(act') = Len(act) /\ Len(act) \in Nat \ {0}
         /\ DOMAIN act' = DOMAIN act /\ DOMAIN act = 1..Len(act)
         /\ \A i \in DOMAIN act :
              /\ act'[i].ret = act[i].ret /\ act'[i].sp = act[i].sp
              /\ act'[i].frame = act[i].frame /\ act'[i].saved = act[i].saved
              /\ act'[i].prio = act[i].prio
              /\ act'[i].at = IF i = Len(act) THEN x ELSE act[i].at
         /\ \A i \in DOMAIN act :
              /\ Below(i)' = Below(i)
              /\ Protecting(i)' = Protecting(i)
              /\ Intact(i)' <=> Intact(i)
<1>1. /\ act' \in Seq(Activations) /\ Len(act') = Len(act)
      /\ \A i \in 1..(Len(act) - 1) : act'[i] = act[i]
      /\ act'[Len(act)] = [Top EXCEPT !.at = x]
  BY SetAt
<1>2. act \in Seq(Activations) /\ Len(act) \in Nat \ {0} /\ Top \in Activations
  BY TopType DEF TypeOK
<1>3. DOMAIN act' = DOMAIN act /\ DOMAIN act = 1..Len(act) /\ act' # << >>
  BY <1>1, <1>2
<1>4. \A i \in DOMAIN act :
        /\ act'[i].ret = act[i].ret /\ act'[i].sp = act[i].sp
        /\ act'[i].frame = act[i].frame /\ act'[i].saved = act[i].saved
        /\ act'[i].prio = act[i].prio
        /\ act'[i].at = IF i = Len(act) THEN x ELSE act[i].at
  <2> TAKE i \in DOMAIN act
  <2>1. CASE i = Len(act)
    BY <1>1, <1>2, <2>1 DEF Top, Activations
  <2>2. CASE i # Len(act)
    BY <1>1, <1>2, <1>3, <2>2
  <2> QED BY <2>1, <2>2
<1>5. At' = x
  BY <1>1, <1>2, <1>3, <1>4 DEF At, Top
<1>6. \A i \in DOMAIN act : i = 1 \/ (i - 1 \in DOMAIN act /\ i - 1 # Len(act))
  BY <1>2, <1>3
<1>7. \A i \in DOMAIN act : Below(i)' = Below(i) /\ Original(i)' = Original(i)
  BY <1>4, <1>6 DEF Below, Original
<1>8. \A i \in DOMAIN act : Protecting(i)' = Protecting(i) /\ (Intact(i)' <=> Intact(i))
  BY <1>4, <1>7 DEF Protecting, Intact
<1> QED BY <1>1, <1>2, <1>3, <1>4, <1>5, <1>7, <1>8

LEMMA MoveTopInv ==
  ASSUME TypeOK, act # << >>, NEW x \in Locations,
         act' = [act EXCEPT ![Len(act)].at = x], threadAt' = threadAt,
         Nesting, OneSecure, StackOrder, ChainSpacing
  PROVE  Nesting' /\ OneSecure' /\ StackOrder' /\ ChainSpacing'
<1>1. Nesting'
  <2>1. DOMAIN act' = DOMAIN act /\ Len(act') = Len(act) /\ DOMAIN act = 1..Len(act)
    BY MoveTop
  <2>2. ASSUME NEW i \in DOMAIN act
        PROVE  /\ "MODE" \in act'[i].ret <=> i = 1
               /\ "SPSEL" \in act'[i].ret => i = 1
               /\ "S" \in act'[i].ret <=> Below(i)' = "secure"
               /\ "S" \in act'[i].ret => act'[i].saved = Zeros
               /\ act'[i].frame = FrameAddress(act'[i].ret, act'[i].sp)
               /\ act'[i].prio >= i
    <3>1. /\ act'[i].ret = act[i].ret /\ act'[i].sp = act[i].sp
          /\ act'[i].frame = act[i].frame /\ act'[i].saved = act[i].saved
          /\ act'[i].prio = act[i].prio /\ Below(i)' = Below(i)
      BY MoveTop
    <3>2. /\ "MODE" \in act[i].ret <=> i = 1
          /\ "SPSEL" \in act[i].ret => i = 1
          /\ "S" \in act[i].ret <=> Below(i) = "secure"
          /\ "S" \in act[i].ret => act[i].saved = Zeros
          /\ act[i].frame = FrameAddress(act[i].ret, act[i].sp)
          /\ act[i].prio >= i
      BY DEF Nesting
    <3> QED BY <3>1, <3>2
  <2>3. ASSUME NEW i \in DOMAIN act, i < Len(act')
        PROVE  act'[i].at \in {"entry", "app", "secure"}
    <3>1. act'[i].at = act[i].at /\ i < Len(act)
      BY MoveTop, <2>1, <2>3
    <3> QED BY <3>1 DEF Nesting
  <2> QED BY <2>1, <2>2, <2>3 DEF Nesting, FrameAddress, Zeros
<1>2. OneSecure'
  BY MoveTop DEF OneSecure
<1>3. StackOrder'
  BY MoveTop DEF StackOrder, OnMsp
<1>4. ChainSpacing'
  <2>1. \A i \in DOMAIN act : i < Len(act) => i + 1 \in DOMAIN act
    BY MoveTop
  <2> QED BY <2>1, MoveTop DEF ChainSpacing
<1> QED BY <1>1, <1>2, <1>3, <1>4

----------------------------------------------------------------------------
(* Every action keeps the invariant of the machine, and what it does to the *)
(* active exceptions as far as the monitor is concerned.                    *)

MachineState == TypeOK /\ NestedSecure = FALSE /\ MachineInv

(* The i-th active exception keeps its frame and what protects it.          *)
Kept(i) ==
  /\ act'[i].ret = act[i].ret /\ act'[i].sp = act[i].sp /\ act'[i].frame = act[i].frame
  /\ Protecting(i)' = Protecting(i) /\ (Intact(i)' <=> Intact(i))

LEMMA SameMachine ==
  ASSUME MachineState, UNCHANGED <<impl, threadAt, act, faultmask>>, TypeOK'
  PROVE  /\ MachineState' /\ At' = At
         /\ \A i : Kept(i) /\ HasEntered(i)' = HasEntered(i)
<1>1. MachineState'
  BY DEF MachineState, MachineInv, Nesting, Below, Masking, At, Top, Alone, OneSecure,
         StackOrder, OnMsp, ChainSpacing
<1>2. At' = At /\ \A i : Kept(i) /\ HasEntered(i)' = HasEntered(i)
  BY DEF Kept, At, Top, Protecting, Original, Intact, HasEntered
<1> QED BY <1>1, <1>2

(* The running exception moves to another location ...                      *)
TopMoves(x) ==
  /\ act # << >> /\ act' = [act EXCEPT ![Len(act)].at = x]
  /\ UNCHANGED <<impl, threadAt>>
  /\ impl # "Unnested" => (faultmask' <=> x \in {"masked", "pushing", "leaving"})

LEMMA MoveTopMachine ==
  ASSUME MachineState, NEW x \in Locations, TopMoves(x), TypeOK'
  PROVE  /\ MachineState' /\ At' = x /\ act' # << >>
         /\ Len(act') = Len(act) /\ Len(act) \in Nat \ {0}
         /\ DOMAIN act' = DOMAIN act /\ DOMAIN act = 1..Len(act)
         /\ \A i \in DOMAIN act : /\ Kept(i)
                                  /\ act'[i].at = IF i = Len(act) THEN x ELSE act[i].at
<1>1. /\ act # << >> /\ act' = [act EXCEPT ![Len(act)].at = x] /\ threadAt' = threadAt
      /\ impl' = impl /\ TypeOK
      /\ impl # "Unnested" => (faultmask' <=> x \in {"masked", "pushing", "leaving"})
  BY DEF TopMoves, MachineState
<1>2. /\ act' # << >> /\ At' = x
      /\ Len(act') = Len(act) /\ Len(act) \in Nat \ {0}
      /\ DOMAIN act' = DOMAIN act /\ DOMAIN act = 1..Len(act)
      /\ \A i \in DOMAIN act : /\ Kept(i)
                               /\ act'[i].at = IF i = Len(act) THEN x ELSE act[i].at
  BY <1>1, MoveTop DEF Kept
<1>3. Nesting' /\ OneSecure' /\ StackOrder' /\ ChainSpacing'
  BY <1>1, MoveTopInv DEF MachineState, MachineInv
<1>4. Masking' /\ Alone'
  BY <1>1, <1>2 DEF MachineState, MachineInv, Masking, Alone
<1> QED BY <1>2, <1>3, <1>4 DEF MachineState, MachineInv

(* ... or thread code does.                                                 *)
LEMMA MoveToMachine ==
  ASSUME MachineState, NEW from \in {"app", "secure"}, NEW to \in {"app", "secure"},
         MoveTo(from, to), TypeOK'
  PROVE  /\ MachineState' /\ UNCHANGED <<impl, ses, it, buf, fault>> /\ At' # "pushing"
         /\ At # "pushing" /\ DOMAIN act' = DOMAIN act /\ Len(act') = Len(act)
         /\ \A i \in DOMAIN act : Kept(i) /\ HasEntered(i)' = HasEntered(i)
<1>1. UNCHANGED <<impl, ses, it, buf, fault>> /\ UNCHANGED faultmask /\ At = from
  BY DEF MoveTo, monitor
<1>2. CASE act = << >>
  <2>1. act' = << >> /\ DOMAIN act = {} /\ Len(act) = 0 /\ threadAt' = to
    BY <1>2 DEF MoveTo
  <2>2. Nesting' /\ OneSecure' /\ StackOrder' /\ ChainSpacing' /\ Alone' /\ Masking'
    BY <1>1, <1>2, <2>1
    DEF MachineState, MachineInv, Nesting, OneSecure, StackOrder, ChainSpacing, Alone, Masking
  <2>3. At' = to
    BY <2>1 DEF At
  <2> QED BY <1>1, <1>2, <2>1, <2>2, <2>3 DEF MachineState, MachineInv
<1>3. CASE act # << >>
  <2>1. to \in Locations /\ TopMoves(to)
    BY <1>1, <1>3 DEF MoveTo, Locations, TopMoves, MachineState, MachineInv, Masking
  <2>2. \A i \in DOMAIN act : HasEntered(i)' = HasEntered(i)
    <3>1. act[Len(act)].at = from
      BY <1>1, <1>3 DEF At, Top
    <3>2. \A i \in DOMAIN act : act'[i].at = IF i = Len(act) THEN to ELSE act[i].at
      BY <2>1, MoveTopMachine
    <3> QED BY <3>1, <3>2 DEF HasEntered
  <2> QED BY <1>1, <2>1, <2>2, MoveTopMachine
<1> QED BY <1>2, <1>3

(* An exception is taken.                                                  *)
LEMMA PreemptMachine ==
  ASSUME MachineState, NEW p \in Prios, NEW psp \in BOOLEAN, NEW ftype \in FrameTypes,
         NEW held \in Locals, Preempt(p, psp, ftype, held), TypeOK'
  PROVE  /\ MachineState' /\ UNCHANGED <<impl, ses, it, buf, fault>> /\ fault = "none"
         /\ At # "pushing" /\ At' = "entry"
         /\ Len(act) \in Nat /\ Len(act') = Len(act) + 1 /\ act' # << >>
         /\ DOMAIN act = 1..Len(act) /\ DOMAIN act' = 1..(Len(act) + 1)
         /\ \A i \in DOMAIN act : Kept(i) /\ HasEntered(i)' = HasEntered(i)
         /\ Intact(Len(act))' /\ ~HasEntered(Len(act))'
<1>0. PICK n \in Nat : n = Len(act)
  BY DEF MachineState, TypeOK
<1> DEFINE e == Entered(p, psp, ftype, held)
           ret == NewExcReturn(psp, ftype)
<1>1. /\ act' = Append(act, e) /\ act \in Seq(Activations) /\ n \in Nat /\ e \in Activations
      /\ UNCHANGED <<impl, threadAt, faultmask, ses, it, buf, fault>> /\ fault = "none"
      /\ TypeOK
  BY <1>0, EnteredType DEF Preempt, monitor, MachineState, MachineInv, TypeOK
<1>2. /\ Len(act') = n + 1 /\ DOMAIN act' = 1..(n + 1) /\ DOMAIN act = 1..n
      /\ act'[n + 1] = e /\ \A i \in 1..n : act'[i] = act[i]
      /\ act' # << >> /\ n = Len(act)
  BY <1>0, <1>1
<1>3. /\ At' = "entry"
      /\ e.prio = p /\ e.at = "entry" /\ e.ret = ret
      /\ e.frame = FrameAddress(ret, e.sp)
  BY <1>1, <1>2 DEF At, Top, Entered, FrameAddress
<1>5. act = << >> <=> n = 0
  BY <1>0, <1>1
<1>4. /\ At \in {"entry", "app", "secure"} /\ (act = << >> => At = threadAt)
      /\ impl \in {"Unnested", "Null"} => act = << >>
  <2>1. CASE act = << >>
    BY <1>1, <2>1 DEF At, TypeOK
  <2>2. CASE act # << >> /\ impl \in {"Unnested", "Null"}
    BY <2>2 DEF Preempt, Group, CurrentPrio
  <2>3. CASE act # << >> /\ impl \notin {"Unnested", "Null"}
    BY <2>3, TopType, <1>1
    DEF MachineState, MachineInv, Masking, Preempt, At, Locations, Activations
  <2> QED BY <2>1, <2>2, <2>3
<1>6. act # << >> => n \in DOMAIN act /\ Top = act[n] /\ At = act[n].at
  BY <1>1, <1>2, <1>5 DEF Top, At
<1>7. /\ "S" \in ret <=> At = "secure"
      /\ "MODE" \in ret <=> act = << >>
      /\ "SPSEL" \in ret => act = << >>
      /\ "FTYPE" \in ret <=> "FTYPE" \in ftype
  BY <1>4, FrameAssumption DEF NewExcReturn, SecureLocations
<1>8. act # << >> => p > Top.prio
  BY <1>1, <1>4 DEF Preempt, Group, CurrentPrio
<1>9. \A i \in 1..n : /\ Below(i)' = Below(i) /\ Protecting(i)' = Protecting(i)
                      /\ Intact(i)' <=> Intact(i)
  <2>1. \A i \in 1..n : i = 1 \/ i - 1 \in 1..n
    BY <1>1
  <2> QED BY <1>1, <1>2, <2>1 DEF Below, Protecting, Original, Intact
<1>10. Below(n + 1)' = At
  <2>1. (n + 1) - 1 = n
    BY <1>1
  <2>2. CASE n = 0
    BY <1>1, <1>4, <1>5, <2>2 DEF Below
  <2>3. CASE n # 0
    BY <1>1, <1>2, <1>5, <1>6, <2>1, <2>3 DEF Below
  <2> QED BY <2>2, <2>3
<1>11. e.saved = IF "S" \in ret THEN Zeros
                 ELSE Stacked(At, IF act = << >> THEN {} ELSE Top.ret)
  BY DEF Entered
<1>12. Intact(n + 1)'
  <2>1. (n + 1) - 1 = n
    BY <1>1
  <2>2. CASE n = 0
    BY <1>1, <1>2, <1>3, <1>4, <1>5, <1>11, <2>2 DEF Intact, Original
  <2>3. CASE n # 0
    BY <1>1, <1>2, <1>3, <1>5, <1>6, <1>11, <2>1, <2>3 DEF Intact, Original
  <2> QED BY <2>2, <2>3
<1>13. /\ Msp \in Int /\ Msp <= 0 /\ held \in Nat
       /\ \A i \in 1..n : Msp <= act[i].sp /\ act[i].sp \in Int
       /\ n # 0 => Msp = act[n].sp
  <2>1. \A i \in 1..n : act[i].sp \in Int
    BY <1>1, <1>2, ActAt
  <2>2. CASE n = 0
    BY <1>1, <1>5, <2>2, StackAssumption DEF Msp
  <2>3. CASE n # 0
    <3>1. Msp = act[n].sp /\ n \in DOMAIN act
      BY <1>5, <1>6, <1>2, <2>3 DEF Msp
    <3>2. \A i \in 1..n : i # n => i < n
      BY <1>0
    <3>3. act[n].sp \in Int /\ act[n].sp <= 0
      BY <1>2, <2>1, <3>1 DEF MachineState, MachineInv, StackOrder
    <3>4. \A i \in 1..n : act[n].sp <= act[i].sp
      <4>1. \A i \in DOMAIN act : i < n => act[n].sp <= act[i].sp
        BY <3>1 DEF MachineState, MachineInv, StackOrder, OnMsp
      <4> TAKE i \in 1..n
      <4>2. CASE i = n
        BY <3>3, <4>2
      <4>3. CASE i # n
        <5>1. i < n /\ i \in DOMAIN act
          BY <1>2, <3>2, <4>3
        <5> QED BY <4>1, <5>1
      <4> QED BY <4>2, <4>3
    <3>5. held \in Nat
      BY StackAssumption
    <3> QED BY <2>1, <3>1, <3>3, <3>4, <3>5
  <2> QED BY <2>2, <2>3
<1>14. StackedSize(ftype) \in {4, 13} /\ StackedSize(ret) = StackedSize(ftype)
  BY <1>7 DEF StackedSize
<1>15. /\ e.sp = IF "S" \notin ret /\ "SPSEL" \notin ret
                 THEN (Msp - held) - StackedSize(ftype) ELSE Msp - held
       /\ e.sp \in Int
  BY <1>1 DEF Entered, Activations
<1>16. e.sp <= Msp /\ ("S" \notin ret /\ "SPSEL" \notin ret => e.sp < Msp)
  BY <1>13, <1>14, <1>15
<1>17. UNCHANGED <<impl, NestedSecure>>
  BY <1>1
<1> HIDE DEF e, ret
<1>20. Nesting'
  <2>1. ASSUME NEW i \in 1..n
        PROVE  /\ "MODE" \in act'[i].ret <=> i = 1
               /\ "SPSEL" \in act'[i].ret => i = 1
               /\ "S" \in act'[i].ret <=> Below(i)' = "secure"
               /\ "S" \in act'[i].ret => act'[i].saved = Zeros
               /\ act'[i].frame = FrameAddress(act'[i].ret, act'[i].sp)
               /\ act'[i].prio >= i
               /\ act'[i].at \in {"entry", "app", "secure"}
    <3>1. act'[i] = act[i] /\ Below(i)' = Below(i) /\ i \in DOMAIN act
      BY <1>2, <1>9
    <3>2. i = n \/ i < n
      BY <1>0
    <3>3. act[i].at \in {"entry", "app", "secure"}
      BY <1>4, <1>6, <3>1, <3>2 DEF MachineState, MachineInv, Nesting
    <3> QED BY <3>1, <3>3 DEF MachineState, MachineInv, Nesting
  <2>2. /\ "MODE" \in act'[n + 1].ret <=> n + 1 = 1
        /\ "SPSEL" \in act'[n + 1].ret => n + 1 = 1
        /\ "S" \in act'[n + 1].ret <=> Below(n + 1)' = "secure"
        /\ "S" \in act'[n + 1].ret => act'[n + 1].saved = Zeros
        /\ act'[n + 1].frame = FrameAddress(act'[n + 1].ret, act'[n + 1].sp)
    BY <1>1, <1>2, <1>3, <1>5, <1>7, <1>10, <1>11
  <2>3. act'[n + 1].prio >= n + 1
    <3>1. CASE n = 0
      BY <1>2, <1>3, <3>1 DEF Prios
    <3>2. CASE n # 0
      <4>1. Top.prio >= n /\ Top.prio \in Nat
        BY <1>1, <1>5, <1>6, <3>2, ActAt DEF MachineState, MachineInv, Nesting, Prios
      <4> QED BY <1>1, <1>2, <1>3, <1>5, <1>8, <3>2, <4>1, PrioAssumption DEF Prios
    <3> QED BY <3>1, <3>2
  <2>4. \A i \in DOMAIN act' : i \in 1..n \/ (i = n + 1 /\ ~(i < Len(act')))
    BY <1>1, <1>2
  <2> QED BY <2>1, <2>2, <2>3, <2>4 DEF Nesting, FrameAddress, Zeros
<1>21. Masking'
  BY <1>1, <1>2, <1>3 DEF MachineState, MachineInv, Masking, Preempt
<1>22. OneSecure'
  <2>1. \A i \in DOMAIN act' : i \in 1..n \/ i = n + 1
    BY <1>1, <1>2
  <2>2. "S" \in ret => \A i \in 1..n : "S" \notin act[i].ret
    BY <1>2, <1>7 DEF MachineState, MachineInv, Preempt
  <2> QED BY <1>2, <1>3, <2>1, <2>2 DEF MachineState, MachineInv, OneSecure
<1>23. StackOrder'
  <2>1. \A i \in DOMAIN act' : i \in 1..n \/ i = n + 1
    BY <1>1, <1>2
  <2>2. \A i \in DOMAIN act' : act'[i].sp <= 0
    BY <1>2, <1>13, <1>15, <1>16, <2>1 DEF MachineState, MachineInv, StackOrder
  <2>3. ASSUME NEW i \in DOMAIN act', NEW j \in DOMAIN act', i < j
        PROVE  /\ act'[j].sp <= act'[i].sp
               /\ "S" \notin act'[j].ret /\ "SPSEL" \notin act'[j].ret => act'[j].sp < act'[i].sp
    <3>1. CASE j \in 1..n
      <4>1. i \in 1..n
        BY <2>3, <3>1, <1>2, <2>1, <1>1
      <4> QED BY <1>2, <2>3, <3>1, <4>1 DEF MachineState, MachineInv, StackOrder, OnMsp
    <3>2. CASE j = n + 1
      <4>1. i \in 1..n
        BY <2>3, <3>2, <2>1, <1>1
      <4>2. act'[j] = e /\ act'[i] = act[i] /\ Msp <= act[i].sp /\ act[i].sp \in Int
        BY <1>2, <1>13, <3>2, <4>1
      <4> QED BY <1>3, <1>13, <1>15, <1>16, <4>2
    <3> QED BY <2>1, <3>1, <3>2
  <2> QED BY <2>2, <2>3 DEF StackOrder, OnMsp
<1>24. ChainSpacing'
  <2>1. ASSUME NEW i \in DOMAIN act', i < Len(act'), act'[i].at = "entry"
        PROVE  act'[i + 1].sp + StackedSize(act'[i + 1].ret) = act'[i].sp
    <3>1. i \in 1..n
      BY <1>1, <1>2, <2>1
    <3>2. CASE i < n
      <4>1. i + 1 \in 1..n
        BY <1>1, <3>1, <3>2
      <4>2. act'[i] = act[i] /\ act'[i + 1] = act[i + 1] /\ i \in DOMAIN act
        BY <1>2, <3>1, <4>1
      <4> QED BY <1>2, <2>1, <3>2, <4>2 DEF MachineState, MachineInv, ChainSpacing
    <3>3. CASE i = n
      <4>1. n # 0 /\ act # << >> /\ At = "entry" /\ act'[i] = act[n] /\ act'[i + 1] = e
        BY <1>1, <1>2, <1>5, <1>6, <2>1, <3>1, <3>3
      <4>2. held = 0
        BY <4>1 DEF Preempt, MayHold
      <4>3. "S" \notin ret /\ "SPSEL" \notin ret
        BY <1>7, <4>1
      <4> QED BY <1>3, <1>13, <1>14, <1>15, <4>1, <4>2, <4>3
    <3> QED BY <1>0, <3>1, <3>2, <3>3
  <2> QED BY <2>1 DEF ChainSpacing, StackedSize
<1>25. Alone'
  BY <1>1, <1>2, <1>4, <1>5 DEF Alone
<1>26. MachineState'
  BY <1>1, <1>20, <1>21, <1>22, <1>23, <1>24, <1>25 DEF MachineState, MachineInv
<1>27. \A i \in DOMAIN act : Kept(i) /\ HasEntered(i)' = HasEntered(i)
  BY <1>2, <1>9 DEF Kept, HasEntered
<1>28. ~HasEntered(n + 1)'
  BY <1>2, <1>3 DEF HasEntered
<1>29. At # "pushing" /\ At' = "entry" /\ fault = "none"
  BY <1>1, <1>3, <1>4
<1>30. /\ Len(act) \in Nat /\ Len(act') = Len(act) + 1 /\ act' # << >>
       /\ DOMAIN act = 1..Len(act) /\ DOMAIN act' = 1..(Len(act) + 1)
  BY <1>0, <1>2
<1>31. Intact(Len(act))' /\ ~HasEntered(Len(act))'
  BY <1>0, <1>2, <1>12, <1>28 DEF Intact, HasEntered, Original
<1>32. UNCHANGED <<impl, ses, it, buf, fault>>
  BY <1>1
<1> QED BY <1>26, <1>27, <1>29, <1>30, <1>31, <1>32

(* A stray store can make an intact frame differ, never the other way       *)
(* round: nothing that the core stacks looks like what it writes.           *)
LEMMA StrayMachine ==
  ASSUME MachineState, NEW i \in DOMAIN act, NEW field \in StrayFields, StrayWrite(i, field), TypeOK'
  PROVE  /\ MachineState' /\ UNCHANGED <<impl, ses, it, buf, fault>> /\ fault = "none"
         /\ act # << >> /\ At = "app" /\ At' = "app"
         /\ Len(act') = Len(act) /\ DOMAIN act' = DOMAIN act /\ DOMAIN act = 1..Len(act)
         /\ \A j \in DOMAIN act : /\ HasEntered(j)' = HasEntered(j)
                                  /\ act'[j].ret = act[j].ret
                                  /\ Protecting(j)' = Protecting(j)
                                  /\ Intact(j)' => Intact(j)
<1>1. /\ TypeOK /\ act \in Seq(Activations) /\ act # << >> /\ At = "app"
      /\ act[i].frame # Dummy /\ fault = "none"
      /\ UNCHANGED <<impl, threadAt, faultmask, ses, it, buf, fault>>
  BY DEF StrayWrite, MachineState, MachineInv, TypeOK, monitor
<1>2. Len(act) \in Nat \ {0} /\ Len(act) \in DOMAIN act /\ DOMAIN act = 1..Len(act)
  BY <1>1, LastElement
<1>3. /\ Len(act') = Len(act) /\ DOMAIN act' = DOMAIN act /\ act' # << >>
      /\ \A j \in DOMAIN act :
           /\ act'[j].ret = act[j].ret /\ act'[j].sp = act[j].sp
           /\ act'[j].frame = act[j].frame /\ act'[j].prio = act[j].prio
           /\ act'[j].at = act[j].at
           /\ j # i => act'[j].saved = act[j].saved
  <2> DEFINE a == [act[i] EXCEPT !.saved[field] = IF field = "lr" THEN {"stray"} ELSE "stray"]
  <2>1. act' = [act EXCEPT ![i] = a] /\ act[i] \in Activations
    BY <1>1, <1>2 DEF StrayWrite
  <2>2. /\ a.ret = act[i].ret /\ a.sp = act[i].sp /\ a.frame = act[i].frame
        /\ a.prio = act[i].prio /\ a.at = act[i].at
    BY <2>1 DEF Activations
  <2> HIDE DEF a
  <2>3. \A j \in DOMAIN act : act'[j] = IF j = i THEN a ELSE act[j]
    BY <2>1
  <2>4. Len(act') = Len(act) /\ DOMAIN act' = DOMAIN act
    BY <1>1, <1>2, <2>1
  <2> QED BY <1>1, <1>2, <2>2, <2>3, <2>4
<1>4. \A j \in DOMAIN act : j = 1 \/ j - 1 \in DOMAIN act
  BY <1>2
<1>5. \A j \in DOMAIN act : Below(j)' = Below(j) /\ Protecting(j)' = Protecting(j)
  BY <1>1, <1>3, <1>4 DEF Below, Protecting, Original
<1>6. At' = "app"
  BY <1>1, <1>2, <1>3 DEF At, Top
<1>7. "S" \notin act[i].ret
  BY <1>1 DEF MachineState, MachineInv, Nesting, FrameAddress
<1>8. Nesting'
  <2>1. ASSUME NEW j \in DOMAIN act
        PROVE  /\ "MODE" \in act'[j].ret <=> j = 1
               /\ "SPSEL" \in act'[j].ret => j = 1
               /\ "S" \in act'[j].ret <=> Below(j)' = "secure"
               /\ "S" \in act'[j].ret => act'[j].saved = Zeros
               /\ act'[j].frame = FrameAddress(act'[j].ret, act'[j].sp)
               /\ act'[j].prio >= j
               /\ j < Len(act') => act'[j].at \in {"entry", "app", "secure"}
    <3>1. /\ act'[j].ret = act[j].ret /\ act'[j].sp = act[j].sp
          /\ act'[j].frame = act[j].frame /\ act'[j].prio = act[j].prio
          /\ act'[j].at = act[j].at /\ Below(j)' = Below(j) /\ Len(act') = Len(act)
      BY <1>3, <1>5
    <3>2. "S" \in act[j].ret => act'[j].saved = act[j].saved
      BY <1>3, <1>7
    <3>3. /\ "MODE" \in act[j].ret <=> j = 1
          /\ "SPSEL" \in act[j].ret => j = 1
          /\ "S" \in act[j].ret <=> Below(j) = "secure"
          /\ "S" \in act[j].ret => act[j].saved = Zeros
          /\ act[j].frame = FrameAddress(act[j].ret, act[j].sp)
          /\ act[j].prio >= j
          /\ j < Len(act) => act[j].at \in {"entry", "app", "secure"}
      BY DEF MachineState, MachineInv, Nesting
    <3> QED BY <3>1, <3>2, <3>3
  <2> QED BY <1>3, <2>1 DEF Nesting, FrameAddress, Zeros
<1>9. Masking' /\ OneSecure'
  BY <1>1, <1>3, <1>6 DEF MachineState, MachineInv, Masking, OneSecure
<1>10. StackOrder'
  BY <1>3 DEF MachineState, MachineInv, StackOrder, OnMsp
<1>11. ChainSpacing'
  <2>1. \A j \in DOMAIN act : j < Len(act) => j + 1 \in DOMAIN act
    BY <1>2
  <2> QED BY <1>3, <2>1 DEF MachineState, MachineInv, ChainSpacing, StackedSize
<1>12. ~Intact(i)'
  <2>1. Original(i)' = Original(i)
    BY <1>1, <1>3, <1>4 DEF Original
  <2>2. /\ Original(i).pc # "stray" /\ Original(i).r12 # "stray"
        /\ Original(i).lr # {"stray"}
    <3>1. \A r \in ExcReturns : r # {"stray"}
      BY DEF ExcReturns
    <3>2. i = 1 \/ act[i - 1].ret \in ExcReturns
      BY <1>1, <1>4, ActAt
    <3>3. {} \in ExcReturns /\ {"code"} # {"stray"}
      BY DEF ExcReturns
    <3> QED BY <3>1, <3>2, <3>3 DEF Original, Stacked, Zeros
  <2>3. \/ act'[i].saved.pc = "stray" \/ act'[i].saved.r12 = "stray"
        \/ act'[i].saved.lr = {"stray"}
    <3> DEFINE w == IF field = "lr" THEN {"stray"} ELSE "stray"
    <3>1. act[i] \in Activations /\ act[i].saved \in Saved
      BY <1>1, ActAt
    <3>2. act'[i].saved = [act[i].saved EXCEPT ![field] = w]
      BY <1>1, <3>1 DEF StrayWrite, Activations
    <3>3. field \in {"pc", "lr", "r12"}
      BY StrayAssumption
    <3> QED BY <3>1, <3>2, <3>3 DEF Saved
  <2> QED BY <2>1, <2>2, <2>3 DEF Intact
<1>13. \A j \in DOMAIN act : Intact(j)' => Intact(j)
  <2> TAKE j \in DOMAIN act
  <2>1. CASE j = i
    BY <1>12, <2>1
  <2>2. CASE j # i
    <3>1. Original(j)' = Original(j) /\ act'[j].saved = act[j].saved
      BY <1>1, <1>3, <1>4, <2>2 DEF Original
    <3> QED BY <3>1 DEF Intact
  <2> QED BY <2>1, <2>2
<1>14. Alone'
  BY <1>1, <1>3 DEF MachineState, MachineInv, Alone
<1>15. MachineState'
  BY <1>1, <1>8, <1>9, <1>10, <1>11, <1>14 DEF MachineState, MachineInv
<1>16. \A j \in DOMAIN act : HasEntered(j)' = HasEntered(j)
  BY <1>3 DEF HasEntered
<1> QED BY <1>1, <1>2, <1>3, <1>5, <1>6, <1>13, <1>15, <1>16

(* The core leaves the exception ...                                        *)
LEMMA LeaveMachine ==
  ASSUME MachineState, LeaveInterrupt, TypeOK'
  PROVE  /\ MachineState' /\ At' # "pushing"
         /\ Len(act) \in Nat \ {0} /\ Len(act') = Len(act) - 1
         /\ DOMAIN act = 1..Len(act) /\ DOMAIN act' = 1..(Len(act) - 1)
         /\ \A i \in DOMAIN act' : Kept(i) /\ HasEntered(i)' = HasEntered(i)
<1>1. PICK n \in Nat : n = Len(act) /\ n \in DOMAIN act /\ DOMAIN act = 1..n /\ n # 0
  BY LastElement DEF LeaveInterrupt, ExceptionReturn, Leaving, MachineState, TypeOK
<1>2. UNCHANGED <<impl, threadAt>> /\ faultmask' = FALSE
  BY DEF LeaveInterrupt, ExceptionReturn
<1>3. act \in Seq(Activations) /\ act' = SubSeq(act, 1, n - 1)
  BY <1>1 DEF LeaveInterrupt, Outer, MachineState, TypeOK
<1>4. /\ Len(act') = n - 1 /\ DOMAIN act' = 1..(n - 1)
      /\ \A i \in 1..(n - 1) : act'[i] = act[i] /\ i \in DOMAIN act
  BY <1>1, <1>3
<1>5. \A i \in 1..(n - 1) : i = 1 \/ i - 1 \in 1..(n - 1)
  BY <1>1
<1>6. \A i \in 1..(n - 1) : /\ Below(i)' = Below(i) /\ Protecting(i)' = Protecting(i)
                            /\ Intact(i)' <=> Intact(i)
  BY <1>1, <1>2, <1>4, <1>5 DEF Below, Protecting, Original, Intact
<1>7. \A i \in 1..(n - 1) : act[i].at \in {"entry", "app", "secure"}
  <2>1. \A i \in 1..(n - 1) : i < n
    BY <1>1
  <2> QED BY <1>1, <1>4, <2>1 DEF MachineState, MachineInv, Nesting
<1>8. Nesting'
  <2>1. ASSUME NEW i \in 1..(n - 1)
        PROVE  /\ "MODE" \in act'[i].ret <=> i = 1
               /\ "SPSEL" \in act'[i].ret => i = 1
               /\ "S" \in act'[i].ret <=> Below(i)' = "secure"
               /\ "S" \in act'[i].ret => act'[i].saved = Zeros
               /\ act'[i].frame = FrameAddress(act'[i].ret, act'[i].sp)
               /\ act'[i].prio >= i
               /\ act'[i].at \in {"entry", "app", "secure"}
    <3>1. act'[i] = act[i] /\ Below(i)' = Below(i) /\ i \in DOMAIN act
      BY <1>4, <1>6
    <3> QED BY <1>7, <3>1 DEF MachineState, MachineInv, Nesting
  <2> QED BY <1>4, <2>1 DEF Nesting, FrameAddress, Zeros
<1>9. OneSecure' /\ StackOrder'
  BY <1>4 DEF MachineState, MachineInv, OneSecure, StackOrder, OnMsp
<1>10. ChainSpacing'
  <2>1. \A i \in 1..(n - 1) : i < n - 1 => i + 1 \in 1..(n - 1) /\ i < n
    BY <1>1
  <2> QED BY <1>1, <1>4, <2>1 DEF MachineState, MachineInv, ChainSpacing, StackedSize
<1>11. At' \in {"entry", "app", "secure"}
  <2>1. CASE act' = << >>
    BY <2>1 DEF At, TypeOK
  <2>2. CASE act' # << >>
    <3>1. Len(act') \in 1..(n - 1)
      BY <1>1, <1>3, <1>4, <2>2
    <3> QED BY <1>4, <1>7, <2>2, <3>1 DEF At, Top
  <2> QED BY <2>1, <2>2
<1>12. Masking' /\ Alone'
  BY <1>1, <1>2, <1>4, <1>11 DEF MachineState, MachineInv, Masking, Alone
<1>13. MachineState'
  BY <1>8, <1>9, <1>10, <1>12 DEF MachineState, MachineInv
<1>14. \A i \in 1..(n - 1) : Kept(i) /\ HasEntered(i)' = HasEntered(i)
  BY <1>4, <1>6 DEF Kept, HasEntered
<1> QED BY <1>1, <1>4, <1>11, <1>13, <1>14

(* ... or tail-chains.                                                      *)
LEMMA TailChainMachine ==
  ASSUME MachineState, NEW p \in Prios, TailChain(p), TypeOK'
  PROVE  /\ MachineState' /\ At' = "entry"
         /\ Len(act) \in Nat \ {0} /\ Len(act') = Len(act)
         /\ DOMAIN act = 1..Len(act) /\ DOMAIN act' = DOMAIN act
         /\ ~HasEntered(Len(act))'
         /\ \A i \in DOMAIN act : /\ Kept(i)
                                  /\ i # Len(act) => HasEntered(i)' = HasEntered(i)
<1>1. PICK n \in Nat : n = Len(act) /\ n \in DOMAIN act /\ DOMAIN act = 1..n /\ n # 0
  BY LastElement DEF TailChain, ExceptionReturn, Leaving, MachineState, TypeOK
<1>2. UNCHANGED <<impl, threadAt>> /\ faultmask' = FALSE
  BY DEF TailChain, ExceptionReturn
<1>3. /\ act \in Seq(Activations)
      /\ act' = [act EXCEPT ![n] = [act[n] EXCEPT !.prio = p, !.at = "entry"]]
  BY <1>1 DEF TailChain, MachineState, TypeOK
<1>4. /\ Len(act') = n /\ DOMAIN act' = 1..n /\ act' # << >>
      /\ \A i \in 1..n : i # n => act'[i] = act[i]
      /\ act'[n] = [act[n] EXCEPT !.prio = p, !.at = "entry"]
      /\ act[n] \in Activations
  <2> DEFINE a == [act[n] EXCEPT !.prio = p, !.at = "entry"]
  <2> HIDE DEF a
  <2>1. act' = [act EXCEPT ![n] = a] /\ act[n] \in Activations
    BY <1>1, <1>3 DEF a
  <2>2. /\ DOMAIN act' = 1..n /\ act'[n] = a
        /\ \A i \in 1..n : i # n => act'[i] = act[i]
    BY <1>1, <2>1
  <2>3. Len(act') = n /\ act' # << >>
    BY <1>1, <2>2 DEF TypeOK
  <2> QED BY <2>1, <2>2, <2>3 DEF a
<1>5. /\ act'[n].prio = p /\ act'[n].at = "entry" /\ act'[n].ret = act[n].ret
      /\ act'[n].sp = act[n].sp /\ act'[n].frame = act[n].frame
      /\ act'[n].saved = act[n].saved
  BY <1>4 DEF Activations
<1>6. \A i \in 1..n : /\ act'[i].ret = act[i].ret /\ act'[i].sp = act[i].sp
                      /\ act'[i].frame = act[i].frame /\ act'[i].saved = act[i].saved
                      /\ act'[i].prio = IF i = n THEN p ELSE act[i].prio
                      /\ act'[i].at = IF i = n THEN "entry" ELSE act[i].at
  BY <1>4, <1>5
<1>7. \A i \in 1..n : i = 1 \/ (i - 1 \in 1..n /\ i - 1 # n)
  BY <1>1
<1>8. \A i \in 1..n : /\ Below(i)' = Below(i) /\ Protecting(i)' = Protecting(i)
                      /\ Intact(i)' <=> Intact(i)
  BY <1>2, <1>6, <1>7 DEF Below, Protecting, Original, Intact
<1>9. p >= n
  <2>1. CASE n = 1
    BY <2>1 DEF Prios
  <2>2. CASE n # 1
    <3>1. n - 1 \in DOMAIN act /\ Outer # << >>
      BY <1>1, <1>3, <2>2 DEF Outer
    <3>2. p > act[n - 1].prio
      <4>1. impl \notin {"Unnested", "Null"}
        BY <1>1, <2>2 DEF MachineState, MachineInv, Alone
      <4> QED BY <1>1, <1>3, <3>1, <4>1 DEF TailChain, Group
    <3>3. act[n - 1].prio >= n - 1 /\ act[n - 1].prio \in Int
      BY <3>1, ActAt DEF MachineState, MachineInv, Nesting, Prios
    <3> QED BY <1>1, <3>2, <3>3 DEF Prios
  <2> QED BY <2>1, <2>2
<1>10. Nesting'
  <2>1. ASSUME NEW i \in 1..n
        PROVE  /\ "MODE" \in act'[i].ret <=> i = 1
               /\ "SPSEL" \in act'[i].ret => i = 1
               /\ "S" \in act'[i].ret <=> Below(i)' = "secure"
               /\ "S" \in act'[i].ret => act'[i].saved = Zeros
               /\ act'[i].frame = FrameAddress(act'[i].ret, act'[i].sp)
               /\ act'[i].prio >= i
               /\ i < n => act'[i].at \in {"entry", "app", "secure"}
    <3>1. /\ act'[i].ret = act[i].ret /\ act'[i].sp = act[i].sp
          /\ act'[i].frame = act[i].frame /\ act'[i].saved = act[i].saved
          /\ i # n => act'[i].prio = act[i].prio /\ act'[i].at = act[i].at
          /\ Below(i)' = Below(i) /\ i \in DOMAIN act
      BY <1>1, <1>6, <1>8
    <3>2. act'[i].prio >= i
      BY <1>6, <1>9, <3>1 DEF MachineState, MachineInv, Nesting
    <3>3. i < n => act'[i].at \in {"entry", "app", "secure"}
      BY <1>1, <3>1 DEF MachineState, MachineInv, Nesting
    <3> QED BY <3>1, <3>2, <3>3 DEF MachineState, MachineInv, Nesting
  <2> QED BY <1>4, <2>1 DEF Nesting, FrameAddress, Zeros
<1>11. OneSecure' /\ StackOrder'
  BY <1>1, <1>4, <1>6 DEF MachineState, MachineInv, OneSecure, StackOrder, OnMsp
<1>12. ChainSpacing'
  <2>1. \A i \in 1..n : i < n => i + 1 \in 1..n /\ i # n
    BY <1>1
  <2> QED BY <1>1, <1>4, <1>6, <2>1 DEF MachineState, MachineInv, ChainSpacing, StackedSize
<1>13. At' = "entry"
  BY <1>1, <1>4, <1>5 DEF At, Top
<1>14. Masking' /\ Alone'
  BY <1>1, <1>2, <1>4, <1>13 DEF MachineState, MachineInv, Masking, Alone
<1>15. MachineState'
  BY <1>10, <1>11, <1>12, <1>14 DEF MachineState, MachineInv
<1>16. \A i \in 1..n : Kept(i) /\ (i # n => HasEntered(i)' = HasEntered(i))
  BY <1>6, <1>8 DEF Kept, HasEntered
<1>17. ~HasEntered(n)'
  BY <1>5 DEF HasEntered
<1> QED BY <1>1, <1>4, <1>13, <1>15, <1>16, <1>17

----------------------------------------------------------------------------
(* The steps that leave the shadow stack alone: either nothing the monitor  *)
(* looks at happens, or the machine continues with the active exceptions as *)
(* they were, those that are new not entered yet, and a frame changed only  *)
(* by an exception that has entered.                                        *)
Same == UNCHANGED <<impl, threadAt, act, faultmask, ses, it, buf, fault>>

Continues ==
  /\ UNCHANGED <<impl, ses, it, buf, fault>> /\ At # "pushing" /\ At' # "pushing"
  /\ DOMAIN act \subseteq DOMAIN act' /\ Len(act) <= Len(act')
  /\ \A i \in DOMAIN act : /\ HasEntered(i)' = HasEntered(i)
                           /\ act'[i].ret = act[i].ret
                           /\ Protecting(i)' = Protecting(i)
                           /\ Intact(i)' => Intact(i)
                           /\ Intact(i) => Intact(i)' \/ HasEntered(Len(act))
                           /\ StrayFields = {} => (Intact(i) => Intact(i)')
  /\ \A i \in DOMAIN act' \ DOMAIN act : Intact(i)' /\ ~HasEntered(i)'

LEMMA LocationKept ==
  ASSUME MachineState, NEW x \in Locations, TopMoves(x), TypeOK',
         UNCHANGED <<ses, it, buf, fault>>, At # "pushing", x # "pushing",
         x \in {"app", "secure", "leaving"} <=> At \in {"app", "secure", "leaving"}
  PROVE  Continues /\ MachineState'
<1>1. /\ MachineState' /\ At' = x /\ DOMAIN act' = DOMAIN act /\ Len(act') = Len(act)
      /\ Len(act) \in Nat /\ impl' = impl
      /\ \A i \in DOMAIN act : /\ Kept(i)
                               /\ act'[i].at = IF i = Len(act) THEN x ELSE act[i].at
  BY MoveTopMachine DEF TopMoves
<1>2. act[Len(act)].at = At
  BY DEF TopMoves, At, Top
<1>3. \A i \in DOMAIN act : HasEntered(i)' = HasEntered(i)
  BY <1>1, <1>2 DEF HasEntered
<1> QED BY <1>1, <1>3 DEF Continues, Kept

LEMMA PreemptContinues ==
  ASSUME MachineState, NEW p \in Prios, NEW psp \in BOOLEAN, NEW ftype \in FrameTypes,
         NEW held \in Locals, Preempt(p, psp, ftype, held), TypeOK'
  PROVE  Continues /\ MachineState'
<1>1. /\ MachineState' /\ UNCHANGED <<impl, ses, it, buf, fault>> /\ At # "pushing" /\ At' = "entry"
      /\ Len(act) \in Nat /\ Len(act') = Len(act) + 1
      /\ DOMAIN act = 1..Len(act) /\ DOMAIN act' = 1..(Len(act) + 1)
      /\ \A i \in DOMAIN act : Kept(i) /\ HasEntered(i)' = HasEntered(i)
      /\ Intact(Len(act))' /\ ~HasEntered(Len(act))'
  BY PreemptMachine
<1>2. \A i \in DOMAIN act' \ DOMAIN act : i = Len(act')
  BY <1>1
<1>3. \A i \in DOMAIN act' \ DOMAIN act : Intact(i)' /\ ~HasEntered(i)'
  BY <1>1, <1>2 DEF Intact, Original, HasEntered
<1>4. DOMAIN act \subseteq DOMAIN act' /\ Len(act) <= Len(act')
  BY <1>1
<1> QED BY <1>1, <1>3, <1>4 DEF Continues, Kept

LEMMA StrayContinues ==
  ASSUME MachineState, NEW i \in DOMAIN act, NEW field \in StrayFields, StrayWrite(i, field), TypeOK'
  PROVE  Continues /\ MachineState'
<1>1. /\ MachineState' /\ UNCHANGED <<impl, ses, it, buf, fault>>
      /\ act # << >> /\ At = "app" /\ At' = "app"
      /\ Len(act') = Len(act) /\ DOMAIN act' = DOMAIN act /\ DOMAIN act = 1..Len(act)
      /\ \A j \in DOMAIN act : /\ HasEntered(j)' = HasEntered(j)
                               /\ act'[j].ret = act[j].ret
                               /\ Protecting(j)' = Protecting(j)
                               /\ Intact(j)' => Intact(j)
  BY StrayMachine
<1>2. Len(act) \in Nat /\ HasEntered(Len(act))
  BY <1>1 DEF At, Top, HasEntered, MachineState, TypeOK
<1>3. /\ At # "pushing" /\ At' # "pushing"
      /\ DOMAIN act \subseteq DOMAIN act' /\ Len(act) <= Len(act')
      /\ \A j \in DOMAIN act' \ DOMAIN act : Intact(j)' /\ ~HasEntered(j)'
  BY <1>1, <1>2
<1>4. StrayFields # {} /\ \A j \in DOMAIN act : Intact(j) => Intact(j)' \/ HasEntered(Len(act))
  BY <1>2
<1>5. \A j \in DOMAIN act : /\ HasEntered(j)' = HasEntered(j)
                            /\ act'[j].ret = act[j].ret
                            /\ Protecting(j)' = Protecting(j)
                            /\ Intact(j)' => Intact(j)
                            /\ Intact(j) => Intact(j)' \/ HasEntered(Len(act))
                            /\ StrayFields = {} => (Intact(j) => Intact(j)')
  BY <1>1, <1>4
<1>6. UNCHANGED <<impl, ses, it, buf, fault>> /\ MachineState'
  BY <1>1
<1> QED BY <1>3, <1>5, <1>6 DEF Continues

LEMMA MoveToContinues ==
  ASSUME MachineState, NEW from \in {"app", "secure"}, NEW to \in {"app", "secure"},
         MoveTo(from, to), TypeOK'
  PROVE  Continues /\ MachineState'
<1>1. /\ MachineState' /\ UNCHANGED <<impl, ses, it, buf, fault>> /\ At' # "pushing"
      /\ At # "pushing" /\ DOMAIN act' = DOMAIN act /\ Len(act') = Len(act)
      /\ \A i \in DOMAIN act : Kept(i) /\ HasEntered(i)' = HasEntered(i)
  BY MoveToMachine
<1>2. Len(act) \in Nat
  BY DEF MachineState, TypeOK
<1> QED BY <1>1, <1>2 DEF Continues, Kept

LEMMA TrampolineContinues ==
  ASSUME MachineState, Stage0 \/ ReturnTrampoline, TypeOK'
  PROVE  Continues /\ MachineState'
<1>1. CASE Stage0
  <2>1. /\ TopMoves("masked") /\ "masked" \in Locations /\ At = "entry"
        /\ UNCHANGED <<ses, it, buf, fault>>
    BY <1>1 DEF Stage0, TopMoves, Locations, monitor
  <2> QED BY <2>1, LocationKept
<1>2. CASE ReturnTrampoline
  <2>1. /\ TopMoves("leaving") /\ "leaving" \in Locations /\ At = "app"
        /\ UNCHANGED <<ses, it, buf, fault>>
    BY <1>2 DEF ReturnTrampoline, TopMoves, Locations, monitor
  <2> QED BY <2>1, LocationKept
<1> QED BY <1>1, <1>2

(* __tcEnterInterrupt either starts the handler or goes on scanning.        *)
LEMMA EnterMachine ==
  ASSUME MachineState, EnterInterrupt, TypeOK'
  PROVE  MachineState' /\ DOMAIN act' = DOMAIN act /\ \A i \in DOMAIN act : Kept(i)
<1>1. CASE EnterSafe
  <2>1. TopMoves("pushing") /\ "pushing" \in Locations
    BY <1>1, TopType
    DEF EnterSafe, Entering, TopMoves, Locations, MachineState, MachineInv, Masking
  <2> QED BY <2>1, MoveTopMachine
<1>2. CASE PushNext
  <2>1. UNCHANGED <<impl, threadAt, act, faultmask>>
    BY <1>2 DEF PushNext, machine
  <2> QED BY <2>1, SameMachine
<1>3. CASE ~EnterSafe /\ ~PushNext
  <2>1. TopMoves("app") /\ "app" \in Locations
    BY <1>3 DEF EnterInterrupt, PushKnown, PushLast, EnterNaive, EnterUnnested, EnterNull,
                Entering, Looping, StartHandler, TopMoves, Locations
  <2> QED BY <2>1, MoveTopMachine
<1> QED BY <1>1, <1>2, <1>3

LEMMA Steps ==
  ASSUME MachineState, [Next]_vars
  PROVE  /\ MachineState'
         /\ \/ Same \/ Continues \/ EnterInterrupt \/ LeavePanics \/ LeaveInterrupt
            \/ \E p \in Prios : TailChain(p)
<1>0. TypeOK'
  BY NextType DEF MachineState
<1>1. ASSUME Same \/ LeavePanics
      PROVE  MachineState'
  <2>1. UNCHANGED <<impl, threadAt, act, faultmask>>
    BY <1>1 DEF Same, LeavePanics, machine
  <2> QED BY <1>0, <2>1, SameMachine
<1>2. ASSUME Stopped \/ UNCHANGED vars \/ \E p \in Prios : Raise(p)
      PROVE  Same
  BY <1>2 DEF Stopped, vars, machine, monitor, Raise, Same
<1>3. ASSUME NEW p \in Prios, NEW s \in ThreadStacks, NEW f \in FrameTypes, NEW h \in Locals,
             Preempt(p, s = "PSP" /\ act = << >>, f, h)
      PROVE  Continues /\ MachineState'
  <2>1. (s = "PSP" /\ act = << >>) \in BOOLEAN
    OBVIOUS
  <2> QED BY <1>0, <1>3, <2>1, PreemptContinues
<1>4. ASSUME SecureCall \/ SecureReturn
      PROVE  Continues /\ MachineState'
  BY <1>0, <1>4, MoveToContinues DEF SecureCall, SecureReturn
<1>5. ASSUME NEW i \in DOMAIN act, NEW field \in StrayFields, StrayWrite(i, field)
      PROVE  Continues /\ MachineState'
  BY <1>0, <1>5, StrayContinues
<1>6. ASSUME Stage0 \/ ReturnTrampoline
      PROVE  Continues /\ MachineState'
  BY <1>0, <1>6, TrampolineContinues
<1>7. ASSUME EnterInterrupt
      PROVE  MachineState'
  BY <1>0, <1>7, EnterMachine
<1>8. ASSUME LeaveInterrupt
      PROVE  MachineState'
  BY <1>0, <1>8, LeaveMachine
<1>9. ASSUME NEW p \in Prios, TailChain(p)
      PROVE  MachineState'
  BY <1>0, <1>9, TailChainMachine
<1> QED BY <1>1, <1>2, <1>3, <1>4, <1>5, <1>6, <1>7, <1>8, <1>9 DEF Next

(* Without stray writes every frame stays as it was stacked.                *)
Unharmed == \A i \in DOMAIN act : Intact(i)

LEMMA NoHarm ==
  ASSUME MachineState, Unharmed, StrayFields = {}, [Next]_vars
  PROVE  Unharmed'
<1>1. /\ TypeOK'
      /\ \/ Same \/ Continues \/ EnterInterrupt \/ LeavePanics \/ LeaveInterrupt
         \/ \E p \in Prios : TailChain(p)
  BY Steps, NextType DEF MachineState
<1>2. CASE Same \/ LeavePanics
  <2>1. UNCHANGED <<act, threadAt>>
    BY <1>2 DEF Same, LeavePanics, machine
  <2> QED BY <2>1 DEF Unharmed, Intact, Original
<1>3. CASE Continues
  BY <1>3 DEF Continues, Unharmed
<1>4. CASE EnterInterrupt
  BY <1>1, <1>4, EnterMachine DEF Unharmed, Kept
<1>5. CASE LeaveInterrupt
  <2>1. DOMAIN act' \subseteq DOMAIN act /\ \A i \in DOMAIN act' : Kept(i)
    BY <1>1, <1>5, LeaveMachine
  <2> QED BY <2>1 DEF Unharmed, Kept
<1>6. ASSUME NEW p \in Prios, TailChain(p)
      PROVE  Unharmed'
  BY <1>1, <1>6, TailChainMachine DEF Unharmed, Kept
<1> QED BY <1>1, <1>2, <1>3, <1>4, <1>5, <1>6

----------------------------------------------------------------------------
(* Safe.                                                                    *)

SafeState == MachineState /\ impl = "Safe" /\ Recorded /\ Scanning /\ Verdict

LEMMA SafeContinues ==
  ASSUME SafeState, Continues, MachineState'
  PROVE  SafeState'
<1>1. /\ UNCHANGED <<impl, ses, it, buf, fault>> /\ At # "pushing" /\ At' # "pushing"
      /\ DOMAIN act \subseteq DOMAIN act' /\ Len(act) <= Len(act')
      /\ \A i \in DOMAIN act : /\ HasEntered(i)' = HasEntered(i)
                               /\ Protecting(i)' = Protecting(i)
                               /\ Intact(i)' => Intact(i)
                               /\ Intact(i) => Intact(i)' \/ HasEntered(Len(act))
      /\ \A i \in DOMAIN act' \ DOMAIN act : Intact(i)' /\ ~HasEntered(i)'
  BY DEF Continues
<1>2. /\ Len(ses) + Len(buf) <= Len(act)
      /\ \A i \in DOMAIN ses : ses[i] = Protecting(i)
      /\ \A i \in DOMAIN act : HasEntered(i) => i <= Len(ses)
      /\ \A i \in DOMAIN act : i > Len(ses) => Intact(i)
  BY DEF SafeState, Recorded
<1>3. buf = << >>
  BY <1>1 DEF SafeState, Scanning
<1>4. /\ Len(ses) \in Nat /\ Len(act) \in Nat /\ Len(act') \in Nat /\ Len(buf) = 0
      /\ DOMAIN ses = 1..Len(ses) /\ DOMAIN act = 1..Len(act)
  BY <1>3 DEF SafeState, MachineState, TypeOK
<1>5. DOMAIN ses \subseteq DOMAIN act
  BY <1>2, <1>4
<1>6. Recorded'
  <2>1. (Len(ses) + Len(buf))' <= Len(act')
    BY <1>1, <1>2, <1>4
  <2>2. \A i \in DOMAIN ses : ses[i] = Protecting(i)'
    BY <1>1, <1>2, <1>5
  <2>3. \A i \in DOMAIN act' : HasEntered(i)' => i <= Len(ses)
    BY <1>1, <1>2
  <2>4. ASSUME NEW i \in DOMAIN act', i > Len(ses)
        PROVE  Intact(i)'
    <3>1. CASE i \in DOMAIN act
      <4>1. ~HasEntered(Len(act))
        BY <1>2, <1>4, <2>4, <3>1
      <4> QED BY <1>1, <1>2, <2>4, <3>1, <4>1
    <3>2. CASE i \notin DOMAIN act
      BY <1>1, <3>2
    <3> QED BY <3>1, <3>2
  <2> QED BY <1>1, <2>1, <2>2, <2>3, <2>4 DEF Recorded
<1>7. Scanning'
  BY <1>1, <1>3 DEF Scanning
<1>8. Verdict'
  BY <1>1 DEF SafeState, Verdict
<1> QED BY <1>1, <1>6, <1>7, <1>8 DEF SafeState

LEMMA EnterSafeSafe ==
  ASSUME SafeState, EnterSafe, MachineState'
  PROVE  SafeState'
<1>1. /\ act # << >> /\ act' = [act EXCEPT ![Len(act)].at = "pushing"]
      /\ threadAt' = threadAt /\ "pushing" \in Locations /\ At = "masked"
      /\ UNCHANGED <<impl, faultmask, ses, fault>> /\ fault = "none"
      /\ it' = NewIterator(Top.ret) /\ buf' = << >>
  BY DEF EnterSafe, Entering, Locations
<1>4. PICK n \in Nat : n = Len(act) /\ n \in DOMAIN act /\ n # 0
  BY <1>1, MoveTop DEF SafeState, MachineState, MachineInv
<1>5. buf = << >> /\ Len(ses) \in Nat /\ Len(ses) <= n /\ DOMAIN ses \subseteq DOMAIN act
  BY <1>1, <1>4 DEF SafeState, MachineState, MachineInv, Scanning, Recorded, TypeOK
<1>6. /\ Len(act') = n /\ DOMAIN act' = DOMAIN act /\ act' # << >> /\ At' = "pushing"
      /\ \A i \in DOMAIN act :
           /\ act'[i].ret = act[i].ret /\ act'[i].sp = act[i].sp
           /\ act'[i].frame = act[i].frame
           /\ act'[i].at = IF i = n THEN "pushing" ELSE act[i].at
           /\ Protecting(i)' = Protecting(i) /\ (Intact(i)' <=> Intact(i))
  BY <1>1, <1>4, MoveTop DEF SafeState, MachineState, MachineInv
<1>7. Recorded'
  <2>1. (Len(ses) + Len(buf))' <= Len(act')
    BY <1>1, <1>5, <1>6
  <2>2. \A i \in DOMAIN ses : ses[i] = Protecting(i)'
    BY <1>5, <1>6 DEF SafeState, MachineState, MachineInv, Recorded
  <2>3. \A i \in DOMAIN act :
          /\ act'[i].at \in {"app", "secure", "leaving"} => i <= Len(ses)
          /\ i > Len(ses) => Intact(i)'
    BY <1>6 DEF SafeState, MachineState, MachineInv, Recorded, HasEntered
  <2> QED BY <1>1, <1>6, <2>1, <2>2, <2>3 DEF Recorded, HasEntered
<1>8. Scanning'
  <2>1. it' = [msp |-> act[n].sp, exc_return |-> act[n].ret, frame |-> act[n].frame]
    <3>1. Msp = act[n].sp /\ Top = act[n]
      BY <1>1, <1>4 DEF Msp, Top
    <3> QED BY <1>1, <1>4, <3>1 DEF NewIterator, SafeState, MachineState, MachineInv, Nesting
  <2>2. it' = [msp |-> act'[n].sp, exc_return |-> act'[n].ret, frame |-> act'[n].frame]
    BY <1>4, <1>6, <2>1
  <2>3. Len(act') - Len(buf') = n
    BY <1>1, <1>6
  <2>4. n \in DOMAIN act' /\ n >= Len(ses')
    BY <1>1, <1>4, <1>5, <1>6
  <2>5. act' # << >> /\ At' = "pushing" /\ DOMAIN buf' = {}
    BY <1>1, <1>6
  <2> QED BY <2>2, <2>3, <2>4, <2>5 DEF Scanning
<1>9. Verdict'
  BY <1>1 DEF Verdict
<1> QED BY <1>1, <1>7, <1>8, <1>9 DEF SafeState

(* What pushShadowExcStack knows at the head of its loop: the m-th active   *)
(* exception is scanned, those above it are stored.                         *)
LEMMA ScanAt ==
  ASSUME SafeState, Looping
  PROVE  \E m \in DOMAIN act :
           /\ m = Len(act) - Len(buf) /\ m >= Len(ses) /\ it = IteratorAt(m)
           /\ \A j \in DOMAIN buf : buf[j] = Protecting(Len(act) - j + 1)
           /\ KnownFrame <=> m = Len(ses)
           /\ ~KnownFrame => m > Len(ses) /\ Intact(m)
<1>1. act # << >> /\ At = "pushing" /\ TypeOK
  BY DEF Looping, SafeState, MachineState, MachineInv
<1>2. PICK m \in DOMAIN act :
        /\ m = Len(act) - Len(buf) /\ m >= Len(ses) /\ it = IteratorAt(m)
        /\ \A j \in DOMAIN buf : buf[j] = Protecting(Len(act) - j + 1)
  BY <1>1 DEF SafeState, MachineState, MachineInv, Scanning, IteratorAt
<1>3. m \in Nat \ {0} /\ Len(ses) \in Nat
  BY <1>1, ActAt DEF TypeOK
<1>4. it.frame = act[m].frame
  BY <1>2 DEF IteratorAt
<1>5. ses # << >> => /\ Len(ses) \in DOMAIN ses /\ Len(ses) \in DOMAIN act
                     /\ ses[Len(ses)].frame = act[Len(ses)].frame
  <2>1. ses # << >> => Len(ses) \in DOMAIN ses
    BY <1>1, LastElement DEF TypeOK
  <2>2. ses # << >> => Len(ses) \in DOMAIN act
    BY <1>1, <2>1 DEF SafeState, MachineState, MachineInv, Recorded, TypeOK
  <2> QED BY <2>1, <2>2 DEF SafeState, MachineState, MachineInv, Recorded, Protecting
<1>6. KnownFrame <=> m = Len(ses)
  <2>1. CASE ses = << >>
    BY <1>3, <2>1 DEF KnownFrame
  <2>2. CASE ses # << >>
    <3>1. act[m].frame = act[Len(ses)].frame => m = Len(ses)
      BY <1>5, <2>2, FramesDistinct DEF SafeState, MachineState, MachineInv
    <3> QED BY <1>4, <1>5, <2>2, <3>1 DEF KnownFrame
  <2> QED BY <2>1, <2>2
<1>7. ~KnownFrame => m > Len(ses)
  BY <1>2, <1>3, <1>6
<1>8. ~KnownFrame => Intact(m)
  BY <1>7 DEF SafeState, MachineState, MachineInv, Recorded
<1> QED BY <1>2, <1>6, <1>7, <1>8

(* Storing the scanned frames in reverse order records every active         *)
(* exception.                                                               *)

(* Storing the scanned frames in reverse order records every active         *)
(* exception.                                                               *)
LEMMA StartHandlerSafe ==
  ASSUME SafeState, Looping, StartHandler, fault' = fault, MachineState',
         NEW b \in Seq(Frame), Len(ses) + Len(b) = Len(act),
         \A j \in DOMAIN b : b[j] = Protecting(Len(act) - j + 1),
         ses' = ses \o Reverse(b)
  PROVE  SafeState'
<1>1. /\ act # << >> /\ act' = [act EXCEPT ![Len(act)].at = "app"]
      /\ threadAt' = threadAt /\ "app" \in Locations /\ fault = "none"
      /\ faultmask' = FALSE /\ buf' = << >> /\ impl' = impl /\ TypeOK
      /\ ses \in Seq(Frame)
  BY DEF StartHandler, Looping, Locations, SafeState, MachineState, MachineInv, TypeOK
<1>3. /\ Len(act') = Len(act) /\ DOMAIN act' = DOMAIN act /\ act' # << >> /\ At' = "app"
      /\ Len(act) \in Nat \ {0} /\ DOMAIN act = 1..Len(act)
      /\ \A i \in DOMAIN act : Protecting(i)' = Protecting(i)
  BY <1>1, MoveTop
<1>5. /\ Reverse(b) \in Seq(Frame) /\ Len(Reverse(b)) = Len(b)
      /\ \A i \in 1..Len(b) : Reverse(b)[i] = b[Len(b) - i + 1]
  BY ReverseType
<1>6. PICK k \in Nat, c \in Nat, n \in Nat : k = Len(ses) /\ c = Len(b) /\ n = Len(act) /\ k + c = n
  <2>1. Len(ses) \in Nat /\ Len(b) \in Nat /\ Len(act) \in Nat
    BY <1>1, <1>3
  <2> QED BY <2>1
<1>7. Len(ses') = n /\ DOMAIN ses' = 1..n
  BY <1>1, <1>5, <1>6
<1>8. \A i \in 1..n : ses'[i] = Protecting(i)
  <2> TAKE i \in 1..n
  <2>1. CASE i <= k
    <3>1. i \in DOMAIN ses /\ ses'[i] = ses[i]
      BY <1>1, <1>5, <1>6, <2>1
    <3> QED BY <3>1 DEF SafeState, MachineState, MachineInv, Recorded
  <2>2. CASE i > k
    <3>1. i - k \in 1..c
      BY <1>6, <2>2
    <3>2. ses'[i] = Reverse(b)[i - k]
      <4> DEFINE rb == Reverse(b)
      <4> HIDE DEF rb
      <4>1. rb \in Seq(Frame) /\ Len(rb) = c /\ ses' = ses \o rb
        BY <1>5, <1>6 DEF rb
      <4>2. i \in (k + 1)..(k + c)
        BY <1>6, <2>2
      <4>3. ses'[i] = rb[i - k]
        BY <1>1, <1>6, <4>1, <4>2
      <4> QED BY <4>3 DEF rb
    <3>3. Reverse(b)[i - k] = b[c - (i - k) + 1]
      BY <1>5, <1>6, <3>1
    <3>4. c - (i - k) + 1 \in 1..c /\ n - (c - (i - k) + 1) + 1 = i
      <4>1. k + c = n /\ i \in Int
        BY <1>6
      <4> QED BY <3>1, <4>1
    <3>5. c - (i - k) + 1 \in DOMAIN b
      BY <1>6, <3>4
    <3>6. b[c - (i - k) + 1] = Protecting(Len(act) - (c - (i - k) + 1) + 1)
      BY <3>5
    <3>7. Len(act) - (c - (i - k) + 1) + 1 = i
      BY <1>6, <3>4
    <3> QED BY <3>2, <3>3, <3>6, <3>7
  <2>3. i <= k \/ i > k
    BY <1>6
  <2> QED BY <2>1, <2>2, <2>3
<1>9. Recorded'
  <2>1. (Len(ses) + Len(buf))' <= Len(act')
    BY <1>1, <1>3, <1>6, <1>7
  <2>2. \A i \in DOMAIN ses' : ses'[i] = Protecting(i)'
    BY <1>3, <1>6, <1>7, <1>8
  <2>3. \A i \in DOMAIN act' : i <= Len(ses') /\ ~(i > Len(ses'))
    BY <1>3, <1>6, <1>7
  <2> QED BY <2>1, <2>2, <2>3 DEF Recorded
<1>10. Scanning' /\ Verdict'
  BY <1>1, <1>3 DEF Scanning, Verdict
<1> QED BY <1>1, <1>9, <1>10 DEF SafeState

LEMMA PushKnownSafe ==
  ASSUME SafeState, PushKnown, MachineState'
  PROVE  SafeState'
<1>1. PICK m \in DOMAIN act :
        /\ m = Len(act) - Len(buf) /\ m = Len(ses)
        /\ \A j \in DOMAIN buf : buf[j] = Protecting(Len(act) - j + 1)
  BY ScanAt DEF PushKnown
<1>2. buf \in Seq(Frame) /\ Len(buf) \in Nat /\ Len(act) \in Nat
  BY DEF SafeState, MachineState, MachineInv, TypeOK
<1>3. Len(ses) + Len(buf) = Len(act)
  BY <1>1, <1>2
<1> QED BY <1>1, <1>2, <1>3, StartHandlerSafe DEF PushKnown

LEMMA PushNextSafe ==
  ASSUME SafeState, PushNext, MachineState'
  PROVE  SafeState'
<1>1. PICK m \in DOMAIN act :
        /\ m = Len(act) - Len(buf) /\ m > Len(ses) /\ Intact(m) /\ it = IteratorAt(m)
        /\ \A j \in DOMAIN buf : buf[j] = Protecting(Len(act) - j + 1)
  BY ScanAt DEF PushNext
<1>2. /\ TypeOK /\ Nesting /\ OneSecure /\ StackOrder /\ ChainSpacing /\ HasNext(it)
  BY DEF SafeState, MachineState, MachineInv, PushNext
<1>3. /\ m > 1 /\ act[m - 1].at = "entry" /\ "SPSEL" \notin act[m].ret
      /\ Moved(it) = IteratorAt(m - 1) /\ AsFrame(it) = Protecting(m)
  BY <1>1, <1>2, ChainBelow, AsFrameAt
<1>4. /\ UNCHANGED <<impl, threadAt, act, faultmask, ses>>
      /\ act # << >> /\ At = "pushing" /\ fault = "none" /\ fault' = fault
      /\ it' = IteratorAt(m - 1) /\ buf' = Append(buf, Protecting(m))
  BY <1>1, <1>3 DEF PushNext, Looping, machine, IteratorAt
<1>5. PICK k \in Nat, c \in Nat, n \in Nat :
        /\ k = Len(ses) /\ c = Len(buf) /\ n = Len(act) /\ m = n - c /\ m > k
        /\ m \in 1..n /\ DOMAIN act = 1..n
  BY <1>1, <1>2, ActAt DEF TypeOK
<1>6. /\ Len(buf') = c + 1 /\ DOMAIN buf' = 1..(c + 1) /\ buf'[c + 1] = Protecting(m)
      /\ \A j \in 1..c : buf'[j] = buf[j] /\ j \in DOMAIN buf
  BY <1>2, <1>4, <1>5 DEF TypeOK
<1>7. Verdict'
  BY <1>4 DEF Verdict
<1>8. \A i : /\ Protecting(i)' = Protecting(i)
             /\ Intact(i)' <=> Intact(i)
             /\ HasEntered(i)' <=> HasEntered(i)
             /\ IteratorAt(i)' = IteratorAt(i)
  BY <1>4 DEF Protecting, Original, Intact, HasEntered, IteratorAt
<1>9. Recorded'
  <2>1. (Len(ses) + Len(buf))' <= Len(act')
    BY <1>4, <1>5, <1>6
  <2> QED BY <1>4, <1>8, <2>1 DEF SafeState, MachineState, MachineInv, Recorded
<1>10. Scanning'
  <2>1. Len(act') - Len(buf') = m - 1 /\ m - 1 \in DOMAIN act' /\ m - 1 >= Len(ses')
    BY <1>3, <1>4, <1>5, <1>6
  <2>2. \A j \in DOMAIN buf' : buf'[j] = Protecting(Len(act) - j + 1)
    <3> TAKE j \in DOMAIN buf'
    <3>1. CASE j \in 1..c
      BY <1>1, <1>6, <3>1
    <3>2. CASE j = c + 1
      <4>1. n - (c + 1) + 1 = m
        BY <1>5
      <4> QED BY <1>5, <1>6, <3>2, <4>1
    <3> QED BY <1>5, <1>6, <3>1, <3>2
  <2>3. \A j \in DOMAIN buf' : buf'[j] = Protecting(Len(act) - j + 1)'
    <3> TAKE j \in DOMAIN buf'
    <3>1. Protecting(n - j + 1)' = Protecting(n - j + 1)
      BY <1>8
    <3>2. Len(act') = n /\ Len(act) = n
      BY <1>4, <1>5
    <3> QED BY <2>2, <3>1, <3>2
  <2>4. it' = [msp |-> act'[m - 1].sp, exc_return |-> act'[m - 1].ret,
               frame |-> act'[m - 1].frame]
    BY <1>4 DEF IteratorAt
  <2>5. act' # << >> /\ At' = "pushing"
    BY <1>4 DEF At, Top
  <2> QED BY <2>1, <2>3, <2>4, <2>5 DEF Scanning
<1> QED BY <1>4, <1>7, <1>9, <1>10 DEF SafeState

LEMMA PushLastSafe ==
  ASSUME SafeState, PushLast, MachineState'
  PROVE  SafeState'
<1>1. PICK m \in DOMAIN act :
        /\ m = Len(act) - Len(buf) /\ m > Len(ses) /\ Intact(m) /\ it = IteratorAt(m)
        /\ \A j \in DOMAIN buf : buf[j] = Protecting(Len(act) - j + 1)
  BY ScanAt DEF PushLast
<1>2. /\ TypeOK /\ Nesting /\ OneSecure /\ StackOrder /\ ChainSpacing /\ ~HasNext(it)
      /\ buf \in Seq(Frame) /\ AsFrame(it) \in Frame
  BY AsFrameType DEF SafeState, MachineState, MachineInv, PushLast, TypeOK
<1>3. m = 1 \/ act[m - 1].at # "entry"
  BY <1>1, <1>2, ChainBelow, ActAt
<1>4. PICK k \in Nat, c \in Nat, n \in Nat :
        /\ k = Len(ses) /\ c = Len(buf) /\ n = Len(act) /\ m = n - c /\ m > k
        /\ m \in 1..n /\ DOMAIN act = 1..n
  BY <1>1, <1>2, ActAt DEF TypeOK
<1>5. k = m - 1
  <2>1. CASE m = 1
    BY <1>4, <2>1
  <2>2. CASE m # 1
    <3>1. m - 1 \in DOMAIN act /\ m - 1 < Len(act)
      BY <1>4, <2>2
    <3>2. act[m - 1].at \in {"app", "secure"}
      BY <1>2, <1>3, <2>2, <3>1 DEF Nesting
    <3>3. m - 1 <= Len(ses)
      BY <3>1, <3>2 DEF SafeState, MachineState, MachineInv, Recorded, HasEntered
    <3> QED BY <1>4, <3>3
  <2> QED BY <2>1, <2>2
<1> DEFINE b == Append(buf, AsFrame(it))
<1>6. AsFrame(it) = Protecting(m)
  BY <1>1, <1>2, AsFrameAt
<1>7. /\ b \in Seq(Frame) /\ Len(b) = c + 1 /\ DOMAIN b = 1..(c + 1)
      /\ b[c + 1] = Protecting(m) /\ \A j \in 1..c : b[j] = buf[j] /\ j \in DOMAIN buf
  BY <1>2, <1>4, <1>6
<1>8. Looping /\ StartHandler /\ fault' = fault /\ ses' = ses \o Reverse(b)
  BY DEF PushLast
<1> HIDE DEF b
<1>9. \A j \in DOMAIN b : b[j] = Protecting(Len(act) - j + 1)
  <2> TAKE j \in DOMAIN b
  <2>1. CASE j \in 1..c
    BY <1>1, <1>7, <2>1
  <2>2. CASE j = c + 1
    <3>1. n - (c + 1) + 1 = m
      BY <1>4
    <3> QED BY <1>4, <1>7, <2>2, <3>1
  <2> QED BY <1>4, <1>7, <2>1, <2>2
<1>10. Len(ses) + Len(b) = Len(act)
  BY <1>4, <1>5, <1>7
<1> QED BY <1>7, <1>8, <1>9, <1>10, StartHandlerSafe

(* Leaving: by then every active exception is recorded.                     *)
LEMMA PopAt ==
  ASSUME SafeState, Leaving
  PROVE  /\ act # << >> /\ At = "leaving" /\ fault = "none"
         /\ Len(ses) = Len(act) /\ buf = << >> /\ Len(act) \in DOMAIN act
         /\ Len(act) \in Nat \ {0} /\ DOMAIN act = 1..Len(act)
         /\ PoppedExcReturn = Top.ret
         /\ NewIterator(PoppedExcReturn) = IteratorAt(Len(act))
         /\ ses[Len(ses)] = Protecting(Len(act))
         /\ PopAccepts => Intact(Len(act))
<1>1. act # << >> /\ At = "leaving" /\ fault = "none" /\ TypeOK /\ impl = "Safe"
  BY DEF Leaving, SafeState, MachineState, MachineInv
<1>2. Len(act) \in Nat \ {0} /\ Len(act) \in DOMAIN act /\ DOMAIN act = 1..Len(act)
  BY <1>1, LastElement DEF TypeOK
<1>3. buf = << >>
  BY <1>1 DEF SafeState, MachineState, MachineInv, Scanning
<1>4. Len(ses) = Len(act)
  <2>1. Len(ses) + Len(buf) <= Len(act) /\ Len(buf) = 0 /\ Len(ses) \in Nat
    BY <1>1, <1>3 DEF SafeState, MachineState, MachineInv, Recorded, TypeOK
  <2>2. act[Len(act)].at = "leaving"
    BY <1>1 DEF At, Top
  <2>3. Len(act) <= Len(ses)
    BY <1>2, <2>2 DEF SafeState, MachineState, MachineInv, Recorded, HasEntered
  <2>4. Len(act) \in Nat
    BY <1>2
  <2> QED BY <2>1, <2>3, <2>4
<1>5. ses[Len(ses)] = Protecting(Len(act)) /\ ses # << >>
  BY <1>1, <1>2, <1>4 DEF SafeState, MachineState, MachineInv, Recorded, TypeOK
<1>6. PoppedExcReturn = Top.ret /\ Top = act[Len(act)]
  BY <1>5 DEF PoppedExcReturn, Protecting, Top
<1>7. NewIterator(PoppedExcReturn) = IteratorAt(Len(act))
  BY <1>1, <1>2, <1>6 DEF NewIterator, IteratorAt, Msp, SafeState, MachineState, MachineInv, Nesting
<1>8. PopAccepts => AsFrame(IteratorAt(Len(act))) = Protecting(Len(act))
  BY <1>1, <1>5, <1>7 DEF PopAccepts
<1>9. PopAccepts => Intact(Len(act))
  BY <1>2, <1>8, AsFrameAt DEF SafeState, MachineState, MachineInv
<1> QED BY <1>1, <1>2, <1>3, <1>4, <1>5, <1>6, <1>7, <1>9

(* popShadowExcStack accepts when nothing has been changed.                 *)
LEMMA IntactAccepted ==
  ASSUME SafeState, Leaving, \A i \in DOMAIN act : Intact(i)
  PROVE  PopAccepts
<1>1. PICK n \in Nat : n = Len(act) /\ n \in DOMAIN act /\ DOMAIN act = 1..n /\ n # 0
  BY PopAt
<1>2. /\ Nesting /\ OneSecure /\ StackOrder /\ ChainSpacing /\ TypeOK /\ impl = "Safe"
      /\ ses \in Seq(Frame)
  BY DEF SafeState, MachineState, MachineInv, TypeOK
<1>3. Len(ses) = n /\ ses # << >> /\ DOMAIN ses = 1..n /\ NewIterator(PoppedExcReturn) = IteratorAt(n)
      /\ PoppedExcReturn = act[n].ret
  BY <1>1, <1>2, PopAt DEF Top
<1>4. AsFrame(IteratorAt(n)) = ses[Len(ses)]
  BY <1>1, <1>2, <1>3, AsFrameAt, PopAt
<1>5. ASSUME HasNext(IteratorAt(n))
      PROVE  /\ "SPSEL" \notin act[n].ret /\ n > 1
             /\ AsFrame(Moved(IteratorAt(n))) = ses[n - 1]
  <2>1. n > 1 /\ "SPSEL" \notin act[n].ret /\ Moved(IteratorAt(n)) = IteratorAt(n - 1)
    BY <1>1, <1>2, <1>5, ChainBelow
  <2>2. n - 1 \in DOMAIN act /\ n - 1 \in DOMAIN ses
    BY <1>1, <1>3, <2>1
  <2>3. AsFrame(IteratorAt(n - 1)) = Protecting(n - 1)
    BY <1>2, <2>2, AsFrameAt
  <2>4. ses[n - 1] = Protecting(n - 1)
    BY <2>2 DEF SafeState, MachineState, MachineInv, Recorded
  <2> QED BY <2>1, <2>3, <2>4
<1> QED BY <1>1, <1>3, <1>4, <1>5 DEF PopAccepts

LEMMA LeavePanicsSafe ==
  ASSUME SafeState, LeavePanics, MachineState'
  PROVE  SafeState'
<1>1. UNCHANGED <<impl, threadAt, act, faultmask, ses, it, buf>> /\ fault' = "panic"
  BY DEF LeavePanics, machine, monitor
<1>2. \E i \in DOMAIN act : ~Intact(i)
  BY IntactAccepted DEF LeavePanics
<1>3. Verdict'
  BY <1>1, <1>2 DEF Verdict, Intact, Original
<1>4. Recorded' /\ Scanning'
  BY <1>1 DEF SafeState, Recorded, Protecting, Original, Intact, HasEntered, Scanning, At, Top
<1> QED BY <1>1, <1>3, <1>4 DEF SafeState

(* What the monitor is left with, whatever the core does next.              *)
LEMMA PopSafe ==
  ASSUME SafeState, ExceptionReturn
  PROVE  /\ act # << >> /\ Len(ses) = Len(act)
         /\ Len(ses') = Len(act) - 1 /\ DOMAIN ses' = 1..(Len(act) - 1)
         /\ \A i \in DOMAIN ses' : i \in DOMAIN act /\ ses'[i] = Protecting(i)
         /\ buf' = << >> /\ faultmask' = FALSE /\ fault' = "none"
         /\ UNCHANGED <<impl, threadAt, it>>
         /\ Intact(Len(act))
<1>1. /\ Leaving /\ PopAccepts /\ ses' = Popped /\ faultmask' = FALSE
      /\ fault' = (IF PoppedExcReturn = Top.ret THEN "none" ELSE "derailed")
      /\ UNCHANGED <<impl, threadAt, it, buf>>
  BY DEF ExceptionReturn
<1>2. PICK n \in Nat : n = Len(act) /\ n \in DOMAIN act /\ DOMAIN act = 1..n /\ n # 0
  BY <1>1, PopAt
<1>3. /\ Len(ses) = n /\ act # << >> /\ buf = << >> /\ fault' = "none" /\ Intact(Len(act))
  BY <1>1, <1>2, PopAt
<1>4. ses \in Seq(Frame) /\ ses' = SubSeq(ses, 1, n - 1)
  BY <1>1, <1>3 DEF Popped, SafeState, MachineState, MachineInv, TypeOK
<1>5. /\ Len(ses') = n - 1 /\ DOMAIN ses' = 1..(n - 1)
      /\ \A i \in 1..(n - 1) : ses'[i] = ses[i] /\ i \in DOMAIN ses
  BY <1>2, <1>3, <1>4
<1>6. \A i \in 1..(n - 1) : i \in DOMAIN act /\ ses'[i] = Protecting(i)
  BY <1>2, <1>5 DEF SafeState, MachineState, MachineInv, Recorded
<1> QED BY <1>1, <1>2, <1>3, <1>5, <1>6

LEMMA LeaveInterruptSafe ==
  ASSUME SafeState, LeaveInterrupt, TypeOK'
  PROVE  SafeState'
<1>1. /\ MachineState' /\ At' # "pushing"
      /\ Len(act) \in Nat \ {0} /\ Len(act') = Len(act) - 1
      /\ DOMAIN act' = 1..(Len(act) - 1)
      /\ \A i \in DOMAIN act' : Kept(i)
  BY LeaveMachine DEF SafeState
<1>2. /\ Len(ses') = Len(act) - 1 /\ DOMAIN ses' = 1..(Len(act) - 1)
      /\ \A i \in DOMAIN ses' : ses'[i] = Protecting(i)
      /\ buf' = << >> /\ fault' = "none" /\ impl' = impl
  BY PopSafe DEF LeaveInterrupt
<1>3. Recorded'
  <2>1. (Len(ses) + Len(buf))' <= Len(act')
    BY <1>1, <1>2
  <2>2. \A i \in DOMAIN ses' : ses'[i] = Protecting(i)'
    BY <1>1, <1>2 DEF Kept
  <2>3. \A i \in DOMAIN act' : i <= Len(ses') /\ ~(i > Len(ses'))
    BY <1>1, <1>2
  <2> QED BY <2>1, <2>2, <2>3 DEF Recorded
<1>4. Scanning' /\ Verdict'
  BY <1>1, <1>2 DEF Scanning, Verdict
<1> QED BY <1>1, <1>2, <1>3, <1>4 DEF SafeState

LEMMA TailChainSafe ==
  ASSUME SafeState, NEW p \in Prios, TailChain(p), TypeOK'
  PROVE  SafeState'
<1>1. /\ MachineState' /\ At' = "entry"
      /\ Len(act) \in Nat \ {0} /\ Len(act') = Len(act)
      /\ DOMAIN act = 1..Len(act) /\ DOMAIN act' = DOMAIN act
      /\ ~HasEntered(Len(act))'
      /\ \A i \in DOMAIN act : Kept(i)
  BY TailChainMachine DEF SafeState
<1>2. /\ Len(ses') = Len(act) - 1 /\ DOMAIN ses' = 1..(Len(act) - 1)
      /\ \A i \in DOMAIN ses' : i \in DOMAIN act /\ ses'[i] = Protecting(i)
      /\ buf' = << >> /\ fault' = "none" /\ impl' = impl /\ Intact(Len(act))
  BY PopSafe DEF TailChain
<1>3. Recorded'
  <2>1. (Len(ses) + Len(buf))' <= Len(act')
    BY <1>1, <1>2
  <2>2. \A i \in DOMAIN ses' : ses'[i] = Protecting(i)'
    BY <1>1, <1>2 DEF Kept
  <2>3. \A i \in DOMAIN act : i <= Len(act) - 1 \/ i = Len(act)
    BY <1>1
  <2>4. \A i \in DOMAIN act' : HasEntered(i)' => i <= Len(ses')
    BY <1>1, <1>2, <2>3 DEF HasEntered
  <2>5. \A i \in DOMAIN act' : i > Len(ses') => Intact(i)'
    BY <1>1, <1>2, <2>3 DEF Kept
  <2> QED BY <2>1, <2>2, <2>4, <2>5 DEF Recorded
<1>4. Scanning' /\ Verdict'
  BY <1>1, <1>2 DEF Scanning, Verdict
<1> QED BY <1>1, <1>2, <1>3, <1>4 DEF SafeState

LEMMA SafeSame ==
  ASSUME SafeState, Same, MachineState'
  PROVE  SafeState'
<1>1. UNCHANGED <<impl, act, ses, it, buf, fault>> /\ At' = At
  BY DEF Same, At, Top
<1>2. Recorded' /\ Scanning' /\ Verdict'
  BY <1>1 DEF Same, SafeState, Recorded, Protecting, Original, Intact, HasEntered, Scanning, Verdict
<1> QED BY <1>1, <1>2 DEF SafeState

LEMMA SafeStep ==
  ASSUME SafeState, [Next]_vars
  PROVE  SafeState'
<1>1. /\ MachineState' /\ TypeOK' /\ impl = "Safe"
      /\ \/ Same \/ Continues \/ EnterInterrupt \/ LeavePanics \/ LeaveInterrupt
         \/ \E p \in Prios : TailChain(p)
  BY Steps DEF SafeState, MachineState
<1>2. ASSUME EnterInterrupt
      PROVE  SafeState'
  <2>1. ~EnterNaive /\ ~EnterUnnested /\ ~EnterNull
    BY <1>1 DEF EnterNaive, EnterUnnested, EnterNull
  <2> QED BY <1>1, <1>2, <2>1, EnterSafeSafe, PushKnownSafe, PushNextSafe,
             PushLastSafe DEF EnterInterrupt
<1> QED BY <1>1, <1>2, SafeSame, SafeContinues, LeavePanicsSafe, LeaveInterruptSafe, TailChainSafe

----------------------------------------------------------------------------
(* Naive.                                                                   *)

NaiveState == MachineState /\ impl = "Naive" /\ NotScanning /\ NaiveRecorded /\ Verdict

LEMMA NaiveKept ==
  ASSUME MachineState, NaiveRecorded, ses' = ses, DOMAIN act \subseteq DOMAIN act',
         \A i \in DOMAIN act : /\ HasEntered(i)' = HasEntered(i)
                               /\ act'[i].ret = act[i].ret
                               /\ Protecting(i)' = Protecting(i)
                               /\ Intact(i)' => Intact(i),
         \A i \in DOMAIN act' \ DOMAIN act : ~HasEntered(i)'
  PROVE  NaiveRecorded'
<1>1. PICK e \in [DOMAIN ses -> DOMAIN act] : Entries(e)
  BY DEF NaiveRecorded
<1>2. \A k \in DOMAIN ses : e[k] \in DOMAIN act
  OBVIOUS
<1>3. e \in [DOMAIN ses' -> DOMAIN act']
  BY <1>2
<1>4. /\ \A k, l \in DOMAIN ses : k < l => e[k] < e[l]
      /\ \A k \in DOMAIN ses : k <= e[k] /\ HasEntered(e[k])
      /\ \A i \in DOMAIN act : HasEntered(i) => \E k \in DOMAIN ses : e[k] = i
      /\ \A k \in DOMAIN ses : /\ ses[k].exc_return = act[e[k]].ret
                               /\ Intact(e[k]) => ses[k] = Protecting(e[k])
  BY <1>1 DEF Entries
<1>5. \A k \in DOMAIN ses' : k <= e[k] /\ HasEntered(e[k])'
  BY <1>2, <1>4
<1>6. \A i \in DOMAIN act' : HasEntered(i)' => \E k \in DOMAIN ses' : e[k] = i
  BY <1>4
<1>7. \A k \in DOMAIN ses' : /\ ses'[k].exc_return = act'[e[k]].ret
                             /\ Intact(e[k])' => ses'[k] = Protecting(e[k])'
  BY <1>2, <1>4
<1>8. Entries(e)'
  BY <1>4, <1>5, <1>6, <1>7 DEF Entries
<1> QED BY <1>3, <1>8 DEF NaiveRecorded

LEMMA NaiveContinues ==
  ASSUME NaiveState, Continues, MachineState'
  PROVE  NaiveState'
<1>1. NaiveRecorded'
  BY NaiveKept DEF NaiveState, Continues
<1>2. NotScanning' /\ Verdict'
  BY DEF NaiveState, Continues, NotScanning, Verdict
<1> QED BY <1>1, <1>2 DEF NaiveState, Continues

LEMMA NaiveSame ==
  ASSUME NaiveState, Same, MachineState'
  PROVE  NaiveState'
<1>1. At' = At /\ \A i : /\ HasEntered(i)' = HasEntered(i)
                         /\ Protecting(i)' = Protecting(i)
                         /\ Intact(i)' = Intact(i)
  BY DEF Same, At, Top, Protecting, Original, Intact, HasEntered
<1>2. NaiveRecorded'
  BY <1>1, NaiveKept DEF NaiveState, Same
<1>3. NotScanning' /\ Verdict'
  BY <1>1 DEF NaiveState, Same, NotScanning, Verdict
<1> QED BY <1>2, <1>3 DEF NaiveState, Same

(* The iterator __tcEnterInterrupt starts from is at the running exception. *)
LEMMA IteratorAtTop ==
  ASSUME MachineState, act # << >>
  PROVE  /\ NewIterator(Top.ret) = IteratorAt(Len(act)) /\ Top = act[Len(act)]
         /\ Len(act) \in DOMAIN act /\ Len(act) \in Nat \ {0} /\ DOMAIN act = 1..Len(act)
         /\ At = act[Len(act)].at
         /\ Intact(Len(act)) => AsFrame(NewIterator(Top.ret)) = Protecting(Len(act))
         /\ AsFrame(NewIterator(Top.ret)) = Protecting(Len(act)) => Intact(Len(act))
         /\ AsFrame(NewIterator(Top.ret)).exc_return = Top.ret
         /\ AsFrame(NewIterator(Top.ret)) \in Frame
<1>1. Len(act) \in DOMAIN act /\ Len(act) \in Nat \ {0} /\ DOMAIN act = 1..Len(act)
  BY LastElement DEF MachineState, TypeOK
<1>2. Top = act[Len(act)] /\ At = act[Len(act)].at
  BY DEF Top, At
<1>3. NewIterator(Top.ret) = IteratorAt(Len(act))
  BY <1>1, <1>2 DEF NewIterator, IteratorAt, Msp, MachineState, MachineInv, Nesting
<1>4. /\ Intact(Len(act)) => AsFrame(IteratorAt(Len(act))) = Protecting(Len(act))
      /\ AsFrame(IteratorAt(Len(act))) = Protecting(Len(act)) => Intact(Len(act))
  BY <1>1, AsFrameAt DEF MachineState, MachineInv
<1>5. AsFrame(NewIterator(Top.ret)) \in Frame
  BY TopType, NewIteratorType, AsFrameType DEF MachineState, Activations, LrWords
<1> QED BY <1>1, <1>2, <1>3, <1>4, <1>5 DEF AsFrame, NewIterator

(* What StartHandler does to the active exceptions.                         *)
LEMMA HandlerStarted ==
  ASSUME MachineState, act # << >>, StartHandler, MachineState'
  PROVE  /\ impl' = impl /\ buf' = << >> /\ At' = "app" /\ act' # << >>
         /\ Len(act') = Len(act) /\ DOMAIN act' = DOMAIN act
         /\ HasEntered(Len(act))'
         /\ \A i \in DOMAIN act : /\ Kept(i)
                                  /\ i # Len(act) => HasEntered(i)' = HasEntered(i)
<1>1. TopMoves("app") /\ "app" \in Locations /\ TypeOK' /\ impl' = impl /\ buf' = << >>
  BY DEF StartHandler, TopMoves, Locations, MachineState
<1>2. /\ At' = "app" /\ act' # << >> /\ Len(act') = Len(act) /\ DOMAIN act' = DOMAIN act
      /\ Len(act) \in Nat \ {0} /\ DOMAIN act = 1..Len(act)
      /\ \A i \in DOMAIN act : /\ Kept(i)
                               /\ act'[i].at = IF i = Len(act) THEN "app" ELSE act[i].at
  BY <1>1, MoveTopMachine
<1>3. HasEntered(Len(act))' /\ \A i \in DOMAIN act : i # Len(act) => HasEntered(i)' = HasEntered(i)
  BY <1>2 DEF HasEntered
<1> QED BY <1>1, <1>2, <1>3

LEMMA EnterNaiveNaive ==
  ASSUME NaiveState, EnterNaive, MachineState'
  PROVE  NaiveState'
<1>1. /\ act # << >> /\ At = "masked" /\ fault = "none" /\ StartHandler /\ UNCHANGED fault
      /\ ses' = Append(ses, AsFrame(NewIterator(Top.ret))) /\ MachineState
  BY DEF EnterNaive, Entering, NaiveState
<1>2. PICK n \in Nat : n = Len(act) /\ n \in DOMAIN act /\ DOMAIN act = 1..n /\ n # 0
  BY <1>1, IteratorAtTop
<1> DEFINE f == AsFrame(NewIterator(Top.ret))
<1>3. /\ f \in Frame /\ f.exc_return = act[n].ret
      /\ Intact(n) => f = Protecting(n)
      /\ act[n].at = "masked"
  BY <1>1, <1>2, IteratorAtTop
<1>4. /\ impl' = impl /\ buf' = << >> /\ At' = "app"
      /\ DOMAIN act' = DOMAIN act /\ HasEntered(Len(act))' /\ Len(act') = Len(act)
      /\ \A i \in DOMAIN act : /\ Kept(i)
                               /\ i # n => HasEntered(i)' = HasEntered(i)
  BY <1>1, <1>2, HandlerStarted
<1>5. PICK m \in Nat : m = Len(ses) /\ DOMAIN ses = 1..m
  BY <1>1 DEF MachineState, TypeOK
<1> HIDE DEF f
<1>6. /\ Len(ses') = m + 1 /\ DOMAIN ses' = 1..(m + 1) /\ ses'[m + 1] = f
      /\ \A k \in 1..m : ses'[k] = ses[k]
  BY <1>1, <1>3, <1>5 DEF MachineState, TypeOK, f
<1>7. PICK e \in [DOMAIN ses -> DOMAIN act] : Entries(e)
  BY DEF NaiveState, NaiveRecorded
<1>8. /\ \A k, l \in 1..m : k < l => e[k] < e[l]
      /\ \A k \in 1..m : k <= e[k] /\ HasEntered(e[k]) /\ e[k] \in 1..n
      /\ \A i \in 1..n : HasEntered(i) => \E k \in 1..m : e[k] = i
      /\ \A k \in 1..m : /\ ses[k].exc_return = act[e[k]].ret
                         /\ Intact(e[k]) => ses[k] = Protecting(e[k])
  BY <1>2, <1>5, <1>7 DEF Entries
<1>9. \A k \in 1..m : e[k] # n /\ e[k] < n
  <2>1. ~HasEntered(n)
    BY <1>3 DEF HasEntered
  <2> QED BY <1>8, <2>1
<1> DEFINE d == [k \in 1..(m + 1) |-> IF k = m + 1 THEN n ELSE e[k]]
<1>10. d[m + 1] = n /\ \A k \in 1..m : d[k] = e[k]
  OBVIOUS
<1>11. d \in [DOMAIN ses' -> DOMAIN act']
  BY <1>2, <1>4, <1>6, <1>8
<1> HIDE DEF d
<1>12. \A k \in 1..(m + 1) : k \in 1..m \/ k = m + 1
  OBVIOUS
<1>13. \A k, l \in 1..(m + 1) : k < l => d[k] < d[l]
  <2> TAKE k \in 1..(m + 1), l \in 1..(m + 1)
  <2>1. CASE l = m + 1
    BY <1>9, <1>10, <1>12, <2>1
  <2>2. CASE l # m + 1
    <3>1. k < l => k \in 1..m
      BY <2>2
    <3> QED BY <1>8, <1>10, <1>12, <2>2, <3>1
  <2> QED BY <2>1, <2>2
<1>14. HasEntered(n)'
  BY <1>2, <1>4 DEF HasEntered
<1>15. \A k \in 1..(m + 1) : k <= d[k] /\ HasEntered(d[k])'
  <2>1. m + 1 <= n
    <3>1. CASE m = 0
      BY <1>2, <3>1
    <3>2. CASE m # 0
      <4>1. m <= e[m] /\ e[m] < n /\ e[m] \in Int
        BY <1>8, <1>9, <3>2
      <4> QED BY <1>2, <4>1
    <3> QED BY <3>1, <3>2
  <2>2. \A k \in 1..m : k <= d[k] /\ HasEntered(d[k])'
    BY <1>2, <1>4, <1>8, <1>9, <1>10
  <2> QED BY <1>10, <1>12, <1>14, <2>1, <2>2
<1>16. \A i \in 1..n : HasEntered(i)' => \E k \in 1..(m + 1) : d[k] = i
  <2> TAKE i \in 1..n
  <2>1. CASE i = n
    BY <1>10, <2>1
  <2>2. CASE i # n
    <3>1. HasEntered(i)' => \E k \in 1..m : e[k] = i
      BY <1>2, <1>4, <1>8, <2>2
    <3>2. \A k \in 1..m : k \in 1..(m + 1)
      OBVIOUS
    <3> QED BY <1>10, <3>1, <3>2
  <2> QED BY <2>1, <2>2
<1>17. \A k \in 1..(m + 1) : /\ ses'[k].exc_return = act'[d[k]].ret
                             /\ Intact(d[k])' => ses'[k] = Protecting(d[k])'
  <2>1. /\ ses'[m + 1].exc_return = act'[n].ret
        /\ Intact(n)' => ses'[m + 1] = Protecting(n)'
    BY <1>2, <1>3, <1>4, <1>6 DEF Kept
  <2>2. ASSUME NEW k \in 1..m
        PROVE  /\ ses'[k].exc_return = act'[e[k]].ret
               /\ Intact(e[k])' => ses'[k] = Protecting(e[k])'
    <3>1. Kept(e[k])
      BY <1>2, <1>4, <1>8
    <3> QED BY <1>6, <1>8, <3>1 DEF Kept
  <2> QED BY <1>10, <1>12, <2>1, <2>2
<1>18. Entries(d)'
  BY <1>2, <1>4, <1>6, <1>13, <1>15, <1>16, <1>17 DEF Entries
<1>19. NaiveRecorded'
  BY <1>11, <1>18 DEF NaiveRecorded
<1>20. NotScanning' /\ Verdict'
  BY <1>1, <1>4 DEF NotScanning, Verdict
<1> QED BY <1>4, <1>19, <1>20 DEF NaiveState

(* The running exception, about to return, is the last that has entered.    *)
LEMMA NaiveTop ==
  ASSUME NaiveState, Leaving, NEW e \in [DOMAIN ses -> DOMAIN act], Entries(e)
  PROVE  /\ Len(ses) \in DOMAIN ses /\ Len(ses) \in Nat \ {0} /\ DOMAIN ses = 1..Len(ses)
         /\ e[Len(ses)] = Len(act)
         /\ PoppedExcReturn = Top.ret
         /\ Intact(Len(act)) => PopAccepts
<1>1. act # << >> /\ At = "leaving" /\ MachineState /\ impl = "Naive"
  BY DEF Leaving, NaiveState
<1>2. PICK n \in Nat : n = Len(act) /\ n \in DOMAIN act /\ DOMAIN act = 1..n /\ n # 0
  BY <1>1, IteratorAtTop
<1>3. PICK m \in Nat : m = Len(ses) /\ DOMAIN ses = 1..m
  BY <1>1 DEF MachineState, TypeOK
<1>4. /\ \A k, l \in 1..m : k < l => e[k] < e[l]
      /\ \A i \in 1..n : HasEntered(i) => \E k \in 1..m : e[k] = i
      /\ \A k \in 1..m : e[k] \in 1..n
      /\ \A k \in 1..m : /\ ses[k].exc_return = act[e[k]].ret
                         /\ Intact(e[k]) => ses[k] = Protecting(e[k])
  BY <1>2, <1>3 DEF Entries
<1>5. HasEntered(n)
  BY <1>1, <1>2, IteratorAtTop DEF HasEntered
<1>6. PICK k \in 1..m : e[k] = n
  BY <1>2, <1>4, <1>5
<1>7. m \in 1..m /\ m # 0
  BY <1>6
<1>8. e[m] = n
  <2>1. CASE k = m
    BY <1>6, <2>1
  <2>2. CASE k # m
    <3>1. k < m
      BY <2>2
    <3>2. n < e[m] /\ e[m] \in 1..n
      BY <1>4, <1>6, <1>7, <3>1
    <3> QED BY <3>2
  <2> QED BY <2>1, <2>2
<1>9. Top = act[n] /\ PoppedExcReturn = Top.ret
  BY <1>1, <1>2, <1>3, <1>4, <1>7, <1>8, IteratorAtTop DEF PoppedExcReturn
<1>10. ses # << >>
  BY <1>3, <1>7
<1>11. Intact(n) => PopAccepts
  BY <1>1, <1>2, <1>3, <1>4, <1>7, <1>8, <1>9, <1>10, IteratorAtTop DEF PopAccepts
<1> QED BY <1>2, <1>3, <1>7, <1>8, <1>9, <1>11

LEMMA LeavePanicsNaive ==
  ASSUME NaiveState, LeavePanics, MachineState'
  PROVE  NaiveState'
<1>1. /\ UNCHANGED <<impl, threadAt, act, faultmask, ses, it, buf>> /\ fault' = "panic"
      /\ Leaving /\ ~PopAccepts
  BY DEF LeavePanics, machine, monitor
<1>2. Len(act) \in DOMAIN act /\ ~Intact(Len(act))
  BY <1>1, NaiveTop, IteratorAtTop DEF NaiveState, NaiveRecorded, Leaving
<1>3. At' = At /\ \A i : /\ HasEntered(i)' = HasEntered(i)
                         /\ Protecting(i)' = Protecting(i)
                         /\ Intact(i)' = Intact(i)
  BY <1>1 DEF At, Top, Protecting, Original, Intact, HasEntered
<1>4. Verdict'
  BY <1>1, <1>2, <1>3 DEF Verdict
<1>5. NaiveRecorded'
  BY <1>1, <1>3, NaiveKept DEF NaiveState
<1> QED BY <1>1, <1>3, <1>4, <1>5 DEF NaiveState, NotScanning

(* Whatever the core does next, the exceptions that have entered are those  *)
(* below the one that has returned.                                         *)
LEMMA PopNaive ==
  ASSUME NaiveState, ExceptionReturn, MachineState', At' # "pushing",
         \A i \in 1..(Len(act) - 1) :
           i \in DOMAIN act' /\ Kept(i) /\ HasEntered(i)' = HasEntered(i),
         \A i \in DOMAIN act' : i \in 1..(Len(act) - 1) \/ ~HasEntered(i)'
  PROVE  NaiveState'
<1>1. /\ Leaving /\ act # << >> /\ ses' = Popped /\ impl = "Naive" /\ MachineState
      /\ fault' = (IF PoppedExcReturn = Top.ret THEN "none" ELSE "derailed")
      /\ UNCHANGED <<impl, it, buf>>
  BY DEF ExceptionReturn, Leaving, NaiveState
<1>2. PICK e \in [DOMAIN ses -> DOMAIN act] : Entries(e)
  BY DEF NaiveState, NaiveRecorded
<1>3. PICK n \in Nat : n = Len(act) /\ n \in DOMAIN act /\ DOMAIN act = 1..n /\ n # 0
  BY <1>1, IteratorAtTop
<1>4. PICK m \in Nat : m = Len(ses) /\ DOMAIN ses = 1..m
  BY <1>1 DEF MachineState, TypeOK
<1>5. e[m] = n /\ m \in 1..m /\ m # 0 /\ PoppedExcReturn = Top.ret
  BY <1>1, <1>2, <1>3, <1>4, NaiveTop
<1>6. /\ \A k, l \in 1..m : k < l => e[k] < e[l]
      /\ \A k \in 1..m : k <= e[k] /\ HasEntered(e[k]) /\ e[k] \in 1..n
      /\ \A i \in 1..n : HasEntered(i) => \E k \in 1..m : e[k] = i
      /\ \A k \in 1..m : /\ ses[k].exc_return = act[e[k]].ret
                         /\ Intact(e[k]) => ses[k] = Protecting(e[k])
  BY <1>2, <1>3, <1>4 DEF Entries
<1>7. ses' = SubSeq(ses, 1, m - 1) /\ ses \in Seq(Frame)
  BY <1>1, <1>4 DEF Popped, MachineState, TypeOK
<1>8. /\ DOMAIN ses' = 1..(m - 1)
      /\ \A k \in 1..(m - 1) : ses'[k] = ses[k] /\ k \in 1..m /\ k < m
  BY <1>4, <1>5, <1>7
<1>9. \A k \in 1..(m - 1) : e[k] \in 1..(n - 1)
  BY <1>3, <1>5, <1>6, <1>8
<1> DEFINE d == [k \in 1..(m - 1) |-> e[k]]
<1>10. d \in [DOMAIN ses' -> DOMAIN act'] /\ \A k \in 1..(m - 1) : d[k] = e[k]
  BY <1>3, <1>8, <1>9
<1> HIDE DEF d
<1>11. \A k, l \in 1..(m - 1) : k < l => d[k] < d[l]
  BY <1>6, <1>8, <1>10
<1>12. \A k \in 1..(m - 1) : k <= d[k] /\ HasEntered(d[k])'
  BY <1>3, <1>6, <1>8, <1>9, <1>10
<1>13. \A i \in DOMAIN act' : HasEntered(i)' => \E k \in 1..(m - 1) : d[k] = i
  <2> SUFFICES ASSUME NEW i \in 1..(n - 1), HasEntered(i)
               PROVE  \E k \in 1..(m - 1) : d[k] = i
    BY <1>3
  <2>1. PICK k \in 1..m : e[k] = i
    BY <1>6
  <2>2. k # m
    BY <1>5, <2>1
  <2>3. k \in 1..(m - 1)
    BY <2>2
  <2> QED BY <1>10, <2>1, <2>3
<1>14. \A k \in 1..(m - 1) : /\ ses'[k].exc_return = act'[d[k]].ret
                             /\ Intact(d[k])' => ses'[k] = Protecting(d[k])'
  <2> TAKE k \in 1..(m - 1)
  <2>1. Kept(e[k]) /\ ses'[k] = ses[k] /\ k \in 1..m /\ d[k] = e[k]
    BY <1>3, <1>8, <1>9, <1>10
  <2>2. ses[k].exc_return = act[e[k]].ret /\ (Intact(e[k]) => ses[k] = Protecting(e[k]))
    BY <1>6, <2>1
  <2> QED BY <2>1, <2>2 DEF Kept
<1>15. Entries(d)'
  BY <1>8, <1>11, <1>12, <1>13, <1>14 DEF Entries
<1>16. NaiveRecorded'
  BY <1>10, <1>15 DEF NaiveRecorded
<1>17. NotScanning' /\ Verdict'
  BY <1>1, <1>5 DEF NaiveState, NotScanning, Verdict
<1> QED BY <1>1, <1>16, <1>17 DEF NaiveState

LEMMA NaiveStep ==
  ASSUME NaiveState, [Next]_vars
  PROVE  NaiveState'
<1>1. /\ MachineState' /\ TypeOK' /\ impl = "Naive" /\ MachineState
      /\ \/ Same \/ Continues \/ EnterInterrupt \/ LeavePanics \/ LeaveInterrupt
         \/ \E p \in Prios : TailChain(p)
  BY Steps DEF NaiveState, MachineState
<1>2. ASSUME EnterInterrupt
      PROVE  NaiveState'
  <2>1. EnterNaive
    BY <1>1, <1>2
    DEF EnterInterrupt, EnterSafe, PushKnown, PushNext, PushLast, Looping, EnterUnnested,
        EnterNull, NaiveState, NotScanning
  <2> QED BY <1>1, <2>1, EnterNaiveNaive
<1>3. ASSUME LeaveInterrupt
      PROVE  NaiveState'
  <2>1. /\ At' # "pushing" /\ Len(act) \in Nat \ {0}
        /\ DOMAIN act = 1..Len(act) /\ DOMAIN act' = 1..(Len(act) - 1)
        /\ \A i \in DOMAIN act' : Kept(i) /\ HasEntered(i)' = HasEntered(i)
    BY <1>1, <1>3, LeaveMachine
  <2>2. ExceptionReturn
    BY <1>3 DEF LeaveInterrupt
  <2> QED BY <1>1, <2>1, <2>2, PopNaive
<1>4. ASSUME NEW p \in Prios, TailChain(p)
      PROVE  NaiveState'
  <2>1. /\ At' = "entry" /\ Len(act) \in Nat \ {0} /\ Len(act') = Len(act)
        /\ DOMAIN act = 1..Len(act) /\ DOMAIN act' = DOMAIN act
        /\ ~HasEntered(Len(act))'
        /\ \A i \in DOMAIN act : /\ Kept(i)
                                 /\ i # Len(act) => HasEntered(i)' = HasEntered(i)
    BY <1>1, <1>4, TailChainMachine
  <2>2. ExceptionReturn
    BY <1>4 DEF TailChain
  <2>3. \A i \in 1..(Len(act) - 1) :
          i \in DOMAIN act' /\ Kept(i) /\ HasEntered(i)' = HasEntered(i)
    BY <2>1
  <2>4. \A i \in DOMAIN act' : i \in 1..(Len(act) - 1) \/ i = Len(act)
    BY <2>1
  <2>5. \A i \in DOMAIN act' : i \in 1..(Len(act) - 1) \/ ~HasEntered(i)'
    BY <2>1, <2>4 DEF HasEntered
  <2> QED BY <1>1, <2>1, <2>2, <2>3, <2>5, PopNaive
<1> QED BY <1>1, <1>2, <1>3, <1>4, NaiveSame, NaiveContinues, LeavePanicsNaive

----------------------------------------------------------------------------
(* Unnested and Null: at most one exception is active.                      *)

UnnestedState == MachineState /\ impl = "Unnested" /\ NotScanning /\ UnnestedRecorded /\ Verdict

NullState == MachineState /\ impl = "Null" /\ NotScanning /\ NullRecorded /\ Verdict

LEMMA OneActive ==
  ASSUME MachineState, act # << >>, impl \in {"Unnested", "Null"}
  PROVE  /\ Len(act) = 1 /\ DOMAIN act = {1} /\ Top = act[1] /\ At = act[1].at
         /\ "MODE" \in Top.ret
<1>1. /\ Len(act) \in DOMAIN act /\ Len(act) \in Nat \ {0} /\ DOMAIN act = 1..Len(act)
      /\ Top = act[Len(act)] /\ At = act[Len(act)].at
  BY IteratorAtTop
<1>2. Len(act) <= 1
  BY DEF MachineState, MachineInv, Alone
<1>3. Len(act) = 1 /\ DOMAIN act = {1}
  BY <1>1, <1>2
<1> QED BY <1>1, <1>3 DEF MachineState, MachineInv, Nesting

LEMMA UnnestedContinues ==
  ASSUME UnnestedState, Continues \/ Same, MachineState'
  PROVE  UnnestedState'
<1>1. /\ UNCHANGED <<impl, ses, buf, fault>> /\ At' # "pushing"
      /\ DOMAIN act \subseteq DOMAIN act'
      /\ \A i \in DOMAIN act : /\ HasEntered(i)' = HasEntered(i)
                               /\ Protecting(i)' = Protecting(i)
                               /\ Intact(i)' => Intact(i)
                               /\ Intact(i) => Intact(i)' \/ HasEntered(Len(act))
      /\ \A i \in DOMAIN act' \ DOMAIN act : Intact(i)' /\ ~HasEntered(i)'
  <2>1. CASE Continues
    BY <2>1 DEF Continues
  <2>2. CASE Same
    <3>1. UNCHANGED <<impl, act, ses, buf, fault>> /\ At' = At
      BY <2>2 DEF Same, At, Top
    <3>2. \A i : HasEntered(i)' = HasEntered(i) /\ Protecting(i)' = Protecting(i)
                 /\ Intact(i)' = Intact(i)
      BY <2>2 DEF Same, HasEntered, Protecting, Original, Intact
    <3> QED BY <3>1, <3>2 DEF UnnestedState, NotScanning
  <2> QED BY <2>1, <2>2
<1>2. act # << >> => Len(act) = 1 /\ DOMAIN act = {1}
  BY OneActive DEF UnnestedState
<1>3. act' # << >> => 1 \in DOMAIN act'
  BY DEF MachineState, TypeOK
<1>4. act' = << >> => act = << >>
  <2>1. act = << >> \/ 1 \in DOMAIN act'
    BY <1>1, <1>2
  <2>2. DOMAIN << >> = {}
    OBVIOUS
  <2> QED BY <2>1, <2>2
<1>5. /\ ses # << >> => Len(ses) = 1 /\ act # << >> /\ HasEntered(1) /\ ses[1] = Protecting(1)
      /\ act # << >> => IF HasEntered(1) THEN ses # << >> ELSE Intact(1)
  BY DEF UnnestedState, UnnestedRecorded
<1>6. UnnestedRecorded'
  <2>1. CASE act = << >>
    <3>1. ses' = << >> /\ DOMAIN act = {}
      BY <1>1, <1>5, <2>1
    <3>2. act' # << >> => Intact(1)' /\ ~HasEntered(1)'
      BY <1>1, <1>3, <3>1
    <3> QED BY <3>1, <3>2 DEF UnnestedRecorded
  <2>2. CASE act # << >>
    <3>1. 1 \in DOMAIN act /\ act' # << >> /\ Len(act) = 1
      BY <1>2, <1>4, <2>2
    <3>2. HasEntered(1)' = HasEntered(1) /\ Protecting(1)' = Protecting(1)
      BY <1>1, <3>1
    <3>3. Intact(1) => Intact(1)' \/ HasEntered(1)
      BY <1>1, <3>1
    <3> QED BY <1>1, <1>5, <2>2, <3>1, <3>2, <3>3 DEF UnnestedRecorded
  <2> QED BY <2>1, <2>2
<1>7. NotScanning' /\ Verdict'
  <2>1. ~(fault = "panic") \/ \E i \in DOMAIN act' : ~Intact(i)'
    BY <1>1 DEF UnnestedState, Verdict
  <2> QED BY <1>1, <2>1 DEF UnnestedState, NotScanning, Verdict
<1> QED BY <1>1, <1>6, <1>7 DEF UnnestedState

LEMMA EnterUnnestedUnnested ==
  ASSUME UnnestedState, EnterUnnested, MachineState'
  PROVE  UnnestedState'
<1>1. /\ act # << >> /\ At = "masked" /\ fault = "none" /\ StartHandler /\ MachineState
      /\ ses' = (IF BadNesting THEN ses ELSE << AsFrame(NewIterator(Top.ret)) >>)
      /\ fault' = (IF BadNesting THEN "panic" ELSE fault) /\ impl = "Unnested"
  BY DEF EnterUnnested, Entering, UnnestedState
<1>2. /\ Len(act) = 1 /\ DOMAIN act = {1} /\ Top = act[1] /\ act[1].at = "masked"
      /\ "MODE" \in Top.ret
  BY <1>1, OneActive
<1>3. ~HasEntered(1)
  BY <1>2 DEF HasEntered
<1>4. ses = << >> /\ Intact(1)
  BY <1>1, <1>3 DEF UnnestedState, UnnestedRecorded
<1>5. AsFrame(NewIterator(Top.ret)) = Protecting(1)
  BY <1>1, <1>2, <1>4, IteratorAtTop
<1>6. ses' = << Protecting(1) >> /\ fault' = "none"
  BY <1>1, <1>2, <1>4, <1>5 DEF BadNesting
<1>7. /\ impl' = impl /\ buf' = << >> /\ At' = "app" /\ act' # << >>
      /\ HasEntered(1)' /\ Protecting(1)' = Protecting(1)
  <2>1. /\ impl' = impl /\ buf' = << >> /\ At' = "app" /\ act' # << >> /\ Len(act') = Len(act)
        /\ HasEntered(Len(act))' /\ \A i \in DOMAIN act : Kept(i)
    BY <1>1, HandlerStarted
  <2> QED BY <1>2, <2>1 DEF Kept, HasEntered
<1>8. UnnestedRecorded'
  <2>1. ses' # << >> /\ Len(ses') = 1 /\ ses'[1] = Protecting(1)
    BY <1>6
  <2> QED BY <1>7, <2>1 DEF UnnestedRecorded
<1>9. NotScanning' /\ Verdict'
  BY <1>6, <1>7 DEF NotScanning, Verdict
<1> QED BY <1>1, <1>7, <1>8, <1>9 DEF UnnestedState

(* The one entry is the running exception's when it returns.                *)
LEMMA UnnestedTop ==
  ASSUME UnnestedState, Leaving
  PROVE  /\ act # << >> /\ Len(act) = 1 /\ DOMAIN act = {1}
         /\ ses # << >> /\ Len(ses) = 1 /\ PoppedExcReturn = Top.ret
         /\ PopAccepts <=> Intact(1)
<1>1. act # << >> /\ At = "leaving" /\ MachineState /\ impl = "Unnested"
  BY DEF Leaving, UnnestedState
<1>2. /\ Len(act) = 1 /\ DOMAIN act = {1} /\ Top = act[1] /\ act[1].at = "leaving"
  BY <1>1, OneActive
<1>3. HasEntered(1)
  BY <1>2 DEF HasEntered
<1>4. ses # << >> /\ Len(ses) = 1 /\ ses[1] = Protecting(1)
  BY <1>1, <1>3 DEF UnnestedState, UnnestedRecorded
<1>5. PoppedExcReturn = Top.ret
  BY <1>2, <1>4 DEF PoppedExcReturn, Protecting
<1>6. PopAccepts <=> AsFrame(NewIterator(Top.ret)) = Protecting(1)
  BY <1>1, <1>4, <1>5 DEF PopAccepts
<1>7. PopAccepts <=> Intact(1)
  BY <1>1, <1>2, <1>6, IteratorAtTop
<1> QED BY <1>1, <1>2, <1>4, <1>5, <1>7

LEMMA LeavePanicsUnnested ==
  ASSUME UnnestedState, LeavePanics, MachineState'
  PROVE  UnnestedState'
<1>1. /\ UNCHANGED <<impl, threadAt, act, faultmask, ses, it, buf>> /\ fault' = "panic"
      /\ Leaving /\ ~PopAccepts
  BY DEF LeavePanics, machine, monitor
<1>2. DOMAIN act = {1} /\ ~Intact(1)
  BY <1>1, UnnestedTop
<1>3. At' = At /\ \A i : /\ HasEntered(i)' = HasEntered(i)
                         /\ Protecting(i)' = Protecting(i)
                         /\ Intact(i)' = Intact(i)
  BY <1>1 DEF At, Top, Protecting, Original, Intact, HasEntered
<1>4. Verdict'
  BY <1>1, <1>2, <1>3 DEF Verdict
<1>5. UnnestedRecorded'
  BY <1>1, <1>3 DEF UnnestedState, UnnestedRecorded
<1> QED BY <1>1, <1>3, <1>4, <1>5 DEF UnnestedState, NotScanning

LEMMA PopUnnested ==
  ASSUME UnnestedState, ExceptionReturn, MachineState', At' # "pushing",
         act' # << >> => Kept(1) /\ ~HasEntered(1)'
  PROVE  UnnestedState'
<1>1. /\ Leaving /\ PopAccepts /\ ses' = Popped /\ impl = "Unnested" /\ MachineState
      /\ fault' = (IF PoppedExcReturn = Top.ret THEN "none" ELSE "derailed")
      /\ UNCHANGED <<impl, it, buf>>
  BY DEF ExceptionReturn, UnnestedState
<1>2. Len(ses) = 1 /\ PoppedExcReturn = Top.ret /\ Intact(1)
  BY <1>1, UnnestedTop
<1>3. ses' = << >>
  <2>1. ses' = SubSeq(ses, 1, 0)
    BY <1>1, <1>2 DEF Popped
  <2> QED BY <1>1, <2>1 DEF MachineState, TypeOK
<1>4. UnnestedRecorded'
  BY <1>2, <1>3 DEF UnnestedRecorded, Kept
<1>5. NotScanning' /\ Verdict'
  BY <1>1, <1>2 DEF UnnestedState, NotScanning, Verdict
<1> QED BY <1>1, <1>4, <1>5 DEF UnnestedState

LEMMA NullContinues ==
  ASSUME NullState, Continues \/ Same, MachineState'
  PROVE  NullState'
<1>1. /\ UNCHANGED <<impl, ses, buf, fault>> /\ At' # "pushing"
      /\ DOMAIN act \subseteq DOMAIN act'
      /\ \A i \in DOMAIN act : /\ HasEntered(i)' = HasEntered(i)
                               /\ act'[i].ret = act[i].ret
                               /\ Intact(i)' => Intact(i)
      /\ \A i \in DOMAIN act' \ DOMAIN act : ~HasEntered(i)'
  <2>1. CASE Continues
    BY <2>1 DEF Continues
  <2>2. CASE Same
    <3>1. UNCHANGED <<impl, act, ses, buf, fault>> /\ At' = At
      BY <2>2 DEF Same, At, Top
    <3>2. \A i : HasEntered(i)' = HasEntered(i) /\ Intact(i)' = Intact(i)
      BY <2>2 DEF Same, HasEntered, Original, Intact
    <3> QED BY <3>1, <3>2 DEF NullState, NotScanning
  <2> QED BY <2>1, <2>2
<1>2. act' # << >> => 1 \in DOMAIN act'
  BY DEF MachineState, TypeOK
<1>3. NullRecorded'
  <2> SUFFICES ASSUME act' # << >>, HasEntered(1)'
               PROVE  ses # << >> /\ ses[Len(ses)].exc_return = act'[1].ret
    BY <1>1 DEF NullState, NullRecorded
  <2>1. 1 \in DOMAIN act
    BY <1>1, <1>2
  <2>2. act # << >> /\ HasEntered(1) /\ act'[1].ret = act[1].ret
    BY <1>1, <2>1
  <2> QED BY <2>2 DEF NullState, NullRecorded
<1>4. NotScanning' /\ Verdict'
  BY <1>1 DEF NullState, NotScanning, Verdict
<1> QED BY <1>1, <1>3, <1>4 DEF NullState

LEMMA EnterNullNull ==
  ASSUME NullState, EnterNull, MachineState'
  PROVE  NullState'
<1>1. /\ act # << >> /\ fault = "none" /\ StartHandler /\ MachineState /\ impl = "Null"
      /\ ses' = << [pc |-> "zero", lr |-> {}, exc_return |-> Top.ret, frame |-> Dummy,
                    r12 |-> "zero"] >>
      /\ fault' = fault
  BY DEF EnterNull, Entering, NullState
<1>2. Len(act) = 1 /\ DOMAIN act = {1} /\ Top = act[1]
  BY <1>1, OneActive
<1>3. /\ impl' = impl /\ buf' = << >> /\ At' = "app" /\ act'[1].ret = act[1].ret
  BY <1>1, <1>2, HandlerStarted DEF Kept
<1>4. Len(ses') = 1 /\ ses' # << >> /\ ses'[1].exc_return = act[1].ret
  BY <1>1, <1>2
<1>5. NullRecorded'
  BY <1>3, <1>4 DEF NullRecorded
<1>6. NotScanning' /\ Verdict'
  BY <1>1, <1>3 DEF NotScanning, Verdict
<1> QED BY <1>1, <1>3, <1>5, <1>6 DEF NullState

LEMMA PopNull ==
  ASSUME NullState, ExceptionReturn, MachineState', At' # "pushing",
         act' # << >> => ~HasEntered(1)'
  PROVE  NullState'
<1>1. /\ act # << >> /\ At = "leaving" /\ ses' = ses /\ impl = "Null" /\ MachineState
      /\ fault' = (IF PoppedExcReturn = Top.ret THEN "none" ELSE "derailed")
      /\ UNCHANGED <<impl, it, buf>>
  BY DEF ExceptionReturn, Leaving, Popped, NullState
<1>2. HasEntered(1) /\ Top = act[1]
  BY <1>1, OneActive DEF HasEntered
<1>3. PoppedExcReturn = Top.ret
  BY <1>1, <1>2 DEF NullState, NullRecorded, PoppedExcReturn
<1>4. NullRecorded'
  BY <1>1 DEF NullState, NullRecorded
<1>5. NotScanning' /\ Verdict'
  BY <1>1, <1>3 DEF NullState, NotScanning, Verdict
<1> QED BY <1>1, <1>4, <1>5 DEF NullState

LEMMA UnnestedNullStep ==
  ASSUME UnnestedState \/ NullState, [Next]_vars
  PROVE  UnnestedState' \/ NullState'
<1>1. /\ MachineState' /\ TypeOK' /\ impl \in {"Unnested", "Null"} /\ MachineState /\ NotScanning
      /\ \/ Same \/ Continues \/ EnterInterrupt \/ LeavePanics \/ LeaveInterrupt
         \/ \E p \in Prios : TailChain(p)
  BY Steps DEF UnnestedState, NullState, MachineState
<1>2. ASSUME EnterInterrupt
      PROVE  UnnestedState' \/ NullState'
  <2>1. ~EnterSafe /\ ~EnterNaive /\ ~PushKnown /\ ~PushNext /\ ~PushLast
    BY <1>1 DEF EnterSafe, EnterNaive, PushKnown, PushNext, PushLast, Looping, NotScanning
  <2>2. CASE EnterUnnested
    BY <1>1, <2>2, EnterUnnestedUnnested DEF EnterUnnested, NullState
  <2>3. CASE EnterNull
    BY <1>1, <2>3, EnterNullNull DEF EnterNull, UnnestedState
  <2> QED BY <1>2, <2>1, <2>2, <2>3 DEF EnterInterrupt
<1>3. ASSUME LeavePanics
      PROVE  UnnestedState' \/ NullState'
  <2>1. impl # "Null"
    BY <1>3 DEF LeavePanics, PopAccepts
  <2> QED BY <1>1, <1>3, <2>1, LeavePanicsUnnested DEF NullState
<1>4. ASSUME LeaveInterrupt
      PROVE  UnnestedState' \/ NullState'
  <2>1. ExceptionReturn /\ act # << >>
    BY <1>4 DEF LeaveInterrupt, ExceptionReturn, Leaving
  <2>2. At' # "pushing" /\ Len(act') = Len(act) - 1 /\ Len(act) = 1
    BY <1>1, <1>4, <2>1, LeaveMachine, OneActive
  <2>3. act' = << >>
    BY <1>1, <2>2 DEF TypeOK
  <2> QED BY <1>1, <2>1, <2>2, <2>3, PopUnnested, PopNull
<1>5. ASSUME NEW p \in Prios, TailChain(p)
      PROVE  UnnestedState' \/ NullState'
  <2>1. ExceptionReturn /\ act # << >>
    BY <1>5 DEF TailChain, ExceptionReturn, Leaving
  <2>2. Len(act) = 1 /\ DOMAIN act = {1}
    BY <1>1, <2>1, OneActive
  <2>3. At' = "entry" /\ Len(act') = Len(act) /\ ~HasEntered(Len(act))' /\ Kept(1)
    BY <1>1, <1>5, <2>2, TailChainMachine
  <2>4. ~HasEntered(1)'
    BY <2>2, <2>3 DEF HasEntered
  <2> QED BY <1>1, <2>1, <2>3, <2>4, PopUnnested, PopNull
<1> QED BY <1>1, <1>2, <1>3, <1>4, <1>5, UnnestedContinues, NullContinues

----------------------------------------------------------------------------
(* The invariant is inductive, and implies the safety properties.           *)

LEMMA InitInv ==
  ASSUME NestedSecure = FALSE
  PROVE  Init => Inv /\ Unharmed
<1> SUFFICES ASSUME Init PROVE Inv /\ Unharmed
  OBVIOUS
<1>1. /\ act = << >> /\ ses = << >> /\ buf = << >> /\ faultmask = FALSE /\ fault = "none"
      /\ threadAt = "app"
  BY DEF Init
<1>2. Len(act) = 0 /\ Len(ses) = 0 /\ Len(buf) = 0 /\ DOMAIN act = {} /\ DOMAIN ses = {}
  BY <1>1
<1>3. MachineInv /\ Unharmed
  BY <1>1, <1>2
  DEF MachineInv, Nesting, Masking, Alone, OneSecure, StackOrder, ChainSpacing, Unharmed
<1>4. Recorded /\ Scanning /\ NotScanning /\ Verdict
  BY <1>1, <1>2 DEF Recorded, Scanning, NotScanning, Verdict, At
<1>5. UnnestedRecorded /\ NullRecorded
  BY <1>1, <1>2 DEF UnnestedRecorded, NullRecorded
<1>6. NaiveRecorded
  <2> DEFINE e == [k \in DOMAIN ses |-> k]
  <2>1. e \in [DOMAIN ses -> DOMAIN act] /\ Entries(e)
    BY <1>2 DEF Entries
  <2> QED BY <2>1 DEF NaiveRecorded
<1> QED BY <1>3, <1>4, <1>5, <1>6, InitType DEF Inv, MonitorInv

LEMMA NextInv ==
  ASSUME NestedSecure = FALSE
  PROVE  Inv /\ [Next]_vars => Inv'
<1> SUFFICES ASSUME Inv, [Next]_vars PROVE Inv'
  OBVIOUS
<1>1. impl \in {"Safe", "Naive", "Unnested", "Null"} /\ MachineState
  BY SesTypesAssumption DEF Inv, TypeOK, MachineState
<1>2. CASE impl = "Safe"
  <2>1. SafeState'
    BY <1>1, <1>2, SafeStep DEF Inv, MonitorInv, SafeState
  <2> QED BY <2>1 DEF SafeState, MachineState, Inv, MonitorInv
<1>3. CASE impl = "Naive"
  <2>1. NaiveState'
    BY <1>1, <1>3, NaiveStep DEF Inv, MonitorInv, NaiveState
  <2> QED BY <2>1 DEF NaiveState, MachineState, Inv, MonitorInv
<1>4. CASE impl \in {"Unnested", "Null"}
  <2>1. UnnestedState' \/ NullState'
    BY <1>1, <1>4, UnnestedNullStep DEF Inv, MonitorInv, UnnestedState, NullState
  <2> QED BY <2>1 DEF UnnestedState, NullState, MachineState, Inv, MonitorInv
<1> QED BY <1>1, <1>2, <1>3, <1>4

(* While no two active exceptions have both preempted Secure code, the      *)
(* invariant holds throughout, whichever implementation is built.           *)
THEOREM Invariant ==
  ASSUME NestedSecure = FALSE
  PROVE  Spec => []Inv
<1>1. Init => Inv
  BY InitInv
<1>2. Inv /\ [Next]_vars => Inv'
  BY NextInv
<1> QED BY <1>1, <1>2, PTL DEF Spec

(* The monitor never returns from an exception with the EXC_RETURN of       *)
(* another activation.                                                      *)
THEOREM GenuineReturnTheorem ==
  ASSUME NestedSecure = FALSE
  PROVE  Spec => []GenuineReturn
<1>1. Inv => GenuineReturn
  BY DEF Inv, MonitorInv, Verdict, GenuineReturn
<1> QED BY <1>1, Invariant, PTL

(* The monitor panics only if the frame of some active exception has been   *)
(* changed; no interleaving of exceptions alone makes it panic.             *)
THEOREM NoFalseAlarmTheorem ==
  ASSUME NestedSecure = FALSE
  PROVE  Spec => []NoFalseAlarm
<1>1. Inv => NoFalseAlarm
  BY DEF Inv, MonitorInv, Verdict, NoFalseAlarm
<1> QED BY <1>1, Invariant, PTL

(* Safe: whenever a handler can run, the shadow stack holds exactly the     *)
(* frames of all active exceptions as the core stacked them: for every      *)
(* number of priorities, size of frames and use of the stacks.              *)
THEOREM Protection ==
  ASSUME NestedSecure = FALSE
  PROVE  Spec => []AllFramesProtected
<1>1. Inv => AllFramesProtected
  <2> SUFFICES ASSUME Inv, impl = "Safe", act # << >>, At \in {"app", "secure"}
               PROVE  ses = [i \in DOMAIN act |-> Protecting(i)]
    BY DEF AllFramesProtected
  <2>0. TypeOK /\ Recorded
    BY DEF Inv, MonitorInv
  <2>1. PICK n \in Nat : n = Len(act) /\ n \in DOMAIN act /\ DOMAIN act = 1..n
    BY <2>0, LastElement DEF TypeOK
  <2>2. act[n].at \in {"app", "secure"}
    BY <2>1 DEF At, Top
  <2>3. n <= Len(ses)
    BY <2>0, <2>1, <2>2 DEF Recorded, HasEntered
  <2>4. Len(ses) \in Nat /\ Len(buf) \in Nat /\ Len(ses) + Len(buf) <= n /\ ses \in Seq(Frame)
    BY <2>0, <2>1 DEF Recorded, TypeOK
  <2>5. Len(ses) = n
    BY <2>3, <2>4
  <2>6. DOMAIN ses = DOMAIN act
    BY <2>1, <2>4, <2>5
  <2>7. ses = [i \in DOMAIN ses |-> ses[i]]
    BY <2>4
  <2>8. \A i \in DOMAIN ses : ses[i] = Protecting(i)
    BY <2>0 DEF Recorded
  <2> QED BY <2>6, <2>7, <2>8
<1> QED BY <1>1, Invariant, PTL

(* Naive, while no stray write changes a frame: exactly the exceptions that *)
(* have been through __tcEnterInterrupt are recorded, in order.             *)
THEOREM NaiveProtection ==
  ASSUME NestedSecure = FALSE, StrayFields = {}
  PROVE  Spec => []EnteredFramesProtected
<1>1. Init => Inv /\ Unharmed
  BY InitInv
<1>2. Inv /\ Unharmed /\ [Next]_vars => Inv' /\ Unharmed'
  BY NextInv, NoHarm DEF Inv, MachineState
<1>3. Inv /\ Unharmed => EnteredFramesProtected
  <2> SUFFICES ASSUME Inv, Unharmed, impl = "Naive"
               PROVE  \E e \in [DOMAIN ses -> DOMAIN act] :
                        /\ \A k, l \in DOMAIN ses : k < l => e[k] < e[l]
                        /\ {e[k] : k \in DOMAIN ses} = {i \in DOMAIN act : HasEntered(i)}
                        /\ \A k \in DOMAIN ses : ses[k] = Protecting(e[k])
    BY DEF EnteredFramesProtected
  <2>1. PICK e \in [DOMAIN ses -> DOMAIN act] : Entries(e)
    BY DEF Inv, MonitorInv, NaiveRecorded
  <2>2. \A k \in DOMAIN ses : ses[k] = Protecting(e[k])
    BY <2>1 DEF Entries, Unharmed
  <2>3. {e[k] : k \in DOMAIN ses} = {i \in DOMAIN act : HasEntered(i)}
    BY <2>1 DEF Entries
  <2> QED BY <2>1, <2>2, <2>3 DEF Entries
<1> QED BY <1>1, <1>2, <1>3, PTL DEF Spec

(* The unchecked push never passes the end of the storage when it has a     *)
(* Frame for every priority.                                                *)
THEOREM WithinLimitTheorem ==
  ASSUME NestedSecure = FALSE
  PROVE  Spec => []WithinLimit
<1>1. Inv => WithinLimit
  <2> SUFFICES ASSUME Inv PROVE WithinLimit
    OBVIOUS
  <2>0. TypeOK /\ Nesting /\ impl \in {"Safe", "Naive", "Unnested", "Null"}
    BY SesTypesAssumption DEF Inv, MachineInv, TypeOK
  <2>1. PICK n \in Nat : n = Len(act) /\ DOMAIN act = 1..n
    BY <2>0 DEF TypeOK
  <2>2. n <= MaxPrio
    <3>1. CASE n = 0
      BY <3>1, PrioAssumption
    <3>2. CASE n # 0
      <4>1. n \in DOMAIN act
        BY <2>1, <3>2
      <4>2. act[n].prio >= n
        BY <2>0, <4>1 DEF Nesting
      <4>3. act[n].prio \in 1..MaxPrio
        BY <2>0, <4>1, ActAt DEF Prios
      <4> QED BY <4>2, <4>3, PrioAssumption
    <3> QED BY <3>1, <3>2
  <2>3. /\ Len(ses) \in Nat /\ Len(buf) \in Nat /\ DOMAIN ses = 1..Len(ses)
        /\ impl # "Safe" => Len(buf) = 0
    BY <2>0 DEF Inv, MonitorInv, NotScanning, TypeOK
  <2>4. CASE impl = "Safe"
    <3>1. Len(ses) + Len(buf) <= n
      BY <2>1, <2>4 DEF Inv, MonitorInv, Recorded
    <3> QED BY <2>2, <2>3, <3>1, PrioAssumption DEF WithinLimit
  <2>5. CASE impl = "Naive"
    <3>1. PICK e \in [DOMAIN ses -> DOMAIN act] : Entries(e)
      BY <2>5 DEF Inv, MonitorInv, NaiveRecorded
    <3>2. CASE Len(ses) = 0
      BY <2>3, <2>5, <3>2, PrioAssumption DEF WithinLimit
    <3>3. CASE Len(ses) # 0
      <4>1. Len(ses) \in DOMAIN ses
        BY <2>3, <3>3
      <4>2. Len(ses) <= e[Len(ses)] /\ e[Len(ses)] \in 1..n
        BY <2>1, <3>1, <4>1 DEF Entries
      <4> QED BY <2>2, <2>3, <2>5, <4>2, PrioAssumption DEF WithinLimit
    <3> QED BY <3>2, <3>3
  <2>6. CASE impl \in {"Unnested", "Null"}
    <3>1. Len(ses) <= 1
      <4>1. CASE impl = "Unnested"
        <5>1. CASE ses = << >>
          BY <5>1
        <5>2. CASE ses # << >>
          <6>1. Len(ses) = 1
            BY <4>1, <5>2 DEF Inv, MonitorInv, UnnestedRecorded
          <6> QED BY <6>1
        <5> QED BY <5>1, <5>2
      <4>2. CASE impl = "Null"
        BY <4>2 DEF Inv, MonitorInv, NullRecorded
      <4> QED BY <2>6, <4>1, <4>2
    <3> QED BY <2>3, <2>6, <3>1, PrioAssumption DEF WithinLimit
  <2> QED BY <2>0, <2>4, <2>5, <2>6
<1> QED BY <1>1, Invariant, PTL

(* The core changes the active exceptions while the return trampoline runs  *)
(* only by the exception return.                                            *)
LEMMA OnlyReturn ==
  ASSUME Inv, Next, act # << >>, At = "leaving", act' # act, impl \in {"Safe", "Unnested"}
  PROVE  ExceptionReturn
<1>1. ~ \E p \in Prios, s \in ThreadStacks, f \in FrameTypes, h \in Locals :
          Preempt(p, s = "PSP" /\ act = << >>, f, h)
  <2>1. CASE impl = "Safe"
    BY <2>1 DEF Inv, MachineInv, Masking, Preempt
  <2>2. CASE impl = "Unnested"
    BY <2>2 DEF Preempt, Group, CurrentPrio
  <2> QED BY <2>1, <2>2
<1> QED BY <1>1 DEF Next, vars, machine, Raise, SecureCall, SecureReturn, MoveTo,
               StrayWrite, Stage0, EnterInterrupt, EnterSafe, PushKnown, PushNext, PushLast,
               Entering, Looping, EnterNaive, EnterUnnested, EnterNull, ReturnTrampoline,
               LeavePanics, LeaveInterrupt, TailChain, Stopped

(* Safe and Unnested: an exception return unstacks, and tail-chaining hands *)
(* on, only a frame that is as the core stacked it, and neither resumes a   *)
(* trampoline that was preempted before it ran anything unless its own      *)
(* frame is, too.                                                           *)
THEOREM ReturnsIntactTheorem ==
  ASSUME NestedSecure = FALSE
  PROVE  Spec => ReturnsIntact
<1> DEFINE Step == act # << >> /\ At = "leaving" /\ act' # act /\ impl \in {"Safe", "Unnested"}
       => /\ Intact(Len(act))
          /\ Outer # << >> /\ act[Len(act) - 1].at = "entry" => Intact(Len(act) - 1)
<1>1. Inv /\ [Next]_vars => [Step]_vars
  <2> SUFFICES ASSUME Inv, Next, act # << >>, At = "leaving", act' # act,
                      impl \in {"Safe", "Unnested"}
               PROVE  /\ Intact(Len(act))
                      /\ Outer # << >> /\ act[Len(act) - 1].at = "entry" => Intact(Len(act) - 1)
    OBVIOUS
  <2>1. ExceptionReturn
    BY OnlyReturn
  <2>2. Leaving /\ PopAccepts
    BY <2>1 DEF ExceptionReturn
  <2>3. CASE impl = "Unnested"
    <3>1. UnnestedState
      BY <2>3 DEF Inv, MonitorInv, UnnestedState, MachineState
    <3>2. Len(act) = 1 /\ Intact(1)
      BY <2>2, <3>1, UnnestedTop
    <3>3. Outer = << >>
      <4>1. act \in Seq(Activations)
        BY <3>1 DEF UnnestedState, MachineState, TypeOK
      <4> QED BY <3>2, <4>1 DEF Outer
    <3> QED BY <3>2, <3>3
  <2>4. CASE impl = "Safe"
    <3>1. SafeState
      BY <2>4 DEF Inv, MonitorInv, SafeState, MachineState
    <3>2. PICK n \in Nat : n = Len(act) /\ n \in DOMAIN act /\ DOMAIN act = 1..n /\ n # 0
      BY <2>2, <3>1, PopAt
    <3>3. /\ Len(ses) = n /\ Intact(n) /\ NewIterator(PoppedExcReturn) = IteratorAt(n)
          /\ TypeOK /\ Nesting /\ OneSecure /\ StackOrder /\ ChainSpacing /\ Recorded
      BY <2>2, <3>1, <3>2, PopAt DEF SafeState, MachineState, MachineInv
    <3>4. ASSUME Outer # << >>, act[n - 1].at = "entry"
          PROVE  Intact(n - 1)
      <4>1. n > 1 /\ n - 1 \in DOMAIN act
        BY <3>2, <3>3, <3>4 DEF TypeOK, Outer
      <4>2. HasNext(IteratorAt(n)) /\ Moved(IteratorAt(n)) = IteratorAt(n - 1)
        BY <3>2, <3>3, <3>4, <4>1, ChainBelow
      <4>3. AsFrame(IteratorAt(n - 1)) = ses[n - 1]
        BY <2>2, <2>4, <3>3, <4>2 DEF PopAccepts
      <4>4. n - 1 \in DOMAIN ses
        BY <3>2, <3>3, <4>1 DEF TypeOK
      <4>5. ses[n - 1] = Protecting(n - 1)
        BY <3>3, <4>4 DEF Recorded
      <4> QED BY <3>3, <4>1, <4>3, <4>5, AsFrameAt
    <3> QED BY <3>2, <3>3, <3>4
  <2> QED BY <2>3, <2>4
<1>2. Spec => [][Step]_vars
  BY <1>1, Invariant, PTL DEF Spec
<1> QED BY <1>2 DEF ReturnsIntact

=============================================================================
