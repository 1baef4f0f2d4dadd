---------------------------- MODULE MonitorProofs ----------------------------
(***************************************************************************)
(* The shadow stack: however deep handlers nest and however many entries   *)
(* there are, it mirrors the calls in progress, its pointer even when a    *)
(* handler has come between the two stores of a push; if none has, every   *)
(* function returns to its caller, and a mismatch is reported only for a   *)
(* return address that has been overwritten.                               *)
(* The trampolines: the monitor knows their addresses, wherever the vector *)
(* table puts them, and reads nothing it may not read to learn them.       *)
(***************************************************************************)
EXTENDS ShadowStack, EntryPCSet, SequenceTheorems, TLAPS

Last == Len(ctx)

(* A handler begins with what it finds, and leaves as much on the stack.    *)
Bases ==
  \A k \in 1..Last :
    /\ ctx[k].base <= Len(calls)
    /\ \A j \in 1..k : ctx[j].base <= ctx[k].base

(* Whatever its registers hold of the pointer is still true when depth      *)
(* calls are on the stack, as they are whenever the context runs.           *)
Agrees(c, depth) ==
  /\ c.at \in {"store", "commit", "take"} => c.r = depth
  /\ c.at = "commit" => depth < Size
  /\ c.at \in {"load", "take", "drop"} => c.base < depth
  /\ c.at = "drop" => c.r = depth - 1

Positions ==
  /\ Agrees(Running, Len(calls))
  /\ \A k \in 1..(Last - 1) : Agrees(ctx[k], ctx[k + 1].base)

(* The same for its return addresses.                                       *)
HasHome(c, depth) ==
  /\ c.at \in {"push", "store", "commit", "leave"} => c.lr = c.home
  /\ c.at = "drop" => c.x = calls[depth].home
  /\ c.at = "check" => c.x = c.home

Entries ==
  /\ \A i \in 1..Len(calls) : slots[i] = calls[i].home
  /\ Running.at = "commit" => slots[Len(calls) + 1] = Running.home

Homes ==
  /\ Entries
  /\ HasHome(Running, Len(calls))
  /\ \A k \in 1..(Last - 1) : HasHome(ctx[k], ctx[k + 1].base) /\ ctx[k].at # "commit"

Inv ==
  /\ TypeOK /\ torn \in BOOLEAN
  /\ top = Len(calls)
  /\ Bases /\ Positions
  /\ ~torn => Homes
  /\ ~torn => fault # "astray" /\ (fault = "panic" => Running.lr # Running.home)

----------------------------------------------------------------------------

LEMMA Sites1 == AnySite \in Sites
BY SizeAssumption DEF AnySite

LEMMA FreshType == ASSUME NEW n \in Nat PROVE Fresh(n) \in Contexts
BY Sites1 DEF Fresh, Contexts, Locations

(* What the invariant says of the running context.                          *)
LEMMA RunningContext ==
  ASSUME Inv
  PROVE  /\ ctx \in Seq(Contexts) /\ Last \in Nat \ {0} /\ Running \in Contexts
         /\ calls \in Seq(Calls) /\ Len(calls) \in Nat
         /\ Running.base \in Nat /\ Running.base <= Len(calls)
         /\ \A i \in 1..Len(calls) : calls[i] \in Calls
         /\ Agrees(Running, Len(calls))
         /\ ~torn => HasHome(Running, Len(calls))
<1>1. ctx \in Seq(Contexts) /\ Last \in Nat \ {0} /\ calls \in Seq(Calls) /\ Len(calls) \in Nat
  BY DEF Inv, TypeOK, Last
<1>2. Running \in Contexts
  BY <1>1 DEF Running, Last
<1>3. Running.base <= Len(calls)
  BY <1>1 DEF Inv, Bases, Running, Last
<1>4. Running.base \in Nat
  BY <1>2 DEF Contexts
<1>5. \A i \in 1..Len(calls) : calls[i] \in Calls
  BY <1>1
<1> QED BY <1>1, <1>2, <1>3, <1>4, <1>5 DEF Inv, Positions, Homes

LEMMA InitInv == Init => Inv
<1> SUFFICES ASSUME Init PROVE Inv
  OBVIOUS
<1>1. /\ aborting \in BOOLEAN /\ top = 0 /\ slots = [i \in 1..Size |-> AnySite] /\ calls = << >>
      /\ ctx = << Fresh(0) >> /\ torn = FALSE /\ fault = "none"
  BY ModeAssumption DEF Init
<1>2. Fresh(0) \in Contexts /\ Fresh(0).at = "run" /\ Fresh(0).base = 0
  BY FreshType DEF Fresh
<1>3. Last = 1 /\ Running = Fresh(0) /\ ctx[1] = Fresh(0) /\ Len(calls) = 0
  BY <1>1 DEF Last, Running
<1>4. TypeOK
  BY <1>1, <1>2, Sites1, SizeAssumption DEF TypeOK
<1>5. Bases
  BY <1>2, <1>3 DEF Bases
<1>6. Positions
  BY <1>2, <1>3 DEF Positions, Agrees
<1>7. Homes
  BY <1>2, <1>3 DEF Homes, Entries, HasHome
<1> QED BY <1>1, <1>3, <1>4, <1>5, <1>6, <1>7 DEF Inv

(* A step of the running context changes neither what the preempted ones    *)
(* hold nor the calls they have made.                                       *)
LEMMA RunningStep ==
  ASSUME Inv, NEW c \in Contexts, Become(c), c.base = Running.base,
         calls' \in Seq(Calls), c.base <= Len(calls'),
         \A i \in 1..c.base : calls'[i].home = calls[i].home
  PROVE  /\ ctx' \in Seq(Contexts) /\ ctx' # << >> /\ Last' = Last /\ Running' = c
         /\ Bases'
         /\ \A k \in 1..(Last' - 1) : Agrees(ctx'[k], ctx'[k + 1].base)
         /\ ~torn => \A k \in 1..(Last' - 1) :
                       HasHome(ctx[k], ctx[k + 1].base)' /\ ctx'[k].at # "commit"
<1> DEFINE n == Last
<1>1. /\ ctx \in Seq(Contexts) /\ n \in Nat \ {0} /\ Running = ctx[n]
      /\ c.base \in Nat /\ Len(calls') \in Nat
  BY RunningContext DEF Last, Running, Contexts
<1>2. ctx' = [ctx EXCEPT ![n] = c]
  BY DEF Become, Last
<1>3. ctx' \in Seq(Contexts) /\ Len(ctx') = n
  BY <1>1, <1>2 DEF Last
<1>4. ctx'[n] = c /\ \A k \in 1..(n - 1) : ctx'[k] = ctx[k]
  BY <1>1, <1>2 DEF Last
<1>5. \A k \in 1..n : ctx'[k].base = ctx[k].base
  BY <1>1, <1>4
<1>6. ctx' # << >> /\ Last' = n /\ Running' = c
  BY <1>1, <1>3, <1>4 DEF Last, Running
<1>7. \A k \in 1..n : ctx[k].base \in Nat /\ ctx[k].base <= c.base
  <2>1. \A k \in 1..n : ctx[k] \in Contexts
    BY <1>1, ElementOfSeq DEF Last
  <2>2. \A j \in 1..n : ctx[j].base <= ctx[n].base
    BY <1>1 DEF Inv, Bases
  <2>3. c.base = ctx[n].base
    BY <1>1
  <2> QED BY <2>1, <2>2, <2>3 DEF Contexts
<1>8. Bases'
  <2>1. \A k \in 1..n : ctx'[k].base <= Len(calls')
    BY <1>1, <1>5, <1>7
  <2>2. \A k \in 1..n : \A j \in 1..k : ctx'[j].base <= ctx'[k].base
    BY <1>1, <1>5 DEF Inv, Bases
  <2> QED BY <1>6, <2>1, <2>2 DEF Bases
<1>9. ASSUME NEW k \in 1..(n - 1)
      PROVE  /\ k \in 1..n /\ k + 1 \in 1..n /\ ctx'[k] = ctx[k] /\ ctx'[k + 1].base = ctx[k + 1].base
             /\ ctx[k] \in Contexts /\ ctx[k + 1].base \in Nat /\ ctx[k + 1].base <= c.base
             /\ Agrees(ctx[k], ctx[k + 1].base)
             /\ ~torn => HasHome(ctx[k], ctx[k + 1].base) /\ ctx[k].at # "commit"
  <2>1. k \in 1..n /\ k + 1 \in 1..n
    BY <1>1
  <2> QED BY <1>1, <1>4, <1>5, <1>7, <2>1 DEF Inv, Positions, Homes, Last
<1>10. \A k \in 1..(Last' - 1) : Agrees(ctx'[k], ctx'[k + 1].base)
  BY <1>6, <1>9
<1>11. ASSUME ~torn, NEW k \in 1..(n - 1)
       PROVE  HasHome(ctx[k], ctx[k + 1].base)' /\ ctx'[k].at # "commit"
  <2>1. ctx[k].at = "drop" => ctx[k + 1].base \in 1..c.base
    <3>1. ctx[k].base \in Nat
      BY <1>7, <1>9
    <3> QED BY <1>1, <1>9, <3>1 DEF Agrees
  <2>2. ctx[k].at = "drop" => calls'[ctx'[k + 1].base].home = calls[ctx[k + 1].base].home
    BY <1>9, <2>1
  <2> QED BY <1>9, <1>11, <2>2 DEF HasHome
<1> QED BY <1>3, <1>6, <1>8, <1>10, <1>11

(* Most steps change nothing else.                                          *)
LEMMA Stays ==
  ASSUME Inv, NEW c \in Contexts, Become(c), c.base = Running.base,
         UNCHANGED <<aborting, torn, top, slots, calls, fault>>, fault = "none",
         Agrees(c, Len(calls)),
         ~torn => HasHome(c, Len(calls)) /\ c.at # "commit"
  PROVE  Inv'
<1>1. /\ ctx' \in Seq(Contexts) /\ ctx' # << >> /\ Last' = Last /\ Running' = c
      /\ Bases'
      /\ \A k \in 1..(Last' - 1) : Agrees(ctx'[k], ctx'[k + 1].base)
      /\ ~torn => \A k \in 1..(Last' - 1) :
                    HasHome(ctx[k], ctx[k + 1].base)' /\ ctx'[k].at # "commit"
  BY RunningStep, RunningContext
<1>2. TypeOK'
  BY <1>1 DEF Inv, TypeOK
<1>3. Positions'
  BY <1>1 DEF Positions
<1>4. ~torn => Homes'
  <2>1. ~torn => Entries'
    BY <1>1 DEF Inv, Homes, Entries
  <2>2. ~torn => HasHome(Running, Len(calls))'
    BY <1>1 DEF HasHome
  <2> QED BY <1>1, <2>1, <2>2 DEF Homes
<1> QED BY <1>1, <1>2, <1>3, <1>4 DEF Inv

LEMMA CallInv == Inv => \A site \in Sites : Call(site) => Inv'
<1> SUFFICES ASSUME Inv, NEW site \in Sites, Call(site) PROVE Inv'
  OBVIOUS
<1> DEFINE c == [Running EXCEPT !.at = "push", !.lr = site, !.home = site]
<1>1. Become(c) /\ fault = "none" /\ UNCHANGED <<aborting, torn, top, slots, calls, fault>>
  BY DEF Call, At
<1>2. /\ c \in Contexts /\ c.base = Running.base
      /\ c.at = "push" /\ c.lr = site /\ c.home = site
  BY RunningContext DEF Contexts, Locations
<1> HIDE DEF c
<1>3. Agrees(c, Len(calls)) /\ HasHome(c, Len(calls))
  BY <1>2 DEF Agrees, HasHome
<1> QED BY <1>1, <1>2, <1>3, Stays

LEMMA EpilogueInv == Inv => \A tail \in BOOLEAN : Epilogue(tail) => Inv'
<1> SUFFICES ASSUME Inv, NEW tail \in BOOLEAN, Epilogue(tail) PROVE Inv'
  OBVIOUS
<1> DEFINE c == [Running EXCEPT !.at = "load", !.lr = calls[Len(calls)].saved, !.tail = tail]
<1>1. /\ Become(c) /\ fault = "none" /\ UNCHANGED <<aborting, torn, top, slots, calls, fault>>
      /\ Len(calls) > Running.base
  BY DEF Epilogue, At
<1>2. calls[Len(calls)].saved \in Sites
  BY <1>1, RunningContext DEF Calls
<1>3. c \in Contexts /\ c.base = Running.base /\ c.at = "load"
  BY <1>2, RunningContext DEF Contexts, Locations
<1> HIDE DEF c
<1>4. Agrees(c, Len(calls)) /\ HasHome(c, Len(calls))
  BY <1>1, <1>3 DEF Agrees, HasHome
<1> QED BY <1>1, <1>3, <1>4, Stays

LEMMA PushLoadInv == Inv /\ PushLoad => Inv'
<1> SUFFICES ASSUME Inv, PushLoad PROVE Inv'
  OBVIOUS
<1> DEFINE c == [Running EXCEPT !.at = "store", !.r = top]
<1>1. /\ Become(c) /\ fault = "none" /\ UNCHANGED <<aborting, torn, top, slots, calls, fault>>
      /\ Running.at = "push" /\ top = Len(calls)
  BY DEF PushLoad, At, Inv
<1>2. /\ c \in Contexts /\ c.base = Running.base /\ c.at = "store" /\ c.r = Len(calls)
      /\ c.lr = Running.lr /\ c.home = Running.home
  <2>1. Running \in Contexts /\ top \in Int /\ top = Len(calls)
    BY <1>1, RunningContext
  <2> QED BY <2>1 DEF Contexts, Locations
<1> HIDE DEF c
<1>3. Agrees(c, Len(calls))
  BY <1>2 DEF Agrees
<1>4. ~torn => HasHome(c, Len(calls))
  BY <1>1, <1>2, RunningContext DEF HasHome
<1> QED BY <1>1, <1>2, <1>3, <1>4, Stays

LEMMA AssertLoadInv == Inv /\ AssertLoad => Inv'
<1> SUFFICES ASSUME Inv, AssertLoad PROVE Inv'
  OBVIOUS
<1> DEFINE c == [Running EXCEPT !.at = "take", !.r = top]
<1>1. /\ Become(c) /\ fault = "none" /\ UNCHANGED <<aborting, torn, top, slots, calls, fault>>
      /\ Running.at = "load" /\ top = Len(calls)
  BY DEF AssertLoad, At, Inv
<1>2. c \in Contexts /\ c.base = Running.base /\ c.at = "take" /\ c.r = Len(calls)
  <2>1. Running \in Contexts /\ top \in Int /\ top = Len(calls)
    BY <1>1, RunningContext
  <2> QED BY <2>1 DEF Contexts, Locations
<1> HIDE DEF c
<1>3. Agrees(c, Len(calls)) /\ HasHome(c, Len(calls))
  BY <1>1, <1>2, RunningContext DEF Agrees, HasHome
<1> QED BY <1>1, <1>2, <1>3, Stays

(* A fault ends the program where it is.                                    *)
LEMMA GuardHit ==
  ASSUME Inv, UNCHANGED <<aborting, torn, top, slots, calls, ctx>>, fault' = "guard"
  PROVE  Inv'
<1>1. UNCHANGED <<Last, Running>>
  BY DEF Last, Running
<1>2. TypeOK'
  BY DEF Inv, TypeOK
<1>3. Bases' /\ Positions'
  BY <1>1 DEF Inv, Bases, Positions, Agrees
<1>4. ~torn => Homes'
  BY <1>1 DEF Inv, Homes, Entries, HasHome
<1> QED BY <1>2, <1>3, <1>4 DEF Inv

LEMMA PushStoreInv == Inv /\ PushStore => Inv'
<1> SUFFICES ASSUME Inv, PushStore PROVE Inv'
  OBVIOUS
<1> DEFINE c == [Running EXCEPT !.at = "commit"]
<1>1. /\ Running.at = "store" /\ Running.r = Len(calls)
      /\ UNCHANGED <<aborting, torn, top, calls>> /\ fault = "none"
  BY RunningContext DEF PushStore, At, Agrees
<1>2. CASE Slot(Running.r) \in 1..Size
  <2>1. /\ slots' = [slots EXCEPT ![Len(calls) + 1] = Running.lr]
        /\ Become(c) /\ fault' = fault
        /\ Len(calls) + 1 \in 1..Size
    BY <1>1, <1>2 DEF PushStore, Slot
  <2>2. /\ c \in Contexts /\ c.base = Running.base /\ c.at = "commit" /\ c.r = Len(calls)
        /\ c.lr = Running.lr /\ c.home = Running.home /\ Running.lr \in Sites
    BY <1>1, RunningContext DEF Contexts, Locations
  <2> HIDE DEF c
  <2>3. /\ ctx' \in Seq(Contexts) /\ ctx' # << >> /\ Last' = Last /\ Running' = c
        /\ Bases'
        /\ \A k \in 1..(Last' - 1) : Agrees(ctx'[k], ctx'[k + 1].base)
        /\ ~torn => \A k \in 1..(Last' - 1) :
                      HasHome(ctx[k], ctx[k + 1].base)' /\ ctx'[k].at # "commit"
    BY <1>1, <2>1, <2>2, RunningStep, RunningContext
  <2>4. slots' \in [1..Size -> Sites]
    BY <2>1, <2>2 DEF Inv, TypeOK
  <2>5. TypeOK'
    BY <1>1, <2>1, <2>3, <2>4 DEF Inv, TypeOK
  <2>6. Agrees(c, Len(calls))
    BY <1>1, <2>1, <2>2, RunningContext, SizeAssumption DEF Agrees
  <2>7. Positions'
    BY <1>1, <2>3, <2>6 DEF Positions
  <2>8. ASSUME ~torn PROVE Homes'
    <3>1. Running.lr = Running.home
      BY <1>1, <2>8, RunningContext DEF HasHome
    <3>2. /\ slots'[Len(calls) + 1] = Running.lr
          /\ \A i \in 1..Len(calls) : slots'[i] = slots[i]
      BY <2>1, RunningContext DEF Inv, TypeOK
    <3>3. Entries'
      BY <1>1, <2>2, <2>3, <2>8, <3>1, <3>2 DEF Inv, Homes, Entries
    <3>4. HasHome(Running, Len(calls))'
      BY <1>1, <2>2, <2>3, <3>1 DEF HasHome
    <3> QED BY <2>3, <2>8, <3>3, <3>4 DEF Homes
  <2> QED BY <1>1, <2>1, <2>3, <2>5, <2>7, <2>8 DEF Inv
<1>3. CASE Slot(Running.r) \notin 1..Size
  BY <1>1, <1>3, GuardHit DEF PushStore
<1> QED BY <1>2, <1>3

LEMMA PushCommitInv == Inv /\ PushCommit => Inv'
<1> SUFFICES ASSUME Inv, PushCommit PROVE Inv'
  OBVIOUS
<1> DEFINE c == Fresh(Running.base)
           new == [home |-> Running.home, saved |-> Running.lr]
<1>1. /\ Running.at = "commit" /\ top' = Running.r + 1 /\ calls' = Append(calls, new)
      /\ Become(c) /\ UNCHANGED <<aborting, torn, slots, fault>> /\ fault = "none"
  BY DEF PushCommit, At, BackToApplication
<1>2. Running.r = Len(calls) /\ Len(calls) < Size
  BY <1>1, RunningContext DEF Agrees
<1>3. new \in Calls /\ new.home = Running.home
  BY RunningContext DEF Calls, Contexts
<1>4. /\ calls' \in Seq(Calls) /\ Len(calls') = Len(calls) + 1
      /\ calls'[Len(calls) + 1] = new
      /\ \A i \in 1..Len(calls) : calls'[i] = calls[i]
  BY <1>1, <1>3, RunningContext
<1>5. c \in Contexts /\ c.base = Running.base /\ c.at = "run"
  BY FreshType, RunningContext DEF Fresh
<1> HIDE DEF c, new
<1>6. /\ ctx' \in Seq(Contexts) /\ ctx' # << >> /\ Last' = Last /\ Running' = c
      /\ Bases'
      /\ \A k \in 1..(Last' - 1) : Agrees(ctx'[k], ctx'[k + 1].base)
      /\ ~torn => \A k \in 1..(Last' - 1) :
                    HasHome(ctx[k], ctx[k + 1].base)' /\ ctx'[k].at # "commit"
  <2>1. c.base <= Len(calls') /\ \A i \in 1..c.base : calls'[i].home = calls[i].home
    BY <1>4, <1>5, RunningContext
  <2> QED BY <1>1, <1>4, <1>5, <2>1, RunningStep
<1>7. top' = Len(calls') /\ top' \in 0..Size
  BY <1>1, <1>2, <1>4, RunningContext, SizeAssumption
<1>8. TypeOK'
  BY <1>1, <1>4, <1>6, <1>7 DEF Inv, TypeOK
<1>9. Positions'
  BY <1>5, <1>6 DEF Positions, Agrees
<1>10. ASSUME ~torn PROVE Homes'
  <2>1. \A i \in 1..Len(calls') : slots'[i] = calls'[i].home
    BY <1>1, <1>3, <1>4, <1>10, RunningContext DEF Inv, Homes, Entries
  <2> QED BY <1>5, <1>6, <1>10, <2>1 DEF Homes, Entries, HasHome
<1> QED BY <1>1, <1>6, <1>7, <1>8, <1>9, <1>10 DEF Inv

LEMMA AssertTakeInv == Inv /\ AssertTake => Inv'
<1> SUFFICES ASSUME Inv, AssertTake PROVE Inv'
  OBVIOUS
<1> DEFINE c == [Running EXCEPT !.at = "drop", !.r = Running.r - 1, !.x = slots[Running.r]]
<1>1. /\ Running.at = "take" /\ Running.r = Len(calls) /\ Running.base < Len(calls)
      /\ UNCHANGED <<aborting, torn, top, slots, calls>> /\ fault = "none"
  BY RunningContext DEF AssertTake, At, Agrees
<1>2. CASE Running.r \in 1..Size
  <2>1. Become(c) /\ fault' = fault
    BY <1>2 DEF AssertTake
  <2>2. /\ c \in Contexts /\ c.base = Running.base /\ c.at = "drop"
        /\ c.r = Len(calls) - 1 /\ c.x = slots[Len(calls)]
    <3>1. slots[Running.r] \in Sites /\ Running.r - 1 \in Int /\ Running \in Contexts
      BY <1>1, <1>2, RunningContext DEF Inv, TypeOK
    <3> QED BY <1>1, <3>1 DEF Contexts, Locations
  <2> HIDE DEF c
  <2>3. Agrees(c, Len(calls))
    BY <1>1, <2>2 DEF Agrees
  <2>4. ~torn => HasHome(c, Len(calls)) /\ c.at # "commit"
    BY <1>1, <2>2, RunningContext DEF HasHome, Inv, Homes, Entries
  <2> QED BY <1>1, <2>1, <2>2, <2>3, <2>4, Stays
<1>3. CASE Running.r \notin 1..Size
  BY <1>1, <1>3, GuardHit DEF AssertTake
<1> QED BY <1>2, <1>3

(* Only the untrusted copy of a return address changes.                     *)
LEMMA StrayWriteInv ==
  Inv => \A i \in DOMAIN calls, site \in Sites : StrayWrite(i, site) => Inv'
<1> SUFFICES ASSUME Inv, NEW i \in DOMAIN calls, NEW site \in Sites, StrayWrite(i, site)
             PROVE  Inv'
  OBVIOUS
<1>1. /\ calls' = [calls EXCEPT ![i].saved = site] /\ Running.at = "run"
      /\ UNCHANGED <<aborting, torn, top, slots, ctx, fault>> /\ fault = "none"
  BY DEF StrayWrite, At
<1>2. i \in 1..Len(calls) /\ calls[i] \in Calls
  BY RunningContext
<1>3. [calls[i] EXCEPT !.saved = site] \in Calls
  BY <1>2 DEF Calls
<1>4. calls' \in Seq(Calls) /\ Len(calls') = Len(calls)
  BY <1>1, <1>2, <1>3, RunningContext
<1>5. \A j \in 1..Len(calls) : calls'[j].home = calls[j].home
  BY <1>1, <1>2, RunningContext DEF Calls
<1>6. UNCHANGED <<Last, Running>>
  BY <1>1 DEF Last, Running
<1>7. TypeOK' /\ Bases' /\ Positions'
  BY <1>1, <1>4, <1>6 DEF Inv, TypeOK, Bases, Positions, Agrees
<1>8. ASSUME ~torn PROVE Homes'
  <2>1. Entries'
    BY <1>1, <1>4, <1>5, <1>6, <1>8 DEF Inv, Homes, Entries
  <2>2. HasHome(Running, Len(calls))'
    BY <1>1, <1>6 DEF HasHome
  <2>3. ASSUME NEW k \in 1..(Last - 1)
        PROVE  HasHome(ctx[k], ctx[k + 1].base)' /\ ctx[k].at # "commit"
    <3>1. HasHome(ctx[k], ctx[k + 1].base) /\ ctx[k].at # "commit" /\ Agrees(ctx[k], ctx[k + 1].base)
      BY <1>8, <2>3 DEF Inv, Homes, Positions
    <3>2. k \in 1..Last /\ k + 1 \in 1..Last
      BY RunningContext
    <3>3. ctx[k].base \in Nat /\ ctx[k + 1].base \in Nat /\ ctx[k + 1].base <= Len(calls)
      <4>1. ctx \in Seq(Contexts)
        BY RunningContext
      <4>2. ctx[k] \in Contexts /\ ctx[k + 1] \in Contexts
        BY <3>2, <4>1, ElementOfSeq DEF Last
      <4> QED BY <3>2, <4>2 DEF Contexts, Inv, Bases
    <3>4. ctx[k].at = "drop" => ctx[k + 1].base \in 1..Len(calls)
      BY <3>1, <3>3, RunningContext DEF Agrees
    <3> QED BY <1>1, <1>5, <3>1, <3>4 DEF HasHome
  <2> QED BY <1>1, <1>6, <2>1, <2>2, <2>3 DEF Homes
<1> QED BY <1>1, <1>4, <1>6, <1>7, <1>8 DEF Inv

LEMMA InterruptInv == Inv /\ Interrupt => Inv'
<1> SUFFICES ASSUME Inv, Interrupt PROVE Inv'
  OBVIOUS
<1>1. PICK n : n = Last
  OBVIOUS
<1>2. PICK c : c = Fresh(Len(calls))
  OBVIOUS
<1>3. /\ ctx' = Append(ctx, c) /\ torn' = (torn \/ Running.at = "commit")
      /\ UNCHANGED <<aborting, top, slots, calls, fault>> /\ fault = "none"
  BY <1>2 DEF Interrupt
<1>4. c \in Contexts /\ c.at = "run" /\ c.base = Len(calls)
  BY <1>2, FreshType, RunningContext DEF Fresh
<1>5. /\ ctx' \in Seq(Contexts) /\ ctx' # << >> /\ Last' = n + 1 /\ Running' = c
      /\ ctx'[n + 1] = c /\ ctx'[n] = Running /\ n \in Nat \ {0}
      /\ \A k \in 1..n : ctx'[k] = ctx[k]
  BY <1>1, <1>3, <1>4, RunningContext DEF Last, Running
<1>6. TypeOK'
  BY <1>3, <1>5 DEF Inv, TypeOK
<1>7. Bases'
  <2>1. \A k \in 1..n : ctx[k].base <= Len(calls) /\ \A j \in 1..k : ctx[j].base <= ctx[k].base
    BY <1>1 DEF Inv, Bases
  <2>2. \A k \in 1..n : ctx'[k].base <= Len(calls) /\ \A j \in 1..k : ctx'[j].base <= ctx'[k].base
    BY <1>5, <2>1
  <2>3. /\ ctx'[n + 1].base = Len(calls)
        /\ \A j \in 1..(n + 1) : ctx'[j].base <= Len(calls)
    BY <1>4, <1>5, <2>2, RunningContext
  <2>4. ASSUME NEW k \in 1..(n + 1)
        PROVE  ctx'[k].base <= Len(calls) /\ \A j \in 1..k : ctx'[j].base <= ctx'[k].base
    <3>1. CASE k = n + 1
      BY <2>3, <3>1
    <3>2. CASE k \in 1..n
      BY <2>2, <3>2
    <3> QED BY <1>5, <3>1, <3>2
  <2> QED BY <1>3, <1>5, <2>4 DEF Bases
<1>8. Positions'
  <2>1. Agrees(c, Len(calls)) /\ Agrees(Running, c.base)
    BY <1>4, RunningContext DEF Agrees
  <2>2. ASSUME NEW k \in 1..n PROVE Agrees(ctx'[k], ctx'[k + 1].base)
    <3>1. CASE k = n
      BY <1>5, <2>1, <3>1
    <3>2. CASE k \in 1..(n - 1)
      <4>1. Agrees(ctx[k], ctx[k + 1].base)
        BY <1>1, <3>2 DEF Inv, Positions
      <4> QED BY <1>5, <3>2, <4>1
    <3> QED BY <1>5, <3>1, <3>2
  <2>3. Agrees(Running', Len(calls)) /\ Last' - 1 = n
    BY <1>5, <2>1
  <2>4. \A k \in 1..(Last' - 1) : Agrees(ctx'[k], ctx'[k + 1].base)
    BY <2>2, <2>3
  <2> QED BY <1>3, <2>3, <2>4 DEF Positions
<1>9. ASSUME ~torn' PROVE Homes'
  <2>1. ~torn /\ Running.at # "commit"
    BY <1>3, <1>9
  <2>2. Entries'
    BY <1>3, <1>4, <1>5, <2>1 DEF Inv, Homes, Entries
  <2>3. HasHome(Running, Len(calls))'
    BY <1>4, <1>5 DEF HasHome
  <2>4. HasHome(Running, c.base)
    BY <1>4, <2>1, RunningContext
  <2>5. \A k \in 1..(n - 1) : HasHome(ctx[k], ctx[k + 1].base) /\ ctx[k].at # "commit"
    BY <1>1, <2>1 DEF Inv, Homes
  <2>6. ASSUME NEW k \in 1..n
        PROVE  HasHome(ctx[k], ctx[k + 1].base)' /\ ctx'[k].at # "commit"
    <3>1. CASE k = n
      BY <1>3, <1>5, <2>1, <2>4, <3>1 DEF HasHome
    <3>2. CASE k \in 1..(n - 1)
      <4>1. k \in 1..n /\ k + 1 \in 1..n
        BY <1>5, <3>2
      <4>2. ctx'[k] = ctx[k] /\ ctx'[k + 1] = ctx[k + 1]
        BY <1>5, <4>1
      <4>3. HasHome(ctx[k], ctx[k + 1].base) /\ ctx[k].at # "commit"
        BY <2>5, <3>2
      <4> QED BY <1>3, <4>2, <4>3 DEF HasHome
    <3> QED BY <1>5, <3>1, <3>2
  <2> QED BY <1>5, <2>2, <2>3, <2>6 DEF Homes
<1> QED BY <1>3, <1>5, <1>6, <1>7, <1>8, <1>9 DEF Inv

(* A handler ends as it began, so the context it preempted finds what it    *)
(* left.                                                                    *)
LEMMA ResumeInv == Inv /\ Resume => Inv'
<1> SUFFICES ASSUME Inv, Resume PROVE Inv'
  OBVIOUS
<1>1. PICK n : n = Last - 1
  OBVIOUS
<1>2. /\ ctx' = SubSeq(ctx, 1, n) /\ Last > 1 /\ Len(calls) = Running.base
      /\ UNCHANGED <<aborting, torn, top, slots, calls, fault>> /\ fault = "none"
  BY <1>1 DEF Resume, At, Last
<1>3. n \in Nat \ {0} /\ Last = n + 1 /\ ctx \in Seq(Contexts)
  BY <1>1, <1>2, RunningContext
<1>4. /\ ctx' \in Seq(Contexts) /\ Len(ctx') = n
      /\ \A k \in 1..n : ctx'[k] = ctx[k]
  BY <1>2, <1>3, SubSeqProperties DEF Last
<1>5. ctx' # << >> /\ Last' = n /\ Running' = ctx[n] /\ Running = ctx[n + 1]
  BY <1>3, <1>4 DEF Last, Running
<1>6. TypeOK'
  BY <1>2, <1>4, <1>5 DEF Inv, TypeOK
<1>7. Bases'
  <2>1. \A k \in 1..n : ctx[k].base <= Len(calls) /\ \A j \in 1..k : ctx[j].base <= ctx[k].base
    BY <1>3 DEF Inv, Bases
  <2>2. \A k \in 1..n : ctx'[k].base <= Len(calls) /\ \A j \in 1..k : ctx'[j].base <= ctx'[k].base
    BY <1>3, <1>4, <2>1
  <2> QED BY <1>2, <1>5, <2>2 DEF Bases
<1>8. Positions'
  <2>1. \A k \in 1..n : Agrees(ctx[k], ctx[k + 1].base)
    BY <1>3 DEF Inv, Positions
  <2>2. Agrees(ctx[n], Len(calls))
    BY <1>2, <1>3, <1>5, <2>1
  <2>3. \A k \in 1..(n - 1) : Agrees(ctx'[k], ctx'[k + 1].base)
    <3>1. \A k \in 1..(n - 1) : k \in 1..n /\ k + 1 \in 1..n
      BY <1>3
    <3> QED BY <1>4, <2>1, <3>1
  <2> QED BY <1>2, <1>5, <2>2, <2>3 DEF Positions
<1>9. ASSUME ~torn PROVE Homes'
  <2>1. \A k \in 1..n : HasHome(ctx[k], ctx[k + 1].base) /\ ctx[k].at # "commit"
    BY <1>3, <1>9 DEF Inv, Homes
  <2>2. HasHome(ctx[n], Len(calls)) /\ ctx[n].at # "commit"
    BY <1>2, <1>3, <1>5, <2>1
  <2>3. ASSUME NEW k \in 1..(n - 1)
        PROVE  HasHome(ctx[k], ctx[k + 1].base)' /\ ctx'[k].at # "commit"
    <3>1. k \in 1..n /\ k + 1 \in 1..n
      BY <1>3
    <3>2. ctx'[k] = ctx[k] /\ ctx'[k + 1] = ctx[k + 1]
      BY <1>4, <3>1
    <3> QED BY <1>2, <2>1, <3>1, <3>2 DEF HasHome
  <2>4. HasHome(Running, Len(calls))'
    BY <1>2, <1>5, <2>2 DEF HasHome
  <2>5. Entries'
    BY <1>2, <1>5, <1>9, <2>2 DEF Inv, Homes, Entries
  <2> QED BY <1>5, <2>3, <2>4, <2>5 DEF Homes
<1> QED BY <1>2, <1>6, <1>7, <1>8, <1>9 DEF Inv

LEMMA AssertDropInv == Inv /\ AssertDrop => Inv'
<1> SUFFICES ASSUME Inv, AssertDrop PROVE Inv'
  OBVIOUS
<1>1. PICK n : n = Len(calls) - 1
  OBVIOUS
<1>2. PICK c : c = [Running EXCEPT !.at = IF aborting THEN "check" ELSE "leave",
                                   !.lr = LrAfter(Running), !.home = calls[Len(calls)].home]
  OBVIOUS
<1>3. /\ Running.at = "drop" /\ top' = Running.r /\ calls' = SubSeq(calls, 1, n)
      /\ Become(c) /\ UNCHANGED <<aborting, torn, slots, fault>> /\ fault = "none"
  BY <1>1, <1>2 DEF AssertDrop, At, NewTop
<1>4. /\ n \in Nat /\ Len(calls) = n + 1 /\ Running.r = n /\ Running.base \in 0..n
      /\ calls \in Seq(Calls) /\ calls[n + 1] \in Calls
  BY <1>1, <1>3, RunningContext DEF Agrees
<1>5. /\ calls' \in Seq(Calls) /\ Len(calls') = n
      /\ \A i \in 1..n : calls'[i] = calls[i]
  BY <1>3, <1>4, SubSeqProperties
<1>6. /\ c.at = (IF aborting THEN "check" ELSE "leave") /\ c.base = Running.base
      /\ c.home = calls[n + 1].home /\ c.x = Running.x /\ c.lr = LrAfter(Running)
  BY <1>2, <1>4, RunningContext DEF Contexts
<1>7. c \in Contexts
  BY <1>2, <1>4, RunningContext DEF Contexts, Locations, Calls, LrAfter
<1>8. /\ ctx' \in Seq(Contexts) /\ ctx' # << >> /\ Last' = Last /\ Running' = c
      /\ Bases'
      /\ \A k \in 1..(Last' - 1) : Agrees(ctx'[k], ctx'[k + 1].base)
      /\ ~torn => \A k \in 1..(Last' - 1) :
                    HasHome(ctx[k], ctx[k + 1].base)' /\ ctx'[k].at # "commit"
  <2>1. /\ c.base <= Len(calls')
        /\ \A i \in 1..c.base : calls'[i].home = calls[i].home
    BY <1>4, <1>5, <1>6
  <2> QED BY <1>3, <1>5, <1>6, <1>7, <2>1, RunningStep
<1>9. top' = Len(calls') /\ top' \in 0..Size
  <2>1. top \in 0..Size /\ top = n + 1
    BY <1>4 DEF Inv, TypeOK
  <2> QED BY <1>3, <1>4, <1>5, <2>1, SizeAssumption
<1>10. TypeOK'
  BY <1>3, <1>5, <1>8, <1>9 DEF Inv, TypeOK
<1>11. Positions'
  BY <1>6, <1>8 DEF Positions, Agrees
<1>12. ASSUME ~torn PROVE Homes'
  <2>1. \A i \in 1..n : slots[i] = calls[i].home
    BY <1>4, <1>12 DEF Inv, Homes, Entries
  <2>2. Entries'
    BY <1>3, <1>5, <1>6, <1>8, <2>1 DEF Entries
  <2>3. c.x = c.home
    BY <1>3, <1>4, <1>6, <1>12, RunningContext DEF HasHome
  <2>4. HasHome(Running, Len(calls))'
    BY <1>6, <1>8, <2>3 DEF HasHome, LrAfter
  <2> QED BY <1>8, <1>12, <2>2, <2>4 DEF Homes
<1> QED BY <1>3, <1>8, <1>9, <1>10, <1>11, <1>12 DEF Inv

LEMMA AssertCheckInv == Inv /\ AssertCheck => Inv'
<1> SUFFICES ASSUME Inv, AssertCheck PROVE Inv'
  OBVIOUS
<1>1. /\ Running.at = "check" /\ UNCHANGED <<aborting, torn, top, slots, calls>>
      /\ fault = "none"
  BY DEF AssertCheck, At
<1>2. CASE Mismatch(Running)
  <2>1. fault' = "panic" /\ ctx' = ctx /\ Running.x # Running.lr
    BY <1>2 DEF AssertCheck, Mismatch
  <2>2. UNCHANGED <<Last, Running>>
    BY <2>1 DEF Last, Running
  <2>3. TypeOK' /\ Bases' /\ Positions'
    BY <1>1, <2>1, <2>2 DEF Inv, TypeOK, Bases, Positions, Agrees
  <2>4. ~torn => Homes'
    BY <1>1, <2>1, <2>2 DEF Inv, Homes, Entries, HasHome
  <2>5. ~torn => Running.lr # Running.home
    BY <1>1, <2>1, RunningContext DEF HasHome
  <2> QED BY <1>1, <2>1, <2>2, <2>3, <2>4, <2>5 DEF Inv
<1>3. CASE ~Mismatch(Running)
  <2>1. PICK c : c = [Running EXCEPT !.at = "leave"]
    OBVIOUS
  <2>2. Become(c) /\ fault' = fault /\ Running.x = Running.lr
    BY <1>3, <2>1 DEF AssertCheck, Mismatch
  <2>3. /\ c \in Contexts /\ c.base = Running.base /\ c.at = "leave"
        /\ c.lr = Running.lr /\ c.home = Running.home
    BY <2>1, RunningContext DEF Contexts, Locations
  <2>4. Agrees(c, Len(calls)) /\ (~torn => HasHome(c, Len(calls)) /\ c.at # "commit")
    BY <1>1, <2>2, <2>3, RunningContext DEF Agrees, HasHome
  <2> QED BY <1>1, <2>2, <2>3, <2>4, Stays
<1> QED BY <1>2, <1>3

LEMMA LeaveToCallerInv == Inv /\ LeaveToCaller => Inv'
<1> SUFFICES ASSUME Inv, LeaveToCaller PROVE Inv'
  OBVIOUS
<1>1. PICK c : c = Fresh(Running.base)
  OBVIOUS
<1>2. /\ Running.at = "leave" /\ Become(c) /\ UNCHANGED <<aborting, torn, top, slots, calls>>
      /\ fault = "none" /\ fault' = (IF Running.lr = Running.home THEN "none" ELSE "astray")
  BY <1>1 DEF LeaveToCaller, At, BackToApplication
<1>3. c \in Contexts /\ c.base = Running.base /\ c.at = "run"
  BY <1>1, FreshType, RunningContext DEF Fresh
<1>4. Agrees(c, Len(calls)) /\ HasHome(c, Len(calls))
  BY <1>3 DEF Agrees, HasHome
<1>5. CASE ~torn
  BY <1>2, <1>3, <1>4, <1>5, Stays, RunningContext DEF HasHome
<1>6. CASE torn
  <2>1. /\ ctx' \in Seq(Contexts) /\ ctx' # << >> /\ Last' = Last /\ Running' = c
        /\ Bases'
        /\ \A k \in 1..(Last' - 1) : Agrees(ctx'[k], ctx'[k + 1].base)
    BY <1>2, <1>3, RunningStep, RunningContext
  <2>2. TypeOK'
    BY <1>2, <2>1 DEF Inv, TypeOK
  <2>3. Positions'
    BY <1>2, <1>4, <2>1 DEF Positions
  <2> QED BY <1>2, <1>6, <2>1, <2>2, <2>3 DEF Inv
<1> QED BY <1>5, <1>6

LEMMA LeaveToContinuationInv == Inv /\ LeaveToContinuation => Inv'
<1> SUFFICES ASSUME Inv, LeaveToContinuation PROVE Inv'
  OBVIOUS
<1>1. PICK c : c = [Fresh(Running.base) EXCEPT !.at = "push", !.lr = Running.lr,
                                               !.home = Running.home]
  OBVIOUS
<1>2. /\ Running.at = "leave" /\ Become(c) /\ fault = "none"
      /\ UNCHANGED <<aborting, torn, top, slots, calls, fault>>
  BY <1>1 DEF LeaveToContinuation, At
<1>3. /\ c \in Contexts /\ c.base = Running.base /\ c.at = "push"
      /\ c.lr = Running.lr /\ c.home = Running.home
  <2>1. PICK f : f = Fresh(Running.base)
    OBVIOUS
  <2>2. f \in Contexts /\ f.base = Running.base
    BY <2>1, FreshType, RunningContext DEF Fresh
  <2>3. c = [f EXCEPT !.at = "push", !.lr = Running.lr, !.home = Running.home]
    BY <1>1, <2>1
  <2>4. Running.lr \in Sites /\ Running.home \in Sites
    BY RunningContext DEF Contexts
  <2> QED BY <2>2, <2>3, <2>4 DEF Contexts, Locations
<1>4. Agrees(c, Len(calls)) /\ (~torn => HasHome(c, Len(calls)) /\ c.at # "commit")
  BY <1>2, <1>3, RunningContext DEF Agrees, HasHome
<1> QED BY <1>2, <1>3, <1>4, Stays

----------------------------------------------------------------------------

LEMMA StutterInv == Inv /\ UNCHANGED vars => Inv'
<1> SUFFICES ASSUME Inv, UNCHANGED vars PROVE Inv'
  OBVIOUS
<1>1. UNCHANGED <<aborting, top, slots, calls, ctx, torn, fault>>
  BY DEF vars
<1>2. UNCHANGED <<Last, Running>>
  BY <1>1 DEF Last, Running
<1>3. TypeOK' /\ Bases' /\ Positions'
  BY <1>1, <1>2 DEF Inv, TypeOK, Bases, Positions, Agrees
<1>4. ~torn => Homes'
  BY <1>1, <1>2 DEF Inv, Homes, Entries, HasHome
<1> QED BY <1>1, <1>2, <1>3, <1>4 DEF Inv

(* The invariant is inductive: each call, gateway instruction, preemption   *)
(* and return keeps it.                                                     *)
THEOREM ShadowStackInvariant == Spec => []Inv
<1>1. Inv /\ [Next]_vars => Inv'
  <2> SUFFICES ASSUME Inv, [Next]_vars PROVE Inv'
    OBVIOUS
  <2>1. CASE \E site \in Sites : Call(site)
    BY <2>1, CallInv
  <2>2. CASE \E tail \in BOOLEAN : Epilogue(tail)
    BY <2>2, EpilogueInv
  <2>3. CASE \E i \in DOMAIN calls, site \in Sites : StrayWrite(i, site)
    BY <2>3, StrayWriteInv
  <2>4. CASE Interrupt \/ Resume
    BY <2>4, InterruptInv, ResumeInv
  <2>5. CASE ShadowPush
    BY <2>5, PushLoadInv, PushStoreInv, PushCommitInv DEF ShadowPush
  <2>6. CASE ShadowAssert
    BY <2>6, AssertLoadInv, AssertTakeInv, AssertDropInv, AssertCheckInv,
       LeaveToCallerInv, LeaveToContinuationInv DEF ShadowAssert
  <2>7. CASE Stopped \/ UNCHANGED vars
    BY <2>7, StutterInv DEF Stopped
  <2> QED BY <2>1, <2>2, <2>3, <2>4, <2>5, <2>6, <2>7 DEF Next
<1> QED BY InitInv, <1>1, PTL DEF Spec

(* g_shadow_stack_top stays between the guard pages: a push or a pop beyond *)
(* them hits a guard page and never moves it.                               *)
THEOREM PointerInBounds == Spec => []TypeOK
<1>1. Inv => TypeOK
  BY DEF Inv
<1> QED BY <1>1, ShadowStackInvariant, PTL

(* The pointer counts the calls in progress however pushes, pops and        *)
(* handlers interleave, and the entries are their return addresses.         *)
THEOREM StackMirrorsCalls == Spec => []Mirror
<1>1. Inv => Mirror
  BY RunningContext DEF Inv, Homes, Entries, Mirror
<1> QED BY <1>1, ShadowStackInvariant, PTL

(* The assert gateways return a function to its caller.                     *)
THEOREM FunctionsReturnHome == Spec => []ReturnsHome
<1>1. Inv => ReturnsHome
  BY DEF Inv, ReturnsHome, AlwaysHome
<1> QED BY <1>1, ShadowStackInvariant, PTL

(* They report only a return address that has been overwritten.             *)
THEOREM MismatchIsReal == Spec => []NoFalseAlarm
<1>1. Inv => NoFalseAlarm
  BY DEF Inv, NoFalseAlarm
<1> QED BY <1>1, ShadowStackInvariant, PTL

----------------------------------------------------------------------------
(* The addresses of the trampolines. *)

(* The lower bits of the rotated word are those of the address that must be *)
(* clear.                                                                   *)
LEMMA RotatedBelow ==
  ASSUME Machine, NEW word \in Words, NEW len \in 0..Strides
  PROVE  Rotr(word) < len <=> \E k \in 0..(len - 1) : word = k * Stride
<1> DEFINE high == word \div Stride
           low == word % Stride
<1>1. /\ Stride \in Nat \ {0} /\ Strides \in Nat \ {0} /\ word \in Nat
      /\ Stride * Strides \in Nat
  BY DEF Machine, Words
<1>2. /\ high \in Nat /\ low \in 0..(Stride - 1) /\ word = high * Stride + low
  BY <1>1
<1>3. ASSUME Rotr(word) < len PROVE \E k \in 0..(len - 1) : word = k * Stride
  <2>1. CASE low = 0
    <3>1. Rotr(word) = high
      BY <1>1, <1>2, <2>1 DEF Rotr
    <3>2. high \in 0..(len - 1) /\ word = high * Stride
      BY <1>1, <1>2, <1>3, <2>1, <3>1
    <3> QED BY <3>2
  <2>2. CASE low > 0
    <3>1. low * Strides >= Strides
      BY <1>1, <1>2, <2>2
    <3>2. Rotr(word) >= Strides
      BY <1>1, <1>2, <3>1 DEF Rotr
    <3> QED BY <1>1, <1>2, <1>3, <3>2 DEF Rotr
  <2> QED BY <1>2, <2>1, <2>2
<1>4. ASSUME NEW k \in 0..(len - 1), word = k * Stride PROVE Rotr(word) < len
  <2>1. k \in Nat
    OBVIOUS
  <2>2. (high - k) * Stride = -low
    BY <1>1, <1>2, <1>4, <2>1
  <2>3. high = k
    <3>1. CASE high > k
      <4>1. (high - k) * Stride >= Stride
        BY <1>1, <1>2, <2>1, <3>1
      <4> QED BY <1>1, <1>2, <2>2, <4>1
    <3>2. CASE high < k
      <4>1. (k - high) * Stride >= Stride /\ (k - high) * Stride = low
        BY <1>1, <1>2, <2>1, <2>2, <3>2
      <4> QED BY <1>1, <1>2, <4>1
    <3> QED BY <1>2, <2>1, <3>1, <3>2
  <2>4. low = 0
    BY <1>1, <1>2, <2>1, <2>2, <2>3
  <2>5. Rotr(word) = k
    BY <1>1, <1>2, <2>1, <2>3, <2>4 DEF Rotr
  <2> QED BY <2>5
<1> QED BY <1>3, <1>4

LEMMA WrapsOnce ==
  ASSUME NEW w \in Nat \ {0}, NEW n \in Int
  PROVE  /\ n \in 0..(w - 1) => n % w = n
         /\ n \in w..(2 * w - 1) => n % w = n - w
         /\ n \in (-w)..(-1) => n % w = n + w
<1> DEFINE q == n \div w
           r == n % w
<1>1. q \in Int /\ r \in 0..(w - 1) /\ n = q * w + r
  OBVIOUS
<1>2. ASSUME NEW p \in Int, p * w <= n, n < (p + 1) * w PROVE q = p
  <2>1. CASE q > p
    <3>1. (q - (p + 1)) * w >= 0
      BY <1>1, <2>1
    <3> QED BY <1>1, <1>2, <3>1
  <2>2. CASE q < p
    <3>1. (p - (q + 1)) * w >= 0
      BY <1>1, <2>2
    <3> QED BY <1>1, <1>2, <3>1
  <2> QED BY <1>1, <2>1, <2>2
<1>3. n \in 0..(w - 1) => q = 0
  BY <1>2
<1>4. n \in w..(2 * w - 1) => q = 1
  BY <1>2
<1>5. n \in (-w)..(-1) => q = -1
  BY <1>2
<1> HIDE DEF q, r
<1>6. r = n % w
  BY DEF r
<1> QED BY <1>1, <1>3, <1>4, <1>5, <1>6

(* setFromVtor and contains: once the vector table has been accepted, a     *)
(* program counter is taken for the entry of an exception if and only if it *)
(* is that of a trampoline, whatever the place of the trampolines in memory *)
(* (they may wrap around its end) and their number.                         *)
THEOREM ContainsTheTrampolines ==
  ASSUME Machine, NEW size \in 2..(Strides + 2), NEW entries \in Tables(size),
         LaidOutAsExpected(size, entries), NEW pc \in Words
  PROVE  Contains(SetFromVtor(size, entries), pc) <=> pc \in Trampolines(size, entries)
<1> DEFINE w == Stride * Strides
           start == entries[2] - 1
<1>1. w \in Nat \ {0} /\ Words = 0..(w - 1) /\ Stride \in Nat /\ Strides \in Nat
  BY DEF Machine, Words
<1>2. \A n : Wrapped(n) = n % w
  BY DEF Wrapped
<1>3. CASE size = 2
  <2>1. ~Contains(SetFromVtor(size, entries), pc)
    <3>1. Wrapped(pc - 0) \in Words
      BY <1>1, <1>2
    <3>2. ~(Rotr(Wrapped(pc - 0)) < 0)
      BY <1>1, <3>1, RotatedBelow
    <3> QED BY <1>3, <3>2 DEF Contains, SetFromVtor
  <2> QED BY <1>3, <2>1 DEF Trampolines
<1>4. CASE size > 2
  <2>1. start \in 0..(w - 1) /\ start % 2 = 0 /\ entries[2] = start + 1
    BY <1>1, <1>4 DEF Tables, LaidOutAsExpected
  <2>2. PICK h \in Nat : Stride = 2 * h
    BY <1>1 DEF Machine
  <2>3. w = 2 * (h * Strides) /\ h * Strides \in Nat
    BY <1>1, <2>2
  <2>4. ASSUME NEW k \in 0..(size - 3)
        PROVE  Wrapped(pc - start) = k * Stride <=> pc = entries[k + 2] - 1
    <3> DEFINE d == k * Stride
           n == start + 1 + d
    <3>1. d \in Nat /\ d = 2 * (k * h) /\ k * h \in Nat
      BY <1>1, <2>2
    <3>2. d < w
      <4>1. (Strides - k) * Stride > 0
        BY <1>1, <1>4 DEF Machine
      <4> QED BY <1>1, <3>1, <4>1
    <3>3. entries[k + 2] = n % w
      <4>1. k + 2 \in 2..(size - 1) /\ (k + 2) - 2 = k
        BY <1>4
      <4> QED BY <1>2, <1>4, <2>1, <4>1 DEF LaidOutAsExpected
    <3> HIDE DEF w, start, d, n
    <3>4. start + 1 + d # w
      BY <2>1, <2>3, <3>1
    <3>5. pc \in 0..(w - 1)
      BY <1>1
    <3>6. Wrapped(pc - start) = IF pc >= start THEN pc - start ELSE pc - start + w
      <4>1. Wrapped(pc - start) = (pc - start) % w /\ pc - start \in Int
        BY <1>2, <2>1, <3>5
      <4>2. pc >= start => pc - start \in 0..(w - 1)
        BY <1>1, <2>1, <3>5
      <4>3. ~(pc >= start) => pc - start \in (-w)..(-1)
        BY <1>1, <2>1, <3>5
      <4> QED BY <1>1, <4>1, <4>2, <4>3, WrapsOnce
    <3>7. entries[k + 2] = IF n < w THEN n ELSE n - w
      <4>1. n \in Int /\ (n < w => n \in 0..(w - 1)) /\ (~(n < w) => n \in w..(2 * w - 1))
        BY <1>1, <2>1, <3>1, <3>2 DEF n
      <4> QED BY <1>1, <3>3, <4>1, WrapsOnce
    <3>8. Wrapped(pc - start) = d <=> pc = entries[k + 2] - 1
      BY <1>1, <2>1, <3>1, <3>2, <3>4, <3>5, <3>6, <3>7 DEF n
    <3> QED BY <3>8 DEF d
  <2>5. Wrapped(pc - start) \in Words
    BY <1>1, <1>2, <2>1
  <2>6. Contains(SetFromVtor(size, entries), pc) <=> Rotr(Wrapped(pc - start)) < size - 2
    BY <1>4 DEF Contains, SetFromVtor
  <2> HIDE DEF w, start
  <2>7. Contains(SetFromVtor(size, entries), pc)
          <=> \E k \in 0..(size - 3) : Wrapped(pc - start) = k * Stride
    <3>1. size - 2 \in 0..Strides /\ (size - 2) - 1 = size - 3
      BY <1>1, <1>4
    <3> QED BY <2>5, <2>6, <3>1, RotatedBelow
  <2>8. (\E k \in 0..(size - 3) : pc = entries[k + 2] - 1) <=> pc \in Trampolines(size, entries)
    <3>1. ASSUME NEW i \in 2..(size - 1) PROVE i - 2 \in 0..(size - 3) /\ (i - 2) + 2 = i
      BY <1>4
    <3>2. ASSUME NEW k \in 0..(size - 3) PROVE k + 2 \in 2..(size - 1)
      BY <1>4
    <3> QED BY <3>1, <3>2 DEF Trampolines
  <2> QED BY <2>4, <2>7, <2>8
<1> QED BY <1>3, <1>4

----------------------------------------------------------------------------

(* checkAddressRange: it accepts a range if and only if all of it exists,   *)
(* has the same attributes, and may be accessed as asked for.  That it      *)
(* looks at the two ends only is enough.                                    *)
THEOREM EndsSuffice ==
  ASSUME Attribution, NEW options \in Options, NEW start \in Addresses, NEW size \in Nat
  PROVE  CheckAddressRange(start, size, options) = "ok"
           <=> \A a \in start..End(start, size) :
                 /\ a \in Addresses
                 /\ Allowed(a, options)
                 /\ TT[options.unpriv][a] = TT[options.unpriv][start]
<1> DEFINE end == End(start, size)
           tt(a) == TT[options.unpriv][a]
<1>1. /\ AddressSpace \in Nat \ {0} /\ start \in 0..(AddressSpace - 1)
      /\ end \in Nat /\ start <= end /\ options.unpriv \in BOOLEAN
  BY DEF Attribution, Addresses, End, Options
<1>2. CheckAddressRange(start, size, options) = "ok"
        <=> end < AddressSpace /\ tt(start) = tt(end) /\ Allowed(start, options)
  BY <1>1 DEF CheckAddressRange
<1> HIDE DEF end
<1>3. ASSUME end < AddressSpace, tt(start) = tt(end), Allowed(start, options),
             NEW a \in start..end
      PROVE  a \in Addresses /\ Allowed(a, options) /\ tt(a) = tt(start)
  <2>1. a \in Addresses /\ end \in Addresses /\ start <= a /\ a <= end
    BY <1>1, <1>3 DEF Addresses
  <2>2. tt(start) \in Readable \cup Writable
    BY <1>3 DEF Allowed
  <2>3. tt(a) = tt(start)
    BY <1>1, <1>3, <2>1, <2>2 DEF Attribution
  <2> QED BY <1>3, <2>1, <2>3 DEF Allowed
<1>4. ASSUME \A a \in start..end :
               a \in Addresses /\ Allowed(a, options) /\ tt(a) = tt(start)
      PROVE  end < AddressSpace /\ tt(start) = tt(end) /\ Allowed(start, options)
  <2>1. start \in start..end /\ end \in start..end
    BY <1>1
  <2> QED BY <1>1, <1>4, <2>1 DEF Addresses
<1> QED BY <1>2, <1>3, <1>4 DEF end

(* checkSlice: the elements that were asked for may all be accessed.        *)
THEOREM ElementsAllowed ==
  ASSUME Attribution, NEW options \in Options, NEW ptr \in Addresses, NEW count \in Nat,
         NEW size \in Nat \ {0}, NEW alignment \in Nat \ {0},
         CheckSlice(alignment, size, ptr, count, options) = "ok",
         NEW i \in 0..(count - 1), NEW byte \in 0..(size - 1)
  PROVE  ptr + i * size + byte \in Addresses /\ Allowed(ptr + i * size + byte, options)
<1>1. i * size \in Nat /\ count * size \in Nat
  OBVIOUS
<1>2. i * size + byte < count * size
  <2>1. (count - (i + 1)) * size >= 0
    OBVIOUS
  <2> QED BY <2>1
<1>3. CheckAddressRange(ptr, count * size, options) = "ok"
  BY DEF CheckSlice
<1>4. ptr + i * size + byte \in ptr..End(ptr, count * size)
  BY <1>1, <1>2 DEF End, Addresses
<1> QED BY <1>1, <1>3, <1>4, EndsSuffice

(* setFromVtor reads no word of the vector table that Non-Secure code may   *)
(* not read.                                                                *)
THEOREM TableReadable ==
  ASSUME Attribution, NEW vtor \in Addresses, NEW size \in 2..256, CheckedTable(vtor, size),
         NEW i \in 0..(size - 1), NEW byte \in 0..3
  PROVE  Allowed(vtor + i * 4 + byte, [readwrite |-> FALSE, unpriv |-> FALSE])
<1> DEFINE options == [readwrite |-> FALSE, unpriv |-> FALSE]
<1>1. options \in Options
  BY DEF Options
<1>2. PICK count \in Nat : i \in 0..(count - 1) /\ CheckSlice(4, 4, vtor, count, options) = "ok"
  <2>1. CASE size = 2
    BY <2>1 DEF CheckedTable
  <2>2. CASE size > 2
    BY <2>2 DEF CheckedTable
  <2> QED BY <2>1, <2>2
<1> QED BY <1>1, <1>2, ElementsAllowed

(* But the slice it returns is as long as the elements have bytes           *)
(* (arm_cmse.zig:133): its last elements lie behind the range that has been *)
(* checked, unless the elements are bytes.  setFromVtor only uses those it  *)
(* has asked for.                                                           *)
THEOREM SliceTooLong ==
  ASSUME NEW size \in Nat \ {0}, NEW count \in Nat \ {0}
  PROVE  SliceLength(size, count) * size <= count * size <=> size = 1
<1>1. count * size \in Nat \ {0}
  OBVIOUS
<1>2. PICK n \in Nat \ {0} : n = count * size
  BY <1>1
<1>3. CASE size = 1
  BY <1>3 DEF SliceLength
<1>4. CASE size > 1
  <2>1. n * (size - 2) >= 0
    BY <1>2, <1>4
  <2>2. n * size >= n + n
    BY <1>2, <2>1
  <2> QED BY <1>2, <1>4, <2>2 DEF SliceLength
<1> QED BY <1>3, <1>4

=============================================================================
