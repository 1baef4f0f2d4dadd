---------------------------- MODULE ThreadsProofs ----------------------------
(***************************************************************************)
(* However many threads there may be, however large their stacks and       *)
(* however deep the handlers nest, the thread management of the monitor    *)
(* (module Threads) writes no slot past the end of its table, finds the    *)
(* frame of every handler that returns, and keeps what module              *)
(* ThreadContexts promises.                                                *)
(***************************************************************************)
EXTENDS Threads, SequenceTheorems, TLAPS

Ids == 0..(Slots - 1)

(* Handlers are the contexts above the thread's own code, and each has a    *)
(* frame on the shadow exception stack; a thread that is not running was    *)
(* left by, or created as if by, one handler.                               *)
Recorded ==
  /\ live.exc.top = Len(ctx) - 1
  /\ \A i \in Ids \ {curThread} : threads[i] # NoThread => threads[i].exc.top = 1

Typed ==
  /\ threads \in [Ids -> {NoThread} \cup
                    [exc : Stacks \cup {Undefined}, stack : Stacks, psp : Stacks \cup {Undefined}]]
  /\ curThread \in Ids /\ threads[0] # NoThread /\ threads[curThread] # NoThread
  /\ live \in NonSecureThread
  /\ \A i \in Ids \ {curThread} : threads[i] # NoThread => threads[i] \in NonSecureThread
  /\ ctx \in Seq({"run", "checked"}) /\ Len(ctx) \in 1..MaxNest

(* The default thread's stacks, and the arena before the other threads.     *)
DefaultPlace ==
  /\ Owned(0).exc.at = DefaultStorage
  /\ Owned(0).stack.at = 0
  /\ Owned(0).psp.at = MainSecureStack

BaseOf(i) == Owned(i).exc.at - InfoSize

(* The stacks of a created thread lie one behind the other, and the threads *)
(* in the order of their creation.                                          *)
Placed ==
  /\ DefaultPlace
  /\ \A i \in Created \ {0} :
       /\ Owned(i).exc.at \in Nat /\ BaseOf(i) >= StackSize
       /\ Owned(i).stack.at = BaseOf(i) + InfoSize + ExcSize
       /\ Owned(i).psp.at = BaseOf(i) + InfoSize + ExcSize + StackSize
       /\ BaseOf(i) + ThreadSize <= used
       /\ \A j \in Created \ {0} : j < i => BaseOf(j) + ThreadSize <= BaseOf(i)

(* Every thread has taken its share of the arena, so that the arena is      *)
(* exhausted before the table is.                                           *)
Counted ==
  /\ nextFreeThread \in Nat \ {0}
  /\ used \in 0..ArenaSize
  /\ used >= StackSize + (nextFreeThread - 1) * ThreadSize
  /\ \A i \in Ids : i >= nextFreeThread => threads[i] = NoThread

Inv == fault = "none" /\ Typed /\ Recorded /\ Placed /\ Counted

----------------------------------------------------------------------------

LEMMA Constants ==
  /\ Slots \in Nat \ {0} /\ 0 \in Ids
  /\ InfoSize \in Nat \ {0} /\ ExcSize \in Nat \ {0}
  /\ StackSize \in Nat \ {0} /\ SecureStackSize \in Nat \ {0}
  /\ ThreadSize \in Nat \ {0}
  /\ ThreadSize = InfoSize + ExcSize + StackSize + SecureStackSize
  /\ ArenaSize \in Nat /\ ArenaSize >= StackSize
  /\ StackSize + (Slots - 1) * ThreadSize > ArenaSize
  /\ MaxNest \in Nat \ {0} /\ Depth \in Nat
<1>1. /\ Sizes[1] = InfoSize /\ Sizes[2] = ExcSize
      /\ Sizes[3] = StackSize /\ Sizes[4] = SecureStackSize
  BY DEF Sizes
<1>2. /\ InfoSize \in Nat \ {0} /\ ExcSize \in Nat \ {0}
      /\ StackSize \in Nat \ {0} /\ SecureStackSize \in Nat \ {0}
  <2>1. 1 \in 1..4 /\ 2 \in 1..4 /\ 3 \in 1..4 /\ 4 \in 1..4
    OBVIOUS
  <2> QED BY <1>1, <2>1, SizesAssumption
<1> QED BY <1>2, SizesAssumption, ArenaAssumption, ClientAssumption DEF ThreadSize, Ids

(* No stack of a thread that exists is undefined.                           *)
LEMMA ThreadsExist == \A c \in NonSecureThread : c # NoThread
<1> SUFFICES ASSUME NEW c \in NonSecureThread PROVE c.exc # Undefined
  BY DEF NoThread
<1>1. c.exc.at \in Addresses
  BY DEF NonSecureThread, Stacks
<1>2. -3 \notin Addresses
  BY Constants DEF Addresses, DefaultStorage, MainSecureStack
<1> QED BY <1>1, <1>2 DEF Undefined

(* A context's stacks are filled to some height.                            *)
LEMMA StackTypes ==
  ASSUME NEW a \in Addresses, NEW n \in 0..(Depth + MaxNest)
  PROVE  [at |-> a, top |-> n] \in Stacks
BY DEF Stacks

LEMMA InitInv == Init => Inv
<1> SUFFICES ASSUME Init PROVE Inv
  OBVIOUS
<1> USE Constants
<1>1. /\ threads = InitialTable /\ nextFreeThread = 1 /\ curThread = 0 /\ used = StackSize
      /\ live = [exc |-> Empty(DefaultStorage), stack |-> Empty(0), psp |-> Empty(MainSecureStack)]
      /\ ctx = <<"run">> /\ fault = "none"
  BY DEF Init
<1>2. /\ threads[0] = DefaultThread(Empty(0))
      /\ \A i \in Ids \ {0} : threads[i] = NoThread
  BY <1>1 DEF InitialTable, Ids
<1>3. DefaultThread(Empty(0)) = [exc |-> Undefined, stack |-> Empty(0), psp |-> Undefined]
  BY DEF DefaultThread, NoThread
<1>4. /\ Empty(0) \in Stacks /\ Empty(DefaultStorage) \in Stacks /\ Empty(MainSecureStack) \in Stacks
  BY DEF Empty, Stacks, Addresses
<1>5. threads[0] # NoThread
  <2>1. Empty(0) # Undefined
    BY DEF Empty, Undefined
  <2> QED BY <1>2, <1>3, <2>1 DEF NoThread
<1>6. Typed
  <2>1. threads \in [Ids -> {NoThread} \cup
                    [exc : Stacks \cup {Undefined}, stack : Stacks, psp : Stacks \cup {Undefined}]]
    BY <1>1, <1>2, <1>3, <1>4 DEF InitialTable, Ids
  <2>2. live \in NonSecureThread
    BY <1>1, <1>4 DEF NonSecureThread
  <2>3. ctx \in Seq({"run", "checked"}) /\ Len(ctx) = 1
    BY <1>1
  <2> QED BY <1>1, <1>2, <1>5, <2>1, <2>2, <2>3 DEF Typed
<1>7. Recorded
  BY <1>1, <1>2 DEF Recorded, Empty
<1>8. Placed
  <2>1. Created = {0}
    BY <1>2, <1>5 DEF Created, Ids
  <2> QED BY <1>1, <2>1 DEF Placed, DefaultPlace, Owned, Empty
<1>9. Counted
  BY <1>1, <1>2 DEF Counted, Ids
<1> QED BY <1>1, <1>6, <1>7, <1>8, <1>9 DEF Inv

(* The invariant, spelled out, with the running thread among those created. *)
LEMMA Consequences ==
  ASSUME Inv
  PROVE  /\ Created \subseteq Ids /\ 0 \in Created /\ curThread \in Created
         /\ \A i \in Created : Owned(i) \in NonSecureThread
         /\ \A i \in Ids \ Created : Owned(i) = NoThread
         /\ \A i \in Created : i < nextFreeThread
         /\ nextFreeThread < Slots
<1> USE Constants
<1>1. Created \subseteq Ids /\ 0 \in Created /\ curThread \in Created
  BY DEF Inv, Typed, Created, Ids
<1>2. \A i \in Created : Owned(i) \in NonSecureThread
  BY <1>1 DEF Inv, Typed, Created, Owned
<1>3. \A i \in Ids \ Created : Owned(i) = NoThread
  BY <1>1 DEF Created, Owned, Ids
<1>4. \A i \in Created : i < nextFreeThread
  BY <1>1 DEF Inv, Counted, Created, Ids
<1>5. nextFreeThread < Slots
  <2>1. (nextFreeThread - 1) * ThreadSize < (Slots - 1) * ThreadSize
    BY DEF Inv, Counted
  <2>2. CASE nextFreeThread - 1 >= Slots - 1
    <3>1. (nextFreeThread - Slots) * ThreadSize >= 0
      BY <2>2 DEF Inv, Counted
    <3> QED BY <2>1, <3>1 DEF Inv, Counted
  <2> QED BY <2>2 DEF Inv, Counted
<1> QED BY <1>1, <1>2, <1>3, <1>4, <1>5

----------------------------------------------------------------------------
(* The running thread fills its stacks, which stay where they are.          *)
LEMMA SamePlaces ==
  ASSUME Inv, UNCHANGED <<threads, nextFreeThread, curThread, used>>,
         live'.exc.at = live.exc.at, live'.stack.at = live.stack.at, live'.psp.at = live.psp.at
  PROVE  Placed' /\ Counted'
<1>1. Created' = Created
  BY DEF Created
<1>2. \A i : /\ Owned(i)'.exc.at = Owned(i).exc.at
             /\ Owned(i)'.stack.at = Owned(i).stack.at
             /\ Owned(i)'.psp.at = Owned(i).psp.at
  BY DEF Owned
<1>3. \A i : BaseOf(i)' = BaseOf(i)
  BY <1>2 DEF BaseOf
<1>4. Placed'
  BY <1>1, <1>2, <1>3 DEF Inv, Placed, DefaultPlace
<1>5. Counted'
  BY DEF Inv, Counted
<1> QED BY <1>4, <1>5

LEMMA InterruptInv == Inv /\ Interrupt => Inv'
<1> SUFFICES ASSUME Inv, Interrupt PROVE Inv'
  OBVIOUS
<1>0. MaxNest \in Nat \ {0} /\ Depth \in Nat
  BY Constants
<1>1. /\ Len(ctx) < MaxNest /\ ctx' = Append(ctx, "run")
      /\ live' = [live EXCEPT !.exc.top = @ + 1]
      /\ UNCHANGED <<threads, nextFreeThread, curThread, used, fault>>
  BY DEF Interrupt
<1>2. /\ ctx \in Seq({"run", "checked"}) /\ Len(ctx) \in 1..MaxNest
      /\ live \in NonSecureThread /\ live.exc.top = Len(ctx) - 1
  BY DEF Inv, Typed, Recorded
<1>3. ctx' \in Seq({"run", "checked"}) /\ Len(ctx') = Len(ctx) + 1
  BY <1>1, <1>2
<1>4. live' \in NonSecureThread /\ live'.exc.top = live.exc.top + 1
  <2>1. live.exc \in Stacks /\ live.exc.top + 1 \in 0..(Depth + MaxNest)
    <3>1. live.exc \in Stacks
      BY <1>2 DEF NonSecureThread
    <3>2. Len(ctx) \in Nat /\ Len(ctx) < MaxNest /\ live.exc.top + 1 = Len(ctx)
      BY <1>1, <1>2
    <3> QED BY <1>0, <3>1, <3>2
  <2>2. /\ [live.exc EXCEPT !.top = @ + 1] \in Stacks
        /\ [live.exc EXCEPT !.top = @ + 1].top = live.exc.top + 1
    BY <2>1 DEF Stacks
  <2> QED BY <1>1, <1>2, <2>2 DEF NonSecureThread
<1>5. Placed' /\ Counted'
  BY <1>1, <1>2, SamePlaces DEF NonSecureThread, Stacks
<1>6. Typed'
  <2>1. Len(ctx') \in 1..MaxNest
    BY <1>0, <1>1, <1>2, <1>3
  <2> QED BY <1>1, <1>3, <1>4, <2>1 DEF Inv, Typed
<1>7. Recorded'
  BY <1>1, <1>2, <1>3, <1>4 DEF Inv, Recorded
<1> QED BY <1>1, <1>5, <1>6, <1>7 DEF Inv

LEMMA ReturnInv == Inv /\ Return => Inv'
<1> SUFFICES ASSUME Inv, Return PROVE Inv'
  OBVIOUS
<1>0. MaxNest \in Nat \ {0} /\ Depth \in Nat
  BY Constants
<1>1. /\ ctx \in Seq({"run", "checked"}) /\ Len(ctx) \in 1..MaxNest
      /\ live \in NonSecureThread /\ live.exc.top = Len(ctx) - 1
  BY DEF Inv, Typed, Recorded
<1>2. /\ Len(ctx) > 1 /\ ctx' = SubSeq(ctx, 1, Len(ctx) - 1)
      /\ live' = [live EXCEPT !.exc.top = @ - 1] /\ fault' = fault
      /\ UNCHANGED <<threads, nextFreeThread, curThread, used>>
  <2>1. Len(ctx) > 1 /\ Len(ctx) \in Nat
    BY <1>1 DEF Return
  <2>2. live.exc.top > 0
    BY <1>1, <2>1
  <2> QED BY <2>1, <2>2 DEF Return
<1>3. ctx' \in Seq({"run", "checked"}) /\ Len(ctx') = Len(ctx) - 1
  <2> DEFINE n == Len(ctx) - 1
             S == {"run", "checked"}
  <2>1. n \in Int /\ 1 \in Int /\ 1 <= n /\ Len(ctx) = n + 1
    BY <1>1, <1>2
  <2>2. \A i \in 1..n : ctx[i] \in S
    BY <1>1, <2>1, ElementOfSeq
  <2>3. ctx' = SubSeq(ctx, 1, n)
    BY <1>2
  <2> HIDE DEF n, S
  <2>4. /\ SubSeq(ctx, 1, n) \in Seq(S)
        /\ Len(SubSeq(ctx, 1, n)) = IF 1 <= n THEN n - 1 + 1 ELSE 0
    BY <2>1, <2>2, SubSeqProperties
  <2> QED BY <2>1, <2>3, <2>4 DEF n, S
<1>4. live' \in NonSecureThread /\ live'.exc.top = live.exc.top - 1
  <2>1. live.exc \in Stacks /\ live.exc.top - 1 \in 0..(Depth + MaxNest)
    <3>1. live.exc \in Stacks
      BY <1>1 DEF NonSecureThread
    <3>2. Len(ctx) \in 2..MaxNest /\ live.exc.top - 1 = Len(ctx) - 2
      BY <1>0, <1>1, <1>2
    <3> QED BY <1>0, <3>1, <3>2
  <2>2. /\ [live.exc EXCEPT !.top = @ - 1] \in Stacks
        /\ [live.exc EXCEPT !.top = @ - 1].top = live.exc.top - 1
    BY <2>1 DEF Stacks
  <2> QED BY <1>1, <1>2, <2>2 DEF NonSecureThread
<1>5. Placed' /\ Counted'
  BY <1>1, <1>2, SamePlaces DEF NonSecureThread, Stacks
<1>6. Typed'
  <2>1. Len(ctx') \in 1..MaxNest
    BY <1>0, <1>1, <1>2, <1>3
  <2> QED BY <1>2, <1>3, <1>4, <2>1 DEF Inv, Typed
<1>7. Recorded'
  BY <1>1, <1>2, <1>3, <1>4 DEF Inv, Recorded
<1> QED BY <1>2, <1>5, <1>6, <1>7 DEF Inv

LEMMA WorkInv ==
  Inv => \A part \in {"stack", "psp"}, n \in 0..Depth : Work(part, n) => Inv'
<1> SUFFICES ASSUME Inv, NEW part \in {"stack", "psp"}, NEW n \in 0..Depth, Work(part, n)
             PROVE  Inv'
  OBVIOUS
<1> USE Constants
<1>1. /\ live' = [live EXCEPT ![part].top = n]
      /\ UNCHANGED <<threads, nextFreeThread, curThread, used, ctx, fault>>
  BY DEF Work
<1>2. live \in NonSecureThread
  BY DEF Inv, Typed
<1>3. /\ live' \in NonSecureThread /\ live'.exc = live.exc
      /\ live'.stack.at = live.stack.at /\ live'.psp.at = live.psp.at
  BY <1>1, <1>2 DEF NonSecureThread, Stacks
<1>4. Placed' /\ Counted'
  BY <1>1, <1>3, SamePlaces
<1>5. Typed' /\ Recorded'
  BY <1>1, <1>3 DEF Inv, Typed, Recorded
<1> QED BY <1>1, <1>4, <1>5 DEF Inv

(* A thread is created, or not, by a context that goes on.                  *)
LEMMA GoToRun ==
  ASSUME Inv, GoTo("run") \/ GoTo("checked")
  PROVE  ctx' \in Seq({"run", "checked"}) /\ Len(ctx') = Len(ctx)
BY DEF GoTo, Inv, Typed

LEMMA CreateCheckInv == Inv /\ CreateCheck => Inv'
<1> SUFFICES ASSUME Inv, CreateCheck PROVE Inv'
  OBVIOUS
<1>1. UNCHANGED <<threads, nextFreeThread, curThread, used, live, fault>> /\ GoTo("checked")
  BY DEF CreateCheck
<1>2. Typed' /\ Recorded'
  BY <1>1, GoToRun DEF Inv, Typed, Recorded
<1>3. Placed' /\ Counted'
  BY <1>1, SamePlaces
<1> QED BY <1>1, <1>2, <1>3 DEF Inv

(* The blocks of a failed creation are lost, which only makes the arena     *)
(* run out earlier.                                                         *)
LEMMA CreateFailsInv == Inv => \A k \in 1..4 : CreateFails(k) => Inv'
<1> SUFFICES ASSUME Inv, NEW k \in 1..4, CreateFails(k) PROVE Inv'
  OBVIOUS
<1> USE Constants
<1>1. /\ used' = used + SizeOf(k - 1) /\ Fits(k - 1) /\ GoTo("run")
      /\ UNCHANGED <<threads, nextFreeThread, curThread, live, fault>>
  BY DEF CreateFails
<1>2. SizeOf(k - 1) \in Nat
  <2>1. k = 1 \/ k = 2 \/ k = 3 \/ k = 4
    OBVIOUS
  <2>2. SizeOf(0) = 0 /\ SizeOf(1) = InfoSize /\ SizeOf(2) = InfoSize + ExcSize
        /\ SizeOf(3) = InfoSize + ExcSize + StackSize
    BY DEF SizeOf
  <2> QED BY <2>1, <2>2
<1>3. used' \in 0..ArenaSize /\ used' >= used
  BY <1>1, <1>2 DEF Fits, Inv, Counted
<1>4. Typed' /\ Recorded'
  BY <1>1, GoToRun DEF Inv, Typed, Recorded
<1>5. Counted'
  BY <1>1, <1>3 DEF Inv, Counted
<1>6. Placed'
  <2>1. Created' = Created /\ \A i : Owned(i)' = Owned(i)
    BY <1>1 DEF Created, Owned
  <2>2. \A i : BaseOf(i)' = BaseOf(i)
    BY <2>1 DEF BaseOf
  <2>3. DefaultPlace'
    BY <2>1 DEF Inv, Placed, DefaultPlace
  <2>4. ASSUME NEW i \in Created \ {0}
        PROVE  BaseOf(i) + ThreadSize <= used'
    BY <1>3, <2>4, Consequences DEF Inv, Placed, Counted, BaseOf
  <2> QED BY <2>1, <2>2, <2>3, <2>4 DEF Inv, Placed
<1> QED BY <1>1, <1>4, <1>5, <1>6 DEF Inv

(* There always is a slot when there is memory: what CreateCheck has seen   *)
(* does not matter.                                                         *)
LEMMA CreateThreadIs ==
  ASSUME Inv, CreateThread
  PROVE  /\ nextFreeThread \in Ids \ Created
         /\ threads' = [threads EXCEPT ![nextFreeThread] = NewThread]
         /\ nextFreeThread' = nextFreeThread + 1
         /\ used' = used + ThreadSize /\ used + ThreadSize <= ArenaSize
         /\ GoTo("run")
         /\ UNCHANGED <<curThread, live, fault>>
         /\ NewThread \in NonSecureThread /\ NewThread.exc.top = 1
         /\ NewThread.exc.at = used + InfoSize
         /\ NewThread.stack.at = used + InfoSize + ExcSize
         /\ NewThread.psp.at = used + InfoSize + ExcSize + StackSize
<1> USE Constants
<1>1. nextFreeThread \in Ids /\ nextFreeThread < Slots
  BY Consequences DEF Inv, Counted, Ids
<1>2. nextFreeThread \notin Created
  BY <1>1 DEF Inv, Counted, Created, Ids
<1>3. used + ThreadSize <= ArenaSize
  <2>1. SizeOf(4) = ThreadSize
    BY DEF SizeOf
  <2> QED BY <2>1 DEF CreateThread, Fits
<1>4. /\ used + InfoSize \in Addresses
      /\ used + InfoSize + ExcSize \in Addresses
      /\ used + InfoSize + ExcSize + StackSize \in Addresses
  BY <1>3 DEF Addresses, Inv, Counted
<1>5. /\ NewThread \in NonSecureThread /\ NewThread.exc.top = 1
      /\ NewThread.exc.at = used + InfoSize
      /\ NewThread.stack.at = used + InfoSize + ExcSize
      /\ NewThread.psp.at = used + InfoSize + ExcSize + StackSize
  BY <1>4, StackTypes DEF NewThread, NonSecureThread, Empty
<1> QED BY <1>1, <1>2, <1>3, <1>5 DEF CreateThread

LEMMA CreateThreadInv == Inv /\ CreateThread => Inv'
<1> SUFFICES ASSUME Inv, CreateThread PROVE Inv'
  OBVIOUS
<1> USE Constants
<1>0. PICK new \in Ids : new = nextFreeThread
  BY CreateThreadIs
<1>1. /\ new \in Ids \ Created
      /\ threads' = [threads EXCEPT ![new] = NewThread]
      /\ nextFreeThread' = new + 1
      /\ used' = used + ThreadSize /\ used + ThreadSize <= ArenaSize
      /\ GoTo("run")
      /\ UNCHANGED <<curThread, live, fault>>
  BY <1>0, CreateThreadIs
<1>2. /\ NewThread \in NonSecureThread /\ NewThread.exc.top = 1 /\ NewThread # NoThread
      /\ NewThread.exc.at = used + InfoSize
      /\ NewThread.stack.at = used + InfoSize + ExcSize
      /\ NewThread.psp.at = used + InfoSize + ExcSize + StackSize
  BY CreateThreadIs, ThreadsExist
<1>3. /\ Created \subseteq Ids /\ curThread \in Created /\ 0 \in Created
      /\ new \in Nat \ {0} /\ \A i \in Created : i < new
  BY <1>0, Consequences DEF Inv, Counted
<1>4. /\ threads'[new] = NewThread
      /\ \A i \in Ids \ {new} : threads'[i] = threads[i]
  BY <1>1 DEF Inv, Typed
<1>5. Typed'
  <2>1. threads' \in [Ids -> {NoThread} \cup
                    [exc : Stacks \cup {Undefined}, stack : Stacks, psp : Stacks \cup {Undefined}]]
    BY <1>1, <1>2 DEF Inv, Typed, NonSecureThread
  <2> QED BY <1>1, <1>2, <1>3, <1>4, <2>1, GoToRun DEF Inv, Typed
<1>6. Recorded'
  BY <1>1, <1>2, <1>3, <1>4, GoToRun DEF Inv, Recorded
<1>7. Counted'
  <2>1. used' >= StackSize + (nextFreeThread' - 1) * ThreadSize
    <3>1. (nextFreeThread' - 1) * ThreadSize = (new - 1) * ThreadSize + ThreadSize
      BY <1>1, <1>3
    <3>2. (new - 1) * ThreadSize \in Nat
      BY <1>3
    <3> QED BY <1>0, <1>1, <3>1, <3>2 DEF Inv, Counted
  <2>2. \A i \in Ids : i >= nextFreeThread' => threads'[i] = NoThread
    BY <1>0, <1>1, <1>3, <1>4 DEF Inv, Counted, Ids
  <2> QED BY <1>1, <1>3, <2>1, <2>2 DEF Inv, Counted
<1>8. Placed'
  <2>1. Created' = Created \cup {new}
    BY <1>1, <1>2, <1>4 DEF Created, Ids
  <2>2. \A i \in Created : Owned(i)' = Owned(i) /\ BaseOf(i)' = BaseOf(i)
    BY <1>1, <1>3, <1>4 DEF Owned, BaseOf
  <2>3. Owned(new)' = NewThread /\ BaseOf(new)' = used
    <3>1. Owned(new)' = NewThread
      BY <1>1, <1>3, <1>4 DEF Owned
    <3> QED BY <1>2, <3>1 DEF BaseOf, Inv, Counted
  <2>4. DefaultPlace'
    BY <1>3, <2>2 DEF Inv, Placed, DefaultPlace
  <2>5. \A i \in Created \ {0} : BaseOf(i) \in Int /\ BaseOf(i) + ThreadSize <= used
    BY DEF Inv, Placed, BaseOf
  <2>6. used \in Nat /\ used >= StackSize
    <3>1. (new - 1) * ThreadSize >= 0
      BY <1>3
    <3> QED BY <1>0, <3>1 DEF Inv, Counted
  <2>7. ASSUME NEW i \in Created \ {0}
        PROVE  /\ Owned(i)'.exc.at \in Nat /\ BaseOf(i)' >= StackSize
               /\ Owned(i)'.stack.at = BaseOf(i)' + InfoSize + ExcSize
               /\ Owned(i)'.psp.at = BaseOf(i)' + InfoSize + ExcSize + StackSize
               /\ BaseOf(i)' + ThreadSize <= used'
               /\ \A j \in Created' \ {0} : j < i => BaseOf(j)' + ThreadSize <= BaseOf(i)'
    <3>1. BaseOf(i) + ThreadSize <= used'
      BY <1>1, <2>5, <2>6
    <3>2. ~(new < i)
      BY <1>3 DEF Ids
    <3> QED BY <2>1, <2>2, <3>1, <3>2 DEF Inv, Placed
  <2>8. /\ Owned(new)'.exc.at \in Nat /\ BaseOf(new)' >= StackSize
        /\ Owned(new)'.stack.at = BaseOf(new)' + InfoSize + ExcSize
        /\ Owned(new)'.psp.at = BaseOf(new)' + InfoSize + ExcSize + StackSize
        /\ BaseOf(new)' + ThreadSize <= used'
        /\ \A j \in Created' \ {0} : j < new => BaseOf(j)' + ThreadSize <= BaseOf(new)'
    BY <1>1, <1>2, <1>3, <2>1, <2>2, <2>3, <2>5, <2>6
  <2> QED BY <2>1, <2>4, <2>7, <2>8 DEF Placed
<1> QED BY <1>1, <1>5, <1>6, <1>7, <1>8 DEF Inv

(* Activation moves what is live to the table and back.                     *)
LEMMA ActivateThreadIs ==
  ASSUME Inv, NEW raw \in RawIds, ActivateThread(raw)
  PROVE  /\ curThread' \in Created /\ Created' = Created
         /\ \A i \in Created : Owned(i)' = Owned(i)
         /\ Len(ctx) = 2
         /\ threads' = [threads EXCEPT ![curThread] = live]
         /\ live' = threads'[curThread']
         /\ UNCHANGED <<nextFreeThread, used, ctx, fault>>
<1> USE Constants
<1>1. PICK new \in Ids : new = SlotOf(raw)
  BY ClientAssumption DEF SlotOf, Ids
<1>2. /\ Len(ctx) = 2 /\ threads[new] # NoThread /\ curThread' = new
      /\ threads' = [threads EXCEPT ![curThread] = live]
      /\ live' = threads'[new]
      /\ UNCHANGED <<nextFreeThread, used, ctx, fault>>
  BY <1>1 DEF ActivateThread, Saved
<1>3. /\ threads'[curThread] = live /\ live # NoThread
      /\ \A i \in Ids \ {curThread} : threads'[i] = threads[i]
  BY <1>2, ThreadsExist DEF Inv, Typed
<1>4. new \in Created
  BY <1>1, <1>2 DEF Created, Ids
<1>5. Created' = Created
  BY <1>3, Consequences DEF Created, Ids
<1>6. \A i \in Created : Owned(i)' = Owned(i)
  BY <1>2, <1>3, Consequences DEF Owned
<1> QED BY <1>2, <1>4, <1>5, <1>6

LEMMA ActivateThreadInv == Inv => \A raw \in RawIds : ActivateThread(raw) => Inv'
<1> SUFFICES ASSUME Inv, NEW raw \in RawIds, ActivateThread(raw) PROVE Inv'
  OBVIOUS
<1> USE Constants
<1>1. /\ curThread' \in Created /\ Created' = Created
      /\ \A i \in Created : Owned(i)' = Owned(i)
      /\ Len(ctx) = 2
      /\ threads' = [threads EXCEPT ![curThread] = live]
      /\ live' = threads'[curThread']
      /\ UNCHANGED <<nextFreeThread, used, ctx, fault>>
  BY ActivateThreadIs
<1>2. /\ Created \subseteq Ids /\ 0 \in Created /\ curThread \in Created
      /\ live \in NonSecureThread /\ live.exc.top = 1
  BY <1>1, Consequences DEF Inv, Typed, Recorded
<1>3. /\ threads'[curThread] = live
      /\ \A i \in Ids \ {curThread} : threads'[i] = threads[i]
  BY <1>1 DEF Inv, Typed
<1>4. \A i \in Ids : threads'[i] # NoThread =>
         threads'[i] \in NonSecureThread /\ threads'[i].exc.top = 1
  BY <1>2, <1>3 DEF Inv, Typed, Recorded
<1>5. \A i \in Ids : threads'[i] # NoThread <=> i \in Created
  BY <1>1, <1>2 DEF Created, Ids
<1>6. Typed'
  <2>1. threads' \in [Ids -> {NoThread} \cup
                    [exc : Stacks \cup {Undefined}, stack : Stacks, psp : Stacks \cup {Undefined}]]
    BY <1>1, <1>2 DEF Inv, Typed, NonSecureThread
  <2> QED BY <1>1, <1>2, <1>4, <1>5, <2>1 DEF Inv, Typed
<1>7. Recorded'
  <2>1. curThread' \in Ids /\ threads'[curThread'] # NoThread
    BY <1>1, <1>2, <1>5
  <2>2. live'.exc.top = Len(ctx') - 1
    <3>1. threads'[curThread'].exc.top = 1
      BY <1>4, <2>1
    <3>2. ctx' = ctx /\ Len(ctx') = 2
      BY <1>1
    <3>3. live'.exc.top = 1
      BY <1>1, <3>1, Zenon
    <3> QED BY <3>2, <3>3
  <2> QED BY <1>4, <2>2 DEF Recorded
<1>8. Counted'
  <2>1. \A i \in Ids : i >= nextFreeThread => threads'[i] = NoThread
    BY <1>2, <1>3, Consequences DEF Inv, Counted, Ids
  <2> QED BY <1>1, <2>1 DEF Inv, Counted
<1>9. Placed'
  <2>1. \A i \in Created : BaseOf(i)' = BaseOf(i)
    BY <1>1 DEF BaseOf
  <2> QED BY <1>1, <1>2, <2>1 DEF Inv, Placed, DefaultPlace
<1> QED BY <1>1, <1>6, <1>7, <1>8, <1>9 DEF Inv

LEMMA TCResetInv == Inv /\ TCReset => Inv'
<1> SUFFICES ASSUME Inv, TCReset PROVE Inv'
  OBVIOUS
<1> USE Constants
<1>1. /\ ctx = <<"run">> /\ curThread = 0
      /\ threads' = InitialTable /\ nextFreeThread' = 1 /\ curThread' = 0 /\ used' = StackSize
      /\ live' = [live EXCEPT !.stack = Empty(0)]
      /\ UNCHANGED <<ctx, fault>>
  BY DEF TCReset
<1>2. /\ threads'[0] = DefaultThread(Empty(0))
      /\ \A i \in Ids \ {0} : threads'[i] = NoThread
  BY <1>1 DEF InitialTable, Ids
<1>3. DefaultThread(Empty(0)) = [exc |-> Undefined, stack |-> Empty(0), psp |-> Undefined]
  BY DEF DefaultThread, NoThread
<1>4. Empty(0) \in Stacks /\ Empty(0).at = 0
  BY DEF Empty, Stacks, Addresses
<1>5. threads'[0] # NoThread
  <2>1. Empty(0) # Undefined
    BY DEF Empty, Undefined
  <2> QED BY <1>2, <1>3, <2>1 DEF NoThread
<1>6. /\ live' \in NonSecureThread
      /\ live'.exc = live.exc /\ live'.psp = live.psp /\ live'.stack.at = 0
  BY <1>1, <1>4 DEF Inv, Typed, NonSecureThread
<1>7. Typed'
  <2>1. threads' \in [Ids -> {NoThread} \cup
                    [exc : Stacks \cup {Undefined}, stack : Stacks, psp : Stacks \cup {Undefined}]]
    BY <1>1, <1>2, <1>3, <1>4 DEF InitialTable, Ids
  <2> QED BY <1>1, <1>2, <1>5, <1>6, <2>1 DEF Inv, Typed
<1>8. Recorded'
  BY <1>1, <1>2, <1>6 DEF Inv, Recorded
<1>9. Placed'
  <2>1. Created' = {0}
    BY <1>2, <1>5 DEF Created, Ids
  <2> QED BY <1>1, <1>6, <2>1 DEF Inv, Placed, DefaultPlace, Owned
<1>10. Counted'
  BY <1>1, <1>2 DEF Counted, Ids
<1> QED BY <1>1, <1>7, <1>8, <1>9, <1>10 DEF Inv

LEMMA StutterInv == Inv /\ UNCHANGED vars => Inv'
BY DEF vars, Inv, Typed, Recorded, Placed, DefaultPlace, Counted, Created, Owned, BaseOf

(* The inductive invariant.                                                 *)
THEOREM ThreadsInvariant == Spec => []Inv
<1>1. ASSUME Inv, [Next]_vars PROVE Inv'
  BY <1>1, TCResetInv, CreateCheckInv, CreateThreadInv, CreateFailsInv, ActivateThreadInv,
     InterruptInv, ReturnInv, WorkInv, StutterInv DEF Next
<1> QED BY <1>1, InitInv, PTL DEF Spec

(* next_free_thread stays below the number of slots, the arena's end index  *)
(* in the arena, and every stack where memory is.                           *)
THEOREM ThreadsTyped == Spec => []TypeOK
<1>1. ASSUME Inv PROVE TypeOK
  <2>1. nextFreeThread \in 1..(Slots + MaxNest)
    <3>1. nextFreeThread \in Nat \ {0} /\ nextFreeThread < Slots
      BY <1>1, Consequences DEF Inv, Counted
    <3> QED BY <3>1, Constants
  <2>2. ctx # << >>
    <3>1. Len(ctx) > 0
      BY <1>1, Constants DEF Inv, Typed
    <3>2. Len(<< >>) = 0
      OBVIOUS
    <3> QED BY <3>1, <3>2
  <2> QED BY <1>1, <2>1, <2>2 DEF Inv, Typed, Counted, TypeOK, Ids
<1> QED BY <1>1, ThreadsInvariant, PTL

(* createThread: whatever came between the test for a free slot and         *)
(* setFaultmask, no thread is written past the end of `threads`.            *)
THEOREM SlotsSuffice == Spec => []NeverPastSlots
<1>1. Inv => NeverPastSlots
  BY DEF Inv, NeverPastSlots
<1> QED BY <1>1, ThreadsInvariant, PTL

(* activateThread and StackState.new: every handler that returns finds its  *)
(* frame on the shadow exception stack of the thread that is then current.  *)
THEOREM FramesFound == Spec => []FrameFound
<1>1. Inv => FrameFound
  BY DEF Inv, FrameFound
<1> QED BY <1>1, ThreadsInvariant, PTL

----------------------------------------------------------------------------
(* The refinement. *)

Context == [i \in Ids |-> Owned(i)]

(* The memory of a context's stacks depends on their addresses only.        *)
LEMMA PlacesAre ==
  ASSUME NEW c, NEW d, c.exc.at = d.exc.at, c.stack.at = d.stack.at, c.psp.at = d.psp.at
  PROVE  Places(c) = Places(d)
BY DEF Places

LEMMA SameContexts ==
  ASSUME UNCHANGED <<threads, curThread, live>>
  PROVE  UNCHANGED <<curThread, Context>>
BY DEF Context, Owned

LEMMA WorkRefines ==
  ASSUME Inv, Inv', UNCHANGED <<threads, curThread>>,
         live'.exc.at = live.exc.at, live'.stack.at = live.stack.at, live'.psp.at = live.psp.at
  PROVE  Abstract!Work
<1>1. /\ curThread \in Ids /\ curThread' = curThread
      /\ live' \in NonSecureThread
  BY DEF Inv, Typed
<1>2. Context[curThread] = live /\ Context'[curThread] = live'
  BY <1>1 DEF Context, Owned
<1>3. \A i \in Ids \ {curThread} : Context'[i] = Context[i]
  BY <1>1 DEF Context, Owned
<1>4. Places(live') = Places(live)
  BY PlacesAre
<1> QED BY <1>1, <1>2, <1>3, <1>4 DEF Abstract!Work, Abstract!Same, Context, Ids

LEMMA CreateRefines ==
  ASSUME Inv, CreateThread
  PROVE  \E i \in Ids : Abstract!Create(i)
<1> USE Constants
<1>0. PICK new \in Ids : new = nextFreeThread
  BY CreateThreadIs
<1>1. /\ new \notin Created
      /\ threads' = [threads EXCEPT ![new] = NewThread]
      /\ UNCHANGED <<curThread, live>>
      /\ NewThread \in NonSecureThread
  BY <1>0, CreateThreadIs
<1>2. curThread \in Created /\ Created \subseteq Ids /\ \A i \in Ids \ Created : Owned(i) = NoThread
  BY Consequences
<1>3. Context'[new] = NewThread
  BY <1>1, <1>2 DEF Context, Owned, Inv, Typed
<1>4. \A i \in Ids \ {new} : Context'[i] = Context[i]
  BY <1>1 DEF Context, Owned, Inv, Typed
<1>5. \A i \in Ids : Context[i] # NoThread => i \in Created
  BY <1>2 DEF Context
<1>6. ASSUME NEW j \in Created
      PROVE  Places(NewThread) \cap Places(Owned(j)) = {}
  <2>1. /\ NewThread.exc.at = used + InfoSize
        /\ NewThread.stack.at = used + InfoSize + ExcSize
        /\ NewThread.psp.at = used + InfoSize + ExcSize + StackSize
        /\ used \in Nat
    BY CreateThreadIs DEF Inv, Counted
  <2>2. \A a \in Places(NewThread) : a >= used + InfoSize /\ a \in Int
    BY <2>1 DEF Places, Block
  <2>3. CASE j = 0
    <3>1. used >= StackSize
      <4>1. (nextFreeThread - 1) * ThreadSize >= 0
        BY DEF Inv, Counted
      <4> QED BY <4>1 DEF Inv, Counted
    <3>2. \A a \in Places(Owned(0)) : a < StackSize
      BY DEF Places, Block, Inv, Placed, DefaultPlace, DefaultStorage, MainSecureStack
    <3> QED BY <2>1, <2>2, <2>3, <3>1, <3>2
  <2>4. CASE j # 0
    <3>1. /\ Owned(j).exc.at \in Nat
          /\ Owned(j).stack.at = Owned(j).exc.at + ExcSize
          /\ Owned(j).psp.at = Owned(j).exc.at + ExcSize + StackSize
          /\ Owned(j).exc.at - InfoSize + ThreadSize <= used
      BY <2>4 DEF Inv, Placed, BaseOf
    <3>2. \A a \in Places(Owned(j)) : a < used + InfoSize
      BY <2>1, <3>1 DEF Places, Block
    <3> QED BY <2>1, <2>2, <3>2
  <2> QED BY <2>3, <2>4
<1>7. Abstract!Create(new)
  <2>1. ~(new \in Abstract!Created)
    BY <1>1, <1>5 DEF Abstract!Created, Context, Ids
  <2>2. \A j \in Abstract!Created : Abstract!Apart(Context'[new], Context[j])
    BY <1>3, <1>5, <1>6 DEF Abstract!Created, Abstract!Apart, Context, Ids
  <2> QED BY <1>1, <1>3, <1>4, <2>1, <2>2 DEF Abstract!Create, Abstract!Same, Context, Ids
<1> QED BY <1>7

LEMMA ActivateRefines ==
  ASSUME Inv, NEW raw \in RawIds, ActivateThread(raw)
  PROVE  \E i \in Ids : Abstract!Activate(i)
<1>1. /\ curThread' \in Created /\ Created \subseteq Ids
      /\ Created' = Created /\ \A i \in Created : Owned(i)' = Owned(i)
  BY ActivateThreadIs, Consequences
<1>2. \A i \in Ids \ Created : Owned(i) = NoThread /\ Owned(i)' = NoThread
  <2>1. Inv'
    BY ActivateThreadInv
  <2>2. \A i \in Ids \ Created : threads[i] = NoThread
    BY DEF Created, Ids
  <2>3. \A i \in Ids \ Created' : threads'[i] = NoThread
    BY DEF Created, Ids
  <2>4. curThread \in Created
    BY Consequences
  <2> QED BY <1>1, <2>2, <2>3, <2>4 DEF Owned
<1>3. Context' = Context
  BY <1>1, <1>2 DEF Context
<1>4. Context[curThread'] # NoThread
  <2>1. Owned(curThread') \in NonSecureThread
    BY <1>1, Consequences
  <2> QED BY <1>1, <2>1, ThreadsExist DEF Context
<1> QED BY <1>1, <1>3, <1>4 DEF Abstract!Activate, Abstract!Created, Context, Ids

LEMMA ResetRefines ==
  ASSUME Inv, Inv', TCReset
  PROVE  Abstract!Reset
<1>1. /\ threads' = InitialTable /\ curThread' = 0 /\ 0 \in Ids /\ live' \in NonSecureThread
  BY Constants DEF TCReset, Inv, Typed
<1>2. Context'[0] = live'
  BY <1>1 DEF Context, Owned
<1>3. \A i \in Ids \ {0} : Context'[i] = NoThread
  BY <1>1 DEF Context, Owned, InitialTable, Ids
<1> QED BY <1>1, <1>2, <1>3 DEF Abstract!Reset, Context, Ids

LEMMA InitRefines == Init => Abstract!Init
<1> SUFFICES ASSUME Init PROVE Abstract!Init
  OBVIOUS
<1>1. Inv /\ curThread = 0
  BY InitInv DEF Init
<1>2. 0 \in Ids /\ Context[0] \in NonSecureThread /\ Context[0] # NoThread
  BY <1>1, Consequences, ThreadsExist DEF Context
<1>3. \A i \in Ids \ {0} : Context[i] = NoThread
  BY <1>1 DEF Init, Context, Owned, InitialTable, Ids
<1>4. Abstract!Created = {0}
  BY <1>2, <1>3 DEF Abstract!Created, Context, Ids
<1> QED BY <1>1, <1>2, <1>4 DEF Abstract!Init, Context, Ids

LEMMA NextRefines ==
  ASSUME Inv, Inv', [Next]_vars
  PROVE  Abstract!Next \/ UNCHANGED <<curThread, Context>>
<1>1. CASE TCReset
  BY <1>1, ResetRefines DEF Abstract!Next, Context, Ids
<1>2. CASE CreateCheck \/ (\E k \in 1..4 : CreateFails(k)) \/ UNCHANGED vars
  BY <1>2, SameContexts DEF CreateCheck, CreateFails, vars
<1>3. CASE CreateThread
  BY <1>3, CreateRefines DEF Abstract!Next, Context, Ids
<1>4. CASE \E raw \in RawIds : ActivateThread(raw)
  BY <1>4, ActivateRefines DEF Abstract!Next, Context, Ids
<1>5. CASE Interrupt \/ Return \/ (\E part \in {"stack", "psp"}, n \in 0..Depth : Work(part, n))
  <2>1. UNCHANGED <<threads, curThread>> /\ live \in NonSecureThread
    BY <1>5 DEF Interrupt, Return, Work, Inv, Typed
  <2>2. /\ live'.exc.at = live.exc.at /\ live'.stack.at = live.stack.at
        /\ live'.psp.at = live.psp.at
    <3>1. CASE Interrupt \/ Return
      BY <2>1, <3>1 DEF Interrupt, Return, NonSecureThread, Stacks
    <3>2. ASSUME NEW part \in {"stack", "psp"}, NEW n \in 0..Depth, Work(part, n)
          PROVE  /\ live'.exc.at = live.exc.at /\ live'.stack.at = live.stack.at
                 /\ live'.psp.at = live.psp.at
      BY <2>1, <3>2 DEF Work, NonSecureThread, Stacks
    <3> QED BY <1>5, <3>1, <3>2
  <2> QED BY <2>1, <2>2, WorkRefines DEF Abstract!Next, Context, Ids
<1> QED BY <1>1, <1>2, <1>3, <1>4, <1>5 DEF Next

(* threads.zig keeps what ThreadContexts promises, for any number of        *)
(* threads: every thread has stacks of its own, in memory of its own, and   *)
(* finds them as it left them.                                              *)
THEOREM ThreadsKeepContexts == Spec => KeepsContexts
<1>1. Inv /\ Inv' /\ [Next]_vars => [Abstract!Next]_<<curThread, Context>>
  BY NextRefines
<1> QED BY <1>1, InitRefines, ThreadsInvariant, PTL
    DEF Spec, KeepsContexts, Abstract!Spec, Context, Ids
=============================================================================
