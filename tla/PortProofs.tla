----------------------------- MODULE PortProofs -----------------------------
(***************************************************************************)
(* For any number of tasks, of nested interrupts and of critical sections: *)
(* a task runs with its own context, within its own regions, and has, as   *)
(* it were, a processor of its own; and no return from an exception goes   *)
(* wrong but from one that came in a Secure function of a handler on top   *)
(* of a frame in a Secure stack.                                           *)
(***************************************************************************)
EXTENDS Port, FiniteSetTheorems, FunctionTheorems, SequenceTheorems, TLAPS

----------------------------------------------------------------------------
(* Types. *)

TaskPlaces == {"fresh", "app", "gateway", "elevating", "raise", "raising", "api"}
Kinds      == {"irq", "systick", "pendsv"}
Moments    == {"start", "gateway", "done", "saved", "selected", "restored", "activating",
               "activated", "loaded"}
ToHandlers == {"handler", "secure_handler"}
Returns    == {"thread", "secure"} \cup ToHandlers
Places     == TaskPlaces \cup Kinds \cup {"main", "none"}

Owners   == Tasks \cup {NoTask}
Codes    == [of : Owners, at : Places]
Pointers == [of : Owners, len : Nat]
Settings == [stack : Owners, regions : SUBSET Buffers]

FrameCells    == [kind : {"frame"}, pc : Codes]
RegisterCells == [kind : {"registers"}, regs : Codes]
ContextCells  == [kind : {"context"}, secureContext : Threads, psplim : Owners,
                  npriv : BOOLEAN, ret : Returns]
CallCells     == [kind : {"call"}, effect : Effects, was : BOOLEAN]
Cells         == FrameCells \cup RegisterCells \cup ContextCells \cup CallCells

Active  == [kind : Kinds, at : Moments, ret : Returns]
Entries == [ret : Returns, pc : Codes, sp : Pointers]
Secured == [pc : Codes, regs : Codes]

Cpus     == [pc : Codes, regs : Codes, psp : Pointers, psplim : Owners, npriv : BOOLEAN,
             primask : BOOLEAN, pendsv : BOOLEAN, mpu : Settings]
Kernels  == [current : Tasks, nesting : Nat, secureContext : Threads,
             top : [Tasks -> Pointers], settings : [Tasks -> Settings]]
Monitors == [cur : Threads, next : Nat, ses : [Threads -> Seq(Entries)],
             sec : [Threads -> Seq(Secured)]]

Typed ==
  /\ cpu \in Cpus /\ exc \in Seq(Active) /\ mem \in [Tasks -> Seq(Cells)]
  /\ os \in Kernels /\ monitor \in Monitors /\ fault \in BOOLEAN

----------------------------------------------------------------------------
(* The inductive invariant. *)

(* How far the switch to another task is.                                   *)
Phase ==
  IF ~Started THEN "main"
  ELSE IF exc = << >> \/ exc[1].kind # "pendsv" THEN "start" ELSE exc[1].at

(* The context of os.current is in the registers, its thread is current.    *)
Live == Phase = "start"

Stages(kind) ==
  IF kind = "pendsv"
  THEN {"start", "saved", "selected", "restored", "activating", "activated", "loaded"}
  ELSE {"start", "gateway", "done"}

(* Only interrupts nest, and what they interrupt then is a handler.         *)
Nested ==
  /\ ~Started => exc = << >> /\ cpu.pc.of = NoTask
  /\ \A k \in DOMAIN exc :
       /\ exc[k].at \in Stages(exc[k].kind)
       /\ IF k = 1 THEN exc[k].ret \in {"thread", "secure"}
          ELSE exc[k].kind = "irq" /\ exc[k].ret \in ToHandlers

(* Interrupts are masked exactly inside critical sections.                  *)
Masked ==
  /\ ~Started \/ exc # << >> => os.nesting = 0
  /\ Started => (cpu.primask <=> os.nesting > 0)

(* A task that does not exist yet has no stack, and there is a thread for   *)
(* each task that does.                                                     *)
Counted ==
  /\ os.current \in Created
  /\ \A t \in Tasks \ Created : mem[t] = << >>
  /\ \A t \in Created : os.settings[t].stack = t
  /\ monitor.next = Cardinality(Created) + 1
  /\ \A i \in Threads : i >= monitor.next => monitor.ses[i] = << >> /\ monitor.sec[i] = << >>

(* What a task that is at `at` has on its stack below the frame of the      *)
(* exception that interrupted it: the locals of its system call.            *)
InCall == {"raise", "raising", "api"}

Depth(at) == IF at \in InCall THEN 1 ELSE 0

MayBePrivileged == Privileged \cup Callers

Privilege(t, stack, at, npriv) ==
  /\ at = "api" => ~npriv
  /\ at = "elevating" => t \in MayBePrivileged
  /\ at # "api" /\ t \notin MayBePrivileged => npriv
  /\ at \in InCall => stack[1] \in CallCells /\ (stack[1].was => t \in MayBePrivileged)

(* The tasks whose context is on their stacks.                              *)
Away == {t \in Created : ~(Live /\ t = os.current)}

Context(t) == mem[t][Len(mem[t])]
Id(t) == Context(t).secureContext
FirstOf(t) == monitor.ses[Id(t)][1]

OnThreadStack(stack, pc) ==
  LET d == Depth(pc.at)
  IN  /\ Len(stack) = d + 3
      /\ stack[d + 1] = FrameCell(pc)
      /\ stack[d + 2] \in RegisterCells
      /\ pc.at # "fresh" => stack[d + 2].regs = pc

(* Such a task's context says how it was interrupted, and the first entry   *)
(* of its thread's shadow exception stack where.                            *)
StowedAt(t) ==
  /\ os.top[t] = Pointer(t, Len(mem[t])) /\ Len(mem[t]) \in Nat \ {0}
  /\ Context(t) \in ContextCells /\ Id(t) \in 1..(monitor.next - 1) /\ Context(t).psplim = t
  /\ Len(monitor.ses[Id(t)]) = IF Id(t) = monitor.cur THEN Len(exc) ELSE 1
  /\ monitor.ses[Id(t)] # << >>
  /\ FirstOf(t).pc.of = t /\ FirstOf(t).pc.at \in TaskPlaces
  /\ FirstOf(t).ret = Context(t).ret /\ Context(t).ret \in {"thread", "secure"}
  /\ Context(t).ret = "thread" =>
       /\ OnThreadStack(mem[t], FirstOf(t).pc)
       /\ FirstOf(t).sp = Pointer(t, Len(mem[t]) - 2)
       /\ monitor.sec[Id(t)] = << >>
  /\ Context(t).ret = "secure" =>
       /\ FirstOf(t).pc.at \in SecureCode
       /\ Len(mem[t]) = Depth(FirstOf(t).pc.at) + 1
       /\ FirstOf(t).sp = Pointer(NoTask, 1)
       /\ monitor.sec[Id(t)] = <<[pc |-> FirstOf(t).pc, regs |-> FirstOf(t).pc]>>
  /\ Privilege(t, mem[t], FirstOf(t).pc.at, Context(t).npriv)

Stowed == \A t \in Away : StowedAt(t)

(* Every thread is one task's.                                              *)
Distinct ==
  /\ \A t, u \in Away : Id(t) = Id(u) => t = u
  /\ Live => \A t \in Away : Id(t) # monitor.cur
  /\ \A i \in Threads : monitor.sec[i] # << >> =>
       (Live /\ i = monitor.cur) \/ \E t \in Away : Id(t) = i

(* The handlers that are active are on the current shadow exception stack.  *)
Tracked ==
  /\ Started => /\ monitor.cur \in 1..(monitor.next - 1)
                /\ Len(monitor.ses[monitor.cur]) = Len(exc)
  /\ ~Started => monitor.cur = 0 /\ monitor.ses[0] = << >>
  /\ exc # << >> => monitor.ses[monitor.cur][1].ret \in {"thread", "secure"}
  /\ \A k \in DOMAIN exc \ {1} : /\ monitor.ses[monitor.cur][k].ret = exc[k].ret
                                 /\ monitor.ses[monitor.cur][k].sp.len = k - 1

(* The task whose context is in the registers.                              *)
Running ==
  LET t == os.current
      d == Depth(cpu.pc.at)
      first == monitor.ses[monitor.cur][1]
      secured == monitor.sec[monitor.cur]
  IN  Live =>
        /\ os.secureContext = monitor.cur /\ cpu.psplim = t /\ cpu.mpu.stack = t
        /\ cpu.pc.of = t /\ cpu.pc.at \in TaskPlaces
        /\ Privilege(t, mem[t], cpu.pc.at, cpu.npriv)
        /\ cpu.psp = Pointer(t, Len(mem[t]))
        /\ exc = << >> => Len(mem[t]) = d /\ secured = << >>
        /\ exc # << >> => first.ret = exc[1].ret /\ first.pc = cpu.pc
        /\ exc # << >> /\ exc[1].ret = "thread" =>
             /\ Len(mem[t]) = d + 1 /\ mem[t][d + 1] = FrameCell(cpu.pc)
             /\ first.sp = cpu.psp /\ secured = << >>
        /\ exc # << >> /\ exc[1].ret = "secure" =>
             /\ Len(mem[t]) = d /\ cpu.pc.at \in SecureCode
             /\ first.sp = Pointer(NoTask, 1)
             /\ secured = <<[pc |-> cpu.pc, regs |-> cpu.pc]>>
        /\ cpu.pc.at # "fresh" /\ (exc = << >> \/ exc[1].ret = "thread") => cpu.regs = cpu.pc

(* The steps of PendSV_Handler, and before the first one.                   *)
Switching ==
  LET t == os.current
  IN  /\ Phase = "main" =>
           \A u \in Created : Context(u).ret = "thread" /\ FirstOf(u).pc.at = "fresh"
      /\ Phase \in {"restored", "activating", "activated", "loaded"} =>
           /\ os.secureContext = Id(t) /\ cpu.psplim = t /\ cpu.mpu.stack = t
           /\ cpu.npriv = Context(t).npriv
      /\ Phase \in {"activated", "loaded"} => monitor.cur = Id(t)

Inv ==
  /\ Typed /\ ~fault
  /\ Nested /\ Masked /\ Counted /\ Stowed /\ Distinct /\ Tracked /\ Running /\ Switching

(* Otherwise the j-th of the active exceptions was not recorded, because it *)
(* came in a Secure function of a handler with a frame on top, the m-th,    *)
(* that is one in a Secure stack, too.  The exceptions that came after it   *)
(* were, and so the handlers go on as before until the j-th is left.        *)
Matches(active, entries, j, m) ==
  /\ active[j].ret = "secure_handler" /\ IsDummy(entries[m].ret)
  /\ entries[m].ret \in ToHandlers => entries[m].sp.len < j - 1
  /\ Len(entries) - m = Len(active) - j
  /\ \A k \in (j + 1)..Len(active) :
       LET e == entries[m + (k - j)]
       IN  e.ret = active[k].ret /\ active[k].ret \in ToHandlers /\ e.sp.len = k - 1

Missed ==
  /\ Typed /\ Started
  /\ \A k \in DOMAIN exc \ {1} : exc[k].kind = "irq"
  /\ \E j \in DOMAIN exc \ {1}, m \in DOMAIN monitor.ses[monitor.cur] :
       Matches(exc, monitor.ses[monitor.cur], j, m) /\ (fault => j = Len(exc))

IInv == Inv \/ Missed

----------------------------------------------------------------------------
(* What the abstract specification sees of a task: where it is, and whether *)
(* its application code is privileged.                                      *)

Code(t)  == IF Live /\ t = os.current THEN cpu.pc ELSE FirstOf(t).pc
NPriv(t) == IF Live /\ t = os.current THEN cpu.npriv ELSE Context(t).npriv

Trusts(stack, at, npriv) == IF at \in InCall THEN stack[1].was ELSE ~npriv

(* That stays as it is ...                                                  *)
Same(t) ==
  /\ Code(t)' = Code(t) /\ NPriv(t)' = NPriv(t)
  /\ Code(t).at \in InCall => mem'[t][1] = mem[t][1]

AllSame == Created' = Created /\ os'.nesting = os.nesting /\ \A t \in Created : Same(t)

Idle == AllSame /\ os'.current = os.current

(* ... or one task goes on ...                                              *)
TaskStep(t) ==
  /\ os.current = t /\ os'.current = t /\ Created' = Created
  /\ Code(t)'.at # "fresh"
  /\ Trusts(mem'[t], Code(t)'.at, NPriv(t)') =>
       Trusts(mem[t], Code(t).at, NPriv(t)) \/ Code(t).at = "elevating"
  /\ \A u \in Created \ {t} : Same(u)

(* ... or one is created.                                                   *)
Creates(u) ==
  /\ u \in Tasks \ Created /\ Created' = Created \cup {u}
  /\ os'.nesting = os.nesting /\ os'.current = os.current
  /\ Code(u)'.at = "fresh"
  /\ \A t \in Created : Same(t)

----------------------------------------------------------------------------
(* Sequences, stacks and frames. *)

LEMMA TopOf ==
  ASSUME NEW S, NEW s \in Seq(S), s # << >>
  PROVE  /\ Len(s) \in Nat \ {0} /\ Len(s) \in DOMAIN s /\ 1 \in DOMAIN s
         /\ Last(s) = s[Len(s)] /\ Last(s) \in S /\ s[1] \in S
         /\ DOMAIN s = 1..Len(s)
BY DEF Last

LEMMA HasSome ==
  ASSUME NEW S, NEW s \in Seq(S)
  PROVE  Len(s) # 0 <=> s # << >>
OBVIOUS

(* What is appended to a sequence or taken off it.                          *)
LEMMA Appended ==
  ASSUME NEW S, NEW s \in Seq(S), NEW e \in S
  PROVE  /\ Append(s, e) \in Seq(S) /\ Append(s, e) # << >>
         /\ Len(s) \in Nat /\ Len(Append(s, e)) = Len(s) + 1
         /\ DOMAIN Append(s, e) = 1..(Len(s) + 1)
         /\ \A i \in 1..Len(s) : Append(s, e)[i] = s[i]
         /\ Append(s, e)[Len(s) + 1] = e
BY AppendProperties, LenProperties

LEMMA FrontOf ==
  ASSUME NEW S, NEW s \in Seq(S), s # << >>
  PROVE  /\ Front(s) \in Seq(S) /\ Len(s) \in Nat \ {0} /\ Len(Front(s)) = Len(s) - 1
         /\ DOMAIN Front(s) = 1..(Len(s) - 1)
         /\ \A i \in 1..(Len(s) - 1) : Front(s)[i] = s[i]
         /\ Len(s) = 1 => Front(s) = << >>
<1>1. Len(s) \in Nat \ {0} /\ \A i \in 1..(Len(s) - 1) : s[i] \in S
  BY EmptySeq, LenProperties
<1>2. Front(s) \in Seq(S) /\ Len(Front(s)) = Len(s) - 1
  <2>1. PICK n \in Int : n = Len(s) - 1
    BY <1>1
  <2>2. SubSeq(s, 1, n) \in Seq(S) /\ Len(SubSeq(s, 1, n)) = IF 1 <= n THEN n - 1 + 1 ELSE 0
    BY <1>1, <2>1, SubSeqProperties
  <2> QED BY <1>1, <2>1, <2>2 DEF Front
<1>3. \A i \in 1..(Len(s) - 1) : Front(s)[i] = s[i]
  BY <1>1, SubSeqProperties DEF Front
<1>4. Len(s) = 1 => Front(s) = << >>
  BY <1>2, EmptySeq
<1> QED BY <1>1, <1>2, <1>3, <1>4, LenProperties

(* The top of a stack of exceptions moves on.                               *)
LEMMA GoesFacts ==
  ASSUME exc \in Seq(Active), exc # << >>, NEW at \in Moments, Goes(at)
  PROVE  /\ exc' \in Seq(Active) /\ exc' # << >> /\ Len(exc') = Len(exc)
         /\ Len(exc) \in Nat \ {0} /\ DOMAIN exc' = 1..Len(exc)
         /\ \A k \in 1..Len(exc) : k # Len(exc) => exc'[k] = exc[k]
         /\ exc'[Len(exc)] = [exc[Len(exc)] EXCEPT !.at = at]
<1>1. Len(exc) \in Nat \ {0} /\ exc[Len(exc)] \in Active
  BY TopOf
<1>2. [exc[Len(exc)] EXCEPT !.at = at] \in Active
  BY <1>1 DEF Active
<1>3. exc' = [exc EXCEPT ![Len(exc)] = [exc[Len(exc)] EXCEPT !.at = at]]
  BY DEF Goes
<1>4. exc' \in Seq(Active) /\ Len(exc') = Len(exc)
  BY <1>1, <1>2, <1>3
<1>5. exc' # << >>
  BY <1>1, <1>4
<1>6. /\ \A k \in 1..Len(exc) : k # Len(exc) => exc'[k] = exc[k]
      /\ exc'[Len(exc)] = [exc[Len(exc)] EXCEPT !.at = at]
  BY <1>1, <1>2, <1>3
<1> QED BY <1>1, <1>4, <1>5, <1>6

(* A stack with more pushed on top of all of it.                            *)
LEMMA PushOnTop ==
  ASSUME NEW t \in Tasks, mem \in [Tasks -> Seq(Cells)], NEW cells \in Seq(Cells)
  PROVE  LET new == Push(mem, Pointer(t, Len(mem[t])), cells)
             n == Len(mem[t])
         IN  /\ new \in Seq(Cells) /\ n \in Nat /\ Len(new) = n + Len(cells)
             /\ \A i \in 1..n : new[i] = mem[t][i]
             /\ \A i \in 1..Len(cells) : new[n + i] = cells[i]
<1>1. mem[t] \in Seq(Cells) /\ Len(mem[t]) \in Nat
  OBVIOUS
<1>2. SubSeq(mem[t], 1, Len(mem[t])) = mem[t]
  BY <1>1, SubSeqFull
<1>3. Push(mem, Pointer(t, Len(mem[t])), cells) = mem[t] \o cells
  BY <1>2 DEF Push, Pointer
<1> QED BY <1>1, <1>3, ConcatProperties, LenProperties

LEMMA CellTypes ==
  /\ \A pc \in Codes : FrameCell(pc) \in FrameCells /\ FrameCell(pc) \in Cells
  /\ \A regs \in Codes : RegistersCell(regs) \in RegisterCells /\ RegistersCell(regs) \in Cells
  /\ \A i \in Threads, o \in Owners, b \in BOOLEAN, ret \in Returns :
       ContextCell(i, o, b, ret) \in ContextCells /\ ContextCell(i, o, b, ret) \in Cells
  /\ \A effect \in Effects, was \in BOOLEAN :
       CallCell(effect, was) \in CallCells /\ CallCell(effect, was) \in Cells
BY DEF FrameCell, RegistersCell, ContextCell, CallCell, Cells, FrameCells, RegisterCells,
       ContextCells, CallCells

----------------------------------------------------------------------------
(* What a step leaves alone. *)

(* A saved context stays as it is, and so does where its task is.           *)
Kept(t) ==
  /\ mem'[t] = mem[t] /\ os'.top[t] = os.top[t]
  /\ monitor'.sec[Id(t)] = monitor.sec[Id(t)]
  /\ monitor'.ses[Id(t)] # << >> /\ monitor'.ses[Id(t)][1] = FirstOf(t)
  /\ Len(monitor'.ses[Id(t)]) = IF Id(t) = monitor'.cur THEN Len(exc') ELSE 1

LEMMA KeptStowed ==
  ASSUME NEW t, StowedAt(t), Kept(t),
         monitor.next \in Nat, monitor'.next \in Nat, monitor'.next >= monitor.next
  PROVE  StowedAt(t)' /\ Id(t)' = Id(t) /\ Context(t)' = Context(t) /\ FirstOf(t)' = FirstOf(t)
<1>1. Context(t)' = Context(t)
  BY DEF Kept, Context
<1>2. Id(t)' = Id(t)
  BY <1>1 DEF Id
<1>3. FirstOf(t)' = FirstOf(t)
  BY <1>2 DEF FirstOf, Kept
<1>4. Id(t) \in 1..(monitor'.next - 1)
  BY DEF StowedAt
<1>5. StowedAt(t)'
  BY <1>1, <1>2, <1>3, <1>4 DEF StowedAt, Kept
<1> QED BY <1>1, <1>2, <1>3, <1>5

LEMMA KeptSame ==
  ASSUME NEW t, ~(Live /\ t = os.current), ~(Live /\ t = os.current)', Kept(t)
  PROVE  Same(t)
<1>1. Context(t)' = Context(t)
  BY DEF Kept, Context
<1>2. FirstOf(t)' = FirstOf(t)
  BY <1>1 DEF FirstOf, Kept, Id
<1>3. mem'[t] = mem[t]
  BY DEF Kept
<1> QED BY <1>1, <1>2, <1>3 DEF Same, Code, NPriv

LEMMA AllKept ==
  ASSUME Inv, Away' = Away, monitor'.next = monitor.next, \A t \in Away : Kept(t)
  PROVE  /\ Stowed'
         /\ \A t \in Away : Id(t)' = Id(t) /\ Context(t)' = Context(t) /\ FirstOf(t)' = FirstOf(t)
<1>1. monitor.next \in Nat
  BY DEF Inv, Typed, Monitors
<1>2. \A t \in Away : /\ StowedAt(t)' /\ Id(t)' = Id(t)
                      /\ Context(t)' = Context(t) /\ FirstOf(t)' = FirstOf(t)
  BY <1>1, KeptStowed DEF Inv, Stowed
<1> QED BY <1>2 DEF Stowed

(* What holds while the context of os.current is in the registers.          *)
LEMMA LiveFacts ==
  ASSUME Inv, Live
  PROVE  /\ Started /\ os.current \in Created /\ os.current \in Tasks
         /\ monitor.cur \in 1..(monitor.next - 1) /\ monitor.next \in Nat
         /\ monitor.cur \in Threads
         /\ mem[os.current] \in Seq(Cells) /\ Len(mem[os.current]) \in Nat
         /\ Away = Created \ {os.current}
         /\ \A t \in Away : t \in Tasks /\ StowedAt(t) /\ Id(t) # monitor.cur
                            /\ Id(t) \in Threads
<1>1. Started
  BY DEF Live, Phase
<1>2. os.current \in Created /\ os.current \in Tasks
  BY DEF Inv, Counted, Created
<1>3. monitor.cur \in 1..(monitor.next - 1) /\ monitor.next \in Nat /\ monitor.cur \in Threads
  BY <1>1 DEF Inv, Tracked, Typed, Monitors
<1>4. mem[os.current] \in Seq(Cells) /\ Len(mem[os.current]) \in Nat
  BY <1>2 DEF Inv, Typed
<1>5. Away = Created \ {os.current}
  BY DEF Away
<1>6. \A t \in Away : t \in Tasks /\ StowedAt(t) /\ Id(t) # monitor.cur
  BY DEF Away, Created, Inv, Stowed, Distinct
<1>7. \A t \in Away : Id(t) \in Threads
  BY <1>6 DEF StowedAt, ContextCells, Id
<1> QED BY <1>1, <1>2, <1>3, <1>4, <1>5, <1>6, <1>7

(* A step that only concerns the task in the registers.                     *)
Private ==
  LET t == os.current
  IN  /\ os'.current = t /\ os'.top = os.top
      /\ \A u \in Created : os'.settings[u].stack = u
      /\ \A u \in Tasks \ {t} : mem'[u] = mem[u]
      /\ monitor'.cur = monitor.cur /\ monitor'.next = monitor.next
      /\ \A i \in Threads \ {monitor.cur} :
           monitor'.ses[i] = monitor.ses[i] /\ monitor'.sec[i] = monitor.sec[i]

LEMMA PrivateStep ==
  ASSUME Inv, Live, Private, Live', Typed', ~fault', Nested', Masked', Tracked', Running'
  PROVE  Inv' /\ Created' = Created /\ \A u \in Created \ {os.current} : Same(u)
<1>1. Created' = Created /\ Away' = Away
  BY DEF Created, Away, Private
<1>2. \A t \in Away : Kept(t)
  <2> SUFFICES ASSUME NEW t \in Away PROVE Kept(t)
    OBVIOUS
  <2>1. t \in Tasks /\ t # os.current /\ StowedAt(t) /\ Id(t) \in Threads \ {monitor.cur}
    BY LiveFacts
  <2> QED BY <2>1 DEF Kept, Private, StowedAt, FirstOf
<1>3. /\ Stowed'
      /\ \A t \in Away : Id(t)' = Id(t)
  BY <1>1, <1>2, AllKept DEF Private
<1>4. Counted'
  <2>1. os'.current \in Created' /\ \A t \in Tasks \ Created : mem'[t] = << >>
    BY <1>1, LiveFacts DEF Inv, Counted, Private
  <2>2. monitor'.next = Cardinality(Created') + 1
    BY <1>1 DEF Inv, Counted, Private
  <2>3. \A i \in Threads : i >= monitor'.next => monitor'.ses[i] = << >> /\ monitor'.sec[i] = << >>
    <3> SUFFICES ASSUME NEW i \in Threads, i >= monitor.next
                 PROVE  monitor'.ses[i] = << >> /\ monitor'.sec[i] = << >>
      BY DEF Private
    <3>1. i # monitor.cur
      BY LiveFacts
    <3> QED BY <3>1 DEF Private, Inv, Counted
  <2> QED BY <1>1, <2>1, <2>2, <2>3 DEF Counted, Private
<1>5. Distinct'
  <2>1. \A t, u \in Away : Id(t)' = Id(u)' => t = u
    BY <1>3 DEF Inv, Distinct
  <2>2. \A t \in Away : Id(t)' # monitor'.cur
    BY <1>3, LiveFacts DEF Private
  <2>3. \A i \in Threads : monitor'.sec[i] # << >> => i = monitor'.cur \/ \E t \in Away : Id(t)' = i
    BY <1>3 DEF Private, Inv, Distinct
  <2> QED BY <1>1, <2>1, <2>2, <2>3 DEF Distinct
<1>6. Switching'
  BY DEF Live, Switching
<1>7. \A u \in Created \ {os.current} : Same(u)
  <2> SUFFICES ASSUME NEW u \in Created \ {os.current} PROVE Same(u)
    OBVIOUS
  <2>1. u \in Away /\ u # os'.current
    BY LiveFacts DEF Private
  <2> QED BY <1>2, <2>1, KeptSame
<1> QED BY <1>1, <1>3, <1>4, <1>5, <1>6, <1>7 DEF Inv

(* It may be that nobody can tell.                                          *)
LEMMA PrivateIdle ==
  ASSUME Inv, Live, Private, Live', Typed', ~fault', Nested', Masked', Tracked', Running',
         cpu'.pc = cpu.pc, cpu'.npriv = cpu.npriv, os'.nesting = os.nesting,
         Depth(cpu.pc.at) = 1 => mem'[os.current][1] = mem[os.current][1]
  PROVE  Inv' /\ Idle
<1>1. Inv' /\ Created' = Created /\ \A u \in Created \ {os.current} : Same(u)
  BY PrivateStep
<1>2. os'.current = os.current
  BY DEF Private
<1>3. ASSUME NEW t \in Created, t = os.current
      PROVE  Same(t)
  <2>1. Code(t) = cpu.pc /\ NPriv(t) = cpu.npriv /\ Code(t)' = cpu'.pc /\ NPriv(t)' = cpu'.npriv
    BY <1>2, <1>3 DEF Code, NPriv
  <2> QED BY <1>3, <2>1 DEF Same, Depth
<1>4. \A t \in Created : Same(t)
  BY <1>1, <1>3
<1> QED BY <1>1, <1>2, <1>4 DEF Idle, AllSame

(* Thread code goes on: its registers, the locals of its system call, the   *)
(* nesting of critical sections or the regions of a task change.            *)
TaskMoves ==
  LET t == os.current
  IN  /\ exc = << >> /\ Started
      /\ cpu' \in Cpus /\ mem' \in [Tasks -> Seq(Cells)] /\ os' \in Kernels
      /\ UNCHANGED <<exc, monitor, fault>>
      /\ os'.current = t /\ os'.top = os.top /\ os'.secureContext = os.secureContext
      /\ \A u \in Created : os'.settings[u].stack = u
      /\ \A u \in Tasks \ {t} : mem'[u] = mem[u]
      /\ cpu'.pc.of = t /\ cpu'.pc.at \in TaskPlaces /\ cpu'.regs = cpu'.pc
      /\ cpu'.psplim = cpu.psplim /\ cpu'.mpu = cpu.mpu
      /\ cpu'.primask <=> os'.nesting > 0
      /\ Len(mem'[t]) = Depth(cpu'.pc.at) /\ cpu'.psp = Pointer(t, Len(mem'[t]))
      /\ Privilege(t, mem'[t], cpu'.pc.at, cpu'.npriv)
      /\ cpu'.pc.at # "fresh"
      /\ Trusts(mem'[t], cpu'.pc.at, cpu'.npriv) =>
           Trusts(mem[t], cpu.pc.at, cpu.npriv) \/ cpu.pc.at = "elevating"

LEMMA TaskMovesInv ==
  ASSUME Inv, TaskMoves, NEW t, t = os.current
  PROVE  Inv' /\ TaskStep(t)
<1>1. Live /\ Live' /\ Started'
  BY DEF TaskMoves, Live, Phase, Started, TaskPlaces
<1>2. Private
  BY DEF TaskMoves, Private
<1>3. Typed' /\ ~fault'
  BY DEF TaskMoves, Inv, Typed
<1>4. Nested'
  BY <1>1 DEF TaskMoves, Nested
<1>5. Masked'
  BY <1>1 DEF TaskMoves, Masked
<1>6. Tracked'
  BY <1>1 DEF TaskMoves, Inv, Tracked
<1>7. Running'
  BY <1>1 DEF TaskMoves, Inv, Running
<1>8. Inv' /\ Created' = Created /\ \A u \in Created \ {t} : Same(u)
  BY <1>1, <1>2, <1>3, <1>4, <1>5, <1>6, <1>7, PrivateStep
<1>9. os'.current = t
  BY DEF TaskMoves
<1>10. Code(t) = cpu.pc /\ NPriv(t) = cpu.npriv /\ Code(t)' = cpu'.pc /\ NPriv(t)' = cpu'.npriv
  BY <1>1, <1>9 DEF Code, NPriv
<1>11. TaskStep(t)
  BY <1>8, <1>9, <1>10 DEF TaskStep, TaskMoves
<1> QED BY <1>8, <1>11

----------------------------------------------------------------------------
(* Thread code. *)

LEMMA RunsFacts ==
  ASSUME Inv, NEW t \in Tasks, NEW location \in TaskPlaces, Runs(t, location)
  PROVE  /\ exc = << >> /\ Started /\ Live /\ os.current = t /\ t \in Created
         /\ cpu \in Cpus /\ os \in Kernels /\ mem \in [Tasks -> Seq(Cells)] /\ monitor \in Monitors
         /\ cpu.pc = At(t, location) /\ cpu.pc.of = t /\ cpu.pc.at = location
         /\ cpu.psp = Pointer(t, Len(mem[t])) /\ Len(mem[t]) = Depth(location)
         /\ Privilege(t, mem[t], location, cpu.npriv)
         /\ cpu.primask <=> os.nesting > 0
         /\ os.nesting = 0 => ~cpu.primask
         /\ location # "fresh" => cpu.regs = cpu.pc
         /\ \A u \in Created : os.settings[u].stack = u
<1>1. exc = << >> /\ cpu.pc = At(t, location) /\ cpu.pc.of = t /\ cpu.pc.at = location
  BY DEF Runs, At
<1>2. Started /\ Live
  BY <1>1 DEF Started, Live, Phase, TaskPlaces
<1>3. os.current = t
  BY <1>1, <1>2 DEF Inv, Running
<1>4. t \in Created /\ \A u \in Created : os.settings[u].stack = u
  BY <1>3 DEF Inv, Counted
<1>5. cpu \in Cpus /\ os \in Kernels /\ mem \in [Tasks -> Seq(Cells)] /\ monitor \in Monitors
  BY DEF Inv, Typed
<1>6. cpu.primask <=> os.nesting > 0
  BY <1>2 DEF Inv, Masked
<1>7. /\ cpu.psp = Pointer(t, Len(mem[t])) /\ Len(mem[t]) = Depth(location)
      /\ Privilege(t, mem[t], location, cpu.npriv)
      /\ location # "fresh" => cpu.regs = cpu.pc
  BY <1>1, <1>2, <1>3 DEF Inv, Running
<1> QED BY <1>1, <1>2, <1>3, <1>4, <1>5, <1>6, <1>7

LEMMA MovedFacts ==
  ASSUME cpu \in Cpus, NEW t, cpu.pc.of = t, NEW at \in TaskPlaces
  PROVE  /\ Moved(cpu, at) \in Cpus
         /\ Moved(cpu, at).pc = At(t, at) /\ Moved(cpu, at).regs = At(t, at)
         /\ Moved(cpu, at).psp = cpu.psp /\ Moved(cpu, at).psplim = cpu.psplim
         /\ Moved(cpu, at).npriv = cpu.npriv /\ Moved(cpu, at).primask = cpu.primask
         /\ Moved(cpu, at).pendsv = cpu.pendsv /\ Moved(cpu, at).mpu = cpu.mpu
<1>1. [cpu.pc EXCEPT !.at = at] = At(t, at) /\ At(t, at) \in Codes
  <2>1. at \in Places
    BY DEF Places
  <2>2. cpu.pc \in Codes
    BY DEF Cpus
  <2> QED BY <2>1, <2>2 DEF Codes, At
<1>2. Moved(cpu, at) = [cpu EXCEPT !.pc = At(t, at), !.regs = At(t, at)]
  BY <1>1 DEF Moved
<1> QED BY <1>1, <1>2 DEF Cpus

(* The processor's registers change and nothing else.                       *)
LEMMA BecomesInv ==
  ASSUME Inv, NEW t \in Tasks, NEW from \in TaskPlaces, Runs(t, from), NEW c, Becomes(c),
         c \in Cpus, NEW to \in TaskPlaces, c.pc = At(t, to), c.regs = At(t, to),
         c.psp = cpu.psp, c.psplim = cpu.psplim, c.mpu = cpu.mpu, c.primask = cpu.primask,
         Depth(from) = Depth(to), Privilege(t, mem[t], to, c.npriv), to # "fresh",
         Trusts(mem[t], to, c.npriv) => Trusts(mem[t], from, cpu.npriv) \/ from = "elevating"
  PROVE  Inv' /\ TaskStep(t)
<1>1. cpu' = c /\ UNCHANGED <<exc, mem, os, monitor, fault>>
  BY DEF Becomes
<1>2. c.pc.of = t /\ c.pc.at = to
  BY DEF At
<1>3. TaskMoves /\ os.current = t
  BY <1>1, <1>2, RunsFacts DEF TaskMoves
<1> QED BY <1>3, TaskMovesInv

(* It moves to another place of the same kind.                              *)
LEMMA MovesInv ==
  ASSUME Inv, NEW t \in Tasks, NEW from \in TaskPlaces, NEW to \in TaskPlaces,
         Runs(t, from), Becomes(Moved(cpu, to)),
         from # "api" /\ to # "api" /\ (from \in InCall <=> to \in InCall), to # "fresh",
         to = "elevating" => t \in Callers
  PROVE  Inv' /\ TaskStep(t)
<1>1. cpu \in Cpus /\ cpu.pc.of = t /\ Privilege(t, mem[t], from, cpu.npriv)
  BY RunsFacts
<1>2. /\ Moved(cpu, to) \in Cpus
      /\ Moved(cpu, to).pc = At(t, to) /\ Moved(cpu, to).regs = At(t, to)
      /\ Moved(cpu, to).psp = cpu.psp /\ Moved(cpu, to).psplim = cpu.psplim
      /\ Moved(cpu, to).npriv = cpu.npriv /\ Moved(cpu, to).primask = cpu.primask
      /\ Moved(cpu, to).mpu = cpu.mpu
  BY <1>1, MovedFacts
<1>3. Privilege(t, mem[t], to, Moved(cpu, to).npriv) /\ Depth(from) = Depth(to)
  BY <1>1, <1>2 DEF Privilege, Depth, MayBePrivileged
<1>4. Trusts(mem[t], to, Moved(cpu, to).npriv) => Trusts(mem[t], from, cpu.npriv)
  BY <1>2 DEF Trusts
<1> QED BY <1>2, <1>3, <1>4, BecomesInv

LEMMA BeginInv == ASSUME Inv, NEW t \in Tasks, Begin(t) PROVE Inv' /\ TaskStep(t)
BY MovesInv DEF Begin, TaskPlaces, InCall

LEMMA RaiseBySVCInv ==
  ASSUME Inv, NEW t \in Tasks, NEW location \in {"raise", "app"}, RaiseBySVC(t, location)
  PROVE  Inv' /\ TaskStep(t)
<1> DEFINE to == IF location = "raise" THEN "api" ELSE location
           next == Moved(cpu, to)
           c == IF FromSystemCall(cpu.pc) THEN Raised(next) ELSE next
<1>1. Runs(t, location) /\ Becomes(c) /\ location \in TaskPlaces /\ to \in TaskPlaces
  BY DEF RaiseBySVC, TaskPlaces
<1>2. /\ cpu \in Cpus /\ cpu.pc.of = t /\ cpu.pc.at = location
      /\ Privilege(t, mem[t], location, cpu.npriv)
  BY <1>1, RunsFacts
<1>3. /\ next \in Cpus /\ next.pc = At(t, to) /\ next.regs = At(t, to)
      /\ next.psp = cpu.psp /\ next.psplim = cpu.psplim
      /\ next.npriv = cpu.npriv /\ next.primask = cpu.primask /\ next.mpu = cpu.mpu
  BY <1>1, <1>2, MovedFacts
<1> HIDE DEF next
<1>4. /\ c \in Cpus /\ c.pc = At(t, to) /\ c.regs = At(t, to)
      /\ c.psp = cpu.psp /\ c.psplim = cpu.psplim /\ c.primask = cpu.primask /\ c.mpu = cpu.mpu
      /\ c.npriv = (cpu.npriv /\ location # "raise")
  BY <1>2, <1>3 DEF Cpus, Raised, FromSystemCall
<1> HIDE DEF c
<1>5. Privilege(t, mem[t], to, c.npriv) /\ Depth(location) = Depth(to)
  BY <1>2, <1>4 DEF Privilege, InCall, Depth
<1>6. to # "fresh" /\ (Trusts(mem[t], to, c.npriv) => Trusts(mem[t], location, cpu.npriv))
  BY <1>4 DEF Trusts, InCall
<1> HIDE DEF to
<1> QED BY <1>1, <1>4, <1>5, <1>6, BecomesInv

LEMMA RaiseBySecureInv == ASSUME Inv, NEW t \in Tasks, RaiseBySecure(t) PROVE Inv' /\ TaskStep(t)
<1>1. CASE Runs(t, "raise") /\ Becomes(Moved(cpu, "raising"))
  BY <1>1, MovesInv DEF TaskPlaces, InCall
<1>2. CASE Runs(t, "raising") /\ Becomes(Raised(Moved(cpu, "api")))
  <2> DEFINE next == Moved(cpu, "api")
             c == Raised(next)
  <2>1. "raising" \in TaskPlaces /\ "api" \in TaskPlaces /\ Depth("raising") = Depth("api")
    BY DEF TaskPlaces, Depth, InCall
  <2>2. cpu \in Cpus /\ cpu.pc.of = t /\ Privilege(t, mem[t], "raising", cpu.npriv)
    BY <1>2, <2>1, RunsFacts
  <2>3. /\ next \in Cpus /\ next.pc = At(t, "api") /\ next.regs = At(t, "api")
        /\ next.psp = cpu.psp /\ next.psplim = cpu.psplim
        /\ next.primask = cpu.primask /\ next.mpu = cpu.mpu
    BY <2>1, <2>2, MovedFacts
  <2> HIDE DEF next
  <2>4. /\ c \in Cpus /\ c.pc = At(t, "api") /\ c.regs = At(t, "api")
        /\ c.psp = cpu.psp /\ c.psplim = cpu.psplim /\ c.primask = cpu.primask
        /\ c.mpu = cpu.mpu /\ c.npriv = FALSE
    BY <2>3 DEF Cpus, Raised
  <2>5. Becomes(c)
    BY <1>2 DEF next
  <2> HIDE DEF c
  <2>6. /\ Privilege(t, mem[t], "api", c.npriv)
        /\ Trusts(mem[t], "api", c.npriv) => Trusts(mem[t], "raising", cpu.npriv)
    BY <2>2, <2>4 DEF Privilege, InCall, Trusts
  <2> QED BY <1>2, <2>1, <2>4, <2>5, <2>6, BecomesInv
<1>3. CASE t \in Callers /\ Runs(t, "app") /\ Becomes(Moved(cpu, "elevating"))
  BY <1>3, MovesInv DEF TaskPlaces, InCall
<1>4. CASE Runs(t, "elevating") /\ Becomes(Raised(Moved(cpu, "app")))
  <2> DEFINE next == Moved(cpu, "app")
             c == Raised(next)
  <2>1. "elevating" \in TaskPlaces /\ "app" \in TaskPlaces /\ Depth("elevating") = Depth("app")
    BY DEF TaskPlaces, Depth, InCall
  <2>2. cpu \in Cpus /\ cpu.pc.of = t /\ Privilege(t, mem[t], "elevating", cpu.npriv)
    BY <1>4, <2>1, RunsFacts
  <2>3. /\ next \in Cpus /\ next.pc = At(t, "app") /\ next.regs = At(t, "app")
        /\ next.psp = cpu.psp /\ next.psplim = cpu.psplim
        /\ next.primask = cpu.primask /\ next.mpu = cpu.mpu
    BY <2>1, <2>2, MovedFacts
  <2> HIDE DEF next
  <2>4. /\ c \in Cpus /\ c.pc = At(t, "app") /\ c.regs = At(t, "app")
        /\ c.psp = cpu.psp /\ c.psplim = cpu.psplim /\ c.primask = cpu.primask
        /\ c.mpu = cpu.mpu
    BY <2>3 DEF Cpus, Raised
  <2>5. Becomes(c)
    BY <1>4 DEF next
  <2> HIDE DEF c
  <2>6. Privilege(t, mem[t], "app", c.npriv)
    BY <2>2 DEF Privilege, InCall
  <2> QED BY <1>4, <2>1, <2>4, <2>5, <2>6, BecomesInv
<1> QED BY <1>1, <1>2, <1>3, <1>4 DEF RaiseBySecure

LEMMA GatewayInv == ASSUME Inv, NEW t \in Tasks, Gateway(t) PROVE Inv' /\ TaskStep(t)
<1>1. CASE Runs(t, "app") /\ Becomes(Moved(cpu, "gateway"))
  BY <1>1, MovesInv DEF TaskPlaces, InCall
<1>2. CASE Runs(t, "gateway") /\ Becomes(Moved(cpu, "app"))
  BY <1>2, MovesInv DEF TaskPlaces, InCall
<1> QED BY <1>1, <1>2 DEF Gateway

LEMMA DropPrivilegeInv == ASSUME Inv, NEW t \in Tasks, DropPrivilege(t) PROVE Inv' /\ TaskStep(t)
<1> DEFINE c == [cpu EXCEPT !.npriv = TRUE]
<1>1. Runs(t, "app") /\ Becomes(c) /\ "app" \in TaskPlaces
  BY DEF DropPrivilege, TaskPlaces
<1>2. cpu \in Cpus /\ cpu.pc = At(t, "app") /\ cpu.regs = At(t, "app")
  BY <1>1, RunsFacts
<1>3. /\ c \in Cpus /\ c.pc = At(t, "app") /\ c.regs = At(t, "app")
      /\ c.psp = cpu.psp /\ c.psplim = cpu.psplim /\ c.mpu = cpu.mpu
      /\ c.primask = cpu.primask /\ c.npriv
  BY <1>2 DEF Cpus
<1> HIDE DEF c
<1>4. Privilege(t, mem[t], "app", c.npriv) /\ ~Trusts(mem[t], "app", c.npriv)
  BY <1>3 DEF Privilege, InCall, Trusts
<1> QED BY <1>1, <1>3, <1>4, BecomesInv

LEMMA YieldInv == ASSUME Inv, NEW t \in Tasks, Yield(t) PROVE Inv' /\ TaskStep(t)
<1> DEFINE c == [cpu EXCEPT !.pendsv = TRUE]
<1>1. PICK at \in {"app", "api"} : Runs(t, at)
  BY DEF Yield, Kernel
<1>2. Becomes(c) /\ at \in TaskPlaces
  BY <1>1 DEF Yield, TaskPlaces
<1>3. /\ cpu \in Cpus /\ cpu.pc = At(t, at) /\ cpu.regs = At(t, at)
      /\ Privilege(t, mem[t], at, cpu.npriv)
  BY <1>1, <1>2, RunsFacts
<1>4. /\ c \in Cpus /\ c.pc = At(t, at) /\ c.regs = At(t, at)
      /\ c.psp = cpu.psp /\ c.psplim = cpu.psplim /\ c.mpu = cpu.mpu
      /\ c.primask = cpu.primask /\ c.npriv = cpu.npriv
  BY <1>3 DEF Cpus
<1> HIDE DEF c
<1>5. at # "fresh" /\ (Trusts(mem[t], at, c.npriv) => Trusts(mem[t], at, cpu.npriv))
  BY <1>4
<1> QED BY <1>1, <1>2, <1>3, <1>4, <1>5, BecomesInv

(* The task running is not one that still has to be created.                *)
LEMMA CallFacts ==
  ASSUME Inv, NEW t \in Tasks, Runs(t, "api")
  PROVE  Call(t) = mem[t][1] /\ Call(t) \in CallCells /\ (Call(t).was => t \in MayBePrivileged)
<1>1. /\ cpu.psp = Pointer(t, Len(mem[t])) /\ Len(mem[t]) = Depth("api")
      /\ Privilege(t, mem[t], "api", cpu.npriv)
  BY RunsFacts DEF TaskPlaces
<1>2. cpu.psp.len = 1
  BY <1>1 DEF Pointer, Depth, InCall
<1> QED BY <1>1, <1>2 DEF Call, Privilege, InCall

LEMMA SystemCallInv ==
  ASSUME Inv, NEW t \in Tasks, NEW effect \in Effects, SystemCall(t, effect)
  PROVE  Inv' /\ TaskStep(t)
<1> DEFINE cell == CallCell(effect, IsPrivileged)
           to == IF IsPrivileged THEN "api" ELSE "raise"
           stack == Push(mem, cpu.psp, <<cell>>)
<1>1. /\ Runs(t, "app") /\ os.nesting = 0 /\ "app" \in TaskPlaces
      /\ mem' = [mem EXCEPT ![t] = stack]
      /\ cpu' = [Moved(cpu, to) EXCEPT !.psp.len = @ + 1]
      /\ UNCHANGED <<exc, os, monitor, fault>>
  BY DEF SystemCall, TaskPlaces
<1>2. /\ exc = << >> /\ Started /\ os.current = t /\ cpu \in Cpus /\ os \in Kernels
      /\ mem \in [Tasks -> Seq(Cells)]
      /\ cpu.pc.of = t /\ cpu.psp = Pointer(t, Len(mem[t])) /\ Len(mem[t]) = 0
      /\ Privilege(t, mem[t], "app", cpu.npriv) /\ (cpu.primask <=> os.nesting > 0)
      /\ \A u \in Created : os.settings[u].stack = u
  BY <1>1, RunsFacts DEF Depth, InCall
<1>3. cell \in Cells /\ cell \in CallCells /\ cell.was = ~cpu.npriv /\ <<cell>> \in Seq(Cells)
  <2>1. IsPrivileged \in BOOLEAN /\ IsPrivileged = ~cpu.npriv
    BY <1>2 DEF IsPrivileged, Cpus
  <2>2. cell \in Cells /\ cell \in CallCells
    BY <2>1, CellTypes
  <2> QED BY <2>1, <2>2 DEF CallCell
<1> HIDE DEF cell
<1>4. stack \in Seq(Cells) /\ Len(stack) = 1 /\ stack[1] = cell
  <2> DEFINE cells == <<cell>>
  <2>0. cells \in Seq(Cells) /\ cpu.psp = Pointer(t, Len(mem[t]))
    BY <1>2, <1>3
  <2> HIDE DEF cells
  <2>1. /\ Push(mem, cpu.psp, cells) \in Seq(Cells)
        /\ Len(Push(mem, cpu.psp, cells)) = Len(mem[t]) + Len(cells)
        /\ \A i \in 1..Len(cells) : Push(mem, cpu.psp, cells)[Len(mem[t]) + i] = cells[i]
    BY <1>2, <2>0, PushOnTop
  <2>2. Len(cells) = 1 /\ cells[1] = cell /\ stack = Push(mem, cpu.psp, cells)
    BY DEF cells
  <2> QED BY <1>2, <2>1, <2>2
<1> HIDE DEF stack
<1>5. /\ mem' \in [Tasks -> Seq(Cells)] /\ mem'[t] = stack
      /\ \A u \in Tasks \ {t} : mem'[u] = mem[u]
  BY <1>1, <1>2, <1>4
<1>6. /\ Moved(cpu, to) \in Cpus /\ Moved(cpu, to).psp = Pointer(t, 0)
      /\ Moved(cpu, to).pc = At(t, to) /\ Moved(cpu, to).regs = At(t, to)
      /\ Moved(cpu, to).psplim = cpu.psplim /\ Moved(cpu, to).mpu = cpu.mpu
      /\ Moved(cpu, to).npriv = cpu.npriv /\ Moved(cpu, to).primask = cpu.primask
  <2>1. to \in TaskPlaces
    BY DEF TaskPlaces
  <2> QED BY <1>2, <2>1, MovedFacts
<1>7. [Moved(cpu, to).psp EXCEPT !.len = @ + 1] = Pointer(t, 1) /\ Pointer(t, 1) \in Pointers
  BY <1>6 DEF Pointer, Pointers, Owners
<1>8. /\ cpu' \in Cpus /\ cpu'.psp = Pointer(t, 1)
      /\ cpu'.pc = At(t, to) /\ cpu'.regs = At(t, to)
      /\ cpu'.psplim = cpu.psplim /\ cpu'.mpu = cpu.mpu
      /\ cpu'.npriv = cpu.npriv /\ cpu'.primask = cpu.primask
  BY <1>1, <1>6, <1>7 DEF Cpus
<1>9. /\ Depth(to) = 1 /\ to \in TaskPlaces
      /\ Privilege(t, stack, to, cpu.npriv)
  BY <1>2, <1>3, <1>4 DEF Depth, TaskPlaces, InCall, Privilege, IsPrivileged
<1>9a. /\ to # "fresh" /\ cpu.pc.at = "app"
       /\ Trusts(stack, to, cpu.npriv) => Trusts(mem[t], "app", cpu.npriv)
  BY <1>1, <1>3, <1>4, RunsFacts DEF Trusts, InCall
<1> HIDE DEF to
<1>10. cpu'.pc.of = t /\ cpu'.pc.at = to /\ cpu'.regs = cpu'.pc
  BY <1>8 DEF At
<1>11. TaskMoves
  BY <1>1, <1>2, <1>4, <1>5, <1>8, <1>9, <1>9a, <1>10 DEF TaskMoves
<1> QED BY <1>2, <1>11, TaskMovesInv

LEMMA ResetPrivilegeInv == ASSUME Inv, NEW t \in Tasks, ResetPrivilege(t) PROVE Inv' /\ TaskStep(t)
<1> DEFINE next == Moved(cpu, "app")
           was == Call(t).was
<1>1. /\ Runs(t, "api") /\ os.nesting = 0 /\ "api" \in TaskPlaces
      /\ cpu' = [next EXCEPT !.npriv = @ \/ ~was, !.psp.len = @ - 1]
      /\ mem' = [mem EXCEPT ![t] = Front(@)]
      /\ UNCHANGED <<exc, os, monitor, fault>>
  BY DEF ResetPrivilege, TaskPlaces
<1>2. /\ exc = << >> /\ Started /\ os.current = t /\ cpu \in Cpus /\ os \in Kernels
      /\ mem \in [Tasks -> Seq(Cells)] /\ mem[t] \in Seq(Cells)
      /\ cpu.pc.of = t /\ cpu.psp = Pointer(t, Len(mem[t])) /\ Len(mem[t]) = 1
      /\ cpu.primask <=> os.nesting > 0
      /\ \A u \in Created : os.settings[u].stack = u
  BY <1>1, RunsFacts DEF Depth, InCall
<1>3. was \in BOOLEAN /\ (was => t \in MayBePrivileged)
  BY <1>1, CallFacts DEF CallCells
<1> HIDE DEF was
<1>4. mem[t] # << >> /\ Front(mem[t]) = << >> /\ << >> \in Seq(Cells) /\ Len(<< >>) = 0
  <2>1. << >> \in Seq(Cells) /\ Len(<< >>) = 0
    BY EmptySeq
  <2>2. mem[t] # << >>
    <3>1. mem[t] \in Seq(Cells) /\ Len(mem[t]) # 0
      BY <1>2
    <3> QED BY <3>1, HasSome
  <2> QED BY <1>2, <2>1, <2>2, FrontOf
<1>5. /\ mem' \in [Tasks -> Seq(Cells)] /\ Len(mem'[t]) = 0
      /\ \A u \in Tasks \ {t} : mem'[u] = mem[u]
  BY <1>1, <1>2, <1>4
<1>6. /\ next \in Cpus /\ next.psp = Pointer(t, 1)
      /\ next.pc = At(t, "app") /\ next.regs = At(t, "app")
      /\ next.psplim = cpu.psplim /\ next.mpu = cpu.mpu /\ next.primask = cpu.primask
  BY <1>2, MovedFacts DEF TaskPlaces
<1> HIDE DEF next
<1>7. [next.psp EXCEPT !.len = @ - 1] = Pointer(t, 0) /\ Pointer(t, 0) \in Pointers
  BY <1>6 DEF Pointer, Pointers, Owners
<1>8. /\ cpu' \in Cpus /\ cpu'.psp = Pointer(t, 0)
      /\ cpu'.pc = At(t, "app") /\ cpu'.regs = At(t, "app")
      /\ cpu'.psplim = cpu.psplim /\ cpu'.mpu = cpu.mpu /\ cpu'.primask = cpu.primask
      /\ cpu'.npriv = (next.npriv \/ ~was)
  BY <1>1, <1>3, <1>6, <1>7 DEF Cpus
<1>9. Depth("app") = 0 /\ "app" \in TaskPlaces /\ Privilege(t, mem'[t], "app", cpu'.npriv)
  BY <1>3, <1>8 DEF Depth, TaskPlaces, InCall, Privilege
<1>10. Trusts(mem'[t], "app", cpu'.npriv) => Trusts(mem[t], "api", cpu.npriv)
  BY <1>1, <1>8, CallFacts DEF Trusts, InCall, was
<1>11. cpu.pc.at = "api" /\ cpu'.pc.at = "app" /\ cpu'.pc.of = t
  BY <1>1, <1>8 DEF At, Runs
<1>12. TaskMoves
  BY <1>1, <1>2, <1>5, <1>8, <1>9, <1>10, <1>11 DEF TaskMoves
<1> QED BY <1>2, <1>12, TaskMovesInv

LEMMA EnterCriticalInv == ASSUME Inv, NEW t \in Tasks, EnterCritical(t) PROVE Inv' /\ TaskStep(t)
<1>1. PICK at \in {"app", "api"} : Runs(t, at)
  BY DEF EnterCritical, Kernel
<1>2. at \in TaskPlaces /\ at # "fresh"
  BY DEF TaskPlaces
<1>3. /\ cpu' = [cpu EXCEPT !.primask = TRUE] /\ os' = [os EXCEPT !.nesting = @ + 1]
      /\ UNCHANGED <<exc, mem, monitor, fault>>
  BY DEF EnterCritical, SetInterruptMask
<1>4. /\ exc = << >> /\ Started /\ os.current = t
      /\ cpu \in Cpus /\ os \in Kernels /\ mem \in [Tasks -> Seq(Cells)]
      /\ cpu.pc.of = t /\ cpu.pc.at = at /\ cpu.regs = cpu.pc
      /\ cpu.psp = Pointer(t, Len(mem[t])) /\ Len(mem[t]) = Depth(at)
      /\ Privilege(t, mem[t], at, cpu.npriv)
      /\ \A u \in Created : os.settings[u].stack = u
  BY <1>1, <1>2, RunsFacts
<1>5. /\ cpu' \in Cpus /\ cpu'.pc = cpu.pc /\ cpu'.regs = cpu.regs /\ cpu'.psp = cpu.psp
      /\ cpu'.psplim = cpu.psplim /\ cpu'.mpu = cpu.mpu /\ cpu'.npriv = cpu.npriv
      /\ cpu'.primask = TRUE
  BY <1>3, <1>4 DEF Cpus
<1>6. /\ os' \in Kernels /\ os'.current = os.current /\ os'.top = os.top
      /\ os'.secureContext = os.secureContext /\ os'.settings = os.settings
      /\ os'.nesting > 0
  <2>1. PICK n \in Nat : n = os.nesting
    BY <1>4 DEF Kernels
  <2>2. os' = [os EXCEPT !.nesting = n + 1] /\ n + 1 \in Nat /\ n + 1 > 0
    BY <1>3, <2>1
  <2> QED BY <1>4, <2>2 DEF Kernels
<1>7. TaskMoves
  BY <1>2, <1>3, <1>4, <1>5, <1>6 DEF TaskMoves
<1> QED BY <1>4, <1>7, TaskMovesInv

LEMMA ExitCriticalInv == ASSUME Inv, NEW t \in Tasks, ExitCritical(t) PROVE Inv' /\ TaskStep(t)
<1>1. PICK at \in {"app", "api"} : Runs(t, at)
  BY DEF ExitCritical, Kernel
<1>2. at \in TaskPlaces /\ at # "fresh"
  BY DEF TaskPlaces
<1>3. /\ os.nesting > 0 /\ os' = [os EXCEPT !.nesting = @ - 1]
      /\ cpu' = IF os'.nesting = 0 THEN [cpu EXCEPT !.primask = FALSE] ELSE cpu
      /\ UNCHANGED <<exc, mem, monitor, fault>>
  BY DEF ExitCritical, ClearInterruptMask, Unmasks
<1>4. /\ exc = << >> /\ Started /\ os.current = t
      /\ cpu \in Cpus /\ os \in Kernels /\ mem \in [Tasks -> Seq(Cells)]
      /\ cpu.pc.of = t /\ cpu.pc.at = at /\ cpu.regs = cpu.pc
      /\ cpu.psp = Pointer(t, Len(mem[t])) /\ Len(mem[t]) = Depth(at)
      /\ Privilege(t, mem[t], at, cpu.npriv)
      /\ cpu.primask <=> os.nesting > 0
      /\ \A u \in Created : os.settings[u].stack = u
  BY <1>1, <1>2, RunsFacts
<1>5. /\ os' \in Kernels /\ os'.current = os.current /\ os'.top = os.top
      /\ os'.secureContext = os.secureContext /\ os'.settings = os.settings
      /\ os'.nesting = os.nesting - 1 /\ os.nesting \in Nat
  <2>1. PICK n \in Nat : n = os.nesting
    BY <1>4 DEF Kernels
  <2>2. os' = [os EXCEPT !.nesting = n - 1] /\ n - 1 \in Nat
    BY <1>3, <2>1
  <2> QED BY <1>4, <2>1, <2>2 DEF Kernels
<1>6. /\ cpu' \in Cpus /\ cpu'.pc = cpu.pc /\ cpu'.regs = cpu.regs /\ cpu'.psp = cpu.psp
      /\ cpu'.psplim = cpu.psplim /\ cpu'.mpu = cpu.mpu /\ cpu'.npriv = cpu.npriv
      /\ cpu'.primask <=> os'.nesting > 0
  <2>1. CASE os'.nesting = 0
    <3>1. cpu' = [cpu EXCEPT !.primask = FALSE]
      BY <1>3, <2>1
    <3>2. /\ cpu' \in Cpus /\ cpu'.pc = cpu.pc /\ cpu'.regs = cpu.regs /\ cpu'.psp = cpu.psp
          /\ cpu'.psplim = cpu.psplim /\ cpu'.mpu = cpu.mpu /\ cpu'.npriv = cpu.npriv
          /\ ~cpu'.primask
      BY <1>4, <3>1 DEF Cpus
    <3> QED BY <2>1, <3>2
  <2>2. CASE os'.nesting # 0
    <3>1. os'.nesting > 0
      BY <1>3, <1>5, <2>2
    <3> QED BY <1>3, <1>4, <2>2, <3>1
  <2> QED BY <2>1, <2>2
<1>7. TaskMoves
  BY <1>2, <1>3, <1>4, <1>5, <1>6 DEF TaskMoves
<1> QED BY <1>4, <1>7, TaskMovesInv

LEMMA AllocateMPURegionsInv ==
  ASSUME Inv, NEW t \in Tasks, NEW u \in Tasks, NEW regions \in SUBSET Buffers,
         AllocateMPURegions(t, u, regions)
  PROVE  Inv' /\ TaskStep(t)
<1> DEFINE new == [stack |-> os.settings[u].stack, regions |-> regions]
<1>1. /\ Runs(t, "api") /\ "api" \in TaskPlaces /\ u \in Created
      /\ os' = [os EXCEPT !.settings[u] = new]
      /\ UNCHANGED <<cpu, exc, mem, monitor, fault>>
  BY DEF AllocateMPURegions, MPUSettings, TaskPlaces
<1>2. /\ exc = << >> /\ Started /\ os.current = t
      /\ cpu \in Cpus /\ os \in Kernels /\ mem \in [Tasks -> Seq(Cells)]
      /\ cpu.pc.of = t /\ cpu.pc.at = "api" /\ cpu.regs = cpu.pc
      /\ cpu.psp = Pointer(t, Len(mem[t])) /\ Len(mem[t]) = Depth("api")
      /\ Privilege(t, mem[t], "api", cpu.npriv)
      /\ cpu.primask <=> os.nesting > 0
      /\ \A v \in Created : os.settings[v].stack = v
  BY <1>1, RunsFacts
<1>3. new \in Settings /\ new.stack = u
  BY <1>1, <1>2 DEF Kernels, Settings
<1> HIDE DEF new
<1>4. /\ os' \in Kernels /\ os'.current = os.current /\ os'.top = os.top
      /\ os'.secureContext = os.secureContext /\ os'.nesting = os.nesting
      /\ os'.settings = [os.settings EXCEPT ![u] = new]
  BY <1>1, <1>2, <1>3 DEF Kernels
<1>5. \A v \in Created : os'.settings[v].stack = v
  BY <1>2, <1>3, <1>4 DEF Kernels, Created
<1>6. TaskMoves
  BY <1>1, <1>2, <1>4, <1>5 DEF TaskMoves
<1> QED BY <1>2, <1>6, TaskMovesInv

(* What pxPortInitialiseStack lays out is a saved context.                  *)
LEMMA InitialStackFacts ==
  ASSUME NEW t \in Tasks, NEW id \in Threads
  PROVE  LET s == InitialStack(t, id)
         IN  /\ s \in Seq(Cells) /\ Len(s) = 3
             /\ s[1] = FrameCell(At(t, "fresh")) /\ s[2] \in RegisterCells
             /\ s[3] \in ContextCells /\ s[3].secureContext = id /\ s[3].psplim = t
             /\ s[3].npriv = (t \notin Privileged) /\ s[3].ret = "thread"
<1>1. /\ At(t, "fresh") \in Codes /\ Nowhere \in Codes
      /\ RunPrivileged(t) \in BOOLEAN /\ "thread" \in Returns /\ t \in Owners
  BY DEF At, Codes, Nowhere, Owners, Places, TaskPlaces, RunPrivileged, Returns
<1> DEFINE c1 == FrameCell(At(t, "fresh"))
           c2 == RegistersCell(Nowhere)
           c3 == ContextCell(id, t, ~RunPrivileged(t), "thread")
<1>2. /\ c1 \in Cells /\ c2 \in Cells /\ c3 \in Cells
      /\ c2 \in RegisterCells /\ c3 \in ContextCells
  BY <1>1, CellTypes
<1>3. c3.secureContext = id /\ c3.psplim = t /\ c3.npriv = (t \notin Privileged) /\ c3.ret = "thread"
  BY DEF ContextCell, RunPrivileged
<1> HIDE DEF c1, c2, c3
<1>4. /\ <<c1, c2, c3>> \in Seq(Cells) /\ Len(<<c1, c2, c3>>) = 3
      /\ <<c1, c2, c3>>[1] = c1 /\ <<c1, c2, c3>>[2] = c2 /\ <<c1, c2, c3>>[3] = c3
  BY <1>2
<1>5. InitialStack(t, id) = <<c1, c2, c3>>
  BY DEF InitialStack, c1, c2, c3
<1> QED BY <1>2, <1>3, <1>4, <1>5 DEF c1

LEMMA FirstEntryFacts ==
  ASSUME NEW t \in Tasks
  PROVE  /\ FirstEntry(t) \in Entries /\ FirstEntry(t).ret = "thread"
         /\ FirstEntry(t).pc = At(t, "fresh") /\ FirstEntry(t).pc.of = t
         /\ FirstEntry(t).pc.at = "fresh" /\ FirstEntry(t).sp = Pointer(t, 1)
         /\ <<FirstEntry(t)>> \in Seq(Entries) /\ Len(<<FirstEntry(t)>>) = 1
         /\ <<FirstEntry(t)>> # << >> /\ <<FirstEntry(t)>>[1] = FirstEntry(t)
<1>1. At(t, "fresh") \in Codes /\ Pointer(t, 1) \in Pointers /\ "thread" \in Returns
  BY DEF At, Codes, Pointer, Pointers, Owners, Places, TaskPlaces, Returns
<1>2. FirstEntry(t) \in Entries
  BY <1>1 DEF FirstEntry, Entries
<1>3. /\ FirstEntry(t).ret = "thread" /\ FirstEntry(t).pc = At(t, "fresh")
      /\ FirstEntry(t).sp = Pointer(t, 1)
  BY DEF FirstEntry
<1>4. FirstEntry(t).pc.of = t /\ FirstEntry(t).pc.at = "fresh"
  BY <1>3 DEF At
<1> HIDE DEF FirstEntry
<1> QED BY <1>2, <1>3, <1>4

(* A new task is like one that was interrupted before its first step.       *)
LEMMA NewTaskStowed ==
  ASSUME NEW t \in Tasks, NEW id \in Threads,
         mem'[t] = InitialStack(t, id), os'.top[t] = Pointer(t, 3),
         monitor'.ses[id] = <<FirstEntry(t)>>, monitor'.sec[id] = << >>,
         id \in 1..(monitor'.next - 1), monitor'.cur # id
  PROVE  StowedAt(t)' /\ Id(t)' = id
<1>1. /\ Len(mem'[t]) = 3 /\ mem'[t][1] = FrameCell(At(t, "fresh")) /\ mem'[t][2] \in RegisterCells
      /\ Context(t)' = mem'[t][3] /\ Context(t)' \in ContextCells /\ Id(t)' = id
      /\ Context(t)'.psplim = t /\ Context(t)'.npriv = (t \notin Privileged)
      /\ Context(t)'.ret = "thread"
  BY InitialStackFacts DEF Context, Id
<1>2. /\ FirstOf(t)' = FirstEntry(t) /\ monitor'.ses[id] # << >> /\ Len(monitor'.ses[id]) = 1
      /\ FirstEntry(t).ret = "thread"
      /\ FirstEntry(t).pc = At(t, "fresh") /\ FirstEntry(t).pc.of = t
      /\ FirstEntry(t).pc.at = "fresh" /\ FirstEntry(t).sp = Pointer(t, 1)
  BY <1>1, FirstEntryFacts DEF FirstOf
<1>3. OnThreadStack(mem[t], FirstOf(t).pc)'
  BY <1>1, <1>2 DEF OnThreadStack, Depth, InCall
<1>4. Privilege(t, mem[t], FirstOf(t).pc.at, Context(t).npriv)'
  BY <1>1, <1>2 DEF Privilege, InCall, MayBePrivileged
<1>5. FirstOf(t)'.pc.at \in TaskPlaces
  BY <1>2 DEF TaskPlaces
<1>6. FirstOf(t)'.sp = Pointer(t, Len(mem'[t]) - 2)
  BY <1>1, <1>2
<1>7. Len(monitor'.ses[id]) = IF id = monitor'.cur THEN Len(exc') ELSE 1
  BY <1>2
<1>8. os'.top[t] = Pointer(t, Len(mem'[t])) /\ Len(mem'[t]) \in Nat \ {0}
  BY <1>1
<1>9. Context(t)'.ret \in {"thread", "secure"} /\ Context(t)'.ret # "secure"
  BY <1>1
<1>10. FirstOf(t)'.ret = Context(t)'.ret /\ FirstOf(t)'.pc.of = t
  BY <1>1, <1>2
<1> QED BY <1>1, <1>2, <1>3, <1>4, <1>5, <1>6, <1>7, <1>8, <1>9, <1>10 DEF StowedAt

(* There is a thread left for every task that still can be created.         *)
LEMMA ThreadLeft ==
  ASSUME Inv, NEW u \in Tasks, u \notin Created
  PROVE  /\ monitor.next \in Threads /\ monitor.next \in Nat /\ monitor.next > 0
         /\ Cardinality(Created \cup {u}) = monitor.next
<1>1. Created \cup {u} \in SUBSET Tasks /\ Created \in SUBSET Tasks
  BY DEF Created
<1>2. IsFiniteSet(Created) /\ Cardinality(Created) \in Nat
  BY <1>1, TasksAssumption, FS_Subset, FS_CardinalityType
<1>3. Cardinality(Created \cup {u}) = Cardinality(Created) + 1
  BY <1>2, FS_AddElement
<1>4. Cardinality(Created \cup {u}) <= Cardinality(Tasks) /\ Cardinality(Tasks) \in Nat
  BY <1>1, TasksAssumption, FS_Subset, FS_CardinalityType
<1>5. monitor.next = Cardinality(Created) + 1
  BY DEF Inv, Counted
<1> QED BY <1>2, <1>3, <1>4, <1>5 DEF Threads

LEMMA CreateTaskInv ==
  ASSUME Inv, NEW t \in Tasks, NEW u \in Tasks, NEW regions \in SUBSET Buffers,
         CreateTask(t, u, regions)
  PROVE  Inv' /\ Creates(u)
<1> DEFINE id == monitor.next
           new == MPUSettings(NoSettings, regions, u, 1)
<1>1. /\ Runs(t, "api") /\ "api" \in TaskPlaces /\ u \notin Created
      /\ mem' = [mem EXCEPT ![u] = InitialStack(u, id)]
      /\ os' = [os EXCEPT !.top[u] = Pointer(u, 3), !.settings[u] = new]
      /\ monitor' = [monitor EXCEPT !.next = @ + 1, !.ses[id] = <<FirstEntry(u)>>]
      /\ UNCHANGED <<cpu, exc, fault>>
  BY DEF CreateTask, TaskPlaces, AllocateContext, InitialTCB, NewThread
<1>2. /\ exc = << >> /\ Started /\ Live /\ os.current = t /\ t \in Created /\ t # u
      /\ cpu \in Cpus /\ os \in Kernels /\ mem \in [Tasks -> Seq(Cells)] /\ monitor \in Monitors
  BY <1>1, RunsFacts
<1>3. /\ id \in Threads /\ id \in Nat /\ id > 0 /\ Cardinality(Created \cup {u}) = id
      /\ monitor.cur \in 1..(id - 1) /\ monitor.cur \in Threads
  BY <1>1, <1>2, ThreadLeft, LiveFacts
<1>4. new \in Settings /\ new.stack = u
  BY DEF MPUSettings, Settings, Owners
<1>5. Pointer(u, 3) \in Pointers /\ Pointer(u, 3).len = 3
  BY DEF Pointer, Pointers, Owners
<1> HIDE DEF new
<1>6. /\ os' \in Kernels /\ os'.current = t /\ os'.secureContext = os.secureContext
      /\ os'.nesting = os.nesting
      /\ os'.top[u] = Pointer(u, 3) /\ os'.settings[u].stack = u
      /\ \A v \in Tasks \ {u} : os'.top[v] = os.top[v] /\ os'.settings[v] = os.settings[v]
  BY <1>1, <1>2, <1>4, <1>5 DEF Kernels
<1>7. /\ mem' \in [Tasks -> Seq(Cells)] /\ mem'[u] = InitialStack(u, id)
      /\ \A v \in Tasks \ {u} : mem'[v] = mem[v]
  BY <1>1, <1>2, <1>3, InitialStackFacts
<1>8. /\ monitor' \in Monitors /\ monitor'.cur = monitor.cur /\ monitor'.next = id + 1
      /\ monitor'.sec = monitor.sec /\ monitor'.ses[id] = <<FirstEntry(u)>>
      /\ \A i \in Threads \ {id} : monitor'.ses[i] = monitor.ses[i]
  <2> DEFINE first == <<FirstEntry(u)>>
  <2>1. first \in Seq(Entries)
    BY FirstEntryFacts
  <2>2. monitor' = [monitor EXCEPT !.next = id + 1, !.ses[id] = first] /\ id + 1 \in Nat
    BY <1>1, <1>3
  <2> HIDE DEF first
  <2>3. /\ monitor' \in Monitors /\ monitor'.cur = monitor.cur /\ monitor'.next = id + 1
        /\ monitor'.sec = monitor.sec /\ monitor'.ses[id] = first
        /\ \A i \in Threads \ {id} : monitor'.ses[i] = monitor.ses[i]
    BY <1>2, <1>3, <2>1, <2>2 DEF Monitors
  <2> QED BY <2>3 DEF first
<1>9. Created' = Created \cup {u}
  BY <1>5, <1>6 DEF Created
<1>10. Live' /\ Started'
  BY <1>1, <1>2 DEF Live, Phase, Started
<1>11. Away' = Away \cup {u}
  BY <1>1, <1>2, <1>6, <1>9, <1>10 DEF Away
<1>12. monitor.sec[id] = << >>
  BY <1>3 DEF Inv, Counted
<1>13. StowedAt(u)' /\ Id(u)' = id
  BY <1>3, <1>6, <1>7, <1>8, <1>12, NewTaskStowed
<1>14. \A v \in Away : StowedAt(v)' /\ Id(v)' = Id(v) /\ Id(v) \in 1..(id - 1)
  <2> SUFFICES ASSUME NEW v \in Away
               PROVE  StowedAt(v)' /\ Id(v)' = Id(v) /\ Id(v) \in 1..(id - 1)
    OBVIOUS
  <2>1. v \in Tasks /\ v # u /\ StowedAt(v) /\ Id(v) # monitor.cur /\ Id(v) \in Threads
    BY <1>1, <1>2, LiveFacts
  <2>2. Id(v) \in 1..(id - 1)
    BY <2>1 DEF StowedAt
  <2>3. Id(v) # id
    BY <1>3, <2>2
  <2>4. Kept(v)
    BY <1>1, <1>6, <1>7, <1>8, <2>1, <2>3 DEF Kept, StowedAt, FirstOf
  <2> QED BY <1>3, <1>8, <2>1, <2>2, <2>4, KeptStowed
<1>15. Stowed'
  BY <1>11, <1>13, <1>14 DEF Stowed
<1>16. Distinct'
  <2>1. \A v, w \in Away : Id(v)' = Id(w)' => v = w
    BY <1>14 DEF Inv, Distinct
  <2>2. \A v \in Away : Id(v)' # id
    BY <1>3, <1>14
  <2>3. \A v \in Away \cup {u} : Id(v)' # monitor'.cur
    BY <1>2, <1>3, <1>8, <1>13, <1>14, LiveFacts
  <2>4. \A i \in Threads : monitor'.sec[i] # << >> => i = monitor'.cur \/ \E v \in Away : Id(v)' = i
    BY <1>8, <1>14 DEF Inv, Distinct
  <2> QED BY <1>10, <1>11, <1>13, <2>1, <2>2, <2>3, <2>4 DEF Distinct
<1>17. Counted'
  <2>1. os'.current \in Created'
    BY <1>2, <1>6, <1>9
  <2>2. \A v \in Tasks \ Created' : mem'[v] = << >>
    BY <1>7, <1>9 DEF Inv, Counted
  <2>3. \A v \in Created' : os'.settings[v].stack = v
    <3> SUFFICES ASSUME NEW v \in Created' PROVE os'.settings[v].stack = v
      OBVIOUS
    <3>1. v \in Tasks /\ v \in Created \cup {u}
      BY <1>9 DEF Created
    <3> QED BY <1>6, <3>1 DEF Inv, Counted
  <2>4. monitor'.next = Cardinality(Created') + 1
    BY <1>3, <1>8, <1>9
  <2>5. \A i \in Threads : i >= monitor'.next => monitor'.ses[i] = << >> /\ monitor'.sec[i] = << >>
    <3> SUFFICES ASSUME NEW i \in Threads, i >= id + 1
                 PROVE  monitor'.ses[i] = << >> /\ monitor'.sec[i] = << >>
      BY <1>8
    <3>1. i # id /\ i >= monitor.next
      BY <1>3 DEF Threads
    <3> QED BY <1>8, <3>1 DEF Inv, Counted
  <2> QED BY <2>1, <2>2, <2>3, <2>4, <2>5 DEF Counted
<1>18. Typed' /\ ~fault' /\ Nested' /\ Masked'
  <2>1. Typed' /\ ~fault'
    BY <1>1, <1>6, <1>7, <1>8 DEF Inv, Typed
  <2>2. Nested'
    BY <1>1, <1>2, <1>10 DEF Nested
  <2>3. Masked'
    BY <1>1, <1>2, <1>6, <1>10 DEF Inv, Masked
  <2> QED BY <2>1, <2>2, <2>3
<1>19. monitor'.ses[monitor'.cur] = monitor.ses[monitor.cur]
  BY <1>3, <1>8
<1>20. Tracked'
  BY <1>1, <1>2, <1>3, <1>8, <1>10, <1>19 DEF Inv, Tracked
<1>21. Running'
  BY <1>1, <1>2, <1>6, <1>7, <1>8, <1>19 DEF Inv, Running
<1>22. Switching'
  BY <1>10 DEF Live, Switching
<1>23. \A v \in Away : Same(v)
  <2> SUFFICES ASSUME NEW v \in Away PROVE Same(v)
    OBVIOUS
  <2>1. v \in Tasks /\ v # u /\ v # t /\ StowedAt(v) /\ Id(v) # id /\ Id(v) \in Threads
    BY <1>1, <1>2, <1>3, <1>14, LiveFacts
  <2>2. Kept(v)
    BY <1>1, <1>2, <1>6, <1>7, <1>8, <2>1, LiveFacts DEF Kept, StowedAt, FirstOf
  <2> QED BY <1>2, <1>6, <2>1, <2>2, KeptSame
<1>24. Same(t)
  BY <1>1, <1>2, <1>6, <1>7, <1>10 DEF Same, Code, NPriv
<1>25. Code(u)'.at = "fresh"
  <2>1. FirstOf(u)' = FirstEntry(u)
    BY <1>8, <1>13, FirstEntryFacts DEF FirstOf
  <2>2. Code(u)' = FirstOf(u)'.pc
    BY <1>2, <1>6 DEF Code
  <2> QED BY <2>1, <2>2, FirstEntryFacts
<1>26. \A v \in Created : Same(v)
  BY <1>2, <1>23, <1>24, LiveFacts
<1>27. Creates(u)
  BY <1>1, <1>2, <1>6, <1>9, <1>25, <1>26 DEF Creates
<1> QED BY <1>15, <1>16, <1>17, <1>18, <1>20, <1>21, <1>22, <1>27 DEF Inv

----------------------------------------------------------------------------
(* Exceptions that come and go while others are active. *)

(* One thread's stacks are changed.                                         *)
Updated(new, m, i, a, b) == new = [m EXCEPT !.ses[i] = a, !.sec[i] = b]

LEMMA MonitorUpdate ==
  ASSUME NEW m \in Monitors, NEW i \in Threads, NEW a \in Seq(Entries), NEW b \in Seq(Secured),
         NEW new, Updated(new, m, i, a, b)
  PROVE  /\ new \in Monitors /\ new.cur = m.cur /\ new.next = m.next
         /\ new.ses[i] = a /\ new.sec[i] = b
         /\ \A j \in Threads \ {i} : new.ses[j] = m.ses[j] /\ new.sec[j] = m.sec[j]
<1>1. m.ses \in [Threads -> Seq(Entries)] /\ m.sec \in [Threads -> Seq(Secured)]
  BY DEF Monitors
<1>2. /\ [m.ses EXCEPT ![i] = a] \in [Threads -> Seq(Entries)]
      /\ [m.sec EXCEPT ![i] = b] \in [Threads -> Seq(Secured)]
  BY <1>1
<1>3. new = [m EXCEPT !.ses = [m.ses EXCEPT ![i] = a], !.sec = [m.sec EXCEPT ![i] = b]]
  BY DEF Updated
<1> QED BY <1>1, <1>2, <1>3 DEF Monitors

(* What is known of the active exceptions.                                  *)
LEMMA ActiveFacts ==
  ASSUME Inv, exc # << >>
  PROVE  /\ Started /\ exc \in Seq(Active) /\ Len(exc) \in Nat \ {0} /\ DOMAIN exc = 1..Len(exc)
         /\ monitor \in Monitors /\ monitor.cur \in Threads
         /\ monitor.cur \in 1..(monitor.next - 1) /\ monitor.next \in Nat
         /\ monitor.ses[monitor.cur] \in Seq(Entries) /\ monitor.ses[monitor.cur] # << >>
         /\ monitor.sec[monitor.cur] \in Seq(Secured)
         /\ Len(monitor.ses[monitor.cur]) = Len(exc)
         /\ exc[1].ret \in {"thread", "secure"} /\ exc[1] \in Active
         /\ os.nesting = 0 /\ cpu \in Cpus /\ ~cpu.primask
<1>1. Started /\ exc \in Seq(Active) /\ Len(exc) \in Nat \ {0} /\ DOMAIN exc = 1..Len(exc)
      /\ exc[1] \in Active /\ 1 \in DOMAIN exc
  BY TopOf DEF Inv, Nested, Typed
<1>2. exc[1].ret \in {"thread", "secure"}
  BY <1>1 DEF Inv, Nested
<1>3. /\ monitor \in Monitors /\ monitor.cur \in Threads /\ monitor.next \in Nat
      /\ monitor.ses[monitor.cur] \in Seq(Entries)
      /\ monitor.sec[monitor.cur] \in Seq(Secured)
  BY DEF Inv, Typed, Monitors
<1>4. Len(monitor.ses[monitor.cur]) = Len(exc) /\ monitor.cur \in 1..(monitor.next - 1)
  BY <1>1 DEF Inv, Tracked
<1>5. monitor.ses[monitor.cur] # << >>
  BY <1>1, <1>3, <1>4, HasSome
<1>6. os.nesting = 0 /\ cpu \in Cpus /\ ~cpu.primask
  BY <1>1 DEF Inv, Masked, Typed
<1> QED BY <1>1, <1>2, <1>3, <1>4, <1>5, <1>6

(* A handler goes on, or an interrupt comes or goes on top of another.      *)
Quiet ==
  /\ exc # << >> /\ exc' # << >>
  /\ exc'[1].kind = exc[1].kind /\ exc'[1].ret = exc[1].ret
  /\ exc[1].kind = "pendsv" => exc'[1].at = exc[1].at
  /\ UNCHANGED <<mem, os, fault>>
  /\ exc' \in Seq(Active) /\ cpu' \in Cpus /\ monitor' \in Monitors
  /\ cpu'.pc = cpu.pc /\ cpu'.regs = cpu.regs /\ cpu'.psp = cpu.psp /\ cpu'.psplim = cpu.psplim
  /\ cpu'.npriv = cpu.npriv /\ cpu'.primask = cpu.primask /\ cpu'.mpu = cpu.mpu
  /\ monitor'.cur = monitor.cur /\ monitor'.next = monitor.next /\ monitor'.sec = monitor.sec
  /\ \A i \in Threads \ {monitor.cur} : monitor'.ses[i] = monitor.ses[i]
  /\ monitor'.ses[monitor.cur] # << >>
  /\ monitor'.ses[monitor.cur][1] = monitor.ses[monitor.cur][1]
  /\ Len(monitor'.ses[monitor.cur]) = Len(exc')
  /\ \A k \in DOMAIN exc' \ {1} :
       /\ exc'[k].at \in Stages(exc'[k].kind) /\ exc'[k].kind = "irq"
       /\ exc'[k].ret \in ToHandlers
       /\ monitor'.ses[monitor.cur][k].ret = exc'[k].ret
       /\ monitor'.ses[monitor.cur][k].sp.len = k - 1
  /\ exc'[1].at \in Stages(exc'[1].kind)

LEMMA QuietInv ==
  ASSUME Inv, Quiet
  PROVE  Inv' /\ Idle
<1> USE DEF Quiet
<1>1. Started /\ Started' /\ monitor.cur \in 1..(monitor.next - 1) /\ monitor.cur \in Threads
  BY ActiveFacts DEF Started
<1>2. Phase' = Phase /\ Live' = Live
  BY <1>1 DEF Phase, Live
<1>3. Created' = Created /\ Away' = Away
  BY <1>2 DEF Created, Away
<1>4. \A t \in Away : Kept(t)
  <2> SUFFICES ASSUME NEW t \in Away PROVE Kept(t)
    OBVIOUS
  <2>1. StowedAt(t)
    BY DEF Inv, Stowed
  <2>2. Id(t) \in Threads
    BY <2>1 DEF StowedAt, Id, ContextCells
  <2>3. CASE Id(t) = monitor.cur
    BY <2>3 DEF Kept, FirstOf
  <2>4. CASE Id(t) # monitor.cur
    BY <2>1, <2>2, <2>4 DEF Kept, FirstOf, StowedAt
  <2> QED BY <2>3, <2>4
<1>5. /\ Stowed'
      /\ \A t \in Away : Id(t)' = Id(t) /\ Context(t)' = Context(t)
  BY <1>3, <1>4, AllKept
<1>6. Counted'
  <2>1. \A i \in Threads : i >= monitor.next => i # monitor.cur
    <3> SUFFICES ASSUME NEW i \in Threads, i >= monitor.next PROVE i # monitor.cur
      OBVIOUS
    <3>1. PICK n \in Nat : n = monitor.next
      BY ActiveFacts
    <3> QED BY <1>1, <3>1
  <2>2. \A i \in Threads : i >= monitor'.next => monitor'.ses[i] = << >> /\ monitor'.sec[i] = << >>
    BY <2>1 DEF Inv, Counted
  <2> QED BY <1>3, <2>2 DEF Inv, Counted
<1>7. Distinct'
  BY <1>2, <1>3, <1>5 DEF Inv, Distinct
<1>8. Typed' /\ ~fault' /\ Masked'
  BY <1>1 DEF Inv, Typed, Masked
<1>9. Nested'
  BY <1>1, ActiveFacts DEF Nested
<1>10. Tracked'
  BY <1>1 DEF Inv, Tracked
<1>11. Running'
  BY <1>2 DEF Inv, Running
<1>12. Switching'
  <2>1. Phase \in {"restored", "activating", "activated", "loaded"} => os.current \in Away
    BY DEF Inv, Counted, Away, Live
  <2>2. Phase # "main"
    <3>1. CASE exc[1].kind # "pendsv"
      BY <1>1, <3>1 DEF Phase
    <3>2. CASE exc[1].kind = "pendsv"
      <4>1. exc[1].at \in Stages("pendsv")
        BY <3>2, TopOf DEF Inv, Nested, Typed
      <4> QED BY <1>1, <3>2, <4>1 DEF Phase, Stages
    <3> QED BY <3>1, <3>2
  <2> QED BY <1>2, <1>5, <2>1, <2>2 DEF Inv, Switching
<1>13. \A t \in Created : Same(t)
  <2> SUFFICES ASSUME NEW t \in Created PROVE Same(t)
    OBVIOUS
  <2>1. CASE Live /\ t = os.current
    <3>1. Code(t) = cpu.pc /\ NPriv(t) = cpu.npriv /\ Code(t)' = cpu'.pc /\ NPriv(t)' = cpu'.npriv
      BY <1>2, <2>1 DEF Code, NPriv
    <3> QED BY <3>1 DEF Same
  <2>2. CASE ~(Live /\ t = os.current)
    <3>1. t \in Away /\ ~(Live /\ t = os.current)'
      BY <1>2, <2>2 DEF Away
    <3> QED BY <1>4, <2>2, <3>1, KeptSame
  <2> QED BY <2>1, <2>2
<1>14. Idle
  BY <1>3, <1>13 DEF Idle, AllSame
<1> QED BY <1>5, <1>6, <1>7, <1>8, <1>9, <1>10, <1>11, <1>12, <1>14 DEF Inv

(* InterruptHandler, SysTickHandler and their calls of the monitor.         *)
LEMMA HandlerInv ==
  ASSUME Inv, NEW kind \in {"irq", "systick"}, NEW from, NEW to \in {"start", "gateway", "done"},
         Handles(kind, from), Goes(to),
         NEW b \in BOOLEAN, cpu' = [cpu EXCEPT !.pendsv = @ \/ b],
         UNCHANGED <<mem, os, monitor, fault>>
  PROVE  Inv' /\ Idle
<1>1. exc # << >> /\ exc \in Seq(Active) /\ Last(exc).kind = kind
  BY DEF Handles, Inv, Typed
<1>2. PICK n \in Nat \ {0} : n = Len(exc) /\ DOMAIN exc = 1..n /\ exc[n].kind = kind
  BY <1>1, TopOf
<1>3. /\ exc' \in Seq(Active) /\ exc' # << >> /\ Len(exc') = n /\ DOMAIN exc' = 1..n
      /\ \A k \in 1..n : k # n => exc'[k] = exc[k]
      /\ exc'[n] = [exc[n] EXCEPT !.at = to]
  <2>1. to \in Moments
    BY DEF Moments
  <2> QED BY <1>1, <1>2, <2>1, GoesFacts
<1>4. exc[n] \in Active
  BY <1>1, <1>2
<1>5. /\ exc'[n].kind = exc[n].kind /\ exc'[n].ret = exc[n].ret /\ exc'[n].at = to
      /\ exc[n].kind # "pendsv" /\ to \in Stages(exc[n].kind)
  BY <1>2, <1>3, <1>4 DEF Active, Stages
<1>6. /\ exc'[1].kind = exc[1].kind /\ exc'[1].ret = exc[1].ret
      /\ exc[1].kind = "pendsv" => exc'[1].at = exc[1].at
      /\ exc'[1].at \in Stages(exc'[1].kind)
  <2>1. 1 \in 1..n /\ exc[1].at \in Stages(exc[1].kind)
    BY <1>2 DEF Inv, Nested
  <2>2. CASE n = 1
    BY <1>5, <2>2
  <2>3. CASE n # 1
    BY <1>3, <2>1, <2>3
  <2> QED BY <2>2, <2>3
<1>7. \A k \in DOMAIN exc' \ {1} :
        /\ exc'[k].at \in Stages(exc'[k].kind) /\ exc'[k].kind = "irq"
        /\ exc'[k].ret \in ToHandlers /\ monitor'.ses[monitor.cur][k].ret = exc'[k].ret
        /\ monitor'.ses[monitor.cur][k].sp.len = k - 1
  <2> SUFFICES ASSUME NEW k \in 1..n, k # 1
               PROVE  /\ exc'[k].at \in Stages(exc'[k].kind) /\ exc'[k].kind = "irq"
                      /\ exc'[k].ret \in ToHandlers /\ monitor'.ses[monitor.cur][k].ret = exc'[k].ret
                      /\ monitor'.ses[monitor.cur][k].sp.len = k - 1
    BY <1>3
  <2>1. /\ exc[k].at \in Stages(exc[k].kind) /\ exc[k].kind = "irq" /\ exc[k].ret \in ToHandlers
        /\ monitor'.ses[monitor.cur][k].ret = exc[k].ret
        /\ monitor'.ses[monitor.cur][k].sp.len = k - 1
    BY <1>2 DEF Inv, Nested, Tracked
  <2>2. CASE k = n
    BY <1>5, <2>1, <2>2
  <2>3. CASE k # n
    BY <1>3, <2>1, <2>3
  <2> QED BY <2>2, <2>3
<1>8. /\ cpu' \in Cpus /\ cpu'.pc = cpu.pc /\ cpu'.regs = cpu.regs /\ cpu'.psp = cpu.psp
      /\ cpu'.psplim = cpu.psplim /\ cpu'.npriv = cpu.npriv /\ cpu'.primask = cpu.primask
      /\ cpu'.mpu = cpu.mpu
  <2>1. cpu \in Cpus /\ cpu.pendsv \in BOOLEAN /\ (cpu.pendsv \/ b) \in BOOLEAN
    BY DEF Inv, Typed, Cpus
  <2> QED BY <2>1 DEF Cpus
<1>9. Quiet
  BY <1>1, <1>2, <1>3, <1>6, <1>7, <1>8, ActiveFacts DEF Quiet, Inv, Tracked
<1> QED BY <1>9, QuietInv

(* An interrupt of a handler, or of a Secure function it calls.             *)
LEMMA EnterHandlerFacts ==
  ASSUME Typed, NEW kind \in Kinds, MayTake(kind), Enter(kind), exc # << >>
  PROVE  /\ kind = "irq" /\ ~fault /\ ReturnKind \in ToHandlers
         /\ Entry \in Entries /\ Entry.ret = ReturnKind /\ Entry.sp.len = Len(exc)
         /\ Len(exc) \in Nat \ {0} /\ exc' \in Seq(Active) /\ exc' # << >>
         /\ Len(exc') = Len(exc) + 1 /\ DOMAIN exc' = 1..(Len(exc) + 1)
         /\ \A k \in 1..Len(exc) : exc'[k] = exc[k]
         /\ exc'[Len(exc) + 1] = [kind |-> "irq", at |-> "start", ret |-> ReturnKind]
         /\ UNCHANGED <<mem, os, fault>>
         /\ cpu' \in Cpus /\ cpu'.pc = cpu.pc /\ cpu'.regs = cpu.regs /\ cpu'.psp = cpu.psp
         /\ cpu'.psplim = cpu.psplim /\ cpu'.npriv = cpu.npriv /\ cpu'.primask = cpu.primask
         /\ cpu'.mpu = cpu.mpu
         /\ monitor' \in Monitors /\ monitor'.cur = monitor.cur
         /\ monitor'.next = monitor.next /\ monitor'.sec = monitor.sec
         /\ monitor'.ses[monitor.cur] = Recorded(monitor.ses[monitor.cur])
         /\ \A i \in Threads \ {monitor.cur} : monitor'.ses[i] = monitor.ses[i]
<1> DEFINE x == [kind |-> kind, at |-> "start", ret |-> ReturnKind]
           e == [ret |-> ReturnKind, pc |-> At(NoTask, Last(exc).kind), sp |-> Pointer(NoTask, Len(exc))]
           s == monitor.ses[monitor.cur]
           b == monitor.sec[monitor.cur]
<1>1. ReturnKind \in ToHandlers /\ kind = "irq" /\ ~fault
  BY DEF ReturnKind, MayTake, ToHandlers
<1>2. Entry = e
  BY <1>1 DEF Entry, ToHandlers
<1>3. PICK n \in Nat \ {0} : n = Len(exc) /\ DOMAIN exc = 1..n /\ Last(exc) = exc[n]
                             /\ exc[n] \in Active
  BY TopOf DEF Typed
<1>4. x \in Active
  BY <1>1 DEF Active, Kinds, Moments, Returns
<1>5. e \in Entries /\ e.ret = ReturnKind /\ e.sp.len = n
  <2>1. At(NoTask, exc[n].kind) \in Codes /\ Pointer(NoTask, n) \in Pointers
    BY <1>3 DEF Active, At, Codes, Owners, Places, Pointer, Pointers
  <2> QED BY <1>1, <1>3, <2>1 DEF Entries, Returns, Pointer
<1>6. ReturnKind # "thread" /\ ReturnKind # "secure"
  BY <1>1 DEF ToHandlers
<1>7. /\ exc' = Append(exc, x) /\ mem' = mem /\ os' = os /\ fault' = fault
      /\ cpu' = [cpu EXCEPT !.psp = cpu.psp, !.regs = cpu.regs,
                            !.pendsv = cpu.pendsv /\ kind # "pendsv"]
      /\ Updated(monitor', monitor, monitor.cur, Recorded(s), b)
  BY <1>6 DEF Enter, Updated
<1> HIDE DEF x, e
<1>8. /\ exc' \in Seq(Active) /\ exc' # << >> /\ DOMAIN exc' = 1..(n + 1) /\ Len(exc') = n + 1
      /\ \A k \in 1..n : exc'[k] = exc[k]
      /\ exc'[n + 1] = x
  BY <1>3, <1>4, <1>7, Appended DEF Typed
<1>9. monitor \in Monitors /\ monitor.cur \in Threads /\ s \in Seq(Entries) /\ b \in Seq(Secured)
  BY DEF Typed, Monitors
<1> HIDE DEF s, b
<1>10. Recorded(s) \in Seq(Entries)
  <2>1. Recorded(s) = s \/ Recorded(s) = Append(s, e)
    BY <1>2 DEF Recorded
  <2> QED BY <1>5, <1>9, <2>1, Appended
<1>11. /\ monitor' \in Monitors /\ monitor'.cur = monitor.cur /\ monitor'.next = monitor.next
       /\ monitor'.ses[monitor.cur] = Recorded(s) /\ monitor'.sec[monitor.cur] = b
       /\ \A i \in Threads \ {monitor.cur} :
            monitor'.ses[i] = monitor.ses[i] /\ monitor'.sec[i] = monitor.sec[i]
  BY <1>7, <1>9, <1>10, MonitorUpdate
<1>12. monitor'.sec = monitor.sec
  <2>1. monitor'.sec \in [Threads -> Seq(Secured)] /\ monitor.sec \in [Threads -> Seq(Secured)]
    BY <1>9, <1>11 DEF Monitors
  <2>2. \A i \in Threads : monitor'.sec[i] = monitor.sec[i]
    BY <1>11 DEF b
  <2> QED BY <2>1, <2>2
<1>13. /\ cpu' \in Cpus /\ cpu'.pc = cpu.pc /\ cpu'.regs = cpu.regs /\ cpu'.psp = cpu.psp
       /\ cpu'.psplim = cpu.psplim /\ cpu'.npriv = cpu.npriv /\ cpu'.primask = cpu.primask
       /\ cpu'.mpu = cpu.mpu
  <2>1. cpu \in Cpus /\ (cpu.pendsv /\ kind # "pendsv") \in BOOLEAN
    BY DEF Typed, Cpus
  <2> QED BY <1>7, <2>1 DEF Cpus
<1> QED BY <1>1, <1>2, <1>3, <1>5, <1>7, <1>8, <1>11, <1>12, <1>13 DEF s, x

(* It is recorded, as a rule.                                               *)
LEMMA RecordedInv ==
  ASSUME Inv, NEW kind \in Kinds, MayTake(kind), Enter(kind), exc # << >>,
         Recorded(monitor.ses[monitor.cur]) = Append(monitor.ses[monitor.cur], Entry)
  PROVE  Inv' /\ Idle
<1> DEFINE s == monitor.ses[monitor.cur]
<1>1. PICK n \in Nat \ {0} : n = Len(exc) /\ DOMAIN exc = 1..n
  BY ActiveFacts
<1>2. Typed
  BY DEF Inv
<1>3. /\ kind = "irq" /\ ReturnKind \in ToHandlers
      /\ Entry \in Entries /\ Entry.ret = ReturnKind /\ Entry.sp.len = n
      /\ exc' \in Seq(Active) /\ exc' # << >> /\ Len(exc') = n + 1 /\ DOMAIN exc' = 1..(n + 1)
      /\ \A k \in 1..n : exc'[k] = exc[k]
      /\ exc'[n + 1] = [kind |-> "irq", at |-> "start", ret |-> ReturnKind]
      /\ monitor'.ses[monitor.cur] = Append(s, Entry)
  BY <1>1, <1>2, EnterHandlerFacts
<1>4. /\ Append(s, Entry) # << >> /\ Len(Append(s, Entry)) = n + 1
      /\ \A k \in 1..n : Append(s, Entry)[k] = s[k]
      /\ Append(s, Entry)[n + 1] = Entry
  <2>1. s \in Seq(Entries) /\ Len(s) = n
    BY <1>1, ActiveFacts
  <2> HIDE DEF s
  <2> QED BY <1>3, <2>1, Appended
<1>5. \A k \in DOMAIN exc' \ {1} :
        /\ exc'[k].at \in Stages(exc'[k].kind) /\ exc'[k].kind = "irq"
        /\ exc'[k].ret \in ToHandlers
        /\ monitor'.ses[monitor.cur][k].ret = exc'[k].ret
        /\ monitor'.ses[monitor.cur][k].sp.len = k - 1
  <2> SUFFICES ASSUME NEW k \in 2..(n + 1)
               PROVE  /\ exc'[k].at \in Stages(exc'[k].kind) /\ exc'[k].kind = "irq"
                      /\ exc'[k].ret \in ToHandlers
                      /\ monitor'.ses[monitor.cur][k].ret = exc'[k].ret
                      /\ monitor'.ses[monitor.cur][k].sp.len = k - 1
    <3>1. \A k \in DOMAIN exc' \ {1} : k \in 2..(n + 1)
      BY <1>3
    <3> QED BY <3>1
  <2>1. CASE k = n + 1
    BY <1>3, <1>4, <2>1 DEF Stages
  <2>2. CASE k # n + 1
    <3>1. k \in 1..n /\ k # 1 /\ k \in DOMAIN exc
      BY <1>1, <2>2
    <3>2. exc'[k] = exc[k] /\ monitor'.ses[monitor.cur][k] = s[k]
      BY <1>3, <1>4, <3>1
    <3> QED BY <3>1, <3>2 DEF Inv, Nested, Tracked
  <2> QED BY <2>1, <2>2
<1>6. 1 \in 1..n /\ 1 \in DOMAIN exc
  BY <1>1
<1>7. exc'[1] = exc[1] /\ exc'[1].at \in Stages(exc'[1].kind)
  BY <1>3, <1>6 DEF Inv, Nested
<1>8. monitor'.ses[monitor.cur][1] = monitor.ses[monitor.cur][1]
  BY <1>3, <1>4, <1>6
<1>9. Quiet
  BY <1>2, <1>3, <1>4, <1>5, <1>7, <1>8, EnterHandlerFacts DEF Quiet
<1> QED BY <1>9, QuietInv

(* What no task sees.                                                       *)
Hidden ==
  /\ exc # << >> /\ exc' # << >>
  /\ UNCHANGED <<mem, os>> /\ monitor'.sec = monitor.sec /\ cpu'.npriv = cpu.npriv

(* Otherwise it comes on top of a frame in a Secure stack.                  *)
LEMMA UnrecordedMissed ==
  ASSUME Typed, Started, NEW kind \in Kinds, MayTake(kind), Enter(kind), exc # << >>,
         \A k \in DOMAIN exc \ {1} : exc[k].kind = "irq",
         NEW s, s = monitor.ses[monitor.cur], NEW m \in Nat \ {0}, m = Len(s),
         IsDummy(s[m].ret), IsDummy(ReturnKind),
         s[m].ret \in ToHandlers => s[m].sp.len < Len(exc)
  PROVE  Missed'
<1> USE DEF IsDummy
<1>1. PICK n \in Nat \ {0} : n = Len(exc) /\ DOMAIN exc = 1..n
  BY TopOf DEF Typed
<1>2. m = Len(s) /\ m \in DOMAIN s /\ s # << >> /\ Last(s) = s[m]
  <2>1. s \in Seq(Entries)
    BY DEF Typed, Monitors
  <2>2. s # << >>
    BY ONLY <2>1, m \in Nat \ {0}, m = Len(s), HasSome
  <2> QED BY ONLY <2>1, <2>2, m = Len(s), TopOf
<1>3. /\ ~fault /\ exc' # << >> /\ Len(exc') = n + 1 /\ DOMAIN exc' = 1..(n + 1)
      /\ \A k \in 1..n : exc'[k] = exc[k]
      /\ exc'[n + 1] = [kind |-> "irq", at |-> "start", ret |-> ReturnKind]
      /\ ReturnKind \in ToHandlers /\ fault' = fault /\ monitor'.cur = monitor.cur
      /\ monitor'.ses[monitor.cur] = Recorded(s) /\ cpu'.pc = cpu.pc
  BY <1>1, EnterHandlerFacts
<1>4. ReturnKind = "secure_handler" /\ Recorded(s) = s
  BY <1>2, <1>3 DEF Recorded, ToHandlers
<1>5. Typed' /\ Started'
  BY <1>3, EnterHandlerFacts DEF Typed, Started
<1>6. \A k \in DOMAIN exc' \ {1} : exc'[k].kind = "irq"
  <2> SUFFICES ASSUME NEW k \in 2..(n + 1) PROVE exc'[k].kind = "irq"
    BY <1>3
  <2>1. CASE k = n + 1
    BY <1>3, <2>1
  <2>2. CASE k # n + 1
    <3>1. k \in 1..n /\ k \in DOMAIN exc \ {1}
      BY <1>1, <2>2
    <3> QED BY <1>3, <3>1
  <2> QED BY <2>1, <2>2
<1>7. Matches(exc', s, n + 1, m)
  <2>1. exc'[n + 1].ret = "secure_handler"
    BY <1>3, <1>4
  <2>2. IsDummy(s[m].ret)
    BY <1>2
  <2>3. s[m].ret \in ToHandlers => s[m].sp.len < n + 1 - 1
    BY <1>1, <1>2
  <2>4. Len(s) - m = Len(exc') - (n + 1)
    BY <1>2, <1>3
  <2>5. \A k \in (n + 1 + 1)..Len(exc') : FALSE
    BY <1>3
  <2> QED BY <2>1, <2>2, <2>3, <2>4, <2>5 DEF Matches
<1>8. n + 1 \in DOMAIN exc' \ {1} /\ m \in DOMAIN s /\ n + 1 = Len(exc')
  BY <1>2, <1>3
<1> QED BY <1>3, <1>4, <1>5, <1>6, <1>7, <1>8 DEF Missed

LEMMA EnterHandlerInv ==
  ASSUME Inv, NEW kind \in Kinds, MayTake(kind), Enter(kind), exc # << >>
  PROVE  (Inv' /\ Idle) \/ (Missed' /\ Hidden)
<1> DEFINE s == monitor.ses[monitor.cur]
<1>1. PICK n \in Nat \ {0} : /\ n = Len(exc) /\ DOMAIN exc = 1..n /\ Len(s) = n
                             /\ s # << >> /\ Last(s) = s[n] /\ Started
  <2>1. /\ Len(exc) \in Nat \ {0} /\ DOMAIN exc = 1..Len(exc) /\ Len(s) = Len(exc) /\ Started
        /\ s \in Seq(Entries) /\ s # << >>
    BY ActiveFacts
  <2> HIDE DEF s
  <2>2. Last(s) = s[Len(s)]
    BY <2>1, TopOf
  <2> QED BY <2>1, <2>2
<1>2. Typed /\ \A k \in DOMAIN exc \ {1} : exc[k].kind = "irq"
  BY DEF Inv, Nested
<1>3. CASE IsDummy(s[n].ret) /\ IsDummy(ReturnKind)
  <2>1. s[n].ret \in ToHandlers => s[n].sp.len < n
    <3>1. CASE n = 1
      BY <3>1 DEF Inv, Tracked, ToHandlers
    <3>2. CASE n # 1
      BY <1>1, <3>2 DEF Inv, Tracked
    <3> QED BY <3>1, <3>2
  <2>2. Hidden
    BY <1>2, EnterHandlerFacts DEF Hidden
  <2> HIDE DEF s
  <2>3. s = monitor.ses[monitor.cur]
    BY DEF s
  <2> QED BY <1>1, <1>2, <1>3, <2>1, <2>2, <2>3, UnrecordedMissed
<1>4. CASE ~(IsDummy(s[n].ret) /\ IsDummy(ReturnKind))
  <2>1. Recorded(s) = Append(s, Entry)
    BY <1>1, <1>4 DEF Recorded
  <2> QED BY <2>1, RecordedInv
<1> QED BY <1>3, <1>4

----------------------------------------------------------------------------
(* An exception of thread code. *)

LEMMA Single ==
  ASSUME NEW S, NEW e \in S
  PROVE  /\ Append(<< >>, e) \in Seq(S) /\ Append(<< >>, e) # << >> /\ Len(Append(<< >>, e)) = 1
         /\ DOMAIN Append(<< >>, e) = {1} /\ Append(<< >>, e)[1] = e
<1>1. << >> \in Seq(S) /\ Len(<< >>) = 0
  BY EmptySeq
<1>2. /\ Append(<< >>, e) \in Seq(S) /\ Append(<< >>, e) # << >>
      /\ Len(Append(<< >>, e)) = 0 + 1 /\ DOMAIN Append(<< >>, e) = 1..(0 + 1)
      /\ Append(<< >>, e)[0 + 1] = e
  BY <1>1, Appended
<1> QED BY <1>2

LEMMA ThreadFacts ==
  ASSUME Inv, exc = << >>, Started
  PROVE  LET t == os.current
         IN  /\ Live /\ t \in Tasks /\ t \in Created /\ cpu \in Cpus /\ cpu.pc \in Codes
             /\ cpu.pc.of = t /\ cpu.pc.at \in TaskPlaces
             /\ mem \in [Tasks -> Seq(Cells)] /\ mem[t] \in Seq(Cells)
             /\ cpu.psp = Pointer(t, Len(mem[t])) /\ Len(mem[t]) = Depth(cpu.pc.at)
             /\ Privilege(t, mem[t], cpu.pc.at, cpu.npriv)
             /\ cpu.psplim = t /\ cpu.mpu.stack = t /\ os.secureContext = monitor.cur
             /\ cpu.pc.at # "fresh" => cpu.regs = cpu.pc
             /\ monitor \in Monitors /\ monitor.cur \in Threads
             /\ monitor.cur \in 1..(monitor.next - 1)
             /\ monitor.ses[monitor.cur] = << >> /\ monitor.sec[monitor.cur] = << >>
             /\ \A u \in Created : os.settings[u].stack = u
<1>1. Live
  BY DEF Live, Phase
<1>2. /\ os.current \in Tasks /\ os.current \in Created /\ cpu \in Cpus /\ cpu.pc \in Codes
      /\ mem \in [Tasks -> Seq(Cells)]
      /\ mem[os.current] \in Seq(Cells) /\ monitor \in Monitors /\ monitor.cur \in Threads
      /\ monitor.cur \in 1..(monitor.next - 1)
  BY <1>1, LiveFacts DEF Inv, Typed, Cpus
<1>3. monitor.ses[monitor.cur] = << >>
  <2>1. monitor.ses[monitor.cur] \in Seq(Entries) /\ Len(monitor.ses[monitor.cur]) = Len(exc)
    BY <1>2 DEF Monitors, Inv, Tracked
  <2>2. Len(exc) = 0
    BY EmptySeq
  <2> QED BY <2>1, <2>2, HasSome
<1>4. \A u \in Created : os.settings[u].stack = u
  BY DEF Inv, Counted
<1> QED BY <1>1, <1>2, <1>3, <1>4 DEF Inv, Running

LEMMA EnterThreadInv ==
  ASSUME Inv, NEW kind \in Kinds, MayTake(kind), Enter(kind), exc = << >>,
         cpu.pc.at \notin SecureCode
  PROVE  Inv' /\ Idle
<1> DEFINE t == os.current
           cur == monitor.cur
           d == Depth(cpu.pc.at)
           x == [kind |-> kind, at |-> "start", ret |-> "thread"]
           e == [ret |-> "thread", pc |-> cpu.pc, sp |-> Pointer(t, d + 1)]
           cells == <<FrameCell(cpu.pc)>>
           stack == Push(mem, cpu.psp, cells)
<1>1. Started /\ ~cpu.primask
  BY DEF MayTake
<1>2. /\ Live /\ t \in Tasks /\ t \in Created /\ cpu \in Cpus /\ cpu.pc \in Codes
      /\ cpu.pc.of = t /\ cpu.pc.at \in TaskPlaces
      /\ mem \in [Tasks -> Seq(Cells)]
      /\ cpu.psp = Pointer(t, Len(mem[t])) /\ Len(mem[t]) = d
      /\ Privilege(t, mem[t], cpu.pc.at, cpu.npriv)
      /\ cpu.psplim = t /\ cpu.mpu.stack = t /\ os.secureContext = cur
      /\ cpu.pc.at # "fresh" => cpu.regs = cpu.pc
      /\ monitor \in Monitors /\ cur \in Threads /\ cur \in 1..(monitor.next - 1)
      /\ monitor.ses[cur] = << >> /\ monitor.sec[cur] = << >>
      /\ \A u \in Created : os.settings[u].stack = u
  BY <1>1, ThreadFacts
<1>3. d \in {0, 1} /\ d + 1 \in Nat
  BY DEF Depth
<1>4. ReturnKind = "thread" /\ Entry = e
  BY <1>2 DEF ReturnKind, Entry, Pointer
<1>5. /\ exc' = Append(exc, x)
      /\ cpu' = [cpu EXCEPT !.psp = Pointer(t, d + 1), !.regs = cpu.regs,
                            !.pendsv = cpu.pendsv /\ kind # "pendsv"]
      /\ mem' = [mem EXCEPT ![t] = stack]
      /\ monitor' = [monitor EXCEPT !.ses[cur] = Append(monitor.ses[cur], e),
                                    !.sec[cur] = monitor.sec[cur]]
      /\ UNCHANGED <<os, fault>>
  BY <1>2, <1>4 DEF Enter, Recorded, Pointer
<1>6. x \in Active /\ e \in Entries /\ Pointer(t, d + 1) \in Pointers
  BY <1>2, <1>3 DEF Active, Entries, Kinds, Moments, Returns, Pointer, Pointers, Owners
<1>7. x.kind = kind /\ x.at = "start" /\ x.ret = "thread"
      /\ e.ret = "thread" /\ e.pc = cpu.pc /\ e.sp = Pointer(t, d + 1)
  OBVIOUS
<1> HIDE DEF x, e
<1>8. /\ stack \in Seq(Cells) /\ Len(stack) = d + 1 /\ stack[d + 1] = FrameCell(cpu.pc)
      /\ d = 1 => stack[1] = mem[t][1]
  <2>1. FrameCell(cpu.pc) \in Cells
    BY <1>2, CellTypes
  <2>2. cells \in Seq(Cells) /\ Len(cells) = 1 /\ cells[1] = FrameCell(cpu.pc)
    BY <2>1
  <2> HIDE DEF cells
  <2>3. LET new == Push(mem, Pointer(t, Len(mem[t])), cells)
        IN  /\ new \in Seq(Cells) /\ Len(new) = Len(mem[t]) + Len(cells)
            /\ \A i \in 1..Len(mem[t]) : new[i] = mem[t][i]
            /\ \A i \in 1..Len(cells) : new[Len(mem[t]) + i] = cells[i]
    BY <1>2, <2>2, PushOnTop
  <2>4. stack = Push(mem, Pointer(t, Len(mem[t])), cells)
    BY <1>2
  <2>5. Len(mem[t]) = d
    BY <1>2
  <2> HIDE DEF stack, d
  <2>6. stack \in Seq(Cells) /\ Len(stack) = d + 1
    BY <2>2, <2>3, <2>4, <2>5
  <2>7. stack[d + 1] = FrameCell(cpu.pc)
    BY <2>2, <2>3, <2>4, <2>5
  <2>8. d = 1 => stack[1] = mem[t][1]
    BY <2>3, <2>4, <2>5
  <2> QED BY <2>6, <2>7, <2>8
<1> HIDE DEF stack, cells
<1>9. /\ mem' \in [Tasks -> Seq(Cells)] /\ mem'[t] = stack
      /\ \A u \in Tasks \ {t} : mem'[u] = mem[u]
  BY <1>2, <1>5, <1>8
<1>10. /\ exc' \in Seq(Active) /\ exc' # << >> /\ Len(exc') = 1 /\ DOMAIN exc' = {1}
       /\ exc'[1] = x
  BY <1>5, <1>6, Single
<1>11. /\ monitor' \in Monitors /\ monitor'.cur = cur /\ monitor'.next = monitor.next
       /\ monitor'.ses[cur] = Append(<< >>, e) /\ monitor'.sec[cur] = << >>
       /\ \A i \in Threads \ {cur} :
            monitor'.ses[i] = monitor.ses[i] /\ monitor'.sec[i] = monitor.sec[i]
  <2> DEFINE a == Append(<< >>, e)
             b == << >>
  <2>1. a \in Seq(Entries) /\ b \in Seq(Secured) /\ Updated(monitor', monitor, cur, a, b)
    BY <1>2, <1>5, <1>6, Single DEF Updated
  <2> HIDE DEF a, b
  <2>2. /\ monitor' \in Monitors /\ monitor'.cur = cur /\ monitor'.next = monitor.next
        /\ monitor'.ses[cur] = a /\ monitor'.sec[cur] = b
        /\ \A i \in Threads \ {cur} :
             monitor'.ses[i] = monitor.ses[i] /\ monitor'.sec[i] = monitor.sec[i]
    BY <1>2, <2>1, MonitorUpdate
  <2> QED BY <2>2 DEF a, b
<1>12. Len(monitor'.ses[cur]) = 1 /\ monitor'.ses[cur][1] = e
  BY <1>6, <1>11, Single
<1>13. /\ cpu' \in Cpus /\ cpu'.pc = cpu.pc /\ cpu'.regs = cpu.regs
       /\ cpu'.psp = Pointer(t, d + 1) /\ cpu'.psplim = cpu.psplim /\ cpu'.npriv = cpu.npriv
       /\ cpu'.primask = cpu.primask /\ cpu'.mpu = cpu.mpu
  <2>1. (cpu.pendsv /\ kind # "pendsv") \in BOOLEAN
    BY <1>2 DEF Cpus
  <2> QED BY <1>2, <1>5, <1>6, <2>1 DEF Cpus
<1>14. Live' /\ Started'
  BY <1>1, <1>7, <1>10, <1>13 DEF Live, Phase, Started
<1>15. Private
  BY <1>2, <1>5, <1>9, <1>11 DEF Private
<1>16. Typed' /\ ~fault'
  BY <1>5, <1>9, <1>10, <1>11, <1>13 DEF Inv, Typed
<1>17. Nested'
  BY <1>7, <1>10, <1>14 DEF Nested, Kinds, Stages
<1>18. Masked'
  <2>1. os.nesting = 0
    BY <1>1 DEF Inv, Masked, Typed, Kernels
  <2> QED BY <1>1, <1>5, <1>13, <2>1 DEF Masked
<1>19. Tracked'
  BY <1>2, <1>7, <1>10, <1>11, <1>12, <1>14 DEF Tracked
<1>20. Privilege(t, stack, cpu.pc.at, cpu.npriv)
  BY <1>2, <1>8 DEF Privilege, Depth
<1>21. Running'
  BY <1>2, <1>3, <1>5, <1>7, <1>8, <1>9, <1>10, <1>11, <1>12, <1>13, <1>20 DEF Running
<1>22. /\ cpu'.pc = cpu.pc /\ cpu'.npriv = cpu.npriv /\ os'.nesting = os.nesting
       /\ d = 1 => mem'[t][1] = mem[t][1]
  BY <1>5, <1>8, <1>9, <1>13
<1> QED BY <1>2, <1>14, <1>15, <1>16, <1>17, <1>18, <1>19, <1>21, <1>22, PrivateIdle

LEMMA EnterSecureInv ==
  ASSUME Inv, NEW kind \in Kinds, MayTake(kind), Enter(kind), exc = << >>,
         cpu.pc.at \in SecureCode
  PROVE  Inv' /\ Idle
<1> DEFINE t == os.current
           cur == monitor.cur
           d == Depth(cpu.pc.at)
           x == [kind |-> kind, at |-> "start", ret |-> "secure"]
           e == [ret |-> "secure", pc |-> cpu.pc, sp |-> Pointer(NoTask, 1)]
           r == [pc |-> cpu.pc, regs |-> cpu.regs]
<1>1. Started /\ ~cpu.primask
  BY DEF MayTake
<1>2. /\ Live /\ t \in Tasks /\ t \in Created /\ cpu \in Cpus /\ cpu.pc \in Codes
      /\ cpu.pc.of = t /\ cpu.pc.at \in TaskPlaces
      /\ mem \in [Tasks -> Seq(Cells)]
      /\ cpu.psp = Pointer(t, Len(mem[t])) /\ Len(mem[t]) = d
      /\ Privilege(t, mem[t], cpu.pc.at, cpu.npriv)
      /\ cpu.psplim = t /\ cpu.mpu.stack = t /\ os.secureContext = cur
      /\ cpu.pc.at # "fresh" => cpu.regs = cpu.pc
      /\ monitor \in Monitors /\ cur \in Threads /\ cur \in 1..(monitor.next - 1)
      /\ monitor.ses[cur] = << >> /\ monitor.sec[cur] = << >>
      /\ \A u \in Created : os.settings[u].stack = u
  BY <1>1, ThreadFacts
<1>3. cpu.regs = cpu.pc
  BY <1>2 DEF SecureCode
<1>4. ReturnKind = "secure" /\ Entry = e
  <2>1. SecureDepth = 0
    BY <1>2, EmptySeq DEF SecureDepth
  <2> QED BY <1>2, <2>1 DEF ReturnKind, Entry
<1>5. /\ exc' = Append(exc, x)
      /\ cpu' = [cpu EXCEPT !.psp = cpu.psp, !.regs = Nowhere,
                            !.pendsv = cpu.pendsv /\ kind # "pendsv"]
      /\ mem' = mem
      /\ monitor' = [monitor EXCEPT !.ses[cur] = Append(monitor.ses[cur], e),
                                    !.sec[cur] = Append(monitor.sec[cur], r)]
      /\ UNCHANGED <<os, fault>>
  BY <1>2, <1>4 DEF Enter, Recorded
<1>6. x \in Active /\ e \in Entries /\ r \in Secured /\ Nowhere \in Codes
  <2>1. Pointer(NoTask, 1) \in Pointers /\ Nowhere \in Codes
    BY DEF Pointer, Pointers, Owners, Nowhere, At, Codes, Places
  <2> QED BY <1>2, <1>3, <2>1 DEF Active, Entries, Secured, Kinds, Moments, Returns
<1>7. /\ x.kind = kind /\ x.at = "start" /\ x.ret = "secure"
      /\ e.ret = "secure" /\ e.pc = cpu.pc /\ e.sp = Pointer(NoTask, 1)
      /\ r = [pc |-> cpu.pc, regs |-> cpu.pc]
  BY <1>3
<1> HIDE DEF x, e, r
<1>8. /\ exc' \in Seq(Active) /\ exc' # << >> /\ Len(exc') = 1 /\ DOMAIN exc' = {1}
      /\ exc'[1] = x
  BY <1>5, <1>6, Single
<1>9. /\ monitor' \in Monitors /\ monitor'.cur = cur /\ monitor'.next = monitor.next
      /\ monitor'.ses[cur] = Append(<< >>, e) /\ monitor'.sec[cur] = Append(<< >>, r)
      /\ \A i \in Threads \ {cur} :
           monitor'.ses[i] = monitor.ses[i] /\ monitor'.sec[i] = monitor.sec[i]
  <2> DEFINE a == Append(<< >>, e)
             b == Append(<< >>, r)
  <2>1. a \in Seq(Entries) /\ b \in Seq(Secured) /\ Updated(monitor', monitor, cur, a, b)
    BY <1>2, <1>5, <1>6, Single DEF Updated
  <2> HIDE DEF a, b
  <2>2. /\ monitor' \in Monitors /\ monitor'.cur = cur /\ monitor'.next = monitor.next
        /\ monitor'.ses[cur] = a /\ monitor'.sec[cur] = b
        /\ \A i \in Threads \ {cur} :
             monitor'.ses[i] = monitor.ses[i] /\ monitor'.sec[i] = monitor.sec[i]
    BY <1>2, <2>1, MonitorUpdate
  <2> QED BY <2>2 DEF a, b
<1>10. /\ Len(monitor'.ses[cur]) = 1 /\ monitor'.ses[cur][1] = e
       /\ monitor'.sec[cur] = <<r>>
  BY <1>6, <1>9, Single
<1>11. /\ cpu' \in Cpus /\ cpu'.pc = cpu.pc
       /\ cpu'.psp = cpu.psp /\ cpu'.psplim = cpu.psplim /\ cpu'.npriv = cpu.npriv
       /\ cpu'.primask = cpu.primask /\ cpu'.mpu = cpu.mpu
  <2>1. (cpu.pendsv /\ kind # "pendsv") \in BOOLEAN /\ cpu.psp \in Pointers
    BY <1>2 DEF Cpus
  <2> QED BY <1>2, <1>5, <1>6, <2>1 DEF Cpus
<1>12. Live' /\ Started'
  BY <1>1, <1>7, <1>8, <1>11 DEF Live, Phase, Started
<1>13. Private
  BY <1>2, <1>5, <1>9 DEF Private
<1>14. Typed' /\ ~fault'
  BY <1>5, <1>8, <1>9, <1>11 DEF Inv, Typed
<1>15. Nested'
  BY <1>7, <1>8, <1>12 DEF Nested, Kinds, Stages
<1>16. Masked'
  <2>1. os.nesting = 0
    BY <1>1 DEF Inv, Masked, Typed, Kernels
  <2> QED BY <1>1, <1>5, <1>11, <2>1 DEF Masked
<1>17. Tracked'
  BY <1>2, <1>7, <1>8, <1>9, <1>10, <1>12 DEF Tracked
<1>18. Running'
  BY <1>2, <1>5, <1>7, <1>8, <1>9, <1>10, <1>11 DEF Running
<1>19. /\ cpu'.pc = cpu.pc /\ cpu'.npriv = cpu.npriv /\ os'.nesting = os.nesting /\ mem' = mem
  BY <1>5, <1>11
<1> QED BY <1>2, <1>12, <1>13, <1>14, <1>15, <1>16, <1>17, <1>18, <1>19, PrivateIdle

LEMMA EnterInv ==
  ASSUME Inv, NEW kind \in Kinds, MayTake(kind), Enter(kind)
  PROVE  (Inv' /\ Idle) \/ (Missed' /\ Hidden)
<1>1. CASE exc # << >>
  BY <1>1, EnterHandlerInv
<1>2. CASE exc = << >> /\ cpu.pc.at \in SecureCode
  BY <1>2, EnterSecureInv
<1>3. CASE exc = << >> /\ cpu.pc.at \notin SecureCode
  BY <1>3, EnterThreadInv
<1> QED BY <1>1, <1>2, <1>3

----------------------------------------------------------------------------
(* The return from an exception. *)

(* What a return to thread code with a frame on its own stack does ...      *)
ReturnedToThread(c, m, active, t, n, e) ==
  /\ exc' = Front(active)
  /\ cpu' = [c EXCEPT !.pc = e.pc, !.psp = Pointer(t, n)]
  /\ mem' = [mem EXCEPT ![t] = SubSeq(mem[t], 1, n)]
  /\ Updated(monitor', m, m.cur, Front(m.ses[m.cur]), m.sec[m.cur])
  /\ fault' = fault

LEMMA ReturnThread ==
  ASSUME NEW c, NEW m, NEW active, Return(c, m, active), m.ses[m.cur] # << >>,
         NEW e, e = Last(m.ses[m.cur]), e.ret = "thread", Len(active) = 1,
         NEW t, NEW n \in Nat, c.psp = Pointer(t, n + 1), e.sp = Pointer(t, n + 1),
         mem[t][n + 1] = FrameCell(e.pc)
  PROVE  ReturnedToThread(c, m, active, t, n, e)
<1>1. c.psp.of = t /\ c.psp.len = n + 1 /\ c.psp.len - 1 = n
  BY DEF Pointer
<1>2. Intact(c, m, e, Len(active) - 1)
  BY <1>1 DEF Intact
<1>3. /\ exc' = Front(active)
      /\ cpu' = [c EXCEPT !.pc = e.pc, !.psp.len = @ - 1]
      /\ mem' = [mem EXCEPT ![t] = SubSeq(@, 1, c.psp.len - 1)]
      /\ monitor' = [m EXCEPT !.ses[m.cur] = Front(@), !.sec[m.cur] = @]
      /\ fault' = fault
  BY <1>1, <1>2 DEF Return
<1>4. [c.psp EXCEPT !.len = @ - 1] = Pointer(t, n)
  BY DEF Pointer
<1>5. Updated(monitor', m, m.cur, Front(m.ses[m.cur]), m.sec[m.cur])
  BY <1>3 DEF Updated
<1> QED BY <1>1, <1>3, <1>4, <1>5 DEF ReturnedToThread

(* ... a return to Secure code ...                                          *)
ReturnedToSecure(c, m, active, e) ==
  /\ exc' = Front(active)
  /\ cpu' = [c EXCEPT !.pc = e.pc, !.regs = Last(m.sec[m.cur]).regs]
  /\ mem' = [mem EXCEPT ![c.psp.of] = SubSeq(mem[c.psp.of], 1, c.psp.len)]
  /\ Updated(monitor', m, m.cur, Front(m.ses[m.cur]), Front(m.sec[m.cur]))
  /\ fault' = fault

LEMMA ReturnSecure ==
  ASSUME NEW c, NEW m, NEW active, Return(c, m, active), m.ses[m.cur] # << >>,
         NEW e, e = Last(m.ses[m.cur]), e.ret = "secure", Len(active) = 1,
         e.sp.len = Len(m.sec[m.cur]), Last(m.sec[m.cur]).pc = e.pc
  PROVE  ReturnedToSecure(c, m, active, e)
<1>1. Intact(c, m, e, Len(active) - 1)
  BY DEF Intact
<1>2. /\ exc' = Front(active)
      /\ cpu' = [c EXCEPT !.pc = e.pc, !.regs = Last(m.sec[m.cur]).regs]
      /\ mem' = [mem EXCEPT ![c.psp.of] = SubSeq(@, 1, c.psp.len)]
      /\ monitor' = [m EXCEPT !.ses[m.cur] = Front(@), !.sec[m.cur] = Front(@)]
      /\ fault' = fault
  BY <1>1 DEF Return
<1> QED BY <1>2 DEF ReturnedToSecure, Updated

(* ... and a return to another handler.                                     *)
LEMMA ReturnHandler ==
  ASSUME NEW c, NEW m, NEW active, Return(c, m, active), m.ses[m.cur] # << >>,
         NEW e, e = Last(m.ses[m.cur]), e.ret \in ToHandlers,
         Len(active) - 1 > 0, e.sp.len = Len(active) - 1
  PROVE  /\ exc' = Front(active) /\ cpu' = c /\ mem' = mem /\ fault' = fault
         /\ Updated(monitor', m, m.cur, Front(m.ses[m.cur]), m.sec[m.cur])
<1>1. Intact(c, m, e, Len(active) - 1)
  BY DEF Intact, ToHandlers
<1>2. /\ exc' = Front(active) /\ cpu' = c /\ mem' = mem
      /\ monitor' = [m EXCEPT !.ses[m.cur] = Front(@), !.sec[m.cur] = @]
      /\ fault' = fault
  BY <1>1 DEF Return, ToHandlers
<1> QED BY <1>2 DEF Updated

LEMMA ReturnToHandlerFacts ==
  ASSUME Typed, Return(cpu, monitor, exc), NEW n \in Nat, n = Len(exc), n > 1,
         NEW s, s = monitor.ses[monitor.cur], s # << >>, NEW e, e = Last(s),
         e.ret \in ToHandlers, e.sp.len = n - 1
  PROVE  /\ exc' \in Seq(Active) /\ exc' # << >> /\ Len(exc') = n - 1 /\ DOMAIN exc' = 1..(n - 1)
         /\ \A k \in 1..(n - 1) : exc'[k] = exc[k]
         /\ UNCHANGED <<cpu, mem, fault>>
         /\ monitor' \in Monitors /\ monitor'.cur = monitor.cur
         /\ monitor'.next = monitor.next /\ monitor'.sec = monitor.sec
         /\ monitor'.ses[monitor.cur] = Front(s) /\ Len(Front(s)) = Len(s) - 1
         /\ Len(s) \in Nat \ {0} /\ \A k \in 1..(Len(s) - 1) : Front(s)[k] = s[k]
         /\ \A i \in Threads \ {monitor.cur} : monitor'.ses[i] = monitor.ses[i]
<1>1. /\ exc \in Seq(Active) /\ s \in Seq(Entries)
      /\ monitor \in Monitors /\ monitor.cur \in Threads
      /\ monitor.sec[monitor.cur] \in Seq(Secured)
  BY DEF Typed, Monitors
<1>2. exc # << >>
  BY <1>1, HasSome
<1>3. /\ exc' = Front(exc) /\ cpu' = cpu /\ mem' = mem /\ fault' = fault
      /\ Updated(monitor', monitor, monitor.cur, Front(s), monitor.sec[monitor.cur])
  <2>1. Len(exc) - 1 > 0 /\ e.sp.len = Len(exc) - 1
    OBVIOUS
  <2> QED BY <2>1, ReturnHandler
<1>4. /\ exc' \in Seq(Active) /\ Len(exc') = n - 1 /\ DOMAIN exc' = 1..(n - 1)
      /\ \A k \in 1..(n - 1) : exc'[k] = exc[k]
  BY <1>1, <1>2, <1>3, FrontOf
<1>5. exc' # << >>
  BY <1>4, HasSome
<1>6. /\ Front(s) \in Seq(Entries) /\ Len(Front(s)) = Len(s) - 1 /\ Len(s) \in Nat \ {0}
      /\ \A k \in 1..(Len(s) - 1) : Front(s)[k] = s[k]
  BY <1>1, FrontOf
<1>7. /\ monitor' \in Monitors /\ monitor'.cur = monitor.cur /\ monitor'.next = monitor.next
      /\ monitor'.ses[monitor.cur] = Front(s)
      /\ monitor'.sec[monitor.cur] = monitor.sec[monitor.cur]
      /\ \A i \in Threads \ {monitor.cur} :
           monitor'.ses[i] = monitor.ses[i] /\ monitor'.sec[i] = monitor.sec[i]
  BY <1>1, <1>3, <1>6, MonitorUpdate
<1>8. monitor'.sec = monitor.sec
  <2>1. monitor'.sec \in [Threads -> Seq(Secured)] /\ monitor.sec \in [Threads -> Seq(Secured)]
    BY <1>1, <1>7 DEF Monitors
  <2>2. \A i \in Threads : monitor'.sec[i] = monitor.sec[i]
    BY <1>7
  <2> QED BY <2>1, <2>2
<1> QED BY <1>3, <1>4, <1>5, <1>6, <1>7, <1>8

LEMMA ReturnToHandlerInv ==
  ASSUME Inv, Return(cpu, monitor, exc), os' = os, Len(exc) > 1
  PROVE  Inv' /\ Idle
<1> DEFINE s == monitor.ses[monitor.cur]
           e == Last(s)
<1>0. Len(exc) \in Nat \ {0} /\ exc # << >>
  <2>1. exc \in Seq(Active)
    BY DEF Inv, Typed
  <2>2. Len(exc) # 0
    OBVIOUS
  <2> QED BY <2>1, <2>2, HasSome, TopOf
<1>1. PICK n \in Nat : n = Len(exc) /\ n > 1 /\ n \in 1..n /\ n # 1 /\ DOMAIN exc = 1..n
  <2>1. PICK n \in Nat : n = Len(exc)
    BY <1>0
  <2>2. n > 1 /\ n \in 1..n /\ n # 1
    BY <2>1
  <2>3. DOMAIN exc = 1..n
    BY <1>0, <2>1, ActiveFacts
  <2> QED BY <2>1, <2>2, <2>3
<1>2. /\ s \in Seq(Entries) /\ s # << >> /\ Len(s) = n /\ e = s[n]
      /\ monitor \in Monitors /\ monitor.cur \in Threads
      /\ monitor.sec[monitor.cur] \in Seq(Secured)
  BY <1>0, <1>1, ActiveFacts DEF Last
<1>3. e.ret \in ToHandlers /\ e.sp.len = n - 1
  BY <1>1, <1>2 DEF Inv, Nested, Tracked
<1>4. /\ exc' \in Seq(Active) /\ exc' # << >> /\ Len(exc') = n - 1 /\ DOMAIN exc' = 1..(n - 1)
      /\ \A k \in 1..(n - 1) : exc'[k] = exc[k]
      /\ UNCHANGED <<cpu, mem, fault>>
      /\ monitor' \in Monitors /\ monitor'.cur = monitor.cur
      /\ monitor'.next = monitor.next /\ monitor'.sec = monitor.sec
      /\ monitor'.ses[monitor.cur] = Front(s) /\ Len(Front(s)) = n - 1
      /\ \A k \in 1..(n - 1) : Front(s)[k] = s[k]
      /\ \A i \in Threads \ {monitor.cur} : monitor'.ses[i] = monitor.ses[i]
  <2>1. Typed
    BY DEF Inv
  <2> HIDE DEF e
  <2>2. e = Last(s) /\ s = monitor.ses[monitor.cur]
    BY DEF e
  <2> HIDE DEF s
  <2> QED BY <1>1, <1>2, <1>3, <2>1, <2>2, ReturnToHandlerFacts
<1> HIDE DEF e
<1>5. Front(s) # << >> /\ 1 \in 1..(n - 1)
  <2>1. n - 1 # 0 /\ 1 \in 1..(n - 1)
    BY <1>1
  <2>2. Front(s) \in Seq(Entries)
    BY <1>2, FrontOf
  <2> HIDE DEF s
  <2> QED BY <1>4, <2>1, <2>2, HasSome
<1>6. \A k \in DOMAIN exc' \ {1} :
        /\ exc'[k].at \in Stages(exc'[k].kind) /\ exc'[k].kind = "irq"
        /\ exc'[k].ret \in ToHandlers
        /\ monitor'.ses[monitor.cur][k].ret = exc'[k].ret
        /\ monitor'.ses[monitor.cur][k].sp.len = k - 1
  <2> SUFFICES ASSUME NEW k \in 1..(n - 1), k # 1
               PROVE  /\ exc'[k].at \in Stages(exc'[k].kind) /\ exc'[k].kind = "irq"
                      /\ exc'[k].ret \in ToHandlers
                      /\ monitor'.ses[monitor.cur][k].ret = exc'[k].ret
                      /\ monitor'.ses[monitor.cur][k].sp.len = k - 1
    BY <1>4
  <2>1. k \in DOMAIN exc /\ exc'[k] = exc[k] /\ monitor'.ses[monitor.cur][k] = s[k]
    BY <1>1, <1>4
  <2> QED BY <2>1 DEF Inv, Nested, Tracked
<1>7. exc'[1] = exc[1] /\ exc'[1].at \in Stages(exc'[1].kind)
  <2>1. 1 \in DOMAIN exc
    BY <1>1
  <2> QED BY <1>4, <1>5, <2>1 DEF Inv, Nested
<1>8. monitor'.ses[monitor.cur][1] = monitor.ses[monitor.cur][1]
  BY <1>4, <1>5
<1>9. Quiet
  BY <1>0, <1>4, <1>5, <1>6, <1>7, <1>8 DEF Quiet, Inv, Typed
<1> QED BY <1>9, QuietInv

(* The task that was interrupted goes on.                                   *)
GoesOn ==
  LET t == os.current
  IN  /\ exc # << >> /\ exc' = << >> /\ os' = os /\ fault' = fault
      /\ cpu' \in Cpus /\ cpu'.pc = cpu.pc /\ cpu'.psplim = cpu.psplim /\ cpu'.npriv = cpu.npriv
      /\ cpu'.primask = cpu.primask /\ cpu'.mpu = cpu.mpu
      /\ cpu.pc.at # "fresh" => cpu'.regs = cpu.pc
      /\ mem' \in [Tasks -> Seq(Cells)] /\ \A u \in Tasks \ {t} : mem'[u] = mem[u]
      /\ Len(mem'[t]) = Depth(cpu.pc.at) /\ cpu'.psp = Pointer(t, Depth(cpu.pc.at))
      /\ Depth(cpu.pc.at) = 1 => mem'[t][1] = mem[t][1]
      /\ Updated(monitor', monitor, monitor.cur, << >>, << >>)

LEMMA GoesOnInv ==
  ASSUME Inv, Live, GoesOn
  PROVE  Inv' /\ Idle
<1> USE DEF GoesOn
<1>1. /\ Started /\ os.current \in Tasks /\ os.nesting = 0 /\ ~cpu.primask
      /\ monitor \in Monitors /\ monitor.cur \in Threads
      /\ monitor.cur \in 1..(monitor.next - 1)
  BY LiveFacts, ActiveFacts
<1>2. /\ monitor' \in Monitors /\ monitor'.cur = monitor.cur /\ monitor'.next = monitor.next
      /\ monitor'.ses[monitor.cur] = << >> /\ monitor'.sec[monitor.cur] = << >>
      /\ \A i \in Threads \ {monitor.cur} :
           monitor'.ses[i] = monitor.ses[i] /\ monitor'.sec[i] = monitor.sec[i]
  <2> DEFINE a == << >>
             b == << >>
  <2>1. a \in Seq(Entries) /\ b \in Seq(Secured) /\ Updated(monitor', monitor, monitor.cur, a, b)
    BY EmptySeq
  <2> HIDE DEF a, b
  <2>2. /\ monitor' \in Monitors /\ monitor'.cur = monitor.cur /\ monitor'.next = monitor.next
        /\ monitor'.ses[monitor.cur] = a /\ monitor'.sec[monitor.cur] = b
        /\ \A i \in Threads \ {monitor.cur} :
             monitor'.ses[i] = monitor.ses[i] /\ monitor'.sec[i] = monitor.sec[i]
    BY <1>1, <2>1, MonitorUpdate
  <2> QED BY <2>2 DEF a, b
<1>3. Live' /\ Started'
  BY <1>1 DEF Live, Phase, Started
<1>4. \A u \in Created : os.settings[u].stack = u
  BY DEF Inv, Counted
<1>5. Private
  BY <1>2, <1>4 DEF Private
<1>6. << >> \in Seq(Active) /\ Len(exc') = 0 /\ DOMAIN exc' = {}
  BY EmptySeq
<1>7. Typed' /\ ~fault'
  BY <1>2, <1>6 DEF Inv, Typed
<1>8. Nested' /\ Masked'
  BY <1>1, <1>3, <1>6 DEF Nested, Masked
<1>9. Tracked'
  <2>1. Len(monitor'.ses[monitor'.cur]) = Len(exc')
    BY <1>2
  <2> QED BY <1>1, <1>2, <1>3, <1>6, <2>1 DEF Tracked
<1>10. Running'
  <2>1. Privilege(os.current, mem'[os.current], cpu.pc.at, cpu.npriv)
    BY DEF Inv, Running, Privilege, Depth
  <2>2. /\ os.secureContext = monitor.cur /\ cpu.psplim = os.current
        /\ cpu.mpu.stack = os.current /\ cpu.pc.of = os.current /\ cpu.pc.at \in TaskPlaces
    BY DEF Inv, Running
  <2> QED BY <1>2, <2>1, <2>2 DEF Running
<1> QED BY <1>3, <1>5, <1>7, <1>8, <1>9, <1>10, PrivateIdle

LEMMA ReturnToThreadInv ==
  ASSUME Inv, Live, Return(cpu, monitor, exc), os' = os, Len(exc) = 1, exc[1].ret = "thread"
  PROVE  Inv' /\ Idle
<1> DEFINE t == os.current
           d == Depth(cpu.pc.at)
           s == monitor.ses[monitor.cur]
           e == Last(s)
<1>1. exc \in Seq(Active) /\ exc # << >>
  <2>1. exc \in Seq(Active) /\ Len(exc) # 0
    BY DEF Inv, Typed
  <2> QED BY <2>1, HasSome
<1>2. /\ s \in Seq(Entries) /\ s # << >> /\ Len(s) = 1 /\ e = s[1] /\ t \in Tasks
      /\ cpu \in Cpus /\ mem \in [Tasks -> Seq(Cells)] /\ mem[t] \in Seq(Cells)
  BY <1>1, ActiveFacts, LiveFacts DEF Last, Inv, Typed
<1>3. /\ cpu.psp = Pointer(t, d + 1) /\ Len(mem[t]) = d + 1 /\ mem[t][d + 1] = FrameCell(cpu.pc)
      /\ e.ret = "thread" /\ e.pc = cpu.pc /\ e.sp = Pointer(t, d + 1)
      /\ monitor.sec[monitor.cur] = << >>
      /\ cpu.pc.at # "fresh" => cpu.regs = cpu.pc
  BY <1>1, <1>2 DEF Inv, Running
<1>4. d \in {0, 1}
  BY DEF Depth
<1> HIDE DEF d, e
<1>5. ReturnedToThread(cpu, monitor, exc, t, d, e)
  <2>1. e = Last(monitor.ses[monitor.cur])
    BY DEF e
  <2>2. d \in Nat
    BY <1>4
  <2> QED BY <1>2, <1>3, <2>1, <2>2, ReturnThread
<1>6. /\ exc' = Front(exc) /\ cpu' = [cpu EXCEPT !.pc = cpu.pc, !.psp = Pointer(t, d)]
      /\ mem' = [mem EXCEPT ![t] = SubSeq(mem[t], 1, d)]
      /\ Updated(monitor', monitor, monitor.cur, Front(s), monitor.sec[monitor.cur])
      /\ fault' = fault
  BY <1>3, <1>5 DEF ReturnedToThread
<1>7. exc' = << >> /\ Front(s) = << >>
  BY <1>1, <1>2, <1>6, FrontOf
<1>8. /\ cpu' \in Cpus /\ cpu'.pc = cpu.pc /\ cpu'.regs = cpu.regs /\ cpu'.psplim = cpu.psplim
      /\ cpu'.npriv = cpu.npriv /\ cpu'.primask = cpu.primask /\ cpu'.mpu = cpu.mpu
      /\ cpu'.psp = Pointer(t, d)
  <2>1. Pointer(t, d) \in Pointers
    BY <1>2, <1>4 DEF Pointer, Pointers, Owners
  <2> QED BY <1>2, <1>6, <2>1 DEF Cpus
<1>9. /\ SubSeq(mem[t], 1, d) \in Seq(Cells) /\ Len(SubSeq(mem[t], 1, d)) = d
      /\ d = 1 => SubSeq(mem[t], 1, d)[1] = mem[t][1]
  BY <1>2, <1>3, <1>4
<1>10. /\ mem' \in [Tasks -> Seq(Cells)] /\ mem'[t] = SubSeq(mem[t], 1, d)
       /\ \A u \in Tasks \ {t} : mem'[u] = mem[u]
  BY <1>2, <1>6, <1>9
<1>11. GoesOn
  BY <1>1, <1>3, <1>6, <1>7, <1>8, <1>9, <1>10 DEF GoesOn, d
<1> QED BY <1>11, GoesOnInv

LEMMA ReturnToSecureInv ==
  ASSUME Inv, Live, Return(cpu, monitor, exc), os' = os, Len(exc) = 1, exc[1].ret = "secure"
  PROVE  Inv' /\ Idle
<1> DEFINE t == os.current
           d == Depth(cpu.pc.at)
           s == monitor.ses[monitor.cur]
           e == Last(s)
           secured == monitor.sec[monitor.cur]
           r == [pc |-> cpu.pc, regs |-> cpu.pc]
<1>1. exc \in Seq(Active) /\ exc # << >>
  <2>1. exc \in Seq(Active) /\ Len(exc) # 0
    BY DEF Inv, Typed
  <2> QED BY <2>1, HasSome
<1>2. /\ s \in Seq(Entries) /\ s # << >> /\ Len(s) = 1 /\ e = s[1] /\ t \in Tasks
      /\ cpu \in Cpus /\ mem \in [Tasks -> Seq(Cells)] /\ mem[t] \in Seq(Cells)
  BY <1>1, ActiveFacts, LiveFacts DEF Last, Inv, Typed
<1>3. /\ cpu.psp = Pointer(t, d) /\ Len(mem[t]) = d
      /\ e.ret = "secure" /\ e.pc = cpu.pc /\ e.sp = Pointer(NoTask, 1)
      /\ secured = <<r>>
  BY <1>1, <1>2 DEF Inv, Running
<1>4. secured \in Seq(Secured) /\ Len(secured) = 1 /\ secured # << >> /\ Last(secured) = r
  BY <1>1, <1>3, ActiveFacts DEF Last
<1>5. d \in {0, 1} /\ e.sp.len = 1 /\ r.pc = cpu.pc /\ r.regs = cpu.pc
  BY <1>3 DEF Depth, Pointer
<1> HIDE DEF d, e, r
<1>6. ReturnedToSecure(cpu, monitor, exc, e)
  <2>1. e = Last(monitor.ses[monitor.cur])
    BY DEF e
  <2> QED BY <1>2, <1>3, <1>4, <1>5, <2>1, ReturnSecure
<1>7. /\ exc' = Front(exc) /\ cpu' = [cpu EXCEPT !.pc = cpu.pc, !.regs = cpu.pc]
      /\ mem' = [mem EXCEPT ![t] = SubSeq(mem[t], 1, d)]
      /\ Updated(monitor', monitor, monitor.cur, Front(s), Front(secured))
      /\ fault' = fault
  <2>1. cpu.psp.of = t /\ cpu.psp.len = d
    BY <1>3 DEF Pointer
  <2> QED BY <1>3, <1>4, <1>5, <1>6, <2>1 DEF ReturnedToSecure
<1>8. exc' = << >> /\ Front(s) = << >>
  BY <1>1, <1>2, <1>7, FrontOf
<1>9. Front(secured) = << >>
  BY <1>4, FrontOf
<1>10. /\ cpu' \in Cpus /\ cpu'.pc = cpu.pc /\ cpu'.regs = cpu.pc /\ cpu'.psplim = cpu.psplim
       /\ cpu'.npriv = cpu.npriv /\ cpu'.primask = cpu.primask /\ cpu'.mpu = cpu.mpu
       /\ cpu'.psp = cpu.psp
  BY <1>2, <1>7 DEF Cpus
<1>11. /\ SubSeq(mem[t], 1, d) \in Seq(Cells) /\ Len(SubSeq(mem[t], 1, d)) = d
       /\ d = 1 => SubSeq(mem[t], 1, d)[1] = mem[t][1]
  BY <1>2, <1>3, <1>5
<1>12. /\ mem' \in [Tasks -> Seq(Cells)] /\ mem'[t] = SubSeq(mem[t], 1, d)
       /\ \A u \in Tasks \ {t} : mem'[u] = mem[u]
  BY <1>2, <1>7, <1>11
<1>13. GoesOn
  BY <1>1, <1>3, <1>7, <1>8, <1>9, <1>10, <1>11, <1>12 DEF GoesOn, d
<1> QED BY <1>13, GoesOnInv

LEMMA ExceptionReturnInv ==
  ASSUME Inv, ExceptionReturn
  PROVE  Inv' /\ Idle
<1>1. /\ exc # << >> /\ Last(exc).at = "done" /\ Return(cpu, monitor, exc) /\ os' = os
  BY DEF ExceptionReturn
<1>2. exc \in Seq(Active) /\ Len(exc) \in Nat \ {0} /\ Started
      /\ exc[1].ret \in {"thread", "secure"}
  BY <1>1, ActiveFacts
<1>3. CASE Len(exc) > 1
  BY <1>1, <1>3, ReturnToHandlerInv
<1>4. CASE Len(exc) = 1
  <2>1. exc[1].at = "done" /\ 1 \in DOMAIN exc
    BY <1>1, <1>4, TopOf, <1>2 DEF Last
  <2>2. exc[1].kind # "pendsv"
    BY <2>1 DEF Inv, Nested, Stages
  <2>3. Live
    BY <1>2, <2>2 DEF Live, Phase
  <2> QED BY <1>1, <1>2, <1>4, <2>3, ReturnToThreadInv, ReturnToSecureInv
<1>5. Len(exc) = 1 \/ Len(exc) > 1
  <2>1. PICK n \in Nat \ {0} : n = Len(exc)
    BY <1>2
  <2> QED BY <2>1
<1> QED BY <1>3, <1>4, <1>5

----------------------------------------------------------------------------
(* The switch to another task. *)

(* What holds while the contexts of all tasks are on their stacks.          *)
LEMMA AwayFacts ==
  ASSUME Inv, ~Live
  PROVE  LET t == os.current
         IN  /\ Away = Created /\ t \in Created /\ t \in Tasks /\ StowedAt(t)
             /\ mem \in [Tasks -> Seq(Cells)] /\ mem[t] \in Seq(Cells)
             /\ monitor \in Monitors /\ monitor.next \in Nat
             /\ \A u \in Created : /\ u \in Tasks /\ StowedAt(u) /\ Id(u) \in Threads
                                   /\ Id(u) \in 1..(monitor.next - 1) /\ Id(u) # 0
             /\ \A u \in Created \ {t} : Id(u) # Id(t)
<1>1. Away = Created
  BY DEF Away
<1>2. os.current \in Created /\ os.current \in Tasks
  BY DEF Inv, Counted, Created
<1>3. \A u \in Created : u \in Tasks /\ StowedAt(u)
  BY <1>1 DEF Created, Inv, Stowed
<1>4. /\ mem \in [Tasks -> Seq(Cells)] /\ mem[os.current] \in Seq(Cells)
      /\ monitor \in Monitors /\ monitor.next \in Nat
  BY <1>2 DEF Inv, Typed, Monitors
<1>5. \A u \in Created : Id(u) \in Threads /\ Id(u) \in 1..(monitor.next - 1)
  BY <1>3 DEF StowedAt, ContextCells, Id
<1>6. \A u \in Created : Id(u) # 0
  BY <1>4, <1>5
<1>7. \A u \in Created \ {os.current} : Id(u) # Id(os.current)
  BY <1>1, <1>2 DEF Inv, Distinct
<1> QED BY <1>1, <1>2, <1>3, <1>4, <1>5, <1>6, <1>7

(* The task whose turn it is goes on where it was interrupted.              *)
Resumes ==
  LET t == os.current
      first == FirstOf(t)
      d == Depth(first.pc.at)
  IN  /\ exc' = << >> /\ fault' = fault /\ os.nesting = 0 /\ monitor.cur \in {0, Id(t)}
      /\ os' \in Kernels /\ os'.current = t /\ os'.nesting = 0 /\ os'.top = os.top
      /\ os'.settings = os.settings /\ os'.secureContext = Id(t)
      /\ cpu' \in Cpus /\ cpu'.pc = first.pc /\ cpu'.psplim = t /\ cpu'.mpu.stack = t
      /\ cpu'.npriv = Context(t).npriv /\ ~cpu'.primask
      /\ first.pc.at # "fresh" => cpu'.regs = first.pc
      /\ mem' \in [Tasks -> Seq(Cells)] /\ \A u \in Tasks \ {t} : mem'[u] = mem[u]
      /\ Len(mem'[t]) = d /\ cpu'.psp = Pointer(t, d)
      /\ d = 1 => mem'[t][1] = mem[t][1]
      /\ monitor' \in Monitors /\ monitor'.cur = Id(t) /\ monitor'.next = monitor.next
      /\ monitor'.ses[Id(t)] = << >> /\ monitor'.sec[Id(t)] = << >>
      /\ \A i \in Threads \ {0, Id(t)} :
           monitor'.ses[i] = monitor.ses[i] /\ monitor'.sec[i] = monitor.sec[i]
      /\ monitor'.sec[0] = monitor.sec[0]

LEMMA ResumesInv ==
  ASSUME Inv, ~Live, Resumes
  PROVE  Inv' /\ Idle
<1> USE DEF Resumes
<1> DEFINE t == os.current
           id == Id(t)
<1>1. /\ Away = Created /\ t \in Created /\ t \in Tasks /\ StowedAt(t)
      /\ monitor \in Monitors /\ monitor.next \in Nat
      /\ \A u \in Created : /\ u \in Tasks /\ StowedAt(u) /\ Id(u) \in Threads
                            /\ Id(u) \in 1..(monitor.next - 1) /\ Id(u) # 0
      /\ \A u \in Created \ {t} : Id(u) # id
  BY AwayFacts
<1>2. FirstOf(t).pc.of = t /\ FirstOf(t).pc.at \in TaskPlaces
  BY <1>1 DEF StowedAt
<1>3. Live' /\ Started'
  BY <1>2 DEF Live, Phase, Started, TaskPlaces
<1>4. Created' = Created /\ Away' = Created \ {t}
  <2>1. Created' = Created
    BY DEF Created
  <2> QED BY <1>3, <2>1 DEF Away
<1>5. \A u \in Created \ {t} : StowedAt(u)' /\ Id(u)' = Id(u)
  <2> SUFFICES ASSUME NEW u \in Created \ {t} PROVE StowedAt(u)' /\ Id(u)' = Id(u)
    OBVIOUS
  <2>1. Id(u) \in Threads \ {0, id} /\ Id(u) # monitor.cur /\ StowedAt(u) /\ u \in Tasks \ {t}
    BY <1>1
  <2>2. Len(monitor.ses[Id(u)]) = 1 /\ monitor.ses[Id(u)] # << >>
    BY <2>1 DEF StowedAt
  <2>3. Kept(u)
    BY <2>1, <2>2 DEF Kept, FirstOf
  <2> QED BY <1>1, <2>1, <2>3, KeptStowed
<1>6. Stowed'
  BY <1>4, <1>5 DEF Stowed
<1>7. Distinct'
  <2>1. \A u, v \in Away' : Id(u)' = Id(v)' => u = v
    BY <1>1, <1>4, <1>5 DEF Inv, Distinct
  <2>2. \A u \in Away' : Id(u)' # monitor'.cur
    BY <1>1, <1>4, <1>5
  <2>3. ASSUME NEW i \in Threads, monitor'.sec[i] # << >>
        PROVE  \E u \in Away' : Id(u)' = i
    <3>1. i # id /\ monitor.sec[i] # << >>
      BY <2>3
    <3>2. PICK u \in Created : Id(u) = i
      BY <1>1, <3>1 DEF Inv, Distinct
    <3> QED BY <1>4, <1>5, <3>1, <3>2
  <2> QED BY <1>3, <2>1, <2>2, <2>3 DEF Distinct
<1>8. Counted'
  <2>1. \A u \in Tasks \ Created : mem'[u] = << >>
    BY <1>1 DEF Inv, Counted
  <2>2. ASSUME NEW i \in Threads, i >= monitor.next
        PROVE  monitor'.ses[i] = << >> /\ monitor'.sec[i] = << >>
    <3>1. id \in 1..(monitor.next - 1)
      BY <1>1
    <3>2. PICK n \in Nat : n = monitor.next
      BY <1>1
    <3>3. i # id /\ i # 0
      BY <2>2, <3>1, <3>2
    <3> QED BY <2>2, <3>3 DEF Inv, Counted
  <2> QED BY <1>1, <1>4, <2>1, <2>2 DEF Inv, Counted
<1>9. << >> \in Seq(Active) /\ Len(exc') = 0 /\ DOMAIN exc' = {}
  BY EmptySeq
<1>10. Typed' /\ ~fault' /\ Nested' /\ Masked'
  <2>1. Typed' /\ ~fault'
    BY <1>9 DEF Inv, Typed
  <2>2. Nested' /\ Masked'
    BY <1>3, <1>9 DEF Nested, Masked
  <2> QED BY <2>1, <2>2
<1>11. Tracked'
  <2>1. Len(monitor'.ses[monitor'.cur]) = Len(exc') /\ monitor'.cur \in 1..(monitor'.next - 1)
    BY <1>1
  <2> QED BY <1>3, <1>9, <2>1 DEF Tracked
<1>12. Running'
  <2>1. Privilege(t, mem'[t], FirstOf(t).pc.at, Context(t).npriv)
    BY <1>1 DEF StowedAt, Privilege, Depth
  <2> QED BY <1>2, <2>1 DEF Running
<1>13. Switching'
  BY <1>3 DEF Live, Switching
<1>14. \A u \in Created \ {t} : Same(u)
  <2> SUFFICES ASSUME NEW u \in Created \ {t} PROVE Same(u)
    OBVIOUS
  <2>1. Id(u) \in Threads \ {0, id} /\ Id(u) # monitor.cur /\ StowedAt(u) /\ u \in Tasks \ {t}
    BY <1>1
  <2>2. Kept(u)
    BY <2>1 DEF Kept, FirstOf, StowedAt
  <2> QED BY <2>1, <2>2, KeptSame
<1>15. Same(t)
  <2>1. Code(t) = FirstOf(t).pc /\ NPriv(t) = Context(t).npriv
    BY DEF Code, NPriv
  <2>2. Code(t)' = cpu'.pc /\ NPriv(t)' = cpu'.npriv
    BY <1>3 DEF Code, NPriv
  <2> QED BY <2>1, <2>2 DEF Same, Depth
<1>16. Idle
  BY <1>1, <1>4, <1>14, <1>15 DEF Idle, AllSame
<1> QED BY <1>6, <1>7, <1>8, <1>10, <1>11, <1>12, <1>13, <1>16 DEF Inv

(* PendSV_Handler is only found at the bottom of the active exceptions: no  *)
(* other handler is active when it takes a step.                            *)
LEMMA PendSVAlone ==
  ASSUME Inv, NEW at, Handles("pendsv", at)
  PROVE  /\ Started /\ exc \in Seq(Active) /\ exc # << >> /\ Len(exc) = 1 /\ DOMAIN exc = {1}
         /\ exc[1].kind = "pendsv" /\ exc[1].at = at /\ Last(exc) = exc[1] /\ Phase = at
         /\ exc[1].ret \in {"thread", "secure"} /\ exc[1] \in Active
<1>1. exc # << >> /\ Last(exc).kind = "pendsv" /\ Last(exc).at = at
  BY DEF Handles
<1>2. exc \in Seq(Active) /\ Len(exc) \in Nat \ {0} /\ DOMAIN exc = 1..Len(exc)
      /\ exc[1].ret \in {"thread", "secure"} /\ exc[1] \in Active /\ Started
  BY <1>1, ActiveFacts
<1>3. Last(exc) = exc[Len(exc)] /\ Len(exc) \in DOMAIN exc
  BY <1>1, <1>2, TopOf
<1>4. Len(exc) = 1
  BY <1>1, <1>3 DEF Inv, Nested
<1>5. Phase = at
  BY <1>1, <1>2, <1>3, <1>4 DEF Phase
<1>6. DOMAIN exc = {1}
  BY <1>2, <1>4
<1> QED BY <1>1, <1>2, <1>3, <1>4, <1>5, <1>6

(* The registers c and the monitor m are prepared for the return to t.      *)
Prepared(c, m) ==
  LET t == os.current
  IN  /\ c \in Cpus /\ c.psplim = t /\ c.mpu.stack = t /\ c.npriv = Context(t).npriv
      /\ ~c.primask
      /\ m \in Monitors /\ m.cur = Id(t) /\ m.next = monitor.next /\ m.sec = monitor.sec
      /\ \A i \in Threads \ {0} : m.ses[i] = monitor.ses[i]
      /\ Len(monitor.ses[Id(t)]) = 1
      /\ os.nesting = 0 /\ monitor.cur \in {0, Id(t)}
      /\ os' \in Kernels /\ os'.current = t /\ os'.nesting = 0 /\ os'.top = os.top
      /\ os'.settings = os.settings /\ os'.secureContext = Id(t)

(* What is known of the task the return goes to.                            *)
LEMMA PreparedFacts ==
  ASSUME Inv, ~Live, NEW c, NEW m, Prepared(c, m)
  PROVE  LET t == os.current
             s == m.ses[m.cur]
         IN  /\ t \in Tasks /\ StowedAt(t) /\ m.cur = Id(t) /\ Id(t) \in Threads
             /\ mem \in [Tasks -> Seq(Cells)] /\ mem[t] \in Seq(Cells)
             /\ s \in Seq(Entries) /\ s # << >> /\ Last(s) = FirstOf(t) /\ Front(s) = << >>
             /\ FirstOf(t) \in Entries
             /\ m.sec[m.cur] = monitor.sec[Id(t)]
<1> DEFINE t == os.current
<1>1. /\ t \in Tasks /\ StowedAt(t) /\ Id(t) \in Threads /\ Id(t) # 0
      /\ mem \in [Tasks -> Seq(Cells)] /\ mem[t] \in Seq(Cells) /\ monitor \in Monitors
  BY AwayFacts
<1>2. m.cur = Id(t) /\ m.ses[m.cur] = monitor.ses[Id(t)] /\ m.sec[m.cur] = monitor.sec[Id(t)]
      /\ Len(monitor.ses[Id(t)]) = 1
  BY <1>1 DEF Prepared
<1> DEFINE s == monitor.ses[Id(t)]
<1>3. s \in Seq(Entries) /\ s # << >> /\ Len(s) = 1
  BY <1>1, <1>2 DEF Monitors, StowedAt
<1>4. Last(s) = s[1] /\ s[1] \in Entries /\ Front(s) = << >>
  BY <1>3, TopOf, FrontOf
<1> QED BY <1>1, <1>2, <1>3, <1>4 DEF FirstOf

(* The stacks of its thread are empty again.                                *)
LEMMA Emptied ==
  ASSUME Inv, ~Live, NEW c, NEW m, Prepared(c, m),
         Updated(monitor', m, m.cur, << >>, << >>)
  PROVE  /\ monitor' \in Monitors /\ monitor'.cur = Id(os.current) /\ monitor'.next = monitor.next
         /\ monitor'.ses[Id(os.current)] = << >> /\ monitor'.sec[Id(os.current)] = << >>
         /\ \A i \in Threads \ {0, Id(os.current)} :
              monitor'.ses[i] = monitor.ses[i] /\ monitor'.sec[i] = monitor.sec[i]
         /\ monitor'.sec[0] = monitor.sec[0]
<1> DEFINE a == << >>
           b == << >>
           i == m.cur
<1>1. m \in Monitors /\ i \in Threads /\ a \in Seq(Entries) /\ b \in Seq(Secured)
      /\ Updated(monitor', m, i, a, b)
  BY EmptySeq DEF Prepared, Monitors
<1>2. i = Id(os.current) /\ i # 0
  BY AwayFacts DEF Prepared
<1> HIDE DEF a, b, i
<1>3. /\ monitor' \in Monitors /\ monitor'.cur = m.cur /\ monitor'.next = m.next
      /\ monitor'.ses[i] = a /\ monitor'.sec[i] = b
      /\ \A j \in Threads \ {i} : monitor'.ses[j] = m.ses[j] /\ monitor'.sec[j] = m.sec[j]
  BY <1>1, MonitorUpdate
<1>4. 0 \in Threads
  BY TasksAssumption, FS_CardinalityType DEF Threads
<1> QED BY <1>2, <1>3, <1>4 DEF Prepared, a, b, i

LEMMA ResumesThread ==
  ASSUME Inv, ~Live, NEW c, NEW m, Prepared(c, m), NEW active, Return(c, m, active),
         Len(active) = 1, Front(active) = << >>, Context(os.current).ret = "thread",
         c.psp = Pointer(os.current, Len(mem[os.current]) - 2),
         FirstOf(os.current).pc.at # "fresh" => c.regs = FirstOf(os.current).pc
  PROVE  Inv' /\ Idle
<1> DEFINE t == os.current
           e == FirstOf(t)
           d == Depth(e.pc.at)
<1>1. /\ t \in Tasks /\ StowedAt(t) /\ m.cur = Id(t) /\ Id(t) \in Threads
      /\ mem \in [Tasks -> Seq(Cells)] /\ mem[t] \in Seq(Cells)
      /\ m.ses[m.cur] # << >> /\ Last(m.ses[m.cur]) = e /\ Front(m.ses[m.cur]) = << >>
      /\ e \in Entries /\ m.sec[m.cur] = monitor.sec[Id(t)]
  BY PreparedFacts
<1>2. /\ e.ret = "thread" /\ Len(mem[t]) = d + 3 /\ mem[t][d + 1] = FrameCell(e.pc)
      /\ e.sp = Pointer(t, Len(mem[t]) - 2) /\ monitor.sec[Id(t)] = << >>
  BY <1>1 DEF StowedAt, OnThreadStack
<1>3. d \in {0, 1} /\ d \in Nat
  BY DEF Depth
<1>4. Len(mem[t]) - 2 = d + 1
  BY <1>2, <1>3
<1>5. c.psp = Pointer(t, d + 1) /\ e.sp = Pointer(t, d + 1)
  BY <1>2, <1>4
<1> HIDE DEF d, e
<1>6. ReturnedToThread(c, m, active, t, d, e)
  BY <1>1, <1>2, <1>3, <1>5, ReturnThread
<1>7. /\ exc' = << >> /\ cpu' = [c EXCEPT !.pc = e.pc, !.psp = Pointer(t, d)]
      /\ mem' = [mem EXCEPT ![t] = SubSeq(mem[t], 1, d)]
      /\ Updated(monitor', m, m.cur, << >>, << >>)
      /\ fault' = fault
  BY <1>1, <1>2, <1>6 DEF ReturnedToThread
<1>8. /\ cpu' \in Cpus /\ cpu'.pc = e.pc /\ cpu'.regs = c.regs /\ cpu'.psplim = t
      /\ cpu'.npriv = Context(t).npriv /\ ~cpu'.primask /\ cpu'.mpu.stack = t
      /\ cpu'.psp = Pointer(t, d)
  <2>1. Pointer(t, d) \in Pointers /\ e.pc \in Codes
    BY <1>1, <1>3 DEF Pointer, Pointers, Owners, Entries
  <2> QED BY <1>7, <2>1 DEF Prepared, Cpus
<1>9. /\ SubSeq(mem[t], 1, d) \in Seq(Cells) /\ Len(SubSeq(mem[t], 1, d)) = d
      /\ d = 1 => SubSeq(mem[t], 1, d)[1] = mem[t][1]
  BY <1>1, <1>2, <1>3
<1>10. /\ mem' \in [Tasks -> Seq(Cells)] /\ mem'[t] = SubSeq(mem[t], 1, d)
       /\ \A u \in Tasks \ {t} : mem'[u] = mem[u]
  BY <1>1, <1>7, <1>9
<1>11. Resumes
  BY <1>7, <1>8, <1>9, <1>10, Emptied DEF Resumes, Prepared, d, e
<1> QED BY <1>11, ResumesInv

LEMMA ResumesSecure ==
  ASSUME Inv, ~Live, NEW c, NEW m, Prepared(c, m), NEW active, Return(c, m, active),
         Len(active) = 1, Front(active) = << >>, Context(os.current).ret = "secure",
         c.psp = Pointer(os.current, Len(mem[os.current]) - 1)
  PROVE  Inv' /\ Idle
<1> DEFINE t == os.current
           e == FirstOf(t)
           d == Depth(e.pc.at)
           secured == m.sec[m.cur]
           r == [pc |-> e.pc, regs |-> e.pc]
<1>1. /\ t \in Tasks /\ StowedAt(t) /\ m.cur = Id(t) /\ Id(t) \in Threads
      /\ mem \in [Tasks -> Seq(Cells)] /\ mem[t] \in Seq(Cells)
      /\ m.ses[m.cur] # << >> /\ Last(m.ses[m.cur]) = e /\ Front(m.ses[m.cur]) = << >>
      /\ e \in Entries /\ secured = monitor.sec[Id(t)]
  BY PreparedFacts
<1>2. /\ e.ret = "secure" /\ Len(mem[t]) = d + 1 /\ e.sp = Pointer(NoTask, 1) /\ secured = <<r>>
  BY <1>1 DEF StowedAt
<1>3. d \in {0, 1} /\ d \in Nat /\ e.sp.len = 1 /\ r.pc = e.pc /\ r.regs = e.pc
  BY <1>2 DEF Depth, Pointer
<1>4. c.psp = Pointer(t, d)
  <2>1. Len(mem[t]) - 1 = d
    BY <1>2, <1>3
  <2> QED BY <2>1
<1>5. Len(secured) = 1 /\ Last(secured) = r /\ Front(secured) = << >>
  <2>1. <<r>> \in Seq({r}) /\ Len(<<r>>) = 1 /\ <<r>> # << >>
    OBVIOUS
  <2> HIDE DEF r
  <2>2. Last(<<r>>) = r /\ Front(<<r>>) = << >>
    BY <2>1, FrontOf DEF Last
  <2> QED BY <1>2, <2>1, <2>2
<1> HIDE DEF d, e, r
<1>6. ReturnedToSecure(c, m, active, e)
  BY <1>1, <1>2, <1>3, <1>5, ReturnSecure
<1>7. /\ exc' = << >> /\ cpu' = [c EXCEPT !.pc = e.pc, !.regs = e.pc]
      /\ mem' = [mem EXCEPT ![t] = SubSeq(mem[t], 1, d)]
      /\ Updated(monitor', m, m.cur, << >>, << >>)
      /\ fault' = fault
  <2>1. c.psp.of = t /\ c.psp.len = d
    BY <1>4 DEF Pointer
  <2> QED BY <1>1, <1>3, <1>5, <1>6, <2>1 DEF ReturnedToSecure
<1>8. /\ cpu' \in Cpus /\ cpu'.pc = e.pc /\ cpu'.regs = e.pc /\ cpu'.psplim = t
      /\ cpu'.npriv = Context(t).npriv /\ ~cpu'.primask /\ cpu'.mpu.stack = t
      /\ cpu'.psp = Pointer(t, d)
  <2>1. e.pc \in Codes
    BY <1>1 DEF Entries
  <2> QED BY <1>4, <1>7, <2>1 DEF Prepared, Cpus
<1>9. /\ SubSeq(mem[t], 1, d) \in Seq(Cells) /\ Len(SubSeq(mem[t], 1, d)) = d
      /\ d = 1 => SubSeq(mem[t], 1, d)[1] = mem[t][1]
  BY <1>1, <1>2, <1>3
<1>10. /\ mem' \in [Tasks -> Seq(Cells)] /\ mem'[t] = SubSeq(mem[t], 1, d)
       /\ \A u \in Tasks \ {t} : mem'[u] = mem[u]
  BY <1>1, <1>7, <1>9
<1>11. Resumes
  BY <1>7, <1>8, <1>9, <1>10, Emptied DEF Resumes, Prepared, d, e
<1> QED BY <1>11, ResumesInv

LEMMA LeavePendSVInv ==
  ASSUME Inv, LeavePendSV
  PROVE  Inv' /\ Idle
<1> DEFINE t == os.current
           n == Len(mem[t])
           ret == Context(t).ret
           c == [cpu EXCEPT !.psp = Pointer(t, n - SavedCells(ret)),
                            !.regs = IF UsedSecureStack(ret) THEN cpu.regs ELSE mem[t][n - 1].regs]
<1>1. Handles("pendsv", "loaded") /\ os' = os
  BY DEF LeavePendSV
<1>2. /\ exc \in Seq(Active) /\ exc # << >> /\ Len(exc) = 1 /\ Phase = "loaded" /\ ~Live
  BY <1>1, PendSVAlone DEF Live
<1>3. /\ t \in Tasks /\ StowedAt(t) /\ mem[t] \in Seq(Cells)
      /\ monitor \in Monitors /\ Id(t) \in Threads
  BY <1>2, AwayFacts
<1>4. /\ os.top[t] = Pointer(t, n) /\ n \in Nat \ {0}
      /\ Context(t) \in ContextCells /\ ret \in {"thread", "secure"}
      /\ SavedContext(t) = Context(t) /\ os.top[t].of = t /\ os.top[t].len = n
  BY <1>3 DEF StowedAt, SavedContext, Context, Pointer
<1>5. Return(c, monitor, exc)
  <2>1. Return([cpu EXCEPT !.psp = Pointer(os.top[t].of, os.top[t].len - SavedCells(SavedContext(t).ret)),
                           !.regs = IF UsedSecureStack(SavedContext(t).ret) THEN @
                                    ELSE mem[os.top[t].of][os.top[t].len - 1].regs], monitor, exc)
    BY DEF LeavePendSV
  <2> QED BY <1>4, <2>1
<1>6. Front(exc) = << >>
  BY <1>2, FrontOf
<1>7. /\ os.secureContext = Id(t) /\ cpu.psplim = t /\ cpu.mpu.stack = t
      /\ cpu.npriv = Context(t).npriv /\ monitor.cur = Id(t)
  BY <1>2 DEF Inv, Switching
<1>8. /\ os.nesting = 0 /\ ~cpu.primask /\ cpu \in Cpus /\ os \in Kernels
      /\ Len(monitor.ses[Id(t)]) = 1
  BY <1>2, <1>7, ActiveFacts DEF Inv, Typed
<1>9. CASE ret = "thread"
  <2>1. SavedCells(ret) = 2 /\ ~UsedSecureStack(ret)
    BY <1>9 DEF SavedCells, UsedSecureStack
  <2> DEFINE e == FirstOf(t)
             d == Depth(e.pc.at)
  <2>2. /\ n = d + 3 /\ mem[t][d + 2] \in RegisterCells
        /\ e.pc.at # "fresh" => mem[t][d + 2].regs = e.pc
    BY <1>3, <1>9 DEF StowedAt, OnThreadStack
  <2>3. d \in Nat /\ n - 1 = d + 2 /\ n - 2 = d + 1
    BY <2>2 DEF Depth
  <2>4. c = [cpu EXCEPT !.psp = Pointer(t, n - 2), !.regs = mem[t][n - 1].regs]
    BY <2>1
  <2>5. Pointer(t, n - 2) \in Pointers /\ mem[t][n - 1].regs \in Codes
    BY <1>3, <2>2, <2>3 DEF Pointer, Pointers, Owners, RegisterCells
  <2>6. /\ c \in Cpus /\ c.psp = Pointer(t, n - 2) /\ c.regs = mem[t][n - 1].regs
        /\ c.psplim = cpu.psplim /\ c.mpu = cpu.mpu /\ c.npriv = cpu.npriv
        /\ c.primask = cpu.primask
    <3> HIDE DEF n, c
    <3> QED BY <1>8, <2>4, <2>5 DEF Cpus
  <2>7. e.pc.at # "fresh" => c.regs = e.pc
    BY <2>2, <2>3, <2>6
  <2> HIDE DEF c
  <2>8. Prepared(c, monitor)
    BY <1>1, <1>3, <1>7, <1>8, <2>6 DEF Prepared
  <2> QED BY <1>2, <1>5, <1>6, <1>9, <2>6, <2>7, <2>8, ResumesThread
<1>10. CASE ret = "secure"
  <2>1. SavedCells(ret) = 1 /\ UsedSecureStack(ret)
    BY <1>10 DEF SavedCells, UsedSecureStack
  <2>2. c = [cpu EXCEPT !.psp = Pointer(t, n - 1), !.regs = cpu.regs]
    BY <2>1
  <2>3. Pointer(t, n - 1) \in Pointers
    BY <1>3, <1>4 DEF Pointer, Pointers, Owners
  <2>4. /\ c \in Cpus /\ c.psp = Pointer(t, n - 1)
        /\ c.psplim = cpu.psplim /\ c.mpu = cpu.mpu /\ c.npriv = cpu.npriv
        /\ c.primask = cpu.primask
    <3> HIDE DEF n, c
    <3> QED BY <1>8, <2>2, <2>3 DEF Cpus
  <2> HIDE DEF c
  <2>5. Prepared(c, monitor)
    BY <1>1, <1>3, <1>7, <1>8, <2>4 DEF Prepared
  <2> QED BY <1>2, <1>5, <1>6, <1>10, <2>4, <2>5, ResumesSecure
<1> QED BY <1>4, <1>9, <1>10

LEMMA StartFirstTaskInv ==
  ASSUME Inv, StartFirstTask
  PROVE  Inv' /\ Idle
<1> DEFINE t == os.current
           n == Len(mem[t])
           context == Context(t)
           main == [ret |-> "thread", pc |-> cpu.pc, sp |-> Pointer(NoTask, 1)]
           opened == [monitor EXCEPT !.ses[0] = Append(@, main)]
           m == [opened EXCEPT !.cur = Id(t)]
           c == [cpu EXCEPT !.psplim = context.psplim, !.npriv = context.npriv,
                            !.mpu = os.settings[t], !.regs = Nowhere,
                            !.psp = Pointer(t, n - 2), !.primask = FALSE]
           active == <<[kind |-> "svc", at |-> "done", ret |-> "thread"]>>
<1>1. ~Started /\ Phase = "main" /\ ~Live
  BY DEF StartFirstTask, Phase, Live
<1>2. /\ t \in Tasks /\ t \in Created /\ StowedAt(t) /\ mem[t] \in Seq(Cells)
      /\ monitor \in Monitors /\ Id(t) \in Threads /\ Id(t) # 0
  BY <1>1, AwayFacts
<1>3. /\ os.top[t] = Pointer(t, n) /\ n \in Nat \ {0} /\ context \in ContextCells
      /\ SavedContext(t) = context /\ os.top[t].of = t /\ os.top[t].len = n
      /\ context.psplim = t /\ context.secureContext = Id(t)
  BY <1>2 DEF StowedAt, SavedContext, Context, Pointer, Id
<1>4. context.ret = "thread" /\ FirstOf(t).pc.at = "fresh"
  BY <1>1, <1>2 DEF Inv, Switching
<1>5. exc = << >> /\ os.nesting = 0 /\ monitor.cur = 0 /\ cpu \in Cpus /\ os \in Kernels
      /\ os.settings[t].stack = t /\ os.settings[t] \in Settings
  BY <1>1, <1>2 DEF Inv, Nested, Masked, Tracked, Counted, Typed, Kernels
<1>6. Len(monitor.ses[Id(t)]) = 1
  BY <1>2, <1>5 DEF StowedAt
<1>7. Return(c, m, active)
  <2> DEFINE top == os.top[t]
             saved == SavedContext(t)
  <2>1. Return([WithContext(cpu, saved) EXCEPT !.psp = Pointer(top.of, top.len - 2), !.primask = FALSE],
               LoadContext(opened, saved.secureContext), active)
    BY DEF StartFirstTask
  <2>2. [WithContext(cpu, context) EXCEPT !.psp = Pointer(t, n - 2), !.primask = FALSE] = c
    BY <1>5 DEF WithContext, Cpus
  <2>3. LoadContext(opened, Id(t)) = m
    BY DEF LoadContext
  <2> QED BY <1>3, <2>1, <2>2, <2>3
<1>8. os' = [os EXCEPT !.secureContext = Id(t)]
  <2>1. os' = [os EXCEPT !.secureContext = SavedContext(t).secureContext]
    BY DEF StartFirstTask
  <2> QED BY <1>3, <2>1
<1>9. /\ os' \in Kernels /\ os'.current = t /\ os'.nesting = 0 /\ os'.top = os.top
      /\ os'.settings = os.settings /\ os'.secureContext = Id(t)
  BY <1>2, <1>5, <1>8 DEF Kernels
<1>10. 0 \in Threads
  BY TasksAssumption, FS_CardinalityType DEF Threads
<1>11. main \in Entries
  <2>1. Pointer(NoTask, 1) \in Pointers /\ cpu.pc \in Codes
    BY <1>5 DEF Pointer, Pointers, Owners, Cpus
  <2> QED BY <2>1 DEF Entries, Returns
<1> HIDE DEF main
<1>12. /\ opened \in Monitors /\ opened.next = monitor.next /\ opened.sec = monitor.sec
       /\ \A i \in Threads \ {0} : opened.ses[i] = monitor.ses[i]
  <2> DEFINE a == Append(monitor.ses[0], main)
  <2>1. a \in Seq(Entries)
    BY <1>2, <1>10, <1>11 DEF Monitors
  <2>2. opened = [monitor EXCEPT !.ses[0] = a]
    BY <1>2, <1>10 DEF Monitors
  <2> HIDE DEF a
  <2> QED BY <1>2, <1>10, <2>1, <2>2 DEF Monitors
<1> HIDE DEF opened
<1>13. /\ m \in Monitors /\ m.cur = Id(t) /\ m.next = monitor.next /\ m.sec = monitor.sec
       /\ \A i \in Threads \ {0} : m.ses[i] = monitor.ses[i]
  BY <1>2, <1>12 DEF Monitors
<1>14. /\ c \in Cpus /\ c.psplim = t /\ c.npriv = context.npriv /\ c.mpu.stack = t
       /\ ~c.primask /\ c.psp = Pointer(t, n - 2)
  <2>1. n - 2 \in Nat
    <3>1. n = Depth(FirstOf(t).pc.at) + 3
      BY <1>2, <1>4 DEF StowedAt, OnThreadStack
    <3> QED BY <3>1 DEF Depth
  <2>2. Pointer(t, n - 2) \in Pointers /\ Nowhere \in Codes
    BY <1>2, <2>1 DEF Pointer, Pointers, Owners, Nowhere, At, Codes, Places
  <2>3. context.psplim \in Owners /\ context.npriv \in BOOLEAN
    BY <1>3 DEF ContextCells
  <2> HIDE DEF n, context
  <2> QED BY <1>3, <1>5, <2>2, <2>3 DEF Cpus
<1> HIDE DEF c, m
<1>15. Prepared(c, m)
  BY <1>5, <1>6, <1>9, <1>13, <1>14 DEF Prepared
<1>16. Len(active) = 1 /\ Front(active) = << >>
  <2> DEFINE x == [kind |-> "svc", at |-> "done", ret |-> "thread"]
  <2> HIDE DEF x
  <2>1. <<x>> \in Seq({x}) /\ Len(<<x>>) = 1 /\ <<x>> # << >>
    OBVIOUS
  <2>2. Front(<<x>>) = << >>
    BY <2>1, FrontOf
  <2> QED BY <2>1, <2>2 DEF x
<1> HIDE DEF active
<1> QED BY <1>1, <1>4, <1>7, <1>14, <1>15, <1>16, ResumesThread

(* A step of PendSV_Handler between saving one context and loading another. *)
SwitchGoesOn ==
  /\ Len(exc) = 1 /\ exc[1].kind = "pendsv" /\ exc[1].ret \in {"thread", "secure"}
  /\ exc' \in Seq(Active) /\ exc' # << >> /\ Len(exc') = 1 /\ DOMAIN exc' = {1}
  /\ exc'[1].kind = "pendsv" /\ exc'[1].ret = exc[1].ret
  /\ exc'[1].at \in {"selected", "restored", "activating", "activated", "loaded"}
  /\ mem' = mem /\ fault' = fault
  /\ os' \in Kernels /\ os'.top = os.top /\ os'.settings = os.settings /\ os'.nesting = os.nesting
  /\ os'.current \in Created
  /\ monitor' \in Monitors /\ monitor'.next = monitor.next /\ monitor'.ses = monitor.ses
  /\ monitor'.sec = monitor.sec
  /\ monitor'.cur = monitor.cur \/ monitor'.cur = Id(os.current)
  /\ cpu' \in Cpus /\ cpu'.pc = cpu.pc /\ cpu'.primask = cpu.primask

LEMMA SwitchGoesOnInv ==
  ASSUME Inv, ~Live, Started, exc # << >>, SwitchGoesOn, Switching'
  PROVE  Inv' /\ AllSame
<1> USE DEF SwitchGoesOn
<1>1. /\ Away = Created /\ monitor.next \in Nat /\ os.current \in Created
      /\ \A u \in Created : /\ u \in Tasks /\ StowedAt(u) /\ Id(u) \in Threads
                            /\ Id(u) \in 1..(monitor.next - 1)
  BY AwayFacts
<1>2. ~Live' /\ Started'
  BY DEF Live, Phase, Started
<1>3. Created' = Created /\ Away' = Created
  <2>1. Created' = Created
    BY DEF Created
  <2> QED BY <1>2, <2>1 DEF Away
<1>4. \A u \in Created : Len(monitor.ses[Id(u)]) = 1
  BY <1>1 DEF StowedAt
<1>5. \A u \in Created : StowedAt(u)' /\ Id(u)' = Id(u)
  <2> SUFFICES ASSUME NEW u \in Created PROVE StowedAt(u)' /\ Id(u)' = Id(u)
    OBVIOUS
  <2>1. StowedAt(u) /\ Len(monitor.ses[Id(u)]) = 1 /\ monitor.ses[Id(u)] # << >>
    BY <1>1, <1>4 DEF StowedAt
  <2>2. Kept(u)
    BY <2>1 DEF Kept, FirstOf
  <2> QED BY <1>1, <2>1, <2>2, KeptStowed
<1>6. Stowed' /\ Distinct'
  BY <1>1, <1>2, <1>3, <1>5 DEF Stowed, Distinct, Inv
<1>7. Counted'
  BY <1>3 DEF Inv, Counted
<1>8. Typed' /\ ~fault' /\ Masked'
  BY <1>2, ActiveFacts DEF Inv, Typed, Masked
<1>9. Nested'
  BY <1>2 DEF Nested, Stages
<1>10. Tracked'
  <2>1. Len(monitor.ses[monitor.cur]) = 1 /\ monitor.cur \in 1..(monitor.next - 1)
    BY ActiveFacts
  <2>2. monitor.ses[monitor.cur][1].ret \in {"thread", "secure"}
    BY DEF Inv, Tracked
  <2>3. monitor.ses[Id(os.current)][1].ret \in {"thread", "secure"}
    BY <1>1 DEF StowedAt, FirstOf
  <2> QED BY <1>1, <1>2, <1>4, <2>1, <2>2, <2>3 DEF Tracked
<1>11. Running'
  BY <1>2 DEF Running
<1>12. \A u \in Created : Same(u)
  <2> SUFFICES ASSUME NEW u \in Created PROVE Same(u)
    OBVIOUS
  <2>1. StowedAt(u) /\ Len(monitor.ses[Id(u)]) = 1 /\ monitor.ses[Id(u)] # << >>
    BY <1>1, <1>4 DEF StowedAt
  <2>2. Kept(u)
    BY <2>1 DEF Kept, FirstOf
  <2> QED BY <1>2, <2>2, KeptSame
<1>13. AllSame
  BY <1>3, <1>12 DEF AllSame
<1> QED BY <1>6, <1>7, <1>8, <1>9, <1>10, <1>11, <1>13 DEF Inv

(* The first conjuncts of SwitchGoesOn.                                     *)
LEMMA PendSVGoes ==
  ASSUME Inv, NEW at, Handles("pendsv", at), NEW next \in Moments, Goes(next)
  PROVE  /\ Len(exc) = 1 /\ exc # << >> /\ exc[1].kind = "pendsv" /\ Phase = at
         /\ exc[1].ret \in {"thread", "secure"} /\ Started
         /\ exc' \in Seq(Active) /\ exc' # << >> /\ Len(exc') = 1 /\ DOMAIN exc' = {1}
         /\ exc'[1].kind = "pendsv" /\ exc'[1].ret = exc[1].ret /\ exc'[1].at = next
         /\ Started' => Phase' = next
<1>1. /\ Started /\ exc \in Seq(Active) /\ exc # << >> /\ Len(exc) = 1
      /\ exc[1].kind = "pendsv" /\ Phase = at
      /\ exc[1].ret \in {"thread", "secure"} /\ exc[1] \in Active
  BY PendSVAlone
<1>2. /\ exc' \in Seq(Active) /\ exc' # << >> /\ Len(exc') = 1 /\ DOMAIN exc' = 1..1
      /\ exc'[1] = [exc[1] EXCEPT !.at = next]
  BY <1>1, GoesFacts
<1>3. exc'[1].kind = "pendsv" /\ exc'[1].ret = exc[1].ret /\ exc'[1].at = next
  BY <1>1, <1>2 DEF Active
<1>4. DOMAIN exc' = {1}
  BY <1>2
<1>5. Started' => Phase' = next
  BY <1>2, <1>3 DEF Phase
<1> QED BY <1>1, <1>2, <1>3, <1>4, <1>5

LEMMA SelectNextTaskInv ==
  ASSUME Inv, SelectNextTask
  PROVE  Inv' /\ AllSame
<1>1. Handles("pendsv", "saved") /\ Goes("selected") /\ "selected" \in Moments
      /\ UNCHANGED <<cpu, mem, monitor, fault>>
  BY DEF SelectNextTask, Moments
<1>2. PICK t \in Created : os' = [os EXCEPT !.current = t]
  BY DEF SelectNextTask
<1>3. /\ Len(exc) = 1 /\ exc # << >> /\ exc[1].kind = "pendsv" /\ Phase = "saved"
      /\ exc[1].ret \in {"thread", "secure"} /\ Started
      /\ exc' \in Seq(Active) /\ exc' # << >> /\ Len(exc') = 1 /\ DOMAIN exc' = {1}
      /\ exc'[1].kind = "pendsv" /\ exc'[1].ret = exc[1].ret /\ exc'[1].at = "selected"
      /\ Started' => Phase' = "selected"
  BY <1>1, PendSVGoes
<1>4. /\ os' \in Kernels /\ os'.top = os.top /\ os'.settings = os.settings
      /\ os'.nesting = os.nesting /\ os'.current = t
  <2>1. t \in Tasks /\ os \in Kernels
    BY DEF Created, Inv, Typed
  <2> QED BY <1>2, <2>1 DEF Kernels
<1>5. SwitchGoesOn
  BY <1>1, <1>3, <1>4 DEF SwitchGoesOn, Inv, Typed
<1>6. Started' /\ ~Live /\ Switching'
  BY <1>1, <1>3 DEF Started, Live, Switching
<1> QED BY <1>3, <1>5, <1>6, SwitchGoesOnInv

LEMMA RestoreContextInv ==
  ASSUME Inv, RestoreContext
  PROVE  Inv' /\ Idle
<1> DEFINE t == os.current
           context == Context(t)
<1>1. Handles("pendsv", "selected") /\ Goes("restored") /\ "restored" \in Moments
      /\ UNCHANGED <<mem, monitor, fault>>
  BY DEF RestoreContext, Moments
<1>2. /\ Len(exc) = 1 /\ exc # << >> /\ exc[1].kind = "pendsv" /\ Phase = "selected"
      /\ exc[1].ret \in {"thread", "secure"} /\ Started
      /\ exc' \in Seq(Active) /\ exc' # << >> /\ Len(exc') = 1 /\ DOMAIN exc' = {1}
      /\ exc'[1].kind = "pendsv" /\ exc'[1].ret = exc[1].ret /\ exc'[1].at = "restored"
      /\ Started' => Phase' = "restored"
  BY <1>1, PendSVGoes
<1>3. ~Live
  BY <1>2 DEF Live
<1>4. t \in Created /\ t \in Tasks /\ StowedAt(t) /\ Id(t) \in Threads
  BY <1>3, AwayFacts
<1>5. /\ SavedContext(t) = context /\ context \in ContextCells /\ context.psplim = t
      /\ context.secureContext = Id(t)
  BY <1>4 DEF StowedAt, SavedContext, Context, Pointer, Id
<1>6. /\ cpu' = [cpu EXCEPT !.psplim = context.psplim, !.npriv = context.npriv,
                            !.mpu = os.settings[t], !.regs = Nowhere]
      /\ os' = [os EXCEPT !.secureContext = Id(t)]
  BY <1>5 DEF RestoreContext, WithContext
<1>7. os.settings[t] \in Settings /\ os.settings[t].stack = t /\ os \in Kernels /\ cpu \in Cpus
  BY <1>4 DEF Inv, Typed, Kernels, Counted
<1>8. /\ os' \in Kernels /\ os'.top = os.top /\ os'.settings = os.settings
      /\ os'.nesting = os.nesting /\ os'.current = t /\ os'.secureContext = Id(t)
  BY <1>4, <1>6, <1>7 DEF Kernels
<1>9. /\ cpu' \in Cpus /\ cpu'.pc = cpu.pc /\ cpu'.primask = cpu.primask
      /\ cpu'.psplim = t /\ cpu'.mpu.stack = t /\ cpu'.npriv = context.npriv
  <2>1. Nowhere \in Codes /\ context.psplim \in Owners /\ context.npriv \in BOOLEAN
    BY <1>5 DEF Nowhere, At, Codes, Owners, Places, ContextCells
  <2> HIDE DEF context
  <2> QED BY <1>5, <1>6, <1>7, <2>1 DEF Cpus
<1>10. SwitchGoesOn
  BY <1>1, <1>2, <1>4, <1>8, <1>9 DEF SwitchGoesOn, Inv, Typed
<1>11. Started' /\ Context(t)' = Context(t) /\ Id(t)' = Id(t)
  BY <1>1, <1>2, <1>8, <1>9 DEF Started, Context, Id
<1>12. Switching'
  BY <1>2, <1>8, <1>9, <1>11 DEF Switching
<1> QED BY <1>2, <1>3, <1>8, <1>10, <1>12, SwitchGoesOnInv DEF Idle

LEMMA ActivateThreadInv ==
  ASSUME Inv, ActivateThread
  PROVE  Inv' /\ Idle
<1> DEFINE t == os.current
<1>1. Handles("pendsv", "activating") /\ Goes("activated") /\ "activated" \in Moments
      /\ monitor' = [monitor EXCEPT !.cur = os.secureContext]
      /\ UNCHANGED <<cpu, mem, os, fault>>
  BY DEF ActivateThread, LoadContext, Moments
<1>2. /\ Len(exc) = 1 /\ exc # << >> /\ exc[1].kind = "pendsv" /\ Phase = "activating"
      /\ exc[1].ret \in {"thread", "secure"} /\ Started
      /\ exc' \in Seq(Active) /\ exc' # << >> /\ Len(exc') = 1 /\ DOMAIN exc' = {1}
      /\ exc'[1].kind = "pendsv" /\ exc'[1].ret = exc[1].ret /\ exc'[1].at = "activated"
      /\ Started' => Phase' = "activated"
  BY <1>1, PendSVGoes
<1>3. ~Live
  BY <1>2 DEF Live
<1>4. t \in Created /\ t \in Tasks /\ Id(t) \in Threads /\ monitor \in Monitors
  BY <1>3, AwayFacts
<1>5. os.secureContext = Id(t) /\ cpu.psplim = t /\ cpu.mpu.stack = t
      /\ cpu.npriv = Context(t).npriv
  BY <1>2 DEF Inv, Switching
<1>6. /\ monitor' \in Monitors /\ monitor'.next = monitor.next /\ monitor'.ses = monitor.ses
      /\ monitor'.sec = monitor.sec /\ monitor'.cur = Id(t)
  BY <1>1, <1>4, <1>5 DEF Monitors
<1>7. SwitchGoesOn
  BY <1>1, <1>2, <1>4, <1>6 DEF SwitchGoesOn, Inv, Typed
<1>8. Started' /\ Context(t)' = Context(t) /\ Id(t)' = Id(t)
  BY <1>1, <1>2 DEF Started, Context, Id
<1>9. Switching'
  BY <1>1, <1>2, <1>5, <1>6, <1>8 DEF Switching
<1> QED BY <1>1, <1>2, <1>3, <1>7, <1>9, SwitchGoesOnInv DEF Idle

(* A handler enters or leaves a Secure function.                            *)
LEMMA PendSVGatewayInv ==
  ASSUME Inv, NEW from, NEW to,
         (from = "restored" /\ to = "activating") \/ (from = "activated" /\ to = "loaded"),
         Handles("pendsv", from), Goes(to), UNCHANGED <<cpu, mem, os, monitor, fault>>
  PROVE  Inv' /\ Idle
<1> DEFINE t == os.current
<1>1. to \in Moments
  BY DEF Moments
<1>2. /\ Len(exc) = 1 /\ exc # << >> /\ exc[1].kind = "pendsv" /\ Phase = from
      /\ exc[1].ret \in {"thread", "secure"} /\ Started
      /\ exc' \in Seq(Active) /\ exc' # << >> /\ Len(exc') = 1 /\ DOMAIN exc' = {1}
      /\ exc'[1].kind = "pendsv" /\ exc'[1].ret = exc[1].ret /\ exc'[1].at = to
      /\ Started' => Phase' = to
  BY <1>1, PendSVGoes
<1>3. ~Live
  BY <1>2 DEF Live
<1>4. t \in Created
  BY <1>3, AwayFacts
<1>5. SwitchGoesOn
  BY <1>2, <1>4 DEF SwitchGoesOn, Inv, Typed
<1>6. Started' /\ Context(t)' = Context(t) /\ Id(t)' = Id(t)
  BY <1>2 DEF Started, Context, Id
<1>7. /\ os.secureContext = Id(t) /\ cpu.psplim = t /\ cpu.mpu.stack = t
      /\ cpu.npriv = Context(t).npriv
      /\ to = "loaded" => monitor.cur = Id(t)
  BY <1>2 DEF Inv, Switching
<1>8. Switching'
  BY <1>2, <1>6, <1>7 DEF Switching
<1> QED BY <1>2, <1>3, <1>5, <1>8, SwitchGoesOnInv DEF Idle

LEMMA HandlerGatewayInv ==
  ASSUME Inv, HandlerGateway
  PROVE  Inv' /\ Idle
<1>1. UNCHANGED <<cpu, mem, os, monitor, fault>>
  BY DEF HandlerGateway
<1>2. CASE Handles("pendsv", "restored") /\ Goes("activating")
  BY <1>1, <1>2, PendSVGatewayInv
<1>3. CASE Handles("pendsv", "activated") /\ Goes("loaded")
  BY <1>1, <1>3, PendSVGatewayInv
<1>4. ASSUME NEW kind \in {"irq", "systick"}, NEW from, NEW to \in {"start", "gateway"},
             Handles(kind, from), Goes(to)
      PROVE  Inv' /\ Idle
  <2>1. cpu' = [cpu EXCEPT !.pendsv = @ \/ FALSE]
    <3>1. cpu \in Cpus
      BY DEF Inv, Typed
    <3> QED BY <1>1, <3>1 DEF Cpus
  <2> QED BY <1>1, <1>4, <2>1, HandlerInv
<1> QED BY <1>2, <1>3, <1>4 DEF HandlerGateway

(* SaveContext puts the context of the task that ran on its stack.          *)
LEMMA SaveContextInv ==
  ASSUME Inv, SaveContext
  PROVE  Inv' /\ Idle
<1> DEFINE t == os.current
           cur == monitor.cur
           n == Len(mem[t])
           d == Depth(cpu.pc.at)
           ret == exc[1].ret
           context == ContextCell(cur, t, cpu.npriv, ret)
           cells == IF UsedSecureStack(ret) THEN <<context>>
                    ELSE <<RegistersCell(cpu.regs), context>>
           new == Push(mem, Pointer(t, n), cells)
           first == monitor.ses[cur][1]
<1>1. Handles("pendsv", "start") /\ Goes("saved") /\ "saved" \in Moments
      /\ UNCHANGED <<cpu, monitor, fault>>
  BY DEF SaveContext, Moments
<1>2. /\ Len(exc) = 1 /\ exc # << >> /\ exc[1].kind = "pendsv" /\ Phase = "start"
      /\ ret \in {"thread", "secure"} /\ Started /\ Last(exc) = exc[1]
      /\ exc' \in Seq(Active) /\ exc' # << >> /\ Len(exc') = 1 /\ DOMAIN exc' = {1}
      /\ exc'[1].kind = "pendsv" /\ exc'[1].ret = ret /\ exc'[1].at = "saved"
      /\ Started' => Phase' = "saved"
  BY <1>1, PendSVGoes, PendSVAlone
<1>3. Live /\ Started' /\ ~Live' /\ Phase' = "saved"
  BY <1>1, <1>2 DEF Live, Started
<1>4. /\ t \in Created /\ t \in Tasks /\ cur \in 1..(monitor.next - 1) /\ monitor.next \in Nat
      /\ cur \in Threads /\ mem[t] \in Seq(Cells) /\ n \in Nat
      /\ Away = Created \ {t}
      /\ \A u \in Away : u \in Tasks /\ StowedAt(u) /\ Id(u) # cur /\ Id(u) \in Threads
  BY <1>3, LiveFacts
<1>5. /\ os.secureContext = cur /\ cpu.psplim = t /\ cpu.psp = Pointer(t, n)
      /\ cpu.pc.of = t /\ cpu.pc.at \in TaskPlaces
      /\ Privilege(t, mem[t], cpu.pc.at, cpu.npriv)
      /\ first.ret = ret /\ first.pc = cpu.pc
      /\ ret = "thread" =>
           /\ n = d + 1 /\ mem[t][d + 1] = FrameCell(cpu.pc)
           /\ first.sp = Pointer(t, n) /\ monitor.sec[cur] = << >>
           /\ cpu.pc.at # "fresh" => cpu.regs = cpu.pc
      /\ ret = "secure" =>
           /\ n = d /\ cpu.pc.at \in SecureCode /\ first.sp = Pointer(NoTask, 1)
           /\ monitor.sec[cur] = <<[pc |-> cpu.pc, regs |-> cpu.pc]>>
  BY <1>2, <1>3 DEF Inv, Running
<1>6. cpu \in Cpus /\ os \in Kernels /\ mem \in [Tasks -> Seq(Cells)] /\ monitor \in Monitors
  BY DEF Inv, Typed
<1>7. d \in {0, 1} /\ (d = 0 => cpu.pc.at \notin InCall)
  BY DEF Depth
<1>8. /\ context \in ContextCells /\ context \in Cells /\ context.secureContext = cur
      /\ context.psplim = t /\ context.npriv = cpu.npriv /\ context.ret = ret
  <2>1. ret \in Returns /\ t \in Owners /\ cpu.npriv \in BOOLEAN
    BY <1>2, <1>4, <1>6 DEF Returns, Owners, Cpus
  <2> HIDE DEF ret
  <2>2. context \in ContextCells /\ context \in Cells
    BY <1>4, <2>1, CellTypes
  <2> QED BY <2>2 DEF ContextCell
<1>9. RegistersCell(cpu.regs) \in RegisterCells /\ RegistersCell(cpu.regs) \in Cells
      /\ RegistersCell(cpu.regs).regs = cpu.regs
  <2>1. cpu.regs \in Codes
    BY <1>6 DEF Cpus
  <2> QED BY <2>1, CellTypes DEF RegistersCell
<1>10. /\ mem' = [mem EXCEPT ![t] = new]
       /\ os' = [os EXCEPT !.top[t] = Pointer(t, n + Len(cells))]
  <2>1. cpu.psp.of = t /\ cpu.psp.len = n
    BY <1>5 DEF Pointer
  <2> QED BY <1>2, <1>5, <2>1 DEF SaveContext
<1> HIDE DEF context
<1>11. /\ cells \in Seq(Cells)
       /\ ret = "thread" => Len(cells) = 2 /\ cells[1] = RegistersCell(cpu.regs) /\ cells[2] = context
       /\ ret = "secure" => Len(cells) = 1 /\ cells[1] = context
  <2>1. CASE ret = "secure"
    <3>1. cells = <<context>>
      BY <2>1 DEF UsedSecureStack
    <3> QED BY <1>8, <2>1, <3>1
  <2>2. CASE ret = "thread"
    <3>1. cells = <<RegistersCell(cpu.regs), context>>
      BY <2>2 DEF UsedSecureStack
    <3> QED BY <1>8, <1>9, <2>2, <3>1
  <2> QED BY <1>2, <2>1, <2>2
<1> HIDE DEF cells, ret
<1>12. /\ new \in Seq(Cells) /\ Len(new) = n + Len(cells)
       /\ \A i \in 1..n : new[i] = mem[t][i]
       /\ \A i \in 1..Len(cells) : new[n + i] = cells[i]
  BY <1>4, <1>6, <1>11, PushOnTop
<1> HIDE DEF new
<1>13. /\ Len(new) \in Nat \ {0} /\ new[Len(new)] = context
       /\ d = 1 => new[1] = mem[t][1]
       /\ ret = "thread" => /\ Len(new) = d + 3 /\ new[d + 1] = FrameCell(cpu.pc)
                            /\ new[d + 2] = RegistersCell(cpu.regs)
       /\ ret = "secure" => Len(new) = d + 1
  <2> HIDE DEF n, d
  <2>1. CASE ret = "thread"
    <3>1. n = d + 1 /\ Len(cells) = 2 /\ mem[t][d + 1] = FrameCell(cpu.pc)
      BY <1>5, <1>11, <2>1 DEF n, d
    <3>2. Len(new) = d + 3 /\ n + 2 = d + 3 /\ n + 1 = d + 2 /\ d + 1 \in 1..n /\ 1 \in 1..n
          /\ 1 \in 1..2 /\ 2 \in 1..2
      BY <1>7, <1>12, <3>1
    <3>3. new[n + 2] = context /\ new[n + 1] = RegistersCell(cpu.regs)
      BY <1>11, <1>12, <2>1, <3>1, <3>2
    <3> QED BY <1>7, <1>12, <2>1, <3>1, <3>2, <3>3
  <2>2. CASE ret = "secure"
    <3>1. n = d /\ Len(cells) = 1
      BY <1>5, <1>11, <2>2 DEF n, d
    <3>2. Len(new) = d + 1 /\ n + 1 = d + 1 /\ 1 \in 1..1 /\ (d = 1 => 1 \in 1..n)
      BY <1>7, <1>12, <3>1
    <3>3. new[n + 1] = context
      BY <1>11, <1>12, <2>2, <3>1, <3>2
    <3> QED BY <1>7, <1>12, <2>2, <3>1, <3>2, <3>3
  <2> QED BY <1>2, <2>1, <2>2
<1>14. Pointer(t, Len(new)) \in Pointers /\ Pointer(t, Len(new)).len > 0
  BY <1>4, <1>13 DEF Pointer, Pointers, Owners
<1>15. /\ os' \in Kernels /\ os'.current = t /\ os'.nesting = os.nesting
       /\ os'.settings = os.settings /\ os'.secureContext = os.secureContext
       /\ os'.top[t] = Pointer(t, Len(new))
       /\ \A u \in Tasks \ {t} : os'.top[u] = os.top[u]
  <2>1. os' = [os EXCEPT !.top[t] = Pointer(t, Len(new))]
    BY <1>10, <1>12
  <2> QED BY <1>4, <1>6, <1>14, <2>1 DEF Kernels
<1>16. /\ mem' \in [Tasks -> Seq(Cells)] /\ mem'[t] = new
       /\ \A u \in Tasks \ {t} : mem'[u] = mem[u]
  BY <1>4, <1>6, <1>10, <1>12
<1>17. Created' = Created /\ Away' = Created
  <2>1. Created' = Created
    BY <1>4, <1>14, <1>15 DEF Created
  <2> QED BY <1>3, <2>1 DEF Away
<1>18. StowedAt(t)' /\ Id(t)' = cur
  <2>1. t' = t
    BY <1>15
  <2>2. Context(t)' = context /\ Id(t)' = cur
    BY <1>8, <1>13, <1>15, <1>16 DEF Context, Id
  <2>3. FirstOf(t)' = first
    BY <1>1, <2>2 DEF FirstOf
  <2>4. Len(monitor.ses[cur]) = 1 /\ monitor.ses[cur] # << >>
    BY <1>2, ActiveFacts
  <2>5. Privilege(t, mem[t], FirstOf(t).pc.at, Context(t).npriv)'
    <3>1. Privilege(t, new, cpu.pc.at, cpu.npriv)
      BY <1>5, <1>7, <1>13 DEF Privilege
    <3> QED BY <1>5, <1>8, <1>15, <1>16, <2>2, <2>3, <3>1 DEF Privilege
  <2>6. ret = "thread" =>
          /\ OnThreadStack(mem[t], FirstOf(t).pc)'
          /\ FirstOf(t)'.sp = Pointer(t, Len(mem'[t]) - 2)
          /\ monitor'.sec[Id(t)'] = << >>
    <3> SUFFICES ASSUME ret = "thread"
                 PROVE  /\ OnThreadStack(mem[t], FirstOf(t).pc)'
                        /\ FirstOf(t)'.sp = Pointer(t, Len(mem'[t]) - 2)
                        /\ monitor'.sec[Id(t)'] = << >>
      OBVIOUS
    <3>1. /\ n = d + 1 /\ first.sp = Pointer(t, n) /\ monitor.sec[cur] = << >>
          /\ cpu.pc.at # "fresh" => cpu.regs = cpu.pc
      BY <1>5 DEF ret
    <3>2. /\ Len(new) = d + 3 /\ new[d + 1] = FrameCell(cpu.pc)
          /\ new[d + 2] = RegistersCell(cpu.regs)
      BY <1>13
    <3>3. n = Len(new) - 2
      BY <1>7, <3>1, <3>2
    <3>4. OnThreadStack(new, cpu.pc)
      BY <1>9, <3>1, <3>2 DEF OnThreadStack
    <3>5. OnThreadStack(mem[t], FirstOf(t).pc)'
      BY <1>5, <1>15, <1>16, <2>3, <3>4 DEF OnThreadStack
    <3> QED BY <1>1, <1>15, <1>16, <2>2, <2>3, <3>1, <3>3, <3>5
  <2>7. ret = "secure" =>
          /\ FirstOf(t)'.pc.at \in SecureCode
          /\ Len(mem'[t]) = Depth(FirstOf(t)'.pc.at) + 1
          /\ FirstOf(t)'.sp = Pointer(NoTask, 1)
          /\ monitor'.sec[Id(t)'] = <<[pc |-> FirstOf(t)'.pc, regs |-> FirstOf(t)'.pc]>>
    BY <1>1, <1>5, <1>13, <1>16, <2>2, <2>3 DEF ret
  <2>8. /\ os'.top[t] = Pointer(t, Len(mem'[t])) /\ Len(mem'[t]) \in Nat \ {0}
        /\ Context(t)' \in ContextCells /\ Context(t)'.psplim = t /\ Context(t)'.ret = ret
        /\ FirstOf(t)'.pc.of = t /\ FirstOf(t)'.pc.at \in TaskPlaces /\ FirstOf(t)'.ret = ret
    BY <1>5, <1>8, <1>13, <1>15, <1>16, <2>2, <2>3 DEF ret
  <2>9. /\ Id(t)' \in 1..(monitor'.next - 1) /\ monitor'.ses[Id(t)'] # << >>
        /\ Len(monitor'.ses[Id(t)']) = IF Id(t)' = monitor'.cur THEN Len(exc') ELSE 1
    BY <1>1, <1>2, <1>4, <2>2, <2>4
  <2> HIDE DEF t
  <2> QED BY <1>2, <2>1, <2>2, <2>5, <2>6, <2>7, <2>8, <2>9 DEF StowedAt
<1>19. \A u \in Away : StowedAt(u)' /\ Id(u)' = Id(u)
  <2> SUFFICES ASSUME NEW u \in Away PROVE StowedAt(u)' /\ Id(u)' = Id(u)
    OBVIOUS
  <2>1. u \in Tasks \ {t} /\ StowedAt(u) /\ Id(u) # cur
    BY <1>4
  <2>2. Kept(u)
    BY <1>1, <1>15, <1>16, <2>1 DEF Kept, StowedAt, FirstOf
  <2> QED BY <1>1, <1>4, <2>1, <2>2, KeptStowed
<1>20. Stowed'
  <2> SUFFICES ASSUME NEW u \in Created PROVE StowedAt(u)'
    BY <1>17 DEF Stowed
  <2>1. t' = t
    BY <1>15
  <2>2. CASE u = t
    BY <1>18, <2>1, <2>2
  <2>3. CASE u # t
    BY <1>4, <1>19, <2>3
  <2> QED BY <2>2, <2>3
<1>21. Distinct'
  <2>1. t' = t
    BY <1>15
  <2>2. \A u \in Created \ {t} : Id(u)' = Id(u) /\ Id(u) # cur
    BY <1>4, <1>19
  <2>3. \A u, v \in Created \ {t} : Id(u) = Id(v) => u = v
    BY <1>4 DEF Inv, Distinct
  <2>4. \A u, v \in Created : Id(u)' = Id(v)' => u = v
    BY <1>18, <2>1, <2>2, <2>3
  <2>5. ASSUME NEW i \in Threads, monitor.sec[i] # << >>
        PROVE  \E u \in Created : Id(u)' = i
    <3>1. CASE i = cur
      BY <1>4, <1>18, <2>1, <3>1
    <3>2. CASE i # cur
      <4>1. PICK u \in Away : Id(u) = i
        BY <2>5, <3>2 DEF Inv, Distinct
      <4> QED BY <1>4, <2>2, <4>1
    <3> QED BY <3>1, <3>2
  <2> QED BY <1>1, <1>3, <1>17, <2>4, <2>5 DEF Distinct
<1>22. Counted'
  <2>1. \A u \in Tasks \ Created : mem'[u] = << >>
    BY <1>4, <1>16 DEF Inv, Counted
  <2> QED BY <1>1, <1>4, <1>15, <1>17, <2>1 DEF Inv, Counted
<1>23. Typed' /\ ~fault' /\ Masked'
  BY <1>1, <1>2, <1>3, <1>15, <1>16, ActiveFacts DEF Inv, Typed, Masked
<1>24. Nested'
  BY <1>2, <1>3 DEF Nested, Stages, ret
<1>25. Tracked'
  <2>1. Len(monitor.ses[cur]) = 1
    BY <1>2, ActiveFacts
  <2>2. monitor.ses[cur][1].ret \in {"thread", "secure"}
    BY <1>2 DEF Inv, Tracked
  <2> QED BY <1>1, <1>2, <1>3, <1>4, <2>1, <2>2 DEF Tracked
<1>26. Running' /\ Switching'
  BY <1>3 DEF Running, Switching
<1>27. \A u \in Away : Same(u)
  <2> SUFFICES ASSUME NEW u \in Away PROVE Same(u)
    OBVIOUS
  <2>1. u \in Tasks \ {t} /\ StowedAt(u) /\ Id(u) # cur
    BY <1>4
  <2>2. Kept(u)
    BY <1>1, <1>15, <1>16, <2>1 DEF Kept, StowedAt, FirstOf
  <2> QED BY <1>3, <2>1, <2>2, KeptSame
<1>28. ASSUME NEW u, u = t PROVE Same(u)
  <2>1. Context(u)' = context /\ FirstOf(u)' = first
    BY <1>1, <1>8, <1>13, <1>16, <1>28 DEF Context, FirstOf, Id
  <2>2. Code(u) = cpu.pc /\ NPriv(u) = cpu.npriv
    BY <1>3, <1>28 DEF Code, NPriv
  <2>3. Code(u)' = first.pc /\ NPriv(u)' = context.npriv
    BY <1>3, <2>1 DEF Code, NPriv
  <2>4. cpu.pc.at \in InCall => mem'[u][1] = mem[u][1]
    BY <1>13, <1>16, <1>28 DEF Depth
  <2> QED BY <1>5, <1>8, <2>2, <2>3, <2>4 DEF Same
<1>29. Idle
  BY <1>4, <1>15, <1>17, <1>27, <1>28 DEF Idle, AllSame
<1> QED BY <1>20, <1>21, <1>22, <1>23, <1>24, <1>25, <1>26, <1>29 DEF Inv

----------------------------------------------------------------------------
(* The initial states. *)

LEMMA AtStartFacts ==
  /\ ToSet(AtStart) \subseteq Tasks
  /\ Len(AtStart) \in Nat /\ DOMAIN AtStart = 1..Len(AtStart)
  /\ DOMAIN AtStart \subseteq Threads \ {0} /\ 0 \in Threads
  /\ Cardinality(ToSet(AtStart)) = Len(AtStart)
  /\ \A t \in ToSet(AtStart) : IdOf(t) \in DOMAIN AtStart /\ AtStart[IdOf(t)] = t
<1>1. /\ AtStart \in Seq(Tasks) /\ Len(AtStart) \in Nat /\ DOMAIN AtStart = 1..Len(AtStart)
      /\ IsFiniteSet(Tasks)
  BY TasksAssumption
<1>2. ToSet(AtStart) \subseteq Tasks
  BY <1>1 DEF ToSet
<1>3. Cardinality(ToSet(AtStart)) = Len(AtStart)
  <2>1. AtStart \in [1..Len(AtStart) -> ToSet(AtStart)]
    BY <1>1 DEF ToSet
  <2>2. \A i, j \in 1..Len(AtStart) : AtStart[i] = AtStart[j] => i = j
    BY <1>1, TasksAssumption
  <2>3. \A t \in ToSet(AtStart) : \E i \in 1..Len(AtStart) : AtStart[i] = t
    BY <1>1 DEF ToSet
  <2>4. AtStart \in Bijection(1..Len(AtStart), ToSet(AtStart))
    BY <2>1, <2>2, <2>3, Fun_IsBij
  <2> QED BY <1>1, <2>4, FS_CountingElements DEF ExistsBijection
<1>4. Len(AtStart) <= Cardinality(Tasks) /\ Cardinality(Tasks) \in Nat
  BY <1>1, <1>2, <1>3, FS_Subset, FS_CardinalityType
<1>5. DOMAIN AtStart \subseteq Threads \ {0} /\ 0 \in Threads
  BY <1>1, <1>4 DEF Threads
<1>6. \A t \in ToSet(AtStart) : IdOf(t) \in DOMAIN AtStart /\ AtStart[IdOf(t)] = t
  BY DEF ToSet, IdOf
<1> QED BY <1>1, <1>2, <1>3, <1>5, <1>6

LEMMA InitInv ==
  ASSUME Init
  PROVE  Inv
<1> DEFINE n == Len(AtStart)
           Begun == ToSet(AtStart)
<1>1. /\ Begun \subseteq Tasks /\ n \in Nat /\ DOMAIN AtStart = 1..n
      /\ DOMAIN AtStart \subseteq Threads \ {0} /\ 0 \in Threads
      /\ Cardinality(Begun) = n
      /\ \A t \in Begun : IdOf(t) \in DOMAIN AtStart /\ AtStart[IdOf(t)] = t
  BY AtStartFacts
<1>2. PICK first \in Begun :
        os = [current |-> first, nesting |-> 0, secureContext |-> 0,
              top |-> [t \in Tasks |-> Pointer(t, Len(mem[t]))],
              settings |-> [t \in Tasks |-> IF t \in Begun
                                            THEN MPUSettings(NoSettings, {}, t, 1)
                                            ELSE NoSettings]]
  BY DEF Init
<1>3. /\ cpu = [pc |-> At(NoTask, "main"), regs |-> Nowhere, psp |-> Pointer(NoTask, 0),
                psplim |-> NoTask, npriv |-> FALSE, primask |-> TRUE, pendsv |-> FALSE,
                mpu |-> NoSettings]
      /\ exc = << >> /\ fault = FALSE
      /\ mem = [t \in Tasks |-> IF t \in Begun THEN InitialStack(t, IdOf(t)) ELSE << >>]
      /\ monitor = [cur |-> 0, next |-> n + 1,
                    ses |-> [i \in Threads |-> IF i \in DOMAIN AtStart
                                               THEN <<FirstEntry(AtStart[i])>> ELSE << >>],
                    sec |-> [i \in Threads |-> << >>]]
  BY DEF Init
<1>4. \A t \in Tasks : os.top[t] = Pointer(t, Len(mem[t]))
  <2>1. os.top = [t \in Tasks |-> Pointer(t, Len(mem[t]))]
    BY <1>2
  <2> QED BY <2>1
<1> HIDE DEF n, Begun
<1>5. \A t \in Begun : t \in Tasks /\ IdOf(t) \in Threads /\ IdOf(t) \in 1..n
                       /\ mem[t] = InitialStack(t, IdOf(t)) /\ Len(mem[t]) = 3
                       /\ mem[t] \in Seq(Cells)
  BY <1>1, <1>3, InitialStackFacts
<1>6. \A t \in Tasks \ Begun : mem[t] = << >>
  BY <1>3
<1>7. mem \in [Tasks -> Seq(Cells)]
  <2>1. \A t \in Tasks : mem[t] \in Seq(Cells)
    BY <1>5, <1>6, EmptySeq
  <2> QED BY <1>3, <2>1
<1>8. Created = Begun
  <2>1. \A t, k : Pointer(t, k).len = k
    BY DEF Pointer
  <2>2. \A t \in Tasks : os.top[t] = Pointer(t, Len(mem[t])) /\ os.top[t].len = Len(mem[t])
    BY <2>1, <1>4
  <2>3. Len(<< >>) = 0
    BY EmptySeq
  <2>4. \A t \in Begun : t \in Tasks /\ os.top[t].len > 0
    <3> SUFFICES ASSUME NEW t \in Begun PROVE t \in Tasks /\ os.top[t].len > 0
      OBVIOUS
    <3>1. t \in Tasks /\ Len(mem[t]) = 3
      BY <1>5
    <3>2. os.top[t].len = 3
      BY <2>2, <3>1
    <3> QED BY <3>1, <3>2
  <2>5. \A t \in Tasks \ Begun : ~(os.top[t].len > 0)
    BY <1>6, <2>2, <2>3
  <2> QED BY <2>4, <2>5 DEF Created
<1>9. ~Started /\ Phase = "main" /\ ~Live /\ Away = Created
  <2>1. cpu.pc.at = "main"
    BY <1>3 DEF At
  <2> QED BY <2>1 DEF Started, Phase, Live, Away
<1>10. \A t \in Begun :
        /\ monitor.ses[IdOf(t)] = <<FirstEntry(t)>> /\ monitor.sec[IdOf(t)] = << >>
  BY <1>1, <1>3
<1>11. \A t \in Begun :
         /\ StowedAt(t) /\ Id(t) = IdOf(t)
         /\ Context(t).ret = "thread" /\ FirstOf(t).pc.at = "fresh"
  <2> SUFFICES ASSUME NEW t \in Begun
               PROVE  /\ StowedAt(t) /\ Id(t) = IdOf(t)
                      /\ Context(t).ret = "thread" /\ FirstOf(t).pc.at = "fresh"
    OBVIOUS
  <2> DEFINE id == IdOf(t)
  <2>1. t \in Tasks /\ id \in Threads /\ id \in 1..n /\ mem[t] = InitialStack(t, id)
    BY <1>5
  <2>2. /\ Len(mem[t]) = 3 /\ mem[t][1] = FrameCell(At(t, "fresh")) /\ mem[t][2] \in RegisterCells
        /\ Context(t) = mem[t][3] /\ Context(t) \in ContextCells /\ Id(t) = id
        /\ Context(t).psplim = t /\ Context(t).npriv = (t \notin Privileged)
        /\ Context(t).ret = "thread"
    BY <2>1, InitialStackFacts DEF Context, Id
  <2>3. monitor.ses[id] = <<FirstEntry(t)>> /\ monitor.sec[id] = << >>
    BY <1>10
  <2> HIDE DEF id
  <2>4. /\ FirstOf(t) = FirstEntry(t) /\ monitor.ses[id] # << >> /\ Len(monitor.ses[id]) = 1
        /\ FirstEntry(t).ret = "thread"
        /\ FirstEntry(t).pc = At(t, "fresh") /\ FirstEntry(t).pc.of = t
        /\ FirstEntry(t).pc.at = "fresh" /\ FirstEntry(t).sp = Pointer(t, 1)
    BY <2>1, <2>2, <2>3, FirstEntryFacts DEF FirstOf
  <2>5. OnThreadStack(mem[t], FirstOf(t).pc)
    BY <2>2, <2>4 DEF OnThreadStack, Depth, InCall
  <2>6. Privilege(t, mem[t], FirstOf(t).pc.at, Context(t).npriv)
    BY <2>2, <2>4 DEF Privilege, InCall, MayBePrivileged
  <2>7. FirstOf(t).pc.at \in TaskPlaces /\ FirstOf(t).sp = Pointer(t, Len(mem[t]) - 2)
    BY <2>2, <2>4 DEF TaskPlaces
  <2>8. os.top[t] = Pointer(t, Len(mem[t])) /\ Len(mem[t]) \in Nat \ {0}
    <3>1. os.top[t] = Pointer(t, Len(mem[t]))
      BY <1>4, <2>1
    <3>2. Len(mem[t]) \in Nat \ {0}
      BY <2>2
    <3> QED BY <3>1, <3>2
  <2>9. monitor.cur = 0 /\ monitor.next - 1 = n /\ id # monitor.cur
    BY <1>1, <1>3, <2>1
  <2> QED BY <2>1, <2>2, <2>3, <2>4, <2>5, <2>6, <2>7, <2>8, <2>9 DEF StowedAt, id
<1>12. Stowed /\ Distinct
  <2>1. \A t, u \in Begun : IdOf(t) = IdOf(u) => t = u
    BY <1>1
  <2>2. \A i \in Threads : monitor.sec[i] = << >>
    BY <1>3
  <2> QED BY <1>8, <1>9, <1>11, <2>1, <2>2 DEF Stowed, Distinct
<1>13. Counted
  <2>1. os.current \in Begun
    BY <1>2
  <2>2. \A t \in Begun : os.settings[t].stack = t
    BY <1>1, <1>2 DEF MPUSettings
  <2>3. monitor.next = Cardinality(Begun) + 1
    BY <1>1, <1>3
  <2>4. ASSUME NEW i \in Threads, i >= monitor.next
        PROVE  monitor.ses[i] = << >> /\ monitor.sec[i] = << >>
    <3>1. i \notin DOMAIN AtStart
      BY <1>1, <1>3, <2>4
    <3> QED BY <1>3, <3>1
  <2> QED BY <1>6, <1>8, <2>1, <2>2, <2>3, <2>4 DEF Counted
<1>14. Typed
  <2>1. cpu \in Cpus
    <3>1. At(NoTask, "main") \in Codes /\ Nowhere \in Codes
      BY DEF At, Nowhere, Codes, Owners, Places
    <3>2. Pointer(NoTask, 0) \in Pointers /\ NoTask \in Owners
      BY DEF Pointer, Pointers, Owners
    <3>3. NoSettings \in Settings
      BY DEF NoSettings, Settings, Owners
    <3> QED BY <1>3, <3>1, <3>2, <3>3 DEF Cpus
  <2>2. exc \in Seq(Active) /\ fault \in BOOLEAN
    BY <1>3, EmptySeq
  <2>3. os \in Kernels
    <3>1. \A t \in Tasks : Pointer(t, Len(mem[t])) \in Pointers
      BY <1>7 DEF Pointer, Pointers, Owners
    <3>2. \A t \in Tasks : MPUSettings(NoSettings, {}, t, 1) \in Settings /\ NoSettings \in Settings
      BY DEF MPUSettings, NoSettings, Settings, Owners
    <3> QED BY <1>1, <1>2, <3>1, <3>2 DEF Kernels
  <2>4. monitor \in Monitors
    <3>1. \A i \in DOMAIN AtStart : AtStart[i] \in Tasks
      BY TasksAssumption
    <3>2. \A i \in Threads : (IF i \in DOMAIN AtStart THEN <<FirstEntry(AtStart[i])>> ELSE << >>)
                             \in Seq(Entries)
      BY <3>1, FirstEntryFacts, EmptySeq
    <3>3. << >> \in Seq(Secured) /\ n + 1 \in Nat
      BY <1>1, EmptySeq
    <3> QED BY <1>1, <1>3, <3>2, <3>3 DEF Monitors
  <2> QED BY <1>7, <2>1, <2>2, <2>3, <2>4 DEF Typed
<1>15. DOMAIN exc = {} /\ os.nesting = 0
  BY <1>2, <1>3, EmptySeq
<1>16. Nested /\ Masked
  BY <1>3, <1>9, <1>15 DEF Nested, Masked, At
<1>17. Tracked
  <2>1. monitor.cur = 0 /\ monitor.ses[0] = << >>
    BY <1>1, <1>3
  <2> QED BY <1>9, <1>15, <2>1 DEF Tracked
<1>18. Running /\ Switching
  BY <1>8, <1>9, <1>11 DEF Running, Switching
<1> QED BY <1>3, <1>12, <1>13, <1>14, <1>16, <1>17, <1>18 DEF Inv

----------------------------------------------------------------------------
(* Every step. *)

LEMMA StutterInv ==
  ASSUME Inv, UNCHANGED vars
  PROVE  Inv'
<1> USE DEF vars
<1>1. Phase' = Phase /\ Live' = Live /\ Created' = Created /\ Away' = Away /\ Started' = Started
  BY DEF Phase, Live, Created, Away, Started
<1>2. \A t : Context(t)' = Context(t) /\ Id(t)' = Id(t) /\ FirstOf(t)' = FirstOf(t)
  BY DEF Context, Id, FirstOf
<1>3. \A t : StowedAt(t)' = StowedAt(t)
  BY DEF StowedAt, Context, Id, FirstOf, OnThreadStack, Privilege
<1>4. Typed' /\ ~fault' /\ Nested' /\ Masked' /\ Counted'
  BY <1>1 DEF Inv, Typed, Nested, Masked, Counted
<1>5. Stowed' /\ Distinct' /\ Tracked' /\ Running'
  BY <1>1, <1>2, <1>3 DEF Inv, Stowed, Distinct, Tracked, Running, Privilege
<1>6. Switching'
  BY <1>1, <1>2 DEF Inv, Switching
<1> QED BY <1>4, <1>5, <1>6 DEF Inv

LEMMA ExceptionsInv ==
  ASSUME Inv, Exceptions
  PROVE  (Inv' /\ (Idle \/ (AllSame /\ os.nesting = 0))) \/ (Missed' /\ Hidden)
<1>1. CASE Interrupt
  <2>1. "irq" \in Kinds /\ MayTake("irq") /\ Enter("irq")
    BY <1>1 DEF Interrupt, Kinds
  <2> QED BY <2>1, EnterInv
<1>2. CASE SysTick
  <2>1. "systick" \in Kinds /\ MayTake("systick") /\ Enter("systick")
    BY <1>2 DEF SysTick, Kinds
  <2> QED BY <2>1, EnterInv
<1>3. CASE PendSV
  <2>1. "pendsv" \in Kinds /\ MayTake("pendsv") /\ Enter("pendsv")
    BY <1>3 DEF PendSV, Kinds
  <2> QED BY <2>1, EnterInv
<1>4. CASE InterruptHandler
  <2>1. PICK b \in BOOLEAN : cpu' = [cpu EXCEPT !.pendsv = @ \/ b]
    BY <1>4 DEF InterruptHandler
  <2>2. Handles("irq", "start") /\ Goes("done") /\ UNCHANGED <<mem, os, monitor, fault>>
    BY <1>4 DEF InterruptHandler
  <2> QED BY <2>1, <2>2, HandlerInv
<1>5. CASE SysTickHandler
  <2>1. PICK b \in BOOLEAN : cpu' = [cpu EXCEPT !.pendsv = @ \/ b]
    BY <1>5 DEF SysTickHandler
  <2>2. Handles("systick", "start") /\ Goes("done") /\ UNCHANGED <<mem, os, monitor, fault>>
    BY <1>5 DEF SysTickHandler
  <2> QED BY <2>1, <2>2, HandlerInv
<1>6. CASE ExceptionReturn
  BY <1>6, ExceptionReturnInv
<1>7. CASE SaveContext
  BY <1>7, SaveContextInv
<1>8. CASE SelectNextTask
  <2>1. Inv' /\ AllSame
    BY <1>8, SelectNextTaskInv
  <2>2. os.nesting = 0
    BY <1>8, ActiveFacts DEF SelectNextTask, Handles
  <2> QED BY <2>1, <2>2
<1>9. CASE RestoreContext
  BY <1>9, RestoreContextInv
<1>10. CASE ActivateThread
  BY <1>10, ActivateThreadInv
<1>11. CASE LeavePendSV
  BY <1>11, LeavePendSVInv
<1>12. CASE HandlerGateway
  BY <1>12, HandlerGatewayInv
<1> QED BY <1>1, <1>2, <1>3, <1>4, <1>5, <1>6, <1>7, <1>8, <1>9, <1>10, <1>11, <1>12
        DEF Exceptions

LEMMA TaskInv ==
  ASSUME Inv, NEW t \in Tasks, Task(t)
  PROVE  Inv' /\ (TaskStep(t) \/ \E u \in Tasks : Creates(u))
<1>1. CASE Begin(t)
  BY <1>1, BeginInv
<1>2. CASE RaiseBySVC(t, "raise") \/ RaiseBySVC(t, "app")
  BY <1>2, RaiseBySVCInv
<1>3. CASE RaiseBySecure(t)
  BY <1>3, RaiseBySecureInv
<1>4. CASE Gateway(t)
  BY <1>4, GatewayInv
<1>5. CASE ResetPrivilege(t)
  BY <1>5, ResetPrivilegeInv
<1>6. CASE DropPrivilege(t)
  BY <1>6, DropPrivilegeInv
<1>7. CASE Yield(t)
  BY <1>7, YieldInv
<1>8. CASE EnterCritical(t)
  BY <1>8, EnterCriticalInv
<1>9. CASE ExitCritical(t)
  BY <1>9, ExitCriticalInv
<1>10. CASE \E effect \in Effects : SystemCall(t, effect)
  BY <1>10, SystemCallInv
<1>11. CASE \E u \in Tasks, regions \in SUBSET Buffers :
              CreateTask(t, u, regions) \/ AllocateMPURegions(t, u, regions)
  BY <1>11, CreateTaskInv, AllocateMPURegionsInv
<1> QED BY <1>1, <1>2, <1>3, <1>4, <1>5, <1>6, <1>7, <1>8, <1>9, <1>10, <1>11 DEF Task

----------------------------------------------------------------------------
(* After an interrupt that was not recorded only handlers run, until one is *)
(* left with what was recorded for another.                                 *)

LEMMA MissedFacts ==
  ASSUME Missed
  PROVE  /\ Typed /\ Started /\ exc \in Seq(Active) /\ exc # << >>
         /\ \A k \in DOMAIN exc \ {1} : exc[k].kind = "irq"
         /\ \E n \in Nat, j \in Nat, m \in Nat, l \in Nat, s \in Seq(Entries) :
              /\ n = Len(exc) /\ DOMAIN exc = 1..n /\ 2 <= j /\ j <= n
              /\ Last(exc) = exc[n] /\ exc[n].kind = "irq"
              /\ s = monitor.ses[monitor.cur] /\ s # << >>
              /\ 1 <= m /\ m <= l /\ l = Len(s) /\ l = m + (n - j) /\ DOMAIN s = 1..l
              /\ Last(s) = s[l] /\ s[l] \in Entries
              /\ Matches(exc, s, j, m) /\ (fault => j = n)
<1>1. PICK j \in DOMAIN exc \ {1}, m \in DOMAIN monitor.ses[monitor.cur] :
        Matches(exc, monitor.ses[monitor.cur], j, m) /\ (fault => j = Len(exc))
  BY DEF Missed
<1>2. /\ Typed /\ Started /\ exc \in Seq(Active)
      /\ \A k \in DOMAIN exc \ {1} : exc[k].kind = "irq"
      /\ monitor.ses[monitor.cur] \in Seq(Entries)
  BY DEF Missed, Typed, Monitors
<1>3. exc # << >> /\ Len(exc) \in Nat /\ DOMAIN exc = 1..Len(exc)
  BY <1>1, <1>2
<1>4. Last(exc) = exc[Len(exc)]
  BY <1>2, <1>3, TopOf
<1>5. j \in Nat /\ 2 <= j /\ j <= Len(exc) /\ exc[Len(exc)].kind = "irq"
  BY <1>1, <1>2, <1>3
<1>6. PICK s \in Seq(Entries) : s = monitor.ses[monitor.cur]
  BY <1>2
<1>7. s # << >> /\ Len(s) \in Nat /\ DOMAIN s = 1..Len(s) /\ m \in Nat /\ 1 <= m /\ m <= Len(s)
  BY <1>1, <1>6
<1>8. Last(s) = s[Len(s)] /\ s[Len(s)] \in Entries
  BY <1>6, <1>7, TopOf
<1>9. Matches(exc, s, j, m)
  BY <1>1, <1>6
<1>10. Len(s) = m + (Len(exc) - j)
  <2>1. Len(s) - m = Len(exc) - j
    BY <1>9 DEF Matches
  <2> QED BY <1>3, <1>5, <1>7, <2>1
<1> QED BY <1>1, <1>2, <1>3, <1>4, <1>5, <1>6, <1>7, <1>8, <1>9, <1>10

LEMMA MissedEnter ==
  ASSUME Missed, NEW kind \in Kinds, MayTake(kind), Enter(kind)
  PROVE  Missed' /\ Hidden
<1>1. PICK n \in Nat, j \in Nat, m \in Nat, l \in Nat, s \in Seq(Entries) :
        /\ n = Len(exc) /\ DOMAIN exc = 1..n /\ 2 <= j /\ j <= n
        /\ Last(exc) = exc[n] /\ exc[n].kind = "irq"
        /\ s = monitor.ses[monitor.cur] /\ s # << >>
        /\ 1 <= m /\ m <= l /\ l = Len(s) /\ l = m + (n - j) /\ DOMAIN s = 1..l
        /\ Last(s) = s[l] /\ s[l] \in Entries
        /\ Matches(exc, s, j, m) /\ (fault => j = n)
  BY MissedFacts
<1>2. /\ Typed /\ Started /\ exc \in Seq(Active) /\ exc # << >>
      /\ \A k \in DOMAIN exc \ {1} : exc[k].kind = "irq"
  BY MissedFacts
<1>3. /\ ~fault /\ ReturnKind \in ToHandlers
      /\ Entry \in Entries /\ Entry.ret = ReturnKind /\ Entry.sp.len = n
      /\ exc' \in Seq(Active) /\ exc' # << >>
      /\ Len(exc') = n + 1 /\ DOMAIN exc' = 1..(n + 1)
      /\ \A k \in 1..n : exc'[k] = exc[k]
      /\ exc'[n + 1] = [kind |-> "irq", at |-> "start", ret |-> ReturnKind]
      /\ UNCHANGED <<mem, os, fault>>
      /\ cpu' \in Cpus /\ cpu'.pc = cpu.pc /\ cpu'.npriv = cpu.npriv
      /\ monitor' \in Monitors /\ monitor'.cur = monitor.cur /\ monitor'.sec = monitor.sec
      /\ monitor'.ses[monitor.cur] = Recorded(s)
  BY <1>1, <1>2, EnterHandlerFacts
<1>4. Hidden
  BY <1>2, <1>3 DEF Hidden
<1>5. CASE IsDummy(s[l].ret) /\ IsDummy(ReturnKind)
  <2>1. s[l].ret \in ToHandlers => s[l].sp.len < n
    <3>0. s[l].sp.len \in Nat
      BY <1>1 DEF Entries, Pointers
    <3>1. CASE j = n
      <4>1. l = m
        BY <1>1, <3>1
      <4>2. s[l].ret \in ToHandlers => s[l].sp.len < n - 1
        BY <1>1, <3>1, <4>1 DEF Matches, IsDummy
      <4> QED BY <3>0, <4>2
    <3>2. CASE j # n
      <4>1. n \in (j + 1)..Len(exc)
        BY <1>1, <3>2
      <4>2. s[m + (n - j)].sp.len = n - 1
        BY <1>1, <4>1 DEF Matches, IsDummy
      <4> QED BY <1>1, <4>2
    <3> QED BY <3>1, <3>2
  <2>2. l \in Nat \ {0} /\ Len(exc) = n
    BY <1>1
  <2> QED BY <1>1, <1>2, <1>4, <1>5, <2>1, <2>2, UnrecordedMissed
<1>6. CASE ~(IsDummy(s[l].ret) /\ IsDummy(ReturnKind))
  <2> DEFINE a == Append(s, Entry)
  <2>1. monitor'.ses[monitor.cur] = a
    BY <1>1, <1>3, <1>6 DEF Recorded
  <2>2. /\ Len(a) = l + 1 /\ DOMAIN a = 1..(l + 1)
        /\ \A k \in 1..l : a[k] = s[k]
        /\ a[l + 1] = Entry
    <3>1. s \in Seq(Entries) /\ Entry \in Entries /\ l = Len(s)
      BY <1>1, <1>3
    <3> QED BY ONLY <3>1, Appended
  <2> HIDE DEF a
  <2>3. exc'[j] = exc[j] /\ a[m] = s[m]
    <3>1. j \in 1..n /\ m \in 1..l
      <4>1. 2 <= j /\ j <= n /\ 1 <= m /\ m <= l /\ {j, m, n, l} \subseteq Nat
        BY <1>1
      <4> QED BY ONLY <4>1
    <3>2. \A k \in 1..n : exc'[k] = exc[k]
      BY <1>3
    <3>3. \A k \in 1..l : a[k] = s[k]
      BY <2>2
    <3> QED BY ONLY <3>1, <3>2, <3>3
  <2>4. ASSUME NEW k \in (j + 1)..(n + 1)
        PROVE  /\ a[m + (k - j)].ret = exc'[k].ret /\ exc'[k].ret \in ToHandlers
               /\ a[m + (k - j)].sp.len = k - 1
    <3>1. CASE k = n + 1
      <4>1. m + (k - j) = l + 1 /\ k - 1 = n
        BY <1>1, <3>1
      <4>2. a[m + (k - j)] = Entry
        BY <2>2, <4>1
      <4>3. exc'[k].ret = ReturnKind
        BY <1>3, <3>1
      <4> QED BY <1>3, <4>1, <4>2, <4>3
    <3>2. CASE k # n + 1
      <4>1. /\ k \in (j + 1)..n /\ k \in 1..n /\ k \in (j + 1)..Len(exc)
            /\ m + (k - j) \in 1..l
        BY <1>1, <3>2
      <4>2. /\ s[m + (k - j)].ret = exc[k].ret /\ exc[k].ret \in ToHandlers
            /\ s[m + (k - j)].sp.len = k - 1
        BY <1>1, <4>1 DEF Matches, IsDummy
      <4> QED BY <1>3, <2>2, <4>1, <4>2
    <3> QED BY <3>1, <3>2
  <2>5. Len(a) - m = Len(exc') - j
    BY <1>1, <1>3, <2>2
  <2>6. Matches(exc', a, j, m)
    BY <1>1, <1>3, <2>3, <2>4, <2>5 DEF Matches, IsDummy
  <2>7. /\ j \in DOMAIN exc' \ {1} /\ m \in DOMAIN a
        /\ \A k \in DOMAIN exc' \ {1} : exc'[k].kind = "irq"
    <3>1. j \in DOMAIN exc' \ {1} /\ m \in DOMAIN a
      BY <1>1, <1>3, <2>2
    <3>2. ASSUME NEW k \in 2..(n + 1) PROVE exc'[k].kind = "irq"
      <4>1. CASE k = n + 1
        BY <1>3, <4>1
      <4>2. CASE k # n + 1
        <5>1. n \in Nat /\ k \in 1..n /\ k # 1
          <6>1. n \in Nat /\ k \in 2..(n + 1) /\ k # n + 1
            BY <4>2
          <6> QED BY ONLY <6>1
        <5>2. k \in DOMAIN exc \ {1}
          BY <1>1, <5>1
        <5> QED BY <1>2, <1>3, <5>1, <5>2
      <4> QED BY <4>1, <4>2
    <3> QED BY <1>3, <3>1, <3>2
  <2>8. Typed' /\ Started'
    BY <1>2, <1>3 DEF Typed, Started
  <2>9. Missed'
    BY <1>3, <2>1, <2>6, <2>7, <2>8 DEF Missed
  <2> QED BY <1>4, <2>9
<1> QED BY <1>5, <1>6

LEMMA MissedReturn ==
  ASSUME Missed, ExceptionReturn
  PROVE  Missed' /\ Hidden
<1>1. PICK n \in Nat, j \in Nat, m \in Nat, l \in Nat, s \in Seq(Entries) :
        /\ n = Len(exc) /\ DOMAIN exc = 1..n /\ 2 <= j /\ j <= n
        /\ Last(exc) = exc[n] /\ exc[n].kind = "irq"
        /\ s = monitor.ses[monitor.cur] /\ s # << >>
        /\ 1 <= m /\ m <= l /\ l = Len(s) /\ l = m + (n - j) /\ DOMAIN s = 1..l
        /\ Last(s) = s[l] /\ s[l] \in Entries
        /\ Matches(exc, s, j, m) /\ (fault => j = n)
  BY MissedFacts
<1>2. /\ Typed /\ Started /\ exc \in Seq(Active) /\ exc # << >>
      /\ \A k \in DOMAIN exc \ {1} : exc[k].kind = "irq"
  BY MissedFacts
<1>3. ~fault /\ Return(cpu, monitor, exc) /\ os' = os
  BY DEF ExceptionReturn
<1>4. CASE j = n
  <2>1. l = m /\ n - 1 > 0
    BY <1>1, <1>4
  <2>2. s[l].ret \in {"secure", "secure_handler"}
    BY <1>1, <2>1 DEF Matches, IsDummy
  <2>3. s[l].ret \in ToHandlers => s[l].sp.len # n - 1
    <3>1. s[l].sp.len \in Nat
      BY <1>1 DEF Entries, Pointers
    <3>2. s[l].ret \in ToHandlers => s[l].sp.len < n - 1
      BY <1>1, <1>4, <2>1 DEF Matches, IsDummy
    <3> QED BY <3>1, <3>2
  <2>4. ~Intact(cpu, monitor, s[l], n - 1)
    <3>1. CASE s[l].ret = "secure"
      BY <2>1, <3>1 DEF Intact
    <3>2. CASE s[l].ret = "secure_handler"
      BY <2>3, <3>2 DEF Intact, ToHandlers
    <3> QED BY <2>2, <3>1, <3>2
  <2>5. fault' = TRUE /\ UNCHANGED <<cpu, exc, mem, monitor>>
    BY <1>1, <1>3, <2>4 DEF Return
  <2>6. Typed' /\ Started'
    BY <1>2, <1>3, <2>5 DEF Typed, Started
  <2>7. j \in DOMAIN exc \ {1} /\ m \in DOMAIN s
    BY <1>1
  <2>8. Missed'
    BY <1>1, <1>2, <1>4, <2>5, <2>6, <2>7 DEF Missed
  <2> QED BY <1>2, <1>3, <2>5, <2>8 DEF Hidden
<1>5. CASE j # n
  <2> DEFINE a == Front(s)
  <2>1. n \in (j + 1)..Len(exc) /\ n > 1
    BY <1>1, <1>5
  <2>2. s[l].ret \in ToHandlers /\ s[l].sp.len = n - 1
    <3>1. LET e == s[m + (n - j)]
          IN  e.ret = exc[n].ret /\ exc[n].ret \in ToHandlers /\ e.sp.len = n - 1
      BY <1>1, <2>1 DEF Matches, IsDummy
    <3> QED BY <1>1, <3>1
  <2>3. /\ exc' \in Seq(Active) /\ exc' # << >> /\ Len(exc') = n - 1 /\ DOMAIN exc' = 1..(n - 1)
        /\ \A k \in 1..(n - 1) : exc'[k] = exc[k]
        /\ UNCHANGED <<cpu, mem, fault>>
        /\ monitor' \in Monitors /\ monitor'.cur = monitor.cur /\ monitor'.sec = monitor.sec
        /\ monitor'.ses[monitor.cur] = a /\ Len(a) = l - 1
        /\ \A k \in 1..(l - 1) : a[k] = s[k]
    <3>1. Last(s) = s[l]
      BY <1>1
    <3> QED BY <1>1, <1>2, <1>3, <2>1, <2>2, <3>1, ReturnToHandlerFacts
  <2>4. a \in Seq(Entries)
    BY <1>1, FrontOf
  <2> HIDE DEF a
  <2>5. DOMAIN a = 1..(l - 1) /\ j \in 1..(n - 1) /\ m \in 1..(l - 1) /\ j # 1
    BY <1>1, <1>5, <2>3, <2>4
  <2>6. Matches(exc', a, j, m)
    <3>1. exc'[j] = exc[j] /\ a[m] = s[m]
      BY <2>3, <2>5
    <3>2. Len(a) - m = Len(exc') - j
      BY <1>1, <2>3
    <3>3. ASSUME NEW k \in (j + 1)..(n - 1)
          PROVE  /\ a[m + (k - j)].ret = exc'[k].ret /\ exc'[k].ret \in ToHandlers
                 /\ a[m + (k - j)].sp.len = k - 1
      <4>1. /\ k \in 1..(n - 1) /\ k \in (j + 1)..Len(exc) /\ m + (k - j) \in 1..(l - 1)
        BY <1>1
      <4>2. /\ s[m + (k - j)].ret = exc[k].ret /\ exc[k].ret \in ToHandlers
            /\ s[m + (k - j)].sp.len = k - 1
        BY <1>1, <4>1 DEF Matches, IsDummy
      <4> QED BY <2>3, <4>1, <4>2
    <3> QED BY <1>1, <2>3, <3>1, <3>2, <3>3 DEF Matches, IsDummy
  <2>7. \A k \in DOMAIN exc' \ {1} : exc'[k].kind = "irq"
    <3>1. ASSUME NEW k \in 2..(n - 1) PROVE exc'[k].kind = "irq"
      <4>1. k \in 1..(n - 1) /\ k \in DOMAIN exc \ {1}
        BY <1>1
      <4> QED BY <1>2, <2>3, <4>1
    <3> QED BY <2>3, <3>1
  <2>8. Typed' /\ Started'
    BY <1>2, <1>3, <2>3 DEF Typed, Started
  <2>9. j \in DOMAIN exc' \ {1} /\ m \in DOMAIN a
    BY <2>3, <2>5
  <2>10. Missed'
    BY <1>3, <2>3, <2>6, <2>7, <2>8, <2>9 DEF Missed
  <2> QED BY <1>2, <1>3, <2>3, <2>10 DEF Hidden
<1> QED BY <1>4, <1>5

LEMMA MissedGoes ==
  ASSUME Missed, NEW at \in Moments, Goes(at), UNCHANGED <<mem, os, monitor, fault>>,
         NEW b \in BOOLEAN, cpu' = [cpu EXCEPT !.pendsv = @ \/ b]
  PROVE  Missed' /\ Hidden
<1>1. PICK n \in Nat, j \in Nat, m \in Nat, l \in Nat, s \in Seq(Entries) :
        /\ n = Len(exc) /\ DOMAIN exc = 1..n /\ 2 <= j /\ j <= n
        /\ Last(exc) = exc[n] /\ exc[n].kind = "irq"
        /\ s = monitor.ses[monitor.cur] /\ s # << >>
        /\ 1 <= m /\ m <= l /\ l = Len(s) /\ l = m + (n - j) /\ DOMAIN s = 1..l
        /\ Last(s) = s[l] /\ s[l] \in Entries
        /\ Matches(exc, s, j, m) /\ (fault => j = n)
  BY MissedFacts
<1>2. /\ Typed /\ Started /\ exc \in Seq(Active) /\ exc # << >>
      /\ \A k \in DOMAIN exc \ {1} : exc[k].kind = "irq"
  BY MissedFacts
<1>3. /\ exc' \in Seq(Active) /\ exc' # << >> /\ Len(exc') = n /\ DOMAIN exc' = 1..n
      /\ \A k \in 1..n : k # n => exc'[k] = exc[k]
      /\ exc'[n] = [exc[n] EXCEPT !.at = at]
  BY <1>1, <1>2, GoesFacts
<1>4. \A k \in 1..n : exc'[k].kind = exc[k].kind /\ exc'[k].ret = exc[k].ret
  <2>1. exc[n] \in Active
    BY <1>1, <1>2
  <2>2. exc'[n].kind = exc[n].kind /\ exc'[n].ret = exc[n].ret
    BY <1>3, <2>1 DEF Active
  <2> QED BY <1>3, <2>2
<1>5. cpu' \in Cpus /\ cpu'.pc = cpu.pc /\ cpu'.npriv = cpu.npriv
  <2>1. cpu \in Cpus /\ (cpu.pendsv \/ b) \in BOOLEAN
    BY <1>2 DEF Typed, Cpus
  <2> QED BY <2>1 DEF Cpus
<1>6. Matches(exc', s, j, m)
  <2>1. exc'[j].ret = exc[j].ret /\ Len(exc') = Len(exc)
    BY <1>1, <1>3, <1>4
  <2>2. ASSUME NEW k \in (j + 1)..Len(exc)
        PROVE  /\ s[m + (k - j)].ret = exc'[k].ret /\ exc'[k].ret \in ToHandlers
               /\ s[m + (k - j)].sp.len = k - 1
    <3>1. exc'[k].ret = exc[k].ret
      BY <1>1, <1>4
    <3> QED BY <1>1, <3>1 DEF Matches, IsDummy
  <2> QED BY <1>1, <2>1, <2>2 DEF Matches, IsDummy
<1>7. Typed' /\ Started'
  BY <1>2, <1>3, <1>5 DEF Typed, Started
<1>8. j \in DOMAIN exc' \ {1} /\ m \in DOMAIN s
  BY <1>1, <1>3
<1>9. \A k \in DOMAIN exc' \ {1} : exc'[k].kind = "irq"
  BY <1>1, <1>2, <1>3, <1>4
<1>10. Missed'
  BY <1>1, <1>3, <1>6, <1>7, <1>8, <1>9 DEF Missed
<1> QED BY <1>2, <1>3, <1>5, <1>10 DEF Hidden

(* Thread code does not run while an exception is active.                   *)
LEMMA TaskRuns ==
  ASSUME NEW t \in Tasks, Task(t)
  PROVE  exc = << >>
<1>1. \A location : Runs(t, location) => exc = << >>
  BY DEF Runs
<1>2. \A effects : Kernel(t, effects) => exc = << >>
  BY <1>1 DEF Kernel
<1>3. Begin(t) \/ RaiseBySVC(t, "raise") \/ RaiseBySVC(t, "app") => exc = << >>
  BY <1>1 DEF Begin, RaiseBySVC
<1>4. RaiseBySecure(t) \/ Gateway(t) => exc = << >>
  BY <1>1 DEF RaiseBySecure, Gateway
<1>5. ResetPrivilege(t) \/ DropPrivilege(t) => exc = << >>
  BY <1>1 DEF ResetPrivilege, DropPrivilege
<1>6. Yield(t) \/ EnterCritical(t) \/ ExitCritical(t) => exc = << >>
  BY <1>2 DEF Yield, EnterCritical, ExitCritical
<1>7. ASSUME NEW effect, SystemCall(t, effect) PROVE exc = << >>
  BY <1>1, <1>7 DEF SystemCall
<1>8. ASSUME NEW u, NEW regions, CreateTask(t, u, regions) \/ AllocateMPURegions(t, u, regions)
      PROVE  exc = << >>
  BY <1>1, <1>8 DEF CreateTask, AllocateMPURegions
<1> QED BY <1>3, <1>4, <1>5, <1>6, <1>7, <1>8 DEF Task

LEMMA MissedInv ==
  ASSUME Missed, [Next]_vars
  PROVE  Missed' /\ (Hidden \/ UNCHANGED vars)
<1>1. Typed /\ Started /\ exc # << >> /\ Last(exc).kind = "irq"
  BY MissedFacts
<1>2. CASE StartFirstTask
  BY <1>1, <1>2 DEF StartFirstTask
<1>3. CASE Interrupt \/ SysTick \/ PendSV
  <2>1. PICK kind \in Kinds : MayTake(kind) /\ Enter(kind)
    BY <1>3 DEF Interrupt, SysTick, PendSV, Kinds
  <2> QED BY <2>1, MissedEnter
<1>4. CASE InterruptHandler
  <2>1. PICK b \in BOOLEAN : cpu' = [cpu EXCEPT !.pendsv = @ \/ b]
    BY <1>4 DEF InterruptHandler
  <2>2. "done" \in Moments /\ Goes("done") /\ UNCHANGED <<mem, os, monitor, fault>>
    BY <1>4 DEF InterruptHandler, Moments
  <2> QED BY <2>1, <2>2, MissedGoes
<1>5. CASE HandlerGateway
  <2>1. PICK to \in {"start", "gateway"} : Goes(to)
    BY <1>1, <1>5 DEF HandlerGateway, Handles
  <2>2. to \in Moments /\ UNCHANGED <<cpu, mem, os, monitor, fault>>
    BY <1>5 DEF HandlerGateway, Moments
  <2>3. cpu' = [cpu EXCEPT !.pendsv = @ \/ FALSE]
    <3>1. cpu \in Cpus
      BY <1>1 DEF Typed
    <3> QED BY <2>2, <3>1 DEF Cpus
  <2> QED BY <2>1, <2>2, <2>3, MissedGoes
<1>6. CASE ExceptionReturn
  BY <1>6, MissedReturn
<1>7. CASE SysTickHandler \/ SaveContext \/ SelectNextTask \/ RestoreContext \/ ActivateThread
             \/ LeavePendSV
  BY <1>1, <1>7 DEF SysTickHandler, SaveContext, SelectNextTask, RestoreContext,
                    ActivateThread, LeavePendSV, Handles
<1>8. CASE \E t \in Tasks : Task(t)
  BY <1>1, <1>8, TaskRuns
<1>9. CASE UNCHANGED vars
  <2>1. Missed'
    BY <1>9 DEF vars, Missed, Typed, Started, Matches, IsDummy
  <2> QED BY <1>9, <2>1
<1> QED BY <1>2, <1>3, <1>4, <1>5, <1>6, <1>7, <1>8, <1>9 DEF Next, Exceptions, Stopped

LEMMA NextInv ==
  ASSUME IInv, [Next]_vars
  PROVE  IInv'
<1>1. CASE Inv
  <2>1. CASE StartFirstTask
    BY <1>1, <2>1, StartFirstTaskInv DEF IInv
  <2>2. CASE Exceptions
    BY <1>1, <2>2, ExceptionsInv DEF IInv
  <2>3. CASE \E t \in Tasks : Task(t)
    BY <1>1, <2>3, TaskInv DEF IInv
  <2>4. CASE UNCHANGED vars
    BY <1>1, <2>4, StutterInv DEF IInv
  <2> QED BY <2>1, <2>2, <2>3, <2>4 DEF Next, Stopped
<1>2. CASE Missed
  BY <1>2, MissedInv DEF IInv
<1> QED BY <1>1, <1>2 DEF IInv

(* Every reachable state satisfies the invariant: types, which contexts are *)
(* on stacks and which one is in the registers, and what the shadow         *)
(* exception stacks say of them, or which interrupt they do not know of.    *)
THEOREM PortInvariant == Spec => []IInv
<1>1. Init => IInv
  BY InitInv DEF IInv
<1>2. IInv /\ [Next]_vars => IInv'
  BY NextInv
<1> QED BY <1>1, <1>2, PTL DEF Spec

(* A task runs with its own registers, stack, stack limit, MPU region and   *)
(* thread of the monitor, whatever PendSV_Handler was interrupted by.       *)
THEOREM OwnContextTheorem == Spec => []OwnContext
<1>1. IInv => OwnContext
  <2> SUFFICES ASSUME IInv, exc = << >>, Started, ~fault
               PROVE  LET t == cpu.pc.of
                      IN  /\ t = os.current
                          /\ cpu.psp = Pointer(t, Len(mem[t])) /\ cpu.psplim = t
                          /\ cpu.mpu.stack = t
                          /\ cpu.pc.at # "fresh" => cpu.regs = cpu.pc
                          /\ os.secureContext = monitor.cur /\ monitor.ses[monitor.cur] = << >>
    BY DEF OwnContext
  <2>1. Inv
    BY MissedFacts DEF IInv
  <2> QED BY <2>1, ThreadFacts
<1> QED BY <1>1, PortInvariant, PTL

(* Unprivileged code of a task reaches neither the kernel nor another       *)
(* task's stack, the kernel's functions reach everything, and the           *)
(* application code of an unprivileged task that does not call              *)
(* TCRaisePrivilege itself stays unprivileged.                              *)
THEOREM ConfinementTheorem == Spec => []Confinement
<1>1. IInv => Confinement
  <2> SUFFICES ASSUME IInv, exc = << >>, Started
               PROVE  LET t == cpu.pc.of
                      IN  /\ t \in Reachable
                          /\ cpu.npriv => Reachable \cap (PrivilegedRegions \cup (Tasks \ {t})) = {}
                          /\ cpu.pc.at = "api" => PrivilegedRegions \subseteq Reachable
                          /\ t \notin Privileged \cup Callers /\ cpu.pc.at # "api" => cpu.npriv
    BY DEF Confinement
  <2>0. Inv
    BY MissedFacts DEF IInv
  <2> DEFINE t == os.current
  <2>1. /\ t \in Tasks /\ cpu \in Cpus /\ cpu.pc.of = t /\ cpu.mpu.stack = t
        /\ Privilege(t, mem[t], cpu.pc.at, cpu.npriv)
    BY <2>0, ThreadFacts
  <2>2. /\ cpu.pc.at = "api" => ~cpu.npriv
        /\ t \notin Privileged \cup Callers /\ cpu.pc.at # "api" => cpu.npriv
    BY <2>1 DEF Privilege, MayBePrivileged
  <2>3. cpu.mpu.regions \subseteq Buffers
    BY <2>1 DEF Cpus, Settings
  <2>4. t \in Reachable
    BY <2>1 DEF Reachable
  <2>5. ~cpu.npriv => PrivilegedRegions \subseteq Reachable
    BY DEF Reachable
  <2>6. cpu.npriv => Reachable \cap (PrivilegedRegions \cup (Tasks \ {t})) = {}
    <3> SUFFICES ASSUME cpu.npriv
                 PROVE  Reachable \cap (PrivilegedRegions \cup (Tasks \ {t})) = {}
      OBVIOUS
    <3>1. Reachable \subseteq CommonRegions \cup Buffers \cup {t}
      BY <2>1, <2>3 DEF Reachable
    <3>2. CommonRegions \cap PrivilegedRegions = {}
      BY DEF CommonRegions, PrivilegedRegions
    <3>3. /\ Tasks \cap (Buffers \cup CommonRegions \cup PrivilegedRegions) = {}
          /\ Buffers \cap PrivilegedRegions = {}
      BY RegionsAssumption
    <3> HIDE DEF t
    <3> QED BY <2>1, <3>1, <3>2, <3>3
  <2> QED BY <2>1, <2>2, <2>4, <2>5, <2>6
<1> QED BY <1>1, PortInvariant, PTL

(* No return from an exception is refused or made with what was recorded    *)
(* for another, except that from one that came in a Secure function of a    *)
(* handler on top of a frame in a Secure stack.                             *)
THEOREM NoFalseAlarmTheorem == Spec => []NoFalseAlarm
<1>1. Inv => NoFalseAlarm
  BY DEF Inv, NoFalseAlarm
<1>2. Missed => NoFalseAlarm
  <2> SUFFICES ASSUME Missed, fault
               PROVE  /\ exc # << >> /\ Last(exc).ret = "secure_handler"
                      /\ IsDummy(Last(monitor.ses[monitor.cur]).ret)
    BY DEF NoFalseAlarm
  <2>1. PICK n \in Nat, j \in Nat, m \in Nat, l \in Nat, s \in Seq(Entries) :
          /\ n = Len(exc) /\ Last(exc) = exc[n] /\ s = monitor.ses[monitor.cur]
          /\ l = m + (n - j) /\ Last(s) = s[l] /\ Matches(exc, s, j, m) /\ j = n
    BY MissedFacts
  <2>2. l = m /\ exc[n].ret = "secure_handler" /\ s[m].ret \in {"secure", "secure_handler"}
    BY <2>1 DEF Matches, IsDummy
  <2> QED BY <2>1, <2>2, MissedFacts DEF IsDummy
<1> QED BY <1>1, <1>2, PortInvariant, PTL DEF IInv

----------------------------------------------------------------------------
(* What is on the stacks, seen from the tasks. *)

Thread(t) == IF Live /\ t = os.current THEN exc # << >> /\ exc[1].ret = "thread"
                                       ELSE Context(t).ret = "thread"
Secure(t) == IF Live /\ t = os.current THEN exc # << >> /\ exc[1].ret = "secure"
                                       ELSE Context(t).ret = "secure"

(* The locals of a system call, and then what an exception leaves.          *)
Stack(t) ==
  /\ Code(t).of = t /\ Code(t).at \in TaskPlaces
  /\ Code(t).at \in InCall => mem[t] # << >> /\ mem[t][1] \in CallCells
  /\ \A i \in DOMAIN mem[t] : i > Depth(Code(t).at) =>
       mem[t][i] = FrameCell(Code(t)) \/ mem[t][i] \in RegisterCells \cup ContextCells
  /\ Thread(t) => \E i \in DOMAIN mem[t] : mem[t][i] = FrameCell(Code(t))
  /\ IF Live /\ t = os.current
     THEN mem[t] # << >> => mem[t][Len(mem[t])] \notin ContextCells
     ELSE mem[t] # << >> /\ Context(t) \in ContextCells
  /\ Secure(t) => \E i \in Threads : /\ monitor.sec[i] # << >>
                                     /\ monitor.sec[i][1].pc = Code(t)
  /\ Thread(t) \/ Secure(t) \/ (Live /\ t = os.current /\ exc = << >>)

LEMMA LiveStack ==
  ASSUME Inv, Live, NEW t, t = os.current
  PROVE  Stack(t)
<1> DEFINE d == Depth(cpu.pc.at)
           n == Len(mem[t])
<1>1. /\ t \in Tasks /\ mem[t] \in Seq(Cells) /\ n \in Nat
      /\ monitor.cur \in Threads
  BY LiveFacts
<1>2. Code(t) = cpu.pc /\ cpu.pc.of = t /\ cpu.pc.at \in TaskPlaces
  BY DEF Code, Inv, Running
<1>3. Privilege(t, mem[t], cpu.pc.at, cpu.npriv)
  BY DEF Inv, Running
<1>4. cpu.pc.at \in InCall => mem[t][1] \in CallCells /\ d = 1
  BY <1>3 DEF Privilege, Depth
<1>5. cpu.pc.at \notin InCall => d = 0
  BY DEF Depth
<1>6. exc # << >> => exc[1].ret \in {"thread", "secure"}
  <2>1. exc # << >> => 1 \in DOMAIN exc
    BY TopOf DEF Inv, Typed
  <2> QED BY <2>1 DEF Inv, Nested
<1>7. CallCells \cap (FrameCells \cup ContextCells) = {} /\ FrameCells \cap ContextCells = {}
  BY DEF CallCells, ContextCells, FrameCells
<1>8. FrameCell(cpu.pc) \in FrameCells
  BY CellTypes DEF Inv, Typed, Cpus
<1>9. Thread(t) = (exc # << >> /\ exc[1].ret = "thread")
      /\ Secure(t) = (exc # << >> /\ exc[1].ret = "secure")
  BY DEF Thread, Secure
<1>10. CASE exc = << >> \/ exc[1].ret = "secure"
  <2>1. n = d
    BY <1>10 DEF Inv, Running
  <2>2. mem[t] # << >> => d = 1 /\ cpu.pc.at \in InCall
    BY <1>1, <1>4, <1>5, <2>1, HasSome
  <2>3. d = 1 => mem[t] # << >>
    <3>1. d = 1 => Len(mem[t]) # 0
      BY <2>1
    <3> QED BY <1>1, <3>1, HasSome
  <2>4. Secure(t) => /\ monitor.sec[monitor.cur] # << >>
                     /\ monitor.sec[monitor.cur][1].pc = cpu.pc
    <3> SUFFICES ASSUME Secure(t)
                 PROVE  /\ monitor.sec[monitor.cur] # << >>
                        /\ monitor.sec[monitor.cur][1].pc = cpu.pc
      OBVIOUS
    <3>1. monitor.sec[monitor.cur] = <<[pc |-> cpu.pc, regs |-> cpu.pc]>>
      BY <1>9 DEF Inv, Running
    <3> QED BY <3>1
  <2>5. \A i \in DOMAIN mem[t] : ~(i > d)
    BY <1>1, <2>1
  <2>6. ~Thread(t)
    BY <1>9, <1>10
  <2>7. mem[t] # << >> => mem[t][n] \notin ContextCells
    BY <1>4, <1>7, <2>1, <2>2
  <2> HIDE DEF d
  <2> QED BY <1>1, <1>2, <1>4, <1>6, <1>9, <2>1, <2>2, <2>3, <2>4, <2>5, <2>6, <2>7
          DEF Stack, d
<1>11. CASE exc # << >> /\ exc[1].ret = "thread"
  <2>1. n = d + 1 /\ mem[t][d + 1] = FrameCell(cpu.pc)
    BY <1>11 DEF Inv, Running
  <2>2. d \in {0, 1}
    BY DEF Depth
  <2>3. mem[t] # << >> /\ n \in DOMAIN mem[t]
    BY <1>1, <2>1, <2>2, EmptySeq
  <2>4. \A i \in DOMAIN mem[t] : i > d => mem[t][i] = FrameCell(cpu.pc)
    BY <1>1, <2>1, <2>2
  <2>5. mem[t][n] = FrameCell(cpu.pc)
    BY <2>1
  <2>6. Thread(t) /\ ~Secure(t)
    BY <1>9, <1>11
  <2> QED BY <1>2, <1>4, <1>7, <1>8, <2>3, <2>4, <2>5, <2>6 DEF Stack
<1> QED BY <1>6, <1>10, <1>11

LEMMA AwayStack ==
  ASSUME Inv, NEW t \in Away
  PROVE  Stack(t)
<1> DEFINE pc == FirstOf(t).pc
           d == Depth(pc.at)
           n == Len(mem[t])
<1>1. ~(Live /\ t = os.current) /\ t \in Tasks /\ StowedAt(t)
  BY DEF Away, Created, Inv, Stowed
<1>2. mem[t] \in Seq(Cells) /\ n \in Nat \ {0} /\ mem[t] # << >> /\ n \in DOMAIN mem[t]
      /\ DOMAIN mem[t] = 1..n
  BY <1>1, EmptySeq DEF Inv, Typed, StowedAt
<1>3. Code(t) = pc /\ pc.of = t /\ pc.at \in TaskPlaces
  BY <1>1 DEF Code, StowedAt
<1>4. Thread(t) = (Context(t).ret = "thread") /\ Secure(t) = (Context(t).ret = "secure")
  BY <1>1 DEF Thread, Secure
<1>5. Context(t) \in ContextCells /\ Context(t) = mem[t][n] /\ Id(t) \in Threads
      /\ Context(t).ret \in {"thread", "secure"}
  BY <1>1 DEF Context, StowedAt, Id, ContextCells
<1>6. pc.at \in InCall => mem[t][1] \in CallCells
  BY <1>1 DEF StowedAt, Privilege
<1>7. d \in {0, 1}
  BY DEF Depth
<1>8. CASE Context(t).ret = "thread"
  <2>1. /\ n = d + 3 /\ mem[t][d + 1] = FrameCell(pc)
        /\ mem[t][d + 2] \in RegisterCells
    BY <1>1, <1>8 DEF StowedAt, OnThreadStack
  <2>2. d + 1 \in DOMAIN mem[t]
    BY <1>2, <1>7, <2>1
  <2>3. \A i \in DOMAIN mem[t] : i > d =>
          mem[t][i] = FrameCell(pc) \/ mem[t][i] \in RegisterCells \cup ContextCells
    <3> SUFFICES ASSUME NEW i \in DOMAIN mem[t], i > d
                 PROVE  mem[t][i] = FrameCell(pc) \/ mem[t][i] \in RegisterCells \cup ContextCells
      OBVIOUS
    <3> HIDE DEF d, n, pc
    <3>1. i = d + 1 \/ i = d + 2 \/ i = n
      BY <1>2, <1>7, <2>1
    <3> QED BY <1>5, <2>1, <3>1
  <2>4. Thread(t) /\ ~Secure(t)
    BY <1>4, <1>8
  <2> QED BY <1>1, <1>2, <1>3, <1>5, <1>6, <2>1, <2>2, <2>3, <2>4 DEF Stack
<1>9. CASE Context(t).ret = "secure"
  <2>1. n = d + 1 /\ monitor.sec[Id(t)] = <<[pc |-> pc, regs |-> pc]>>
    BY <1>1, <1>9 DEF StowedAt
  <2>2. monitor.sec[Id(t)] # << >> /\ monitor.sec[Id(t)][1].pc = pc
    BY <2>1
  <2>3. \A i \in DOMAIN mem[t] : i > d => mem[t][i] \in ContextCells
    <3> SUFFICES ASSUME NEW i \in DOMAIN mem[t], i > d PROVE mem[t][i] \in ContextCells
      OBVIOUS
    <3> HIDE DEF d, n, pc
    <3>1. i = n
      BY <1>2, <1>7, <2>1
    <3> QED BY <1>5, <3>1
  <2>4. ~Thread(t) /\ Secure(t)
    BY <1>4, <1>9
  <2> QED BY <1>1, <1>2, <1>3, <1>5, <1>6, <2>2, <2>3, <2>4 DEF Stack
<1> QED BY <1>5, <1>8, <1>9

LEMMA EveryStack ==
  ASSUME Inv, NEW t \in Created
  PROVE  Stack(t)
BY LiveStack, AwayStack DEF Away

(* What is on a stack of the Secure side is where a task was.               *)
LEMMA SecuredAre ==
  ASSUME Inv, NEW i \in Threads, NEW d \in ToSet(monitor.sec[i])
  PROVE  \E u \in Created : d.pc = Code(u)
<1>1. PICK k \in DOMAIN monitor.sec[i] : d = monitor.sec[i][k]
  BY DEF ToSet
<1>2. monitor.sec[i] # << >>
  BY <1>1
<1>3. CASE Live /\ i = monitor.cur
  <2>1. os.current \in Created /\ Code(os.current) = cpu.pc
    BY <1>3, LiveFacts DEF Code
  <2>2. exc # << >>
    BY <1>2, <1>3 DEF Inv, Running
  <2>3. exc[1].ret \in {"thread", "secure"}
    <3>1. 1 \in DOMAIN exc
      BY <2>2, TopOf DEF Inv, Typed
    <3> QED BY <3>1 DEF Inv, Nested
  <2>4. monitor.sec[i] = <<[pc |-> cpu.pc, regs |-> cpu.pc]>>
    BY <1>2, <1>3, <2>2, <2>3 DEF Inv, Running
  <2>5. d.pc = cpu.pc
    BY <1>1, <2>4
  <2> QED BY <2>1, <2>5
<1>4. CASE \E t \in Away : Id(t) = i
  <2>1. PICK t \in Away : Id(t) = i
    BY <1>4
  <2>2. StowedAt(t) /\ t \in Created /\ Code(t) = FirstOf(t).pc
    BY DEF Inv, Stowed, Away, Code
  <2>3. monitor.sec[i] = <<[pc |-> FirstOf(t).pc, regs |-> FirstOf(t).pc]>>
    BY <1>2, <2>1, <2>2 DEF StowedAt
  <2>4. d.pc = FirstOf(t).pc
    BY <1>1, <2>3
  <2> QED BY <2>2, <2>4
<1> QED BY <1>2, <1>3, <1>4 DEF Inv, Distinct

(* The same of the frames on the Non-Secure stacks.                         *)
LEMMA FramesAre ==
  ASSUME Inv, NEW u \in Tasks, NEW d \in ToSet(mem[u]), d.kind = "frame"
  PROVE  u \in Created /\ d.pc = Code(u)
<1>1. PICK k \in DOMAIN mem[u] : d = mem[u][k]
  BY DEF ToSet
<1>2. mem[u] # << >> /\ mem[u] \in Seq(Cells)
  BY <1>1 DEF Inv, Typed
<1>3. u \in Created
  BY <1>2 DEF Inv, Counted
<1>4. Stack(u)
  BY <1>3, EveryStack
<1>5. k \in Nat /\ k >= 1
  BY <1>1, <1>2
<1>6. k > Depth(Code(u).at)
  <2>1. CASE Code(u).at \in InCall
    <3>1. k # 1
      BY <1>1, <1>4, <2>1 DEF Stack, CallCells
    <3> QED BY <1>5, <2>1, <3>1 DEF Depth
  <2>2. CASE Code(u).at \notin InCall
    BY <1>5, <2>2 DEF Depth
  <2> QED BY <2>1, <2>2
<1>7. d = FrameCell(Code(u)) \/ d \in RegisterCells \cup ContextCells
  BY <1>1, <1>4, <1>6 DEF Stack
<1>8. d = FrameCell(Code(u))
  BY <1>7 DEF RegisterCells, ContextCells
<1> QED BY <1>3, <1>8 DEF FrameCell

LEMMA InFrames ==
  ASSUME NEW t, NEW p
  PROVE  p \in Frames(t) <=>
           \/ \E u \in Tasks : \E d \in ToSet(mem[u]) :
                d.kind = "frame" /\ d.pc.of = t /\ p = d.pc.at
           \/ \E i \in Threads : \E d \in ToSet(monitor.sec[i]) : d.pc.of = t /\ p = d.pc.at
<1> DEFINE A == UNION {ToSet(mem[u]) : u \in Tasks}
           B == UNION {ToSet(monitor.sec[i]) : i \in Threads}
<1>1. \A d : d \in A <=> \E u \in Tasks : d \in ToSet(mem[u])
  OBVIOUS
<1>2. \A d : d \in B <=> \E i \in Threads : d \in ToSet(monitor.sec[i])
  OBVIOUS
<1>3. Frames(t) = {c.pc.at : c \in {d \in A : d.kind = "frame" /\ d.pc.of = t}}
                    \cup {c.pc.at : c \in {d \in B : d.pc.of = t}}
  BY DEF Frames
<1> HIDE DEF A, B
<1>4. p \in Frames(t) <=> \/ \E d \in A : d.kind = "frame" /\ d.pc.of = t /\ p = d.pc.at
                          \/ \E d \in B : d.pc.of = t /\ p = d.pc.at
  BY <1>3
<1> QED BY <1>1, <1>2, <1>4

(* A task's code is in one place, in the registers or on a stack.           *)
LEMMA OnePlace ==
  ASSUME Inv, NEW t \in Tasks
  PROVE  PlaceOf(t) = IF t \in Created THEN {Code(t).at} ELSE {}
<1>1. \A u \in Created : Code(u).of = u /\ Stack(u)
  BY EveryStack DEF Stack
<1>2. ASSUME NEW p \in Frames(t)
      PROVE  t \in Created /\ p = Code(t).at
  <2>1. CASE \E u \in Tasks : \E d \in ToSet(mem[u]) :
                d.kind = "frame" /\ d.pc.of = t /\ p = d.pc.at
    <3>1. PICK u \in Tasks : \E d \in ToSet(mem[u]) :
                d.kind = "frame" /\ d.pc.of = t /\ p = d.pc.at
      BY <2>1
    <3>2. PICK d \in ToSet(mem[u]) : d.kind = "frame" /\ d.pc.of = t /\ p = d.pc.at
      BY <3>1
    <3>3. u \in Created /\ d.pc = Code(u)
      BY <3>2, FramesAre
    <3> QED BY <1>1, <3>2, <3>3
  <2>2. CASE \E i \in Threads : \E d \in ToSet(monitor.sec[i]) : d.pc.of = t /\ p = d.pc.at
    <3>1. PICK i \in Threads : \E d \in ToSet(monitor.sec[i]) : d.pc.of = t /\ p = d.pc.at
      BY <2>2
    <3>2. PICK d \in ToSet(monitor.sec[i]) : d.pc.of = t /\ p = d.pc.at
      BY <3>1
    <3>3. PICK u \in Created : d.pc = Code(u)
      BY <3>2, SecuredAre
    <3> QED BY <1>1, <3>2, <3>3
  <2> QED BY <1>2, <2>1, <2>2, InFrames
<1>3. ASSUME t \in Created, Thread(t) \/ Secure(t)
      PROVE  Code(t).at \in Frames(t)
  <2>1. Code(t).of = t /\ Stack(t)
    BY <1>1, <1>3
  <2>2. CASE Thread(t)
    <3>1. PICK i \in DOMAIN mem[t] : mem[t][i] = FrameCell(Code(t))
      BY <2>1, <2>2 DEF Stack
    <3>2. FrameCell(Code(t)) \in ToSet(mem[t])
      BY <3>1 DEF ToSet
    <3>3. FrameCell(Code(t)).kind = "frame" /\ FrameCell(Code(t)).pc = Code(t)
      BY DEF FrameCell
    <3> QED BY <2>1, <3>2, <3>3, InFrames
  <2>3. CASE Secure(t)
    <3>1. PICK i \in Threads : /\ monitor.sec[i] # << >>
                               /\ monitor.sec[i][1].pc = Code(t)
      BY <2>1, <2>3 DEF Stack
    <3>2. monitor.sec[i] \in Seq(Secured)
      BY DEF Inv, Typed, Monitors
    <3>3. 1 \in DOMAIN monitor.sec[i]
      BY <3>1, <3>2, TopOf
    <3>4. monitor.sec[i][1] \in ToSet(monitor.sec[i])
      BY <3>3 DEF ToSet
    <3> QED BY <2>1, <3>1, <3>4, InFrames
  <2> QED BY <1>3, <2>2, <2>3
<1>4. CASE exc = << >> /\ cpu.pc.of = t
  <2>1. Started
    BY <1>4, TasksAssumption DEF Inv, Nested
  <2>2. Live /\ t = os.current /\ t \in Created
    BY <1>4, <2>1, ThreadFacts
  <2>3. Code(t) = cpu.pc
    BY <2>2 DEF Code
  <2> QED BY <1>4, <2>2, <2>3 DEF PlaceOf
<1>5. CASE ~(exc = << >> /\ cpu.pc.of = t)
  <2>1. PlaceOf(t) = Frames(t)
    BY <1>5 DEF PlaceOf
  <2>2. CASE t \in Created
    <3>1. ~(Live /\ t = os.current /\ exc = << >>)
      BY <1>5 DEF Inv, Running
    <3>2. Thread(t) \/ Secure(t)
      BY <1>1, <2>2, <3>1 DEF Stack
    <3>3. Code(t).at \in Frames(t)
      BY <1>3, <2>2, <3>2
    <3> QED BY <1>2, <2>1, <2>2, <3>3
  <2>3. CASE t \notin Created
    BY <1>2, <2>1, <2>3
  <2> QED BY <2>2, <2>3
<1> QED BY <1>4, <1>5

(* The locals of its system call, or its context, tell whether it is        *)
(* trusted.                                                                 *)
LEMMA Trusted ==
  ASSUME Inv, NEW t \in Tasks
  PROVE  TrustedCode(t) <=> t \in Created /\ Trusts(mem[t], Code(t).at, NPriv(t))
<1> SUFFICES ASSUME t \in Created
             PROVE  TrustedCode(t) <=> Trusts(mem[t], Code(t).at, NPriv(t))
  BY DEF TrustedCode
<1> DEFINE at == Code(t).at
<1>1. Stack(t) /\ mem[t] \in Seq(Cells) /\ DOMAIN mem[t] = 1..Len(mem[t]) /\ Len(mem[t]) \in Nat
  BY EveryStack DEF Inv, Typed
<1>2. CASE at \in InCall
  <2>1. mem[t] # << >> /\ mem[t][1] \in CallCells /\ 1 \in DOMAIN mem[t]
    BY <1>1, <1>2, TopOf DEF Stack
  <2>2. mem[t][1] \in Calls(t)
    BY <2>1 DEF Calls, ToSet, CallCells
  <2>3. ASSUME NEW c \in Calls(t)
        PROVE  c = mem[t][1]
    <3>1. PICK k \in DOMAIN mem[t] : c = mem[t][k] /\ c.kind = "call"
      BY DEF Calls, ToSet
    <3>2. ~(k > 1)
      <4> SUFFICES ASSUME k > 1 PROVE FALSE
        OBVIOUS
      <4>1. Depth(at) = 1
        BY <1>2 DEF Depth
      <4>2. c = FrameCell(Code(t)) \/ c \in RegisterCells \cup ContextCells
        BY <1>1, <3>1, <4>1 DEF Stack
      <4> QED BY <3>1, <4>2 DEF FrameCell, RegisterCells, ContextCells
    <3>3. k = 1
      BY <1>1, <3>2
    <3> QED BY <3>1, <3>3
  <2>4. TrustedCode(t) <=> mem[t][1].was
    BY <2>2, <2>3 DEF TrustedCode
  <2> QED BY <1>2, <2>4 DEF Trusts
<1>3. CASE at \notin InCall
  <2>1. Calls(t) = {}
    <3> SUFFICES ASSUME NEW c \in Calls(t) PROVE FALSE
      OBVIOUS
    <3>1. PICK k \in DOMAIN mem[t] : c = mem[t][k] /\ c.kind = "call"
      BY DEF Calls, ToSet
    <3>2. Depth(at) = 0 /\ k > 0
      BY <1>1, <1>3 DEF Depth
    <3>3. c = FrameCell(Code(t)) \/ c \in RegisterCells \cup ContextCells
      BY <1>1, <3>1, <3>2 DEF Stack
    <3> QED BY <3>1, <3>3 DEF FrameCell, RegisterCells, ContextCells
  <2>2. Unprivileged(t) = NPriv(t)
    <3>1. CASE Live /\ t = os.current
      <4>1. mem[t] # << >> => Last(mem[t]).kind # "context"
        <5> SUFFICES ASSUME mem[t] # << >> PROVE Last(mem[t]).kind # "context"
          OBVIOUS
        <5>1. Last(mem[t]) \in Cells /\ Last(mem[t]) = mem[t][Len(mem[t])]
          BY <1>1, TopOf
        <5>2. Last(mem[t]) \notin ContextCells
          BY <1>1, <3>1, <5>1 DEF Stack
        <5> QED BY <5>1, <5>2 DEF Cells, FrameCells, RegisterCells, CallCells
      <4> QED BY <3>1, <4>1 DEF Unprivileged, NPriv
    <3>2. CASE ~(Live /\ t = os.current)
      <4>1. mem[t] # << >> /\ Context(t) \in ContextCells
        BY <1>1, <3>2 DEF Stack
      <4>2. Last(mem[t]) = Context(t)
        BY <1>1, <4>1, TopOf DEF Context
      <4>3. Context(t).kind = "context"
        BY <4>1 DEF ContextCells
      <4> QED BY <3>2, <4>1, <4>2, <4>3 DEF Unprivileged, NPriv
    <3> QED BY <3>1, <3>2
  <2> QED BY <1>3, <2>1, <2>2 DEF TrustedCode, Trusts
<1> QED BY <1>2, <1>3

----------------------------------------------------------------------------
(* The refinement. *)

Seen ==
  /\ os.current \in Created /\ Created \subseteq Tasks
  /\ \A t \in Tasks : PlaceOf(t) = IF t \in Created THEN {Code(t).at} ELSE {}
  /\ \A t \in Tasks : TrustedCode(t) <=> t \in Created /\ Trusts(mem[t], Code(t).at, NPriv(t))
  /\ \A t \in Tasks : TrustedCode(t) \in BOOLEAN

LEMMA InvSeen == Inv => Seen
<1> SUFFICES ASSUME Inv PROVE Seen
  OBVIOUS
<1>1. os.current \in Created /\ Created \subseteq Tasks
  BY DEF Inv, Counted, Created
<1>2. \A t \in Tasks : TrustedCode(t) \in BOOLEAN
  BY DEF TrustedCode, Calls
<1> QED BY <1>1, <1>2, OnePlace, Trusted DEF Seen

LEMMA InvSeenNext == Inv' => Seen'
BY InvSeen, PTL

(* What has not moved looks the same.                                       *)
LEMMA SameSeen ==
  ASSUME Seen, Seen', NEW t \in Tasks, (t \in Created)' <=> t \in Created,
         t \in Created => Same(t)
  PROVE  PlaceOf(t)' = PlaceOf(t) /\ TrustedCode(t)' = TrustedCode(t)
<1>1. CASE t \notin Created
  BY <1>1 DEF Seen
<1>2. CASE t \in Created
  <2>1. Code(t)' = Code(t) /\ NPriv(t)' = NPriv(t)
    BY <1>2 DEF Same
  <2>2. Trusts(mem'[t], Code(t)'.at, NPriv(t)') <=> Trusts(mem[t], Code(t).at, NPriv(t))
    BY <1>2, <2>1 DEF Same, Trusts
  <2>3. TrustedCode(t)' <=> TrustedCode(t)
    BY <1>2, <2>2 DEF Seen
  <2>4. TrustedCode(t)' \in BOOLEAN /\ TrustedCode(t) \in BOOLEAN
    BY DEF Seen
  <2> QED BY <1>2, <2>1, <2>3, <2>4 DEF Seen
<1> QED BY <1>1, <1>2

LEMMA AllSameSeen ==
  ASSUME Seen, Seen', AllSame
  PROVE  /\ [t \in Tasks |-> PlaceOf(t)]' = [t \in Tasks |-> PlaceOf(t)]
         /\ [t \in Tasks |-> TrustedCode(t)]' = [t \in Tasks |-> TrustedCode(t)]
         /\ os'.nesting = os.nesting
<1>1. \A t \in Tasks : PlaceOf(t)' = PlaceOf(t) /\ TrustedCode(t)' = TrustedCode(t)
  BY SameSeen DEF AllSame
<1> QED BY <1>1 DEF AllSame

Exclusive == IF os.nesting > 0 THEN os.current ELSE NoTask

LEMMA IdleRefines ==
  ASSUME Seen, Seen', Idle
  PROVE  UNCHANGED <<os.current, Exclusive, [t \in Tasks |-> PlaceOf(t)],
                     [t \in Tasks |-> TrustedCode(t)]>>
<1>1. os'.current = os.current /\ AllSame
  BY DEF Idle
<1> QED BY <1>1, AllSameSeen DEF Exclusive

(* Handlers leave a frame in a Secure stack, of those of a task, alone.     *)
LEMMA HiddenRefines ==
  ASSUME Hidden \/ UNCHANGED vars
  PROVE  UNCHANGED <<os.current, Exclusive, [t \in Tasks |-> PlaceOf(t)],
                     [t \in Tasks |-> TrustedCode(t)]>>
<1>1. /\ os' = os /\ mem' = mem /\ monitor'.sec = monitor.sec /\ cpu'.npriv = cpu.npriv
      /\ Threads' = Threads
  BY DEF Hidden, vars, Threads
<1>2. \A t \in Tasks : PlaceOf(t)' = PlaceOf(t)
  <2> SUFFICES ASSUME NEW t \in Tasks PROVE PlaceOf(t)' = PlaceOf(t)
    OBVIOUS
  <2>1. Frames(t)' = Frames(t)
    BY <1>1 DEF Frames
  <2>2. CASE Hidden
    BY <2>1, <2>2 DEF Hidden, PlaceOf
  <2>3. CASE UNCHANGED vars
    BY <2>1, <2>3 DEF vars, PlaceOf
  <2> QED BY <2>2, <2>3
<1>3. \A t \in Tasks : TrustedCode(t)' = TrustedCode(t)
  BY <1>1 DEF TrustedCode, Calls, Unprivileged, Created
<1>4. os'.current = os.current /\ Exclusive' = Exclusive
  BY <1>1 DEF Exclusive
<1> QED BY <1>2, <1>3, <1>4

LEMMA SwitchRefines ==
  ASSUME Seen, Seen', AllSame, os.nesting = 0
  PROVE  Abstract!Switch
<1>1. os'.current \in Created' /\ os'.current \in Tasks /\ Created' = Created
  BY DEF Seen, AllSame
<1>2. os'.nesting = 0
  BY DEF AllSame
<1>3. PlaceOf(os'.current) # {}
  BY <1>1 DEF Seen
<1>4. os'.current \in Abstract!Created
  BY <1>1, <1>3 DEF Abstract!Created
<1> QED BY <1>2, <1>4, AllSameSeen DEF Abstract!Switch

LEMMA StepRefines ==
  ASSUME Seen, Seen', NEW t \in Tasks, TaskStep(t)
  PROVE  Abstract!Step(t)
<1>1. os.current = t /\ os'.current = t /\ Created' = Created /\ t \in Created
  BY DEF TaskStep, Seen
<1>2. PlaceOf(t)' = {Code(t)'.at} /\ Code(t)'.at # "fresh"
  BY <1>1 DEF TaskStep, Seen
<1>3. TrustedCode(t)' => TrustedCode(t) \/ PlaceOf(t) = {"elevating"}
  BY <1>1 DEF TaskStep, Seen
<1>4. \A u \in Tasks \ {t} : PlaceOf(u)' = PlaceOf(u) /\ TrustedCode(u)' = TrustedCode(u)
  BY <1>1, SameSeen DEF TaskStep
<1>5. Abstract!Others(t)
  BY <1>4 DEF Abstract!Others
<1>6. Exclusive' \in {NoTask, t}
  BY <1>1 DEF Exclusive
<1> QED BY <1>1, <1>2, <1>3, <1>5, <1>6 DEF Abstract!Step, Exclusive

LEMMA CreateRefines ==
  ASSUME Seen, Seen', NEW u \in Tasks, Creates(u)
  PROVE  Abstract!Create(u)
<1>1. u \notin Created /\ Created' = Created \cup {u} /\ Code(u)'.at = "fresh"
  BY DEF Creates
<1>2. PlaceOf(u) = {} /\ PlaceOf(u)' = {"fresh"}
  BY <1>1 DEF Seen
<1>3. \A t \in Tasks \ {u} : PlaceOf(t)' = PlaceOf(t) /\ TrustedCode(t)' = TrustedCode(t)
  BY <1>1, SameSeen DEF Creates
<1>4. Abstract!Others(u)
  BY <1>3 DEF Abstract!Others
<1>5. os'.current = os.current /\ Exclusive' = Exclusive
  BY DEF Creates, Exclusive
<1> QED BY <1>2, <1>4, <1>5 DEF Abstract!Create, Exclusive

LEMMA InitRefines ==
  ASSUME Init, Seen
  PROVE  Abstract!Init
<1>1. Phase = "main" /\ os.nesting = 0 /\ ~Live
  BY DEF Init, At, Phase, Started, Live
<1>2. Inv
  BY InitInv
<1>3. os.current \in Abstract!Created
  BY DEF Seen, Abstract!Created
<1>4. \A t \in Created : Code(t).at = "fresh"
  BY <1>1, <1>2 DEF Inv, Switching, Code
<1>5. \A t \in Abstract!Created : PlaceOf(t) = {"fresh"}
  BY <1>4 DEF Seen, Abstract!Created
<1>6. Exclusive = NoTask
  BY <1>1 DEF Exclusive
<1> QED BY <1>3, <1>5, <1>6 DEF Abstract!Init, Abstract!Created, Exclusive

(* Nothing the port does is more than one step of the abstract processors.  *)
LEMMA NextRefines ==
  ASSUME IInv, IInv', [Next]_vars
  PROVE  Abstract!Next \/ UNCHANGED <<os.current, Exclusive, [t \in Tasks |-> PlaceOf(t)],
                                      [t \in Tasks |-> TrustedCode(t)]>>
<1>1. CASE (Missed \/ UNCHANGED vars) \/ (Inv /\ Exceptions /\ Hidden)
  BY <1>1, MissedInv, HiddenRefines
<1>2. CASE Inv /\ StartFirstTask
  <2>1. Seen /\ Seen' /\ Idle
    BY <1>2, StartFirstTaskInv, InvSeen, InvSeenNext
  <2> QED BY <2>1, IdleRefines
<1>3. CASE Inv /\ Exceptions /\ ~Hidden
  <2>1. Seen /\ Seen' /\ (Idle \/ (AllSame /\ os.nesting = 0))
    BY <1>3, ExceptionsInv, InvSeen, InvSeenNext
  <2>2. CASE Idle
    BY <2>1, <2>2, IdleRefines
  <2>3. CASE AllSame /\ os.nesting = 0
    BY <2>1, <2>3, SwitchRefines DEF Abstract!Next
  <2> QED BY <2>1, <2>2, <2>3
<1>4. CASE Inv /\ \E t \in Tasks : Task(t)
  <2>1. PICK t \in Tasks : Task(t)
    BY <1>4
  <2>2. Seen /\ Seen' /\ (TaskStep(t) \/ \E u \in Tasks : Creates(u))
    BY <1>4, <2>1, TaskInv, InvSeen, InvSeenNext
  <2> QED BY <2>1, <2>2, StepRefines, CreateRefines DEF Abstract!Next
<1> QED BY <1>1, <1>2, <1>3, <1>4 DEF IInv, Next, Stopped

(* The port gives every task a processor of its own: it goes on where it    *)
(* stopped, nobody takes over inside a critical section, and application    *)
(* code gains privilege only by calling TCRaisePrivilege itself.            *)
THEOREM KeepsProcessorsTheorem == Spec => KeepsProcessors
<1>1. Init => Abstract!Init
  BY InitInv, InvSeen, InitRefines
<1>2. IInv /\ IInv' /\ [Next]_vars
        => [Abstract!Next]_<<os.current, IF os.nesting > 0 THEN os.current ELSE NoTask,
                             [t \in Tasks |-> PlaceOf(t)], [t \in Tasks |-> TrustedCode(t)]>>
  BY NextRefines DEF Exclusive
<1> QED BY <1>1, <1>2, PortInvariant, PTL DEF Spec, KeepsProcessors, Abstract!Spec
=============================================================================
