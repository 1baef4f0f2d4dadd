------------------------------ MODULE TzMpcProofs ------------------------------
(***************************************************************************)
(* What updateRange (module TzMpc) does for every size of blocks and words *)
(* and every range: it assigns the whole range, exposes nothing else to    *)
(* the Non-Secure state, and is exact for ranges of whole words.           *)
(***************************************************************************)
EXTENDS TzMpc, TLAPS

Calls == [start : Nat, end : Nat, nonSecure : BOOLEAN]

Typed ==
  /\ lut \in Tables /\ before \in Tables
  /\ idx \in Nat /\ group \in Nat /\ autoincrement \in BOOLEAN
  /\ at \in {"idle", "single", "head", "loop"}
  /\ call \in Calls /\ call.end <= Words * Width

(* What a word of the range becomes.                                        *)
Wanted(g) == {b \in Bits : call.nonSecure /\ InRange(g, b)}

(* The words from the first one of the range up to n are done.              *)
DoneUpTo(n) ==
  \A g \in Groups : lut[g] = IF g \in StartGroup..(n - 1) THEN Wanted(g) ELSE before[g]

(* The first word behind the range.                                         *)
Past == IF EndBit = 0 THEN EndGroup ELSE EndGroup + 1

(* BLK_IDX shows the word of the local variable, and stays at it.           *)
Working ==
  at # "idle" =>
    /\ call.start < call.end /\ ~autoincrement
    /\ idx = group /\ DoneUpTo(group)
    /\ group \in StartGroup..EndGroup

Places ==
  /\ at = "single" => group = EndGroup /\ StartGroup = EndGroup
  /\ at = "head" => group = StartGroup /\ StartGroup < EndGroup
  /\ at = "loop" => StartGroup < EndGroup /\ (StartBit # 0 => group > StartGroup)

Finished ==
  at = "idle" => IF call.start < call.end THEN DoneUpTo(Past) ELSE lut = before

Inv == Typed /\ Working /\ Places /\ Finished

----------------------------------------------------------------------------

LEMMA DivMod ==
  ASSUME NEW w \in Nat \ {0}, NEW n \in Nat
  PROVE  n \div w \in Nat /\ n % w \in 0..(w - 1) /\ n = (n \div w) * w + (n % w)
OBVIOUS

(* Blocks are ordered by word and bit.                                      *)
LEMMA BlockOrder ==
  ASSUME Controller, NEW n \in Nat, NEW g \in Nat, NEW b \in Bits
  PROVE  g * Width + b >= n
           <=> g > n \div Width \/ (g = n \div Width /\ b >= n % Width)
<1>1. PICK q \in Nat, r \in 0..(Width - 1) :
        n = q * Width + r /\ q = n \div Width /\ r = n % Width
  BY DivMod DEF Controller
<1>2. b \in 0..(Width - 1) /\ Width \in Nat \ {0}
  BY DEF Bits, Controller
<1>3. CASE g > q
  <2>1. (g - (q + 1)) * Width >= 0
    BY <1>1, <1>2, <1>3
  <2>2. g * Width + b >= n
    BY <1>1, <1>2, <2>1
  <2> QED BY <1>1, <1>3, <2>2
<1>4. CASE g = q
  BY <1>1, <1>2, <1>4
<1>5. CASE g < q
  <2>1. (q - (g + 1)) * Width >= 0
    BY <1>1, <1>2, <1>5
  <2>2. g * Width + b < n
    BY <1>1, <1>2, <2>1
  <2> QED BY <1>1, <1>2, <1>5, <2>2
<1> QED BY <1>1, <1>3, <1>4, <1>5

LEMMA RangeOrder ==
  ASSUME Controller, NEW s \in Nat, NEW e \in Nat
  PROVE  /\ s \div Width \in Nat /\ e \div Width \in Nat
         /\ s < e <=> s \div Width < e \div Width
                       \/ (s \div Width = e \div Width /\ s % Width < e % Width)
<1>1. PICK q \in Nat, r \in Bits : s = q * Width + r /\ q = s \div Width /\ r = s % Width
  BY DivMod DEF Controller, Bits
<1>2. e \div Width \in Nat /\ e % Width \in Nat
  BY DivMod DEF Controller
<1>3. s >= e <=> q > e \div Width \/ (q = e \div Width /\ r >= e % Width)
  BY <1>1, BlockOrder
<1> QED BY <1>1, <1>2, <1>3 DEF Bits

LEMMA Positions ==
  ASSUME Controller, call \in Calls
  PROVE  /\ StartGroup \in Nat /\ EndGroup \in Nat
         /\ StartBit \in 0..(Width - 1) /\ EndBit \in 0..(Width - 1)
         /\ Past \in Nat /\ Width \in Nat \ {0} /\ Words \in Nat \ {0}
         /\ call.start < call.end <=>
              StartGroup < EndGroup \/ (StartGroup = EndGroup /\ StartBit < EndBit)
<1>1. call.start \in Nat /\ call.end \in Nat /\ Width \in Nat \ {0} /\ Words \in Nat \ {0}
  BY DEF Calls, Controller
<1>2. /\ StartGroup \in Nat /\ EndGroup \in Nat
      /\ StartBit \in 0..(Width - 1) /\ EndBit \in 0..(Width - 1)
  BY <1>1, DivMod DEF StartGroup, EndGroup, StartBit, EndBit
<1>3. call.start < call.end <=>
        StartGroup < EndGroup \/ (StartGroup = EndGroup /\ StartBit < EndBit)
  BY <1>1, RangeOrder DEF StartGroup, EndGroup, StartBit, EndBit
<1> QED BY <1>1, <1>2, <1>3 DEF Past

(* A block is in the range if it lies between the two ends.                 *)
LEMMA InRangeMeans ==
  ASSUME Controller, call \in Calls, NEW g \in Nat, NEW b \in Bits
  PROVE  InRange(g, b) <=>
           /\ g > StartGroup \/ (g = StartGroup /\ b >= StartBit)
           /\ g < EndGroup \/ (g = EndGroup /\ b < EndBit)
<1>1. call.start \in Nat /\ call.end \in Nat /\ g * Width + b \in Nat /\ b \in Nat
  BY DEF Calls, Controller, Bits
<1>2. InRange(g, b) <=> g * Width + b >= call.start /\ ~(g * Width + b >= call.end)
  BY <1>1 DEF InRange
<1>3. g * Width + b >= call.start <=> g > StartGroup \/ (g = StartGroup /\ b >= StartBit)
  BY <1>1, BlockOrder DEF StartGroup, StartBit
<1>4. g * Width + b >= call.end <=> g > EndGroup \/ (g = EndGroup /\ b >= EndBit)
  BY <1>1, BlockOrder DEF EndGroup, EndBit
<1>5. /\ StartGroup \in Nat /\ EndGroup \in Nat /\ StartBit \in Int /\ EndBit \in Int
  BY Positions
<1> QED BY <1>1, <1>2, <1>3, <1>4, <1>5

LEMMA EndInTable ==
  ASSUME Controller, call \in Calls, call.end <= Words * Width
  PROVE  EndGroup <= Words /\ (EndBit # 0 => EndGroup < Words)
<1>1. /\ call.end = EndGroup * Width + EndBit /\ EndGroup \in Nat
      /\ EndBit \in 0..(Width - 1) /\ Width \in Nat \ {0} /\ Words \in Nat \ {0}
  BY DivMod, Positions DEF Calls, EndGroup, EndBit
<1>2. CASE EndGroup > Words
  <2>1. (EndGroup - (Words + 1)) * Width >= 0
    BY <1>1, <1>2
  <2> QED BY <1>1, <1>2, <2>1
<1>3. CASE EndGroup <= Words
  BY <1>1, <1>3
<1> QED BY <1>1, <1>2, <1>3

----------------------------------------------------------------------------
(* The masks give a word the blocks of the range that its filter lets       *)
(* through, and no other: what the word held before is lost.                *)

LEMMA MasksType ==
  \A ns \in BOOLEAN : Masks(ns).keep = {} /\ Masks(ns).flip = (IF ns THEN Bits ELSE {})
BY DEF Masks

(* A word has been updated, and the next one is shown.                      *)
LEMMA WordDone ==
  ASSUME Inv, Controller, at # "idle", group \in Groups, UNCHANGED <<call, before>>,
         NEW masks, UpdateLut(masks), masks.keep = {}, masks.flip = Wanted(group),
         NEW n \in Nat, n = group + 1
  PROVE  lut' \in Tables /\ DoneUpTo(n)'
<1>1. /\ idx = group /\ AfterAccess(idx) = group /\ group \in Nat /\ DoneUpTo(group)
      /\ group \in StartGroup..EndGroup /\ lut \in Tables
  BY DEF Inv, Typed, Working, AfterAccess
<1>2. lut' = [lut EXCEPT ![group] = Wanted(group)]
  BY <1>1 DEF UpdateLut, Xor
<1>3. Wanted(group) \in SUBSET Bits
  BY DEF Wanted
<1>4. UNCHANGED <<StartGroup, EndGroup>> /\ \A g : Wanted(g)' = Wanted(g)
  BY DEF StartGroup, EndGroup, Wanted, InRange
<1>5. ASSUME NEW g \in Groups
      PROVE  lut'[g] = IF g \in StartGroup..group THEN Wanted(g) ELSE before[g]
  <2>1. CASE g = group
    BY <1>1, <1>2, <2>1 DEF Tables
  <2>2. CASE g # group
    <3>1. lut'[g] = lut[g]
      BY <1>1, <1>2, <2>2 DEF Tables
    <3>2. g \in StartGroup..(group - 1) <=> g \in StartGroup..group
      BY <1>1, <2>2, <1>5 DEF Groups
    <3> QED BY <1>1, <3>1, <3>2 DEF DoneUpTo
  <2> QED BY <2>1, <2>2
<1>6. group \in Nat
  BY <1>1
<1>7. lut' \in Tables
  BY <1>1, <1>2, <1>3 DEF Tables
<1>8. n - 1 = group
  BY <1>1
<1>9. \A g \in Groups :
        lut'[g] = IF g \in StartGroup..(n - 1) THEN Wanted(g) ELSE before[g]
  BY <1>5, <1>8
<1> QED BY <1>4, <1>7, <1>9 DEF DoneUpTo

LEMMA InitInv == Controller /\ Init => Inv
<1> SUFFICES ASSUME Controller, Init PROVE Inv
  OBVIOUS
<1>1. Typed
  BY DEF Init, Typed, Tables, Calls, Controller
<1>2. at = "idle" /\ call.start = 0 /\ call.end = 0 /\ lut = before
  BY DEF Init
<1> QED BY <1>1, <1>2 DEF Inv, Working, Places, Finished

LEMMA UpdateRangeInv ==
  ASSUME Controller, Inv, NEW startBytes \in Addresses, NEW endBytes \in Addresses,
         NEW nonSecure \in BOOLEAN, UpdateRange(startBytes, endBytes, nonSecure)
  PROVE  Inv'
<1>1. /\ startBytes \in Nat /\ endBytes \in Nat /\ endBytes <= (Words * Width) * BlockSize
      /\ BlockSize \in Nat \ {0} /\ Words * Width \in Nat
  BY DEF Addresses, Controller
<1>2. /\ call' = [start |-> startBytes \div BlockSize, end |-> endBytes \div BlockSize,
                  nonSecure |-> nonSecure]
      /\ before' = lut /\ lut' = lut
  BY DEF UpdateRange
<1>3. endBytes \div BlockSize <= Words * Width
  <2>1. PICK q \in Nat, r \in 0..(BlockSize - 1) :
          endBytes = q * BlockSize + r /\ q = endBytes \div BlockSize
    BY <1>1, DivMod
  <2>2. PICK w \in Nat : w = Words * Width
    BY <1>1
  <2>3. CASE q > w
    <3>1. (q - (w + 1)) * BlockSize >= 0
      BY <1>1, <2>1, <2>2, <2>3
    <3> QED BY <1>1, <2>1, <2>2, <3>1
  <2> QED BY <2>1, <2>2, <2>3
<1>4. call' \in Calls /\ call'.end <= Words * Width
  BY <1>1, <1>2, <1>3, DivMod DEF Calls
<1>5. CASE call'.start >= call'.end
  <2>1. UNCHANGED <<idx, autoincrement, at, group>> /\ at = "idle"
    BY <1>5 DEF UpdateRange
  <2>2. ~(call'.start < call'.end)
    BY <1>4, <1>5 DEF Calls
  <2> QED BY <1>2, <1>4, <2>1, <2>2 DEF Inv, Typed, Working, Places, Finished
<1>6. CASE ~(call'.start >= call'.end)
  <2>1. /\ autoincrement' = FALSE /\ idx' = StartGroup' /\ group' = StartGroup'
        /\ at' = IF StartGroup' = EndGroup' THEN "single"
                 ELSE IF StartBit' # 0 THEN "head" ELSE "loop"
    BY <1>6 DEF UpdateRange
  <2>2. /\ StartGroup' \in Nat /\ EndGroup' \in Nat
        /\ call'.start < call'.end <=>
             StartGroup' < EndGroup' \/ (StartGroup' = EndGroup' /\ StartBit' < EndBit')
    BY <1>4, RangeOrder DEF Calls, StartGroup, EndGroup, StartBit, EndBit
  <2>3. call'.start < call'.end
    BY <1>4, <1>6 DEF Calls
  <2>4. Typed'
    BY <1>2, <1>4, <2>1, <2>2 DEF Inv, Typed
  <2>5. DoneUpTo(group)'
    <3>1. \A n \in Nat : n..(n - 1) = {}
      OBVIOUS
    <3>2. StartGroup'..(group' - 1) = {}
      BY <2>1, <2>2, <3>1
    <3> QED BY <1>2, <3>2 DEF DoneUpTo
  <2>6. Working'
    BY <2>1, <2>2, <2>3, <2>5 DEF Working
  <2>7. Places'
    BY <2>1, <2>2, <2>3 DEF Places
  <2>8. Finished'
    BY <2>1 DEF Finished
  <2> QED BY <2>4, <2>6, <2>7, <2>8 DEF Inv
<1> QED BY <1>5, <1>6

LEMMA SingleInv == Controller /\ Inv /\ Single => Inv'
<1> SUFFICES ASSUME Controller, Inv, Single PROVE Inv'
  OBVIOUS
<1>1. /\ at = "single" /\ at' = "idle" /\ UNCHANGED <<autoincrement, group, call, before>>
      /\ idx' = idx /\ group = EndGroup /\ StartGroup = EndGroup
      /\ call \in Calls /\ call.start < call.end /\ call.end <= Words * Width
  BY DEF Single, Inv, Working, Places, Typed, AfterAccess
<1>2. PICK masks : masks = FilterMasks(Masks(call.nonSecure),
                                       Xor(OnesFrom(StartBit), OnesFrom(EndBit)))
  OBVIOUS
<1>3. StartBit < EndBit /\ EndGroup < Words /\ group \in Groups /\ group \in Nat
  BY <1>1, Positions, EndInTable DEF Groups
<1>4. \A b \in Bits : InRange(group, b) <=> b \in Xor(OnesFrom(StartBit), OnesFrom(EndBit))
  <2> SUFFICES ASSUME NEW b \in Bits
               PROVE  InRange(group, b) <=> b \in Xor(OnesFrom(StartBit), OnesFrom(EndBit))
    OBVIOUS
  <2>1. InRange(group, b) <=> b >= StartBit /\ b < EndBit
    BY <1>1, <1>3, InRangeMeans
  <2> QED BY <1>1, <1>3, <2>1, Positions DEF Xor, OnesFrom, Bits
<1>5. masks.keep = {} /\ masks.flip = Wanted(group)
  BY <1>1, <1>2, <1>4, MasksType DEF FilterMasks, Wanted, Calls
<1>6. PICK n \in Nat : n = group + 1
  BY <1>3
<1>7. UpdateLut(masks)
  BY <1>2 DEF Single
<1>8. lut' \in Tables /\ DoneUpTo(n)'
  BY <1>1, <1>3, <1>5, <1>6, <1>7, WordDone
<1>9. n = Past'
  BY <1>1, <1>3, <1>6, Positions DEF Past, EndGroup, EndBit
<1>10. DoneUpTo(Past)'
  BY <1>8, <1>9 DEF DoneUpTo
<1> QED BY <1>1, <1>8, <1>10 DEF Inv, Typed, Working, Places, Finished

(* The local variable goes on with BLK_IDX.                                 *)
LEMMA NextWord ==
  ASSUME Controller, Inv, at \in {"head", "loop"}, group < EndGroup,
         at' = "loop", UNCHANGED <<autoincrement, call, before>>, Advance,
         lut' \in Tables, NEW n \in Nat, n = group + 1, DoneUpTo(n)'
  PROVE  Inv'
<1>1. /\ call \in Calls /\ call.start < call.end /\ ~autoincrement
      /\ group \in StartGroup..EndGroup
  BY DEF Inv, Typed, Working
<1>2. group' = n /\ idx' = n /\ UNCHANGED <<StartGroup, EndGroup, StartBit>>
  BY DEF Advance, StartGroup, EndGroup, StartBit
<1>3. StartGroup \in Nat /\ EndGroup \in Nat
  BY <1>1, Positions
<1>4. DoneUpTo(group)'
  BY <1>2 DEF DoneUpTo
<1>5. Typed'
  BY <1>2 DEF Inv, Typed
<1>6. Working'
  BY <1>1, <1>2, <1>3, <1>4 DEF Working
<1>7. Places'
  BY <1>1, <1>2, <1>3 DEF Places
<1> QED BY <1>5, <1>6, <1>7 DEF Inv, Finished

LEMMA HeadInv == Controller /\ Inv /\ Head => Inv'
<1> SUFFICES ASSUME Controller, Inv, Head PROVE Inv'
  OBVIOUS
<1>1. /\ at = "head" /\ at' = "loop" /\ UNCHANGED <<autoincrement, call, before>> /\ Advance
      /\ group = StartGroup /\ StartGroup < EndGroup
      /\ call \in Calls /\ call.end <= Words * Width
  BY DEF Head, Inv, Places, Typed
<1>2. PICK masks : masks = FilterMasks(Masks(call.nonSecure), OnesFrom(StartBit))
  OBVIOUS
<1>3. group \in Groups /\ group \in Nat
  BY <1>1, Positions, EndInTable DEF Groups
<1>4. \A b \in Bits : InRange(group, b) <=> b \in OnesFrom(StartBit)
  <2> SUFFICES ASSUME NEW b \in Bits PROVE InRange(group, b) <=> b \in OnesFrom(StartBit)
    OBVIOUS
  <2>1. InRange(group, b) <=> b >= StartBit
    BY <1>1, <1>3, InRangeMeans, Positions
  <2> QED BY <1>1, <2>1, Positions DEF OnesFrom, Bits
<1>5. masks.keep = {} /\ masks.flip = Wanted(group)
  BY <1>1, <1>2, <1>4, MasksType DEF FilterMasks, Wanted, Calls
<1>6. PICK n \in Nat : n = group + 1
  BY <1>3
<1>7. UpdateLut(masks)
  BY <1>2 DEF Head
<1>8. lut' \in Tables /\ DoneUpTo(n)'
  BY <1>1, <1>3, <1>5, <1>6, <1>7, WordDone
<1> QED BY <1>1, <1>6, <1>8, NextWord

LEMMA LoopInv == Controller /\ Inv /\ Loop => Inv'
<1> SUFFICES ASSUME Controller, Inv, Loop PROVE Inv'
  OBVIOUS
<1>1. /\ at = "loop" /\ at' = "loop" /\ UNCHANGED <<autoincrement, call, before>> /\ Advance
      /\ group < EndGroup /\ group \in StartGroup..EndGroup
      /\ StartBit # 0 => group > StartGroup
      /\ call \in Calls /\ call.end <= Words * Width
  BY DEF Loop, Inv, Working, Places, Typed
<1>2. PICK masks : masks = Masks(call.nonSecure)
  OBVIOUS
<1>3. group \in Groups /\ group \in Nat
  BY <1>1, Positions, EndInTable DEF Groups
<1>4. \A b \in Bits : InRange(group, b)
  <2> SUFFICES ASSUME NEW b \in Bits PROVE InRange(group, b)
    OBVIOUS
  <2>1. group > StartGroup \/ (group = StartGroup /\ b >= StartBit)
    <3>1. StartGroup \in Nat /\ StartBit \in Nat /\ b \in Nat
      BY <1>1, Positions DEF Bits
    <3> QED BY <1>1, <1>3, <3>1
  <2> QED BY <1>1, <1>3, <2>1, InRangeMeans
<1>5. masks.keep = {} /\ masks.flip = Wanted(group)
  BY <1>1, <1>2, <1>4, MasksType DEF Wanted, Calls
<1>6. PICK n \in Nat : n = group + 1
  BY <1>3
<1>7. UpdateLut(masks)
  BY <1>2 DEF Loop
<1>8. lut' \in Tables /\ DoneUpTo(n)'
  BY <1>1, <1>3, <1>5, <1>6, <1>7, WordDone
<1> QED BY <1>1, <1>6, <1>8, NextWord

LEMMA TailInv == Controller /\ Inv /\ Tail => Inv'
<1> SUFFICES ASSUME Controller, Inv, Tail PROVE Inv'
  OBVIOUS
<1>1. /\ at = "loop" /\ at' = "idle" /\ UNCHANGED <<autoincrement, group, call, before>>
      /\ group = EndGroup /\ StartGroup < EndGroup /\ ~autoincrement /\ DoneUpTo(group)
      /\ call \in Calls /\ call.start < call.end /\ call.end <= Words * Width
  BY Positions DEF Tail, Inv, Working, Places, Typed
<1>2. UNCHANGED <<StartGroup, EndGroup, EndBit, Past>> /\ group \in Nat
  BY <1>1, Positions DEF StartGroup, EndGroup, EndBit, Past
<1>3. CASE EndBit = 0
  <2>1. UNCHANGED <<lut, idx>> /\ Past = group
    BY <1>1, <1>3 DEF Tail, Past
  <2>2. DoneUpTo(Past)'
    BY <1>1, <1>2, <2>1 DEF DoneUpTo, Wanted, InRange
  <2> QED BY <1>1, <2>1, <2>2 DEF Inv, Typed, Working, Places, Finished
<1>4. CASE EndBit # 0
  <2>1. PICK masks : masks = FilterMasks(Masks(call.nonSecure), Bits \ OnesFrom(EndBit))
    OBVIOUS
  <2>2. UpdateLut(masks) /\ idx' = idx
    BY <1>1, <1>4, <2>1 DEF Tail, AfterAccess
  <2>3. group \in Groups
    BY <1>1, <1>2, <1>4, Positions, EndInTable DEF Groups
  <2>4. \A b \in Bits : InRange(group, b) <=> b \notin OnesFrom(EndBit)
    <3> SUFFICES ASSUME NEW b \in Bits PROVE InRange(group, b) <=> b \notin OnesFrom(EndBit)
      OBVIOUS
    <3>1. InRange(group, b) <=> b < EndBit
      BY <1>1, <1>2, InRangeMeans, Positions
    <3> QED BY <1>1, <3>1, Positions DEF OnesFrom, Bits
  <2>5. masks.keep = {} /\ masks.flip = Wanted(group)
    BY <1>1, <2>1, <2>4, MasksType DEF FilterMasks, Wanted, Calls
  <2>6. PICK n \in Nat : n = group + 1
    BY <1>2
  <2>7. lut' \in Tables /\ DoneUpTo(n)'
    BY <1>1, <2>2, <2>3, <2>5, <2>6, WordDone
  <2>8. n = Past'
    BY <1>1, <1>2, <1>4, <2>6 DEF Past
  <2>9. DoneUpTo(Past)'
    BY <2>7, <2>8 DEF DoneUpTo
  <2> QED BY <1>1, <2>2, <2>7, <2>9 DEF Inv, Typed, Working, Places, Finished
<1> QED BY <1>3, <1>4

THEOREM UpdateInvariant == ASSUME Controller PROVE Spec => []Inv
<1>1. Inv /\ [Next]_vars => Inv'
  <2> SUFFICES ASSUME Inv, [Next]_vars PROVE Inv'
    OBVIOUS
  <2>1. CASE \E startBytes, endBytes \in Addresses, nonSecure \in BOOLEAN :
               UpdateRange(startBytes, endBytes, nonSecure)
    BY <2>1, UpdateRangeInv
  <2>2. CASE Single \/ Head \/ Loop \/ Tail
    BY <2>2, SingleInv, HeadInv, LoopInv, TailInv
  <2>3. CASE UNCHANGED vars
    BY <2>3 DEF vars, Inv, Typed, Working, Places, Finished, DoneUpTo, Wanted, InRange,
       Past, StartGroup, EndGroup, StartBit, EndBit
  <2> QED BY <2>1, <2>2, <2>3 DEF Next
<1>2. Init => Inv
  BY InitInv
<1> QED BY <1>1, <1>2, PTL DEF Spec

(* The blocks of the table after a call: those of the words that the range  *)
(* touches are Non-Secure if they are in the range and it is assigned to    *)
(* Non-Secure.                                                              *)
LEMMA Outcome ==
  ASSUME Controller, Inv, at = "idle", NEW g \in Groups, NEW b \in Bits
  PROVE  /\ InRange(g, b) => (b \in lut[g] <=> call.nonSecure)
         /\ ~InRange(g, b) =>
              IF StartBit = 0 /\ EndBit = 0 THEN b \in lut[g] <=> b \in before[g]
              ELSE b \in lut[g] => b \in before[g]
<1>1. call \in Calls /\ call.start \in Nat /\ call.end \in Nat /\ g \in Nat /\ b \in Nat
  BY DEF Inv, Typed, Calls, Groups, Bits
<1>2. CASE ~(call.start < call.end)
  <2>1. lut = before
    BY <1>2 DEF Inv, Finished
  <2>2. ~InRange(g, b)
    BY <1>1, <1>2 DEF InRange
  <2> QED BY <2>1, <2>2
<1>3. CASE call.start < call.end
  <2>1. lut[g] = IF g \in StartGroup..(Past - 1) THEN Wanted(g) ELSE before[g]
    BY <1>3 DEF Inv, Finished, DoneUpTo
  <2>2. CASE g \in StartGroup..(Past - 1)
    <3>1. b \in lut[g] <=> call.nonSecure /\ InRange(g, b)
      BY <2>1, <2>2 DEF Wanted
    <3>2. StartBit = 0 /\ EndBit = 0 => InRange(g, b)
      BY <1>1, <2>2, Positions, InRangeMeans DEF Past
    <3> QED BY <1>1, <3>1, <3>2 DEF Calls
  <2>3. CASE g \notin StartGroup..(Past - 1)
    <3>1. lut[g] = before[g]
      BY <2>1, <2>3
    <3>2. g < StartGroup \/ g > EndGroup \/ (g = EndGroup /\ EndBit = 0)
      BY <1>1, <2>3, Positions DEF Past
    <3>3. ~InRange(g, b)
      BY <1>1, <3>2, Positions, InRangeMeans
    <3> QED BY <3>1, <3>3
  <2> QED BY <2>2, <2>3
<1> QED BY <1>2, <1>3

(* updateRange assigns every block of its range.                            *)
THEOREM WholeRange == ASSUME Controller PROVE Spec => []RangeAssigned
<1>1. Inv => RangeAssigned
  BY Outcome DEF RangeAssigned
<1> QED BY <1>1, UpdateInvariant, PTL

(* No block outside of it becomes Non-Secure: the blocks it wrongly changes *)
(* become Secure.                                                           *)
THEOREM NothingExposed == ASSUME Controller PROVE Spec => []NothingElseExposed
<1>1. Inv => NothingElseExposed
  BY Outcome DEF NothingElseExposed
<1> QED BY <1>1, UpdateInvariant, PTL

(* It changes none if the range consists of whole words.                    *)
THEOREM ExactForWholeWords == ASSUME Controller PROVE Spec => []WholeWords
<1>1. Inv => WholeWords
  BY Outcome DEF WholeWords, OnlyTheRange
<1> QED BY <1>1, UpdateInvariant, PTL
=============================================================================
