-------------------------------- MODULE TzMpc --------------------------------
(***************************************************************************)
(* The driver of the memory protection controllers with which the Secure   *)
(* boot code hands memory to the Non-Secure state                          *)
(* (examples/drivers/tz_mpc.zig).  The controller has a bit for every      *)
(* block of memory, one word of them at a time in a window register.       *)
(***************************************************************************)
EXTENDS Integers

CONSTANTS
  BlockSize, \* bytes of a block, as the hardware is configured
  Width,     \* bits of a word of the look-up table: 32
  Words      \* words of the look-up table

Controller == BlockSize \in Nat \ {0} /\ Width \in Nat \ {0} /\ Words \in Nat \ {0}

Groups == 0..(Words - 1)
Bits == 0..(Width - 1)

(* A word is the set of its bits that are set: the Non-Secure blocks.       *)
Tables == [Groups -> SUBSET Bits]

VARIABLES
  lut,           \* the look-up table
  idx,           \* BLK_IDX, which word BLK_LUT shows
  autoincrement, \* CTRL_AUTOINCREMENT: does every access to it advance BLK_IDX?
  at,            \* where updateRange is: "idle", "single", "head" or "loop"
  group,         \* its local variable
  call,          \* its arguments, in blocks
  before         \* not in the code: the table when it was called

vars == <<lut, idx, autoincrement, at, group, call, before>>

(* At reset everything is Secure.                                           *)
Init ==
  /\ lut = [g \in Groups |-> {}]
  /\ idx = 0 /\ autoincrement \in BOOLEAN
  /\ at = "idle" /\ group = 0
  /\ call = [start |-> 0, end |-> 0, nonSecure |-> FALSE]
  /\ before = lut

----------------------------------------------------------------------------
Xor(A, B) == (A \ B) \cup (B \ A)

OnesFrom(pos) == pos..(Width - 1)

(* AND and XOR masks.                                                       *)
Masks(nonSecure) == [keep |-> {}, flip |-> IF nonSecure THEN Bits ELSE {}]

FilterMasks(masks, filter) == [keep |-> masks.keep \ filter, flip |-> masks.flip \cap filter]

AfterAccess(i) == IF autoincrement THEN i + 1 ELSE i

(* It is read and then written.                                             *)
UpdateLut(masks) ==
  lut' = [lut EXCEPT ![AfterAccess(idx)] = Xor(lut[idx] \cap masks.keep, masks.flip)]

StartGroup == call.start \div Width
EndGroup == call.end \div Width
StartBit == call.start % Width
EndBit == call.end % Width

(* assignRangeToNonSecure and assignRangeToSecure, up to the first access   *)
(* to the table.                                                            *)
UpdateRange(startBytes, endBytes, nonSecure) ==
  /\ at = "idle"
  /\ call' = [start |-> startBytes \div BlockSize, end |-> endBytes \div BlockSize,
              nonSecure |-> nonSecure]
  /\ before' = lut
  /\ IF call'.start >= call'.end THEN UNCHANGED <<idx, autoincrement, at, group>>
     ELSE /\ autoincrement' = FALSE
          /\ idx' = StartGroup' /\ group' = StartGroup'
          /\ at' = IF StartGroup' = EndGroup' THEN "single"
                   ELSE IF StartBit' # 0 THEN "head" ELSE "loop"
  /\ UNCHANGED lut

Single ==
  /\ at = "single"
  /\ UpdateLut(FilterMasks(Masks(call.nonSecure), Xor(OnesFrom(StartBit), OnesFrom(EndBit))))
  /\ idx' = AfterAccess(AfterAccess(idx))
  /\ at' = "idle"
  /\ UNCHANGED <<autoincrement, group, call, before>>

Advance == group' = group + 1 /\ idx' = group'

Head ==
  /\ at = "head"
  /\ UpdateLut(FilterMasks(Masks(call.nonSecure), OnesFrom(StartBit)))
  /\ Advance
  /\ at' = "loop"
  /\ UNCHANGED <<autoincrement, call, before>>

Loop ==
  /\ at = "loop" /\ group < EndGroup
  /\ UpdateLut(Masks(call.nonSecure))
  /\ Advance
  /\ UNCHANGED <<autoincrement, at, call, before>>

Tail ==
  /\ at = "loop" /\ group >= EndGroup
  /\ at' = "idle"
  /\ IF EndBit # 0
     THEN /\ UpdateLut(FilterMasks(Masks(call.nonSecure), Bits \ OnesFrom(EndBit)))
          /\ idx' = AfterAccess(AfterAccess(idx))
     ELSE UNCHANGED <<lut, idx>>
  /\ UNCHANGED <<autoincrement, group, call, before>>

Addresses == 0..(Words * Width * BlockSize)

Next ==
  \/ \E startBytes, endBytes \in Addresses, nonSecure \in BOOLEAN :
       UpdateRange(startBytes, endBytes, nonSecure)
  \/ Single \/ Head \/ Loop \/ Tail

Spec == Init /\ [][Next]_vars

----------------------------------------------------------------------------
(* Properties, of the moment when updateRange has returned. *)

InRange(g, b) == g * Width + b \in call.start..(call.end - 1)

(* "Assign an address range to Non-Secure" (tz_mpc.zig:20): the blocks of   *)
(* the range, rounded to whole blocks, and no others.                       *)
OnlyTheRange ==
  at = "idle" =>
    \A g \in Groups, b \in Bits :
      b \in lut[g] <=> IF InRange(g, b) THEN call.nonSecure ELSE b \in before[g]

(* The whole range is assigned: head, loop and tail leave no block out.     *)
RangeAssigned ==
  at = "idle" =>
    \A g \in Groups, b \in Bits : InRange(g, b) => (b \in lut[g] <=> call.nonSecure)

(* Nothing outside the range becomes accessible to the Non-Secure state.    *)
NothingElseExposed ==
  at = "idle" =>
    \A g \in Groups, b \in Bits : b \in lut[g] /\ ~InRange(g, b) => b \in before[g]

(* A range of whole words, as the boot code uses, is assigned and nothing   *)
(* else.                                                                    *)
WholeWords == StartBit = 0 /\ EndBit = 0 => OnlyTheRange

=============================================================================
