----------------------------- MODULE EntryPCSet -----------------------------
(***************************************************************************)
(* How the monitor recognises the first instruction of an exception        *)
(* trampoline (ExecptionEntryPCSet in src/src/monitor/shadowexcstack.zig): *)
(* the set is taken from the Non-Secure vector table once, and asked for   *)
(* every frame of an entry chain.  In module ShadowExcStack it is the      *)
(* address "entry".                                                        *)
(***************************************************************************)
EXTENDS AddressChecks

CONSTANTS
  Stride,   \* VEC_TABLE.TRAMPOLINE_STRIDE
  Strides   \* how many of them there are in the address space

Words == 0..(Stride * Strides - 1)

Wrapped(n) == n % (Stride * Strides)

(* The shift is a whole number of bits, and bit 0 of an address is not part *)
(* of it (it tells Thumb code).                                             *)
Machine == Strides \in Nat \ {0} /\ Stride \in Nat \ {0} /\ Stride % 2 = 0

----------------------------------------------------------------------------
(* setFromVtor.  `entries` are the words of the vector table behind the     *)
(* two of its header, `size` counts those as well.                          *)

Tables(size) == [2..(size - 1) -> Words]

(* It panics unless the trampolines follow each other at the stride, and    *)
(* are Thumb code.                                                          *)
LaidOutAsExpected(size, entries) ==
  size > 2 =>
    /\ entries[2] % 2 = 1
    /\ \A i \in 2..(size - 1) : entries[i] = Wrapped(entries[2] + (i - 2) * Stride)

(* Where the table is, and which of its bytes it reads: all Non-Secure.     *)
CheckedTable(vtor, size) ==
  /\ CheckSlice(4, 4, vtor, 2, [readwrite |-> FALSE, unpriv |-> FALSE]) = "ok"
  /\ size > 2 => CheckSlice(4, 4, vtor, size, [readwrite |-> FALSE, unpriv |-> FALSE]) = "ok"

SetFromVtor(size, entries) ==
  IF size = 2 THEN [start |-> 0, len |-> 0]
  ELSE [start |-> entries[2] - 1, len |-> size - 2]

----------------------------------------------------------------------------
(* contains. *)

(* The lower bits come out on top.                                          *)
Rotr(word) == (word % Stride) * Strides + word \div Stride

Contains(set, pc) == Rotr(Wrapped(pc - set.start)) < set.len

----------------------------------------------------------------------------

(* The first instructions of the trampolines.                               *)
Trampolines(size, entries) == {entries[i] - 1 : i \in 2..(size - 1)}

=============================================================================
