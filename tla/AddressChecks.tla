---------------------------- MODULE AddressChecks ----------------------------
(***************************************************************************)
(* How the gateways check the addresses that Non-Secure code passes to     *)
(* them (checkObject, checkSlice and checkAddressRange of                  *)
(* src/src/drivers/arm_cmse.zig): by the attributes of the first and the   *)
(* last byte alone.                                                        *)
(***************************************************************************)
EXTENDS Integers

CONSTANTS
  AddressSpace, \* the number of addresses: 2^32
  Attributes,   \* what a TT instruction tells of an address (AddressInfo)
  TT,           \* those of each address, for privileged and unprivileged code
  Readable,     \* those with nonsecure_read_ok
  Writable      \* those with nonsecure_readwrite_ok

Addresses == 0..(AddressSpace - 1)

Options == [readwrite : BOOLEAN, unpriv : BOOLEAN]

(* The SAU, the IDAU and the MPUs (external).  Their regions are ranges and  *)
(* part of the attributes, so equal attributes that allow an access are     *)
(* those of one region.                                                     *)
Attribution ==
  /\ AddressSpace \in Nat \ {0}
  /\ TT \in [BOOLEAN -> [Addresses -> Attributes]]
  /\ \A unpriv \in BOOLEAN, a, b, c \in Addresses :
       /\ a <= b /\ b <= c
       /\ TT[unpriv][a] = TT[unpriv][c] /\ TT[unpriv][a] \in Readable \cup Writable
       => TT[unpriv][b] = TT[unpriv][a]

(* Non-Secure code may access an address as the options say.                *)
Allowed(a, options) ==
  TT[options.unpriv][a] \in IF options.readwrite THEN Writable ELSE Readable

----------------------------------------------------------------------------
(* A size of 0 is treated like 1.                                           *)
End(start, size) == IF size > 0 THEN start + (size - 1) ELSE start

CheckAddressRange(start, size, options) ==
  IF End(start, size) >= AddressSpace THEN "WrapsAround"
  ELSE IF TT[options.unpriv][start] # TT[options.unpriv][End(start, size)]
  THEN "CrossesRegionBoundary"
  ELSE IF Allowed(start, options) THEN "ok" ELSE "Forbidden"

Misaligned(ptr, alignment) == ptr % alignment # 0

CheckObject(alignment, size, ptr, options) ==
  IF Misaligned(ptr, alignment) THEN "Misaligned" ELSE CheckAddressRange(ptr, size, options)

CheckSlice(alignment, size, ptr, count, options) ==
  IF Misaligned(ptr, alignment) THEN "Misaligned"
  ELSE IF count * size >= AddressSpace THEN "SizeTooLarge"
  ELSE CheckAddressRange(ptr, count * size, options)

(* The length of the slice it returns, as its users see it.                 *)
SliceLength(size, count) == count * size

=============================================================================
