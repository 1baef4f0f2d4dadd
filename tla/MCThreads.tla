----------------------------- MODULE MCThreads -----------------------------
EXTENDS Threads

(* The real sizes, in units of 32 bytes, satisfy what is assumed of them:   *)
(* 64 slots, 8192 bytes, blocks of 32, 80 (up to the alignment of the next  *)
(* one), 128 and 256 bytes.                                                 *)
ASSUME 4 + 63 * (1 + 3 + 4 + 8) > 256

=============================================================================
