--------------------------- MODULE MCShadowStack ---------------------------
(* The model that TLC runs ShadowStack in. *)
EXTENDS ShadowStack
=============================================================================
