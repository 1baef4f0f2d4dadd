-------------------------- MODULE MCShadowExcStack --------------------------
(* Small instances of ShadowExcStack for TLC. *)
EXTENDS ShadowExcStack

MCFrameTypes == {{}, {"FTYPE"}}
MCStandardFrames == {{"FTYPE"}}
=============================================================================
