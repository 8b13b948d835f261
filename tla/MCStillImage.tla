---------------------------- MODULE MCStillImage ----------------------------
(* StillImage for TLC.                                                     *)
EXTENDS StillImage
=============================================================================
