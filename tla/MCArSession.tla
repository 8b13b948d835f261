---------------------------- MODULE MCArSession ----------------------------
(* ArSession for TLC.                                                      *)
EXTENDS ArSession
=============================================================================
