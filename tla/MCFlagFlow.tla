----------------------------- MODULE MCFlagFlow -----------------------------
(* FlagFlow for TLC.                                                         *)
EXTENDS FlagFlow, TLC
=============================================================================
