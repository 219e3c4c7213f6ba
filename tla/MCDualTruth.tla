---------------------------- MODULE MCDualTruth ----------------------------
(* DualTruth for TLC: two messages, so that a batch can hold a pending and   *)
(* an idle one.                                                              *)
EXTENDS DualTruth, TLC
=============================================================================
