---------------------------- MODULE MC_HwClient ----------------------------
(* HwClient for TLC.                                                       *)
EXTENDS HwClient, TLC
=============================================================================
