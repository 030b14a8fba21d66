---------------------------- MODULE MCCtrlChannel ----------------------------
(* Instances of CtrlChannel for TLC.                                       *)
EXTENDS CtrlChannel

CONSTANTS s1, s2, w
=============================================================================
