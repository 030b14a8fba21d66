------------------------- MODULE MCAdapterLifecycle -------------------------
(* Instances of AdapterLifecycle for TLC.                                  *)
EXTENDS AdapterLifecycle

CONSTANTS r1, r2
=============================================================================
