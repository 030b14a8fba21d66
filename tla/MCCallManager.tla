---------------------------- MODULE MCCallManager ----------------------------
(* Instances of CallManager for TLC.                                       *)
EXTENDS CallManager, TLC

CONSTANTS c1, c2, h1, h2, e1, e2

\* Calls, hang-up requests and event channels are interchangeable.
Symmetry == Permutations({c1, c2}) \cup Permutations({h1, h2}) \cup Permutations({e1, e2})
=============================================================================
