---------------------------- MODULE MCThrottler ----------------------------
(* Instances of Throttler for TLC.                                         *)
EXTENDS Throttler, TLC

CONSTANTS k1, s1, s2, c1, c2, c3

CallSymmetry == Permutations(Calls)
=============================================================================
