---------------------------- MODULE MCTodoCache ----------------------------
(* Instances of TodoCache for TLC.  The first users own the first todos.   *)
EXTENDS TodoCache, TLC

CONSTANTS i1, i2, u1, u2, q1, p1, p2, p3

OneOwner == [i \in Ids |-> u1]
TwoOwners == [i \in Ids |-> IF i = i1 THEN u1 ELSE u2]

PrefixOfModule == <<"cache:">>
NoPrefix == <<>>

ProcSymmetry == Permutations(Procs)
=============================================================================
