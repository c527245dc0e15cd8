-------------------------- MODULE MCCircularQueue ---------------------------
(***************************************************************************)
(* Small instances of CircularQueue for TLC.  No bound is needed: callers  *)
(* call for ever and the state space is finite.                            *)
(***************************************************************************)
EXTENDS CircularQueue, TLC

CONSTANTS p1, p2, c1, c2, v1, v2

MCProducers == {p1, p2}
MCConsumers == {c1, c2}
MCItems == {v1, v2}

ThreadSymmetry == Permutations(MCProducers) \cup Permutations(MCConsumers)
=============================================================================
