---------------------------- MODULE MCEventHooks ----------------------------
(***************************************************************************)
(* Instances of EventHooks for TLC; threads of a kind are interchangeable. *)
(***************************************************************************)
EXTENDS EventHooks, TLC

Symmetry == Permutations(Executors) \cup Permutations(Waiters)
=============================================================================
