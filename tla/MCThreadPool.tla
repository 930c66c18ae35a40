---------------------------- MODULE MCThreadPool ----------------------------
(***************************************************************************)
(* Instances of ThreadPool for TLC.  Workers are interchangeable, and so   *)
(* are submitters; Symmetry is used where only invariants are checked.     *)
(***************************************************************************)
EXTENDS ThreadPool, TLC

Symmetry == Permutations(Workers) \cup Permutations(Submitters)
=============================================================================
