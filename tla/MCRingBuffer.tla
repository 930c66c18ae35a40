---------------------------- MODULE MCRingBuffer ----------------------------
(***************************************************************************)
(* Instances of RingBuffer for TLC.  Items are only moved and compared, so *)
(* they are interchangeable: Symmetry is sound for the invariants.         *)
(***************************************************************************)
EXTENDS RingBuffer, TLC

Symmetry == Permutations(Item)
=============================================================================
