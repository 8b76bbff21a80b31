----------------------------- MODULE MCSequence -----------------------------
(***************************************************************************)
(* Model checking of Sequence: the bounds are in the .cfg files.           *)
(***************************************************************************)
EXTENDS Sequence
=============================================================================
