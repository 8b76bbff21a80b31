----------------------------- MODULE MCDebugger -----------------------------
(***************************************************************************)
(* The instances of Debugger that TLC checks.  Scripts are alike.          *)
(***************************************************************************)
EXTENDS Debugger, TLC

Symmetry == Permutations(Engine)

=============================================================================
