-------------------------- MODULE MCRunningThreads --------------------------
(***************************************************************************)
(* RunningThreads for TLC.  Actions are interchangeable until Queue gives  *)
(* them an id, so the safety runs reduce by their permutations.            *)
(***************************************************************************)
EXTENDS RunningThreads, TLC

Symmetry == Permutations(Action)

=============================================================================
