--------------------------- MODULE OneAfterAnother ---------------------------
(***************************************************************************)
(* What SequenceClass promises: "This class runs all of the added steps in *)
(* sequence, one after another" (src/src/actions/SequenceClass.h:51).      *)
(*                                                                         *)
(* A run of steps is started only when no step is left and none is worked  *)
(* on.  Only the first remaining step may be worked on; the next one begins*)
(* after that work has ended.  Steps that have nothing to do are passed    *)
(* over, and a run may be abandoned.                                       *)
(***************************************************************************)
EXTENDS Naturals, Sequences

CONSTANT Step

VARIABLES
    todo,       \* the steps of the run that are not completed, in order
    working     \* the steps whose work is under way

vars == <<todo, working>>

Init == todo = << >> /\ working = {}

\* A step may do its work in the same moment: then nothing is under way.
BeginFirst ==
    IF todo' = << >> THEN working' = {} ELSE working' \subseteq {Head(todo')}

Start ==
    /\ todo = << >>
    /\ working = {}
    /\ todo' \in Seq(Step)
    /\ BeginFirst

Finish ==
    /\ working # {}
    /\ working' = {}
    /\ UNCHANGED todo

Advance ==
    /\ working = {}
    /\ \E n \in 1 .. Len(todo) : todo' = SubSeq(todo, n + 1, Len(todo))
    /\ BeginFirst

Abandon ==
    /\ todo' = << >>
    /\ working' \subseteq working

Next == Start \/ Finish \/ Advance \/ Abandon

Spec == Init /\ [][Next]_vars

=============================================================================
