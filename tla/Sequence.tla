------------------------------ MODULE Sequence ------------------------------
(***************************************************************************)
(* The sequencer of src/src/actions/SequenceClass.{h,cpp}: it runs a list  *)
(* of steps, one after another, and is driven by the completion events of  *)
(* the actions.                                                            *)
(*                                                                         *)
(* A step does its work in one of three ways.  An asynchronous step is     *)
(* queued on the SQLite thread pool, which has one thread and owns it from *)
(* then on.  A detector starts external PHP processes and completes when   *)
(* the last of them has ended.  An initializer works inside Init and posts *)
(* its completion at once.  SequenceClass recognises a completion by its   *)
(* event id only, never by the action that posted it.                      *)
(*                                                                         *)
(* All handlers run on the GUI thread: each is one step here.  The pool is *)
(* the queue RunningThreads.tla proves it to be (one owner, FIFO, and a    *)
(* StopAll that leaves no thread behind).                                  *)
(***************************************************************************)
EXTENDS Naturals, Sequences, FiniteSets

CONSTANTS
    Programs,       \* the kinds of sequences that are started
    MaxSequences,   \* bound: how many sequences are started
    MaxRetags,      \* bound: how many files are tagged again
    ProjectsDialog, \* is a projects dialog opened while a sequence runs?
    MayNotRestart   \* may a further process of a detector fail to start?

Elements(s) == {s[n] : n \in DOMAIN s}

\* What the methods of SequenceClass add, and what the features give to Build.
Program ==
    [AppStart |-> <<"TagCacheDbVersion", "DetectorCacheDbVersion",
         "DetectorDbInit", "ProjectTagInit", "SqlMetaDataInit">>,
     ProjectDefinitionsUpdated |-> <<"TagDeleteSource", "ConfigTagDetector",
         "DatabaseTagDetector", "ProjectTag", "SqlMetaData", "UrlTagDetector",
         "TagDetector">>,
     TagCacheWipeAndIndex |-> <<"TagDeleteSource", "ConfigTagDetector",
         "DatabaseTagDetector", "ProjectTag", "UrlTagDetector", "TagDetector",
         "SqlMetaData">>,
     DatabaseDetection |-> <<"DatabaseTagDetector", "SqlMetaData">>,
     BuildTemplateFiles |-> <<"CallStack", "TemplateFileTagsDetector">>,
     BuildTagDetector |-> <<"TagDetector">>,
     BuildSqlMetaData |-> <<"SqlMetaData">>]

\* The features that call Build without having asked Running().
UncheckedBuild == {"BuildTagDetector", "BuildSqlMetaData"}

Initializer == {"DetectorDbInit", "ProjectTagInit", "SqlMetaDataInit"}
Detector == {"ConfigTagDetector", "DatabaseTagDetector", "UrlTagDetector",
             "TagDetector", "TemplateFileTagsDetector"}

\* Mutant: the detectors forget to override DoAsync.
DoAsyncForgotten(type) == type \notin Initializer

\* DoAsync of the classes derived from GlobalActionClass.
DoAsync(type) == type \notin Initializer \cup Detector

\* The types whose Init returns true in every state.
AlwaysInits ==
    Initializer \cup {"TagCacheDbVersion", "DetectorCacheDbVersion", "CallStack"}

Phase == {"open", "dialog", "closing", "exited"}

ASSUME SequenceAssumption ==
    /\ Programs \subseteq DOMAIN Program
    /\ MaxSequences \in Nat
    /\ MaxRetags \in Nat
    /\ ProjectsDialog \in BOOLEAN
    /\ MayNotRestart \in BOOLEAN

VARIABLES
    Steps,          \* the steps not completed yet; the first is the current one
    IsRunning,
    IsCurrentStepAsync,
    sequences,      \* number of sequences started
    retags,         \* number of files queued to be tagged again
    pool,           \* the actions in the SQLite pool; its thread works on the head
    processes,      \* the detectors that have a running external process
    inbox,          \* completion events posted to SequenceClass, not delivered
    created,        \* the action objects allocated so far
    deleted,        \* those that have been deleted
    refused,        \* those given to a Build that returned false
    gauge,          \* the last of SEQUENCE_START and SEQUENCE_COMPLETE posted
    phase           \* the main window: open, in a stopping dialog, closing, gone

vars == <<Steps, IsRunning, IsCurrentStepAsync, sequences, retags, pool,
          processes, inbox, created, deleted, refused, gauge, phase>>

ActionType ==
    (UNION {Elements(Program[p]) : p \in DOMAIN Program}) \cup {"ProjectTagSingleFile"}

Asynchronous == {type \in ActionType : DoAsync(type)}

\* An action object: the n-th of the given sequence, or of the files tagged again.
Object == [seq : 0 .. MaxSequences, n : Nat \ {0}, type : ActionType]
OfType(types) == {o \in Object : o.type \in types}

TypeOK ==
    /\ Steps \in Seq(Object)
    /\ IsRunning \in BOOLEAN
    /\ IsCurrentStepAsync \in BOOLEAN
    /\ sequences \in 0 .. MaxSequences
    /\ retags \in 0 .. MaxRetags
    /\ pool \in Seq(OfType(ActionType \ (Initializer \cup Detector)))
    /\ processes \in SUBSET OfType(Detector)
    /\ inbox \in Seq(Object)
    /\ created \in SUBSET Object
    /\ deleted \in SUBSET Object
    /\ refused \in SUBSET Object
    /\ gauge \in {"none", "start", "complete"}
    /\ phase \in Phase

Init ==
    /\ Steps = << >>
    /\ IsRunning = FALSE
    /\ IsCurrentStepAsync = FALSE
    /\ sequences = 0
    /\ retags = 0
    /\ pool = << >>
    /\ processes = {}
    /\ inbox = << >>
    /\ created = {}
    /\ deleted = {}
    /\ refused = {}
    /\ gauge = "none"
    /\ phase = "open"

-----------------------------------------------------------------------------
(* Running the steps.                                                      *)

FirstIs(steps, types) == steps # << >> /\ Head(steps).type \in types

\* Mutant: a step whose Init fails is popped and not deleted.
DeleteFinished(finished, passed) == deleted' = deleted \cup finished

\* The finished step and the steps whose Init fails are deleted.
DeletePassed(finished, passed) == deleted' = deleted \cup finished \cup passed

\* Mutant: when no step can be initialized nobody is told.
PostNothing(rest, posted) == gauge' = posted

\* SEQUENCE_COMPLETE is posted if no step is left to run.
PostIfDone(rest, posted) ==
    gauge' = IF rest = << >> THEN "complete" ELSE posted

\* RunNextStep with the given steps left: the first k of them have nothing to
\* do (Init returns false) and are deleted, the next one is started.  The
\* finished step is deleted (a detector's destructor kills its process), the
\* pending events stay, and posted is the sequence event posted before.
RunNextStep(steps, finished, pending, posted) ==
    \E k \in 0 .. Len(steps) :
        LET passed == {steps[n] : n \in 1 .. k}
            rest == SubSeq(steps, k + 1, Len(steps))
        IN  /\ \A s \in passed : s.type \notin AlwaysInits
            /\ Steps' = rest
            /\ IsRunning' = (rest # << >>)
            /\ IsCurrentStepAsync' =
                   DoAsync(IF rest = << >> THEN steps[k].type ELSE rest[1].type)
            /\ DeletePassed(finished, passed)
            /\ pool' = IF FirstIs(rest, Asynchronous)
                       THEN Append(pool, Head(rest)) ELSE pool
            /\ processes' = (processes \ finished) \cup
                   (IF FirstIs(rest, Detector) THEN {Head(rest)} ELSE {})
            /\ inbox' = IF FirstIs(rest, Initializer)
                        THEN Append(pending, Head(rest)) ELSE pending
            /\ PostIfDone(rest, posted)

\* Mutant: the current step is deleted whoever owns it.
OwnedAlways == IF Steps = << >> THEN {} ELSE {Head(Steps)}

\* The current step, when it is the sequence that has to delete it.
OwnedFirst ==
    IF Steps = << >> \/ IsCurrentStepAsync THEN {} ELSE {Head(Steps)}

\* The step objects of the next sequence.
StepsOf(p) ==
    [n \in DOMAIN Program[p] |->
        [seq |-> sequences + 1, n |-> n, type |-> Program[p][n]]]

\* Mutant: a new sequence is started beside the running one.
StartWhileRunning(p) ==
    /\ phase = "open"
    /\ sequences < MaxSequences
    /\ sequences' = sequences + 1
    /\ created' = created \cup Elements(StepsOf(p))
    /\ RunNextStep(Steps \o StepsOf(p), {}, inbox, "start")
    /\ UNCHANGED <<retags, refused, phase>>

\* AppStart, ProjectDefinitionsUpdated, TagCacheWipeAndIndex, DatabaseDetection
\* and Build, when they do not return false, with the Run they end in.
Start(p) ==
    /\ phase = "open"
    /\ sequences < MaxSequences
    /\ ~IsRunning
    /\ sequences' = sequences + 1
    /\ created' = created \cup Elements(StepsOf(p))
    /\ RunNextStep(Steps \o StepsOf(p), {}, inbox, "start")
    /\ UNCHANGED <<retags, refused, phase>>

\* Build returns false, and its callers do not look at the result.
BuildRefused(p) ==
    /\ phase = "open"
    /\ sequences < MaxSequences
    /\ p \in UncheckedBuild
    /\ IsRunning
    /\ sequences' = sequences + 1
    /\ created' = created \cup Elements(StepsOf(p))
    /\ refused' = refused \cup Elements(StepsOf(p))
    /\ UNCHANGED <<Steps, IsRunning, IsCurrentStepAsync, retags, pool, processes,
                   inbox, deleted, gauge, phase>>

\* The completion of an action, of whichever action has a known event id.
OnActionComplete ==
    /\ inbox # << >>
    /\ phase # "exited"
    /\ IF Len(Steps) > 1
       THEN RunNextStep(Tail(Steps), OwnedFirst, Tail(inbox), gauge)
       ELSE /\ Steps' = << >>
            /\ IsRunning' = FALSE
            /\ gauge' = "complete"
            /\ inbox' = Tail(inbox)
            /\ deleted' = deleted \cup OwnedFirst
            /\ processes' = processes \ OwnedFirst
            /\ UNCHANGED <<IsCurrentStepAsync, pool>>
    /\ UNCHANGED <<sequences, retags, created, refused, phase>>

\* The objects that Stop deletes.
Stopped == OwnedFirst \cup (IF Steps = << >> THEN {} ELSE Elements(Tail(Steps)))

\* Mutant: Running() stays true after a stop.
StopSequenceStillRunning ==
    /\ Steps' = << >>
    /\ gauge' = "complete"
    /\ processes' = processes \ Stopped
    /\ UNCHANGED <<IsRunning, IsCurrentStepAsync>>

\* Stop, but for the deletion of the stopped objects.
StopSequence ==
    /\ Steps' = << >>
    /\ IsRunning' = FALSE
    /\ gauge' = "complete"
    /\ processes' = processes \ Stopped
    /\ UNCHANGED IsCurrentStepAsync

\* Mutant: the preferences dialog stops the pool only.
StopForPreferencesPoolOnly ==
    /\ phase = "open"
    /\ IsRunning
    /\ \E taken \in 0 .. 1 :
           taken <= Len(pool) /\ inbox' = inbox \o SubSeq(pool, 1, taken)
    /\ pool' = << >>
    /\ deleted' = deleted \cup Elements(pool)
    /\ phase' = "dialog"
    /\ UNCHANGED <<Steps, IsRunning, IsCurrentStepAsync, sequences, retags,
                   processes, created, refused, gauge>>

\* The preferences dialog, after the user agreed to stop the background tasks:
\* Stop, then StopAll on the pool.  The pool's thread may have taken the head,
\* which then completes; all else in the queue is deleted unseen.
StopForPreferences ==
    /\ phase = "open"
    /\ IsRunning
    /\ StopSequence
    /\ \E taken \in 0 .. 1 :
           taken <= Len(pool) /\ inbox' = inbox \o SubSeq(pool, 1, taken)
    /\ pool' = << >>
    /\ deleted' = deleted \cup Stopped \cup Elements(pool)
    /\ phase' = "dialog"
    /\ UNCHANGED <<sequences, retags, created, refused>>

\* The two projects dialogs: Stop, then StopAll on the other pool only.
StopForProjects ==
    /\ ProjectsDialog
    /\ phase = "open"
    /\ IsRunning
    /\ StopSequence
    /\ deleted' = deleted \cup Stopped
    /\ phase' = "dialog"
    /\ UNCHANGED <<sequences, retags, pool, inbox, created, refused>>

\* The user answers a modal dialog long after its event loop has delivered
\* what had been posted before; while it is open no other command is given.
CloseDialog ==
    /\ phase = "dialog"
    /\ inbox = << >>
    /\ phase' = "open"
    /\ UNCHANGED <<Steps, IsRunning, IsCurrentStepAsync, sequences, retags, pool,
                   processes, inbox, created, deleted, refused, gauge>>

\* The main window closes: Stop, whether or not a sequence runs.
CloseMainFrame ==
    /\ phase = "open"
    /\ StopSequence
    /\ deleted' = deleted \cup Stopped
    /\ phase' = "closing"
    /\ UNCHANGED <<sequences, retags, pool, inbox, created, refused>>

\* ~AppClass shuts the pool down, then ~SequenceClass calls Stop and drops the
\* events that are still to be delivered.
Exit ==
    /\ phase = "closing"
    /\ StopSequence
    /\ pool' = << >>
    /\ inbox' = << >>
    /\ deleted' = deleted \cup Stopped \cup Elements(pool)
    /\ phase' = "exited"
    /\ UNCHANGED <<sequences, retags, created, refused>>

-----------------------------------------------------------------------------
(* What runs beside the sequencer.                                         *)

\* A file of a project is tagged again when its page is closed, or when another
\* program has created or changed it: on the same pool, under the event id of the
\* ProjectTag step.
FileRetagged ==
    LET action == [seq |-> 0, n |-> retags + 1, type |-> "ProjectTagSingleFile"]
    IN  /\ phase \in {"open", "dialog"}
        /\ retags < MaxRetags
        /\ retags' = retags + 1
        /\ created' = created \cup {action}
        /\ pool' = Append(pool, action)
        /\ UNCHANGED <<Steps, IsRunning, IsCurrentStepAsync, sequences, processes,
                       inbox, deleted, refused, gauge, phase>>

\* The pool's thread is done with the head of its queue: it posts the
\* completion and deletes the action.
PoolCompletes ==
    /\ pool # << >>
    /\ pool' = Tail(pool)
    /\ inbox' = Append(inbox, Head(pool))
    /\ deleted' = deleted \cup {Head(pool)}
    /\ UNCHANGED <<Steps, IsRunning, IsCurrentStepAsync, sequences, retags,
                   processes, created, refused, gauge, phase>>

\* The last process of a detector has ended, well or badly.  One that is not
\* the last changes nothing here: the next process takes its place.
DetectorCompletes(s) ==
    /\ s \in processes
    /\ processes' = processes \ {s}
    /\ inbox' = Append(inbox, s)
    /\ UNCHANGED <<Steps, IsRunning, IsCurrentStepAsync, sequences, retags, pool,
                   created, deleted, refused, gauge, phase>>

\* A process that is not the last has ended, and the next one cannot be
\* started: the result of NextDetection is ignored.
DetectorNotRestarted(s) ==
    /\ MayNotRestart
    /\ s \in processes
    /\ processes' = processes \ {s}
    /\ UNCHANGED <<Steps, IsRunning, IsCurrentStepAsync, sequences, retags, pool,
                   inbox, created, deleted, refused, gauge, phase>>

-----------------------------------------------------------------------------

Gui ==
    \/ \E p \in Programs : Start(p) \/ BuildRefused(p)
    \/ StopForPreferences \/ StopForProjects \/ CloseDialog
    \/ CloseMainFrame \/ Exit \/ FileRetagged

Background ==
    \/ PoolCompletes
    \/ \E s \in processes : DetectorCompletes(s) \/ DetectorNotRestarted(s)

Next ==
    \/ Gui
    \/ OnActionComplete
    \/ Background

Spec == Init /\ [][Next]_vars

\* The event loop delivers, the pool's thread is scheduled and its actions end,
\* external processes end.
LiveSpec ==
    /\ Spec
    /\ WF_vars(OnActionComplete)
    /\ WF_vars(PoolCompletes)
    /\ WF_vars(\E s \in processes : DetectorCompletes(s))

-----------------------------------------------------------------------------
(* What the sequencer promises.                                            *)

\* Running() is the flag that every command asks: it is set exactly while
\* steps are left, in whatever order completions and stops arrive.
RunningHasSteps == IsRunning <=> Steps # << >>

\* The status bar gauge, which starts and stops with the sequence events, turns
\* exactly while a sequence runs; a late completion never restarts it.
GaugeShowsRunning == gauge = "start" <=> IsRunning

\* No action is deleted twice or used after its deletion: the pool and the
\* sequence delete disjoint sets of live objects, and an external process belongs
\* to the live current step.
OneOwner ==
    LET owned == OwnedFirst \cup Stopped
    IN  /\ owned \cap deleted = {}
        /\ Elements(pool) \cap deleted = {}
        /\ owned \cap Elements(pool) = {}
        /\ processes \subseteq OwnedFirst
        /\ \A m, n \in DOMAIN pool : pool[m] = pool[n] => m = n

\* Every action is deleted in the end: one that is not deleted yet is a step
\* that the sequence will reach or is queued in the pool.  Only the actions
\* that Build refused have no owner: its callers ignore the result.
NothingLeaks ==
    created \subseteq deleted \cup refused \cup Stopped \cup Elements(pool)

\* The steps are handed between the sequence and the pool, and stopped and
\* completed by others, without ever having two owners or none.
StepsHaveOneOwner == OneOwner /\ NothingLeaks

\* The sequence never waits for nothing: the work of the current step is under
\* way, or its completion has been posted, whatever foreign completions have
\* moved the sequence to this step.
CurrentStepIsLive ==
    IsRunning =>
        \/ Head(Steps) \in Elements(pool) \cup processes
        \/ Head(Steps) \in Elements(inbox)

\* Every sequence ends, so that Running() refuses no command for ever.
SequenceEnds == IsRunning ~> ~IsRunning

\* The steps of one sequence after another, in the order given, each after the
\* work of the one before: the promise of SequenceClass.h:51.
Promise == INSTANCE OneAfterAnother
    WITH Step <- Object, todo <- Steps, working <- processes \cup Elements(pool)
KeepsPromise == Promise!Spec

(* What the comments of the code say and the code does not do.             *)

\* SequenceClass.h:51, "runs all of the added steps in sequence, one after
\* another", also while files are closed: no two steps are worked on at once.
OneStepAtATime ==
    LET working == processes \cup (IF pool = << >> THEN {} ELSE {Head(pool)})
    IN  \A s, t \in working : s.seq # 0 /\ t.seq # 0 => s = t

\* SequenceClass.h:80, "if there is an existing sequence running then we will
\* not start another sequence": no step of an earlier sequence is unfinished.
OneSequenceAtATime ==
    IsRunning => \A s \in Elements(pool) : s.seq \in {0, Head(Steps).seq}

\* SequenceClass.cpp:291, "sync actions still generate EVT_WORK_COMPLETE events"
\* although a detector may not be able to start its next process.
DetectorsComplete ==
    IsRunning /\ Head(Steps).type \in Detector =>
        Head(Steps) \in processes \cup Elements(inbox)

=============================================================================
