-------------------------------- MODULE Lint --------------------------------
(***************************************************************************)
(* PHP lint checks: LintViewClass starts an action that walks the files of *)
(* the projects, and another one for each file that is saved; the errors   *)
(* they post are kept in LintFeatureClass::LintErrors and shown as rows of *)
(* LintResultsPanelClass.  A text of a file is told by the number of its   *)
(* errors, an error by its file.                                           *)
(***************************************************************************)
EXTENDS Integers, SequencesExt

CONSTANTS
    LintedFiles,    \* a sequence: the order the directories are walked
    MaxErrors,      \* bound on the errors of a file
    MaxLints,       \* bound on the project checks
    MaxFileSaves    \* bound on the saves

ASSUME LintAssumption ==
    /\ LintedFiles \in Seq(STRING) /\ IsInjective(LintedFiles)
    /\ {MaxErrors, MaxLints, MaxFileSaves} \subseteq Nat

VARIABLES
    errorsIn,           \* the errors of the text on disk, by file
    saves,              \* counts the saves
    lints,              \* counts the project checks
    RunningActionId,    \* 0: none
    checks,             \* the actions that are queued or run
    lintEvents,         \* posted to the view
    panelOpen, runEnabled, gauge,
    LintErrors, rowsShown,
    dropped             \* the actions that ended without an event

lintVars == <<errorsIn, saves, lints, RunningActionId, checks, lintEvents, panelOpen, runEnabled,
              gauge, LintErrors, rowsShown, dropped>>
lintPanelVars == <<panelOpen, runEnabled, gauge, LintErrors, rowsShown>>

PhpFiles == ToSet(LintedFiles)
LintIds == 1 .. MaxLints
Checks ==
    [id : 0 .. MaxLints, left : Seq(PhpFiles), runs : BOOLEAN, cancelled : BOOLEAN]
LintEvents ==
    [kind : {"error", "error after save"}, file : PhpFiles, count : 1 .. MaxErrors]
    \cup [kind : {"summary", "complete"}]

LintTypeOK ==
    /\ errorsIn \in [PhpFiles -> 0 .. MaxErrors]
    /\ saves \in 0 .. MaxFileSaves
    /\ lints \in 0 .. MaxLints
    /\ RunningActionId \in 0 .. lints
    /\ checks \subseteq Checks
    /\ lintEvents \in Seq(LintEvents)
    /\ panelOpen \in BOOLEAN /\ runEnabled \in BOOLEAN /\ gauge \in BOOLEAN
    /\ LintErrors \in Seq(PhpFiles) /\ rowsShown \in Seq(PhpFiles)
    \* without the panel no errors are kept: OnFileSaved looks at the panel only
    /\ ~panelOpen => LintErrors = << >> /\ rowsShown = << >> /\ ~runEnabled
    /\ dropped \subseteq LintIds

LintInit ==
    /\ errorsIn \in [PhpFiles -> {MaxErrors}]
    /\ saves = 0 /\ lints = 0 /\ RunningActionId = 0
    /\ checks = {} /\ lintEvents = << >>
    /\ panelOpen = FALSE /\ runEnabled = FALSE /\ gauge = FALSE
    /\ LintErrors = << >> /\ rowsShown = << >>
    /\ dropped = {}

-----------------------------------------------------------------------------
(***************************************************************************)
(* The menu and the panel.                                                 *)
(***************************************************************************)

StartLint ==
    /\ lints < MaxLints
    /\ lints' = lints + 1
    /\ RunningActionId' = lints'
    /\ checks' = checks \cup {[id |-> lints', left |-> LintedFiles, runs |-> FALSE, cancelled |-> FALSE]}
    /\ gauge' = TRUE
    /\ panelOpen' = TRUE /\ runEnabled' = FALSE
    /\ LintErrors' = IF panelOpen THEN << >> ELSE LintErrors
    /\ rowsShown' = << >>

\* OnLintMenu, and OnRunButton of the panel, which is enabled or not.
LintProject ==
    /\ RunningActionId = 0 \/ (panelOpen /\ runEnabled)
    /\ StartLint
    /\ UNCHANGED <<errorsIn, saves, lintEvents, dropped>>

\* RemoveErrorsFor: the errors of the file go; row counts the rows that are passed,
\* one less for each error that was erased.
PassError(s, e, f) ==
    IF e # f THEN [s EXCEPT !.errors = Append(@, e), !.row = @ + 1]
    ELSE [s EXCEPT !.row = @ - 1,
                   !.rows = IF s.row \in 0 .. Len(@) - 1 THEN RemoveAt(@, s.row + 1) ELSE @]

RemoveErrorsFor(f) ==
    LET after[i \in 0 .. Len(LintErrors)] ==
            IF i = 0 THEN [errors |-> << >>, rows |-> rowsShown, row |-> 0]
            ELSE PassError(after[i - 1], LintErrors[i], f)
    IN  after[Len(LintErrors)]

\* OnFileSaved, with CheckOnSave as it is by default; a file that is saved has
\* any number of errors.
OnFileSaved(f, count) ==
    /\ saves < MaxFileSaves
    /\ saves' = saves + 1
    /\ errorsIn' = [errorsIn EXCEPT ![f] = count]
    /\ IF panelOpen THEN /\ LintErrors' = RemoveErrorsFor(f).errors
                         /\ rowsShown' = RemoveErrorsFor(f).rows
                    ELSE UNCHANGED <<LintErrors, rowsShown>>
    /\ checks' = checks \cup {[id |-> 0, left |-> <<f>>, runs |-> FALSE, cancelled |-> FALSE]}
    /\ UNCHANGED <<lints, RunningActionId, lintEvents, panelOpen, runEnabled, gauge, dropped>>

\* CancelAction forgets an action that waits; one that runs it tells to stop, but
\* only if some action, of whatever kind, waits in the queue of the pool.
Cancelled(id) ==
    LET c == CHOOSE c \in checks : c.id = id
    IN  IF \A a \in checks : a.id # id THEN {checks}
        ELSE IF ~c.runs THEN {checks \ {c}}
        ELSE {checks, (checks \ {c}) \cup {[c EXCEPT !.cancelled = TRUE]}}

\* A mutant: the errors are kept when the panel is closed.
ClosedWithErrors ==
    /\ panelOpen
    /\ IF RunningActionId > 0
       THEN /\ checks' \in Cancelled(RunningActionId)
            /\ RunningActionId' = 0 /\ gauge' = FALSE
       ELSE UNCHANGED <<checks, RunningActionId, gauge>>
    /\ UNCHANGED LintErrors /\ rowsShown' = << >>
    /\ panelOpen' = FALSE /\ runEnabled' = FALSE
    /\ UNCHANGED <<errorsIn, saves, lints, lintEvents, dropped>>

OnNotebookPageClosed ==
    /\ panelOpen
    /\ IF RunningActionId > 0
       THEN /\ checks' \in Cancelled(RunningActionId)
            /\ RunningActionId' = 0 /\ gauge' = FALSE
       ELSE UNCHANGED <<checks, RunningActionId, gauge>>
    /\ LintErrors' = << >> /\ rowsShown' = << >>
    /\ panelOpen' = FALSE /\ runEnabled' = FALSE
    /\ UNCHANGED <<errorsIn, saves, lints, lintEvents, dropped>>

\* StopAll, when the user lets the background tasks be stopped.
StopLints ==
    /\ checks # {}
    /\ checks' = {[c EXCEPT !.cancelled = TRUE] : c \in {d \in checks : d.runs}}
    /\ dropped' = dropped \cup ({c.id : c \in {d \in checks : ~d.runs}} \ {0})
    /\ UNCHANGED <<errorsIn, saves, lints, RunningActionId, lintEvents, lintPanelVars>>

-----------------------------------------------------------------------------
(***************************************************************************)
(* The actions.                                                            *)
(***************************************************************************)

BeginLint(c) ==
    /\ ~c.runs
    /\ checks' = (checks \ {c}) \cup {[c EXCEPT !.runs = TRUE]}
    /\ UNCHANGED <<errorsIn, saves, lints, RunningActionId, lintEvents, lintPanelVars, dropped>>

\* Walk and GetLastErrors; the check of a single file does not look at IsCancelled.
WalkFileToLint(c) ==
    /\ c.runs /\ c.left # << >>
    /\ c.cancelled => c.id = 0
    /\ LET f == Head(c.left)
           e == [kind |-> IF c.id = 0 THEN "error after save" ELSE "error",
                 file |-> f, count |-> errorsIn[f]]
       IN  lintEvents' = IF errorsIn[f] = 0 THEN lintEvents ELSE Append(lintEvents, e)
    /\ checks' = (checks \ {c}) \cup {[c EXCEPT !.left = Tail(@)]}
    /\ UNCHANGED <<errorsIn, saves, lints, RunningActionId, lintPanelVars, dropped>>

\* A mutant: a check that was cancelled does not say that it is complete.
EndIfNotCancelled(c) ==
    /\ c.runs
    /\ c.left = << >> \/ (c.cancelled /\ c.id # 0)
    /\ lintEvents' =
           lintEvents \o IF c.id = 0 \/ c.cancelled THEN << >>
                         ELSE <<[kind |-> "summary"], [kind |-> "complete"]>>
    /\ checks' = checks \ {c}
    /\ UNCHANGED <<errorsIn, saves, lints, RunningActionId, lintPanelVars, dropped>>

\* The summary, then SignalEnd; the view does not listen to the end of the check
\* of a single file.
EndLint(c) ==
    /\ c.runs
    /\ c.left = << >> \/ (c.cancelled /\ c.id # 0)
    /\ lintEvents' =
           lintEvents \o (IF c.id = 0 \/ c.cancelled THEN << >> ELSE <<[kind |-> "summary"]>>)
                      \o (IF c.id = 0 THEN << >> ELSE <<[kind |-> "complete"]>>)
    /\ checks' = checks \ {c}
    /\ UNCHANGED <<errorsIn, saves, lints, RunningActionId, lintPanelVars, dropped>>

-----------------------------------------------------------------------------
(***************************************************************************)
(* Their events.                                                           *)
(***************************************************************************)

AddErrors(e) ==
    LET added == [i \in 1 .. e.count |-> e.file]
    IN  /\ LintErrors' = LintErrors \o added
        /\ rowsShown' = rowsShown \o added

OnLintError(e) ==
    /\ e.kind \in {"error", "error after save"}
    /\ IF panelOpen THEN AddErrors(e) ELSE UNCHANGED <<LintErrors, rowsShown>>
    /\ UNCHANGED <<RunningActionId, gauge, runEnabled>>

OnLintSummary(e) ==
    /\ e.kind = "summary"
    /\ runEnabled' = panelOpen
    /\ UNCHANGED <<RunningActionId, gauge, LintErrors, rowsShown>>

OnLintComplete(e) ==
    /\ e.kind = "complete"
    /\ gauge' = FALSE
    /\ RunningActionId' = 0
    /\ UNCHANGED <<runEnabled, LintErrors, rowsShown>>

HandleLintEvent ==
    /\ lintEvents # << >>
    /\ lintEvents' = Tail(lintEvents)
    /\ LET e == Head(lintEvents)
       IN  OnLintError(e) \/ OnLintSummary(e) \/ OnLintComplete(e)
    /\ UNCHANGED <<errorsIn, saves, lints, checks, panelOpen, dropped>>

LintNext ==
    \/ LintProject
    \/ \E f \in PhpFiles, count \in 0 .. MaxErrors : OnFileSaved(f, count)
    \/ OnNotebookPageClosed
    \/ StopLints
    \/ \E c \in checks : BeginLint(c) \/ WalkFileToLint(c) \/ EndLint(c)
    \/ HandleLintEvent

\* The threads of the pool and the event loop run.
LintFairness ==
    /\ WF_lintVars(HandleLintEvent)
    /\ WF_lintVars(\E c \in checks : BeginLint(c) \/ WalkFileToLint(c) \/ EndLint(c))

LintSpec == LintInit /\ [][LintNext]_lintVars /\ LintFairness

-----------------------------------------------------------------------------
\* A project check ends for the view, so that the next one can be started, unless
\* it waited in the queue when everything was stopped.
LintsEnd ==
    \A id \in LintIds : RunningActionId = id ~> RunningActionId # id \/ id \in dropped

\* "remove the lint result data structures as well as the display list": the rows
\* are those of the errors.
RowsAreTheErrors == rowsShown = LintErrors
=============================================================================
