--------------------------- MODULE ModifiedCheck ---------------------------
(***************************************************************************)
(* The check for open files that other programs changed.  When the         *)
(* application is activated FileModifiedCheckViewClass queues an action    *)
(* with the names and times of the open files; FileModifiedCheckActionClass *)
(* looks at each on a thread of the pool and posts what differs; the view  *)
(* then asks, in a modal dialog, which of the modified files to reload,    *)
(* and takes those that were deleted for new buffers.                      *)
(*                                                                         *)
(* A page is its file.  A time is a number, 0 for a file that is missing;  *)
(* times that differ are more than a second apart.                         *)
(***************************************************************************)
EXTENDS Naturals, Sequences, FiniteSets

CONSTANTS
    CheckedFiles,
    MaxTime,        \* bound on the writes, of other programs and of the editor
    MaxPolls        \* bound on the activations of the application

ASSUME CheckAssumption ==
    IsFiniteSet(CheckedFiles) /\ MaxTime \in Nat \ {0} /\ MaxPolls \in Nat

VARIABLES
    fileTime,       \* GetModificationTime of each file
    now,
    openedTime,     \* FileOpenedDateTime of the pages with a file
    activations,
    polls,          \* the actions on the pool, at work or queued
    pollEvents,     \* EVENT_FILES_EXTERNALLY_MODIFIED not handled yet
    dialogs,        \* the modal dialogs, the one that was opened last in front
    foreign,        \* files another program wrote or deleted last
    lost            \* files whose poll StopAll has cancelled

checkVars == <<fileTime, now, openedTime, activations, polls, pollEvents, dialogs, foreign, lost>>

Times == 0 .. MaxTime
TimeOf == UNION {[fs -> Times] : fs \in SUBSET CheckedFiles}

\* todo: the files not looked at yet, with the times they had when the action
\* was queued; touched: those that the editor itself has saved or read since;
\* changed: those of the others that had been changed when it was queued.
Polls ==
    [id : 1 .. MaxPolls, todo : TimeOf, modified : SUBSET CheckedFiles, deleted : SUBSET CheckedFiles,
     touched : SUBSET CheckedFiles, changed : SUBSET CheckedFiles]

Dialogs ==
    [modified : SUBSET CheckedFiles, deleted : SUBSET CheckedFiles, touched : SUBSET CheckedFiles]

CheckTypeOK ==
    /\ fileTime \in [CheckedFiles -> Times]
    /\ now \in Times
    /\ openedTime \in TimeOf
    /\ activations \in 0 .. MaxPolls
    /\ polls \in SUBSET Polls
    /\ pollEvents \in SUBSET Polls
    /\ dialogs \in Seq(Dialogs)
    /\ \A i \in DOMAIN dialogs : dialogs[i].modified # {} /\ dialogs[i].modified \cap dialogs[i].deleted = {}
    /\ foreign \cup lost \subseteq CheckedFiles

CheckInit ==
    /\ fileTime \in [CheckedFiles -> {0, 1}]
    /\ now = 1
    /\ openedTime = << >>
    /\ activations = 0
    /\ polls = {} /\ pollEvents = {} /\ dialogs = << >>
    /\ foreign = {} /\ lost = {}

IsOpen(f) == f \in DOMAIN openedTime

-----------------------------------------------------------------------------
(***************************************************************************)
(* Other programs, and the user while no dialog is open.                   *)
(***************************************************************************)

Tick == now < MaxTime /\ now' = now + 1

OtherWrites(f) ==
    /\ Tick
    /\ fileTime' = [fileTime EXCEPT ![f] = now']
    /\ foreign' = foreign \cup {f}
    /\ UNCHANGED <<openedTime, activations, polls, pollEvents, dialogs, lost>>

OtherDeletes(f) ==
    /\ fileTime[f] # 0
    /\ fileTime' = [fileTime EXCEPT ![f] = 0]
    /\ foreign' = foreign \cup {f}
    /\ UNCHANGED <<now, openedTime, activations, polls, pollEvents, dialogs, lost>>

Touched(ps, fs) == {[p EXCEPT !.touched = @ \cup fs, !.changed = @ \ fs] : p \in ps}

\* The editor reads or writes the files fs, or the user decides about them.
Touches(fs) ==
    /\ polls' = Touched(polls, fs)
    /\ pollEvents' = Touched(pollEvents, fs)
    /\ foreign' = foreign \ fs
    /\ lost' = lost \ fs

Menu == dialogs = << >> /\ UNCHANGED <<activations, dialogs>>

OpenFile(f) ==
    /\ Menu
    /\ ~IsOpen(f) /\ fileTime[f] # 0
    /\ openedTime' = [g \in DOMAIN openedTime \cup {f} |-> IF g = f THEN fileTime[f] ELSE openedTime[g]]
    /\ Touches({f})
    /\ UNCHANGED <<fileTime, now>>

CloseFile(f) ==
    /\ Menu
    /\ IsOpen(f)
    /\ openedTime' = [g \in DOMAIN openedTime \ {f} |-> openedTime[g]]
    /\ Touches({f})
    /\ UNCHANGED <<fileTime, now>>

\* A mutant: the page keeps the time it had.
SaveWithoutTime(f) ==
    /\ Menu
    /\ IsOpen(f)
    /\ Tick
    /\ fileTime' = [fileTime EXCEPT ![f] = now']
    /\ Touches({f})
    /\ UNCHANGED openedTime

\* SaveAndTrackFile, MarkAsSaved.  Nobody looks whether the file has changed.
SaveFile(f) ==
    /\ Menu
    /\ IsOpen(f)
    /\ Tick
    /\ fileTime' = [fileTime EXCEPT ![f] = now']
    /\ openedTime' = [openedTime EXCEPT ![f] = now']
    /\ Touches({f})

Reverted(f, t) == IF fileTime[f] = 0 THEN t ELSE fileTime[f]

RevertFile(f) ==
    /\ Menu
    /\ IsOpen(f)
    /\ openedTime' = [openedTime EXCEPT ![f] = Reverted(f, @)]
    /\ Touches({f})
    /\ UNCHANGED <<fileTime, now>>

-----------------------------------------------------------------------------
(***************************************************************************)
(* The poll.                                                               *)
(***************************************************************************)

\* JustReactivated is set and reset in this handler, so it holds back nothing.
\* It may also run while a dialog is open.
OnActivateApp ==
    /\ activations < MaxPolls
    /\ activations' = activations + 1
    /\ openedTime # << >>
    /\ polls' = polls \cup {[id |-> activations', todo |-> openedTime, modified |-> {}, deleted |-> {},
                             touched |-> {}, changed |-> foreign \cap DOMAIN openedTime]}
    /\ UNCHANGED <<fileTime, now, openedTime, pollEvents, dialogs, foreign, lost>>

Checked(p, f) ==
    [p EXCEPT !.todo = [g \in DOMAIN p.todo \ {f} |-> p.todo[g]],
              !.modified = @ \cup {g \in {f} : fileTime[f] \notin {0, p.todo[f]}},
              !.deleted = @ \cup {g \in {f} : fileTime[f] = 0}]

\* BackgroundWork: the files are looked at one after another,
CheckNextFile(p, f) ==
    /\ p \in polls
    /\ f \in DOMAIN p.todo
    /\ polls' = (polls \ {p}) \cup {Checked(p, f)}
    /\ UNCHANGED <<fileTime, now, openedTime, activations, pollEvents, dialogs, foreign, lost>>

\* then the result is posted.
PostPoll(p) ==
    /\ p \in polls
    /\ p.todo = << >>
    /\ polls' = polls \ {p}
    /\ pollEvents' = pollEvents \cup {p}
    /\ UNCHANGED <<fileTime, now, openedTime, activations, dialogs, foreign, lost>>

\* The preferences and the projects dialogs stop the pool: nothing is posted.
StopPolls ==
    /\ Menu
    /\ polls # {}
    /\ lost' = lost \cup UNION {p.changed : p \in polls}
    /\ polls' = {}
    /\ UNCHANGED <<fileTime, now, openedTime, pollEvents, foreign>>

\* A mutant: deleted files are looked at only if none was modified.
DeletedAlone(p) == IF p.modified = {} THEN p.deleted \cap DOMAIN openedTime ELSE {}

DeletedToPrompt(p) == p.deleted \cap DOMAIN openedTime
ModifiedToPrompt(p) == p.modified \cap DOMAIN openedTime

Detach(fs) == [f \in DOMAIN openedTime \ fs |-> openedTime[f]]

\* The files of the event that are still open are asked about, in a dialog if
\* some were modified.
OnFileModifiedPollComplete(p) ==
    /\ p \in pollEvents
    /\ LET modified == ModifiedToPrompt(p)
           deleted == DeletedToPrompt(p)
       IN  IF modified # {}
           THEN /\ dialogs' = <<[modified |-> modified, deleted |-> deleted, touched |-> p.touched]>> \o dialogs
                /\ pollEvents' = pollEvents \ {p}
                /\ UNCHANGED <<openedTime, polls, foreign, lost>>
           ELSE /\ openedTime' = Detach(deleted)
                /\ polls' = Touched(polls, deleted)
                /\ pollEvents' = Touched(pollEvents \ {p}, deleted)
                /\ foreign' = foreign \ deleted
                /\ UNCHANGED <<dialogs, lost>>
    /\ UNCHANGED <<fileTime, now, activations>>

\* Files that are checked are reloaded, the others count as up to date; then
\* those that were deleted become new buffers (FilesDeletedPrompt).
FilesModifiedPrompt(reload) ==
    /\ dialogs # << >>
    /\ LET d == Head(dialogs)
           asked == d.modified \cap DOMAIN openedTime
       IN  /\ reload \subseteq d.modified
           /\ openedTime' = [f \in DOMAIN openedTime \ d.deleted |->
                  IF f \notin asked THEN openedTime[f]
                  ELSE IF f \in reload THEN Reverted(f, openedTime[f]) ELSE fileTime[f]]
           /\ Touches(asked \cup d.deleted)
    /\ dialogs' = [i \in 1 .. Len(dialogs) - 1 |->
                      [dialogs[i + 1] EXCEPT !.touched = @ \cup Head(dialogs).modified]]
    /\ UNCHANGED <<fileTime, now, activations>>

-----------------------------------------------------------------------------
CheckPoll == \E p \in polls : PostPoll(p) \/ \E f \in DOMAIN p.todo : CheckNextFile(p, f)
HandlePoll == \E p \in pollEvents : OnFileModifiedPollComplete(p)
AnswerDialog == \E reload \in SUBSET CheckedFiles : FilesModifiedPrompt(reload)

CheckNext ==
    \/ \E f \in CheckedFiles : \/ OtherWrites(f) \/ OtherDeletes(f) \/ OpenFile(f) \/ CloseFile(f)
                               \/ SaveFile(f) \/ RevertFile(f)
    \/ OnActivateApp \/ StopPolls
    \/ CheckPoll \/ HandlePoll \/ AnswerDialog

\* The pool works, events are handled and the user answers dialogs.
CheckFairness ==
    WF_checkVars(CheckPoll) /\ WF_checkVars(HandlePoll) /\ WF_checkVars(AnswerDialog)

CheckSpec == CheckInit /\ [][CheckNext]_checkVars /\ CheckFairness

-----------------------------------------------------------------------------
\* A dialog asks about a file only if another program wrote it last, unless the
\* editor saved, opened or asked about the file since the check began.
PromptsAreTrue ==
    \A i \in DOMAIN dialogs :
        \A f \in dialogs[i].modified \ dialogs[i].touched : IsOpen(f) => f \in foreign

\* A change that is there when the application is activated is known to the
\* user in the end, unless the poll is stopped.
ChangesAreNoticed ==
    \A f \in CheckedFiles :
        (\E p \in polls : f \in p.changed) ~> (f \notin foreign \/ f \in lost)
=============================================================================
