---------------------------- MODULE FindInFiles ----------------------------
(***************************************************************************)
(* Find and replace in files: a results panel, FindInFilesResultsPanelClass*)
(* (views/FindInFilesViewClass), whose reader walks the directory on the   *)
(* background pool while the panel searches the pages that are open.  The  *)
(* files of its hits can then be replaced: the pages by the panel, the     *)
(* others by a second reader.                                              *)
(*                                                                         *)
(* A text either has matches or not, and has none after a replacement; a   *)
(* file with matches has one hit, and every file at most one page.  Pages  *)
(* of other files are left out: FindInOpenedFiles does not search them     *)
(* (Source.Contains), although the replacement changes them too.           *)
(***************************************************************************)
EXTENDS Naturals, Sequences, FiniteSets, SequencesExt

CONSTANTS
    SearchFiles,    \* the files of the directory that is searched
    MaxTextChanges, \* bound on the changes of texts by the user and by other programs
    HitLimits       \* the values of MAX_HITS

ASSUME FindInFilesAssumption ==
    /\ IsFiniteSet(SearchFiles)
    /\ MaxTextChanges \in Nat
    /\ HitLimits # {} /\ HitLimits \subseteq Nat

VARIABLES
    MAX_HITS,
    diskHit,            \* whether the file has matches on disk
    codeCtrl,           \* the page of each file: whether it has matches, or "closed"
    modifiedFiles,      \* the pages that were modified since they were loaded or saved
    textChanges,        \* counts the changes
    panel,              \* what the panel is at; "finding": in the open pages
    RunningActionId,    \* whether the panel has an action
    reader,             \* its action
    panelEvents,        \* what the reader and the panel posted to the panel
    AllHits,            \* the file of each hit
    buttons,            \* what the user can press: "stop", "replace"
    expectedHits,       \* the files that the search must find
    owedFiles,          \* the files that the replacement must write
    owedPages           \* the pages in which nothing may match after it

textVars == <<diskHit, codeCtrl, modifiedFiles, textChanges>>
owedVars == <<expectedHits, owedFiles, owedPages>>
findVars == <<MAX_HITS, textVars, panel, RunningActionId, reader, panelEvents, AllHits, buttons, owedVars>>

OpenedFiles == {f \in SearchFiles : codeCtrl[f] # "closed"}
TextOf(hit) == IF hit THEN "match" ELSE "no match"

NoReader == [state |-> "none"]
Readers ==
    [state : {"queued", "running", "cancelled"}, mode : {"walk", "matched"},
     skip : SUBSET SearchFiles, left : SUBSET SearchFiles]
PanelEvents ==
    [kind : {"hit"}, file : SearchFiles] \cup [kind : {"read complete"}, mode : {"walk", "matched"}]
    \cup [kind : {"action complete"}]

FindTypeOK ==
    /\ MAX_HITS \in HitLimits
    /\ diskHit \in [SearchFiles -> BOOLEAN]
    /\ codeCtrl \in [SearchFiles -> {"closed", "match", "no match"}]
    /\ modifiedFiles \subseteq OpenedFiles
    /\ textChanges \in 0 .. MaxTextChanges
    /\ panel \in {"none", "finding", "searching", "searched", "replacing", "replaced", "closed"}
    /\ RunningActionId \in BOOLEAN
    /\ reader = NoReader \/ reader \in Readers
    /\ panelEvents \in Seq(PanelEvents)
    /\ AllHits \in Seq(SearchFiles)
    /\ buttons \subseteq {"stop", "replace"}
    /\ expectedHits \cup owedFiles \cup owedPages \subseteq SearchFiles

FindInit ==
    /\ MAX_HITS \in HitLimits
    /\ diskHit \in [SearchFiles -> BOOLEAN]
    /\ codeCtrl \in {c \in [SearchFiles -> {"closed", "match", "no match"}] :
                        \A f \in SearchFiles : c[f] \in {"closed", TextOf(diskHit[f])}}
    /\ modifiedFiles = {} /\ textChanges = 0
    /\ panel = "none" /\ RunningActionId = FALSE
    /\ reader = NoReader
    /\ panelEvents = << >>
    /\ AllHits = << >> /\ buttons = {}
    /\ expectedHits = {} /\ owedFiles = {} /\ owedPages = {}

\* No handler of the panel or of the editor runs inside another.
GuiIsFree == panel # "finding"
Shown == panel \notin {"none", "finding", "closed"}

-----------------------------------------------------------------------------
(***************************************************************************)
(* The texts: the user in the pages, other programs on disk.               *)
(***************************************************************************)

\* The file has another text on disk: neither the search nor the replacement
\* owes anything for it any more, unless the search is through with it.
TextIsWritten(f) ==
    /\ expectedHits' =
           IF reader # NoReader /\ f \in reader.left \ reader.skip
           THEN expectedHits \ {f} ELSE expectedHits
    /\ owedFiles' = owedFiles \ {f}

UserOpens(f) ==
    /\ codeCtrl[f] = "closed"
    /\ codeCtrl' = [codeCtrl EXCEPT ![f] = TextOf(diskHit[f])]
    /\ UNCHANGED <<diskHit, modifiedFiles, textChanges, owedVars>>

\* A modified page is saved first, or its changes are given up.
UserCloses(f) ==
    /\ f \in OpenedFiles
    /\ codeCtrl' = [codeCtrl EXCEPT ![f] = "closed"]
    /\ modifiedFiles' = modifiedFiles \ {f}
    /\ owedPages' = owedPages \ {f}
    /\ UNCHANGED <<diskHit, textChanges, expectedHits, owedFiles>>

UserEdits(f) ==
    /\ f \in OpenedFiles
    /\ textChanges < MaxTextChanges
    /\ textChanges' = textChanges + 1
    /\ \E hit \in BOOLEAN : codeCtrl' = [codeCtrl EXCEPT ![f] = TextOf(hit)]
    /\ modifiedFiles' = modifiedFiles \cup {f}
    /\ owedPages' = owedPages \ {f}
    /\ UNCHANGED <<diskHit, expectedHits, owedFiles>>

UserSaves(f) ==
    /\ f \in modifiedFiles
    /\ diskHit' = [diskHit EXCEPT ![f] = codeCtrl[f] = "match"]
    /\ modifiedFiles' = modifiedFiles \ {f}
    /\ TextIsWritten(f)
    /\ UNCHANGED <<codeCtrl, textChanges, owedPages>>

OtherProgramWrites(f) ==
    /\ textChanges < MaxTextChanges
    /\ textChanges' = textChanges + 1
    /\ diskHit' = [diskHit EXCEPT ![f] = ~@]
    /\ TextIsWritten(f)
    /\ UNCHANGED <<codeCtrl, modifiedFiles, owedPages>>

TextsChange ==
    /\ \E f \in SearchFiles :
           \/ GuiIsFree /\ (UserOpens(f) \/ UserCloses(f) \/ UserEdits(f) \/ UserSaves(f))
           \/ OtherProgramWrites(f)
    /\ UNCHANGED <<MAX_HITS, panel, RunningActionId, reader, panelEvents, AllHits, buttons>>

-----------------------------------------------------------------------------
(***************************************************************************)
(* The panel.                                                              *)
(***************************************************************************)

QueueReader(mode, files) ==
    /\ reader' = [state |-> "queued", mode |-> mode, skip |-> OpenedFiles, left |-> files]
    /\ RunningActionId' = TRUE
    /\ buttons' = {"stop"}

\* Up to the call of FindInOpenedFiles: the reader may start meanwhile.
Find ==
    /\ panel = "none"
    /\ panel' = "finding"
    /\ QueueReader("walk", SearchFiles)
    /\ expectedHits' =
           {f \in SearchFiles : IF f \in OpenedFiles THEN codeCtrl[f] = "match" ELSE diskHit[f]}
    /\ UNCHANGED <<MAX_HITS, textVars, panelEvents, AllHits, owedFiles, owedPages>>

HitEvent(f) == [kind |-> "hit", file |-> f]

FindInOpenedFiles ==
    /\ panel = "finding"
    /\ panel' = "searching"
    /\ panelEvents' =
           panelEvents \o SetToSeq({HitEvent(f) : f \in {g \in SearchFiles : codeCtrl[g] = "match"}})
    /\ UNCHANGED <<MAX_HITS, textVars, RunningActionId, reader, AllHits, buttons, owedVars>>

ReplaceButtons == IF AllHits # << >> THEN {"replace"} ELSE {}

\* RunningThreads.CancelAction: a queued action is removed and says nothing; one
\* that runs is reached only when others wait in the queue.
CancelReader ==
    CASE reader = NoReader -> UNCHANGED reader
      [] reader # NoReader /\ reader.state = "queued" -> reader' = NoReader
      [] OTHER -> UNCHANGED reader \/ reader' = [reader EXCEPT !.state = "cancelled"]

Stop == CancelReader /\ buttons' = ReplaceButtons

OnStopButton ==
    /\ Shown /\ "stop" \in buttons
    /\ Stop
    /\ UNCHANGED <<MAX_HITS, textVars, panel, RunningActionId, panelEvents, AllHits, owedVars>>

\* A mutant: the last hit is left out.
AllButLastHit == ToSet(Front(AllHits))

FilesFromHits == ToSet(AllHits)

\* The matches in every open page are replaced, hit or not; the files of the hits
\* that have no page are left to a reader.
OnReplaceInAllFilesButton ==
    /\ Shown /\ "replace" \in buttons
    /\ ~RunningActionId
    /\ panel' = "replacing"
    /\ QueueReader("matched", FilesFromHits)
    /\ owedFiles' = ToSet(AllHits) \ OpenedFiles /\ owedPages' = OpenedFiles
    /\ codeCtrl' = [f \in SearchFiles |-> IF f \in OpenedFiles THEN "no match" ELSE "closed"]
    /\ modifiedFiles' = modifiedFiles \cup {f \in SearchFiles : codeCtrl[f] = "match"}
    /\ UNCHANGED <<MAX_HITS, diskHit, textChanges, panelEvents, AllHits, expectedHits>>

OnFileHit(f) ==
    /\ IF Len(AllHits) < MAX_HITS
       THEN AllHits' = Append(AllHits, f) /\ UNCHANGED <<reader, buttons>>
       ELSE Stop /\ UNCHANGED AllHits
    /\ UNCHANGED <<panel, RunningActionId>>

OnFindInFilesComplete(mode) ==
    /\ buttons' = ReplaceButtons
    /\ panel' = IF mode = "walk" THEN "searched" ELSE "replaced"
    /\ UNCHANGED <<RunningActionId, reader, AllHits>>

OnActionComplete ==
    /\ RunningActionId' = FALSE
    /\ UNCHANGED <<panel, reader, AllHits, buttons>>

PanelHandlesEvent ==
    /\ Shown /\ panelEvents # << >>
    /\ panelEvents' = Tail(panelEvents)
    /\ LET e == Head(panelEvents)
       IN  CASE e.kind = "hit" -> OnFileHit(e.file)
             [] e.kind = "read complete" -> OnFindInFilesComplete(e.mode)
             [] e.kind = "action complete" -> OnActionComplete
    /\ UNCHANGED <<MAX_HITS, textVars, owedVars>>

\* OnFindInFilesComplete does not look whose reader is complete.
OtherPanelIsComplete ==
    /\ Shown
    /\ buttons' = ReplaceButtons
    /\ UNCHANGED <<MAX_HITS, textVars, panel, RunningActionId, reader, panelEvents, AllHits, owedVars>>

OnToolsNotebookPageClosed ==
    /\ Shown
    /\ CancelReader
    /\ panel' = "closed" /\ panelEvents' = << >> /\ buttons' = {}
    /\ UNCHANGED <<MAX_HITS, textVars, RunningActionId, AllHits, owedVars>>

-----------------------------------------------------------------------------
(***************************************************************************)
(* The reader, and the pool that runs it.                                  *)
(***************************************************************************)

Post(events) == panelEvents' = IF panel = "closed" THEN panelEvents ELSE panelEvents \o events

ReaderStarts ==
    /\ reader # NoReader /\ reader.state = "queued"
    /\ reader' = [reader EXCEPT !.state = "running"]
    /\ UNCHANGED <<MAX_HITS, textVars, panel, RunningActionId, panelEvents, AllHits, buttons, owedVars>>

ReaderIsAt(f, mode) ==
    /\ reader # NoReader /\ reader.state = "running" /\ reader.mode = mode
    /\ f \in reader.left
    /\ reader' = [reader EXCEPT !.left = @ \ {f}]

\* A mutant: the files that are open are searched on disk too.
ReadIgnoringPages(f) ==
    /\ ReaderIsAt(f, "walk")
    /\ Post(IF diskHit[f] THEN <<HitEvent(f)>> ELSE << >>)
    /\ UNCHANGED <<textVars, owedVars>>

\* The files come in any order.
BackgroundFileRead(f) ==
    /\ ReaderIsAt(f, "walk")
    /\ Post(IF diskHit[f] /\ f \notin reader.skip THEN <<HitEvent(f)>> ELSE << >>)
    /\ UNCHANGED <<textVars, owedVars>>

\* The file is written even when nothing in it matched; a file that cannot be
\* read or written is left as it is.
BackgroundFileMatch(f) ==
    /\ ReaderIsAt(f, "matched")
    /\ \/ f \in reader.skip /\ UNCHANGED <<diskHit, owedFiles>>
       \/ f \notin reader.skip /\ diskHit' = [diskHit EXCEPT ![f] = FALSE] /\ UNCHANGED owedFiles
       \/ f \notin reader.skip /\ UNCHANGED diskHit /\ owedFiles' = owedFiles \ {f}
    /\ UNCHANGED <<codeCtrl, modifiedFiles, textChanges, panelEvents, expectedHits, owedPages>>

\* A cancelled reader looks at no more files and does not say that it is complete.
ReaderEnds ==
    /\ reader # NoReader
    /\ \/ reader.state = "running" /\ reader.left = {}
          /\ Post(<<[kind |-> "read complete", mode |-> reader.mode], [kind |-> "action complete"]>>)
       \/ reader.state = "cancelled" /\ Post(<<[kind |-> "action complete"]>>)
    /\ reader' = NoReader
    /\ UNCHANGED <<textVars, owedVars>>

\* RunningThreads.StopAll, when the projects change or the application exits.
PoolStopsAll ==
    /\ reader # NoReader
    /\ reader' = IF reader.state = "queued" THEN NoReader ELSE [reader EXCEPT !.state = "cancelled"]
    /\ GuiIsFree
    /\ UNCHANGED <<textVars, panelEvents, owedVars>>

ReaderStep ==
    /\ \/ \E f \in SearchFiles : BackgroundFileRead(f) \/ BackgroundFileMatch(f)
       \/ ReaderEnds
       \/ PoolStopsAll
    /\ UNCHANGED <<MAX_HITS, panel, RunningActionId, AllHits, buttons>>

FindNext ==
    \/ TextsChange
    \/ Find \/ FindInOpenedFiles
    \/ OnStopButton \/ OnReplaceInAllFilesButton
    \/ PanelHandlesEvent \/ OtherPanelIsComplete
    \/ OnToolsNotebookPageClosed
    \/ ReaderStarts \/ ReaderStep

FindSpec == FindInit /\ [][FindNext]_findVars

-----------------------------------------------------------------------------
(***************************************************************************)
(* Properties.                                                             *)
(***************************************************************************)

\* The panel and its reader search at the same time, the one in the pages, the
\* other on disk, and texts change and pages come and go meanwhile: still no file
\* is found twice, and a search that was not stopped, by anyone, has found every
\* file that matched when it began, up to the limit of hits.
HitsAreComplete ==
    /\ Shown => \A i, j \in DOMAIN AllHits : AllHits[i] = AllHits[j] => i = j
    /\ panel = "searched" /\ Len(AllHits) < MAX_HITS =>
           \A f \in expectedHits : f \in ToSet(AllHits) \/ HitEvent(f) \in ToSet(panelEvents)

\* A replacement that was not stopped leaves no match in a file that was a hit and
\* had no page, nor in a page that was open, whichever pages were opened or closed
\* since the search; unless the text came later.
ReplaceReachesEveryHit ==
    panel = "replaced" =>
        /\ \A f \in owedFiles : ~diskHit[f]
        /\ \A f \in owedPages : codeCtrl[f] = "no match"

\* Find and replace reach every file there is a match in.
SearchReachesAll == HitsAreComplete /\ ReplaceReachesEveryHit

\* The user can tell a panel with hits by its buttons.  Not so: the reader may be
\* complete before the hits of the open pages are handled.
ButtonsFollowHits ==
    panel \in {"searched", "replaced"} /\ ~RunningActionId /\ AllHits # << >> => "replace" \in buttons

=============================================================================
