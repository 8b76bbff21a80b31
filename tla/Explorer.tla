------------------------------- MODULE Explorer -------------------------------
(***************************************************************************)
(* The explorer: a panel with the files of one directory.                  *)
(* FileListingClass (features/ExplorerFeatureClass) has them listed,       *)
(* deleted and renamed on a pool of its own, with one thread, and watches  *)
(* the directory; ModalExplorerPanelClass (views/ExplorerViewClass) shows  *)
(* what is listed, and has it listed again when something changes.         *)
(*                                                                         *)
(* Sub-directories are names like files; the filter of extensions and the  *)
(* deletion of several files at once are left out.  The thread posts its   *)
(* results to FileListing, which posts them on to the panel; a listing is  *)
(* one step, as what changes while it is read is also seen by the watch.   *)
(***************************************************************************)
EXTENDS Naturals, Sequences, FiniteSets

CONSTANTS
    ListedDirs,      \* the directories that the user looks at
    Names,           \* the names of files
    MaxVisits,       \* bound on the listings that the user asks for
    MaxUserChanges,  \* bound on the deletions, renames and creations by the user
    MaxDiskChanges   \* bound on the changes made by other programs

ASSUME ExplorerAssumption ==
    MaxVisits \in Nat /\ MaxUserChanges \in Nat /\ MaxDiskChanges \in Nat

VARIABLES
    disk,            \* the names in each directory
    changes,         \* counts the changes of each directory
    visits, userChanges, diskChanges,
    explorerQueue,   \* the actions of the pool, the running one first
    WorkingDir,      \* of FileListing, NoDir before the first listing
    DirFilesListed,  \* Files and Dirs of FileListing
    Watcher,         \* the directory that is watched, or NoDir
    watchEvents,        \* counts the events that wait in the watch
    listingEvents,   \* what was posted to FileListing
    explorerEvents,  \* what was posted to the panel
    nameRows,        \* how many rows show each name
    watches,         \* counts the watches begun and their losses of events
    missed,          \* the directory changed after it was listed and no watch tells
    labels,          \* the renames whose row still shows the new name
    misreverted      \* a refused rename was undone in rows that were set since

explorerVars == <<disk, changes, visits, userChanges, diskChanges, explorerQueue, WorkingDir, DirFilesListed,
                  Watcher, watchEvents, listingEvents, explorerEvents, nameRows, watches, missed, labels,
                  misreverted>>

NoDir == "no directory"
ExplorerActions ==
    [kind : {"list"}, dir : ListedDirs]
    \cup [kind : {"delete"}, dir : ListedDirs, name : Names]
    \cup [kind : {"rename"}, dir : ListedDirs, name : Names, new : Names]
ModifyEvents ==
    [kind : {"deleted"}, dir : ListedDirs, name : Names]
    \cup [kind : {"not renamed"}, dir : ListedDirs, name : Names, new : Names]
ListEvents == [kind : {"listed"}, dir : ListedDirs, names : SUBSET Names, watch : Nat, change : Nat]

ExplorerTypeOK ==
    /\ disk \in [ListedDirs -> SUBSET Names]
    /\ changes \in [ListedDirs -> Nat]
    /\ visits \in 0 .. MaxVisits /\ userChanges \in 0 .. MaxUserChanges
    /\ diskChanges \in 0 .. MaxDiskChanges
    /\ explorerQueue \in Seq(ExplorerActions)
    /\ {WorkingDir, Watcher} \subseteq ListedDirs \cup {NoDir} /\ DirFilesListed \subseteq Names
    /\ watchEvents \in Nat
    /\ listingEvents \in Seq(ListEvents \cup ModifyEvents)
    /\ explorerEvents \in Seq([kind : {"listed", "changed"}] \cup ModifyEvents)
    /\ nameRows \in [Names -> Nat]
    /\ watches \in Nat /\ missed \in BOOLEAN /\ misreverted \in BOOLEAN
    /\ labels \subseteq [dir : ListedDirs, name : Names, new : Names]

ExplorerInit ==
    /\ disk \in [ListedDirs -> SUBSET Names]
    /\ changes = [dir \in ListedDirs |-> 0]
    /\ visits = 0 /\ userChanges = 0 /\ diskChanges = 0
    /\ explorerQueue = << >>
    /\ WorkingDir = NoDir /\ DirFilesListed = {}
    /\ Watcher = NoDir /\ watchEvents = 0
    /\ listingEvents = << >> /\ explorerEvents = << >>
    /\ nameRows = [n \in Names |-> 0]
    /\ watches = 0 /\ missed = FALSE
    /\ labels = {} /\ misreverted = FALSE

namesVars == <<disk, changes>>
counters == <<visits, userChanges, diskChanges>>
listingVars == <<WorkingDir, DirFilesListed, Watcher, watches, missed>>
rowVars == <<nameRows, labels, misreverted>>

\* The names of a directory change, which its watch notices.
DiskChanges(dir, names) ==
    /\ disk' = [disk EXCEPT ![dir] = names]
    /\ changes' = [changes EXCEPT ![dir] = @ + 1]
    /\ watchEvents' = IF Watcher = dir THEN watchEvents + 1 ELSE watchEvents

OtherProgramChanges(dir, name) ==
    /\ diskChanges < MaxDiskChanges
    /\ diskChanges' = diskChanges + 1
    /\ DiskChanges(dir, IF name \in disk[dir] THEN disk[dir] \ {name} ELSE disk[dir] \cup {name})
    /\ UNCHANGED <<visits, userChanges, explorerQueue, listingVars, listingEvents, explorerEvents, rowVars>>

-----------------------------------------------------------------------------
(***************************************************************************)
(* The user, in the panel.                                                 *)
(***************************************************************************)

QueueAction(a) == explorerQueue' = Append(explorerQueue, a)
StartRefresh(dir) == QueueAction([kind |-> "list", dir |-> dir])

\* Another directory, or the refresh button.
RefreshDir(dir) ==
    /\ visits < MaxVisits
    /\ visits' = visits + 1
    /\ StartRefresh(dir)
    /\ UNCHANGED <<namesVars, userChanges, diskChanges, watchEvents, listingVars, listingEvents, explorerEvents, rowVars>>

UserChange ==
    /\ WorkingDir # NoDir
    /\ userChanges < MaxUserChanges
    /\ userChanges' = userChanges + 1
    /\ UNCHANGED <<visits, diskChanges, listingVars, listingEvents, explorerEvents, misreverted>>

OnListMenuDelete(name) ==
    /\ UserChange
    /\ nameRows[name] > 0 /\ name \in disk[WorkingDir]
    /\ QueueAction([kind |-> "delete", dir |-> WorkingDir, name |-> name])
    /\ UNCHANGED <<namesVars, watchEvents, nameRows, labels>>

OnListMenuCreateNew(name) ==
    /\ UserChange
    /\ name \notin disk[WorkingDir]
    /\ DiskChanges(WorkingDir, disk[WorkingDir] \cup {name})
    /\ nameRows' = [nameRows EXCEPT ![name] = @ + 1]
    /\ UNCHANGED <<explorerQueue, labels>>

Relabeled(name, new) ==
    [n \in Names |-> (nameRows[n] + IF n = new THEN 1 ELSE 0) - IF n = name THEN 1 ELSE 0]

\* The row shows the new name before the file has it.
OnListEndLabelEdit(name, new) ==
    /\ UserChange
    /\ nameRows[name] > 0 /\ new # name
    /\ QueueAction([kind |-> "rename", dir |-> WorkingDir, name |-> name, new |-> new])
    /\ nameRows' = Relabeled(name, new)
    /\ labels' = {k \in labels : k.new # name} \cup {[dir |-> WorkingDir, name |-> name, new |-> new]}
    /\ UNCHANGED <<namesVars, watchEvents>>

-----------------------------------------------------------------------------
(***************************************************************************)
(* The pool, in the order of its queue.                                    *)
(***************************************************************************)

Posts(e) == listingEvents' = Append(listingEvents, e)

ListFiles(a) ==
    /\ Posts([kind |-> "listed", dir |-> a.dir, names |-> disk[a.dir],
              watch |-> watches, change |-> changes[a.dir]])
    /\ UNCHANGED <<namesVars, watchEvents>>

\* What cannot be deleted stays in the list.
DeleteName(a) ==
    \/ /\ a.name \in disk[a.dir]
       /\ DiskChanges(a.dir, disk[a.dir] \ {a.name})
       /\ Posts([kind |-> "deleted", dir |-> a.dir, name |-> a.name])
    \/ UNCHANGED <<namesVars, watchEvents, listingEvents>>

\* wxRenameFile does not overwrite.  A rename that succeeds leaves the rows alone.
RenameName(a) ==
    \/ /\ a.name \in disk[a.dir] /\ a.new \notin disk[a.dir]
       /\ DiskChanges(a.dir, (disk[a.dir] \ {a.name}) \cup {a.new})
       /\ UNCHANGED listingEvents
    \/ /\ Posts([kind |-> "not renamed", dir |-> a.dir, name |-> a.name, new |-> a.new])
       /\ UNCHANGED <<namesVars, watchEvents>>

ExplorerActionRuns ==
    /\ explorerQueue # << >>
    /\ explorerQueue' = Tail(explorerQueue)
    /\ LET a == Head(explorerQueue)
       IN  CASE a.kind = "list" -> ListFiles(a)
             [] a.kind = "delete" -> DeleteName(a)
             [] a.kind = "rename" -> RenameName(a)
    /\ UNCHANGED <<counters, listingVars, explorerEvents, rowVars>>

-----------------------------------------------------------------------------
(***************************************************************************)
(* FileListing.                                                            *)
(***************************************************************************)

\* A mutant: the directory is stored before it is compared.
ChangedSinceStored(dir) == FALSE

ChangedDir(dir) == WorkingDir # dir

\* A watch of another directory is deleted with the events in it.
OnExplorerListComplete(e) ==
    LET isNew == ChangedDir(e.dir) \/ Watcher = NoDir
    IN  /\ DirFilesListed' = e.names
        /\ WorkingDir' = e.dir
        /\ Watcher' = IF isNew THEN e.dir ELSE Watcher
        /\ watchEvents' = IF isNew THEN 0 ELSE watchEvents
        /\ watches' = IF isNew THEN watches + 1 ELSE watches
        /\ missed' = (e.watch # watches' /\ (e.change # changes[e.dir] \/ (~isNew /\ missed)))
        /\ explorerEvents' = Append(explorerEvents, [kind |-> "listed"])

FileListingHandlesEvent ==
    /\ listingEvents # << >>
    /\ listingEvents' = Tail(listingEvents)
    /\ LET e == Head(listingEvents)
       IN  IF e.kind = "listed" THEN OnExplorerListComplete(e)
           ELSE /\ explorerEvents' = Append(explorerEvents, e)
                /\ UNCHANGED <<listingVars, watchEvents>>
    /\ UNCHANGED <<namesVars, counters, explorerQueue, rowVars>>

\* FileListing.OnFsWatcher: events of a directory that is not shown are not for the panel.
OnWatchEvent ==
    /\ watchEvents > 0
    /\ watchEvents' = watchEvents - 1
    /\ explorerEvents' = IF Watcher = WorkingDir THEN Append(explorerEvents, [kind |-> "changed"])
                                                 ELSE explorerEvents
    /\ UNCHANGED <<namesVars, counters, explorerQueue, listingVars, listingEvents, rowVars>>

\* An overflow or an error: events are lost, the watch goes on or is begun again,
\* and nothing is listed again.
WatchLosesEvents ==
    /\ watchEvents > 0
    /\ watchEvents' = 0
    /\ watches' = watches + 1 /\ missed' = TRUE
    /\ UNCHANGED <<namesVars, counters, explorerQueue, WorkingDir, DirFilesListed, Watcher, listingEvents,
                   explorerEvents, rowVars>>

-----------------------------------------------------------------------------
(***************************************************************************)
(* The panel.                                                              *)
(***************************************************************************)

ShowDir ==
    /\ nameRows' = [n \in Names |-> IF n \in DirFilesListed THEN 1 ELSE 0]
    /\ labels' = {} /\ misreverted' = FALSE
    /\ UNCHANGED explorerQueue

OnExplorerModifyComplete(e) ==
    /\ IF WorkingDir # e.dir THEN UNCHANGED rowVars
       ELSE IF e.kind = "deleted"
       THEN /\ nameRows' = IF nameRows[e.name] > 0 THEN [nameRows EXCEPT ![e.name] = @ - 1] ELSE nameRows
            /\ UNCHANGED <<labels, misreverted>>
       ELSE LET label == [dir |-> e.dir, name |-> e.name, new |-> e.new]
            IN  /\ nameRows' = IF nameRows[e.new] > 0 THEN Relabeled(e.new, e.name) ELSE nameRows
                /\ labels' = labels \ {label}
                /\ misreverted' = (misreverted \/ label \notin labels)
    /\ UNCHANGED explorerQueue

ExplorerPanelHandlesEvent ==
    /\ explorerEvents # << >>
    /\ explorerEvents' = Tail(explorerEvents)
    /\ LET e == Head(explorerEvents)
       IN  CASE e.kind = "listed" -> ShowDir
             [] e.kind = "changed" -> StartRefresh(WorkingDir) /\ UNCHANGED rowVars
             [] OTHER -> OnExplorerModifyComplete(e)
    /\ UNCHANGED <<namesVars, counters, watchEvents, listingVars, listingEvents>>

ExplorerNext ==
    \/ \E dir \in ListedDirs, name \in Names : OtherProgramChanges(dir, name)
    \/ \E dir \in ListedDirs : RefreshDir(dir)
    \/ \E name \in Names : OnListMenuDelete(name) \/ OnListMenuCreateNew(name)
    \/ \E name, new \in Names : OnListEndLabelEdit(name, new)
    \/ ExplorerActionRuns
    \/ FileListingHandlesEvent \/ OnWatchEvent \/ WatchLosesEvents
    \/ ExplorerPanelHandlesEvent

ExplorerSpec == ExplorerInit /\ [][ExplorerNext]_explorerVars

-----------------------------------------------------------------------------
(***************************************************************************)
(* Properties.                                                             *)
(***************************************************************************)

ExplorerIsQuiet ==
    explorerQueue = << >> /\ listingEvents = << >> /\ explorerEvents = << >> /\ watchEvents = 0

\* The rows are set by listings, changed for the user before the files are, and
\* changed again by results that come later, while the watch follows the
\* directory with a delay: once everything is handled, the panel shows the files
\* of the directory.  Two cases apart: a change between a listing and the watch
\* that its result begins, or one whose event is lost, is noticed by nobody; and a
\* refused rename is undone by name, in whatever rows are there by then.
RowsFollowDisk ==
    WorkingDir # NoDir /\ ExplorerIsQuiet /\ ~missed /\ ~misreverted
    => nameRows = [n \in Names |-> IF n \in disk[WorkingDir] THEN 1 ELSE 0]

\* The directory that is listed again for a change is the one the user chose last.
\* Not so: while the listing of the chosen one is under way the one shown before is
\* listed again, after it, and the panel goes back to it.
ChosenDirIsListedAgain ==
    explorerEvents # << >> /\ Head(explorerEvents).kind = "changed" =>
        \A i \in DOMAIN explorerQueue :
            explorerQueue[i].kind = "list" => explorerQueue[i].dir = WorkingDir

=============================================================================
