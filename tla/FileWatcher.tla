---------------------------- MODULE FileWatcher ----------------------------
(***************************************************************************)
(* How changes that other programs make to the files of a project reach    *)
(* the tag database: FileWatcherFeatureClass collects the events of the    *)
(* file system and, once they pause, publishes one event for each change;  *)
(* TagFeatureClass queues an action for each of these on the pool with one *)
(* thread; the actions of ProjectTagActionClass.cpp and                    *)
(* TagWipeActionClass.cpp look at the disk again and update the database.  *)
(*                                                                         *)
(* A file is its number; 0 is a directory that holds the files of InDir.   *)
(* The content of a file is the time of its last write, which is also what *)
(* the database keeps of it; 0 stands for no file, and no row.             *)
(***************************************************************************)
EXTENDS Naturals, Sequences, FiniteSets, SequencesExt, NumberOrder

CONSTANTS
    NumFiles,       \* the files are 1 .. NumFiles, in the order of their names
    InDir,          \* the files that are in the directory
    MaxWrites,      \* bound on the operations of other programs
    MaxOpens        \* bound on the files opened in the editor

ASSUME WatcherAssumption ==
    /\ NumFiles \in Nat
    /\ InDir \subseteq 1 .. NumFiles
    /\ MaxWrites \in Nat
    /\ MaxOpens \in Nat

Files == 1 .. NumFiles
Dir == 0
Paths == {Dir} \cup Files
Stamp == 0 .. MaxWrites + 1

VARIABLES
    onDisk,         \* the files on disk
    dirOnDisk,      \* the directory exists
    writes,         \* the operations of other programs so far
    fsEvents,       \* events of wxFileSystemWatcher not handled yet
    pathsCreated, pathsModified, pathsDeleted, pathsRenamed,
    openedFiles,    \* OpenedFiles: what the feature takes for open
    opens,
    tagged,         \* file_items: the files of the tag database
    tagActions,     \* the queue of SqliteRunningThreads
    untold          \* files with a change that the events did not tell in full

collected == <<pathsCreated, pathsModified, pathsDeleted, pathsRenamed>>
watcherVars == <<onDisk, dirOnDisk, writes, fsEvents, pathsCreated, pathsModified,
                 pathsDeleted, pathsRenamed, openedFiles, opens, tagged, tagActions, untold>>

Event(kind, path, to) == [kind |-> kind, path |-> path, to |-> to]

Events ==
    {Event(k, p, p) : k \in {"create", "delete"}, p \in Paths}
        \cup {Event("modify", p, p) : p \in Files}
        \cup {Event("rename", p, q) : p \in Files, q \in Files}

Actions ==
    {Event(k, p, p) : k \in {"tag", "delete"}, p \in Files}
        \cup {Event("rename", p, q) : p \in Files, q \in Files}
        \cup {Event(k, Dir, Dir) : k \in {"tagDir", "deleteDir"}}

WatcherTypeOK ==
    /\ onDisk \in [Files -> Stamp]
    /\ dirOnDisk \in BOOLEAN
    /\ writes \in 0 .. MaxWrites
    /\ fsEvents \in Seq(Events)
    /\ pathsCreated \subseteq Paths /\ pathsModified \subseteq Files /\ pathsDeleted \subseteq Paths
    /\ DOMAIN pathsRenamed \subseteq Files
    /\ \A p \in DOMAIN pathsRenamed : pathsRenamed[p] \in Files
    /\ openedFiles \subseteq Files
    /\ opens \in 0 .. MaxOpens
    /\ tagged \in [Files -> Stamp]
    /\ tagActions \in Seq(Actions)
    /\ untold \subseteq Files

\* The project was tagged when its files were as they are now.
WatcherInit ==
    /\ onDisk \in [Files -> {0, 1}]
    /\ dirOnDisk = (\E f \in InDir : onDisk[f] # 0)
    /\ writes = 0
    /\ fsEvents = << >>
    /\ pathsCreated = {} /\ pathsModified = {} /\ pathsDeleted = {}
    /\ pathsRenamed = << >>
    /\ openedFiles = {}
    /\ opens = 0
    /\ tagged = onDisk
    /\ tagActions = << >>
    /\ untold = {}

-----------------------------------------------------------------------------
(***************************************************************************)
(* Other programs.  A write has a later time than all before it; a rename  *)
(* keeps the time of the file.                                             *)
(***************************************************************************)

WithContents(paths) == paths \cup (IF Dir \in paths THEN InDir ELSE {})

NamedIn(es) == UNION {{e.path, e.to} : e \in es}

\* What was changed and is not yet in the database, and the renames among it.
Unhandled == Range(fsEvents) \cup Range(tagActions)
RenamePaths == DOMAIN pathsRenamed \cup Range(pathsRenamed)
Pending == WithContents(NamedIn(Unhandled) \cup pathsCreated \cup pathsModified
                            \cup pathsDeleted \cup RenamePaths)
PendingRenames == RenamePaths \cup NamedIn({e \in Unhandled : e.kind = "rename"})

Now == writes + 2
Reports(es) == fsEvents' = fsEvents \o es
Happens ==
    /\ writes < MaxWrites
    /\ writes' = writes + 1
    /\ UNCHANGED <<collected, openedFiles, opens, tagged, tagActions>>

\* Changes of the files fs that meet others whose order the events do not keep.
Cross(fs, meets) ==
    untold' = IF meets THEN untold \cup (Files \cap (fs \cup PendingRenames)) ELSE untold

MeetsRename(fs) == fs \cap PendingRenames # {}

WriteFile(f) ==
    /\ Happens
    /\ f \in InDir => dirOnDisk
    /\ onDisk' = [onDisk EXCEPT ![f] = Now]
    /\ Reports(<<Event(IF onDisk[f] = 0 THEN "create" ELSE "modify", f, f)>>)
    /\ Cross({f}, MeetsRename({f}))
    /\ UNCHANGED dirOnDisk

DeleteFile(f) ==
    /\ Happens
    /\ onDisk[f] # 0
    /\ onDisk' = [onDisk EXCEPT ![f] = 0]
    /\ Reports(<<Event("delete", f, f)>>)
    /\ Cross({f}, MeetsRename({f}))
    /\ UNCHANGED dirOnDisk

\* On Linux a rename may be reported with the same name twice.
RenameFile(f, g) ==
    /\ Happens
    /\ onDisk[f] # 0
    /\ {f, g} \cap InDir # {} => dirOnDisk
    /\ onDisk' = IF f = g THEN [onDisk EXCEPT ![f] = Now]
                 ELSE [onDisk EXCEPT ![g] = onDisk[f], ![f] = 0]
    /\ Reports(<<Event("rename", f, g)>>)
    /\ Cross({f, g}, f = g \/ onDisk[g] # 0 \/ {f, g} \cap (Pending \cup untold \cup openedFiles) # {})
    /\ UNCHANGED dirOnDisk

\* A directory is copied into the project, or deleted with what is in it.
MakeDir(fs) ==
    /\ Happens
    /\ ~dirOnDisk
    /\ dirOnDisk' = TRUE
    /\ onDisk' = [f \in Files |-> IF f \in fs THEN Now ELSE onDisk[f]]
    /\ Reports(<<Event("create", Dir, Dir)>>
                  \o SetToSeq({Event("create", f, f) : f \in fs}))
    /\ Cross(InDir, Dir \in Pending)

DeleteDir ==
    /\ Happens
    /\ dirOnDisk
    /\ dirOnDisk' = FALSE
    /\ onDisk' = [f \in Files |-> IF f \in InDir THEN 0 ELSE onDisk[f]]
    /\ Reports(SetToSeq({Event("delete", f, f) : f \in {g \in InDir : onDisk[g] # 0}})
                  \o <<Event("delete", Dir, Dir)>>)
    /\ Cross(InDir, MeetsRename(InDir))

-----------------------------------------------------------------------------
(***************************************************************************)
(* FileWatcherFeatureClass.                                                *)
(***************************************************************************)

OnFsWatcher ==
    /\ fsEvents # << >>
    /\ fsEvents' = Tail(fsEvents)
    /\ LET e == Head(fsEvents) IN
           /\ pathsCreated' = pathsCreated \cup {p \in {e.path} : e.kind = "create"}
           /\ pathsModified' = pathsModified \cup {p \in {e.path} : e.kind = "modify"}
           /\ pathsDeleted' = pathsDeleted \cup {p \in {e.path} : e.kind = "delete"}
           /\ pathsRenamed' = [p \in DOMAIN pathsRenamed \cup {q \in {e.path} : e.kind = "rename"} |->
                                  IF p = e.path /\ e.kind = "rename" THEN e.to ELSE pathsRenamed[p]]
    /\ UNCHANGED <<onDisk, dirOnDisk, writes, openedFiles, opens, tagged, tagActions, untold>>

\* Preferences that are saved, or an error of the watch, make a new watch: what
\* the old one had not handed over is lost.
StartWatch ==
    /\ fsEvents # << >>
    /\ fsEvents' = << >>
    /\ Cross(Files \cap WithContents(NamedIn(Range(fsEvents))), TRUE)
    /\ UNCHANGED <<onDisk, dirOnDisk, writes, collected, openedFiles, opens, tagged, tagActions>>

HasDir == \E f \in InDir : tagged[f] # 0

CollapsedDirs(paths) == {d \in paths \cap {Dir} : dirOnDisk \/ HasDir}

\* Paths that neither exist nor are tagged are dropped, and so are the files
\* of a directory that is in the list itself.
CollapsedFiles(paths) ==
    {f \in paths \ {Dir} : /\ onDisk[f] # 0 \/ tagged[f] # 0
                           /\ ~(f \in InDir /\ CollapsedDirs(paths) # {})}

\* A mutant: files that exist again count as deleted.
FilesOnceDeleted == CollapsedFiles(pathsDeleted)

FilesDeleted == {f \in CollapsedFiles(pathsDeleted) : onDisk[f] = 0}

Renames == {f \in DOMAIN pathsRenamed : onDisk[f] = 0}

FilesModified ==
    CollapsedFiles(pathsModified) \ (Renames \cup {pathsRenamed[f] : f \in Renames})

NotOpened(fs) == fs \ openedFiles

InNameOrder(fs) == Ascending(fs)

\* TagFeatureClass queues one action for each event, in their order.
Publish(modified, created, deleted, dirsCreated, dirsDeleted, renamed) ==
    LET queue(kind, ps) == [i \in DOMAIN InNameOrder(ps) |->
                               Event(kind, InNameOrder(ps)[i], InNameOrder(ps)[i])]
        renames == [i \in DOMAIN InNameOrder(renamed) |->
                       Event("rename", InNameOrder(renamed)[i], pathsRenamed[InNameOrder(renamed)[i]])]
    IN  tagActions' = tagActions
            \o queue("tag", modified) \o queue("tag", created) \o queue("delete", deleted)
            \o queue("tagDir", dirsCreated) \o queue("deleteDir", dirsDeleted) \o renames

\* A mutant: a burst of renames alone is nothing to do.
CollectedButRenames == pathsCreated \cup pathsModified \cup pathsDeleted

CollectedPaths == pathsCreated \cup pathsModified \cup pathsDeleted \cup DOMAIN pathsRenamed

OnTimer ==
    /\ CollectedPaths # {}
    /\ Publish(NotOpened(FilesModified), CollapsedFiles(pathsCreated), NotOpened(FilesDeleted),
               CollapsedDirs(pathsCreated), CollapsedDirs(pathsDeleted),
               {f \in Renames : pathsRenamed[f] # f})
    /\ pathsModified' = {f \in Renames : pathsRenamed[f] = f}
    /\ pathsCreated' = {} /\ pathsDeleted' = {} /\ pathsRenamed' = << >>
    /\ untold' = untold \cup (FilesDeleted \cap openedFiles)
    /\ UNCHANGED <<onDisk, dirOnDisk, writes, fsEvents, openedFiles, opens, tagged>>

TrackOpenedFile(f) ==
    /\ opens < MaxOpens
    /\ onDisk[f] # 0
    /\ f \notin openedFiles
    /\ openedFiles' = openedFiles \cup {f}
    /\ opens' = opens + 1
    /\ UNCHANGED <<onDisk, dirOnDisk, writes, fsEvents, collected, tagged, tagActions, untold>>

\* The view of the tags has the file tagged again when it is closed.
UntrackOpenedFile(f) ==
    /\ f \in openedFiles
    /\ openedFiles' = openedFiles \ {f}
    /\ tagActions' = Append(tagActions, Event("tag", f, f))
    /\ Cross({f}, MeetsRename({f}))
    /\ UNCHANGED <<onDisk, dirOnDisk, writes, fsEvents, collected, opens, tagged>>

-----------------------------------------------------------------------------
(***************************************************************************)
(* The actions on the tag database.                                        *)
(***************************************************************************)

\* TagParserClass::Walk: a row is rewritten if the file is newer.  A file
\* that has just been deleted counts as written now.
Walked(f) ==
    LET time == IF onDisk[f] = 0 THEN writes + 1 ELSE onDisk[f]
    IN  IF time > tagged[f] THEN time ELSE tagged[f]

TagFile(f) == IF onDisk[f] = 0 THEN tagged ELSE [tagged EXCEPT ![f] = Walked(f)]

TagDir ==
    IF dirOnDisk
    THEN [f \in Files |-> IF f \in InDir /\ onDisk[f] # 0 THEN Walked(f) ELSE tagged[f]]
    ELSE tagged

RenameTags(f, g) ==
    IF onDisk[f] # 0 THEN tagged
    ELSE IF tagged[f] = 0 THEN [tagged EXCEPT ![g] = Walked(g)]
    ELSE IF tagged[g] # 0 THEN tagged           \* idxFullPath is unique
    ELSE [tagged EXCEPT ![g] = tagged[f], ![f] = 0]

DeleteFileTags(f) == [tagged EXCEPT ![f] = 0]

DeleteDirTags == [f \in Files |-> IF f \in InDir THEN 0 ELSE tagged[f]]

TagAction(a) ==
    CASE a.kind = "tag" -> TagFile(a.path)
      [] a.kind = "delete" -> DeleteFileTags(a.path)
      [] a.kind = "rename" -> RenameTags(a.path, a.to)
      [] a.kind = "tagDir" -> TagDir
      [] a.kind = "deleteDir" -> DeleteDirTags

RunTagAction ==
    /\ tagActions # << >>
    /\ tagActions' = Tail(tagActions)
    /\ tagged' = TagAction(Head(tagActions))
    /\ UNCHANGED <<onDisk, dirOnDisk, writes, fsEvents, collected, openedFiles, opens, untold>>

-----------------------------------------------------------------------------
OtherPrograms ==
    \/ \E f \in Files : WriteFile(f)
    \/ \E f \in Files : DeleteFile(f)
    \/ \E f, g \in Files : RenameFile(f, g)
    \/ \E fs \in SUBSET InDir : MakeDir(fs)
    \/ DeleteDir

WatcherNext ==
    \/ OtherPrograms
    \/ OnFsWatcher
    \/ StartWatch
    \/ OnTimer
    \/ \E f \in Files : TrackOpenedFile(f)
    \/ \E f \in Files : UntrackOpenedFile(f)
    \/ RunTagAction

\* The toolkit hands over what happened, the timer ticks and the pool works.
WatcherFairness ==
    WF_watcherVars(OnFsWatcher) /\ WF_watcherVars(OnTimer) /\ WF_watcherVars(RunTagAction)

WatcherSpec == WatcherInit /\ [][WatcherNext]_watcherVars /\ WatcherFairness

-----------------------------------------------------------------------------
Settled == Pending = {}

\* Once nothing is left to handle, the database has every file that exists as
\* it was last written, and no other.
TagsFollowDisk ==
    Settled => \A f \in Files \ (openedFiles \cup untold) : tagged[f] = onDisk[f]

\* What other programs did is published and tagged in the end.
ChangesArePublished == <>[]Settled
=============================================================================
