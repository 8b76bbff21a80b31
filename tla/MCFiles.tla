------------------------------- MODULE MCFiles -------------------------------
(***************************************************************************)
(* What the editor keeps of files, for TLC: the watch of their             *)
(* directories, the pages they are open in, the walk through them, the     *)
(* search in them, the explorer's list of them, the lists in the config    *)
(* file.  The search sees of the pool that its action runs once.           *)
(* These parts keep their state apart; what one does that another sees is  *)
(* an action of the other's environment in its module.  So they are        *)
(* checked next to each other and not interleaved: one of them takes all   *)
(* the steps of a behaviour, the others stay as they begin.                *)
(***************************************************************************)
EXTENDS FileWatcher, Notebooks, StoredSettings, DirectorySearch, FindInFiles, Explorer

VARIABLE part

vars == <<part, watcherVars, notebookVars, settingsVars, searchVars, findVars, explorerVars>>

Parts == {"watcher", "notebooks", "settings", "search", "find", "explorer"}

\* Group numbers with three digits 0, 1, 2: the names sorted are 0, 1, 10, 2.
RankOfName == [k \in 0 .. 3 |-> CASE k < 2 -> k [] k = 2 -> 3 [] k = 3 -> 2]
OneBrowser == <<CHOOSE entry \in Entries : TRUE>>

\* A part that takes no steps begins in one way only; the explorer's directories
\* begin with one file each.
Init ==
    /\ part \in Parts
    /\ WatcherInit /\ (part # "watcher" => \A f \in Files : onDisk[f] = 0)
    /\ NotebooksInit /\ (part # "notebooks" => \A f \in PageFiles : pageFile[f] = 0)
    /\ SettingsInit /\ (part # "settings" => list = "commands")
    /\ SearchInit
    /\ FindInit
    /\ part # "find" => \A f \in SearchFiles : MAX_HITS = 1 /\ diskHit[f] /\ codeCtrl[f] = "closed"
    /\ ExplorerInit
    /\ \A dir \in ListedDirs : IF part = "explorer" THEN Cardinality(disk[dir]) = 1 ELSE disk[dir] = {}

Next ==
    \/ /\ part = "watcher" /\ WatcherNext
       /\ UNCHANGED <<part, notebookVars, settingsVars, searchVars, findVars, explorerVars>>
    \/ /\ part = "notebooks" /\ NotebooksNext
       /\ UNCHANGED <<part, watcherVars, settingsVars, searchVars, findVars, explorerVars>>
    \/ /\ part = "settings" /\ SettingsNext
       /\ UNCHANGED <<part, watcherVars, notebookVars, searchVars, findVars, explorerVars>>
    \/ /\ part = "search" /\ SearchNext
       /\ UNCHANGED <<part, watcherVars, notebookVars, settingsVars, findVars, explorerVars>>
    \/ /\ part = "find" /\ FindNext
       /\ UNCHANGED <<part, watcherVars, notebookVars, settingsVars, searchVars, explorerVars>>
    \/ /\ part = "explorer" /\ ExplorerNext
       /\ UNCHANGED <<part, watcherVars, notebookVars, settingsVars, searchVars, findVars>>

\* The types of the part that takes the steps.
FilesTypeOK ==
    CASE part = "watcher" -> WatcherTypeOK
      [] part = "notebooks" -> NotebooksTypeOK
      [] part = "settings" -> SettingsTypeOK
      [] part = "search" -> SearchTypeOK
      [] part = "find" -> FindTypeOK
      [] part = "explorer" -> ExplorerTypeOK

\* The watch has nothing to do where it does not begin: it is not in the way of
\* the others.
Spec == Init /\ [][Next]_vars /\ WatcherFairness
=============================================================================
