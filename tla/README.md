# Triumph for PHP: TLA+ models and proofs

Triumph is a desktop editor for PHP written in C++ with wxWidgets. A single GUI
thread runs every event handler; threads of small pools, one socket server and
external PHP processes work beside it and report back with posted events. This
directory holds specifications of the parts of that machinery that are hard to
get right, the TLC configurations that check them on small instances, and
proofs, checked by TLAPS, that they hold for every value of the constants.

Paths below are relative to the repository; the C++ code is under `src/`.

## 1. The system

`docs/architecture.md` names four layers: *views* call *features*, features
queue *actions* on thread pools or run them in sequences, and everyone reads the
*globals*. Views, features and the main frame talk to each other through an
event sink on the GUI thread. The parts, their state, and what makes them right:

| part | state | operations | what is hard | what makes it correct |
|---|---|---|---|---|
| Background pool (`actions/ActionClass`) | queue of actions, batch of threads, finish semaphore, running action of each thread | `Queue`, `CancelAction`, `StopAll`, `Shutdown`, `OnTimer`, `ThreadActionClass::Entry` | GUI against threads, join with a timeout, restart after a stop | every action has one owner, order of the queue, a stop reaches everything and leaves nothing |
| Sequences (`actions/SequenceClass`, `actions/GlobalActionClass`) | list of steps, running flag, kind of the current step | `AppStart`, `ProjectDefinitionsUpdated`, `TagCacheWipeAndIndex`, `DatabaseDetection`, `Build`, `Stop`, `OnActionComplete` | completions identified by event id only, three kinds of steps, stops in between | one step after another, no step deleted twice or leaked, a sequence ends |
| Detector actions and `ProcessWithHeartbeatClass` | queue of scripts, running processes, one heartbeat timer | `Init`, `NextDetection`, `OnProcessComplete`, `OnProcessFailed`, `Stop` | a process that cannot be started, one timer for many processes | every detector completes |
| Debugger (`actions/DebuggerServerActionClass`, `features/DebuggerFeatureClass`, `views/DebuggerViewClass`) | server thread, queued commands, session and server flags, breakpoints and their engine ids | start, stop, accept, session, step commands, breakpoint commands | blocking sockets, flags written from events, replies matched by transaction id | one server, the flags tell the truth, commands reach the session they were meant for, the engine's breakpoints are the editor's |
| Breakpoints (`features/DebuggerFeatureClass`, `views/DebuggerViewClass`) | list with lines, handles of markers and engine ids; markers of the editor; breakpoints of the engine | toggle, remove, enable, disable, edits of the text, open, close; a script's answers | ids arrive in events, lines are shared, edits shift markers | the engine has the breakpoints of the list |
| External file changes (`features/FileWatcherFeatureClass`, `actions/ProjectTagActionClass`, `actions/TagWipeActionClass`) | sets of changed paths, burst timer, opened files, rows of the tag database | watcher events, timer, actions on the database | bursts whose order is lost, renames, changes while an earlier one is handled | every change reaches the database, and it agrees with the disk in the end |
| Modified-file check (`features/` and `views/FileModifiedCheck*`) | times of the open files, polls on the pool, dialogs | activation, poll, answer | events handled while a modal dialog is open; files saved or closed meanwhile | prompts are true, every change is noticed |
| Tag cache (`language_php/TagCacheClass`, `views/TagViewClass`) | symbol tables of open pages, rows of the tag database, the timer for typed text | open, type, save, close, index, wipe, builders on the pool | a rebuilt table arriving after its page was closed, or after a newer one | a table belongs to an open page and to its latest text; what is typed is parsed |
| Editors and notebooks (`widgets/NotebookClass`, `code_control/CodeControlClass`, `views/FileOperationsViewClass`) | pages of two notebooks, their files and texts | open, edit, save, move, close, close all, exit | pages addressed by index while others close, failing writes | no text is lost unasked; a clean page shows its file |
| Lists in the config file (five features) | list in memory, groups of the config object, file | store, flush, load | groups removed while enumerated, read in the order of their names | each stored entry comes back |
| External commands (`views/RunConsoleViewClass`, `widgets/ProcessWithHeartbeatClass`) | current process, all processes, timer | run, stop, end, close | the end of one process taken for that of another, kills that fail | output is shown, no process is lost unseen |
| PHP lint (`features/` and `views/Lint*`) | checks on the pool, errors, rows of the panel | check, save, close, stop | a check stopped before it began; rows and errors removed by index | a check ends for the view; errors only with a panel |
| Event sink (`globals/Events`) | list of handlers | push, remove, publish, post | a clone per handler | each handler gets each event once |
| Find and replace in files (`views/FindInFilesViewClass`, `actions/FindInFilesActionClass`) | hits, buttons, the reader and its action, the pages | find, stop, replace, close the panel | the panel searches pages while the reader walks the disk | every match is found once; a replacement reaches each hit in its page or on disk |
| Directory search (`search/DirectorySearchClass`) | stacks of directories and files, the source the walker is in | `Init`, `Walk` in two modes | entries of sources and files on one stack | every file is walked once in each source it is in |
| Explorer (`features/ExplorerFeatureClass`, `views/ExplorerViewClass`) | listed files, rows, a watch of one directory, a pool of one thread | list, delete, rename, create, watch events | three queues between the disk and rows that the user has changed already | the rows are the files of the directory in the end |
| SQL browser (`views/SqlBrowserViewClass`, `features/SqlBrowserFeatureClass`) | panels linked to a code control, their results and their action on the pool | run, refresh, open a table, close a panel or the code control | several queries at once, told apart by their panel; a completion opens more panels | a panel shows the results of its query, each once |
| Tag database (`language_php/TagParserClass`, tables of `assets/sql/resources.sql`) | rows of files, of their tags and of their traits, with ids in common | a search through a source directory, a page, a single file, deletions, renames, wipes | ids of deleted files are given again; transactions of many files beside statements that commit alone; a statement that fails halfway | the tables agree: a tag belongs to a file that has it, each file has one entry |
| Bookmarks | list of lines and marker handles | toggle, next, previous | the list is told of removed markers late, lines shift with the text | not modelled, see section 6 |
| Navigation history | none: a dialog lists the pages of the notebooks | select a page | the index counts pages of one notebook only | not modelled, see section 6 |
| Symbol table, call stack, outline, total search, ... | results of queries on parsed code | pure algorithms, or requests answered by id | little concurrency of their own | reference definitions |

`PROJECT.json` lists every part with the files it covers and its status.
Vendored libraries (`lib/`), generated dialogs and lexers, PHP assets, the
profilers and the tutorials are not modelled.

## 2. What is modelled

### RunningThreads: the background pool

`RunningThreads.tla` has the state of `RunningThreadsClass`, of its threads and
of the action objects. Every block of code under `ActionMutex` or
`RunningActionMutex` is one step; `StopAll`, which holds no lock across its
phases, is one step per loop iteration; `ThreadActionClass::Entry` is a program
counter `pc[t]` with a step between any two operations that other threads or the
GUI can see. Threads are numbered `<<batch, index>>` because `Queue` starts a new
batch whenever `ThreadActions` is empty, and threads of the batch before may
still be alive if a wait of `StopAll` timed out.

| code | actions of the model |
|---|---|
| `RunningThreadsClass::Queue` | `Queue`, `QueueRefused`, with `StartThreads` |
| `CancelAction` | `CancelAction`, `KeepOnly`, `RunningWithId` |
| `OnTimer` | `OnTimer` |
| `StopAll`, `Shutdown`, destructor | `StopAll`, `Shutdown` enter; `CancelRunningAction`, `DeleteThread`, `SemaphoreWait`, `SemaphoreTimeout` are its steps; `Destroy` |
| `ThreadActionClass::Entry` | `TestDestroy`, `NextAction`, `BeginWork`, `EndWork`, `SignalEnd`, `ReleaseAction`, `CleanupAllActions`, `FinishThread` |

Abstracted: what an action does (it works for some time, or for ever until it is
cancelled), the 200 ms polling, the payload of events, failure of thread
creation. The race between `~RunningThreadsClass` and a thread that is still
alive is memory, which the model does not have.

### Sequence: the startup and indexing sequences

`Sequence.tla` has the state of `SequenceClass` (`Steps`, `IsRunning`,
`IsCurrentStepAsync`), the queue of the SQLite pool, the detectors that have an
external process, the completions posted and not delivered, and, for ownership,
the action objects created, deleted and refused. Handlers run on the GUI thread,
so each is one step. `Program` is the list of steps every public method adds;
`DoAsync`, `Initializer`, `Detector` and `AlwaysInits` say how each class derived
from `GlobalActionClass` works. `StopForPreferences`, `StopForProjects`,
`CloseMainFrame` and `Exit` are the callers of `Stop`; `FileRetagged` is the
tagging of a file that was closed, or that another program created or changed, which
uses the same pool and the same event id as a step.

Whether a step has something to do (`Init` returning false) is a free choice for
the types whose `Init` can return false: it depends on projects, settings and
files that are not modelled.

### OneAfterAnother: what a sequence promises

`OneAfterAnother.tla` is the sentence of `SequenceClass.h:51`, "This class runs
all of the added steps in sequence, one after another", as a specification: only
the first remaining step is worked on, and the next one begins after that work
has ended. `KeepsPromise` of `Sequence.tla` instantiates it with the mapping
`todo <- Steps`, `working <- processes \cup Elements(pool)`.

### Debugger: the server, the feature and the scripts

`Debugger.tla` has four kinds of actors: the GUI thread with the handlers of
`DebuggerFeatureClass` and `DebuggerViewClass`, the event queues between them
and the server (`featureEvents`, `errors`, `Posted`), the server's thread as a
program counter `pc[s]` between its blocking calls, and the scripts with their
connections. `StopDebugger` is three steps of the GUI thread, since the server
runs on between its connection, the cancel and the join; no event is handled
before it returns.

| code | actions of the model |
|---|---|
| `StartDebugger`, `RestartDebugger`, `StopDebugger` | `StartDebugger`; `StopDebugger`, `StopAll`, `StopAllReturns`, `RestartServer` |
| `PostCmd`, menu commands, `OnCmd` | `PostCmds`, `UserCommand`, `OnCmd` |
| `OnDbgpInit`, `OnDbgpContinue`, `ResetDebugger`, the view's error handlers | actions of the same names, `OnDbgpContinueStopping`, `OnDebuggerError` |
| `BackgroundWork` | `Bind`, `BindFails`, `TestCancelled`, `Accept`, `AcceptFails`, `ReadInit`, `EndWork` |
| `SessionWork`, `ParseAndPost` | `SessionCancelled`, `SendCommand`, `ReadAnswer`, `ReadFails`, `Drain`, `LeaveSession` |
| xdebug (external) | `Connect`, `EngineAnswers`, `EngineRuns`, `EngineDrops` |

A command is its transaction id, whether it makes the script go on, and the
script whose event made the GUI build it, which the code does not record. The
breakpoint and feature commands of `OnDbgpInit` stand as one command before the
run command, those that ask afterwards as one behind it. The pool is a queue with
one thread; a `StopAll` that times out is the subject of `RunningThreads` and
is not repeated here. The port does not change. A command that waits in the sink
for a server that was deleted is memory, which the model does not have.

### Breakpoints: the list, the editor and the engine

`Breakpoints.tla` keeps the list of `DebuggerFeatureClass`, the markers of one
code control by handle, and the breakpoints of one debug engine by id. Commands
and events travel in two queues; how they get from one to the other is the
subject of `Debugger`. What the menu, the margin and the panel do is
`ToggleBreakpoint`, `BreakpointRemove`, `BreakpointDisable`, `BreakpointEnable`,
`Finish`; what Scintilla does to markers is `InsertLine`, `DeleteLine`;
`OnDbgpInit`, `OnDbgpBreakpointSet` and `OnScriptEnded` are the handlers of the
engine's events. `who` tells breakpoints apart where the code cannot. That the
engine knows the list (`EngineKnowsTheList`) is proved too.

### FileWatcher: from the disk to the tag database

`FileWatcher.tla` has other programs (`WriteFile`, `DeleteFile`, `RenameFile`,
`MakeDir`, `DeleteDir`), the collecting handlers (`OnFsWatcher`, `StartWatch`),
the burst timer (`OnTimer`, with `CollapsedFiles`, `CollapsedDirs` and `Renames`
for what is published), and the actions on the pool of one thread (`RunTagAction`).
The content of a file is the time of its last write. `untold` marks the files
whose changes the file system's events do not tell in full: a rename that meets
another change of the same file in one burst, or a new watch. The database may
stay behind for these; for all others it must not. That it does not (`TagsFollowDisk`)
is proved too.

### Notebooks: the pages

`Notebooks.tla` has pages in notebooks, the file and the text of each, and the
files on disk. `LoadPage`, `LoadCodeControl`, `Modify`, `Adopt`, `TreatAsNew`,
four ways of saving and four of closing are actions; a dialog is the choice of
its answer, and a write may fail. `CloseAllPages` is one step for each page,
since it asks about each.

### StoredSettings: the lists in the config file

`StoredSettings.tla` has one store operator for each of the five lists, as the
features differ in which groups they remove before they write; loading and the
end of the program are shared. The projects are read by their numbers; the others in
the order in which the config object enumerates groups, that of their names:
`NameRank` says where the name of each number comes, and `SingleDigits` numbers have
one digit (ten in the code). A list of more than ten entries therefore comes back in
another order (`OrderComesBack`). The web browsers begin as the defaults, and these
stay if nothing is there to be read. `NumberOrder.tla` has the ascending order in
which ranks, and the keys of sorted containers in `FileWatcher` and
`DirectorySearch`, are handed over.

### ModifiedCheck: prompts about changed files

`ModifiedCheck.tla` looks at the files of a poll one by one (`CheckNextFile`)
while other programs and the user go on, posts the result, and keeps the modal
dialogs as a stack: while one is open the next result may open another over it.

### WorkingCache: symbol tables of typed text

`WorkingCache.tla` has pages with numbered texts, the queue of the SQLite pool
with builders, tagging and indexing, the events they post, the tables of
`TagCacheClass` and the rows of the database. A job has begun, is done, or waits,
since its result and its events are separate.

### TagDb: the tag database

`TagDb.tla` is `TagParserClass` on its tables. `db` is what the connection of the
pool sees and `committed` what the others see; a search (`search`) keeps one
transaction open for every 200 files, so that the two differ while it runs. Every
other operation is a row of statements that commit each by itself: one whose
statement fails, as another connection reads, leaves out those behind it (the
`n` of a deletion, and `torn` of a wipe). SQLite gives a new row the id behind the highest in use,
so that the id of a deleted file can come back, and a row of tags that stayed
behind would then belong to another file.

| code | actions of the model |
|---|---|
| `BeginSearch`, `Walk`, `EndSearch`, `Close` | `BeginSearch`, `Walk`, `WalkAndCommit`, `WalkPast`, `EndSearch`, `Close`, with `BuildResourceCache` |
| `BuildResourceCacheForFile` | `TagPage` |
| `DeleteFromFile`, `DeleteDirectories`, `DeleteSource`, `WipeAll` | actions of the same names, each with the number of its statements that are carried out |
| `RenameFile`, `RenameDir` | actions of the same names, with `Rename` |

`TagTable.tla` is the promise: one table with an entry for each path, in which an
entry is replaced when its file is looked at, emptied or removed when it is named
by a deletion, and moved by a rename; what has not been committed may be lost.
`ActsAsOneTable` maps the entry of a path to its row of `file_items` and the
texts of its rows of `resources`, in `db` and in `committed`.

A text is a number and stands for the time of its file as well, so a change
within the same second as the last look, which the code does not notice, is left
out; source directories stand for their ids; there is one namespace; the
wildcards of `LIKE` and upper and lower case in paths are left out; a deletion by
the GUI thread is refused while a search has read. What the model shows of the
code, or what was read beside it: rows of `trait_resources` of a file that is
parsed again stay (a TODO in `TagParserClass.cpp:703` says so); the comment of
`TagParserClass.h` that the key of the trait cache contains the id of the file is
not what the code does; `DeleteSource` deletes by the id of the source directory,
not also what the header says of directories below it; the row of a namespace
belongs to the first file that declares it and goes with it; a deletion cut short
leaves a file marked as parsed that has no tags; a wipe cut short leaves the tags
of files that are gone (`torn`), which later files take over with their ids.

### Console and Lint

`Console.tla` has one console window with the processes of its heartbeat object;
the end of a process reaches the heartbeat first and the window by a message that
waits. A kill may fail, and the signal that the heartbeat object's destructor sends
may not end a process: such a process lives on although it is forgotten, with a
report (`ERR_ROGUE_PROCESS`, `rogue`) if the user stopped it and without one if the
window was closed. `Lint.tla` has project checks and checks of saved files on the pool, their
events, and the errors and rows kept from them.

### FindInFiles: a results panel and its reader

`FindInFiles.tla` has one results panel, the reader that works for it on the
pool, and the open pages. A text has matches or has none: what a pattern is does
not matter to what the panel, the reader and the replacement do to each other. A
file has at most one page. Pages of files outside the searched directory are left
out, since the search skips them.

| code | actions of the model |
|---|---|
| `Find`, `FindInOpenedFiles` | `Find`, and `FindInOpenedFiles` a step later, as the reader is queued before the pages are searched |
| `OnFileHit`, `OnFindInFilesComplete`, `OnActionComplete` | `PanelHandlesEvent` with an operator for each |
| `OnStopButton`, `OnReplaceInAllFilesButton`, closing | actions of the same names, `OnToolsNotebookPageClosed` |
| `FindInFilesBackgroundReaderClass` | `ReaderStarts`, `BackgroundFileRead`, `BackgroundFileMatch`, `ReaderEnds`; `PoolStopsAll` |
| pages and other programs | `UserOpens`, `UserCloses`, `UserEdits`, `UserSaves`, `OtherProgramWrites` |

`SearchReachesAll` is proved in `Listings_proofs.tla`.

### DirectorySearch: the walk through the sources

`DirectorySearch.tla` has the two stacks of `DirectorySearchClass` and both of
its modes, and `walks`, what the walker was given, with the source it was told
to be in. Directories are numbered in the order in which they are listed, so a
tree is a function from directories to parents. TLC takes every tree, every
placement of the files, every list of sources and everything their wildcards
accept. `EveryFileIsWalkedInItsSources` holds unless, in PRECISE mode, a source
after the first one has no files. `WalkIsComplete` drops that exception and does
not hold: `Walk` takes the entry below a source's for a file, and if it is the
entry of another source then that is walked as a file. The comment in
`DirectorySearchClass.cpp` about a fault of RECURSIVE mode with a structure of
directories is not confirmed: that mode gives every file of every such tree, which
`Listings_proofs.tla` proves for any tree and any sources, and for PRECISE mode too.

### Explorer: one directory in a panel

`Explorer.tla` has the panel's rows, `FileListingClass` with its watch and its
pool of one thread, and the events from the watch to the listing and on to the
panel. The panel changes rows before the files are changed, so `nameRows` counts
the rows of a name. `missed`, `labels` and `misreverted` tell apart what the code
cannot notice: a change before the watch began or one whose event was lost, and a
refused rename that is undone in rows which were listed meanwhile.

| code | actions of the model |
|---|---|
| `RefreshDir`, `OnListMenuDelete`, `OnListMenuCreateNew`, `OnListEndLabelEdit` | actions of the same names |
| `ExplorerFileSystemActionClass`, `ExplorerModifyActionClass` | `ExplorerActionRuns` with `ListFiles`, `DeleteName`, `RenameName` |
| `FileListingClass` | `FileListingHandlesEvent`, `OnWatchEvent`, `WatchLosesEvents` |
| the panel's `OnExplorerListComplete`, `OnExplorerModifyComplete`, `OnFsWatcher` | `ExplorerPanelHandlesEvent` |

`RowsFollowDisk` is proved in `Listings_proofs.tla`.

### SqlQueries: the panels of the SQL browser

`SqlQueries.tla` has the panels in the order of their pages, one code control
that some of them are linked to, and the queries with the results they have
posted. A query is queued, runs on one of several threads, and ends; closing its
panel makes it `unheard`, and a stop of the pool drops or cancels it. The rows of
a result are left out: a result is the query and the statement it comes from, and
whether it has rows, and so gets a panel of its own, is a free choice.

| code | actions of the model |
|---|---|
| `OnSqlBrowserToolsMenu`, `OnRun`, `OnRefreshButton`, `OnCmdTableDataOpen`, `OnAppFileClosed` | actions of the same names |
| `OnToolsNotebookPageClose`, `Stop` | `OnSqlPanelClosed` |
| `MultipleSqlExecuteClass` | `QueryWorks` with `BeginQuery`, `ExecuteStatement`, `EndQuery`; `StopQueries` |
| `OnQueryComplete`, `OnActionComplete` | `PanelHandlesQueryEvent` with `OnQueryComplete`, `OnSqlActionComplete` and `RenderAllResults` |

### MCFiles, MCPromises and MCBackground

The parts above from `Breakpoints` on keep their state apart: what one does that
another sees (a file that is saved, a page that closes) is an action of the
other's environment in its module. `MCFiles` puts six of them next to each
other (file watcher, notebooks, settings, directory search, find in files,
explorer), `MCBackground` four (modified-file check, tag cache, lint, console): a
behaviour belongs to one part, which takes all its steps, and the others stay as
they begin. `MCPromises` does the same with the two parts that implement an
abstract specification, `Sequence` and `TagDb`, and with SQL queries and
breakpoints, which are to act as if each were alone. Find in files and the SQL
queries see of the pool that each action runs once; what else it does is a choice
of their actions. This is not a composition, and no property is about two of these parts.
Parts that do not begin have nothing under way, so that their fairness conditions
hold of themselves and take nothing away from the part that runs.

## 3. The runs

| run | configuration | result | properties | what it shows |
|---|---|---|---|---|
| `pool` | `MCRunningThreads.cfg` | holds | `SingleOwner`, `StopCancelsRunning`, `NoStragglers`, `DropsAreAskedFor`, `SilentAfterShutdown`, `StopAllReturns`, `QueuedIsServed` | Two threads, every interleaving of queueing, cancelling, progress timer, stopping, shutting down and restarting the pool: each action has one owner and is never dropped unasked, StopAll joins what it stops and returns although an action that is not cancelled may run for ever, and every queued action is served if actions end by themselves. |
| `pool_timeout` | `MCRunningThreadsTimeout.cfg` | holds | `FifoOrder` | One thread and three actions when a wait of StopAll may time out, so that a thread of an earlier batch runs on beside the new one: first in, first out survives. |
| `sequence` | `MCSequence.cfg` | holds | `TypeOK`, `StepsHaveOneOwner`, `CurrentStepIsLive`, `SequenceEnds` | Two sequences of any kind with files that are tagged again, both kinds of dialogs and the exit of the application: no action is deleted twice or leaks, the sequence never waits for nothing, and every sequence ends. |
| `promises` | `MCPromises.cfg` | holds | `KeepsPromise`, `TablesBelongTogether`, `EngineKnowsTheList`, `PanelsShowTheirQuery`, `ActsAsOneTable` | Four parts that promise to act like something simpler, side by side. Three sequences without files tagged again or projects dialogs, even with detectors that do not start their next process: the sequencer implements OneAfterAnother. Searches of two nested source directories, pages, deletions that are cut short, wipes and renames of files, with commits that fail: the tables of the tag database belong together for every reader, and act as the one table of TagTable. Breakpoints that are added, moved and removed while commands and events are on their way: the debug engine has those of the list, as enabled as there. Queries of several panels at once: a panel of the SQL browser shows the results of its own. |
| `sequence_retag` | `MCSequenceRetag.cfg` | violated | `OneStepAtATime` | The completion of the tagging of a file that was closed or changed is taken for that of the current step, and two steps are worked on at once. |
| `debugger` | `MCDebugger.cfg` | holds | `CommandsInOrder`, `AnswersMatchCommands`, `SinkForgetsEnded`, `FlagsAreTrue` | Two scripts, two servers, a stop or restart at any moment, user commands at any moment and one fault of any kind (a port in use, a failed accept, a script that goes away, an error reply): commands stay in order and are answered one at a time, the event sink holds the servers that exist, and the flags of the feature mean what its early returns take them for. |
| `debugger_live` | `MCDebuggerLive.cfg` | holds | `ScriptsAreRun`, `StopReturns` | Two scripts, two servers, one stop and one fault: a script that is accepted is told to run, and StopDebugger returns if its connection reached the only server. |
| `debugger_carryover` | `MCDebuggerCarryOver.cfg` | violated | `NoCarryOver` | A command built for one script is sent to the next one: it was still an event when the first one ended and the queue was emptied. |
| `files` | `MCFiles.cfg` | holds | `FilesTypeOK`, `TagsFollowDisk`, `CleanPagesShowTheirFile`, `EveryFileIsWalkedInItsSources`, `SearchReachesAll`, `RowsFollowDisk`, `ChangesArePublished`, `TextIsKept`, `StoredEntriesComeBack` | What the editor keeps of files, six parts side by side: changes made by other programs reach the tag database and are published in the end; no text goes with a page unless the user agreed, and a page that does not count as modified shows its file; the walk through the sources of a project gives every file in its source; a search finds every file that matches, once, and a replacement reaches them; the explorer shows the files of its directory once it has handled everything; what was stored in the config file comes back. |
| `background` | `MCBackground.cfg` | holds | `BackgroundTypeOK`, `PromptsAreTrue`, `CachesAreCurrent`, `ProcessesAreNotLost`, `ChangesAreNoticed`, `TypedTextIsParsed`, `LintsEnd`, `EndedCommandsAreShown` | What views have done in the background, four parts side by side: prompts about changed files are true and every change is noticed; symbol tables are those of the latest text and belong to open pages; a lint check ends for the view and leaves no errors without its panel; a console shows what ended commands wrote and loses no process, whichever kills fail. |
| `notebooks_exit` | `NotebooksExit.cfg` | violated | `ChosenPagesAreSaved` | The dialog before the application ends saves the wrong pages: it remembers a page by its place among the modified ones, not by its tab. |
| `breakpoints_follow` | `BreakpointsFollow.cfg` | violated | `BreakpointsFollowMarkers` | An edit moves all breakpoints of the file to one line. |

The bounds. Two threads are needed for two of them to disagree, two batches for
one thread to outlive a stop, three actions for one to be queued behind one that
is cancelled and one that runs. Symmetry permutes the action objects, which are
alike until `Queue` numbers them; runs with liveness do not use it. In
`pool_timeout` the pool has one thread, as in the SQLite pool; the second batch is
the straggler's neighbour. Two sequences are needed for a completion of the
first to arrive in the second; three in the refinement run, where no files are
tagged again. All seven programs are allowed at once. Deadlock is not checked: each
system may come to rest (the pool destroyed, the application closed).

In `Debugger` two scripts are needed for one to inherit from the other and two
servers for one to be queued behind another; each fault happens at most once and
`MaxFaults` of them in all. Scripts are alike, so the run without liveness uses
symmetry.

In `files` two files are needed for a rename, and one of them lies in a directory
that can go (`InDir`); three writes put a change behind another that is being
handled, and one file is opened in the editor. Two pages in two notebooks, with
one edit and writes that may fail, are enough for one page to be asked about
while another closes. Of the stored lists
four entries are needed for the enumeration to skip one and remove the next; with
three digits instead of ten the fourth has a number of two, whose name comes before
that of the third. The
walk has three directories and two files, so that sources can be nested, be empty,
or hold a directory without files, and two sources. The explorer has two
directories and two names, two listings, one change by the user and one by another
program; larger instances (three listings, two changes by either) were checked by
hand. A search has two files that are open or not, one change of a text, and
limits of hits that are and are not reached.

In `promises` the tag database has two source directories, one below the
other, three files and a page without one, two texts, one with a trait, and three
operations: a search of a directory, an operation that ends another way, and one
that meets what it left. `CommitEvery` is two, so that a search of three files
commits once on its way, and three ids are enough for one to come back. Two panels,
two queries and two statements are enough for two queries at once, for a panel that
is opened by the results of another one, and for two results whose order matters.
Two lines and two added breakpoints share a line or not; a command can be on its
way when another changes the list. What is checked of the tag database, the panels,
the breakpoints and the search is proved for any number of each.

In `background` the check has two files, three points in time and one activation of
the application: what the user and other programs do between the steps of a poll, its
event and its dialog. A second activation, and with it nested dialogs, would go
beyond the time of a run; that prompts are true there too is proved
(`PromptsStayTrue`), that changes are noticed there is not checked. One
page with three texts, one of which does not parse, and two jobs let a builder
wait behind a wipe or before that of a newer text; the safety is proved for any
number of each. Two files, two lint
checks and one error let a check of a saved file end during a project check. Three
commands let the console forget a second one while it starts the third.

Fairness. `StopSpec`: the loop of `StopAll` runs on the GUI thread and goes on
by itself, the operating system schedules every thread, and an action that has
been cancelled returns from `BackgroundWork` (the contract of
`ActionClass::IsCancelled`). No fairness is assumed of an action that nobody
cancels, since the debugger's server works until it is told to stop;
`QueuedIsServed` therefore assumes it in its own statement. `LiveSpec` of
`Sequence`: the event loop delivers posted events, the pool's thread is scheduled
and its actions end, external processes end. `LiveSpec` of `Debugger`: the event
loop handles posted events, the server's thread is scheduled, and a debug engine
answers what it is asked; a script that runs for ever is not covered. The user's
commands, connections and faults are never fair. `WatcherFairness`: the event loop
handles what the file system tells and the burst timer fires, and the actions on
the database run. `CheckFairness`: polls run, their results are handled and the
user answers each dialog. `CacheFairness`: jobs on the pool run, sequences end,
notices are handled and the timer fires. `LintFairness`: events are handled and a
check that is queued begins, walks its files and ends. `ConsoleFairness`: the
messages of the window are handled and a process that has ended is noticed; no
command need end.

Runs that find a violation show a disagreement between the code and what its
comments say; each is a finding in `PROJECT.json`, with the comment quoted. Other
disagreements that TLC has shown are kept as definitions, with the comment or the
expectation they state, and are not run: `CancelReachesRunning` and `OneAtATime`
of `RunningThreads`, `OneSequenceAtATime` and `DetectorsComplete` of `Sequence`,
`OnePagePerFile` of `Notebooks`, `ClosedUnsavedHasNoTags` of `WorkingCache`,
`RemovedCommandsStayRemoved` and `OrderComesBack` of `StoredSettings`,
`OneProcessAtATime` and `ClosedConsolesLeaveNothing` of `Console`, `RowsAreTheErrors` of `Lint`, `ButtonsFollowHits` of `FindInFiles`,
`WalkIsComplete` of `DirectorySearch`, `ChosenDirIsListedAgain` of `Explorer`,
`PanelsShowOneQuery` and `IdlePanelsCanRun` of `SqlQueries`.

## 4. The proofs

Eight modules hold proofs. `ListLemmas.tla` has what they share on sequences, loops
and recursion over numbers. The others are about

- `RunningThreads_proofs.tla`: the pool;
- `Promises_proofs.tla`: the sequences and the tag database;
- `Debugger_proofs.tla`: the debugger;
- `Background_proofs.tla`: the console, the modified-file check, the symbol tables
  and the lint check;
- `Listings_proofs.tla`: the search in files, the walk through the files of the
  sources and the explorer;
- `Files_proofs.tla`: the pages, the lists in the config file and the watch of the
  files, and `MCFiles`, where these and the former are next to each other;
- `Views_proofs.tla`: the SQL browser and the breakpoints.

The theorems hold for any number of actions, threads, batches, sequences, files
tagged again, servers, scripts, stops, commands, faults, polls, pages, texts, jobs, files,
directories, sources, listings, changes, panels, queries, statements, breakpoints
and lines:

| theorem | property | what it says |
|---|---|---|
| `TypeCorrect` (RunningThreads_proofs) | `-` | Every variable keeps its type, and each thread's location agrees with the batch it belongs to and with its action, for any number of actions, threads and batches, timeouts included. |
| `ActionsHaveOneOwner` (RunningThreads_proofs) | `SingleOwner` | No action is in two places or alive in none, whatever is cancelled, stopped or left behind by a timeout. |
| `ActionsAreFifo` (RunningThreads_proofs) | `FifoOrder` | Actions are taken in the order of their ids, whatever CancelAction and StopAll take out between. |
| `StopAllCancelsRunning` (RunningThreads_proofs) | `StopCancelsRunning` | From the moment StopAll deletes the first thread every action its threads run has been cancelled. |
| `StopAllLeavesNoThread` (RunningThreads_proofs) | `NoStragglers` | Without a timeout only threads of the current batch are alive, so StopAll returns with none left. |
| `SemaphoreIsForJoin` (RunningThreads_proofs) | `-` | Without a timeout the finish semaphore counts exactly the thread that StopAll is waiting for. |
| `NothingIsDroppedSilently` (RunningThreads_proofs) | `DropsAreAskedFor` | Without a timeout an action leaves the queue only for a thread, for a CancelAction of its own id or for StopAll. |
| `ShutdownIsSilent` (RunningThreads_proofs) | `SilentAfterShutdown` | Without a timeout no event is posted once Shutdown has returned. |
| `SequenceTypeCorrect` (Promises_proofs) | `TypeOK` | Every variable keeps its type; only asynchronous steps are ever queued on the pool. |
| `RunningMeansStepsLeft` (Promises_proofs) | `-` | Running() is true exactly while steps are left. |
| `GaugeIsFaithful` (Promises_proofs) | `-` | The last sequence event posted is the start exactly while a sequence runs. |
| `SequenceNeverWaitsForNothing` (Promises_proofs) | `CurrentStepIsLive` | If detectors always start their next process, something is under way that will complete the current step, for any number of sequences, files tagged again, stops and foreign completions. |
| `SequenceKeepsItsPromise` (Promises_proofs) | `KeepsPromise` | Without files tagged again and projects dialogs the sequencer implements OneAfterAnother. |
| `DebuggerTypeCorrect` (Debugger_proofs) | `-` | Every variable keeps its type; a server that exchanges commands has a script at the other end of its socket, for any number of scripts, servers, stops, commands and faults. |
| `AnswersAreMatched` (Debugger_proofs) | `AnswersMatchCommands` | A server only reads the answer to the command it sent last, from the script it sent it to, and nothing is in flight between commands, however sessions, stops, restarts and faults interleave. |
| `SinkIsCurrent` (Debugger_proofs) | `SinkForgetsEnded` | The event sink holds every server that is queued or runs and none that has ended. |
| `CommandsAreInOrder` (Debugger_proofs) | `CommandsInOrder` | A server sends commands in the order in which the GUI built them: what it sent last, what its queue holds and what is still posted are in increasing order, whatever is drained, thrown away or posted meanwhile. |
| `FlagsStayTrue` (Debugger_proofs) | `FlagsAreTrue` | When the GUI has handled its events and nothing failed, IsDebuggerServerActive means that a server exists and a script at a break point is known to the feature, however servers are stopped, restarted, cancelled and closed. |
| `EveryStepHasOneOwner` (Promises_proofs) | `StepsHaveOneOwner` | Each action object belongs to the sequence, to the pool or to nobody, is deleted once, and none is left without an owner, for any number of sequences, steps and stops. |
| `ConsoleTypeCorrect` (Background_proofs) | `-` | Every variable of the console keeps its type, for any number of commands. |
| `NoProcessIsLost` (Background_proofs) | `ProcessesAreNotLost` | While its window is open, a process that lives is one that closing the window sends a signal to, also if the window forgot it, or it was sent one and reported as not killed; a process that outlives the window was sent a signal. For any number of commands, and whichever signals end the process they are sent to. |
| `CheckTypeCorrect` (Background_proofs) | `-` | Every variable of the modified-file check keeps its type, for any number of files, points in time and polls. |
| `PromptsStayTrue` (Background_proofs) | `PromptsAreTrue` | What a prompt about changed or deleted files says is true when it is shown, unless the user saved or opened the file since the poll looked at it, however polls, other programs and nested dialogs interleave. |
| `CacheTypeCorrect` (Background_proofs) | `-` | Pages, symbol tables, tags, jobs and events keep their types, and at most one action of the pool, the first, has begun, for any number of pages, texts and jobs. |
| `CachesStayCurrent` (Background_proofs) | `CachesAreCurrent` | Once no builder is under way for a page its symbol table is that of the last good text handed to one, unless it was dropped or taken away by a cancelled closing, for any number of pages, texts, jobs, wipes and stops of the pool. |
| `LintTypeCorrect` (Background_proofs) | `-` | The errors and rows of the lint panel, its checks and their events keep their types, for any number of files, checks and errors. |
| `BackgroundTypeCorrect` (Background_proofs) | `BackgroundTypeOK` | Every variable of the check of modified files, the symbol tables, the lint check and the console keeps its type, whichever of them takes the steps. |
| `TagDbTypeCorrect` (Promises_proofs) | `-` | Each file has at most one row, under an id within the bound, and the tables, searches and texts keep their types, for any files, source directories, texts and commit interval. |
| `TablesStayTogether` (Promises_proofs) | `TablesBelongTogether` | Every connection sees tables that belong together: ids are unique, tags are of a file and under its source directory, of one text, with their traits, whatever is cut short, lost or renamed; a cut wipe excepted. |
| `TagDbActsAsOneTable` (Promises_proofs) | `ActsAsOneTable` | The tables with their ids, transactions and caches implement TagTable, one entry for each file, for any files, source directories and texts, until a wipe is cut after its first statement. |
| `FindTypeCorrect` (Listings_proofs) | `-` | The pages, the files, the reader and its events and hits of a search keep their types, for any number of files, changes and any limit of hits. |
| `SearchReachesEverything` (Listings_proofs) | `SearchReachesAll` | No file is found twice by the pages and the reader, a search that was not stopped has every match, and a replacement leaves none of its hits, for any files, texts, limit, stops and interleaving of the user with the reader. |
| `ExplorerTypeCorrect` (Listings_proofs) | `-` | The disk, the listings, events and rows of the explorer keep their types, and what is queued is of a directory that is shown, for any directories, names and changes. |
| `ExplorerRowsFollowDisk` (Listings_proofs) | `RowsFollowDisk` | Once everything is handled the rows are the files of the directory shown, for any directories, names, listings, changes and renames, unless a change was not told by the watch or a refused rename was undone in rows set since. |
| `NotebooksTypeCorrect` (Files_proofs) | `-` | Pages, texts and files keep their types, and every page has one tab in one notebook, for any number of files, notebooks, pages and edits. |
| `CleanPagesAreTrue` (Files_proofs) | `CleanPagesShowTheirFile` | A page that does not count as modified shows the text of its file, unless the file was written for another page, by another program or not at all when the page got its name, whatever is opened, saved, moved and closed, for any number of files, notebooks, pages and edits. |
| `NoTextIsLost` (Files_proofs) | `TextIsKept` | A page that is closed takes unsaved text with it only if the user was asked and gave it up, or it could not be written, for any number of pages and whatever is answered in the dialogs of Close All. |
| `WatcherTypeCorrect` (Files_proofs) | `-` | Files, events, what is collected of a burst, the actions on the pool and the rows of the tag database keep their types, for any number of files, of which any are in the directory, and any number of changes. |
| `TagsStayTrue` (Files_proofs) | `TagsFollowDisk` | Once nothing is under way every file has the tags of its text and no other file has any, whatever other programs write, delete and rename, with a directory or alone, whatever is opened in the editor and however bursts and actions on the pool interleave, but for files whose changes the events do not tell in full. |
| `SettingsTypeCorrect` (Files_proofs) | `-` | The list in memory, the list stored and the groups of the config file keep their types, and no list that is loaded is longer than the groups allow, for any entries and number of them. |
| `StoredListsComeBack` (Files_proofs) | `StoredEntriesComeBack` | Each entry stored last is there when the program starts again, and of the connections, the breakpoints and the projects nothing else is, for any entries, any number of them, any order of storing and any order of the groups' names in which names that end in one digit come as their numbers. The projects come back in the order in which they were stored, the other lists if no group has a number of two digits. |
| `SearchTypeCorrect` (Listings_proofs) | `-` | The tree, the two stacks, the counts and what the walker of a search is given keep their types, for any directories, files, sources and wildcards. |
| `EveryFileIsWalked` (Listings_proofs) | `EveryFileIsWalkedInItsSources` | A walk that is over gave the walker every accepted file of each source once, in that source, and nothing else, for any tree of directories, any sources one in the other and any placement of files, in both modes, unless in PRECISE mode a source after the first has no files. |
| `FilesTypeCorrect` (Files_proofs) | `FilesTypeOK` | Next to each other, as they are checked, the watch, the pages, the stored lists, the walk, the search and the explorer keep their types. |
| `AllFollowTheFiles` (Files_proofs) | `-` | In the specification that is checked, the tags, the clean pages, the files walked, the hits of a search and the rows of the explorer follow the files all at once, each with the exceptions its property names. |
| `SqlTypeCorrect` (Views_proofs) | `-` | The panels, queries, events and results of the SQL browser keep their types, for any number of panels, queries and statements. |
| `PanelsStayTrue` (Views_proofs) | `PanelsShowTheirQuery` | The results of a query gather in its panel, each once and in order, with its completion behind them, and then the panel shows just these, for any number of panels, queries and statements, whatever is stopped, closed or opened meanwhile, unless the panel was refreshed while a query was under way. |
| `BreakpointsTypeCorrect` (Views_proofs) | `-` | The list of breakpoints, the markers, the commands, events and the engine's breakpoints keep their types, and no two breakpoints are taken for one, for any number of lines, breakpoints, commands and scripts. |
| `EngineStaysInformed` (Views_proofs) | `EngineKnowsTheList` | When nothing is on its way the engine of a script has the breakpoints of the list, each as enabled as there, for any number of lines, breakpoints, commands and scripts, unless a command was posted before the id it needs was known or for a line with two breakpoints. |

The argument for the pool. `TypeInv` (types, and a batch exists while `StopAll`
runs) is inductive. `OwnInv` adds where each thread is when it has an action,
that batches above the current one have not started, and that ids of owned
actions are below `NextActionId`: with it `SingleOwner` and `FifoOrder` carry
each other, since the queue is appended at the back with a fresh id and taken
from the front. `StopInv` says that `StopAll` empties the queue before it
cancels, thread by thread; a thread already cancelled can then take nothing new.
`JoinInv`, without timeouts, describes the threads before and after the one
being joined, and yields `NoStragglers` and `SemaphoreCountsJoin`. The action
properties follow from these.

The argument for the sequences. `RunningInv` is inductive by itself.
`CurrentStepIsLive` is inductive together with types: every place that makes a
step current also queues it, starts its process or posts its completion, and the
work of a step that is no longer current can only help. `PromiseInv` is a token:
without foreign completions the current step is in exactly one of the pool, a
process or the inbox, which is what the refinement mapping needs.

The argument for the debugger. `SinkInv` adds to the types that the queue holds
each server once and only servers that have not begun, that servers not created
yet have left no trace, and that at most one server works: a server that ends
can then not be in the queue, so that leaving the sink when it ends is enough.
It rests on a lemma that names the six ways in which a step moves a server.
`AnswerInv` adds that a script which is accepted or waits to be has connected,
and therefore does not connect again; with one worker nobody but the server and
its script touch the connection, and a request stays in flight until its answer
is read.

`CommandsInOrder` needs `OrderInv`: what a server was sent, what it has queued and
what is still posted to it, one behind the other, is in the order of building, and
the next transaction id is above all of it. `FlagsAreTrue` needs `FlagInv`: the
connection tells a fault exactly when the server met one; a server is cancelled or
its connection closed only inside `StopDebugger`, so that outside of it a server
that ended has met a fault, and then an error event waits that will clear the
flag; and the last event of the feature tells what the session's flag becomes.

The argument for the owners of steps. `OwnInv` says that what the sequence owns
(its steps, the first one only while it is not the pool's), what is queued on the
pool and what has been deleted are disjoint, that the two lists repeat nothing,
that every object created is in one of these or was refused, and that the numbers
of the objects created next are new. Starting the next step hands it from the
sequence to the pool (`RunNextStepHandsOver`); a stop deletes what the sequence
owns.

The argument for the console. `ConsoleInv` adds to the types and to
`ProcessesAreNotLost` that a message about an end waits only for a process that no
longer belongs to the heartbeat object and was not stopped, and that a window which
is closed has no process left there. A process that the window forgot still belongs
to the heartbeat object, and a kill that fails is what makes a live process leave it:
so closing the window reaches every process that was not already sent a signal.
That a closed window leaves nothing running is not true, as kills may fail.

The argument for the modified-file check. `CheckInv` adds to the types that the
time kept for a page differs from that of its file only if another program wrote
the file, and of every poll that it looks at each file once, that the times it
has yet to compare are those of the pages, and that what it has found is true,
all but for the files the editor touched since the poll began. A nested dialog
touches files of polls that wait, and so these need no case of their own.

The argument for the symbol tables. `CacheInv` says where the last text that was
handed over is: in the last builder of its page on the pool, or if none is left
there in the last event of its page that waits, or if none is left there either
in the table that is registered (`LastIsHanded`). The pool and the event queue
keep their order, so each step either leaves it where it is or moves it on to the
next place. That nothing is left of closed pages needs `WorkHasPage`: builders
and events of pages that are not open are known to be strays.

The argument for the tag database. `TagDbInv` adds to the types and to
`TablesBelongTogether` that a search which has read nothing yet has nothing that
is not committed, so that a page closed meanwhile deletes from both views alike,
and that a search is in a source directory which is stored. The tables are
rewritten by four operators (`Delete`, `PersistFileTag`, `PersistTags`,
`Rename`), and there is a lemma for each about every part of `WholeTables`. What
makes them agree is that no statement removes the row of a file before the rows
of its tags, but for a wipe; that is why the parts about tags are left when a
wipe was torn, and the refinement too. `TagDbActsAsOneTable` shows for each
action the step of `TagTable` it is, entry by entry: that what happens to rows
by id happens to the one entry with that id is `IdsAreUnique`, and that
what is deleted by source directory is what has its entry there is
`TagsHaveTheirFile`.

The argument for the search. `SearchReachesAll` looks at the state in which a
search is complete; `FindInv` follows it from its beginning. A file is yet to be
read, or a hit of it waits among the events, or it has been handled
(`SearchIsCovered`), where the pages that were open when the search began take
the place of the files they show (`PagesAreLeft`); a reader that has not begun has
told nothing (`HasNotBegun`), and the panel handles the events of one reader in
the order it posted them, the last one being its end (`EventsInOrder`,
`ReadersFit`, `OneHitEach`, `HandlesNothing`). Without the order the end could
come before a hit. `ReplaceIsOwed` says of the replacement which hits are done.

The argument for the explorer. `RowsFollowDisk` holds when nothing is under way,
so the invariant has to say what the events and actions under way are good for.
`FollowInv` does it from the disk to the watch: either a listing is to come, or
the last listing that was told is what the directory holds but for the changes
of which an event waits (`ListingsAreOld`, `ListIsTold`, `LastListingIsTold`,
`DeletionsAreTold`). `RowsInv` does it from there to the rows: each name has the
rows that the events to come will make right (`RowsAreKnown`), where a row the
user has relabeled already counts for its new name as long as the rename is under
way (`LabelsArePending`). The two meet in the state without events. The rows are
known once nothing is to come that sets them again (`RowsSettled`), no event was
missed (`missed`) and no refused rename was undone in rows listed meanwhile
(`misreverted`), and if each rename under way has a label of its own
(`EachHasLabel`).

The argument for the pages. `NotebooksInv` adds to the types, which say that every
page has one tab, and to `CleanPagesShowTheirFile` that a notebook which is being
closed has pages left and that the user has been asked about those of them which
are still modified (`ClosingPagesWereOffered`): `CloseAllPages` deletes a page
before it asks about the next one. Saving is a loop over tabs inside one over
notebooks. A loop is a recursive function, which exists when each of its rounds
yields something (`LoopExists`) and keeps what each of its rounds keeps
(`LoopKeeps`); both follow from the least number for which it would not
(`LeastNumber`). What the rounds of saving keep is `SavedDocs`: a clean page shows
its file, no text changes, and no page becomes modified.

The argument for the lists in the config file. A store writes entry `i` into the
group with number `i - 1`, all groups being removed first but for the commands and
the browsers, some or all of whose old groups stay. `SettingsInv` says that the file is what the config object
holds and that the groups with the first numbers hold what was stored last
(`StoredGroups`). Groups are read in the order of the ranks of their names, of which
there are as many as groups (`RanksAreApart`): `Ascending` puts each rank behind as
many as are below it, so that each group has a place among what is read
(`GroupIsRead`) and two groups have two. If every number has one digit, the ranks
below that of number `k` are those of the numbers below `k`, and what was stored is
read first and in its order. How names with more digits are sorted is not assumed.

The argument for the lint check. What a removal of errors does is a loop over the
errors that counts the row it is at, which becomes negative when two errors of the
file follow each other, and may miss the rows: the types need that each of its
rounds keeps two lists of files and a whole number (`Removals`).

The argument for the SQL browser. `SqlInv` adds to the types that what is queued
or dropped has posted nothing (`NothingPosted`) and that what a panel was last
asked is a query of its own, unless it is untouched (`LastAskedFits`). Of an open
panel it says that only its last query is under way unless queries were mixed
(`OnlyLastIsUnderWay`), that results which have arrived are followed by a
completion (`CompletionIsOwed`), that a query dropped from the queue is silent
(`DroppedIsSilent`), and the property itself (`ShowsItsQuery`). A query asked
while nothing is under way then finds the panel empty; a result moves from the
events to the panel without changing what arrives at it (`TakenResult`), and a
completion that is taken leaves nothing behind (`TakenCompletion`).

The argument for the breakpoints. `EngineKnowsTheList` looks at the state in which
nothing is on its way; `BreakpointsInv` says where each breakpoint is until then.
In a session in which no command missed its breakpoint (`Tracked`), a breakpoint of
the list waits in a command to set it (`SetCommandsFit`), or the engine has it and
the answer with its id waits (`SetEventsFit`), or its id is known (`IdsFit`); the
last command that enables or disables it says what the list says, and if there is
none the engine does (`EnabledFits`); what the engine has beyond the list is about
to be removed (`EngineFits`). Commands that name an id can wait from before the
session, but then stand before all that set breakpoints, when the engine has given
no id yet (`OldIds`). That a breakpoint is set once in a session needs the order of
`SetsInv`: it is sent at the session's beginning or when it is added, and those
added later have greater numbers. `SessionInv` orders the events: first the
session's beginning, then answers, at last the end. What the user does in the text
changes lines and handles only (`EditorStep`).

The argument for the watch of the files. `TagsFollowDisk` holds when nothing is
under way; until then `FileInv` says what is on its way for each file that no rename
is under way for. Of a file that exists: the row is not newer than the file, and the
file is open in the editor, or an event or a collected path will have it tagged, or
a queued action tags it and none behind that one removes it (`TagQueued`), or the row
is right and nothing queued removes it. Of a file that does not exist: there is no
row, or something will remove it. The timer keeps this because it queues what
deletes before what tags (`NewActions`, `TagsStayQueued`), and an action that runs
leaves to every other file what it had (`TagsAreRun`). A rename is told in full only
if nothing else is under way for its two files (`RenameInv`); everything that would
cross it puts both files into `untold`, which `MeetsRename` and `Cross` do for all
programs alike. `DirInv` keeps a deleted directory apart from a new one of its name.

The argument for the walk. At any time the first `k` sources are left as a whole,
and of the one above them the files in a list `H` and what is below the directories
in a list `E` (`WalkIsAt`); the two stacks are written in these terms, with entries
of the sources between the files in PRECISE mode and below the directories in
RECURSIVE mode (`StacksAre`). What the walker was given and what is left are
together what is owed, each of it once (`WalkedOrLeft`), so that a walk with nothing
left has given everything. Opening a directory puts what it holds in its place,
taking an entry of a source turns that source as a whole into files and directories,
and a file that is walked moves from one side to the other. Nothing is lost or met
twice because the directories that contain a file are one below the other
(`AncestorsNest`), so that siblings share none. PRECISE mode builds its whole stack
in advance: that the enumeration of a directory is the accepted files below it, each
once (`AllIsEnumerated`), is proved for trees of any depth by counting: directories
are numbered after those they are in, so that the last one has none below it, and the
others follow downwards. A function given by recursion over numbers is known to exist by
`RecursionExists`.

The argument for the parts side by side. A step of `MCFiles` is one of a single part
and leaves the others as they are, so that the conjunction of their invariants
(`PartsInv`) is inductive. `FilesTypeCorrect` and `AllFollowTheFiles` follow for the
specification that the runs of `MCFiles` check.

Only model-checked: liveness (`StopAllReturns`, `QueuedIsServed`, `SequenceEnds`,
`ScriptsAreRun`, `StopReturns`, `ChangesArePublished`, `ChangesAreNoticed`,
`TypedTextIsParsed`, `LintsEnd`, `EndedCommandsAreShown`), which is beyond the
prover. Every invariant and every action property of the runs that pass is stated by
a theorem above. `NoStragglers`, `SemaphoreCountsJoin`, `DropsAreAskedFor` and `SilentAfterShutdown` are proved under the assumption that
no wait of `StopAll` times out: with a timeout they do not hold.
`SemaphoreCountsJoin` and `GaugeShowsRunning` are proved and no longer run.


## 5. Plan

What is left, in this order.

1. `Bookmarks`: a list whose lines follow the markers of the editor, and an index
   into it that removals leave behind. `BookmarkViewClass` does not do what its
   comments say when lines go and when a file is reverted.
2. `EventSink`: handlers pushed and removed while posted clones are pending; the
   clone of a rename event.
3. `Heartbeat`: `ProcessWithHeartbeatClass` below the detectors of `Sequence`,
   whose processes are one step now.
4. Abstractions: a command channel (a queue with one request in flight) that
   `Debugger` implements as long as sessions end with an empty queue, and a pool
   (queued, running, finished) that `RunningThreads` implements and `Sequence`
   then uses in place of its own queue.

`Sequence` already composes with `OneAfterAnother`. Its pool is a queue served in
order by one thread, which is what `pool_timeout` and `ActionsAreFifo` establish
of `RunningThreads` with `MaxThreads = 1` while no wait times out.

## 6. What is not modelled

- Memory: use of freed objects and destruction of a pool below a running thread.
  The models give an object that is deleted a state of its own, or no state.
- Data races on flags that are read without a lock. The pool's flags are under
  locks; those of `SequenceClass` are used on the GUI thread only.
- Failure of thread creation in `RunningThreadsClass::Queue`.
- The save of a file that only another user may write: `SaveAndTrackFile` starts a
  process that asks for a password (`CodeControlClass.cpp:527-530`, `538-541`), whose
  end marks the page as saved (`OnTerminate`, 129-145) although text may have been
  typed since, and `OnAppFrameClose` refuses to end the application while such a file
  is modified (`FileOperationsViewClass.cpp:396-403`). In `Notebooks` the user may
  write every file when a save begins, and writing may fail.
- Times of files that differ by too little for the check to count them, a second, or
  a minute if they go back (`FileModifiedCheckActionClass.cpp:86`): `ModifiedCheck`
  compares numbers that stand for times further apart.
- That a process id is given again while the heartbeat object still has it
  (`ProcessWithHeartbeatClass.cpp:75-80`).
- What actions compute: parsing, tagging, SQL, file contents. It is sequential
  code on top of vendored libraries, and its answers carry no ordering.
- The explorer's filters, its file cabinet and the deletion of several files at
  once; the patterns of a search and the finder of a single page.
- Bookmarks, the dialog that selects a page (it counts the pages of one notebook
  and is wrong with two), the SQL browser's panel of table definitions,
  total search and outline, the event sink: planned above or requests answered by id.
- Presentation: panels, dialogs, menus, generated code.
- Vendored libraries, PHP assets and the tools of the build.
