------------------------------ MODULE Console ------------------------------
(***************************************************************************)
(* A console window, RunConsolePanelClass, and the external commands it    *)
(* runs with ProcessWithHeartbeatClass.  The end of a command reaches the  *)
(* heartbeat object first, which posts a message to the window: the window *)
(* learns later that the command has ended, and the message does not say   *)
(* which command it is about.  A signal to kill a process may be refused,  *)
(* or not end it: the heartbeat object has forgotten the process by then.  *)
(***************************************************************************)
EXTENDS Integers, SequencesExt

CONSTANTS
    MaxCommandsRun,     \* bound on the commands run
    MaxWaiting          \* bound on the messages that wait when the heartbeat posts one

ASSUME ConsoleAssumption == {MaxCommandsRun, MaxWaiting} \subseteq Nat

VARIABLES
    isOpen,             \* the window is open
    pidsGiven,          \* process ids, in the order they are given
    CurrentPid,
    RunningProcesses,   \* the processes of the heartbeat object
    alive,              \* the processes of the system
    heartbeat,          \* its Timer runs
    waiting,            \* messages posted to the window
    displayed,          \* the processes whose last output is in the window
    stopped,            \* the processes that were sent a signal to kill them
    rogue               \* the processes reported with ERR_ROGUE_PROCESS

consoleVars ==
    <<isOpen, pidsGiven, CurrentPid, RunningProcesses, alive, heartbeat, waiting, displayed,
      stopped, rogue>>

Pids == 1 .. MaxCommandsRun
Messages == [kind : {"complete", "failed"}, pid : Pids] \cup [kind : {"in progress"}]

ConsoleTypeOK ==
    /\ isOpen \in BOOLEAN /\ heartbeat \in BOOLEAN
    /\ pidsGiven \in 0 .. MaxCommandsRun
    /\ CurrentPid \in 0 .. pidsGiven
    /\ RunningProcesses \subseteq Pids
    /\ alive \subseteq Pids
    /\ displayed \subseteq Pids \ RunningProcesses
    /\ stopped \subseteq Pids \ (RunningProcesses \cup displayed)
    /\ waiting \in Seq(Messages)
    /\ rogue \subseteq Pids

ConsoleInit ==
    /\ isOpen = TRUE
    /\ pidsGiven = 0 /\ CurrentPid = 0
    /\ RunningProcesses = {} /\ alive = {}
    /\ heartbeat = FALSE
    /\ waiting = << >>
    /\ displayed = {} /\ stopped = {} /\ rogue = {}

-----------------------------------------------------------------------------
\* ProcessWithHeartbeatClass::Stop, which returns done: the process is detached
\* and killed, if it is one of those that run; its output is not read and nothing
\* is posted.  It is forgotten also if it could not be killed.
StopProcess(pid, done) ==
    /\ heartbeat' = FALSE
    /\ done => pid \in RunningProcesses
    /\ alive' = IF done THEN alive \ {pid} ELSE alive
    /\ RunningProcesses' = RunningProcesses \ {pid}
    /\ stopped' = stopped \cup ({pid} \cap RunningProcesses)

\* RunCommand, which the button calls and the commands of the menu: it runs a
\* process, or fails to, if none is known to run.
RunProcess ==
    /\ isOpen
    /\ CurrentPid = 0
    /\ pidsGiven < MaxCommandsRun
    /\ pidsGiven' = pidsGiven + 1
    /\ \/ /\ CurrentPid' = pidsGiven'
          /\ RunningProcesses' = RunningProcesses \cup {CurrentPid'}
          /\ alive' = alive \cup {CurrentPid'}
          /\ heartbeat' = TRUE
       \/ UNCHANGED <<CurrentPid, RunningProcesses, alive, heartbeat>>
    /\ UNCHANGED <<isOpen, waiting, displayed, stopped, rogue>>

\* RunCommand, if one is known to run.  What Stop did not kill is reported, a
\* process that has ended among it.
StopCommand ==
    /\ isOpen
    /\ CurrentPid > 0
    /\ \E done \in BOOLEAN :
          /\ StopProcess(CurrentPid, done)
          /\ rogue' = IF done THEN rogue ELSE rogue \cup {CurrentPid}
    /\ CurrentPid' = 0
    /\ UNCHANGED <<isOpen, pidsGiven, waiting, displayed>>

ProcessEnds(pid) ==
    /\ alive' = alive \ {pid}
    /\ UNCHANGED <<isOpen, pidsGiven, CurrentPid, RunningProcesses, heartbeat, waiting, displayed, stopped, rogue>>

\* The end of a process stops the timer, whichever process it is.
OnProcessEnded(pid) ==
    /\ pid \in RunningProcesses \ alive
    /\ heartbeat' = FALSE
    /\ \E kind \in {"complete", "failed"} : waiting' = Append(waiting, [kind |-> kind, pid |-> pid])
    /\ RunningProcesses' = RunningProcesses \ {pid}
    /\ UNCHANGED <<isOpen, pidsGiven, CurrentPid, alive, displayed, stopped, rogue>>

Heartbeat ==
    /\ heartbeat
    /\ Len(waiting) < MaxWaiting
    /\ waiting' = Append(waiting, [kind |-> "in progress"])
    /\ UNCHANGED <<isOpen, pidsGiven, CurrentPid, RunningProcesses, alive, heartbeat, displayed, stopped, rogue>>

\* A mutant: what the process wrote since the last heartbeat is left out.
EndedUnread(m) == CurrentPid' = 0 /\ UNCHANGED displayed

\* OnProcessComplete, OnProcessFailed: they are about the process that ended, and
\* forget the one that runs.
OnEnded(m) ==
    /\ CurrentPid' = 0
    /\ displayed' = displayed \cup {m.pid}

HandleMessage ==
    /\ waiting # << >>
    /\ waiting' = Tail(waiting)
    /\ LET m == Head(waiting)
       IN  \/ /\ m.kind \in {"complete", "failed"}
              /\ OnEnded(m)
           \/ /\ m.kind = "in progress"
              /\ UNCHANGED <<CurrentPid, displayed>>
    /\ UNCHANGED <<isOpen, pidsGiven, RunningProcesses, alive, heartbeat, stopped, rogue>>

\* A mutant: the processes that are not the current one are left alone.
ClosedWithCurrent ==
    /\ isOpen
    /\ isOpen' = FALSE
    /\ heartbeat' = FALSE
    /\ \E killed \in SUBSET ({CurrentPid} \cap RunningProcesses) : alive' = alive \ killed
    /\ stopped' = stopped \cup ({CurrentPid} \cap RunningProcesses)
    /\ RunningProcesses' = {}
    /\ waiting' = << >>
    /\ CurrentPid' = 0
    /\ UNCHANGED <<pidsGiven, displayed, rogue>>

\* OnPageClose stops the current process, the destructor of the heartbeat object
\* sends a signal to those that are left; neither looks whether it killed them.
\* Messages to a window that is gone are dropped.
OnPageClose ==
    /\ isOpen
    /\ isOpen' = FALSE
    /\ heartbeat' = FALSE
    /\ \E killed \in SUBSET RunningProcesses : alive' = alive \ killed
    /\ stopped' = stopped \cup RunningProcesses
    /\ RunningProcesses' = {}
    /\ waiting' = << >>
    /\ CurrentPid' = 0
    /\ UNCHANGED <<pidsGiven, displayed, rogue>>

ConsoleNext ==
    \/ RunProcess \/ StopCommand \/ OnPageClose
    \/ \E pid \in alive : ProcessEnds(pid)
    \/ \E pid \in RunningProcesses : OnProcessEnded(pid)
    \/ Heartbeat
    \/ HandleMessage

\* The event loop runs; a command need not end.
ConsoleFairness ==
    /\ WF_consoleVars(HandleMessage)
    /\ \A pid \in Pids : WF_consoleVars(OnProcessEnded(pid))

ConsoleSpec == ConsoleInit /\ [][ConsoleNext]_consoleVars /\ ConsoleFairness

-----------------------------------------------------------------------------
\* No process is lost, also none that the window forgot when the end of another
\* was taken for its end: while the window is open a process that lives is one that
\* closing it will send a signal to, or it was sent a signal and the user is told
\* that it was not killed; what outlives the window was sent a signal.
ProcessesAreNotLost ==
    /\ isOpen => alive \subseteq RunningProcesses \cup (stopped \cap rogue)
    /\ ~isOpen => alive \subseteq stopped

\* "make sure we kill any running processes": a kill may fail.
ClosedConsolesLeaveNothing == ~isOpen => alive = {}

\* The button does not stay on Stop for a process that is gone, and what a process
\* that ended by itself has written is shown.
EndedCommandsAreShown ==
    \A pid \in Pids :
        pid \in RunningProcesses \ alive
            ~> (pid \in displayed /\ CurrentPid # pid) \/ pid \in stopped \/ ~isOpen

\* "do not run a process if one is already running".
OneProcessAtATime == \A pid, other \in alive : pid = other
=============================================================================
