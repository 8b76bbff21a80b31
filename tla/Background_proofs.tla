------------------------- MODULE Background_proofs -------------------------
(***************************************************************************)
(* Theorems about views that hear in events of what is done in the         *)
(* background: a console window (Console), for any number of commands, the *)
(* check for open files that other programs changed (ModifiedCheck), for   *)
(* any number of files, polls and nested dialogs, and the symbol tables of *)
(* the pages (WorkingCache), for any number of pages, texts, jobs, wipes   *)
(* and stops of the pool.                                                  *)
(***************************************************************************)
EXTENDS MCBackground, ListLemmas

-----------------------------------------------------------------------------
(***************************************************************************)
(* The console.                                                            *)
(***************************************************************************)

\* What the end of a process has posted, and the window has not handled.
Ended == {m \in Messages : m.kind \in {"complete", "failed"}}

\* A process belongs to the heartbeat object until it has ended or is sent a
\* signal, and then to nobody: it is not told to be ended twice, nor after a stop.
PidsInv ==
    /\ ProcessesAreNotLost
    /\ RunningProcesses \cup displayed \cup stopped \subseteq 1 .. pidsGiven
    /\ \A n \in DOMAIN waiting :
           waiting[n] \in Ended =>
               waiting[n].pid \in (1 .. pidsGiven) \ (RunningProcesses \cup stopped)
    /\ ~isOpen => RunningProcesses = {}

ConsoleInv == ConsoleTypeOK /\ PidsInv

LEMMA ConsoleInvInit == ConsoleInit => ConsoleInv
<1> SUFFICES ASSUME ConsoleInit PROVE ConsoleInv
  OBVIOUS
<1>1. MaxCommandsRun \in Nat
  BY ConsoleAssumption
<1>2. waiting \in Seq(Messages) /\ DOMAIN waiting = {}
  BY DEF ConsoleInit
<1>3. (isOpen \in BOOLEAN /\ heartbeat \in BOOLEAN)
  BY DEF ConsoleInit
<1>4. ConsoleTypeOK
  BY <1>1, <1>2, <1>3 DEF ConsoleInit, ConsoleTypeOK, Pids
<1>5. PidsInv
  BY <1>2 DEF ConsoleInit, PidsInv, ProcessesAreNotLost
<1>6. QED
  BY <1>4, <1>5 DEF ConsoleInv

\* A message of the queue and what is left of the queue without the first.
LEMMA TailOfWaiting ==
    ASSUME waiting \in Seq(Messages), waiting # << >>
    PROVE  /\ Tail(waiting) \in Seq(Messages)
           /\ Head(waiting) = waiting[1] /\ 1 \in DOMAIN waiting
           /\ \A n \in DOMAIN Tail(waiting) :
                  n + 1 \in DOMAIN waiting /\ Tail(waiting)[n] = waiting[n + 1]
OBVIOUS

LEMMA AppendToWaiting ==
    ASSUME waiting \in Seq(Messages), NEW m \in Messages
    PROVE  /\ Append(waiting, m) \in Seq(Messages)
           /\ \A n \in DOMAIN Append(waiting, m) :
                  \/ n \in DOMAIN waiting /\ Append(waiting, m)[n] = waiting[n]
                  \/ Append(waiting, m)[n] = m
OBVIOUS

LEMMA ConsoleInvStep ==
    ASSUME ConsoleInv, [ConsoleNext]_consoleVars
    PROVE  ConsoleInv'
<1>1. CASE RunProcess
  <2>1. MaxCommandsRun \in Nat
    BY ConsoleAssumption
  <2>2. pidsGiven' = pidsGiven + 1 /\ pidsGiven' \in Pids /\ UNCHANGED <<isOpen, waiting, displayed, stopped, rogue>>
    BY <1>1, <2>1 DEF RunProcess, ConsoleInv, ConsoleTypeOK, Pids
  <2>3. pidsGiven' \notin RunningProcesses \cup displayed \cup stopped
    BY <2>2 DEF ConsoleInv, ConsoleTypeOK, PidsInv
  <2>4. \/ CurrentPid' = pidsGiven' /\ RunningProcesses' = RunningProcesses \cup {pidsGiven'}
              /\ alive' = alive \cup {pidsGiven'} /\ heartbeat' = TRUE
        \/ UNCHANGED <<CurrentPid, RunningProcesses, alive, heartbeat>>
    BY <1>1 DEF RunProcess
  <2>5. ConsoleTypeOK'
    <3>1. (isOpen \in BOOLEAN /\ heartbeat \in BOOLEAN)'
      BY <2>2, <2>4 DEF ConsoleInv, ConsoleTypeOK
    <3>4. /\ waiting' \in Seq(Messages)
          /\ pidsGiven' \in 0 .. MaxCommandsRun
          /\ CurrentPid' \in 0 .. pidsGiven'
      BY <2>1, <2>2, <2>4 DEF ConsoleInv, ConsoleTypeOK, Pids
    <3>2. /\ RunningProcesses' \subseteq Pids /\ alive' \subseteq Pids
          /\ displayed' \subseteq Pids \ RunningProcesses'
          /\ stopped' \subseteq Pids \ (RunningProcesses' \cup displayed')
          /\ rogue' \subseteq Pids
      BY <2>2, <2>3, <2>4 DEF ConsoleInv, ConsoleTypeOK
    <3>3. QED
      BY <3>1, <3>2, <3>4 DEF ConsoleTypeOK, Pids
  <2>6. 1 .. pidsGiven \subseteq 1 .. pidsGiven'
    BY <2>2 DEF ConsoleInv, ConsoleTypeOK
  <2>7. \A pid \in 1 .. pidsGiven : pid # pidsGiven'
    BY <2>2 DEF ConsoleInv, ConsoleTypeOK
  <2>8. PidsInv'
    <3>1. (RunningProcesses \cup displayed \cup stopped)' \subseteq 1 .. pidsGiven'
      <4>1. RunningProcesses \cup displayed \cup stopped \subseteq 1 .. pidsGiven
        BY DEF ConsoleInv, PidsInv
      <4>2. pidsGiven' \in 1 .. pidsGiven'
        BY <2>2 DEF Pids
      <4>3. RunningProcesses' \cup displayed' \cup stopped'
               \subseteq RunningProcesses \cup displayed \cup stopped \cup {pidsGiven'}
        BY <2>2, <2>4
      <4>4. QED
        BY <2>6, <4>1, <4>2, <4>3
    <3>2. \A n \in DOMAIN waiting :
              waiting[n] \in Ended =>
                  waiting[n].pid \in (1 .. pidsGiven') \ (RunningProcesses' \cup stopped)
      BY <2>4, <2>6, <2>7 DEF ConsoleInv, PidsInv
    <3>3. QED
      BY <1>1, <2>2, <2>4, <3>1, <3>2 DEF RunProcess, ConsoleInv, PidsInv, ProcessesAreNotLost, Ended
  <2>9. QED
    BY <2>5, <2>8 DEF ConsoleInv
<1>2. CASE StopCommand
  <2>1. PICK done \in BOOLEAN :
            /\ StopProcess(CurrentPid, done)
            /\ rogue' = IF done THEN rogue ELSE rogue \cup {CurrentPid}
    BY <1>2 DEF StopCommand
  <2>2. /\ UNCHANGED <<isOpen, pidsGiven, waiting, displayed>>
        /\ isOpen /\ CurrentPid' = 0 /\ heartbeat' = FALSE
        /\ RunningProcesses' = RunningProcesses \ {CurrentPid}
        /\ stopped' = stopped \cup ({CurrentPid} \cap RunningProcesses)
    BY <1>2, <2>1 DEF StopCommand, StopProcess
  <2>3. \/ alive' = alive \ {CurrentPid} /\ rogue' = rogue
        \/ alive' = alive /\ rogue' = rogue \cup {CurrentPid}
    BY <2>1 DEF StopProcess
  <2>4. CurrentPid \in Pids
    BY <1>2, ConsoleAssumption DEF StopCommand, ConsoleInv, ConsoleTypeOK, Pids
  <2>5. ConsoleTypeOK'
    <3>1. /\ RunningProcesses' \subseteq Pids /\ alive' \subseteq Pids
          /\ displayed' \subseteq Pids \ RunningProcesses'
          /\ stopped' \subseteq Pids \ (RunningProcesses' \cup displayed')
          /\ rogue' \subseteq Pids
      BY <2>2, <2>3, <2>4 DEF ConsoleInv, ConsoleTypeOK
    <3>2. (isOpen \in BOOLEAN /\ heartbeat \in BOOLEAN)'
      BY <2>2 DEF ConsoleInv, ConsoleTypeOK
    <3>3. waiting' \in Seq(Messages) /\ pidsGiven' \in 0 .. MaxCommandsRun /\ CurrentPid' \in 0 .. pidsGiven'
      BY <2>2, ConsoleAssumption DEF ConsoleInv, ConsoleTypeOK
    <3>4. QED
      BY <3>1, <3>2, <3>3 DEF ConsoleTypeOK, Pids
  <2>6. ProcessesAreNotLost'
    BY <2>2, <2>3 DEF ConsoleInv, PidsInv, ProcessesAreNotLost
  <2>7. PidsInv'
    BY <2>2, <2>6 DEF ConsoleInv, PidsInv, Ended
  <2>8. QED
    BY <2>5, <2>7 DEF ConsoleInv
<1>3. CASE OnPageClose
  <2>1. waiting' \in Seq(Messages) /\ DOMAIN waiting' = {}
    BY <1>3 DEF OnPageClose
  <2>2. ConsoleTypeOK'
    <3>1. (isOpen \in BOOLEAN /\ heartbeat \in BOOLEAN)'
      BY <1>3 DEF OnPageClose
    <3>2. /\ UNCHANGED <<pidsGiven, displayed, rogue>> /\ CurrentPid' = 0
          /\ RunningProcesses' = {} /\ alive' \subseteq alive
          /\ stopped' = stopped \cup RunningProcesses
      BY <1>3 DEF OnPageClose
    <3>3. QED
      BY <2>1, <3>1, <3>2, ConsoleAssumption DEF ConsoleInv, ConsoleTypeOK
  <2>3. ProcessesAreNotLost'
    BY <1>3 DEF OnPageClose, ConsoleInv, PidsInv, ProcessesAreNotLost
  <2>5. PidsInv'
    BY <1>3, <2>1, <2>3 DEF OnPageClose, ConsoleInv, PidsInv
  <2>4. QED
    BY <2>2, <2>5 DEF ConsoleInv
<1>4. ASSUME NEW pid \in alive, ProcessEnds(pid) PROVE ConsoleInv'
  BY <1>4 DEF ProcessEnds, ConsoleInv, ConsoleTypeOK, PidsInv, ProcessesAreNotLost, Pids
<1>5. ASSUME NEW pid \in RunningProcesses, OnProcessEnded(pid) PROVE ConsoleInv'
  <2>1. PICK kind \in {"complete", "failed"} :
            waiting' = Append(waiting, [kind |-> kind, pid |-> pid])
    BY <1>5 DEF OnProcessEnded
  <2>2. [kind |-> kind, pid |-> pid] \in Messages
    BY DEF ConsoleInv, ConsoleTypeOK, Messages
  <2>3. ConsoleTypeOK'
    BY <1>5, <2>1, <2>2, AppendToWaiting DEF OnProcessEnded, ConsoleInv, ConsoleTypeOK, Pids
  <2>4. pid \in 1 .. pidsGiven /\ pid \notin stopped
    BY DEF ConsoleInv, ConsoleTypeOK, PidsInv
  <2>5. ASSUME NEW n \in DOMAIN waiting', waiting'[n] \in Ended
        PROVE  waiting'[n].pid \in (1 .. pidsGiven') \ (RunningProcesses' \cup stopped')
    BY <1>5, <2>1, <2>2, <2>4, <2>5, AppendToWaiting
       DEF OnProcessEnded, ConsoleInv, ConsoleTypeOK, PidsInv, Ended
  <2>6. ProcessesAreNotLost'
    <3>1. /\ UNCHANGED <<isOpen, alive, stopped, rogue>>
          /\ RunningProcesses' = RunningProcesses \ {pid} /\ pid \notin alive
      BY <1>5 DEF OnProcessEnded
    <3>2. QED
      BY <3>1 DEF ConsoleInv, PidsInv, ProcessesAreNotLost
  <2>7. QED
    BY <1>5, <2>3, <2>5, <2>6 DEF OnProcessEnded, ConsoleInv, PidsInv
<1>6. CASE Heartbeat
  <2>1. [kind |-> "in progress"] \in Messages \ Ended
    BY DEF Messages, Ended
  <2>2. waiting' = Append(waiting, [kind |-> "in progress"])
    BY <1>6 DEF Heartbeat
  <2>3. ConsoleTypeOK'
    BY <1>6, <2>1, <2>2, AppendToWaiting DEF Heartbeat, ConsoleInv, ConsoleTypeOK, Pids
  <2>4. ASSUME NEW n \in DOMAIN waiting', waiting'[n] \in Ended
        PROVE  n \in DOMAIN waiting /\ waiting'[n] = waiting[n]
    BY <2>1, <2>2, <2>4, AppendToWaiting DEF ConsoleInv, ConsoleTypeOK, Ended
  <2>5. QED
    BY <1>6, <2>3, <2>4 DEF Heartbeat, ConsoleInv, PidsInv, ProcessesAreNotLost, Ended
<1>7. CASE HandleMessage
  <2>1. waiting \in Seq(Messages) /\ waiting # << >> /\ waiting' = Tail(waiting)
    BY <1>7 DEF HandleMessage, ConsoleInv, ConsoleTypeOK
  <2>2. \A n \in DOMAIN waiting' : n + 1 \in DOMAIN waiting /\ waiting'[n] = waiting[n + 1]
    BY <2>1, TailOfWaiting
  <2>3. \A n \in DOMAIN waiting' : waiting'[n] \in Ended =>
            waiting'[n].pid \in (1 .. pidsGiven) \ (RunningProcesses \cup stopped)
    BY <2>2 DEF ConsoleInv, PidsInv, Ended
  <2>4. CASE Head(waiting).kind \in {"complete", "failed"} /\ OnEnded(Head(waiting))
    <3>1. Head(waiting) \in Ended /\ Head(waiting) = waiting[1] /\ 1 \in DOMAIN waiting
      BY <2>1, <2>4, TailOfWaiting DEF Ended
    <3>2. Head(waiting).pid \in (1 .. pidsGiven) \ (RunningProcesses \cup stopped)
      BY <3>1 DEF ConsoleInv, PidsInv
    <3>3. /\ CurrentPid' = 0 /\ displayed' = displayed \cup {Head(waiting).pid}
          /\ UNCHANGED <<isOpen, pidsGiven, RunningProcesses, alive, heartbeat, stopped, rogue>>
      BY <1>7, <2>4 DEF HandleMessage, OnEnded
    <3>4. Head(waiting).pid \in Pids \ (RunningProcesses \cup stopped)
      BY <3>2, ConsoleAssumption DEF ConsoleInv, ConsoleTypeOK, Pids
    <3>5. ConsoleTypeOK'
      BY <2>1, <3>3, <3>4, TailOfWaiting, ConsoleAssumption DEF ConsoleInv, ConsoleTypeOK
    <3>6. PidsInv'
      BY <2>3, <3>2, <3>3 DEF ConsoleInv, PidsInv, ProcessesAreNotLost
    <3>7. QED
      BY <3>5, <3>6 DEF ConsoleInv
  <2>5. CASE UNCHANGED <<CurrentPid, displayed>>
    BY <1>7, <2>1, <2>3, <2>5, TailOfWaiting
       DEF HandleMessage, ConsoleInv, ConsoleTypeOK, PidsInv, ProcessesAreNotLost, Pids
  <2>6. QED
    BY <1>7, <2>4, <2>5 DEF HandleMessage
<1>8. CASE UNCHANGED consoleVars
  BY <1>8 DEF consoleVars, ConsoleInv, ConsoleTypeOK, PidsInv, ProcessesAreNotLost, Ended
<1>9. QED
  BY <1>1, <1>2, <1>3, <1>4, <1>5, <1>6, <1>7, <1>8 DEF ConsoleNext

LEMMA ConsoleInvInvariant == ConsoleSpec => []ConsoleInv
<1>1. ConsoleInv /\ [ConsoleNext]_consoleVars => ConsoleInv'
  BY ConsoleInvStep
<1>2. QED
  BY <1>1, ConsoleInvInit, PTL DEF ConsoleSpec

\* Every variable has its type; with it, that a process is not at once running,
\* shown and stopped.
THEOREM ConsoleTypeCorrect == ConsoleSpec => []ConsoleTypeOK
<1>1. ConsoleInv => ConsoleTypeOK
  BY DEF ConsoleInv
<1>2. QED
  BY <1>1, ConsoleInvInvariant, PTL

\* Whatever commands end, are stopped and forgotten, and whichever signals end the
\* process they are sent to: a process that lives is one that closing the window
\* sends a signal to, or it was sent one and reported; one that outlives the
\* window was sent a signal.
THEOREM NoProcessIsLost == ConsoleSpec => []ProcessesAreNotLost
<1>1. ConsoleInv => ProcessesAreNotLost
  BY DEF ConsoleInv, PidsInv
<1>2. QED
  BY <1>1, ConsoleInvInvariant, PTL

-----------------------------------------------------------------------------
(***************************************************************************)
(* The check for modified files.                                           *)
(***************************************************************************)

\* The time kept for a page is that of its file, unless another program wrote it.
TimesInv ==
    \A f \in DOMAIN openedTime : fileTime[f] \notin {0, openedTime[f]} => f \in foreign

\* A poll looks at each file once; what it has yet to look at, and what it has
\* found, holds as long as the editor does not touch the file.
PollInv(p) ==
    /\ p.modified \cap p.deleted = {} /\ (p.modified \cup p.deleted) \cap DOMAIN p.todo = {}
    /\ \A f \in DOMAIN openedTime \ p.touched :
           /\ f \in DOMAIN p.todo => p.todo[f] = openedTime[f]
           /\ f \in p.modified => f \in foreign

CheckInv ==
    /\ CheckTypeOK
    /\ TimesInv
    /\ \A p \in polls \cup pollEvents : PollInv(p)
    /\ PromptsAreTrue

-----------------------------------------------------------------------------
LEMMA TimeOfIsFunction ==
    ASSUME NEW t \in TimeOf
    PROVE  DOMAIN t \subseteq CheckedFiles /\ t \in [DOMAIN t -> Times]
BY DEF TimeOf

LEMMA FunctionIsTimeOf ==
    ASSUME NEW D, NEW t \in [D -> Times], D \subseteq CheckedFiles
    PROVE  t \in TimeOf
<1>1. D \in SUBSET CheckedFiles
  OBVIOUS
<1>2. QED
  BY <1>1 DEF TimeOf

LEMMA CheckInvInit == CheckInit => CheckInv
<1> SUFFICES ASSUME CheckInit PROVE CheckInv
  OBVIOUS
<1>1. 0 \in Times /\ 1 \in Times /\ 0 \in 0 .. MaxPolls
  BY CheckAssumption DEF Times
<1>2. DOMAIN openedTime = {} /\ dialogs = << >>
  BY DEF CheckInit
<1>3. openedTime \in [{} -> Times]
  BY <1>2 DEF CheckInit
<1>4. openedTime \in TimeOf
  BY <1>3, FunctionIsTimeOf
<1>5. CheckTypeOK
  BY <1>1, <1>2, <1>4 DEF CheckInit, CheckTypeOK
<1>6. TimesInv /\ PromptsAreTrue
  BY <1>2 DEF TimesInv, PromptsAreTrue
<1>7. \A p \in polls \cup pollEvents : PollInv(p)
  BY DEF CheckInit
<1>8. QED
  BY <1>5, <1>6, <1>7 DEF CheckInv

\* A poll that was told of what the editor touched is a poll, and what it holds is
\* as true as before.
LEMMA TouchedPolls ==
    ASSUME NEW ps \in SUBSET Polls, NEW fs \in SUBSET CheckedFiles
    PROVE  Touched(ps, fs) \in SUBSET Polls
<1> SUFFICES ASSUME NEW q \in ps
             PROVE  [q EXCEPT !.touched = @ \cup fs, !.changed = @ \ fs] \in Polls
  BY DEF Touched
<1>1. /\ q.id \in 1 .. MaxPolls /\ q.todo \in TimeOf
      /\ q.modified \subseteq CheckedFiles /\ q.deleted \subseteq CheckedFiles
      /\ q.touched \cup fs \subseteq CheckedFiles /\ q.changed \ fs \subseteq CheckedFiles
  BY DEF Polls
<1>2. QED
  BY <1>1 DEF Polls

LEMMA TouchedKeepsPollInv ==
    ASSUME CheckInv, NEW fs \in SUBSET CheckedFiles,
           NEW ps \in SUBSET Polls, ps \subseteq polls \cup pollEvents,
           \A f \in DOMAIN openedTime' \ fs : f \in DOMAIN openedTime /\ openedTime'[f] = openedTime[f],
           foreign \ fs \subseteq foreign'
    PROVE  \A p \in Touched(ps, fs) : PollInv(p)'
<1> SUFFICES ASSUME NEW q \in ps
             PROVE  PollInv([q EXCEPT !.touched = @ \cup fs, !.changed = @ \ fs])'
  BY DEF Touched
<1> DEFINE p == [q EXCEPT !.touched = @ \cup fs, !.changed = @ \ fs]
<1>1. p.touched = q.touched \cup fs /\ p.todo = q.todo /\ p.modified = q.modified /\ p.deleted = q.deleted
  BY DEF Polls
<1>2. PollInv(q)
  BY DEF CheckInv
<1> HIDE DEF p
<1>3. PollInv(p)'
  BY <1>1, <1>2 DEF PollInv
<1>4. QED
  BY <1>3 DEF p

\* The editor opens, closes, saves or reads one file, by its menu: no dialog is
\* open, and every check is told.
LEMMA MenuKeepsCheckInv ==
    ASSUME CheckInv, NEW f \in CheckedFiles, Menu, Touches({f}),
           \A g \in DOMAIN openedTime' \ {f} :
               g \in DOMAIN openedTime /\ openedTime'[g] = openedTime[g] /\ fileTime'[g] = fileTime[g],
           f \in DOMAIN openedTime' => fileTime'[f] \in {0, openedTime'[f]},
           fileTime' \in [CheckedFiles -> Times], now' \in Times, openedTime' \in TimeOf
    PROVE  CheckInv'
<1>1. CheckTypeOK'
  <2>1. polls' \in SUBSET Polls /\ pollEvents' \in SUBSET Polls
    BY TouchedPolls DEF Touches, CheckInv, CheckTypeOK
  <2>2. QED
    BY <2>1 DEF Touches, Menu, CheckInv, CheckTypeOK
<1>2. TimesInv'
  BY DEF CheckInv, TimesInv, Touches
<1>3. \A p \in polls' \cup pollEvents' : PollInv(p)'
  <2>1. \A p \in Touched(polls, {f}) : PollInv(p)'
    BY TouchedKeepsPollInv DEF CheckInv, CheckTypeOK, Touches
  <2>2. \A p \in Touched(pollEvents, {f}) : PollInv(p)'
    BY TouchedKeepsPollInv DEF CheckInv, CheckTypeOK, Touches
  <2>3. QED
    BY <2>1, <2>2 DEF Touches
<1>4. PromptsAreTrue'
  BY DEF Menu, PromptsAreTrue
<1>5. QED
  BY <1>1, <1>2, <1>3, <1>4 DEF CheckInv

\* A file of a poll is looked at.
LEMMA CheckedPoll ==
    ASSUME CheckInv, NEW p \in polls, NEW f \in DOMAIN p.todo
    PROVE  Checked(p, f) \in Polls /\ PollInv(Checked(p, f))
<1> DEFINE q == Checked(p, f)
           left == [g \in DOMAIN p.todo \ {f} |-> p.todo[g]]
           found == {g \in {f} : fileTime[f] \notin {0, p.todo[f]}}
<1>1. p \in Polls /\ p.todo \in TimeOf /\ PollInv(p) /\ TimesInv
  BY DEF CheckInv, CheckTypeOK, Polls
<1>2. DOMAIN p.todo \subseteq CheckedFiles /\ p.todo \in [DOMAIN p.todo -> Times]
  BY <1>1, TimeOfIsFunction
<1>3. left \in [DOMAIN p.todo \ {f} -> Times]
  BY <1>2
<1>4. left \in TimeOf
  BY <1>2, <1>3, FunctionIsTimeOf
<1>5. /\ q.todo = left /\ q.touched = p.touched /\ q.modified = p.modified \cup found
      /\ q.deleted = p.deleted \cup {g \in {f} : fileTime[f] = 0}
  BY <1>1 DEF Checked, Polls
<1>6. q \in Polls
  BY <1>1, <1>2, <1>4 DEF Checked, Polls
<1>7. PollInv(q)
  <2>5. /\ q.modified \cap q.deleted = {}
        /\ (q.modified \cup q.deleted) \cap DOMAIN q.todo = {}
    BY <1>1, <1>5 DEF PollInv
  <2> SUFFICES ASSUME NEW g \in DOMAIN openedTime \ p.touched
               PROVE  /\ g \in DOMAIN left => left[g] = openedTime[g]
                      /\ g \in p.modified \cup found => g \in foreign
    BY <1>5, <2>5 DEF PollInv
  <2>1. g \in DOMAIN left => left[g] = openedTime[g]
    BY <1>1 DEF PollInv
  <2>2. g \in p.modified => g \in foreign
    BY <1>1 DEF PollInv
  <2>3. g \in found => g \in foreign
    BY <1>1 DEF PollInv, TimesInv
  <2>4. QED
    BY <2>1, <2>2, <2>3
<1>8. QED
  BY <1>6, <1>7

\* The result of a poll is handled: a dialog is opened in front of the others, or
\* the files that are gone lose their pages.
LEMMA HandledPoll ==
    ASSUME CheckInv, NEW p \in pollEvents, OnFileModifiedPollComplete(p)
    PROVE  CheckInv'
<1> DEFINE modified == ModifiedToPrompt(p)
           deleted == DeletedToPrompt(p)
           d == [modified |-> modified, deleted |-> deleted, touched |-> p.touched]
<1>1. /\ p \in Polls /\ PollInv(p) /\ openedTime \in TimeOf
      /\ modified \subseteq CheckedFiles /\ deleted \subseteq CheckedFiles
  BY DEF CheckInv, CheckTypeOK, Polls, ModifiedToPrompt, DeletedToPrompt
<1>2. CASE modified # {}
  <2>1. /\ dialogs' = <<d>> \o dialogs /\ pollEvents' = pollEvents \ {p}
        /\ UNCHANGED <<openedTime, polls, foreign, lost, fileTime, now, activations>>
    BY <1>2 DEF OnFileModifiedPollComplete
  <2>2. d \in Dialogs
    BY <1>1 DEF Dialogs, Polls
  <2>3. /\ dialogs' \in Seq(Dialogs)
        /\ \A i \in DOMAIN dialogs' :
               dialogs'[i] = d \/ \E j \in DOMAIN dialogs : dialogs'[i] = dialogs[j]
    <3>1. <<d>> \in Seq(Dialogs) /\ dialogs \in Seq(Dialogs)
      BY <2>2 DEF CheckInv, CheckTypeOK
    <3>2. dialogs' \in Seq(Dialogs)
      BY <2>1, <3>1
    <3> HIDE DEF d
    <3>3. Len(<<d>>) = 1 /\ <<d>>[1] = d
      OBVIOUS
    <3>4. ASSUME NEW i \in DOMAIN dialogs'
          PROVE  dialogs'[i] = d \/ \E j \in DOMAIN dialogs : dialogs'[i] = dialogs[j]
      <4>1. i \in 1 .. Len(dialogs) + 1
        BY <2>1, <3>1, <3>3
      <4>2. CASE i = 1
        BY <2>1, <3>1, <3>3, <4>2
      <4>3. CASE i > 1
        <5>1. i - 1 \in DOMAIN dialogs /\ dialogs'[i] = dialogs[i - 1]
          BY <2>1, <3>1, <3>3, <4>1, <4>3
        <5>2. QED
          BY <5>1
      <4>4. QED
        BY <4>1, <4>2, <4>3
    <3>5. QED
      BY <3>2, <3>4
  <2>4. d.modified # {} /\ d.modified \cap d.deleted = {}
    BY <1>1, <1>2 DEF PollInv, ModifiedToPrompt, DeletedToPrompt
  <2>5. QED
    BY <2>1, <2>3, <2>4, <1>1 DEF CheckInv, CheckTypeOK, TimesInv, PollInv, PromptsAreTrue, IsOpen, ModifiedToPrompt
<1>3. CASE modified = {}
  <2>1. /\ openedTime' = Detach(deleted)
        /\ polls' = Touched(polls, deleted) /\ pollEvents' = Touched(pollEvents \ {p}, deleted)
        /\ foreign' = foreign \ deleted
        /\ UNCHANGED <<dialogs, lost, fileTime, now, activations>>
    BY <1>3 DEF OnFileModifiedPollComplete
  <2>2. openedTime \in [DOMAIN openedTime -> Times] /\ DOMAIN openedTime \subseteq CheckedFiles
    BY <1>1, TimeOfIsFunction
  <2>3. openedTime' \in [DOMAIN openedTime \ deleted -> Times]
    BY <2>1, <2>2 DEF Detach
  <2>4. openedTime' \in TimeOf
    BY <2>2, <2>3, FunctionIsTimeOf
  <2>5. \A f \in DOMAIN openedTime' :
            f \in DOMAIN openedTime \ deleted /\ openedTime'[f] = openedTime[f]
    BY <2>1 DEF Detach
  <2>6. /\ polls' \in SUBSET Polls /\ pollEvents' \in SUBSET Polls
        /\ \A q \in polls' \cup pollEvents' : PollInv(q)'
    <3>1. polls \in SUBSET Polls /\ pollEvents \ {p} \in SUBSET Polls
      BY DEF CheckInv, CheckTypeOK
    <3>2. polls' \in SUBSET Polls /\ pollEvents' \in SUBSET Polls
      BY <1>1, <2>1, <3>1, TouchedPolls
    <3>3. \A q \in polls' : PollInv(q)'
      BY <1>1, <2>1, <2>5, <3>1, TouchedKeepsPollInv
    <3>4. \A q \in pollEvents' : PollInv(q)'
      BY <1>1, <2>1, <2>5, <3>1, TouchedKeepsPollInv
    <3>5. QED
      BY <3>2, <3>3, <3>4
  <2>7. CheckTypeOK'
    BY <1>1, <2>1, <2>4, <2>6 DEF CheckInv, CheckTypeOK
  <2>8. TimesInv' /\ PromptsAreTrue'
    BY <2>1, <2>5 DEF CheckInv, TimesInv, PromptsAreTrue, IsOpen
  <2>9. QED
    BY <2>6, <2>7, <2>8 DEF CheckInv
<1>4. QED
  BY <1>2, <1>3

\* A dialog is answered: what it asked about counts as touched for all others.
LEMMA AnsweredDialog ==
    ASSUME CheckInv, NEW reload, FilesModifiedPrompt(reload)
    PROVE  CheckInv'
<1> DEFINE d == Head(dialogs)
           asked == d.modified \cap DOMAIN openedTime
           fs == asked \cup d.deleted
<1>1. /\ dialogs \in Seq(Dialogs) /\ dialogs # << >> /\ openedTime \in TimeOf
      /\ fileTime \in [CheckedFiles -> Times]
  BY DEF CheckInv, CheckTypeOK, FilesModifiedPrompt
<1>2. d \in Dialogs /\ 1 \in DOMAIN dialogs /\ d = dialogs[1] /\ Len(dialogs) \in Nat \ {0}
  BY <1>1
<1>3. /\ DOMAIN openedTime' = DOMAIN openedTime \ d.deleted
      /\ \A f \in DOMAIN openedTime' :
             openedTime'[f] = IF f \notin asked THEN openedTime[f]
                              ELSE IF f \in reload THEN Reverted(f, openedTime[f]) ELSE fileTime[f]
      /\ openedTime' = [f \in DOMAIN openedTime' |-> openedTime'[f]]
      /\ Touches(fs) /\ UNCHANGED <<fileTime, now, activations>>
      /\ dialogs' = [i \in 1 .. Len(dialogs) - 1 |->
                        [dialogs[i + 1] EXCEPT !.touched = @ \cup d.modified]]
  BY DEF FilesModifiedPrompt
<1>4. openedTime \in [DOMAIN openedTime -> Times] /\ DOMAIN openedTime \subseteq CheckedFiles
  BY <1>1, TimeOfIsFunction
<1>5. d.modified \subseteq CheckedFiles /\ d.deleted \subseteq CheckedFiles
  BY <1>2 DEF Dialogs
<1> HIDE DEF d
<1>6. openedTime' \in TimeOf
  <2>1. openedTime' \in [DOMAIN openedTime \ d.deleted -> Times]
    BY <1>1, <1>3, <1>4 DEF Reverted
  <2>2. QED
    BY <1>4, <2>1, FunctionIsTimeOf
<1>7. /\ polls' \in SUBSET Polls /\ pollEvents' \in SUBSET Polls
      /\ \A q \in polls' \cup pollEvents' : PollInv(q)'
  <2>1. polls \in SUBSET Polls /\ pollEvents \in SUBSET Polls /\ fs \in SUBSET CheckedFiles
    BY <1>5 DEF CheckInv, CheckTypeOK
  <2>2. polls' \in SUBSET Polls /\ pollEvents' \in SUBSET Polls
    BY <1>3, <2>1, TouchedPolls DEF Touches
  <2>3. \A f \in DOMAIN openedTime' \ fs : f \in DOMAIN openedTime /\ openedTime'[f] = openedTime[f]
    BY <1>3
  <2>4. \A q \in polls' : PollInv(q)'
    BY <1>3, <2>1, <2>3, TouchedKeepsPollInv DEF Touches
  <2>5. \A q \in pollEvents' : PollInv(q)'
    BY <1>3, <2>1, <2>3, TouchedKeepsPollInv DEF Touches
  <2>6. QED
    BY <2>2, <2>4, <2>5
<1>8. /\ dialogs' \in Seq(Dialogs)
      /\ \A i \in DOMAIN dialogs' :
             \E j \in DOMAIN dialogs :
                 /\ dialogs'[i].modified = dialogs[j].modified
                 /\ dialogs'[i].deleted = dialogs[j].deleted
                 /\ dialogs'[i].touched = dialogs[j].touched \cup d.modified
  <2>1. ASSUME NEW i \in 1 .. Len(dialogs) - 1
        PROVE  /\ i + 1 \in DOMAIN dialogs
               /\ dialogs[i + 1] \in Dialogs
               /\ [dialogs[i + 1] EXCEPT !.touched = @ \cup d.modified] \in Dialogs
    <3>1. i + 1 \in DOMAIN dialogs /\ dialogs[i + 1] \in Dialogs
      BY <1>1, <1>2
    <3>2. QED
      BY <1>5, <3>1 DEF Dialogs
  <2>2. dialogs' \in Seq(Dialogs) /\ DOMAIN dialogs' = 1 .. Len(dialogs) - 1
    BY <1>2, <1>3, <2>1
  <2>3. QED
    BY <1>3, <2>1, <2>2 DEF Dialogs
<1>9. CheckTypeOK'
  <2>1. \A i \in DOMAIN dialogs' :
            dialogs'[i].modified # {} /\ dialogs'[i].modified \cap dialogs'[i].deleted = {}
    BY <1>8 DEF CheckInv, CheckTypeOK
  <2>2. (foreign \cup lost)' \subseteq CheckedFiles
    BY <1>3 DEF CheckInv, CheckTypeOK, Touches
  <2>3. fileTime' = fileTime /\ now' = now /\ activations' = activations
    BY <1>3
  <2>4. QED
    BY <1>6, <1>7, <1>8, <2>1, <2>2, <2>3 DEF CheckInv, CheckTypeOK
<1>10. TimesInv'
  BY <1>3 DEF CheckInv, TimesInv, Touches, Reverted
<1>11. PromptsAreTrue'
  BY <1>3, <1>8 DEF CheckInv, PromptsAreTrue, IsOpen, Touches
<1>12. QED
  BY <1>7, <1>9, <1>10, <1>11 DEF CheckInv

LEMMA CheckInvStep ==
    ASSUME CheckInv, [CheckNext]_checkVars
    PROVE  CheckInv'
<1> USE DEF CheckInv
<1>1. /\ fileTime \in [CheckedFiles -> Times] /\ now \in Times /\ openedTime \in TimeOf
      /\ openedTime \in [DOMAIN openedTime -> Times] /\ DOMAIN openedTime \subseteq CheckedFiles
      /\ 0 \in Times /\ MaxTime \in Nat
  BY TimeOfIsFunction, CheckAssumption DEF CheckTypeOK, Times
<1>2. Tick => now' \in Times \ {0}
  BY <1>1 DEF Tick, Times
<1>3. ASSUME NEW f \in CheckedFiles, OtherWrites(f)
      PROVE  CheckInv'
  BY <1>1, <1>2, <1>3 DEF OtherWrites, CheckTypeOK, TimesInv, PollInv, PromptsAreTrue, IsOpen
<1>4. ASSUME NEW f \in CheckedFiles, OtherDeletes(f)
      PROVE  CheckInv'
  BY <1>1, <1>4 DEF OtherDeletes, CheckTypeOK, TimesInv, PollInv, PromptsAreTrue, IsOpen
<1>5. ASSUME NEW f \in CheckedFiles, OpenFile(f)
      PROVE  CheckInv'
  <2>1. openedTime' \in [DOMAIN openedTime \cup {f} -> Times]
    BY <1>1, <1>5 DEF OpenFile
  <2>2. openedTime' \in TimeOf
    BY <1>1, <2>1, FunctionIsTimeOf
  <2>3. QED
    BY <1>1, <1>5, <2>2, MenuKeepsCheckInv DEF OpenFile
<1>6. ASSUME NEW f \in CheckedFiles, CloseFile(f)
      PROVE  CheckInv'
  <2>1. openedTime' \in [DOMAIN openedTime \ {f} -> Times]
    BY <1>1, <1>6 DEF CloseFile
  <2>2. openedTime' \in TimeOf
    BY <1>1, <2>1, FunctionIsTimeOf
  <2>3. QED
    BY <1>1, <1>6, <2>2, MenuKeepsCheckInv DEF CloseFile
<1>7. ASSUME NEW f \in CheckedFiles, SaveFile(f)
      PROVE  CheckInv'
  <2>1. openedTime' \in [DOMAIN openedTime -> Times]
    BY <1>1, <1>2, <1>7 DEF SaveFile
  <2>2. openedTime' \in TimeOf
    BY <1>1, <2>1, FunctionIsTimeOf
  <2>3. QED
    BY <1>1, <1>2, <1>7, <2>2, MenuKeepsCheckInv DEF SaveFile
<1>8. ASSUME NEW f \in CheckedFiles, RevertFile(f)
      PROVE  CheckInv'
  <2>1. openedTime' \in [DOMAIN openedTime -> Times]
    BY <1>1, <1>8 DEF RevertFile, Reverted
  <2>2. openedTime' \in TimeOf
    BY <1>1, <2>1, FunctionIsTimeOf
  <2>3. fileTime'[f] \in {0, openedTime'[f]}
    BY <1>1, <1>8 DEF RevertFile, Reverted, IsOpen
  <2>4. QED
    BY <1>1, <1>8, <2>2, <2>3, MenuKeepsCheckInv DEF RevertFile
<1>9. CASE OnActivateApp
  <2> DEFINE p == [id |-> activations', todo |-> openedTime, modified |-> {}, deleted |-> {},
                   touched |-> {}, changed |-> foreign \cap DOMAIN openedTime]
  <2>1. MaxPolls \in Nat /\ activations' \in 1 .. MaxPolls
    BY <1>9, CheckAssumption DEF OnActivateApp, CheckTypeOK
  <2>2. p \in Polls
    BY <1>1, <2>1 DEF Polls
  <2>3. PollInv(p)
    BY DEF PollInv
  <2> HIDE DEF p
  <2>4. /\ polls' = polls \cup {p}
        /\ UNCHANGED <<fileTime, now, openedTime, pollEvents, dialogs, foreign, lost>>
    BY <1>9 DEF OnActivateApp, p
  <2>5. QED
    BY <2>1, <2>2, <2>3, <2>4 DEF CheckTypeOK, TimesInv, PollInv, PromptsAreTrue, IsOpen
<1>10. CASE StopPolls
  <2>1. UNION {p.changed : p \in polls} \subseteq CheckedFiles
    BY DEF CheckTypeOK, Polls
  <2>2. QED
    BY <1>10, <2>1 DEF StopPolls, Menu, CheckTypeOK, TimesInv, PollInv, PromptsAreTrue, IsOpen
<1>11. ASSUME NEW p \in polls, PostPoll(p)
       PROVE  CheckInv'
  BY <1>11 DEF PostPoll, CheckTypeOK, TimesInv, PollInv, PromptsAreTrue, IsOpen
<1>12. ASSUME NEW p \in polls, NEW f \in DOMAIN p.todo, CheckNextFile(p, f)
       PROVE  CheckInv'
  <2>1. Checked(p, f) \in Polls /\ PollInv(Checked(p, f))
    BY CheckedPoll
  <2>2. /\ polls' = (polls \ {p}) \cup {Checked(p, f)}
        /\ UNCHANGED <<fileTime, now, openedTime, activations, pollEvents, dialogs, foreign, lost>>
    BY <1>12 DEF CheckNextFile
  <2>3. QED
    BY <2>1, <2>2 DEF CheckTypeOK, TimesInv, PollInv, PromptsAreTrue, IsOpen
<1>13. CASE HandlePoll
  BY <1>13, HandledPoll DEF HandlePoll
<1>14. CASE AnswerDialog
  BY <1>14, AnsweredDialog DEF AnswerDialog
<1>15. CASE UNCHANGED checkVars
  BY <1>15 DEF checkVars, CheckTypeOK, TimesInv, PollInv, PromptsAreTrue, IsOpen
<1>16. QED
  BY <1>3, <1>4, <1>5, <1>6, <1>7, <1>8, <1>9, <1>10, <1>11, <1>12, <1>13, <1>14, <1>15
     DEF CheckNext, CheckPoll

-----------------------------------------------------------------------------
LEMMA CheckInvHolds == CheckSpec => []CheckInv
BY CheckInvInit, CheckInvStep, PTL DEF CheckSpec

\* The state of the check has its types: times, polls, events and nested dialogs,
\* for any number of files, activations and writes.
THEOREM CheckTypeCorrect == CheckSpec => []CheckTypeOK
BY CheckInvHolds, PTL DEF CheckInv

\* No dialog tells the user of a change that nobody but the editor has made, however
\* polls, dialogs in front of others, saves and writes of other programs interleave.
THEOREM PromptsStayTrue == CheckSpec => []PromptsAreTrue
BY CheckInvHolds, PTL DEF CheckInv

-----------------------------------------------------------------------------
(***************************************************************************)
(* The symbol tables of the pages.                                         *)
(***************************************************************************)

\* A builder that will post a symbol table of page b, and such a table on its way.
Builds(j, b) == j.kind = "build" /\ j.buffer = b /\ ~j.done /\ j.text \notin BrokenTexts
Brings(n, b) == n.kind = "cache" /\ n.buffer = b

\* The last symbol table that is under way for a page, in the pool or behind it, or
\* the one that is registered, is that of the text which was handed over last.
LastIsBuilt(b) ==
    \E i \in DOMAIN jobs :
        /\ Builds(jobs[i], b) /\ jobs[i].text = handed[b]
        /\ \A k \in DOMAIN jobs : k > i => ~Builds(jobs[k], b)

LastIsBrought(b) ==
    /\ \A i \in DOMAIN jobs : ~Builds(jobs[i], b)
    /\ \E i \in DOMAIN notices :
           /\ Brings(notices[i], b) /\ notices[i].text = handed[b]
           /\ \A k \in DOMAIN notices : k > i => ~Brings(notices[k], b)

LastIsRegistered(b) ==
    /\ \A i \in DOMAIN jobs : ~Builds(jobs[i], b)
    /\ \A i \in DOMAIN notices : ~Brings(notices[i], b)
    /\ b \in DOMAIN caches /\ caches[b] = handed[b]

LastIsHanded(b) ==
    IsOpenBuffer(b) /\ b \notin bereft /\ handed[b] # 0 =>
        LastIsBuilt(b) \/ LastIsBrought(b) \/ LastIsRegistered(b)

\* Builders and symbol tables of a page that is not open are known to be strays.
WorkHasPage ==
    /\ \A i \in DOMAIN jobs : jobs[i].kind = "build" => IsOpenBuffer(jobs[i].buffer) \/ jobs[i].buffer \in strays
    /\ \A i \in DOMAIN notices : notices[i].kind = "cache" => IsOpenBuffer(notices[i].buffer) \/ notices[i].buffer \in strays
    /\ \A b \in DOMAIN caches : IsOpenBuffer(b) \/ b \in strays

\* The types of the pages, and of what the pool has and posts.
PageTypes ==
    /\ buffer \in [Buffers -> {"none", "new", "file", "gone"}]
    /\ {text, newest, saved, handed} \subseteq [Buffers -> TextNumbers]
    /\ shown \in Buffers => IsOpenBuffer(shown)
    /\ shown \in Buffers \cup {NoBuffer}
    /\ touched \cup bereft \cup strays \subseteq Buffers

JobTypes ==
    /\ jobs \in Seq(Jobs) /\ Len(jobs) <= MaxJobs
    /\ \A i \in DOMAIN jobs : (jobs[i].begun => i = 1) /\ (jobs[i].done => jobs[i].begun)

TagTypes ==
    /\ caches \in UNION {[bs -> TextNumbers] : bs \in SUBSET Buffers}
    /\ rows \in [Names -> [tags : TextNumbers, time : TextNumbers]]

CacheInv == CacheTypeOK /\ WorkHasPage /\ \A b \in Buffers : LastIsHanded(b)

-----------------------------------------------------------------------------
LEMMA TypesInParts ==
    CacheTypeOK <=>
        /\ PageTypes /\ JobTypes /\ TagTypes
        /\ notices \in Seq(Notices) /\ wipes \in 0 .. MaxWipes
        /\ reparseTimer \in BOOLEAN /\ indexing \in BOOLEAN
BY CacheAssumption DEF CacheTypeOK, PageTypes, JobTypes, TagTypes, IsOpenBuffer

LEMMA TypesTogether ==
    ASSUME PageTypes', JobTypes', TagTypes', notices' \in Seq(Notices), wipes' \in 0 .. MaxWipes,
           reparseTimer' \in BOOLEAN, indexing' \in BOOLEAN
    PROVE  CacheTypeOK'
BY CacheAssumption DEF CacheTypeOK, PageTypes, JobTypes, TagTypes, IsOpenBuffer

LEMMA CacheInvImpliesCurrent == CacheInv => CachesAreCurrent
<1> SUFFICES ASSUME CacheInv PROVE CachesAreCurrent
  OBVIOUS
<1>1. ASSUME NEW b \in Buffers, IsOpenBuffer(b), b \notin bereft, ~UnderWay(b), handed[b] # 0
      PROVE  b \in DOMAIN caches /\ caches[b] = handed[b]
  BY <1>1 DEF CacheInv, LastIsHanded, LastIsBuilt, LastIsBrought, LastIsRegistered, UnderWay, Builds, Brings
<1>2. QED
  BY <1>1 DEF CacheInv, WorkHasPage, CachesAreCurrent

LEMMA CacheInvInit == CacheInit => CacheInv
<1> SUFFICES ASSUME CacheInit PROVE CacheInv
  OBVIOUS
<1>1. MaxTexts \in Nat \ {0} /\ 0 \in TextNumbers /\ 1 \in TextNumbers
  BY CacheAssumption DEF TextNumbers
<1>2. DOMAIN jobs = {} /\ DOMAIN notices = {} /\ DOMAIN caches = {} /\ caches \in [{} -> TextNumbers]
  BY DEF CacheInit
<1>3. caches \in UNION {[bs -> TextNumbers] : bs \in SUBSET Buffers}
  <2>1. {} \in SUBSET Buffers
    OBVIOUS
  <2>2. QED
    BY <1>2, <2>1
<1>4. rows \in [Names -> [tags : TextNumbers, time : TextNumbers]]
  BY <1>1 DEF CacheInit, NoTags
<1>5. {text, newest, saved, handed} \subseteq [Buffers -> TextNumbers] /\ buffer \in [Buffers -> {"none", "new", "file", "gone"}]
  BY <1>1 DEF CacheInit
<1>6. jobs \in Seq(Jobs) /\ Len(jobs) <= MaxJobs /\ notices \in Seq(Notices)
  BY CacheAssumption DEF CacheInit
<1>7. CacheTypeOK
  <2>1. shown = NoBuffer /\ wipes = 0 /\ wipes \in 0 .. MaxWipes
    BY CacheAssumption DEF CacheInit
  <2>2. JobTypes
    BY <1>2, <1>6 DEF JobTypes
  <2>3. PageTypes
    BY <1>5, <2>1, CacheAssumption DEF PageTypes, CacheInit
  <2>4. TagTypes
    BY <1>3, <1>4 DEF TagTypes
  <2>5. reparseTimer \in BOOLEAN /\ indexing \in BOOLEAN
    BY DEF CacheInit
  <2>6. QED
    BY <1>6, <2>1, <2>2, <2>3, <2>4, <2>5, TypesInParts
<1>8. WorkHasPage /\ \A b \in Buffers : LastIsHanded(b)
  BY <1>2 DEF WorkHasPage, LastIsHanded, CacheInit, IsOpenBuffer
<1>9. QED
  BY <1>7, <1>8 DEF CacheInv

-----------------------------------------------------------------------------
(***************************************************************************)
(* Jobs that are queued.                                                   *)
(***************************************************************************)

LEMMA JobIsAdded ==
    ASSUME JobTypes, NEW job \in Jobs, ~job.begun, ~job.done, QueueJob(job)
    PROVE  /\ JobTypes'
           /\ Len(jobs') = Len(jobs) + 1 /\ Len(jobs) \in Nat
           /\ DOMAIN jobs = 1 .. Len(jobs) /\ DOMAIN jobs' = 1 .. Len(jobs')
           /\ \A i \in DOMAIN jobs : jobs'[i] = jobs[i]
           /\ jobs'[Len(jobs')] = job
<1>1. jobs \in Seq(Jobs) /\ MaxJobs \in Nat /\ jobs' = Append(jobs, job) /\ Len(jobs) < MaxJobs
  BY CacheAssumption DEF JobTypes, QueueJob
<1>2. /\ jobs' \in Seq(Jobs)
      /\ Len(jobs') = Len(jobs) + 1 /\ Len(jobs) \in Nat
      /\ DOMAIN jobs = 1 .. Len(jobs) /\ DOMAIN jobs' = 1 .. Len(jobs')
      /\ \A i \in DOMAIN jobs : jobs'[i] = jobs[i]
      /\ jobs'[Len(jobs')] = job
  BY <1>1
<1>3. \A i \in DOMAIN jobs' : (jobs'[i].begun => i = 1) /\ (jobs'[i].done => jobs'[i].begun)
  <2>1. \A i \in DOMAIN jobs' : i \in DOMAIN jobs \/ i = Len(jobs')
    BY <1>2
  <2>2. QED
    BY <1>2, <2>1 DEF JobTypes
<1>4. QED
  BY <1>1, <1>2, <1>3 DEF JobTypes

LEMMA JobsAreJobs ==
    /\ \A b \in Buffers : Tagger(b) \in Jobs /\ ~Tagger(b).begun /\ ~Tagger(b).done /\ Tagger(b).kind = "tag"
    /\ Indexer \in Jobs /\ ~Indexer.begun /\ ~Indexer.done /\ Indexer.kind = "index"
BY DEF Tagger, Indexer, Jobs

\* A page keeps what is under way for it while jobs that build nothing for it are
\* queued.
LEMMA LastStays ==
    ASSUME JobTypes, NEW b, LastIsHanded(b),
           \/ UNCHANGED jobs
           \/ \E job \in Jobs : QueueJob(job) /\ ~job.begun /\ ~job.done /\ ~Builds(job, b),
           UNCHANGED notices,
           b \in DOMAIN caches => b \in DOMAIN caches' /\ caches'[b] = caches[b],
           IsOpenBuffer(b)' => IsOpenBuffer(b),
           b \in bereft => b \in bereft',
           handed'[b] = handed[b]
    PROVE  LastIsHanded(b)'
<1> SUFFICES ASSUME IsOpenBuffer(b), b \notin bereft, handed[b] # 0
             PROVE  (LastIsBuilt(b) \/ LastIsBrought(b) \/ LastIsRegistered(b))'
  BY DEF LastIsHanded
<1>1. CASE UNCHANGED jobs
  BY <1>1 DEF LastIsHanded, LastIsBuilt, LastIsBrought, LastIsRegistered, Builds, Brings
<1>2. ASSUME NEW job \in Jobs, QueueJob(job), ~job.begun, ~job.done, ~Builds(job, b)
      PROVE  (LastIsBuilt(b) \/ LastIsBrought(b) \/ LastIsRegistered(b))'
  <2>1. /\ \A i \in DOMAIN jobs : i \in DOMAIN jobs' /\ jobs'[i] = jobs[i]
        /\ \A i \in DOMAIN jobs' : i \in DOMAIN jobs \/ jobs'[i] = job
    BY <1>2, JobIsAdded
  <2>2. CASE LastIsBuilt(b)
    <3>1. PICK i \in DOMAIN jobs :
              /\ Builds(jobs[i], b) /\ jobs[i].text = handed[b]
              /\ \A k \in DOMAIN jobs : k > i => ~Builds(jobs[k], b)
      BY <2>2 DEF LastIsBuilt
    <3>2. \A k \in DOMAIN jobs' : k > i => ~Builds(jobs'[k], b)
      BY <1>2, <2>1, <3>1
    <3>3. LastIsBuilt(b)'
      BY <2>1, <3>1, <3>2 DEF LastIsBuilt, Builds
    <3>4. QED
      BY <3>3
  <2>3. CASE LastIsBrought(b)
    BY <1>2, <2>1, <2>3 DEF LastIsBrought, Builds, Brings
  <2>4. CASE LastIsRegistered(b)
    BY <1>2, <2>1, <2>4 DEF LastIsRegistered, Builds, Brings
  <2>5. QED
    BY <2>2, <2>3, <2>4 DEF LastIsHanded
<1>3. QED
  BY <1>1, <1>2

\* A page that hands its text to a builder: the builder is the last one.
LEMMA TextIsHanded ==
    ASSUME CacheInv, NEW b \in Buffers, NEW parse \in BOOLEAN, HandToBuilder(b, parse),
           buffer'[b] \in {"new", "file"}, text' \in [Buffers -> TextNumbers],
           \/ IsOpenBuffer(b)
           \/ text'[b] \notin BrokenTexts,
           \A c \in Buffers \ {b} : IsOpenBuffer(c)' <=> IsOpenBuffer(c)
    PROVE  /\ JobTypes' /\ handed' \in [Buffers -> TextNumbers] /\ bereft' \subseteq Buffers
           /\ \A c \in Buffers : LastIsHanded(c)'
           /\ WorkHasPage'
<1> DEFINE job == Builder(b, parse)
<1>0. PageTypes /\ JobTypes
  BY TypesInParts DEF CacheInv
<1>1. job = [kind |-> "build", begun |-> FALSE, done |-> FALSE, buffer |-> b, text |-> text'[b],
                           isNew |-> buffer'[b] = "new", doParseTags |-> parse]
  BY DEF Builder
<1>2. /\ job \in Jobs /\ ~job.begun /\ ~job.done /\ QueueJob(job)
      /\ job.kind = "build" /\ job.buffer = b /\ job.text = text'[b]
  <2>1. text'[b] \in TextNumbers /\ (buffer'[b] = "new") \in BOOLEAN
    OBVIOUS
  <2>2. job \in [kind : {"build"}, begun : BOOLEAN, done : BOOLEAN, buffer : Buffers,
                 text : TextNumbers, isNew : BOOLEAN, doParseTags : BOOLEAN]
    BY <1>1, <2>1
  <2>3. job \in Jobs
    BY <2>2 DEF Jobs
  <2>4. QueueJob(job)
    BY DEF HandToBuilder
  <2>5. QED
    BY <1>1, <2>3, <2>4
<1> HIDE DEF job
<1>3. /\ JobTypes' /\ Len(jobs') \in DOMAIN jobs' /\ jobs'[Len(jobs')] = job
      /\ \A i \in DOMAIN jobs' : i <= Len(jobs') /\ (jobs'[i] = job \/ (i \in DOMAIN jobs /\ jobs'[i] = jobs[i]))
  <2>1. /\ JobTypes'
        /\ Len(jobs') = Len(jobs) + 1 /\ Len(jobs) \in Nat
        /\ DOMAIN jobs = 1 .. Len(jobs) /\ DOMAIN jobs' = 1 .. Len(jobs')
        /\ \A i \in DOMAIN jobs : jobs'[i] = jobs[i]
        /\ jobs'[Len(jobs')] = job
    BY <1>0, <1>2, JobIsAdded
  <2>2. \A i \in DOMAIN jobs' : i <= Len(jobs') /\ (i = Len(jobs') \/ i \in DOMAIN jobs)
    BY <2>1
  <2>3. Len(jobs') \in DOMAIN jobs'
    BY <2>1
  <2>4. ASSUME NEW i \in DOMAIN jobs'
        PROVE  i <= Len(jobs') /\ (jobs'[i] = job \/ (i \in DOMAIN jobs /\ jobs'[i] = jobs[i]))
    <3>1. CASE i = Len(jobs')
      BY <2>1, <2>2, <3>1
    <3>2. CASE i \in DOMAIN jobs
      BY <2>1, <2>2, <3>2
    <3>3. QED
      BY <2>2, <3>1, <3>2
  <2>5. QED
    BY <2>1, <2>3, <2>4
<1>4. /\ handed' = [handed EXCEPT ![b] = IF text'[b] \in BrokenTexts THEN @ ELSE text'[b]]
      /\ bereft' = IF text'[b] \in BrokenTexts THEN bereft ELSE bereft \ {b}
      /\ UNCHANGED <<notices, caches, strays>>
  BY DEF HandToBuilder
<1>5. handed' \in [Buffers -> TextNumbers] /\ bereft' \subseteq Buffers
  BY <1>0, <1>4 DEF PageTypes
<1>6. ASSUME NEW c \in Buffers \ {b}
      PROVE  LastIsHanded(c)'
  <2>1. handed'[c] = handed[c] /\ (c \in bereft => c \in bereft')
    BY <1>0, <1>4 DEF PageTypes
  <2>2. ~Builds(job, c)
    BY <1>2 DEF Builds
  <2>3. \E j \in Jobs : QueueJob(j) /\ ~j.begun /\ ~j.done /\ ~Builds(j, c)
    BY <1>2, <2>2
  <2>4. LastIsHanded(c) /\ (IsOpenBuffer(c)' => IsOpenBuffer(c))
    BY DEF CacheInv
  <2>5. UNCHANGED notices /\ (c \in DOMAIN caches => c \in DOMAIN caches' /\ caches'[c] = caches[c])
    BY <1>4
  <2>6. QED
    BY <1>0, <2>1, <2>3, <2>4, <2>5, LastStays
<1>7. ASSUME text'[b] \in BrokenTexts
      PROVE  LastIsHanded(b)'
  <2>1. handed'[b] = handed[b] /\ bereft' = bereft /\ ~Builds(job, b)
    BY <1>0, <1>2, <1>4, <1>7 DEF PageTypes, Builds
  <2>2. \E j \in Jobs : QueueJob(j) /\ ~j.begun /\ ~j.done /\ ~Builds(j, b)
    BY <1>2, <2>1
  <2>3. LastIsHanded(b) /\ (IsOpenBuffer(b)' => IsOpenBuffer(b))
    BY <1>7 DEF CacheInv
  <2>4. UNCHANGED notices /\ (b \in DOMAIN caches => b \in DOMAIN caches' /\ caches'[b] = caches[b])
    BY <1>4
  <2>5. QED
    BY <1>0, <2>1, <2>2, <2>3, <2>4, LastStays
<1>8. ASSUME text'[b] \notin BrokenTexts
      PROVE  LastIsHanded(b)'
  <2>1. handed'[b] = text'[b] /\ Builds(job, b)
    BY <1>0, <1>2, <1>4, <1>8 DEF PageTypes, Builds
  <2>2. LastIsBuilt(b)'
    <3>1. Builds(jobs'[Len(jobs')], b) /\ jobs'[Len(jobs')].text = handed'[b]
      BY <1>2, <1>3, <2>1
    <3>2. Len(jobs') \in Nat /\ \A k \in DOMAIN jobs' : k \in Nat /\ k <= Len(jobs')
      BY <1>3 DEF JobTypes
    <3>3. \A k \in DOMAIN jobs' : ~(k > Len(jobs'))
      BY <3>2
    <3>4. QED
      BY <1>3, <3>1, <3>3 DEF LastIsBuilt, Builds
  <2>3. QED
    BY <2>2 DEF LastIsHanded
<1>9. WorkHasPage'
  <2>1. \A c \in Buffers : c = b \/ IsOpenBuffer(c) => buffer'[c] \in {"new", "file"}
    BY DEF IsOpenBuffer
  <2>2. \A i \in DOMAIN jobs : jobs[i] \in Jobs /\ (jobs[i].kind = "build" => jobs[i].buffer \in Buffers)
    BY <1>0 DEF JobTypes, Jobs
  <2>3. ASSUME NEW i \in DOMAIN jobs', jobs'[i].kind = "build"
        PROVE  buffer'[jobs'[i].buffer] \in {"new", "file"} \/ jobs'[i].buffer \in strays'
    <3>1. CASE jobs'[i] = job
      BY <1>2, <2>1, <3>1
    <3>2. CASE i \in DOMAIN jobs /\ jobs'[i] = jobs[i]
      BY <1>4, <2>1, <2>2, <2>3, <3>2 DEF CacheInv, WorkHasPage
    <3>3. QED
      BY <1>3, <3>1, <3>2
  <2>4. \A c \in DOMAIN caches : c \in Buffers
    BY DEF CacheInv, CacheTypeOK
  <2>5. \A i \in DOMAIN notices : notices[i].kind = "cache" => notices[i].buffer \in Buffers
    BY DEF CacheInv, CacheTypeOK, Notices
  <2>6. \A i \in DOMAIN notices' : notices'[i].kind = "cache" =>
            buffer'[notices'[i].buffer] \in {"new", "file"} \/ notices'[i].buffer \in strays'
    BY <1>4, <2>1, <2>5 DEF CacheInv, WorkHasPage
  <2>7. \A c \in DOMAIN caches' : buffer'[c] \in {"new", "file"} \/ c \in strays'
    BY <1>4, <2>1, <2>4 DEF CacheInv, WorkHasPage
  <2>8. QED
    BY <2>3, <2>6, <2>7 DEF WorkHasPage, IsOpenBuffer
<1>10. QED
  BY <1>3, <1>5, <1>6, <1>7, <1>8, <1>9

-----------------------------------------------------------------------------
(***************************************************************************)
(* What the pool does.                                                     *)
(***************************************************************************)

\* Events are posted behind those that wait.
PostedBehind(ms, ns, new) ==
    /\ ms \in Seq(Notices)
    /\ Len(ns) <= Len(ms)
    /\ \A i \in DOMAIN ns : i \in DOMAIN ms /\ ms[i] = ns[i]
    /\ \A i \in DOMAIN ms : i \in DOMAIN ns \/ ms[i] \in new

LEMMA NothingPosted ==
    ASSUME NEW ns \in Seq(Notices), NEW new
    PROVE  PostedBehind(ns, ns, new)
BY DEF PostedBehind

LEMMA OnePosted ==
    ASSUME NEW ns \in Seq(Notices), NEW new, NEW ms, PostedBehind(ms, ns, new), NEW n \in new \cap Notices
    PROVE  /\ PostedBehind(Append(ms, n), ns, new)
           /\ Append(ms, n)[Len(ms) + 1] = n /\ DOMAIN Append(ms, n) = 1 .. Len(ms) + 1
<1>1. ms \in Seq(Notices) /\ Len(ms) \in Nat /\ Len(ns) \in Nat
  BY DEF PostedBehind
<1>2. /\ Append(ms, n) \in Seq(Notices) /\ Len(Append(ms, n)) = Len(ms) + 1
      /\ DOMAIN ms = 1 .. Len(ms) /\ DOMAIN Append(ms, n) = 1 .. Len(ms) + 1
      /\ \A i \in DOMAIN ms : Append(ms, n)[i] = ms[i]
      /\ Append(ms, n)[Len(ms) + 1] = n
  BY <1>1
<1>3. ASSUME NEW i \in DOMAIN Append(ms, n)
      PROVE  i \in DOMAIN ns \/ Append(ms, n)[i] \in new
  <2>1. CASE i \in DOMAIN ms
    BY <1>2, <2>1 DEF PostedBehind
  <2>2. CASE i = Len(ms) + 1
    BY <1>2, <2>2
  <2>3. QED
    BY <1>1, <1>2, <2>1, <2>2
<1>4. \A i \in DOMAIN ns : i \in DOMAIN Append(ms, n) /\ Append(ms, n)[i] = ns[i]
  BY <1>1, <1>2 DEF PostedBehind
<1>5. Len(ns) <= Len(Append(ms, n))
  BY <1>1, <1>2 DEF PostedBehind
<1>6. QED
  BY <1>2, <1>3, <1>4, <1>5 DEF PostedBehind

\* The events of a job, when it gets through and when it ends.
WorkedSet(j) == {n \in {CacheNotice(j)} : j.kind = "build" /\ j.text \notin BrokenTexts}
EndedSet(j) == {n \in {CompleteNotice(j)} : j.kind = "build"}

LEMMA WorkIsPosted ==
    ASSUME NEW ns \in Seq(Notices), NEW new, NEW ms, PostedBehind(ms, ns, new), NEW j \in Jobs
    PROVE  /\ WorkedSet(j) \subseteq new => PostedBehind(ms \o WorkedNotices(j), ns, new)
           /\ EndedSet(j) \subseteq new => PostedBehind(WithEnd(ms, j), ns, new)
           /\ j.kind = "build" /\ j.text \notin BrokenTexts =>
                  ms \o WorkedNotices(j) = Append(ms, CacheNotice(j))
<1>1. ms \in Seq(Notices)
  BY DEF PostedBehind
<1>2. CASE j.kind = "build"
  <2>1. CacheNotice(j) \in Notices /\ CompleteNotice(j) \in Notices
    BY <1>2 DEF Jobs, Notices, CacheNotice, CompleteNotice
  <2>2. WithEnd(ms, j) = Append(ms, CompleteNotice(j)) /\ EndedSet(j) = {CompleteNotice(j)}
    BY <1>2 DEF WithEnd, EndedSet
  <2>3. CASE j.text \in BrokenTexts
    <3>1. ms \o WorkedNotices(j) = ms
      BY <1>1, <2>3 DEF WorkedNotices
    <3>2. QED
      BY <2>1, <2>2, <2>3, <3>1, OnePosted
  <2>4. CASE j.text \notin BrokenTexts
    <3>1. WorkedNotices(j) = <<CacheNotice(j)>> /\ WorkedSet(j) = {CacheNotice(j)}
      BY <1>2, <2>4 DEF WorkedNotices, WorkedSet
    <3>2. ms \o <<CacheNotice(j)>> = Append(ms, CacheNotice(j))
      BY <1>1, <2>1
    <3>3. ms \o WorkedNotices(j) = Append(ms, CacheNotice(j))
      BY <3>1, <3>2
    <3>4. CacheNotice(j) \in new => PostedBehind(Append(ms, CacheNotice(j)), ns, new)
      BY <2>1, OnePosted
    <3>5. CompleteNotice(j) \in new => PostedBehind(Append(ms, CompleteNotice(j)), ns, new)
      BY <2>1, OnePosted
    <3>6. QED
      BY <2>2, <3>1, <3>3, <3>4, <3>5
  <2>5. QED
    BY <2>3, <2>4
<1>3. CASE j.kind # "build"
  <2>1. ms \o WorkedNotices(j) = ms /\ WithEnd(ms, j) = ms
    BY <1>1, <1>3 DEF WorkedNotices, WithEnd
  <2>2. QED
    BY <1>3, <2>1
<1>4. QED
  BY <1>2, <1>3

\* A page keeps what is under way for it while the pool works on something else;
\* the jobs may move up by one place.
LEMMA LastStaysInPool ==
    ASSUME jobs \in Seq(Jobs), jobs' \in Seq(Jobs), notices \in Seq(Notices),
           NEW b, LastIsHanded(b), NEW s \in {0, 1}, NEW new,
           \A i \in DOMAIN jobs : Builds(jobs[i], b) =>
               i - s \in DOMAIN jobs' /\ Builds(jobs'[i - s], b) /\ jobs'[i - s].text = jobs[i].text,
           \A k \in DOMAIN jobs' : Builds(jobs'[k], b) => k + s \in DOMAIN jobs /\ Builds(jobs[k + s], b),
           PostedBehind(notices', notices, new), \A n \in new : ~Brings(n, b),
           UNCHANGED <<buffer, caches, handed>>, b \in bereft => b \in bereft'
    PROVE  LastIsHanded(b)'
<1> SUFFICES ASSUME IsOpenBuffer(b), b \notin bereft, handed[b] # 0
             PROVE  (LastIsBuilt(b) \/ LastIsBrought(b) \/ LastIsRegistered(b))'
  BY DEF LastIsHanded, IsOpenBuffer
<1>1. CASE LastIsBuilt(b)
  <2>1. PICK i \in DOMAIN jobs :
            /\ Builds(jobs[i], b) /\ jobs[i].text = handed[b]
            /\ \A k \in DOMAIN jobs : k > i => ~Builds(jobs[k], b)
    BY <1>1 DEF LastIsBuilt
  <2>2. i \in Nat /\ \A k \in DOMAIN jobs' : k \in Nat
    OBVIOUS
  <2>3. i - s \in DOMAIN jobs' /\ Builds(jobs'[i - s], b) /\ jobs'[i - s].text = handed'[b]
    BY <2>1
  <2>4. \A k \in DOMAIN jobs' : k > i - s => ~Builds(jobs'[k], b)
    BY <2>1, <2>2
  <2>5. LastIsBuilt(b)'
    BY <2>3, <2>4 DEF LastIsBuilt, Builds
  <2>6. QED
    BY <2>5
<1>2. CASE LastIsBrought(b)
  <2>1. PICK i \in DOMAIN notices :
            /\ Brings(notices[i], b) /\ notices[i].text = handed[b]
            /\ \A k \in DOMAIN notices : k > i => ~Brings(notices[k], b)
    BY <1>2 DEF LastIsBrought
  <2>2. \A k \in DOMAIN jobs' : ~Builds(jobs'[k], b)
    BY <1>2 DEF LastIsBrought
  <2>3. \A k \in DOMAIN notices' : k > i => ~Brings(notices'[k], b)
    BY <2>1 DEF PostedBehind
  <2>4. i \in DOMAIN notices' /\ notices'[i] = notices[i]
    BY DEF PostedBehind
  <2>5. LastIsBrought(b)'
    BY <2>1, <2>2, <2>3, <2>4 DEF LastIsBrought, Brings, Builds
  <2>6. QED
    BY <2>5
<1>3. CASE LastIsRegistered(b)
  <2>1. \A k \in DOMAIN jobs' : ~Builds(jobs'[k], b)
    BY <1>3 DEF LastIsRegistered
  <2>2. \A k \in DOMAIN notices' : ~Brings(notices'[k], b)
    BY <1>3 DEF LastIsRegistered, PostedBehind
  <2>3. LastIsRegistered(b)'
    BY <1>3, <2>1, <2>2 DEF LastIsRegistered, Brings, Builds
  <2>4. QED
    BY <2>3
<1>4. QED
  BY <1>1, <1>2, <1>3 DEF LastIsHanded

\* The pages are as they were, so that everything under way has the page it had.
LEMMA WorkStaysWithPages ==
    ASSUME WorkHasPage, jobs \in Seq(Jobs), notices \in Seq(Notices), NEW new,
           UNCHANGED <<buffer, strays, caches>>,
           \A k \in DOMAIN jobs' :
               \E i \in DOMAIN jobs : jobs'[k].kind = jobs[i].kind /\
                   (jobs[i].kind = "build" => jobs'[k].buffer = jobs[i].buffer),
           PostedBehind(notices', notices, new),
           \A n \in new : n.kind = "cache" =>
               \E i \in DOMAIN jobs : jobs[i].kind = "build" /\ jobs[i].buffer = n.buffer
    PROVE  WorkHasPage'
<1>1. \A k \in DOMAIN jobs' : jobs'[k].kind = "build" =>
          buffer'[jobs'[k].buffer] \in {"new", "file"} \/ jobs'[k].buffer \in strays'
  BY DEF WorkHasPage, IsOpenBuffer
<1>2. ASSUME NEW k \in DOMAIN notices', notices'[k].kind = "cache"
      PROVE  buffer'[notices'[k].buffer] \in {"new", "file"} \/ notices'[k].buffer \in strays'
  <2>1. CASE k \in DOMAIN notices
    BY <1>2, <2>1 DEF WorkHasPage, IsOpenBuffer, PostedBehind
  <2>2. CASE notices'[k] \in new
    BY <1>2, <2>2 DEF WorkHasPage, IsOpenBuffer
  <2>3. QED
    BY <2>1, <2>2 DEF PostedBehind
<1>3. \A b \in DOMAIN caches' : buffer'[b] \in {"new", "file"} \/ b \in strays'
  BY DEF WorkHasPage, IsOpenBuffer
<1>4. QED
  BY <1>1, <1>2, <1>3 DEF WorkHasPage, IsOpenBuffer

LEMMA MarkedJob ==
    ASSUME NEW j \in Jobs
    PROVE  /\ [j EXCEPT !.begun = TRUE] \in Jobs /\ [j EXCEPT !.done = TRUE] \in Jobs
           /\ [j EXCEPT !.begun = TRUE].begun /\ [j EXCEPT !.done = TRUE].done
           /\ [j EXCEPT !.begun = TRUE].done = j.done /\ [j EXCEPT !.done = TRUE].begun = j.begun
           /\ [j EXCEPT !.begun = TRUE].kind = j.kind /\ [j EXCEPT !.done = TRUE].kind = j.kind
           /\ j.kind = "build" =>
                  /\ [j EXCEPT !.begun = TRUE].buffer = j.buffer /\ [j EXCEPT !.done = TRUE].buffer = j.buffer
                  /\ [j EXCEPT !.begun = TRUE].text = j.text /\ [j EXCEPT !.done = TRUE].text = j.text
<1>1. CASE j.kind = "build"
  <2>1. j \in [kind : {"build"}, begun : BOOLEAN, done : BOOLEAN, buffer : Buffers,
               text : TextNumbers, isNew : BOOLEAN, doParseTags : BOOLEAN]
    BY <1>1 DEF Jobs
  <2>2. QED
    BY <2>1 DEF Jobs
<1>2. CASE j.kind = "tag"
  <2>1. j \in [kind : {"tag"}, begun : BOOLEAN, done : BOOLEAN, buffer : Buffers]
    BY <1>2 DEF Jobs
  <2>2. QED
    BY <2>1, <1>2 DEF Jobs
<1>3. CASE j.kind = "index"
  <2>1. j \in [kind : {"index"}, begun : BOOLEAN, done : BOOLEAN]
    BY <1>3 DEF Jobs
  <2>2. QED
    BY <2>1, <1>3 DEF Jobs
<1>4. QED
  BY <1>1, <1>2, <1>3 DEF Jobs

LEMMA FirstJobMarked ==
    ASSUME JobTypes, jobs # << >>, NEW j \in Jobs, j.begun, jobs' = [jobs EXCEPT ![1] = j]
    PROVE  /\ JobTypes' /\ DOMAIN jobs' = DOMAIN jobs /\ 1 \in DOMAIN jobs /\ jobs[1] \in Jobs
           /\ jobs'[1] = j
           /\ \A i \in DOMAIN jobs \ {1} : jobs'[i] = jobs[i]
<1>1. jobs \in Seq(Jobs) /\ 1 \in DOMAIN jobs /\ jobs[1] \in Jobs
  BY DEF JobTypes
<1>2. jobs' \in Seq(Jobs) /\ DOMAIN jobs' = DOMAIN jobs /\ Len(jobs') = Len(jobs)
      /\ jobs'[1] = j /\ \A i \in DOMAIN jobs \ {1} : jobs'[i] = jobs[i]
  BY <1>1
<1>3. JobTypes'
  BY <1>2 DEF JobTypes
<1>4. QED
  BY <1>1, <1>2, <1>3

LEMMA RowsAreRows ==
    ASSUME CacheInv, NEW j \in Jobs
    PROVE  /\ WorkedRows(j) \in [Names -> [tags : TextNumbers, time : TextNumbers]]
           /\ WipedRows \in [Names -> [tags : TextNumbers, time : TextNumbers]]
<1> DEFINE Row == [tags : TextNumbers, time : TextNumbers]
<1>1. rows \in [Names -> Row] /\ saved \in [Buffers -> TextNumbers]
  BY DEF CacheInv, CacheTypeOK
<1>2. NoTags \in Row
  BY CacheAssumption DEF NoTags, TextNumbers
<1>3. \A n \in Names : n[1] \in Buffers /\ n[2] \in {"identifier", "path"}
  BY DEF Names
<1>4. \A b \in Buffers : <<b, "path">> \in Names /\ <<b, "identifier">> \in Names
  BY DEF Names
<1>5. WipedRows \in [Names -> Row]
  BY <1>2 DEF WipedRows
<1>6. IndexedRows \in [Names -> Row]
  BY <1>1, <1>2, <1>3 DEF IndexedRows
<1>7. j.kind = "tag" => TaggerRows(j) \in [Names -> Row]
  <2> SUFFICES ASSUME j.kind = "tag" PROVE TaggerRows(j) \in [Names -> Row]
    OBVIOUS
  <2>1. j.buffer \in Buffers
    BY DEF Jobs
  <2>2. [tags |-> saved[j.buffer], time |-> saved[j.buffer]] \in Row
    BY <1>1, <2>1
  <2>3. QED
    BY <1>1, <1>4, <2>1, <2>2 DEF TaggerRows
<1>8. j.kind = "build" => BuilderRows(j) \in [Names -> Row]
  <2> SUFFICES ASSUME j.kind = "build" PROVE BuilderRows(j) \in [Names -> Row]
    OBVIOUS
  <2>1. j.buffer \in Buffers /\ j.text \in TextNumbers
    BY DEF Jobs
  <2>2. \A n \in Names : [rows[n] EXCEPT !.tags = j.text] \in Row
    BY <1>1, <2>1
  <2>3. \A n \in Names : [rows EXCEPT ![n].tags = j.text] \in [Names -> Row]
    BY <1>1, <2>2
  <2>4. QED
    BY <1>1, <1>4, <2>1, <2>3 DEF BuilderRows
<1>9. j.kind \in {"build", "tag", "index"}
  BY DEF Jobs
<1>10. QED
  BY <1>1, <1>5, <1>6, <1>7, <1>8, <1>9 DEF WorkedRows

\* What the pool does leaves the pages alone.
LEMMA PoolTypes ==
    ASSUME CacheInv, JobTypes', notices' \in Seq(Notices),
           rows' \in [Names -> [tags : TextNumbers, time : TextNumbers]],
           indexing' \in BOOLEAN, bereft' \subseteq Buffers,
           UNCHANGED <<pageVars, reparseTimer, caches, wipes, handed, strays>>
    PROVE  CacheTypeOK'
<1>1. PageTypes /\ TagTypes /\ wipes \in 0 .. MaxWipes /\ reparseTimer \in BOOLEAN
  BY TypesInParts DEF CacheInv
<1>2. UNCHANGED <<buffer, text, newest, saved, touched, shown, handed, strays, caches>>
  BY DEF pageVars
<1>3. PageTypes'
  BY <1>1, <1>2 DEF PageTypes, IsOpenBuffer
<1>4. TagTypes'
  BY <1>1, <1>2 DEF TagTypes
<1>5. wipes' \in 0 .. MaxWipes /\ reparseTimer' \in BOOLEAN
  BY <1>1
<1>6. QED
  BY <1>3, <1>4, <1>5, TypesTogether

LEMMA BeginJobKeeps ==
    ASSUME CacheInv, BeginJob
    PROVE  CacheInv'
<1> DEFINE j == [jobs[1] EXCEPT !.begun = TRUE]
<1>1. JobTypes /\ jobs # << >> /\ jobs' = [jobs EXCEPT ![1] = j] /\ notices \in Seq(Notices)
      /\ bereft \subseteq Buffers /\ indexing \in BOOLEAN
      /\ rows \in [Names -> [tags : TextNumbers, time : TextNumbers]]
      /\ UNCHANGED <<pageVars, reparseTimer, notices, caches, rows, indexing, wipes, ghosts>>
  BY TypesInParts DEF CacheInv, BeginJob, CacheTypeOK
<1>2. jobs \in Seq(Jobs) /\ 1 \in DOMAIN jobs /\ jobs[1] \in Jobs
  BY <1>1 DEF JobTypes
<1>3. /\ j \in Jobs /\ j.begun /\ j.done = jobs[1].done /\ j.kind = jobs[1].kind
      /\ jobs[1].kind = "build" => j.buffer = jobs[1].buffer /\ j.text = jobs[1].text
  BY <1>2, MarkedJob
<1> HIDE DEF j
<1>4. /\ JobTypes' /\ DOMAIN jobs' = DOMAIN jobs /\ jobs'[1] = j
      /\ \A i \in DOMAIN jobs \ {1} : jobs'[i] = jobs[i]
  BY <1>1, <1>3, FirstJobMarked
<1>5. CacheTypeOK'
  BY <1>1, <1>4, PoolTypes DEF ghosts
<1>6. PostedBehind(notices', notices, {})
  BY <1>1, NothingPosted
<1>7. WorkHasPage'
  <2>1. \A k \in DOMAIN jobs' : \E i \in DOMAIN jobs : jobs'[k].kind = jobs[i].kind /\
            (jobs[i].kind = "build" => jobs'[k].buffer = jobs[i].buffer)
    BY <1>2, <1>3, <1>4
  <2>2. QED
    BY <1>1, <1>2, <1>6, <2>1, WorkStaysWithPages DEF CacheInv, pageVars, ghosts
<1>8. ASSUME NEW b \in Buffers
      PROVE  LastIsHanded(b)'
  <2>1. \A i \in DOMAIN jobs : i - 0 = i /\ i + 0 = i
    BY <1>2
  <2>2. \A i \in DOMAIN jobs : /\ Builds(jobs[i], b) <=> Builds(jobs'[i], b)
                               /\ Builds(jobs[i], b) => jobs'[i].text = jobs[i].text
    BY <1>2, <1>3, <1>4 DEF Builds
  <2>3. jobs' \in Seq(Jobs)
    BY <1>4 DEF JobTypes
  <2>4. QED
    BY <1>1, <1>2, <1>4, <1>6, <2>1, <2>2, <2>3, LastStaysInPool DEF CacheInv, pageVars, ghosts
<1>9. QED
  BY <1>5, <1>7, <1>8 DEF CacheInv

\* The symbol table of a job that got through follows those of earlier jobs.
LEMMA RunJobKeeps ==
    ASSUME CacheInv, RunJob
    PROVE  CacheInv'
<1> DEFINE j == [jobs[1] EXCEPT !.done = TRUE]
           done == jobs[1]
<1>1. JobTypes /\ jobs # << >> /\ jobs' = [jobs EXCEPT ![1] = j] /\ notices \in Seq(Notices)
      /\ bereft \subseteq Buffers /\ indexing \in BOOLEAN /\ done.begun /\ ~done.done
      /\ rows' = WorkedRows(done) /\ notices' = notices \o WorkedNotices(done)
      /\ UNCHANGED <<pageVars, reparseTimer, caches, indexing, wipes, ghosts>>
  BY TypesInParts DEF CacheInv, RunJob, CacheTypeOK
<1>2. jobs \in Seq(Jobs) /\ 1 \in DOMAIN jobs /\ done \in Jobs
  BY <1>1 DEF JobTypes
<1>3. /\ j \in Jobs /\ j.begun /\ j.done /\ j.kind = done.kind
      /\ done.kind = "build" => j.buffer = done.buffer /\ j.text = done.text
  BY <1>1, <1>2, MarkedJob
<1> HIDE DEF j
<1>4. /\ JobTypes' /\ DOMAIN jobs' = DOMAIN jobs /\ jobs'[1] = j
      /\ \A i \in DOMAIN jobs \ {1} : jobs'[i] = jobs[i]
  BY <1>1, <1>3, FirstJobMarked
<1>5. PostedBehind(notices', notices, WorkedSet(done))
  BY <1>1, <1>2, NothingPosted, WorkIsPosted
<1>6. CacheTypeOK'
  <2>1. rows' \in [Names -> [tags : TextNumbers, time : TextNumbers]]
    BY <1>1, <1>2, RowsAreRows
  <2>2. notices' \in Seq(Notices)
    BY <1>5 DEF PostedBehind
  <2>3. QED
    BY <1>1, <1>4, <2>1, <2>2, PoolTypes DEF ghosts
<1>7. WorkHasPage'
  <2>1. \A k \in DOMAIN jobs' : \E i \in DOMAIN jobs : jobs'[k].kind = jobs[i].kind /\
            (jobs[i].kind = "build" => jobs'[k].buffer = jobs[i].buffer)
    BY <1>2, <1>3, <1>4
  <2>2. \A n \in WorkedSet(done) : done.kind = "build" /\ n.buffer = done.buffer
    BY DEF WorkedSet, CacheNotice
  <2>3. QED
    BY <1>1, <1>2, <1>5, <2>1, <2>2, WorkStaysWithPages DEF CacheInv, pageVars, ghosts
<1>8. ASSUME NEW b \in Buffers, ~Builds(done, b)
      PROVE  LastIsHanded(b)'
  <2>1. \A i \in DOMAIN jobs : i - 0 = i /\ i + 0 = i
    BY <1>2
  <2>2. \A i \in DOMAIN jobs : /\ Builds(jobs[i], b) <=> Builds(jobs'[i], b)
                               /\ Builds(jobs[i], b) => jobs'[i].text = jobs[i].text
    BY <1>2, <1>3, <1>4, <1>8 DEF Builds
  <2>3. jobs' \in Seq(Jobs)
    BY <1>4 DEF JobTypes
  <2>4. \A n \in WorkedSet(done) : ~Brings(n, b)
    BY <1>1, <1>8 DEF WorkedSet, CacheNotice, Brings, Builds
  <2>5. QED
    BY <1>1, <1>2, <1>4, <1>5, <2>1, <2>2, <2>3, <2>4, LastStaysInPool DEF CacheInv, pageVars, ghosts
<1>9. ASSUME NEW b \in Buffers, Builds(done, b)
      PROVE  LastIsHanded(b)'
  <2>1. UNCHANGED <<buffer, handed, caches, bereft>>
    BY <1>1 DEF pageVars, ghosts
  <2>2. SUFFICES ASSUME IsOpenBuffer(b), b \notin bereft, handed[b] # 0
                 PROVE  (LastIsBuilt(b) \/ LastIsBrought(b))'
    BY <2>1 DEF LastIsHanded, IsOpenBuffer
  <2>3. LastIsHanded(b) /\ ~LastIsBrought(b) /\ ~LastIsRegistered(b)
    BY <1>2, <1>9 DEF CacheInv, LastIsBrought, LastIsRegistered
  <2>4. PICK i \in DOMAIN jobs :
            /\ Builds(jobs[i], b) /\ jobs[i].text = handed[b]
            /\ \A k \in DOMAIN jobs : k > i => ~Builds(jobs[k], b)
    BY <2>2, <2>3 DEF LastIsHanded, LastIsBuilt
  <2>5. ~Builds(jobs'[1], b) /\ \A k \in DOMAIN jobs : k # 1 => jobs'[k] = jobs[k]
    BY <1>3, <1>4 DEF Builds
  <2>6. CASE i # 1
    <3>1. \A k \in DOMAIN jobs' : k > i => ~Builds(jobs'[k], b)
      BY <1>4, <2>4, <2>5
    <3>2. LastIsBuilt(b)'
      BY <1>4, <2>1, <2>4, <2>5, <2>6, <3>1 DEF LastIsBuilt, Builds
    <3>3. QED
      BY <3>2
  <2>7. CASE i = 1
    <3>1. \A k \in DOMAIN jobs' : ~Builds(jobs'[k], b)
      <4>1. \A k \in DOMAIN jobs : k = 1 \/ k > 1
        BY <1>2
      <4>2. QED
        BY <1>4, <2>4, <2>5, <2>7, <4>1
    <3>2. notices' = Append(notices, CacheNotice(done))
      BY <1>1, <1>2, <1>9, NothingPosted, WorkIsPosted DEF Builds
    <3>3. /\ DOMAIN notices' = 1 .. Len(notices) + 1 /\ Len(notices) \in Nat
          /\ notices'[Len(notices) + 1] = CacheNotice(done)
      BY <1>1, <3>2
    <3>4. Brings(CacheNotice(done), b) /\ CacheNotice(done).text = handed'[b]
      BY <1>9, <2>1, <2>4, <2>7 DEF Brings, CacheNotice, Builds
    <3>5. /\ Len(notices) + 1 \in DOMAIN notices'
          /\ \A k \in DOMAIN notices' : ~(k > Len(notices) + 1)
      BY <3>3
    <3>6. LastIsBrought(b)'
      BY <3>1, <3>3, <3>4, <3>5 DEF LastIsBrought, Builds, Brings
    <3>7. QED
      BY <3>6
  <2>8. QED
    BY <2>6, <2>7
<1>10. QED
  BY <1>6, <1>7, <1>8, <1>9 DEF CacheInv

LEMMA EndJobKeeps ==
    ASSUME CacheInv, EndJob
    PROVE  CacheInv'
<1> DEFINE ended == jobs[1]
<1>1. JobTypes /\ jobs # << >> /\ jobs' = Tail(jobs) /\ notices \in Seq(Notices)
      /\ bereft \subseteq Buffers /\ indexing \in BOOLEAN /\ ended.done
      /\ rows \in [Names -> [tags : TextNumbers, time : TextNumbers]]
      /\ notices' = WithEnd(notices, ended)
      /\ UNCHANGED <<pageVars, reparseTimer, caches, rows, indexing, wipes, ghosts>>
  BY TypesInParts DEF CacheInv, EndJob, CacheTypeOK
<1>2. jobs \in Seq(Jobs) /\ 1 \in DOMAIN jobs /\ ended \in Jobs
  BY <1>1 DEF JobTypes
<1>3. /\ jobs' \in Seq(Jobs) /\ Len(jobs) \in Nat \ {0} /\ Len(jobs') = Len(jobs) - 1
      /\ DOMAIN jobs = 1 .. Len(jobs) /\ DOMAIN jobs' = 1 .. Len(jobs) - 1
      /\ \A k \in DOMAIN jobs' : jobs'[k] = jobs[k + 1]
  BY <1>1, <1>2
<1>4. /\ \A k \in DOMAIN jobs' : k + 1 \in DOMAIN jobs /\ k + 1 # 1 /\ jobs'[k] = jobs[k + 1]
      /\ \A i \in DOMAIN jobs : i # 1 => i - 1 \in DOMAIN jobs' /\ jobs'[i - 1] = jobs[i]
  BY <1>3
<1>5. JobTypes'
  <2>1. MaxJobs \in Nat /\ Len(jobs) <= MaxJobs
    BY <1>1, CacheAssumption DEF JobTypes
  <2>2. Len(jobs') <= MaxJobs
    BY <1>3, <2>1
  <2>3. \A k \in DOMAIN jobs' : ~jobs'[k].begun /\ ~jobs'[k].done
    BY <1>1, <1>4 DEF JobTypes
  <2>4. QED
    BY <1>3, <2>2, <2>3 DEF JobTypes
<1>6. PostedBehind(notices', notices, EndedSet(ended))
  BY <1>1, <1>2, NothingPosted, WorkIsPosted
<1>7. CacheTypeOK'
  <2>1. notices' \in Seq(Notices)
    BY <1>6 DEF PostedBehind
  <2>2. QED
    BY <1>1, <1>5, <2>1, PoolTypes DEF ghosts
<1>8. \A n \in EndedSet(ended) : n.kind = "complete"
  BY DEF EndedSet, CompleteNotice
<1>9. WorkHasPage'
  <2>1. \A k \in DOMAIN jobs' : \E i \in DOMAIN jobs : jobs'[k].kind = jobs[i].kind /\
            (jobs[i].kind = "build" => jobs'[k].buffer = jobs[i].buffer)
    BY <1>4
  <2>2. QED
    BY <1>1, <1>2, <1>6, <1>8, <2>1, WorkStaysWithPages DEF CacheInv, pageVars, ghosts
<1>10. ASSUME NEW b \in Buffers
       PROVE  LastIsHanded(b)'
  <2>1. ~Builds(jobs[1], b)
    BY <1>1 DEF Builds
  <2>2. \A i \in DOMAIN jobs : Builds(jobs[i], b) =>
            i - 1 \in DOMAIN jobs' /\ Builds(jobs'[i - 1], b) /\ jobs'[i - 1].text = jobs[i].text
    BY <1>4, <2>1
  <2>3. \A k \in DOMAIN jobs' : Builds(jobs'[k], b) => k + 1 \in DOMAIN jobs /\ Builds(jobs[k + 1], b)
    BY <1>4
  <2>4. \A n \in EndedSet(ended) : ~Brings(n, b)
    BY <1>8 DEF Brings
  <2>5. QED
    BY <1>1, <1>2, <1>3, <1>6, <2>2, <2>3, <2>4, LastStaysInPool DEF CacheInv, pageVars, ghosts
<1>11. QED
  BY <1>7, <1>9, <1>10 DEF CacheInv

SequenceNotice == [kind |-> "sequence"]

LEMMA SequenceEndsKeeps ==
    ASSUME CacheInv, SequenceEnds
    PROVE  CacheInv'
<1>1. JobTypes /\ jobs \in Seq(Jobs) /\ notices \in Seq(Notices) /\ bereft \subseteq Buffers
      /\ rows \in [Names -> [tags : TextNumbers, time : TextNumbers]]
      /\ indexing' = FALSE /\ notices' = Append(notices, SequenceNotice)
      /\ UNCHANGED <<pageVars, reparseTimer, jobs, caches, rows, wipes, ghosts>>
  BY TypesInParts DEF CacheInv, SequenceEnds, CacheTypeOK, SequenceNotice, JobTypes
<1>2. PostedBehind(notices', notices, {SequenceNotice})
  <2>1. SequenceNotice \in {SequenceNotice} \cap Notices
    BY DEF SequenceNotice, Notices
  <2>2. PostedBehind(notices, notices, {SequenceNotice})
    BY <1>1, NothingPosted
  <2>3. QED
    BY <1>1, <2>1, <2>2, OnePosted
<1>3. CacheTypeOK'
  <2>1. notices' \in Seq(Notices)
    BY <1>2 DEF PostedBehind
  <2>2. JobTypes'
    BY <1>1 DEF JobTypes
  <2>3. QED
    BY <1>1, <2>1, <2>2, PoolTypes DEF ghosts
<1>4. WorkHasPage'
  <2>1. \A n \in {SequenceNotice} : n.kind # "cache"
    BY DEF SequenceNotice
  <2>2. \A k \in DOMAIN jobs' : jobs'[k] = jobs[k] /\ k \in DOMAIN jobs
    BY <1>1
  <2>3. QED
    BY <1>1, <1>2, <2>1, <2>2, WorkStaysWithPages DEF CacheInv, pageVars, ghosts
<1>5. ASSUME NEW b \in Buffers
      PROVE  LastIsHanded(b)'
  <2>1. \A i \in DOMAIN jobs : i - 0 = i /\ i + 0 = i
    BY <1>1
  <2>2. \A n \in {SequenceNotice} : ~Brings(n, b)
    BY DEF SequenceNotice, Brings
  <2>3. jobs' = jobs
    BY <1>1
  <2>4. QED
    BY <1>1, <1>2, <2>1, <2>2, <2>3, LastStaysInPool DEF CacheInv, pageVars, ghosts
<1>6. QED
  BY <1>3, <1>4, <1>5 DEF CacheInv

\* The events of a pool that is stopped.
LEMMA StopPosts ==
    ASSUME CacheInv, NEW through \in BOOLEAN, StopPool(through)
    PROVE  \E new :
               /\ PostedBehind(notices', notices, new)
               /\ \A n \in new : n.kind = "cache" =>
                      \E i \in DOMAIN jobs : jobs[i].kind = "build" /\ jobs[i].buffer = n.buffer
               /\ rows' \in [Names -> [tags : TextNumbers, time : TextNumbers]]
<1> DEFINE j == jobs[1]
           new == {SequenceNotice} \cup WorkedSet(j) \cup EndedSet(j)
           kept == Append(notices, SequenceNotice)
<1>1. /\ notices \in Seq(Notices) /\ jobs \in Seq(Jobs)
      /\ rows \in [Names -> [tags : TextNumbers, time : TextNumbers]]
  BY DEF CacheInv, CacheTypeOK
<1>2. PostedBehind(kept, notices, new)
  <2>1. SequenceNotice \in new \cap Notices
    BY DEF SequenceNotice, Notices
  <2>2. PostedBehind(notices, notices, new)
    BY <1>1, NothingPosted
  <2>3. QED
    BY <1>1, <2>1, <2>2, OnePosted
<1>3. CASE jobs # << >> /\ jobs[1].begun
  <2>1. j \in Jobs /\ 1 \in DOMAIN jobs
    BY <1>1, <1>3
  <2>2. /\ PostedBehind(WithEnd(kept, j), notices, new)
        /\ PostedBehind(WithEnd(kept \o WorkedNotices(j), j), notices, new)
    <3>1. WorkedSet(j) \subseteq new /\ EndedSet(j) \subseteq new
      OBVIOUS
    <3> HIDE DEF new, kept, j
    <3>2. PostedBehind(kept \o WorkedNotices(j), notices, new) /\ PostedBehind(WithEnd(kept, j), notices, new)
      BY <1>1, <1>2, <2>1, <3>1, WorkIsPosted
    <3>3. PostedBehind(WithEnd(kept \o WorkedNotices(j), j), notices, new)
      BY <1>1, <2>1, <3>1, <3>2, WorkIsPosted
    <3>4. QED
      BY <3>2, <3>3
  <2>3. \A n \in new : n.kind = "cache" => j.kind = "build" /\ j.buffer = n.buffer
    BY DEF WorkedSet, EndedSet, CacheNotice, CompleteNotice, SequenceNotice
  <2>4. EndsCancelled(through)
    BY <1>3 DEF StopPool
  <2>5. /\ notices' \in {WithEnd(kept, j), WithEnd(kept \o WorkedNotices(j), j)}
        /\ rows' \in {rows, WipedRows, WorkedRows(j)}
    BY <2>4 DEF EndsCancelled, SequenceNotice
  <2>6. rows' \in [Names -> [tags : TextNumbers, time : TextNumbers]]
    BY <1>1, <2>1, <2>5, RowsAreRows
  <2>7. PostedBehind(notices', notices, new)
    BY <2>2, <2>5
  <2>8. QED
    BY <2>1, <2>3, <2>6, <2>7
<1>4. CASE ~(jobs # << >> /\ jobs[1].begun)
  <2>1. rows' = rows /\ notices' = Append(notices, [kind |-> "sequence"])
    BY <1>4 DEF StopPool
  <2>2. PostedBehind(notices', notices, {SequenceNotice})
    <3>1. SequenceNotice \in {SequenceNotice} \cap Notices
      BY DEF SequenceNotice, Notices
    <3>2. PostedBehind(notices, notices, {SequenceNotice})
      BY <1>1, NothingPosted
    <3>3. QED
      BY <1>1, <2>1, <3>1, <3>2, OnePosted DEF SequenceNotice
  <2>3. \A n \in {SequenceNotice} : n.kind # "cache"
    BY DEF SequenceNotice
  <2>4. QED
    BY <1>1, <2>1, <2>2, <2>3
<1>5. QED
  BY <1>3, <1>4

LEMMA StopPoolKeeps ==
    ASSUME CacheInv, NEW through \in BOOLEAN, StopPool(through)
    PROVE  CacheInv'
<1>1. /\ jobs \in Seq(Jobs) /\ notices \in Seq(Notices) /\ bereft \subseteq Buffers
      /\ jobs' = << >> /\ indexing' = FALSE
      /\ bereft' = bereft \cup {b \in Buffers : \E i \in DOMAIN jobs :
                                     jobs[i].kind = "build" /\ jobs[i].buffer = b}
      /\ UNCHANGED <<pageVars, reparseTimer, caches, wipes, handed, strays>>
  BY DEF CacheInv, StopPool, CacheTypeOK
<1>2. PICK new :
          /\ PostedBehind(notices', notices, new)
          /\ \A n \in new : n.kind = "cache" =>
                 \E i \in DOMAIN jobs : jobs[i].kind = "build" /\ jobs[i].buffer = n.buffer
          /\ rows' \in [Names -> [tags : TextNumbers, time : TextNumbers]]
  BY StopPosts
<1>3. DOMAIN jobs' = {} /\ JobTypes' /\ jobs' \in Seq(Jobs)
  BY <1>1, CacheAssumption DEF JobTypes
<1>4. CacheTypeOK'
  <2>1. notices' \in Seq(Notices)
    BY <1>2 DEF PostedBehind
  <2>2. bereft' \subseteq Buffers /\ indexing' \in BOOLEAN
    BY <1>1
  <2>3. QED
    BY <1>1, <1>2, <1>3, <2>1, <2>2, PoolTypes
<1>5. WorkHasPage'
  BY <1>1, <1>2, <1>3, WorkStaysWithPages DEF CacheInv, pageVars
<1>6. ASSUME NEW b \in Buffers, \E i \in DOMAIN jobs : jobs[i].kind = "build" /\ jobs[i].buffer = b
      PROVE  LastIsHanded(b)'
  BY <1>1, <1>6 DEF LastIsHanded
<1>7. ASSUME NEW b \in Buffers, ~\E i \in DOMAIN jobs : jobs[i].kind = "build" /\ jobs[i].buffer = b
      PROVE  LastIsHanded(b)'
  <2>1. \A i \in DOMAIN jobs : ~Builds(jobs[i], b)
    BY <1>7 DEF Builds
  <2>2. \A n \in new : ~Brings(n, b)
    BY <1>2, <1>7 DEF Brings
  <2>3. b \in bereft => b \in bereft'
    BY <1>1
  <2>4. 0 \in {0, 1} /\ UNCHANGED <<buffer, caches, handed>>
    BY <1>1 DEF pageVars
  <2>5. LastIsHanded(b)
    BY DEF CacheInv
  <2>6. QED
    BY <1>1, <1>2, <1>3, <2>1, <2>2, <2>3, <2>4, <2>5, LastStaysInPool
<1>8. QED
  BY <1>4, <1>5, <1>6, <1>7 DEF CacheInv

-----------------------------------------------------------------------------
(***************************************************************************)
(* What the pool posted is handled in the order it was posted in.          *)
(***************************************************************************)

CacheMaps == UNION {[bs -> TextNumbers] : bs \in SUBSET Buffers}

LEMMA CachesAreCaches ==
    ASSUME caches \in CacheMaps,
           NEW b \in Buffers, NEW t \in TextNumbers
    PROVE  /\ CachesWith(b, t) \in CacheMaps
           /\ DOMAIN CachesWith(b, t) = DOMAIN caches \cup {b}
           /\ CachesWith(b, t)[b] = t
           /\ \A c \in DOMAIN caches \ {b} : CachesWith(b, t)[c] = caches[c]
           /\ WithoutCache(b) \in CacheMaps
           /\ DOMAIN WithoutCache(b) = DOMAIN caches \ {b}
           /\ \A c \in DOMAIN caches \ {b} : WithoutCache(b)[c] = caches[c]
<1>1. DOMAIN caches \in SUBSET Buffers /\ caches \in [DOMAIN caches -> TextNumbers]
  BY DEF CacheMaps
<1>2. CachesWith(b, t) \in [DOMAIN caches \cup {b} -> TextNumbers] /\ DOMAIN caches \cup {b} \in SUBSET Buffers
  BY <1>1 DEF CachesWith
<1>3. WithoutCache(b) \in [DOMAIN caches \ {b} -> TextNumbers] /\ DOMAIN caches \ {b} \in SUBSET Buffers
  BY <1>1 DEF WithoutCache
<1>4. /\ CachesWith(b, t)[b] = t
      /\ \A c \in DOMAIN caches \ {b} : CachesWith(b, t)[c] = caches[c]
      /\ \A c \in DOMAIN caches \ {b} : WithoutCache(b)[c] = caches[c]
  BY DEF CachesWith, WithoutCache
<1>5. CachesWith(b, t) \in CacheMaps /\ WithoutCache(b) \in CacheMaps
  BY <1>2, <1>3 DEF CacheMaps
<1>6. DOMAIN CachesWith(b, t) = DOMAIN caches \cup {b} /\ DOMAIN WithoutCache(b) = DOMAIN caches \ {b}
  BY DEF CachesWith, WithoutCache
<1>7. QED
  BY <1>4, <1>5, <1>6

LEMMA HandleNoticeKeeps ==
    ASSUME CacheInv, HandleNotice
    PROVE  CacheInv'
<1> DEFINE n == notices[1]
<1>1. /\ jobs \in Seq(Jobs) /\ notices \in Seq(Notices) /\ notices # << >>
      /\ notices' = Tail(notices)
      /\ caches \in CacheMaps
      /\ IF n.kind = "cache" THEN caches' = CachesWith(n.buffer, n.text) ELSE UNCHANGED caches
      /\ reparseTimer' \in BOOLEAN
      /\ UNCHANGED <<pageVars, jobs, rows, indexing, wipes, ghosts>>
  BY DEF CacheInv, HandleNotice, CacheTypeOK, OnWorkingCacheComplete, StartsTimer, CacheMaps
<1>2. UNCHANGED <<buffer, text, newest, saved, touched, shown, handed, bereft, strays>>
  BY <1>1 DEF pageVars, ghosts
<1>3. /\ notices' \in Seq(Notices) /\ Len(notices) \in Nat \ {0} /\ n \in Notices
      /\ DOMAIN notices = 1 .. Len(notices) /\ DOMAIN notices' = 1 .. Len(notices) - 1
      /\ \A k \in DOMAIN notices' : notices'[k] = notices[k + 1]
  BY <1>1
<1>4. /\ \A k \in DOMAIN notices' : k + 1 \in DOMAIN notices /\ notices'[k] = notices[k + 1]
      /\ \A i \in DOMAIN notices : i # 1 => i - 1 \in DOMAIN notices' /\ notices'[i - 1] = notices[i]
      /\ 1 \in DOMAIN notices
  BY <1>3
<1>5. n.kind = "cache" => n.buffer \in Buffers /\ n.text \in TextNumbers
  BY <1>3 DEF Notices
<1> HIDE DEF n
<1>6. /\ caches' \in CacheMaps
      /\ \A b : Brings(n, b) => b \in DOMAIN caches' /\ caches'[b] = n.text
      /\ \A b \in DOMAIN caches : ~Brings(n, b) => b \in DOMAIN caches' /\ caches'[b] = caches[b]
      /\ \A b \in DOMAIN caches' : b \in DOMAIN caches \/ Brings(n, b)
  <2>1. CASE n.kind = "cache"
    <3>1. caches' = CachesWith(n.buffer, n.text) /\ n.buffer \in Buffers /\ n.text \in TextNumbers
      BY <1>1, <1>5, <2>1
    <3>2. /\ caches' \in CacheMaps
          /\ DOMAIN caches' = DOMAIN caches \cup {n.buffer}
          /\ caches'[n.buffer] = n.text
          /\ \A c \in DOMAIN caches \ {n.buffer} : caches'[c] = caches[c]
      <4>1. \A b \in Buffers, t \in TextNumbers :
                /\ CachesWith(b, t) \in CacheMaps
                /\ DOMAIN CachesWith(b, t) = DOMAIN caches \cup {b}
                /\ CachesWith(b, t)[b] = t
                /\ \A c \in DOMAIN caches \ {b} : CachesWith(b, t)[c] = caches[c]
        BY <1>1, CachesAreCaches
      <4>2. QED
        BY <3>1, <4>1
    <3>3. \A b : Brings(n, b) <=> b = n.buffer
      BY <2>1 DEF Brings
    <3>4. QED
      BY <3>2, <3>3
  <2>2. CASE n.kind # "cache"
    BY <1>1, <2>2 DEF Brings
  <2>3. QED
    BY <2>1, <2>2
<1>7. CacheTypeOK'
  <2>1. PageTypes /\ JobTypes /\ TagTypes /\ wipes \in 0 .. MaxWipes /\ indexing \in BOOLEAN
    BY TypesInParts DEF CacheInv
  <2>2. PageTypes'
    BY <1>2, <2>1 DEF PageTypes, IsOpenBuffer
  <2>3. JobTypes'
    BY <1>1, <2>1 DEF JobTypes
  <2>4. TagTypes'
    BY <1>1, <1>6, <2>1 DEF TagTypes, CacheMaps
  <2>5. wipes' \in 0 .. MaxWipes /\ indexing' \in BOOLEAN
    BY <1>1, <2>1
  <2>6. QED
    BY <1>1, <1>3, <2>2, <2>3, <2>4, <2>5, TypesTogether
<1>8. WorkHasPage'
  <2>1. \A i \in DOMAIN jobs' : jobs'[i].kind = "build" =>
            buffer'[jobs'[i].buffer] \in {"new", "file"} \/ jobs'[i].buffer \in strays'
    BY <1>1, <1>2 DEF CacheInv, WorkHasPage, IsOpenBuffer
  <2>2. \A i \in DOMAIN notices' : notices'[i].kind = "cache" =>
            buffer'[notices'[i].buffer] \in {"new", "file"} \/ notices'[i].buffer \in strays'
    BY <1>2, <1>4 DEF CacheInv, WorkHasPage, IsOpenBuffer
  <2>3. \A b \in DOMAIN caches' : buffer'[b] \in {"new", "file"} \/ b \in strays'
    BY <1>2, <1>4, <1>6 DEF CacheInv, WorkHasPage, IsOpenBuffer, Brings, n
  <2>4. QED
    BY <2>1, <2>2, <2>3 DEF WorkHasPage, IsOpenBuffer
<1>9. ASSUME NEW b \in Buffers
      PROVE  LastIsHanded(b)'
  <2> SUFFICES ASSUME IsOpenBuffer(b), b \notin bereft, handed[b] # 0
               PROVE  (LastIsBuilt(b) \/ LastIsBrought(b) \/ LastIsRegistered(b))'
    BY <1>2 DEF LastIsHanded, IsOpenBuffer
  <2>1. LastIsBuilt(b) \/ LastIsBrought(b) \/ LastIsRegistered(b)
    BY DEF CacheInv, LastIsHanded
  <2>2. CASE LastIsBuilt(b)
    BY <1>1, <1>2, <2>2 DEF LastIsBuilt, Builds
  <2>3. CASE LastIsBrought(b)
    <3>1. PICK i \in DOMAIN notices :
              /\ Brings(notices[i], b) /\ notices[i].text = handed[b]
              /\ \A k \in DOMAIN notices : k > i => ~Brings(notices[k], b)
      BY <2>3 DEF LastIsBrought
    <3>2. \A k \in DOMAIN jobs' : ~Builds(jobs'[k], b)
      BY <1>1, <2>3 DEF LastIsBrought
    <3>3. CASE i = 1
      <4>1. \A k \in DOMAIN notices' : k + 1 > 1
        BY <1>3
      <4>2. \A k \in DOMAIN notices' : ~Brings(notices'[k], b)
        BY <1>4, <3>1, <3>3, <4>1
      <4>3. b \in DOMAIN caches' /\ caches'[b] = handed'[b]
        BY <1>2, <1>6, <3>1, <3>3 DEF n
      <4>4. LastIsRegistered(b)'
        BY <3>2, <4>2, <4>3 DEF LastIsRegistered, Builds, Brings
      <4>5. QED
        BY <4>4
    <3>4. CASE i # 1
      <4>1. i - 1 \in DOMAIN notices' /\ notices'[i - 1] = notices[i]
        BY <1>4, <3>4
      <4>2. \A k \in DOMAIN notices' : k > i - 1 => k + 1 > i
        BY <1>3
      <4>3. \A k \in DOMAIN notices' : k > i - 1 => ~Brings(notices'[k], b)
        BY <1>4, <3>1, <4>2
      <4>4. LastIsBrought(b)'
        BY <1>2, <3>1, <3>2, <4>1, <4>3 DEF LastIsBrought, Builds, Brings
      <4>5. QED
        BY <4>4
    <3>5. QED
      BY <3>3, <3>4
  <2>4. CASE LastIsRegistered(b)
    <3>1. \A k \in DOMAIN notices' : ~Brings(notices'[k], b)
      BY <1>4, <2>4 DEF LastIsRegistered
    <3>2. ~Brings(n, b)
      BY <1>4, <2>4 DEF LastIsRegistered, n
    <3>3. LastIsRegistered(b)'
      BY <1>1, <1>2, <1>6, <2>4, <3>1, <3>2 DEF LastIsRegistered, Builds, Brings
    <3>4. QED
      BY <3>3
  <2>5. QED
    BY <2>1, <2>2, <2>3, <2>4
<1>10. QED
  BY <1>7, <1>8, <1>9 DEF CacheInv

-----------------------------------------------------------------------------
(***************************************************************************)
(* What the user and the timer do.                                         *)
(***************************************************************************)

\* An action that hands no text over: every page keeps what is under way for it, or
\* loses its symbol table and is known for that.
LEMMA PagesKeep ==
    ASSUME CacheInv,
           \/ UNCHANGED jobs
           \/ \E job \in Jobs : QueueJob(job) /\ ~job.begun /\ ~job.done /\ job.kind # "build",
           UNCHANGED <<notices, handed>>, bereft \subseteq bereft', DOMAIN caches' \subseteq DOMAIN caches,
           \A c \in Buffers :
               /\ IsOpenBuffer(c)' => IsOpenBuffer(c)
               /\ \/ c \in bereft' \/ ~IsOpenBuffer(c)'
                  \/ c \in DOMAIN caches => c \in DOMAIN caches' /\ caches'[c] = caches[c]
               /\ (IsOpenBuffer(c) \/ c \in strays) =>
                      \/ IsOpenBuffer(c)' \/ c \in strays'
                      \/ ~UnderWay(c) /\ c \notin DOMAIN caches'
    PROVE  JobTypes' /\ WorkHasPage' /\ \A c \in Buffers : LastIsHanded(c)'
<1>1. JobTypes /\ WorkHasPage
  BY TypesInParts DEF CacheInv
<1>2. JobTypes' /\ \A k \in DOMAIN jobs' : jobs'[k].kind = "build" => k \in DOMAIN jobs /\ jobs'[k] = jobs[k]
  <2>1. CASE UNCHANGED jobs
    BY <1>1, <2>1 DEF JobTypes
  <2>2. ASSUME NEW job \in Jobs, QueueJob(job), ~job.begun, ~job.done, job.kind # "build"
        PROVE  JobTypes' /\ \A k \in DOMAIN jobs' : jobs'[k].kind = "build" => k \in DOMAIN jobs /\ jobs'[k] = jobs[k]
    <3>1. /\ JobTypes' /\ jobs'[Len(jobs')] = job
          /\ \A k \in DOMAIN jobs' : k \in DOMAIN jobs \/ k = Len(jobs')
          /\ \A k \in DOMAIN jobs : jobs'[k] = jobs[k]
      <4>1. /\ JobTypes' /\ Len(jobs') = Len(jobs) + 1 /\ Len(jobs) \in Nat
            /\ DOMAIN jobs = 1 .. Len(jobs) /\ DOMAIN jobs' = 1 .. Len(jobs')
            /\ \A i \in DOMAIN jobs : jobs'[i] = jobs[i]
            /\ jobs'[Len(jobs')] = job
        BY <1>1, <2>2, JobIsAdded
      <4>2. QED
        BY <4>1
    <3>2. QED
      BY <2>2, <3>1
  <2>3. QED
    BY <2>1, <2>2
<1>3. ASSUME NEW c \in Buffers
      PROVE  LastIsHanded(c)'
  <2>1. CASE c \in bereft' \/ ~IsOpenBuffer(c)'
    BY <2>1 DEF LastIsHanded
  <2>2. CASE ~(c \in bereft' \/ ~IsOpenBuffer(c)')
    <3>1. c \in DOMAIN caches => c \in DOMAIN caches' /\ caches'[c] = caches[c]
      BY <2>2
    <3>2. \/ UNCHANGED jobs
          \/ \E job \in Jobs : QueueJob(job) /\ ~job.begun /\ ~job.done /\ ~Builds(job, c)
      BY DEF Builds
    <3>3. LastIsHanded(c) /\ (IsOpenBuffer(c)' => IsOpenBuffer(c)) /\ (c \in bereft => c \in bereft')
      BY DEF CacheInv
    <3>4. UNCHANGED notices /\ handed'[c] = handed[c]
      OBVIOUS
    <3>5. QED
      BY <1>1, <3>1, <3>2, <3>3, <3>4, LastStays
  <2>3. QED
    BY <2>1, <2>2
<1>4. WorkHasPage'
  <2>1. \A c \in Buffers : (IsOpenBuffer(c) \/ c \in strays) =>
            \/ buffer'[c] \in {"new", "file"} \/ c \in strays'
            \/ ~UnderWay(c) /\ c \notin DOMAIN caches'
    BY DEF IsOpenBuffer
  <2>2. /\ \A i \in DOMAIN jobs : jobs[i].kind = "build" => jobs[i].buffer \in Buffers
        /\ \A i \in DOMAIN notices : notices[i].kind = "cache" => notices[i].buffer \in Buffers
        /\ DOMAIN caches \subseteq Buffers
    <3>1. \A i \in DOMAIN jobs : jobs[i] \in Jobs
      BY <1>1 DEF JobTypes
    <3>2. \A i \in DOMAIN notices : notices[i] \in Notices
      BY DEF CacheInv, CacheTypeOK
    <3>3. DOMAIN caches \subseteq Buffers
      BY DEF CacheInv, CacheTypeOK
    <3>4. QED
      BY <3>1, <3>2, <3>3 DEF Jobs, Notices
  <2>3. \A k \in DOMAIN jobs' : jobs'[k].kind = "build" =>
            buffer'[jobs'[k].buffer] \in {"new", "file"} \/ jobs'[k].buffer \in strays'
    BY <1>1, <1>2, <2>1, <2>2 DEF WorkHasPage, UnderWay
  <2>4. \A k \in DOMAIN notices' : notices'[k].kind = "cache" =>
            buffer'[notices'[k].buffer] \in {"new", "file"} \/ notices'[k].buffer \in strays'
    BY <1>1, <2>1, <2>2 DEF WorkHasPage, UnderWay
  <2>5. \A c \in DOMAIN caches' : buffer'[c] \in {"new", "file"} \/ c \in strays'
    BY <1>1, <2>1, <2>2 DEF WorkHasPage
  <2>6. QED
    BY <2>3, <2>4, <2>5 DEF WorkHasPage, IsOpenBuffer
<1>5. QED
  BY <1>2, <1>3, <1>4

\* Another page is shown, or the page is edited or saved.
LEMMA UseKeeps ==
    ASSUME CacheInv, NEW b \in Buffers, NEW plainKey \in BOOLEAN,
           ShowBuffer(b) \/ EditBuffer(b, plainKey) \/ SaveBuffer(b)
    PROVE  CacheInv'
<1>1. PageTypes /\ TagTypes /\ notices \in Seq(Notices) /\ wipes \in 0 .. MaxWipes
      /\ reparseTimer \in BOOLEAN /\ indexing \in BOOLEAN
  BY TypesInParts DEF CacheInv
<1>2. UNCHANGED <<reparseTimer, jobs, notices, caches, rows, indexing, wipes, handed, bereft, strays>>
  BY DEF ShowBuffer, EditBuffer, SaveBuffer, NothingElse, ghosts
<1>3. /\ buffer' \in [Buffers -> {"none", "new", "file", "gone"}]
      /\ \A c \in Buffers : buffer'[c] \in {"new", "file"} <=> IsOpenBuffer(c)
  <2>1. CASE SaveBuffer(b)
    BY <1>1, <2>1 DEF SaveBuffer, PageTypes, IsOpenBuffer
  <2>2. CASE ShowBuffer(b) \/ EditBuffer(b, plainKey)
    BY <1>1, <2>2 DEF ShowBuffer, EditBuffer, PageTypes, IsOpenBuffer
  <2>3. QED
    BY <2>1, <2>2
<1>4. PageTypes'
  <2>1. text' \in [Buffers -> TextNumbers] /\ newest' \in [Buffers -> TextNumbers] /\ saved' \in [Buffers -> TextNumbers]
    <3>1. CASE EditBuffer(b, plainKey)
      <4>1. newest[b] + 1 \in TextNumbers
        BY <1>1, <3>1, CacheAssumption DEF EditBuffer, PageTypes, TextNumbers
      <4>2. newest' = [newest EXCEPT ![b] = newest[b] + 1] /\ text' = [text EXCEPT ![b] = newest'[b]] /\ saved' = saved
        BY <3>1 DEF EditBuffer
      <4>3. newest' \in [Buffers -> TextNumbers] /\ newest'[b] \in TextNumbers
        BY <1>1, <4>1, <4>2 DEF PageTypes
      <4>4. QED
        BY <1>1, <4>2, <4>3 DEF PageTypes
    <3>2. CASE SaveBuffer(b)
      <4>1. saved' = [saved EXCEPT ![b] = text[b]] /\ UNCHANGED <<text, newest>>
        BY <3>2 DEF SaveBuffer
      <4>2. text[b] \in TextNumbers
        BY <1>1 DEF PageTypes
      <4>3. QED
        BY <1>1, <4>1, <4>2 DEF PageTypes
    <3>3. CASE ShowBuffer(b)
      BY <1>1, <3>3 DEF ShowBuffer, PageTypes
    <3>4. QED
      BY <3>1, <3>2, <3>3
  <2>2. touched' \cup bereft' \cup strays' \subseteq Buffers
    BY <1>1, <1>2 DEF PageTypes, ShowBuffer, EditBuffer, SaveBuffer
  <2>3. shown' \in Buffers \cup {NoBuffer} /\ (shown' \in Buffers => IsOpenBuffer(shown'))
    BY <1>1 DEF PageTypes, ShowBuffer, EditBuffer, SaveBuffer
  <2>4. handed' \in [Buffers -> TextNumbers]
    BY <1>1, <1>2 DEF PageTypes
  <2>5. shown' \in Buffers => buffer'[shown'] \in {"new", "file"}
    BY <1>3, <2>3
  <2>6. QED
    BY <1>3, <2>1, <2>2, <2>3, <2>4, <2>5 DEF PageTypes, IsOpenBuffer
<1>5. JobTypes' /\ WorkHasPage' /\ \A c \in Buffers : LastIsHanded(c)'
  <2>1. \A c \in Buffers : IsOpenBuffer(c)' <=> IsOpenBuffer(c)
    BY <1>3 DEF IsOpenBuffer
  <2>2. QED
    BY <1>2, <2>1, PagesKeep
<1>6. TagTypes' /\ notices' \in Seq(Notices) /\ wipes' \in 0 .. MaxWipes
      /\ reparseTimer' \in BOOLEAN /\ indexing' \in BOOLEAN
  BY <1>1, <1>2 DEF TagTypes
<1>7. CacheTypeOK'
  BY <1>4, <1>5, <1>6, TypesTogether
<1>8. QED
  BY <1>5, <1>7 DEF CacheInv

\* A page is opened or reverted, or the timer expires for it.
LEMMA HandingKeeps ==
    ASSUME CacheInv, NEW b \in Buffers, NEW parse \in BOOLEAN, HandToBuilder(b, parse),
           buffer' \in [Buffers -> {"none", "new", "file", "gone"}],
           \A c \in Buffers \ {b} : buffer'[c] = buffer[c],
           buffer'[b] \in {"new", "file"}, IsOpenBuffer(b) \/ text'[b] \notin BrokenTexts,
           text' \in [Buffers -> TextNumbers], newest' \in [Buffers -> TextNumbers],
           saved' = saved, touched' \subseteq Buffers, shown' = b
    PROVE  CacheInv'
<1>1. PageTypes /\ TagTypes /\ notices \in Seq(Notices) /\ wipes \in 0 .. MaxWipes
      /\ indexing \in BOOLEAN
  BY TypesInParts DEF CacheInv
<1>2. reparseTimer' = FALSE /\ UNCHANGED <<notices, caches, rows, indexing, wipes, strays>>
  BY DEF HandToBuilder
<1>3. \A c \in Buffers \ {b} : IsOpenBuffer(c)' <=> IsOpenBuffer(c)
  BY DEF IsOpenBuffer
<1>4. /\ JobTypes' /\ handed' \in [Buffers -> TextNumbers] /\ bereft' \subseteq Buffers
      /\ \A c \in Buffers : LastIsHanded(c)'
      /\ WorkHasPage'
  BY <1>3, TextIsHanded
<1>5. PageTypes'
  BY <1>1, <1>2, <1>4 DEF PageTypes, IsOpenBuffer
<1>6. TagTypes' /\ notices' \in Seq(Notices) /\ wipes' \in 0 .. MaxWipes
      /\ reparseTimer' \in BOOLEAN /\ indexing' \in BOOLEAN
  BY <1>1, <1>2 DEF TagTypes
<1>7. CacheTypeOK'
  BY <1>4, <1>5, <1>6, TypesTogether
<1>8. QED
  BY <1>4, <1>7 DEF CacheInv

LEMMA TextsAreHanded ==
    ASSUME CacheInv, NEW b \in Buffers, OpenBuffer(b) \/ OnAppFileReverted(b)
    PROVE  CacheInv'
<1>1. PageTypes
  BY TypesInParts DEF CacheInv
<1>2. CASE OpenBuffer(b)
  <2>1. 1 \in TextNumbers /\ 1 \notin BrokenTexts
    BY CacheAssumption DEF TextNumbers
  <2>2. /\ HandToBuilder(b, FALSE) /\ saved' = saved /\ touched' = touched /\ shown' = b
        /\ buffer' = [buffer EXCEPT ![b] = IF saved[b] = 0 THEN "new" ELSE "file"]
        /\ text' = [text EXCEPT ![b] = 1] /\ newest' = [newest EXCEPT ![b] = 1]
    BY <1>2 DEF OpenBuffer
  <2>3. /\ buffer' \in [Buffers -> {"none", "new", "file", "gone"}]
        /\ \A c \in Buffers \ {b} : buffer'[c] = buffer[c]
        /\ buffer'[b] \in {"new", "file"}
    BY <1>1, <2>2 DEF PageTypes
  <2>4. text' \in [Buffers -> TextNumbers] /\ newest' \in [Buffers -> TextNumbers] /\ text'[b] = 1
    BY <1>1, <2>1, <2>2 DEF PageTypes
  <2>5. touched' \subseteq Buffers
    BY <1>1, <2>2 DEF PageTypes
  <2> QED
    BY <2>1, <2>2, <2>3, <2>4, <2>5, HandingKeeps
<1>3. CASE OnAppFileReverted(b)
  <2>1. /\ HandToBuilder(b, TRUE) /\ UNCHANGED <<buffer, newest, saved, touched, shown>>
        /\ text' = [text EXCEPT ![b] = saved[b]] /\ shown = b /\ buffer[b] = "file"
    BY <1>3 DEF OnAppFileReverted
  <2>2. saved[b] \in TextNumbers
    BY <1>1 DEF PageTypes
  <2>3. text' \in [Buffers -> TextNumbers] /\ newest' \in [Buffers -> TextNumbers] /\ touched' \subseteq Buffers
        /\ buffer' \in [Buffers -> {"none", "new", "file", "gone"}]
    BY <1>1, <2>1, <2>2 DEF PageTypes
  <2>4. IsOpenBuffer(b) /\ buffer'[b] \in {"new", "file"} /\ \A c \in Buffers \ {b} : buffer'[c] = buffer[c]
    BY <2>1 DEF IsOpenBuffer
  <2>5. QED
    BY <2>1, <2>3, <2>4, HandingKeeps
<1>4. QED
  BY <1>2, <1>3

LEMMA ReparseShownKeeps ==
    ASSUME CacheInv, ReparseShown
    PROVE  CacheInv'
<1>1. PageTypes
  BY TypesInParts DEF CacheInv
<1>2. /\ shown \in touched /\ touched' = touched \ {shown} /\ HandToBuilder(shown, TRUE)
      /\ UNCHANGED <<buffer, text, newest, saved, shown>>
  BY DEF ReparseShown
<1>3. shown \in Buffers /\ IsOpenBuffer(shown)
  BY <1>1, <1>2 DEF PageTypes
<1>4. text' \in [Buffers -> TextNumbers] /\ newest' \in [Buffers -> TextNumbers] /\ touched' \subseteq Buffers
      /\ buffer' \in [Buffers -> {"none", "new", "file", "gone"}]
  BY <1>1, <1>2 DEF PageTypes
<1>5. buffer'[shown] \in {"new", "file"} /\ \A c \in Buffers \ {shown} : buffer'[c] = buffer[c]
  BY <1>2, <1>3 DEF IsOpenBuffer
<1>6. QED
  BY <1>2, <1>3, <1>4, <1>5, HandingKeeps

\* The page that is left is no longer open, and another one is shown.
LEMMA LeavingKeepsTypes ==
    ASSUME CacheInv, NEW b \in Buffers, Leave(b), bereft' \subseteq Buffers, strays' \subseteq Buffers, handed' = handed
    PROVE  /\ PageTypes'
           /\ ~IsOpenBuffer(b)' /\ \A c \in Buffers \ {b} : buffer'[c] = buffer[c]
<1>1. PageTypes
  BY TypesInParts DEF CacheInv
<1>2. /\ buffer' = [buffer EXCEPT ![b] = "gone"] /\ touched' = touched \ {b}
      /\ shown' \in {c \in Buffers \ {b} : IsOpenBuffer(c)} \cup {NoBuffer}
      /\ UNCHANGED <<text, newest, saved>>
  BY DEF Leave
<1>3. /\ buffer' \in [Buffers -> {"none", "new", "file", "gone"}] /\ buffer'[b] = "gone"
      /\ \A c \in Buffers \ {b} : buffer'[c] = buffer[c]
  BY <1>1, <1>2 DEF PageTypes
<1>4. shown' \in Buffers \cup {NoBuffer} /\ (shown' \in Buffers => buffer'[shown'] \in {"new", "file"})
  BY <1>2, <1>3, CacheAssumption DEF IsOpenBuffer
<1>5. {text, newest, saved, handed}' \subseteq [Buffers -> TextNumbers] /\ touched' \subseteq Buffers
  BY <1>1, <1>2 DEF PageTypes
<1>6. PageTypes'
  BY <1>3, <1>4, <1>5 DEF PageTypes, IsOpenBuffer
<1>7. QED
  BY <1>3, <1>6 DEF IsOpenBuffer

\* What is done for the event of a closed file.
LEMMA ClosedEvent ==
    ASSUME CacheInv, NEW b \in Buffers, OnAppFileClosed(b)
    PROVE  /\ \/ UNCHANGED jobs
              \/ \E job \in Jobs : QueueJob(job) /\ ~job.begun /\ ~job.done /\ job.kind # "build"
           /\ TagTypes' /\ DOMAIN caches' = DOMAIN caches \ {b}
           /\ \A c \in DOMAIN caches \ {b} : caches'[c] = caches[c]
           /\ bereft' = bereft \cup {b} /\ bereft' \subseteq Buffers
           /\ UNCHANGED <<reparseTimer, notices, indexing, wipes, handed>>
<1>1. PageTypes /\ TagTypes /\ caches \in CacheMaps
  BY TypesInParts DEF CacheInv, TagTypes, CacheMaps
<1>2. /\ IF buffer[b] = "file" THEN QueueJob(Tagger(b)) /\ UNCHANGED rows
         ELSE UNCHANGED jobs /\ rows' = [rows EXCEPT ![<<b, "identifier">>] = NoTags]
      /\ caches' = WithoutCache(b) /\ bereft' = bereft \cup {b}
      /\ UNCHANGED <<reparseTimer, notices, indexing, wipes, handed>>
  BY DEF OnAppFileClosed
<1>3. \/ UNCHANGED jobs
      \/ \E job \in Jobs : QueueJob(job) /\ ~job.begun /\ ~job.done /\ job.kind # "build"
  <2>1. Tagger(b) \in Jobs /\ ~Tagger(b).begun /\ ~Tagger(b).done /\ Tagger(b).kind # "build"
    BY JobsAreJobs
  <2>2. QED
    BY <1>2, <2>1
<1>4. rows' \in [Names -> [tags : TextNumbers, time : TextNumbers]]
  <2>1. <<b, "identifier">> \in Names /\ NoTags \in [tags : TextNumbers, time : TextNumbers]
    BY CacheAssumption DEF Names, NoTags, TextNumbers
  <2>2. QED
    BY <1>1, <1>2, <2>1 DEF TagTypes
<1>5. /\ WithoutCache(b) \in CacheMaps /\ DOMAIN WithoutCache(b) = DOMAIN caches \ {b}
      /\ \A c \in DOMAIN caches \ {b} : WithoutCache(b)[c] = caches[c]
  <2>1. 0 \in TextNumbers
    BY CacheAssumption DEF TextNumbers
  <2>2. QED
    BY <1>1, <2>1, CachesAreCaches
<1>6. TagTypes'
  BY <1>2, <1>4, <1>5 DEF TagTypes, CacheMaps
<1>7. bereft' \subseteq Buffers
  BY <1>1, <1>2 DEF PageTypes
<1>8. QED
  BY <1>2, <1>3, <1>5, <1>6, <1>7

LEMMA CloseBufferKeeps ==
    ASSUME CacheInv, NEW b \in Buffers, CloseBuffer(b)
    PROVE  CacheInv'
<1>1. Leave(b) /\ OnAppFileClosed(b) /\ strays' = IF UnderWay(b) THEN strays \cup {b} ELSE strays
  BY DEF CloseBuffer
<1>2. /\ \/ UNCHANGED jobs
         \/ \E job \in Jobs : QueueJob(job) /\ ~job.begun /\ ~job.done /\ job.kind # "build"
      /\ TagTypes' /\ DOMAIN caches' = DOMAIN caches \ {b}
      /\ \A c \in DOMAIN caches \ {b} : caches'[c] = caches[c]
      /\ bereft' = bereft \cup {b} /\ bereft' \subseteq Buffers
      /\ UNCHANGED <<reparseTimer, notices, indexing, wipes, handed>>
  BY <1>1, ClosedEvent
<1>3. PageTypes /\ notices \in Seq(Notices) /\ wipes \in 0 .. MaxWipes
      /\ reparseTimer \in BOOLEAN /\ indexing \in BOOLEAN
  BY TypesInParts DEF CacheInv
<1>4. strays' \subseteq Buffers
  BY <1>1, <1>3 DEF PageTypes
<1>5. /\ PageTypes'
      /\ ~IsOpenBuffer(b)' /\ \A c \in Buffers \ {b} : buffer'[c] = buffer[c]
  BY <1>1, <1>2, <1>4, LeavingKeepsTypes
<1>6. JobTypes' /\ WorkHasPage' /\ \A c \in Buffers : LastIsHanded(c)'
  <2>1. \A c \in Buffers :
            /\ IsOpenBuffer(c)' => IsOpenBuffer(c)
            /\ c = b \/ (IsOpenBuffer(c) => IsOpenBuffer(c)')
    BY <1>5 DEF IsOpenBuffer
  <2>2. \A c \in Buffers : c # b => (c \in DOMAIN caches => c \in DOMAIN caches' /\ caches'[c] = caches[c])
    BY <1>2
  <2>3. b \in bereft' /\ b \notin DOMAIN caches' /\ (UnderWay(b) => b \in strays') /\ strays \subseteq strays'
    BY <1>1, <1>2
  <2>4. \A c \in Buffers :
            /\ IsOpenBuffer(c)' => IsOpenBuffer(c)
            /\ \/ c \in bereft' \/ ~IsOpenBuffer(c)'
               \/ c \in DOMAIN caches => c \in DOMAIN caches' /\ caches'[c] = caches[c]
            /\ (IsOpenBuffer(c) \/ c \in strays) =>
                   \/ IsOpenBuffer(c)' \/ c \in strays'
                   \/ ~UnderWay(c) /\ c \notin DOMAIN caches'
    BY <2>1, <2>2, <2>3
  <2>5. UNCHANGED <<notices, handed>> /\ bereft \subseteq bereft' /\ DOMAIN caches' \subseteq DOMAIN caches
    BY <1>2
  <2>6. QED
    BY <1>2, <2>4, <2>5, PagesKeep
<1>7. CacheTypeOK'
  <2>1. notices' \in Seq(Notices) /\ wipes' \in 0 .. MaxWipes /\ reparseTimer' \in BOOLEAN /\ indexing' \in BOOLEAN
    BY <1>2, <1>3
  <2>2. QED
    BY <1>2, <1>5, <1>6, <2>1, TypesTogether
<1>8. QED
  BY <1>6, <1>7 DEF CacheInv

LEMMA CancelClosingKeeps ==
    ASSUME CacheInv, NEW b \in Buffers, CancelClosing(b)
    PROVE  CacheInv'
<1>1. OnAppFileClosed(b) /\ UNCHANGED <<buffer, text, newest, saved, touched, shown, strays>>
  BY DEF CancelClosing, pageVars
<1>2. /\ \/ UNCHANGED jobs
         \/ \E job \in Jobs : QueueJob(job) /\ ~job.begun /\ ~job.done /\ job.kind # "build"
      /\ TagTypes' /\ DOMAIN caches' = DOMAIN caches \ {b}
      /\ \A c \in DOMAIN caches \ {b} : caches'[c] = caches[c]
      /\ bereft' = bereft \cup {b} /\ bereft' \subseteq Buffers
      /\ UNCHANGED <<reparseTimer, notices, indexing, wipes, handed>>
  BY <1>1, ClosedEvent
<1>3. PageTypes /\ notices \in Seq(Notices) /\ wipes \in 0 .. MaxWipes
      /\ reparseTimer \in BOOLEAN /\ indexing \in BOOLEAN
  BY TypesInParts DEF CacheInv
<1>4. PageTypes'
  BY <1>1, <1>2, <1>3 DEF PageTypes, IsOpenBuffer
<1>5. JobTypes' /\ WorkHasPage' /\ \A c \in Buffers : LastIsHanded(c)'
  <2>1. \A c \in Buffers : IsOpenBuffer(c)' <=> IsOpenBuffer(c)
    BY <1>1 DEF IsOpenBuffer
  <2>2. \A c \in Buffers : c # b => (c \in DOMAIN caches => c \in DOMAIN caches' /\ caches'[c] = caches[c])
    BY <1>2
  <2>3. b \in bereft' /\ strays' = strays
    BY <1>1, <1>2
  <2>4. UNCHANGED <<notices, handed>> /\ bereft \subseteq bereft' /\ DOMAIN caches' \subseteq DOMAIN caches
    BY <1>2
  <2>5. QED
    BY <1>2, <2>1, <2>2, <2>3, <2>4, PagesKeep
<1>6. CacheTypeOK'
  <2>1. notices' \in Seq(Notices) /\ wipes' \in 0 .. MaxWipes /\ reparseTimer' \in BOOLEAN /\ indexing' \in BOOLEAN
    BY <1>2, <1>3
  <2>2. QED
    BY <1>2, <1>4, <1>5, <2>1, TypesTogether
<1>7. QED
  BY <1>5, <1>6 DEF CacheInv

LEMMA CloseByMenuKeeps ==
    ASSUME CacheInv, NEW b \in Buffers, CloseByMenu(b)
    PROVE  CacheInv'
<1>1. Leave(b) /\ strays' = strays \cup {b}
      /\ UNCHANGED <<reparseTimer, jobs, notices, caches, rows, indexing, wipes, handed, bereft>>
  BY DEF CloseByMenu
<1>2. PageTypes /\ TagTypes /\ notices \in Seq(Notices) /\ wipes \in 0 .. MaxWipes
      /\ reparseTimer \in BOOLEAN /\ indexing \in BOOLEAN
  BY TypesInParts DEF CacheInv
<1>3. strays' \subseteq Buffers /\ bereft' \subseteq Buffers
  BY <1>1, <1>2 DEF PageTypes
<1>4. /\ PageTypes'
      /\ ~IsOpenBuffer(b)' /\ \A c \in Buffers \ {b} : buffer'[c] = buffer[c]
  BY <1>1, <1>3, LeavingKeepsTypes
<1>5. JobTypes' /\ WorkHasPage' /\ \A c \in Buffers : LastIsHanded(c)'
  <2>1. \A c \in Buffers :
            /\ IsOpenBuffer(c)' => IsOpenBuffer(c)
            /\ c = b \/ (IsOpenBuffer(c) => IsOpenBuffer(c)')
    BY <1>4 DEF IsOpenBuffer
  <2>2. b \in strays' /\ strays \subseteq strays'
    BY <1>1
  <2>3. QED
    BY <1>1, <2>1, <2>2, PagesKeep
<1>6. CacheTypeOK'
  <2>1. notices' \in Seq(Notices) /\ wipes' \in 0 .. MaxWipes /\ reparseTimer' \in BOOLEAN /\ indexing' \in BOOLEAN
    BY <1>1, <1>2
  <2>2. TagTypes'
    BY <1>1, <1>2 DEF TagTypes
  <2>3. QED
    BY <1>4, <1>5, <2>1, <2>2, TypesTogether
<1>7. QED
  BY <1>5, <1>6 DEF CacheInv

LEMMA OnProjectWipeAndIndexKeeps ==
    ASSUME CacheInv, OnProjectWipeAndIndex
    PROVE  CacheInv'
<1>1. /\ wipes < MaxWipes /\ wipes' = wipes + 1 /\ reparseTimer' = FALSE /\ indexing' = TRUE
      /\ UNCHANGED jobs \/ QueueJob(Indexer)
      /\ UNCHANGED <<buffer, text, newest, saved, touched, shown, notices, caches, rows, handed, bereft, strays>>
  BY DEF OnProjectWipeAndIndex, pageVars, ghosts
<1>2. PageTypes /\ TagTypes /\ notices \in Seq(Notices) /\ wipes \in 0 .. MaxWipes
  BY TypesInParts DEF CacheInv
<1>3. PageTypes' /\ TagTypes'
  <2>1. PageTypes'
    BY <1>1, <1>2 DEF PageTypes, IsOpenBuffer
  <2>2. TagTypes'
    BY <1>1, <1>2 DEF TagTypes
  <2>3. QED
    BY <2>1, <2>2
<1>4. JobTypes' /\ WorkHasPage' /\ \A c \in Buffers : LastIsHanded(c)'
  <2>1. \/ UNCHANGED jobs
        \/ \E job \in Jobs : QueueJob(job) /\ ~job.begun /\ ~job.done /\ job.kind # "build"
    <3>1. Indexer \in Jobs /\ ~Indexer.begun /\ ~Indexer.done /\ Indexer.kind # "build"
      BY JobsAreJobs
    <3>2. QED
      BY <1>1, <3>1
  <2>2. \A c \in Buffers : IsOpenBuffer(c)' <=> IsOpenBuffer(c)
    BY <1>1 DEF IsOpenBuffer
  <2>3. QED
    BY <1>1, <2>1, <2>2, PagesKeep
<1>5. CacheTypeOK'
  <2>1. wipes' \in 0 .. MaxWipes
    BY <1>1, <1>2, CacheAssumption
  <2>2. notices' \in Seq(Notices) /\ reparseTimer' \in BOOLEAN /\ indexing' \in BOOLEAN
    BY <1>1, <1>2
  <2>3. QED
    BY <1>3, <1>4, <2>1, <2>2, TypesTogether
<1>6. QED
  BY <1>4, <1>5 DEF CacheInv

-----------------------------------------------------------------------------
(***************************************************************************)
(* The invariant, and what follows from it.                                *)
(***************************************************************************)

LEMMA CacheInvStep == CacheInv /\ [CacheNext]_cacheVars => CacheInv'
<1> SUFFICES ASSUME CacheInv, [CacheNext]_cacheVars PROVE CacheInv'
  OBVIOUS
<1>1. ASSUME NEW b \in Buffers, OpenBuffer(b) \/ OnAppFileReverted(b)
      PROVE  CacheInv'
  BY <1>1, TextsAreHanded
<1>2. ASSUME NEW b \in Buffers, NEW k \in BOOLEAN, ShowBuffer(b) \/ EditBuffer(b, k) \/ SaveBuffer(b)
      PROVE  CacheInv'
  BY <1>2, UseKeeps
<1>3. ASSUME NEW b \in Buffers, CloseBuffer(b)
      PROVE  CacheInv'
  BY <1>3, CloseBufferKeeps
<1>4. ASSUME NEW b \in Buffers, CancelClosing(b)
      PROVE  CacheInv'
  BY <1>4, CancelClosingKeeps
<1>5. ASSUME NEW b \in Buffers, CloseByMenu(b)
      PROVE  CacheInv'
  BY <1>5, CloseByMenuKeeps
<1>6. CASE ReparseShown
  BY <1>6, ReparseShownKeeps
<1>7. CASE OnProjectWipeAndIndex
  BY <1>7, OnProjectWipeAndIndexKeeps
<1>8. CASE PoolWorks
  BY <1>8, BeginJobKeeps, RunJobKeeps, EndJobKeeps DEF PoolWorks
<1>9. CASE SequenceEnds
  BY <1>9, SequenceEndsKeeps
<1>10. CASE HandleNotice
  BY <1>10, HandleNoticeKeeps
<1>11. ASSUME NEW through \in BOOLEAN, StopPool(through)
       PROVE  CacheInv'
  BY <1>11, StopPoolKeeps
<1>12. CASE UNCHANGED cacheVars
  <2>1. UNCHANGED <<buffer, text, newest, saved, touched, shown, reparseTimer, jobs, notices, caches,
                    rows, indexing, wipes, handed, bereft, strays>>
    BY <1>12 DEF cacheVars
  <2>2. CacheTypeOK'
    BY <2>1 DEF CacheInv, CacheTypeOK
  <2>3. WorkHasPage'
    BY <2>1 DEF CacheInv, WorkHasPage, IsOpenBuffer
  <2>4. \A b \in Buffers : LastIsHanded(b)'
    BY <2>1 DEF CacheInv, LastIsHanded, IsOpenBuffer, LastIsBuilt, LastIsBrought, LastIsRegistered, Builds, Brings
  <2>5. QED
    BY <2>2, <2>3, <2>4 DEF CacheInv
<1>13. TRUE \in BOOLEAN
  OBVIOUS
<1>14. QED
  BY <1>1, <1>2, <1>3, <1>4, <1>5, <1>6, <1>7, <1>8, <1>9, <1>10, <1>11, <1>12, <1>13 DEF CacheNext

THEOREM CacheInvHolds == CacheSpec => []CacheInv
<1>1. CacheInit => CacheInv
  BY CacheInvInit
<1>2. CacheInv /\ [CacheNext]_cacheVars => CacheInv'
  BY CacheInvStep
<1>3. QED
  BY <1>1, <1>2, PTL DEF CacheSpec

\* Pages, symbol tables, tags, jobs and events are of their types: at most one
\* action of the pool has begun, and it is the first.
THEOREM CacheTypeCorrect == CacheSpec => []CacheTypeOK
<1>1. CacheInv => CacheTypeOK
  BY DEF CacheInv
<1>2. QED
  BY <1>1, CacheInvHolds, PTL

\* However pages are opened, typed in, reverted, closed and parsed, and however the
\* pool and its events fall in between: once no builder is under way for a page, its
\* symbol table is that of the last good text that was handed to one, unless its
\* builder was dropped or its table was taken away for a closing that was cancelled.
THEOREM CachesStayCurrent == CacheSpec => []CachesAreCurrent
<1>1. CacheInv => CachesAreCurrent
  BY CacheInvImpliesCurrent
<1>2. QED
  BY <1>1, CacheInvHolds, PTL

-----------------------------------------------------------------------------
(***************************************************************************)
(* The lint checks.                                                        *)
(***************************************************************************)

\* What RemoveErrorsFor has of the errors and the rows on its way through them.
Removals == [errors : Seq(PhpFiles), rows : Seq(PhpFiles), row : Int]

LEMMA PassErrorKeeps ==
    ASSUME NEW s \in Removals, NEW e \in PhpFiles, NEW f
    PROVE  PassError(s, e, f) \in Removals
<1>1. /\ s.errors \in Seq(PhpFiles) /\ s.rows \in Seq(PhpFiles) /\ s.row \in Int
      /\ s = [errors |-> s.errors, rows |-> s.rows, row |-> s.row]
  BY DEF Removals
<1>2. CASE e # f
  <2>1. PassError(s, e, f) = [errors |-> Append(s.errors, e), rows |-> s.rows, row |-> s.row + 1]
    BY <1>1, <1>2 DEF PassError
  <2> QED
    BY <1>1, <2>1 DEF Removals
<1>3. CASE e = f
  <2> DEFINE left == IF s.row \in 0 .. Len(s.rows) - 1 THEN RemoveAt(s.rows, s.row + 1) ELSE s.rows
  <2>1. PassError(s, e, f) = [errors |-> s.errors, rows |-> left, row |-> s.row - 1]
    BY <1>1, <1>3 DEF PassError
  <2>2. left \in Seq(PhpFiles)
    <3>1. CASE s.row \in 0 .. Len(s.rows) - 1
      <4>1. s.row + 1 \in DOMAIN s.rows
        BY <1>1, <3>1, LenProperties
      <4> QED
        BY <1>1, <3>1, <4>1, RemoveAtProperties
    <3> QED
      BY <1>1, <3>1
  <2> HIDE DEF left
  <2> QED
    BY <1>1, <2>1, <2>2 DEF Removals
<1> QED
  BY <1>2, <1>3

LEMMA RemovingKeepsTypes ==
    ASSUME LintErrors \in Seq(PhpFiles), rowsShown \in Seq(PhpFiles), NEW f
    PROVE  RemoveErrorsFor(f) \in Removals
<1> DEFINE L == Len(LintErrors)
           d == [errors |-> << >>, rows |-> rowsShown, row |-> 0]
           E(a) == a = [i \in 0 .. L |-> IF i = 0 THEN d ELSE PassError(a[i - 1], LintErrors[i], f)]
           after == CHOOSE a : E(a)
           G == [p \in (1 .. L) \X Removals |-> PassError(p[2], LintErrors[p[1]], f)]
<1>1. L \in Nat /\ \A i \in 1 .. L : LintErrors[i] \in PhpFiles
  BY LenProperties, ElementOfSeq
<1>2. d \in Removals
  BY DEF Removals
<1>3. \A i \in 1 .. L, s \in Removals : PassError(s, LintErrors[i], f) \in Removals
  BY <1>1, PassErrorKeeps
<1>4. G \in [(1 .. L) \X Removals -> Removals]
  BY <1>3
<1>5. \A i \in 1 .. L, s \in Removals : G[<<i, s>>] = PassError(s, LintErrors[i], f)
  OBVIOUS
<1> HIDE DEF G, d, L
<1>6. \E g : IsLoop(g, Removals, L, d, G)
  BY <1>1, <1>2, <1>4, LoopExists
<1>7. PICK g \in [0 .. L -> Removals] : g[0] = d /\ \A i \in 1 .. L : g[i] = G[<<i, g[i - 1]>>]
  BY <1>6 DEF IsLoop
<1>8. E(g)
  <2> DEFINE h == [i \in 0 .. L |-> IF i = 0 THEN d ELSE PassError(g[i - 1], LintErrors[i], f)]
  <2>1. \A i \in 0 .. L : i # 0 => i \in 1 .. L /\ i - 1 \in 0 .. L
    BY <1>1
  <2>2. \A i \in 0 .. L : g[i] = h[i]
    BY <1>5, <1>7, <2>1
  <2>3. g = h
    BY <2>2
  <2> QED
    BY <2>3
<1>9. E(after)
  <2> HIDE DEF E
  <2> QED
    BY <1>8
<1> HIDE DEF after
<1>10. after[0] = d /\ \A i \in 1 .. L : after[i] = PassError(after[i - 1], LintErrors[i], f)
  <2>1. 0 \in 0 .. L /\ \A i \in 1 .. L : i \in 0 .. L /\ i # 0
    BY <1>1
  <2> QED
    BY <1>9, <2>1
<1>11. \A i \in 1 .. L : after[i - 1] \in Removals => after[i] \in Removals
  BY <1>3, <1>10
<1>12. \A i \in 0 .. L : after[i] \in Removals
  BY <1>1, <1>2, <1>10, <1>11, LoopKeeps
<1>13. RemoveErrorsFor(f) = after[L]
  BY DEF RemoveErrorsFor, after, E, L, d
<1> QED
  BY <1>1, <1>12, <1>13

LEMMA LintInitTypes == LintInit => LintTypeOK
<1> SUFFICES ASSUME LintInit PROVE LintTypeOK
  OBVIOUS
<1>1. MaxErrors \in Nat /\ MaxLints \in Nat /\ MaxFileSaves \in Nat
  BY LintAssumption
<1>2. errorsIn \in [PhpFiles -> 0 .. MaxErrors]
  BY <1>1 DEF LintInit
<1>3. << >> \in Seq(PhpFiles) /\ << >> \in Seq(LintEvents)
  BY EmptySeq
<1>4. saves \in 0 .. MaxFileSaves /\ lints \in 0 .. MaxLints /\ RunningActionId \in 0 .. lints
  BY <1>1 DEF LintInit
<1>5. panelOpen \in BOOLEAN /\ runEnabled \in BOOLEAN /\ gauge \in BOOLEAN /\ ~runEnabled
  BY DEF LintInit
<1>6. LintErrors = << >> /\ rowsShown = << >> /\ lintEvents = << >> /\ checks = {} /\ dropped = {}
  BY DEF LintInit
<1> QED
  BY <1>2, <1>3, <1>4, <1>5, <1>6 DEF LintTypeOK

\* The parts of the types that an action leaves as they are.
LintPanelTypes ==
    /\ panelOpen \in BOOLEAN /\ runEnabled \in BOOLEAN /\ gauge \in BOOLEAN
    /\ LintErrors \in Seq(PhpFiles) /\ rowsShown \in Seq(PhpFiles)
    /\ ~panelOpen => LintErrors = << >> /\ rowsShown = << >> /\ ~runEnabled

LEMMA CheckFields ==
    ASSUME NEW c \in Checks
    PROVE  /\ c.id \in 0 .. MaxLints /\ c.left \in Seq(PhpFiles)
           /\ c.runs \in BOOLEAN /\ c.cancelled \in BOOLEAN
           /\ [c EXCEPT !.runs = TRUE] \in Checks
           /\ [c EXCEPT !.cancelled = TRUE] \in Checks
           /\ \A s \in Seq(PhpFiles) : [c EXCEPT !.left = s] \in Checks
BY DEF Checks

\* An error and the other events are told apart by their kinds.
LEMMA LintErrorFields ==
    ASSUME NEW e \in LintEvents, e.kind \in {"error", "error after save"}
    PROVE  e.file \in PhpFiles /\ e.count \in 1 .. MaxErrors
<1>1. e \notin [kind : {"summary", "complete"}]
  OBVIOUS
<1> QED
  BY <1>1 DEF LintEvents

LEMMA CancellingKeepsChecks ==
    ASSUME checks \subseteq Checks, NEW id, NEW cs \in Cancelled(id)
    PROVE  cs \subseteq Checks
<1> DEFINE c == CHOOSE c \in checks : c.id = id
<1>1. CASE \A a \in checks : a.id # id
  BY <1>1 DEF Cancelled
<1>2. CASE \E a \in checks : a.id = id
  <2>1. c \in checks
    BY <1>2
  <2>2. [c EXCEPT !.cancelled = TRUE] \in Checks
    BY <2>1, CheckFields
  <2>3. cs \in {checks, checks \ {c}, (checks \ {c}) \cup {[c EXCEPT !.cancelled = TRUE]}}
    BY <1>2 DEF Cancelled
  <2> QED
    BY <2>1, <2>2, <2>3
<1> QED
  BY <1>1, <1>2

\* What the user does with the menu, the panel and the files.
LEMMA LintMenuKeeps ==
    ASSUME LintTypeOK, LintProject \/ OnNotebookPageClosed \/ StopLints
    PROVE  LintTypeOK'
<1>1. MaxErrors \in Nat /\ MaxLints \in Nat /\ MaxFileSaves \in Nat /\ LintedFiles \in Seq(PhpFiles)
  <2>1. LintedFiles \in Seq(STRING)
    BY LintAssumption
  <2>2. LintedFiles \in Seq(Range(LintedFiles))
    BY <2>1, SeqOfRange
  <2>3. Range(LintedFiles) = PhpFiles
    BY <2>1 DEF PhpFiles, ToSet, Range
  <2> QED
    BY <2>2, <2>3, LintAssumption
<1>2. << >> \in Seq(PhpFiles)
  BY EmptySeq
<1>3. CASE LintProject
  <2> DEFINE c == [id |-> lints', left |-> LintedFiles, runs |-> FALSE, cancelled |-> FALSE]
  <2>1. /\ lints' \in 0 .. MaxLints /\ RunningActionId' = lints' /\ lints' \in 0 .. lints'
        /\ checks' = checks \cup {c}
        /\ UNCHANGED <<errorsIn, saves, lintEvents, dropped>>
    BY <1>1, <1>3 DEF LintProject, StartLint, LintTypeOK, LintPanelTypes
  <2>2. c \in Checks
    BY <1>1, <2>1 DEF Checks
  <2>3. LintPanelTypes'
    BY <1>2, <1>3 DEF LintProject, StartLint, LintTypeOK, LintPanelTypes
  <2> QED
    BY <2>1, <2>2, <2>3 DEF LintTypeOK, LintPanelTypes
<1>4. CASE OnNotebookPageClosed
  <2>1. /\ RunningActionId' \in 0 .. lints
        /\ checks' \in Cancelled(RunningActionId) \/ checks' = checks
        /\ UNCHANGED <<errorsIn, saves, lints, lintEvents, dropped>>
    BY <1>4 DEF OnNotebookPageClosed, LintTypeOK
  <2>4. gauge' \in BOOLEAN
    BY <1>4 DEF OnNotebookPageClosed, LintTypeOK
  <2>2. checks' \subseteq Checks
    BY <2>1, CancellingKeepsChecks DEF LintTypeOK, LintPanelTypes
  <2>3. LintPanelTypes'
    BY <1>2, <1>4, <2>4 DEF OnNotebookPageClosed, LintPanelTypes
  <2> QED
    BY <2>1, <2>2, <2>3 DEF LintTypeOK, LintPanelTypes
<1>5. CASE StopLints
  <2>1. /\ checks' = {[c EXCEPT !.cancelled = TRUE] : c \in {d \in checks : d.runs}}
        /\ dropped' = dropped \cup ({c.id : c \in {d \in checks : ~d.runs}} \ {0})
        /\ UNCHANGED <<errorsIn, saves, lints, RunningActionId, lintEvents>>
        /\ LintPanelTypes'
    BY <1>5 DEF StopLints, LintTypeOK, LintPanelTypes, lintPanelVars
  <2>2. checks' \subseteq Checks
    BY <2>1, CheckFields DEF LintTypeOK, LintPanelTypes
  <2>3. dropped' \subseteq LintIds
    <3>1. \A c \in checks : c.id # 0 => c.id \in LintIds
      <4>1. \A i \in 0 .. MaxLints : i # 0 => i \in 1 .. MaxLints
        BY <1>1
      <4> QED
        BY <4>1, CheckFields DEF LintTypeOK, LintIds
    <3> QED
      BY <2>1, <3>1 DEF LintTypeOK, LintPanelTypes
  <2> QED
    BY <2>1, <2>2, <2>3 DEF LintTypeOK, LintPanelTypes
<1> QED
  BY <1>3, <1>4, <1>5

LEMMA LintSaveKeeps ==
    ASSUME LintTypeOK, NEW f \in PhpFiles, NEW count \in 0 .. MaxErrors, OnFileSaved(f, count)
    PROVE  LintTypeOK'
<1> DEFINE c == [id |-> 0, left |-> <<f>>, runs |-> FALSE, cancelled |-> FALSE]
<1>1. MaxLints \in Nat /\ MaxFileSaves \in Nat
  BY LintAssumption
<1>2. /\ saves' \in 0 .. MaxFileSaves /\ errorsIn' \in [PhpFiles -> 0 .. MaxErrors]
      /\ checks' = checks \cup {c}
      /\ UNCHANGED <<lints, RunningActionId, lintEvents, panelOpen, runEnabled, gauge, dropped>>
  BY <1>1 DEF OnFileSaved, LintTypeOK, LintPanelTypes
<1>3. c \in Checks
  BY <1>1 DEF Checks
<1>4. RemoveErrorsFor(f).errors \in Seq(PhpFiles) /\ RemoveErrorsFor(f).rows \in Seq(PhpFiles)
  BY RemovingKeepsTypes DEF Removals, LintTypeOK, LintPanelTypes
<1>5. LintErrors' \in Seq(PhpFiles) /\ rowsShown' \in Seq(PhpFiles)
      /\ (~panelOpen => UNCHANGED <<LintErrors, rowsShown>>)
  BY <1>4 DEF OnFileSaved, LintTypeOK, LintPanelTypes
<1>6. LintPanelTypes'
  BY <1>2, <1>5 DEF LintTypeOK, LintPanelTypes
<1> QED
  BY <1>2, <1>3, <1>6 DEF LintTypeOK, LintPanelTypes

\* The checks on the threads of the pool.
LEMMA LintWorkKeeps ==
    ASSUME LintTypeOK, NEW c \in checks, BeginLint(c) \/ WalkFileToLint(c) \/ EndLint(c)
    PROVE  LintTypeOK'
<1>1. MaxErrors \in Nat /\ c \in Checks
  BY LintAssumption DEF LintTypeOK, LintPanelTypes
<1>6. UNCHANGED <<errorsIn, saves, lints, RunningActionId, dropped, lintPanelVars>>
  BY DEF BeginLint, WalkFileToLint, EndLint
<1>2. /\ UNCHANGED <<errorsIn, saves, lints, RunningActionId, dropped>>
      /\ LintPanelTypes'
  BY <1>6 DEF LintTypeOK, LintPanelTypes, lintPanelVars
<1>3. CASE BeginLint(c)
  <2>1. checks' \subseteq Checks /\ lintEvents' = lintEvents
    BY <1>1, <1>3, CheckFields DEF BeginLint, LintTypeOK, LintPanelTypes
  <2> QED
    BY <1>2, <2>1 DEF LintTypeOK, LintPanelTypes
<1>4. CASE WalkFileToLint(c)
  <2> DEFINE k == IF c.id = 0 THEN "error after save" ELSE "error"
             n == errorsIn[Head(c.left)]
             e == [kind |-> k, file |-> Head(c.left), count |-> n]
  <2>1. Head(c.left) \in PhpFiles /\ Tail(c.left) \in Seq(PhpFiles)
    BY <1>1, <1>4, CheckFields, HeadInFront DEF WalkFileToLint
  <2>2. checks' \subseteq Checks
    BY <1>1, <1>4, <2>1, CheckFields DEF WalkFileToLint, LintTypeOK, LintPanelTypes
  <2>3. n \in 0 .. MaxErrors /\ k \in {"error", "error after save"}
    BY <2>1 DEF LintTypeOK
  <2>4. n # 0 => e \in LintEvents
    <3> HIDE DEF k, n
    <3>1. n # 0 => n \in 1 .. MaxErrors
      <4>1. \A i \in 0 .. MaxErrors : i # 0 => i \in 1 .. MaxErrors
        BY <1>1
      <4> QED
        BY <2>3, <4>1
    <3>2. n # 0 => e \in [kind : {"error", "error after save"}, file : PhpFiles, count : 1 .. MaxErrors]
      BY <2>1, <2>3, <3>1
    <3> QED
      BY <3>2 DEF LintEvents
  <2>5. lintEvents' = IF n = 0 THEN lintEvents ELSE Append(lintEvents, e)
    BY <1>4 DEF WalkFileToLint
  <2>6. lintEvents' \in Seq(LintEvents)
    BY <2>4, <2>5, AppendProperties DEF LintTypeOK, LintPanelTypes
  <2> QED
    BY <1>2, <2>2, <2>6 DEF LintTypeOK, LintPanelTypes
<1>5. CASE EndLint(c)
  <2>1. [kind |-> "summary"] \in LintEvents /\ [kind |-> "complete"] \in LintEvents
    BY DEF LintEvents
  <2>2. << >> \in Seq(LintEvents) /\ <<[kind |-> "summary"]>> \in Seq(LintEvents)
        /\ <<[kind |-> "complete"]>> \in Seq(LintEvents)
    BY <2>1
  <2>3. \E s, t \in Seq(LintEvents) : lintEvents' = lintEvents \o s \o t
    BY <1>5, <2>2 DEF EndLint
  <2>4. lintEvents' \in Seq(LintEvents)
    BY <2>3, ConcatProperties DEF LintTypeOK, LintPanelTypes
  <2>5. checks' \subseteq Checks
    BY <1>5 DEF EndLint, LintTypeOK, LintPanelTypes
  <2> QED
    BY <1>2, <2>4, <2>5 DEF LintTypeOK, LintPanelTypes
<1> QED
  BY <1>3, <1>4, <1>5

LEMMA LintEventKeeps ==
    ASSUME LintTypeOK, HandleLintEvent
    PROVE  LintTypeOK'
<1> DEFINE e == Head(lintEvents)
<1>1. MaxErrors \in Nat
  BY LintAssumption
<1>2. e \in LintEvents /\ lintEvents' \in Seq(LintEvents)
      /\ UNCHANGED <<errorsIn, saves, lints, checks, panelOpen, dropped>>
  BY HeadInFront DEF HandleLintEvent, LintTypeOK, LintPanelTypes
<1> HIDE DEF e
<1>3. CASE OnLintError(e)
  <2> DEFINE added == [i \in 1 .. e.count |-> e.file]
  <2>6. e.kind \in {"error", "error after save"}
    BY <1>3 DEF OnLintError
  <2>7. e.file \in PhpFiles /\ e.count \in 1 .. MaxErrors
    BY <1>2, <2>6, LintErrorFields
  <2>1. e.file \in PhpFiles /\ e.count \in Nat
    BY <1>1, <2>7
  <2>2. added \in Seq(PhpFiles)
    BY <2>1
  <2> HIDE DEF added
  <2>3. /\ IF panelOpen THEN LintErrors' = LintErrors \o added /\ rowsShown' = rowsShown \o added
           ELSE UNCHANGED <<LintErrors, rowsShown>>
        /\ UNCHANGED <<RunningActionId, gauge, runEnabled>>
    BY <1>3 DEF OnLintError, AddErrors, added
  <2>4. LintErrors' \in Seq(PhpFiles) /\ rowsShown' \in Seq(PhpFiles)
    BY <2>2, <2>3, ConcatProperties DEF LintTypeOK, LintPanelTypes
  <2>5. LintPanelTypes'
    BY <1>2, <2>3, <2>4 DEF LintTypeOK, LintPanelTypes
  <2> QED
    BY <1>2, <2>3, <2>5 DEF LintTypeOK, LintPanelTypes
<1>4. CASE OnLintSummary(e)
  <2>2. UNCHANGED <<RunningActionId, gauge, LintErrors, rowsShown, panelOpen>> /\ runEnabled' = panelOpen
    BY <1>2, <1>4 DEF OnLintSummary
  <2>3. runEnabled' \in BOOLEAN /\ gauge' \in BOOLEAN /\ panelOpen' \in BOOLEAN
    BY <2>2 DEF LintTypeOK
  <2>4. ~panelOpen' => LintErrors' = << >> /\ rowsShown' = << >> /\ ~runEnabled'
    BY <2>2 DEF LintTypeOK
  <2>1. LintPanelTypes' /\ UNCHANGED RunningActionId
    BY <2>2, <2>3, <2>4 DEF LintTypeOK, LintPanelTypes
  <2> QED
    BY <1>2, <2>1 DEF LintTypeOK, LintPanelTypes
<1>5. CASE OnLintComplete(e)
  <2>2. UNCHANGED <<LintErrors, rowsShown, panelOpen, runEnabled>> /\ RunningActionId' = 0
    BY <1>2, <1>5 DEF OnLintComplete
  <2>4. gauge' \in BOOLEAN
    BY <1>5 DEF OnLintComplete
  <2>3. RunningActionId' \in 0 .. lints'
    BY <1>2, <2>2 DEF LintTypeOK
  <2>1. LintPanelTypes' /\ RunningActionId' \in 0 .. lints'
    BY <1>2, <2>2, <2>3, <2>4 DEF LintTypeOK, LintPanelTypes
  <2> QED
    BY <1>2, <2>1 DEF LintTypeOK, LintPanelTypes
<1> QED
  BY <1>3, <1>4, <1>5 DEF HandleLintEvent, e

LEMMA LintStepTypes == LintTypeOK /\ [LintNext]_lintVars => LintTypeOK'
<1> SUFFICES ASSUME LintTypeOK, [LintNext]_lintVars PROVE LintTypeOK'
  OBVIOUS
<1>1. CASE LintProject \/ OnNotebookPageClosed \/ StopLints
  BY <1>1, LintMenuKeeps
<1>2. ASSUME NEW f \in PhpFiles, NEW count \in 0 .. MaxErrors, OnFileSaved(f, count)
      PROVE  LintTypeOK'
  BY <1>2, LintSaveKeeps
<1>3. ASSUME NEW c \in checks, BeginLint(c) \/ WalkFileToLint(c) \/ EndLint(c)
      PROVE  LintTypeOK'
  BY <1>3, LintWorkKeeps
<1>4. CASE HandleLintEvent
  BY <1>4, LintEventKeeps
<1>5. CASE UNCHANGED lintVars
  BY <1>5 DEF lintVars, LintTypeOK, LintPanelTypes
<1> QED
  BY <1>1, <1>2, <1>3, <1>4, <1>5 DEF LintNext

\* The checks, their events and the panel are of their types: the check that the
\* view takes for running is one that was started, and without the panel there are
\* no errors, no rows and no button.
THEOREM LintTypeCorrect == LintSpec => []LintTypeOK
BY LintInitTypes, LintStepTypes, PTL DEF LintSpec

-----------------------------------------------------------------------------
(***************************************************************************)
(* The composition: the parts take no steps of each other's.               *)
(***************************************************************************)

PartsInv == part \in Parts /\ CheckInv /\ CacheInv /\ LintTypeOK /\ ConsoleInv

LEMMA PartsInvInit == Init => PartsInv
BY CheckInvInit, CacheInvInit, LintInitTypes, ConsoleInvInit DEF Init, PartsInv

LEMMA PartsInvStep == PartsInv /\ [Next]_vars => PartsInv'
<1> SUFFICES ASSUME PartsInv, [Next]_vars PROVE PartsInv'
  OBVIOUS
<1>1. /\ part' = part
      /\ [CheckNext]_checkVars /\ [CacheNext]_cacheVars
      /\ [LintNext]_lintVars /\ [ConsoleNext]_consoleVars
  BY DEF Next, vars
<1>2. CheckInv'
  BY <1>1, CheckInvStep DEF PartsInv
<1>3. CacheInv'
  BY <1>1, CacheInvStep DEF PartsInv
<1>4. LintTypeOK'
  BY <1>1, LintStepTypes DEF PartsInv
<1>5. ConsoleInv'
  BY <1>1, ConsoleInvStep DEF PartsInv
<1> QED
  BY <1>1, <1>2, <1>3, <1>4, <1>5 DEF PartsInv

\* Next to each other, as they are checked, the check for modified files, the symbol
\* tables, the lint checks and the console keep their types.
THEOREM BackgroundTypeCorrect == Spec => []BackgroundTypeOK
<1>1. PartsInv => BackgroundTypeOK
  BY DEF PartsInv, Parts, CheckInv, CacheInv, ConsoleInv, BackgroundTypeOK
<1> QED
  BY <1>1, PartsInvInit, PartsInvStep, PTL DEF Spec

=============================================================================
