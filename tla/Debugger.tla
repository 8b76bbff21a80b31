------------------------------ MODULE Debugger ------------------------------
(***************************************************************************)
(* The debugger: DebuggerFeatureClass and DebuggerViewClass on the GUI     *)
(* thread, DebuggerServerActionClass on the one thread of the feature's    *)
(* pool, and the scripts that connect to it under a debug engine (xdebug). *)
(*                                                                         *)
(* The server uses blocking sockets: it accepts a connection, reads the    *)
(* engine's init message and then sends it one command at a time and reads *)
(* the reply.  Commands come from the GUI through an event sink: PostCmd   *)
(* posts an event to every registered server, OnCmd moves it to the queue  *)
(* of the server.  Replies go back as events to the feature and the view,  *)
(* which have an event queue each.  StopDebugger connects to the server to *)
(* wake it from its wait and then stops the pool.                          *)
(*                                                                         *)
(* A command either makes the script go on (run, step_into, ...) or asks   *)
(* something (stack_get, context_get, breakpoint_set, ...).  The pool is   *)
(* that of RunningThreads with one thread and a StopAll that waits until   *)
(* the thread has ended.                                                   *)
(***************************************************************************)
EXTENDS Naturals, Sequences, FiniteSets

CONSTANTS
    Engine,         \* the scripts that are run under a debug engine
    NoEngine,       \* no connection, no script
    Closer,         \* the connection StopDebugger makes
    MaxServers,     \* bound: how many server actions are created
    MaxStops,       \* bound: how often the user stops or restarts the server
    MaxUserCommands, \* bound: how many times the user asks for commands
    Faults,         \* what may go wrong outside of the program
    MaxFaults       \* bound: how often something does

ASSUME DebuggerAssumption ==
    /\ NoEngine \notin Engine
    /\ Closer \notin Engine \cup {NoEngine}
    /\ MaxServers \in Nat
    /\ MaxStops \in Nat
    /\ MaxUserCommands \in Nat
    /\ Faults \subseteq {"bind", "accept", "drop", "error"}
    /\ MaxFaults \in Nat

Server == 1 .. MaxServers

VARIABLES
    \* DebuggerFeatureClass, on the GUI thread
    IsDebuggerSessionActive,
    IsDebuggerServerActive,
    TransactionId,  \* of Cmd: the number of commands built so far
    guiAt,          \* ready for events, or inside StopDebugger
    restarting,     \* StopDebugger was called by RestartDebugger
    script,         \* history: the script of the last event it handled
    stops,          \* number of StopDebugger calls
    userCommands,   \* number of user commands
    \* the pool
    Actions,        \* the queue of server actions
    servers,        \* number of server actions created
    \* DebuggerServerActionClass
    pc,             \* where each server is in BackgroundWork and SessionWork
    cancelled,      \* the servers whose Cancelled flag is set
    next,           \* the command sent last
    peer,           \* who is at the other end of the accepted socket
    \* the commands on their way to a server
    Handlers,       \* of EventSinkLocker
    Posted,         \* events that OnCmd has not handled
    Commands,       \* the queue of the server
    \* the network and the debug engines
    backlog,        \* connections that are not accepted yet
    engine,         \* the state of each script
    wire,           \* what is in flight on the connection of a script
    \* events of the server that the GUI has not handled
    featureEvents,
    errors,         \* number of error events for the view
    \* history: the faults that have happened
    faults

flagVars == <<IsDebuggerSessionActive, IsDebuggerServerActive>>
stopVars == <<guiAt, restarting, stops>>
poolVars == <<Actions, servers>>
serverVars == <<pc, cancelled, next, peer>>
engineVars == <<backlog, engine, wire>>
vars == <<flagVars, TransactionId, stopVars, script, userCommands, poolVars,
          serverVars, Handlers, Posted, Commands, engineVars, featureEvents,
          errors, faults>>

Command == [id : Nat, kind : {"run", "query"}, for : Engine \cup {NoEngine}]
NoCommand == [id |-> 0, kind |-> "query", for |-> NoEngine]

Answer == {"init", "ok", "error", "break", "stopping", "eof"}
Message == [what : Answer \cup {"none", "request"}, cmd : Command]
Silence == [what |-> "none", cmd |-> NoCommand]

FeatureEvent == [what : {"init", "break", "stopping"}, from : Engine]

\* The servers whose acceptor is open, those the pool's thread runs, and
\* those that exist.
Listening ==
    {s \in Server : pc[s] \in {"loop", "accept", "init", "session", "reply",
                               "drain"}}
Working == {s \in Server : pc[s] = "bind"} \cup Listening
Alive == {s \in Server : pc[s] = "queued"} \cup Working

Elements(s) == {s[n] : n \in DOMAIN s}

\* Each thing outside of the program goes wrong at most once.
Fails(fault) ==
    /\ fault \in Faults \ faults
    /\ Cardinality(faults) < MaxFaults
    /\ faults' = faults \cup {fault}

TypeOK ==
    /\ IsDebuggerSessionActive \in BOOLEAN
    /\ IsDebuggerServerActive \in BOOLEAN
    /\ TransactionId \in Nat
    /\ guiAt \in {"ready", "cancel", "join", "restart"}
    /\ restarting \in BOOLEAN
    /\ script \in Engine \cup {NoEngine}
    /\ stops \in 0 .. MaxStops
    /\ userCommands \in 0 .. MaxUserCommands
    /\ Actions \in Seq(Server)
    /\ servers \in 0 .. MaxServers
    /\ pc \in [Server -> {"none", "queued", "bind", "loop", "accept", "init",
                          "session", "reply", "drain", "ended", "dropped"}]
    /\ cancelled \in SUBSET Server
    /\ next \in [Server -> Command]
    /\ peer \in [Server -> Engine \cup {NoEngine, Closer}]
    /\ Handlers \in SUBSET Server
    /\ Posted \in [Server -> Seq(Command)]
    /\ Commands \in [Server -> Seq(Command)]
    /\ backlog \in Seq(Engine \cup {Closer})
    /\ engine \in [Engine -> {"idle", "starting", "break", "stopping", "gone"}]
    /\ wire \in [Engine -> Message]
    /\ featureEvents \in Seq(FeatureEvent)
    /\ errors \in Nat
    /\ faults \in SUBSET Faults
    /\ \A s \in Server : pc[s] \in {"session", "reply", "drain"} =>
                             peer[s] \in Engine

Init ==
    /\ IsDebuggerSessionActive = FALSE
    /\ IsDebuggerServerActive = FALSE
    /\ TransactionId = 0
    /\ guiAt = "ready"
    /\ restarting = FALSE
    /\ script = NoEngine
    /\ stops = 0
    /\ userCommands = 0
    /\ Actions = << >>
    /\ servers = 0
    /\ pc = [s \in Server |-> "none"]
    /\ cancelled = {}
    /\ next = [s \in Server |-> NoCommand]
    /\ peer = [s \in Server |-> NoEngine]
    /\ Handlers = {}
    /\ Posted = [s \in Server |-> << >>]
    /\ Commands = [s \in Server |-> << >>]
    /\ backlog = << >>
    /\ engine = [e \in Engine |-> "idle"]
    /\ wire = [e \in Engine |-> Silence]
    /\ featureEvents = << >>
    /\ errors = 0
    /\ faults = {}

-----------------------------------------------------------------------------
(***************************************************************************)
(* The GUI thread.                                                         *)
(***************************************************************************)

\* The constructor of the action registers it with the event sink.
CreateServer ==
    LET s == servers + 1 IN
    /\ servers < MaxServers
    /\ servers' = s
    /\ pc' = [pc EXCEPT ![s] = "queued"]
    /\ Handlers' = Handlers \cup {s}
    /\ Actions' = Append(Actions, s)
    /\ IsDebuggerServerActive' = TRUE

StartDebugger ==
    /\ guiAt = "ready"
    /\ ~IsDebuggerSessionActive
    /\ ~IsDebuggerServerActive
    /\ CreateServer
    /\ UNCHANGED <<IsDebuggerSessionActive, TransactionId, stopVars, script,
                   userCommands, cancelled, next, peer, Posted, Commands,
                   engineVars, featureEvents, errors, faults>>

\* The menu item or, with restart, RestartDebugger: StopDebugger connects and
\* writes "close".  Nobody answers if no server is listening.
StopDebugger(restart) ==
    /\ guiAt = "ready"
    /\ stops < MaxStops
    /\ restart => servers < MaxServers
    /\ stops' = stops + 1
    /\ restarting' = restart
    /\ guiAt' = "cancel"
    /\ backlog' = IF Listening = {} THEN backlog ELSE Append(backlog, Closer)
    /\ UNCHANGED <<flagVars, TransactionId, script, userCommands, poolVars,
                   serverVars, Handlers, Posted, Commands, engine, wire,
                   featureEvents, errors, faults>>

\* Mutant: the server that runs is not cancelled.
StopAllQueueOnly ==
    /\ guiAt = "cancel"
    /\ guiAt' = "join"
    /\ pc' = [s \in Server |-> IF pc[s] = "queued" THEN "dropped" ELSE pc[s]]
    /\ Posted' = [s \in Server |-> IF pc[s] = "queued" THEN << >> ELSE Posted[s]]
    /\ Commands' =
           [s \in Server |-> IF pc[s] = "queued" THEN << >> ELSE Commands[s]]
    /\ Actions' = << >>
    /\ UNCHANGED cancelled
    /\ UNCHANGED <<flagVars, TransactionId, restarting, stops, script,
                   userCommands, servers, next, peer, Handlers, engineVars,
                   featureEvents, errors, faults>>

\* Queued servers are deleted, and their destructor leaves them registered.
StopAll ==
    /\ guiAt = "cancel"
    /\ guiAt' = "join"
    /\ pc' = [s \in Server |-> IF pc[s] = "queued" THEN "dropped" ELSE pc[s]]
    /\ Posted' = [s \in Server |-> IF pc[s] = "queued" THEN << >> ELSE Posted[s]]
    /\ Commands' =
           [s \in Server |-> IF pc[s] = "queued" THEN << >> ELSE Commands[s]]
    /\ Actions' = << >>
    /\ cancelled' = cancelled \cup Working
    /\ UNCHANGED <<flagVars, TransactionId, restarting, stops, script,
                   userCommands, servers, next, peer, Handlers, engineVars,
                   featureEvents, errors, faults>>

StopAllReturns ==
    /\ guiAt = "join"
    /\ Working = {}
    /\ IsDebuggerServerActive' = FALSE
    /\ guiAt' = IF restarting THEN "restart" ELSE "ready"
    /\ UNCHANGED <<IsDebuggerSessionActive, TransactionId, restarting, stops,
                   script, userCommands, poolVars, serverVars, Handlers,
                   Posted, Commands, engineVars, featureEvents, errors,
                   faults>>

\* RestartDebugger calls StartDebugger, which returns early if it thinks that
\* there is a session.
RestartServer ==
    /\ guiAt = "restart"
    /\ guiAt' = "ready"
    /\ IF IsDebuggerSessionActive \/ IsDebuggerServerActive
       THEN UNCHANGED <<poolVars, pc, Handlers, IsDebuggerServerActive>>
       ELSE CreateServer
    /\ UNCHANGED <<IsDebuggerSessionActive, TransactionId, restarting, stops,
                   script, userCommands, cancelled, next, peer, Posted,
                   Commands, engineVars, featureEvents, errors, faults>>

\* PostCmd for one command after the other, each with the next transaction id.
PostCmds(kinds, for) ==
    /\ TransactionId' = TransactionId + Len(kinds)
    /\ Posted' =
           [s \in Server |->
               IF s \in Handlers \cap Alive
               THEN Posted[s] \o [n \in DOMAIN kinds |->
                       [id |-> TransactionId + n, kind |-> kinds[n],
                        for |-> for]]
               ELSE Posted[s]]

\* The step commands, Continue and Finish; the commands that only ask.  The
\* menu items are enabled whether or not there is a session.
UserCommand ==
    /\ guiAt = "ready"
    /\ userCommands < MaxUserCommands
    /\ userCommands' = userCommands + 1
    /\ \E kinds \in {<<"run", "query">>, <<"query">>} : PostCmds(kinds, script)
    /\ UNCHANGED <<flagVars, stopVars, script, poolVars, serverVars, Handlers,
                   Commands, engineVars, featureEvents, errors, faults>>

\* Mutant: a command overtakes those that wait.
OnCmdToFront(s) ==
    /\ guiAt = "ready"
    /\ Posted[s] # << >>
    /\ Commands' = [Commands EXCEPT ![s] = <<Head(Posted[s])>> \o @]
    /\ Posted' = [Posted EXCEPT ![s] = Tail(@)]
    /\ UNCHANGED <<flagVars, TransactionId, stopVars, script, userCommands,
                   poolVars, serverVars, Handlers, engineVars, featureEvents,
                   errors, faults>>

\* The server's handler runs on the GUI thread too.
OnCmd(s) ==
    /\ guiAt = "ready"
    /\ Posted[s] # << >>
    /\ Commands' = [Commands EXCEPT ![s] = Append(@, Head(Posted[s]))]
    /\ Posted' = [Posted EXCEPT ![s] = Tail(@)]
    /\ UNCHANGED <<flagVars, TransactionId, stopVars, script, userCommands,
                   poolVars, serverVars, Handlers, engineVars, featureEvents,
                   errors, faults>>

\* Mutant: the script is not told to run.
OnDbgpInitNoRun ==
    /\ guiAt = "ready"
    /\ featureEvents # << >>
    /\ Head(featureEvents).what = "init"
    /\ IsDebuggerSessionActive' = TRUE
    /\ script' = Head(featureEvents).from
    /\ PostCmds(<<"query", "query">>, Head(featureEvents).from)
    /\ featureEvents' = Tail(featureEvents)
    /\ UNCHANGED <<IsDebuggerServerActive, stopVars, userCommands, poolVars,
                   serverVars, Handlers, Commands, engineVars, errors, faults>>

\* Breakpoints and features are set, then the script is told to run, then
\* asked where it is.
OnDbgpInit ==
    /\ guiAt = "ready"
    /\ featureEvents # << >>
    /\ Head(featureEvents).what = "init"
    /\ IsDebuggerSessionActive' = TRUE
    /\ script' = Head(featureEvents).from
    /\ PostCmds(<<"query", "run", "query">>, Head(featureEvents).from)
    /\ featureEvents' = Tail(featureEvents)
    /\ UNCHANGED <<IsDebuggerServerActive, stopVars, userCommands, poolVars,
                   serverVars, Handlers, Commands, engineVars, errors, faults>>

\* Mutant: a script in a break counts as one that has ended.
OnDbgpContinueNoBreak ==
    /\ guiAt = "ready"
    /\ featureEvents # << >>
    /\ Head(featureEvents).what = "break"
    /\ IsDebuggerSessionActive' = FALSE
    /\ script' = Head(featureEvents).from
    /\ PostCmds(<<"query">>, Head(featureEvents).from)
    /\ featureEvents' = Tail(featureEvents)
    /\ UNCHANGED <<IsDebuggerServerActive, stopVars, userCommands, poolVars,
                   serverVars, Handlers, Commands, engineVars, errors, faults>>

OnDbgpContinue ==
    /\ guiAt = "ready"
    /\ featureEvents # << >>
    /\ Head(featureEvents).what = "break"
    /\ IsDebuggerSessionActive' = TRUE
    /\ script' = Head(featureEvents).from
    /\ PostCmds(<<"query">>, Head(featureEvents).from)
    /\ featureEvents' = Tail(featureEvents)
    /\ UNCHANGED <<IsDebuggerServerActive, stopVars, userCommands, poolVars,
                   serverVars, Handlers, Commands, engineVars, errors, faults>>

\* Mutant: the server flag is kept.
ResetSessionOnly ==
    /\ IsDebuggerSessionActive' = FALSE
    /\ UNCHANGED IsDebuggerServerActive
    /\ script' = NoEngine

ResetDebugger ==
    /\ IsDebuggerSessionActive' = FALSE
    /\ IsDebuggerServerActive' = FALSE
    /\ script' = NoEngine

\* OnDbgpContinue when the script has come to its end.
OnDbgpContinueStopping ==
    /\ guiAt = "ready"
    /\ featureEvents # << >>
    /\ Head(featureEvents).what = "stopping"
    /\ ResetDebugger
    /\ featureEvents' = Tail(featureEvents)
    /\ UNCHANGED <<TransactionId, stopVars, userCommands, poolVars, serverVars,
                   Handlers, Posted, Commands, engineVars, errors, faults>>

\* The view's handlers of an error reply, a listen and a socket error.
OnDebuggerError ==
    /\ guiAt = "ready"
    /\ errors > 0
    /\ errors' = errors - 1
    /\ ResetDebugger
    /\ UNCHANGED <<TransactionId, stopVars, userCommands, poolVars, serverVars,
                   Handlers, Posted, Commands, engineVars, featureEvents,
                   faults>>

-----------------------------------------------------------------------------
(***************************************************************************)
(* The server on the pool's thread.                                        *)
(***************************************************************************)

Goto(s, location) == pc' = [pc EXCEPT ![s] = location]

\* What SessionWork and BackgroundWork leave alone whatever they do.
ServerUnchanged ==
    UNCHANGED <<flagVars, TransactionId, stopVars, script, userCommands,
                servers, cancelled>>

\* The pool's thread takes the next action when it has ended the one before.
BeginWork(s) ==
    /\ Actions # << >>
    /\ s = Head(Actions)
    /\ Working = {}
    /\ Actions' = Tail(Actions)
    /\ Goto(s, "bind")
    /\ ServerUnchanged
    /\ UNCHANGED <<next, peer, Handlers, Posted, Commands, engineVars,
                   featureEvents, errors, faults>>

\* BackgroundWork returns: the server is unregistered and deleted, and closing
\* its sockets resets the connections nobody accepted.
EndWork(s) ==
    LET closed == ({peer[s]} \cup Elements(backlog)) \cap Engine IN
    /\ Goto(s, "ended")
    /\ Handlers' = Handlers \ {s}
    /\ Posted' = [Posted EXCEPT ![s] = << >>]
    /\ Commands' = [Commands EXCEPT ![s] = << >>]
    /\ backlog' = << >>
    /\ engine' = [e \in Engine |-> IF e \in closed THEN "gone" ELSE engine[e]]
    /\ wire' = [e \in Engine |-> IF e \in closed THEN Silence ELSE wire[e]]
    /\ peer' = [peer EXCEPT ![s] = NoEngine]
    /\ UNCHANGED <<Actions, next, featureEvents>>

Bind(s) ==
    /\ pc[s] = "bind"
    /\ Goto(s, "loop")
    /\ ServerUnchanged
    /\ UNCHANGED <<Actions, next, peer, Handlers, Posted, Commands, engineVars,
                   featureEvents, errors, faults>>

\* Mutant: a server that cannot bind stays in the event sink.
BindFailsRegistered(s) ==
    /\ pc[s] = "bind"
    /\ Fails("bind")
    /\ errors' = errors + 1
    /\ Goto(s, "ended")
    /\ UNCHANGED <<Actions, next, peer, Handlers, Posted, Commands, engineVars,
                   featureEvents>>
    /\ ServerUnchanged

BindFails(s) ==
    /\ pc[s] = "bind"
    /\ Fails("bind")
    /\ errors' = errors + 1
    /\ EndWork(s)
    /\ ServerUnchanged

\* The test of the loop.
TestCancelled(s) ==
    /\ pc[s] = "loop"
    /\ \/ /\ s \notin cancelled
          /\ Goto(s, "accept")
          /\ UNCHANGED <<Actions, next, peer, Handlers, Posted, Commands,
                         engineVars, featureEvents>>
       \/ /\ s \in cancelled
          /\ EndWork(s)
    /\ ServerUnchanged
    /\ UNCHANGED <<errors, faults>>

Accept(s) ==
    /\ pc[s] = "accept"
    /\ backlog # << >>
    /\ peer' = [peer EXCEPT ![s] = Head(backlog)]
    /\ backlog' = Tail(backlog)
    /\ Goto(s, "init")
    /\ ServerUnchanged
    /\ UNCHANGED <<Actions, next, Handlers, Posted, Commands, engine, wire,
                   featureEvents, errors, faults>>

AcceptFails(s) ==
    /\ pc[s] = "accept"
    /\ Fails("accept")
    /\ errors' = errors + 1
    /\ Goto(s, "loop")
    /\ ServerUnchanged
    /\ UNCHANGED <<Actions, next, peer, Handlers, Posted, Commands, engineVars,
                   featureEvents>>

\* Mutant: "close" is taken for an init message.
ReadInitAnyone(s) ==
    /\ pc[s] = "init"
    /\ \/ /\ peer[s] = Closer
          /\ Goto(s, "session")
          /\ UNCHANGED <<Actions, next, peer, Handlers, Posted, Commands,
                         engineVars, featureEvents>>
       \/ /\ peer[s] \in Engine
          /\ wire[peer[s]].what = "eof"
          /\ EndWork(s)
       \/ /\ peer[s] \in Engine
          /\ wire[peer[s]].what = "init"
          /\ wire' = [wire EXCEPT ![peer[s]] = Silence]
          /\ featureEvents' =
                 Append(featureEvents, [what |-> "init", from |-> peer[s]])
          /\ Goto(s, "session")
          /\ UNCHANGED <<Actions, next, peer, Handlers, Posted, Commands,
                         backlog, engine>>
    /\ ServerUnchanged
    /\ UNCHANGED <<errors, faults>>

\* "close" has no terminator: the server ends on the read error, as it does
\* when a script goes away before its init message.
ReadInit(s) ==
    /\ pc[s] = "init"
    /\ \/ /\ peer[s] = Closer
          /\ EndWork(s)
       \/ /\ peer[s] \in Engine
          /\ wire[peer[s]].what = "eof"
          /\ EndWork(s)
       \/ /\ peer[s] \in Engine
          /\ wire[peer[s]].what = "init"
          /\ wire' = [wire EXCEPT ![peer[s]] = Silence]
          /\ featureEvents' =
                 Append(featureEvents, [what |-> "init", from |-> peer[s]])
          /\ Goto(s, "session")
          /\ UNCHANGED <<Actions, next, peer, Handlers, Posted, Commands,
                         backlog, engine>>
    /\ ServerUnchanged
    /\ UNCHANGED <<errors, faults>>

\* SessionWork returns and the socket is closed.
LeaveSession(s) ==
    /\ Goto(s, "loop")
    /\ engine' = [engine EXCEPT ![peer[s]] = "gone"]
    /\ wire' = [wire EXCEPT ![peer[s]] = Silence]
    /\ peer' = [peer EXCEPT ![s] = NoEngine]
    /\ next' = [next EXCEPT ![s] = NoCommand]
    /\ UNCHANGED backlog

SessionCancelled(s) ==
    /\ pc[s] = "session"
    /\ s \in cancelled
    /\ LeaveSession(s)
    /\ ServerUnchanged
    /\ UNCHANGED <<Actions, Handlers, Posted, Commands, featureEvents, errors,
                   faults>>

\* Mutant: the next command is sent without reading the answer.
SendCommandNoWait(s) ==
    /\ pc[s] = "session"
    /\ s \notin cancelled
    /\ Commands[s] # << >>
    /\ next' = [next EXCEPT ![s] = Head(Commands[s])]
    /\ Commands' = [Commands EXCEPT ![s] = Tail(@)]
    /\ wire' = IF wire[peer[s]].what = "eof" THEN wire
               ELSE [wire EXCEPT ![peer[s]] =
                        [what |-> "request", cmd |-> Head(Commands[s])]]
    /\ Goto(s, "session")
    /\ ServerUnchanged
    /\ UNCHANGED <<Actions, peer, Handlers, Posted, backlog, engine,
                   featureEvents, errors, faults>>

\* A write to a connection that is gone is noticed at the latest by the read.
SendCommand(s) ==
    /\ pc[s] = "session"
    /\ s \notin cancelled
    /\ Commands[s] # << >>
    /\ next' = [next EXCEPT ![s] = Head(Commands[s])]
    /\ Commands' = [Commands EXCEPT ![s] = Tail(@)]
    /\ wire' = IF wire[peer[s]].what = "eof" THEN wire
               ELSE [wire EXCEPT ![peer[s]] =
                        [what |-> "request", cmd |-> Head(Commands[s])]]
    /\ Goto(s, "reply")
    /\ ServerUnchanged
    /\ UNCHANGED <<Actions, peer, Handlers, Posted, backlog, engine,
                   featureEvents, errors, faults>>

ReadAnswer(s) ==
    LET answer == wire[peer[s]].what IN
    /\ pc[s] = "reply"
    /\ answer \in {"ok", "error", "break", "stopping"}
    /\ Goto(s, IF answer = "stopping" THEN "drain" ELSE "session")
    /\ wire' = [wire EXCEPT ![peer[s]] = Silence]
    /\ featureEvents' =
           IF answer \in {"break", "stopping"}
           THEN Append(featureEvents, [what |-> answer, from |-> peer[s]])
           ELSE featureEvents
    /\ errors' = IF answer = "error" THEN errors + 1 ELSE errors
    /\ ServerUnchanged
    /\ UNCHANGED <<Actions, next, peer, Handlers, Posted, Commands, backlog,
                   engine, faults>>

\* A read error ends the session with a line in the log.
ReadFails(s) ==
    /\ pc[s] = "reply"
    /\ wire[peer[s]].what = "eof"
    /\ LeaveSession(s)
    /\ ServerUnchanged
    /\ UNCHANGED <<Actions, Handlers, Posted, Commands, featureEvents, errors,
                   faults>>

\* "so that commands don't carry over script runs"
Drain(s) ==
    /\ pc[s] = "drain"
    /\ \/ /\ Commands[s] # << >>
          /\ Commands' = [Commands EXCEPT ![s] = Tail(@)]
          /\ UNCHANGED <<pc, next, peer, engineVars>>
       \/ /\ Commands[s] = << >>
          /\ LeaveSession(s)
          /\ UNCHANGED Commands
    /\ ServerUnchanged
    /\ UNCHANGED <<Actions, Handlers, Posted, featureEvents, errors, faults>>

-----------------------------------------------------------------------------
(***************************************************************************)
(* The scripts and their debug engines.                                    *)
(***************************************************************************)

EngineUnchanged ==
    UNCHANGED <<flagVars, TransactionId, stopVars, script, userCommands,
                poolVars, serverVars, Handlers, Posted, Commands,
                featureEvents, errors>>

Connect(e) ==
    /\ engine[e] = "idle"
    /\ Listening # {}
    /\ engine' = [engine EXCEPT ![e] = "starting"]
    /\ wire' = [wire EXCEPT ![e].what = "init"]
    /\ backlog' = Append(backlog, e)
    /\ EngineUnchanged
    /\ UNCHANGED faults

Answers(e, what) == wire' = [wire EXCEPT ![e].what = what]

EngineAnswers(e) ==
    /\ wire[e].what = "request"
    /\ wire[e].cmd.kind = "query"
    /\ \/ Answers(e, "ok") /\ UNCHANGED faults
       \/ Answers(e, "error") /\ Fails("error")
    /\ EngineUnchanged
    /\ UNCHANGED <<backlog, engine>>

\* The script runs to its next break point or to its end.
EngineRuns(e) ==
    /\ wire[e].what = "request"
    /\ wire[e].cmd.kind = "run"
    /\ \E status \in {"break", "stopping"} :
           /\ Answers(e, status)
           /\ engine' = [engine EXCEPT ![e] = status]
    /\ EngineUnchanged
    /\ UNCHANGED <<backlog, faults>>

EngineDrops(e) ==
    /\ engine[e] \in {"starting", "break"}
    /\ Fails("drop")
    /\ engine' = [engine EXCEPT ![e] = "gone"]
    /\ Answers(e, "eof")
    /\ EngineUnchanged
    /\ UNCHANGED backlog

-----------------------------------------------------------------------------

Gui ==
    \/ StartDebugger
    \/ \E restart \in BOOLEAN : StopDebugger(restart)
    \/ UserCommand

\* What the GUI thread does by itself.
EventLoop ==
    \/ StopAll
    \/ StopAllReturns
    \/ RestartServer
    \/ OnDbgpInit
    \/ OnDbgpContinue
    \/ OnDbgpContinueStopping
    \/ OnDebuggerError

ServerStep(s) ==
    \/ BeginWork(s)
    \/ Bind(s)
    \/ TestCancelled(s)
    \/ Accept(s)
    \/ ReadInit(s)
    \/ SessionCancelled(s)
    \/ SendCommand(s)
    \/ ReadAnswer(s)
    \/ ReadFails(s)
    \/ Drain(s)

ServerFault(s) ==
    \/ BindFails(s)
    \/ AcceptFails(s)

EngineStep(e) ==
    \/ EngineAnswers(e)
    \/ EngineRuns(e)

Next ==
    \/ Gui
    \/ EventLoop
    \/ \E s \in Server : OnCmd(s) \/ ServerStep(s) \/ ServerFault(s)
    \/ \E e \in Engine : Connect(e) \/ EngineStep(e) \/ EngineDrops(e)

Spec == Init /\ [][Next]_vars

\* The event loop handles the events that are there, the pool's thread is
\* scheduled, and an engine answers what it is asked.
LiveSpec ==
    /\ Spec
    /\ WF_vars(EventLoop)
    /\ \A s \in Server : WF_vars(OnCmd(s)) /\ WF_vars(ServerStep(s))
    /\ \A e \in Engine : WF_vars(EngineStep(e))

-----------------------------------------------------------------------------
(***************************************************************************)
(* Properties.                                                             *)
(***************************************************************************)

\* The commands a server has been given: the last one sent and those to come.
Given(s) == <<next[s]>> \o Commands[s] \o Posted[s]

\* A server sends commands in the order in which the GUI built them, however
\* events, draining and sessions interleave.
CommandsInOrder ==
    \A s \in Server : \A m, n \in DOMAIN Given(s) :
        m < n => Given(s)[m].id < Given(s)[n].id

\* A server that waits for an answer is the one that asked, and what it reads
\* answers the command it parses it for; between commands nothing is in flight
\* (ReadResponse, ParseAndPost).
AnswersMatchCommands ==
    \A s \in Server :
        /\ pc[s] = "session" => wire[peer[s]].what \in {"none", "eof"}
        /\ pc[s] = "reply" => \/ wire[peer[s]].what = "eof"
                              \/ /\ wire[peer[s]].what # "none"
                                 /\ wire[peer[s]].cmd = next[s]

\* The sink holds every server that exists and none that has ended.  A server
\* that was deleted before its thread began stays in it.
SinkForgetsEnded ==
    /\ Alive \subseteq Handlers
    /\ \A s \in Handlers : pc[s] # "ended"

\* StartDebugger refuses while IsDebuggerServerActive is set: when the GUI has
\* handled its events, some server is there then, unless a script went away.
FlagMeansServer ==
    IsDebuggerServerActive /\ guiAt = "ready" /\ errors = 0
        /\ "drop" \notin faults
    => Alive # {}

\* While a script waits at a break point IsDebuggerSessionActive is set, so
\* that a breakpoint the user adds is sent at once.
SessionIsKnown ==
    \A s \in Server :
        /\ pc[s] = "session"
        /\ engine[peer[s]] = "break"
        /\ featureEvents = << >>
        /\ faults \subseteq {"drop"}
        => IsDebuggerSessionActive

\* The menus and the handlers of the GUI trust the two flags, which are set by
\* calls and reset by events posted earlier.
FlagsAreTrue == FlagMeansServer /\ SessionIsKnown

\* A script that is accepted is told to run, whatever the commands left over
\* from another one.
ScriptsAreRun ==
    \A e \in Engine :
        (engine[e] = "starting" /\ \E s \in Server : pc[s] = "init" /\ peer[s] = e)
            ~> engine[e] # "starting"

\* If a server was listening when StopDebugger connected and no other one is
\* queued, StopDebugger returns: nothing keeps waiting in accept or for a
\* command.
StopReturns ==
    (guiAt = "cancel" /\ Actions = << >> /\ Closer \in Elements(backlog))
        ~> guiAt = "ready"

\* src/actions/DebuggerServerActionClass.cpp:219: "remove all commands as they
\* will no longer be run so that commands don't carry over script runs".
NoCarryOver ==
    \A s \in Server :
        pc[s] = "reply" => next[s].for \in {NoEngine, peer[s]}

=============================================================================
