--------------------------- MODULE Debugger_proofs ---------------------------
(***************************************************************************)
(* Theorems about the debugger, for any scripts and any number of servers, *)
(* stops, commands and faults.                                             *)
(***************************************************************************)
EXTENDS Debugger, SequenceTheorems, TLAPS

-----------------------------------------------------------------------------
(* Type correctness, by groups of variables.                               *)

FlagTypes ==
    /\ IsDebuggerSessionActive \in BOOLEAN
    /\ IsDebuggerServerActive \in BOOLEAN
    /\ restarting \in BOOLEAN

GuiTypes ==
    /\ TransactionId \in Nat
    /\ guiAt \in {"ready", "cancel", "join", "restart"}
    /\ script \in Engine \cup {NoEngine}
    /\ stops \in 0 .. MaxStops
    /\ userCommands \in 0 .. MaxUserCommands
    /\ servers \in 0 .. MaxServers
    /\ errors \in Nat
    /\ faults \in SUBSET Faults
    /\ cancelled \in SUBSET Server
    /\ Handlers \in SUBSET Server

QueueTypes ==
    /\ Actions \in Seq(Server)
    /\ backlog \in Seq(Engine \cup {Closer})
    /\ featureEvents \in Seq(FeatureEvent)

CommandTypes ==
    /\ next \in [Server -> Command]
    /\ Posted \in [Server -> Seq(Command)]
    /\ Commands \in [Server -> Seq(Command)]

ServerTypes ==
    /\ pc \in [Server -> {"none", "queued", "bind", "loop", "accept", "init",
                          "session", "reply", "drain", "ended", "dropped"}]
    /\ peer \in [Server -> Engine \cup {NoEngine, Closer}]
    /\ \A s \in Server : pc[s] \in {"session", "reply", "drain"} =>
                             peer[s] \in Engine

EngineTypes ==
    /\ engine \in [Engine -> {"idle", "starting", "break", "stopping", "gone"}]
    /\ wire \in [Engine -> Message]

LEMMA TypesTogether ==
    TypeOK <=> /\ FlagTypes /\ GuiTypes /\ QueueTypes
               /\ CommandTypes /\ ServerTypes /\ EngineTypes
BY DEF TypeOK, FlagTypes, GuiTypes, QueueTypes, CommandTypes, ServerTypes,
       EngineTypes

\* The records that are no command, message or event of anybody have a type.
LEMMA NothingIsTyped ==
    /\ NoCommand \in Command
    /\ Silence \in Message
BY DEF NoCommand, Command, Silence, Message

\* Commands that PostCmds numbers are commands.
LEMMA PostCmdsTyped ==
    ASSUME TypeOK, NEW for \in Engine \cup {NoEngine},
           NEW kinds \in Seq({"run", "query"}), PostCmds(kinds, for)
    PROVE  /\ TransactionId' \in Nat
           /\ Posted' \in [Server -> Seq(Command)]
<1> DEFINE new == [n \in DOMAIN kinds |->
                      [id |-> TransactionId + n, kind |-> kinds[n],
                       for |-> for]]
<1>1. /\ TransactionId \in Nat
      /\ Posted \in [Server -> Seq(Command)]
  BY DEF TypeOK
<1>2. new \in Seq(Command)
  <2>1. DOMAIN kinds = 1 .. Len(kinds) /\ Len(kinds) \in Nat
    BY LenProperties
  <2>2. \A n \in 1 .. Len(kinds) :
            [id |-> TransactionId + n, kind |-> kinds[n], for |-> for]
                \in Command
    BY <1>1, ElementOfSeq DEF Command
  <2>3. new \in [1 .. Len(kinds) -> Command]
    BY <2>1, <2>2
  <2>4. QED
    BY <2>1, <2>3, SeqDef
<1>3. \A s \in Server : Posted[s] \o new \in Seq(Command)
  BY <1>1, <1>2, ConcatProperties
<1>4. Posted' = [s \in Server |-> IF s \in Handlers \cap Alive
                                  THEN Posted[s] \o new ELSE Posted[s]]
  BY DEF PostCmds
<1>5. TransactionId' = TransactionId + Len(kinds)
  BY DEF PostCmds
<1> HIDE DEF new
<1>6. Posted' \in [Server -> Seq(Command)]
  BY <1>1, <1>3, <1>4
<1>7. Len(kinds) \in Nat
  BY LenProperties
<1>8. QED
  BY <1>1, <1>5, <1>6, <1>7

LEMMA KindsAreSequences ==
    /\ <<"run", "query">> \in Seq({"run", "query"})
    /\ <<"query">> \in Seq({"run", "query"})
    /\ <<"query", "run", "query">> \in Seq({"run", "query"})
OBVIOUS

-----------------------------------------------------------------------------

\* The flags are assigned truth values only.
LEMMA FlagTypesStep ==
    ASSUME FlagTypes, [Next]_vars
    PROVE  FlagTypes'
<1> USE DEF FlagTypes, flagVars, stopVars
<1>1. CASE StartDebugger
  BY <1>1 DEF StartDebugger, CreateServer
<1>2. ASSUME NEW restart \in BOOLEAN, StopDebugger(restart) PROVE FlagTypes'
  BY <1>2 DEF StopDebugger
<1>3. CASE UserCommand
  BY <1>3 DEF UserCommand
<1>4. CASE EventLoop
  BY <1>4 DEF EventLoop, StopAll, StopAllReturns, RestartServer, CreateServer,
       OnDbgpInit, OnDbgpContinue, OnDbgpContinueStopping, OnDebuggerError,
       ResetDebugger
<1>5. ASSUME NEW s \in Server, OnCmd(s) \/ ServerStep(s) \/ ServerFault(s)
      PROVE  FlagTypes'
  BY <1>5 DEF OnCmd, ServerStep, ServerFault, ServerUnchanged, BeginWork,
       Bind, TestCancelled, Accept, ReadInit, SessionCancelled, SendCommand,
       ReadAnswer, ReadFails, Drain, BindFails, AcceptFails
<1>6. ASSUME NEW e \in Engine, Connect(e) \/ EngineStep(e) \/ EngineDrops(e)
      PROVE  FlagTypes'
  BY <1>6 DEF Connect, EngineStep, EngineAnswers, EngineRuns, EngineDrops,
       EngineUnchanged
<1>7. CASE UNCHANGED vars
  BY <1>7 DEF vars
<1>8. QED
  BY <1>1, <1>2, <1>3, <1>4, <1>5, <1>6, <1>7 DEF Next, Gui

\* The event that the feature handles next comes from some script.
LEMMA FirstEvent ==
    ASSUME TypeOK, featureEvents # << >>
    PROVE  /\ Head(featureEvents).from \in Engine
           /\ Tail(featureEvents) \in Seq(FeatureEvent)
<1>1. featureEvents \in Seq(FeatureEvent)
  BY DEF TypeOK
<1>2. Head(featureEvents) \in FeatureEvent
  BY <1>1, HeadTailProperties
<1>3. Head(featureEvents).from \in Engine
  BY <1>2 DEF FeatureEvent
<1>4. QED
  BY <1>1, <1>3, HeadTailProperties

\* What the GUI counts and remembers, and what it knows of the servers.
LEMMA GuiTypesStep ==
    ASSUME TypeOK, [Next]_vars
    PROVE  GuiTypes'
<1>a. FlagTypes /\ GuiTypes /\ QueueTypes /\ ServerTypes
  BY TypesTogether
<1>b. MaxServers \in Nat /\ MaxStops \in Nat /\ MaxUserCommands \in Nat
  BY DebuggerAssumption
<1> USE DEF GuiTypes, stopVars
<1>1. CASE StartDebugger
  BY <1>1, <1>a, <1>b DEF StartDebugger, CreateServer, Server
<1>2. ASSUME NEW restart \in BOOLEAN, StopDebugger(restart) PROVE GuiTypes'
  BY <1>2, <1>a, <1>b DEF StopDebugger, poolVars, serverVars
<1>3. CASE UserCommand
  <2>1. TransactionId' \in Nat
    BY <1>3, <1>a, PostCmdsTyped, KindsAreSequences DEF UserCommand
  <2>2. QED
    BY <1>3, <2>1, <1>a, <1>b DEF UserCommand, poolVars, serverVars
<1>4. CASE StopAll
  BY <1>4, <1>a DEF StopAll, Working, Listening
<1>5. CASE StopAllReturns
  BY <1>5, <1>a DEF StopAllReturns, poolVars, serverVars
<1>6. CASE RestartServer
  <2>1. CASE IsDebuggerSessionActive \/ IsDebuggerServerActive
    BY <1>6, <2>1, <1>a DEF RestartServer, poolVars
  <2>2. CASE ~(IsDebuggerSessionActive \/ IsDebuggerServerActive)
    <3>1. CreateServer
      BY <1>6, <2>2 DEF RestartServer
    <3>2. /\ servers' \in 0 .. MaxServers
          /\ Handlers' \in SUBSET Server
      BY <3>1, <1>a, <1>b DEF CreateServer, Server
    <3>3. QED
      BY <1>6, <3>2, <1>a DEF RestartServer
  <2>3. QED
    BY <2>1, <2>2
<1>7. CASE OnDbgpInit \/ OnDbgpContinue
  <2>1. Head(featureEvents).from \in Engine
    BY <1>7, FirstEvent DEF OnDbgpInit, OnDbgpContinue
  <2>2. TransactionId' \in Nat
    BY <1>7, <2>1, PostCmdsTyped, KindsAreSequences
       DEF OnDbgpInit, OnDbgpContinue
  <2>3. QED
    BY <1>7, <2>1, <2>2, <1>a
       DEF OnDbgpInit, OnDbgpContinue, poolVars, serverVars
<1>8. CASE OnDbgpContinueStopping \/ OnDebuggerError
  BY <1>8, <1>a
     DEF OnDbgpContinueStopping, OnDebuggerError, ResetDebugger, poolVars,
         serverVars
<1>9. ASSUME NEW s \in Server, OnCmd(s) PROVE GuiTypes'
  BY <1>9, <1>a DEF OnCmd, poolVars, serverVars
<1>10. ASSUME NEW s \in Server, ServerStep(s) PROVE GuiTypes'
  BY <1>10, <1>a
     DEF ServerStep, ServerUnchanged, BeginWork, Bind, TestCancelled, EndWork,
         Accept, ReadInit, SessionCancelled, SendCommand, ReadAnswer,
         ReadFails, Drain
<1>11. ASSUME NEW s \in Server, ServerFault(s) PROVE GuiTypes'
  BY <1>11, <1>a
     DEF ServerFault, ServerUnchanged, BindFails, EndWork, AcceptFails, Fails
<1>12. ASSUME NEW e \in Engine, Connect(e) \/ EngineStep(e) \/ EngineDrops(e)
       PROVE  GuiTypes'
  BY <1>12, <1>a
     DEF Connect, EngineStep, EngineAnswers, EngineRuns, EngineDrops,
         EngineUnchanged, Fails, poolVars, serverVars
<1>13. CASE UNCHANGED vars
  BY <1>13, <1>a DEF vars, poolVars, serverVars
<1>14. QED
  BY <1>1, <1>2, <1>3, <1>4, <1>5, <1>6, <1>7, <1>8, <1>9, <1>10, <1>11,
     <1>12, <1>13 DEF Next, Gui, EventLoop

\* The queues of servers, of connections and of events.
LEMMA QueueTypesStep ==
    ASSUME TypeOK, [Next]_vars
    PROVE  QueueTypes'
<1>a. GuiTypes /\ QueueTypes /\ ServerTypes
  BY TypesTogether
<1>b. /\ MaxServers \in Nat
      /\ << >> \in Seq(Server)
      /\ << >> \in Seq(Engine \cup {Closer})
  BY DebuggerAssumption, EmptySeq
<1> USE DEF QueueTypes, poolVars, engineVars
<1>c. CreateServer => Actions' \in Seq(Server)
  <2>1. CreateServer => servers + 1 \in Server
    BY <1>a, <1>b DEF CreateServer, GuiTypes, Server
  <2>2. QED
    BY <2>1, <1>a, AppendProperties DEF CreateServer
<1>1. CASE StartDebugger
  BY <1>1, <1>a, <1>c DEF StartDebugger
<1>2. ASSUME NEW restart \in BOOLEAN, StopDebugger(restart) PROVE QueueTypes'
  <2>1. Append(backlog, Closer) \in Seq(Engine \cup {Closer})
    BY <1>a, AppendProperties
  <2>2. QED
    BY <1>2, <2>1, <1>a DEF StopDebugger
<1>3. CASE UserCommand
  BY <1>3, <1>a DEF UserCommand
<1>4. CASE StopAll
  BY <1>4, <1>a, <1>b DEF StopAll
<1>5. CASE StopAllReturns
  BY <1>5, <1>a DEF StopAllReturns
<1>6. CASE RestartServer
  <2>1. Actions' \in Seq(Server)
    BY <1>6, <1>a, <1>c DEF RestartServer
  <2>2. QED
    BY <1>6, <2>1, <1>a DEF RestartServer
<1>7. CASE OnDbgpInit \/ OnDbgpContinue \/ OnDbgpContinueStopping
  <2>1. featureEvents' \in Seq(FeatureEvent)
    BY <1>7, FirstEvent
       DEF OnDbgpInit, OnDbgpContinue, OnDbgpContinueStopping
  <2>2. QED
    BY <1>7, <2>1, <1>a
       DEF OnDbgpInit, OnDbgpContinue, OnDbgpContinueStopping
<1>8. CASE OnDebuggerError
  BY <1>8, <1>a DEF OnDebuggerError
<1>9. ASSUME NEW s \in Server, OnCmd(s) PROVE QueueTypes'
  BY <1>9, <1>a DEF OnCmd
<1>10. ASSUME NEW s \in Server, BeginWork(s) PROVE QueueTypes'
  <2>1. Actions' \in Seq(Server)
    BY <1>10, <1>a, HeadTailProperties DEF BeginWork
  <2>2. QED
    BY <1>10, <2>1, <1>a DEF BeginWork
<1>11. ASSUME NEW s \in Server,
              Bind(s) \/ TestCancelled(s) \/ SessionCancelled(s)
                \/ SendCommand(s) \/ ReadFails(s) \/ Drain(s)
                \/ BindFails(s) \/ AcceptFails(s)
       PROVE  QueueTypes'
  BY <1>11, <1>a, <1>b
     DEF Bind, TestCancelled, EndWork, SessionCancelled, SendCommand,
         ReadFails, Drain, BindFails, AcceptFails, LeaveSession
<1>12. ASSUME NEW s \in Server, Accept(s) PROVE QueueTypes'
  <2>1. backlog' \in Seq(Engine \cup {Closer})
    BY <1>12, <1>a, HeadTailProperties DEF Accept
  <2>2. QED
    BY <1>12, <2>1, <1>a DEF Accept
<1>13. ASSUME NEW s \in Server, ReadInit(s) PROVE QueueTypes'
  <2>1. CASE EndWork(s)
    BY <1>13, <2>1, <1>a, <1>b DEF EndWork
  <2>2. CASE ~EndWork(s)
    <3>1. [what |-> "init", from |-> peer[s]] \in FeatureEvent
      BY <1>13, <2>2 DEF ReadInit, FeatureEvent
    <3>2. featureEvents' = Append(featureEvents,
                                  [what |-> "init", from |-> peer[s]])
      BY <1>13, <2>2 DEF ReadInit
    <3>3. featureEvents' \in Seq(FeatureEvent)
      BY <3>1, <3>2, <1>a, AppendProperties
    <3>4. QED
      BY <1>13, <2>2, <3>3, <1>a DEF ReadInit
  <2>3. QED
    BY <2>1, <2>2
<1>14. ASSUME NEW s \in Server, ReadAnswer(s) PROVE QueueTypes'
  <2> DEFINE answer == wire[peer[s]].what
  <2>1. CASE answer \in {"break", "stopping"}
    <3>1. peer[s] \in Engine
      BY <1>14, <1>a DEF ReadAnswer, ServerTypes
    <3>2. [what |-> answer, from |-> peer[s]] \in FeatureEvent
      BY <2>1, <3>1 DEF FeatureEvent
    <3>3. featureEvents' = Append(featureEvents,
                                  [what |-> answer, from |-> peer[s]])
      BY <1>14, <2>1 DEF ReadAnswer
    <3> HIDE DEF answer
    <3>4. featureEvents' \in Seq(FeatureEvent)
      BY <3>2, <3>3, <1>a, AppendProperties
    <3>5. QED
      BY <1>14, <3>4, <1>a DEF ReadAnswer
  <2>2. CASE answer \notin {"break", "stopping"}
    BY <1>14, <2>2, <1>a DEF ReadAnswer
  <2>3. QED
    BY <2>1, <2>2
<1>15. ASSUME NEW e \in Engine, Connect(e) PROVE QueueTypes'
  <2>1. Append(backlog, e) \in Seq(Engine \cup {Closer})
    BY <1>a, AppendProperties
  <2>2. QED
    BY <1>15, <2>1, <1>a DEF Connect, EngineUnchanged
<1>16. ASSUME NEW e \in Engine, EngineStep(e) \/ EngineDrops(e)
       PROVE  QueueTypes'
  BY <1>16, <1>a
     DEF EngineStep, EngineAnswers, EngineRuns, EngineDrops, EngineUnchanged
<1>17. CASE UNCHANGED vars
  BY <1>17, <1>a DEF vars
<1>18. QED
  BY <1>1, <1>2, <1>3, <1>4, <1>5, <1>6, <1>7, <1>8, <1>9, <1>10, <1>11,
     <1>12, <1>13, <1>14, <1>15, <1>16, <1>17
     DEF Next, Gui, EventLoop, ServerStep, ServerFault

\* The commands: sent last, on their way and waiting.
LEMMA CommandTypesStep ==
    ASSUME TypeOK, [Next]_vars
    PROVE  CommandTypes'
<1>a. GuiTypes /\ CommandTypes /\ ServerTypes
  BY TypesTogether
<1>b. << >> \in Seq(Command) /\ NoCommand \in Command
  BY EmptySeq, NothingIsTyped
<1> USE DEF CommandTypes, serverVars
<1>1. CASE StartDebugger \/ RestartServer
  BY <1>1, <1>a DEF StartDebugger, RestartServer
<1>2. ASSUME NEW restart \in BOOLEAN, StopDebugger(restart) PROVE CommandTypes'
  BY <1>2, <1>a DEF StopDebugger
<1>3. CASE UserCommand
  <2>1. Posted' \in [Server -> Seq(Command)]
    BY <1>3, <1>a, PostCmdsTyped, KindsAreSequences DEF UserCommand, GuiTypes
  <2>2. QED
    BY <1>3, <2>1, <1>a DEF UserCommand
<1>4. CASE StopAll
  BY <1>4, <1>a, <1>b DEF StopAll
<1>5. CASE StopAllReturns
  BY <1>5, <1>a DEF StopAllReturns
<1>6. CASE OnDbgpInit \/ OnDbgpContinue
  <2>1. Head(featureEvents).from \in Engine
    BY <1>6, FirstEvent DEF OnDbgpInit, OnDbgpContinue
  <2>2. Posted' \in [Server -> Seq(Command)]
    BY <1>6, <2>1, PostCmdsTyped, KindsAreSequences
       DEF OnDbgpInit, OnDbgpContinue
  <2>3. QED
    BY <1>6, <2>2, <1>a DEF OnDbgpInit, OnDbgpContinue
<1>7. CASE OnDbgpContinueStopping \/ OnDebuggerError
  BY <1>7, <1>a DEF OnDbgpContinueStopping, OnDebuggerError
<1>8. ASSUME NEW s \in Server, OnCmd(s) PROVE CommandTypes'
  <2>1. /\ Head(Posted[s]) \in Command
        /\ Tail(Posted[s]) \in Seq(Command)
    BY <1>8, <1>a, HeadTailProperties DEF OnCmd
  <2>2. Append(Commands[s], Head(Posted[s])) \in Seq(Command)
    BY <2>1, <1>a, AppendProperties
  <2>3. QED
    BY <1>8, <2>1, <2>2, <1>a DEF OnCmd
<1>9. ASSUME NEW s \in Server, EndWork(s) PROVE CommandTypes'
  BY <1>9, <1>a, <1>b DEF EndWork
<1>10. ASSUME NEW s \in Server, LeaveSession(s), UNCHANGED <<Posted, Commands>>
       PROVE  CommandTypes'
  BY <1>10, <1>a, <1>b DEF LeaveSession
<1>11. ASSUME UNCHANGED <<next, Posted, Commands>>
       PROVE  CommandTypes'
  BY <1>11, <1>a
<1>12. ASSUME NEW s \in Server, Commands[s] # << >>, UNCHANGED Posted,
              next' = [next EXCEPT ![s] = Head(Commands[s])] \/ UNCHANGED next,
              Commands' = [Commands EXCEPT ![s] = Tail(@)]
       PROVE  CommandTypes'
  <2>1. /\ Head(Commands[s]) \in Command
        /\ Tail(Commands[s]) \in Seq(Command)
    BY <1>12, <1>a, HeadTailProperties
  <2>2. QED
    BY <1>12, <2>1, <1>a
<1>13. ASSUME NEW s \in Server, ServerStep(s) \/ ServerFault(s)
       PROVE  CommandTypes'
  <2>1. CASE SendCommand(s)
    BY <2>1, <1>12 DEF SendCommand
  <2>2. CASE Drain(s)
    BY <2>2, <1>10, <1>12 DEF Drain
  <2>3. CASE SessionCancelled(s) \/ ReadFails(s)
    BY <2>3, <1>10 DEF SessionCancelled, ReadFails
  <2>4. CASE TestCancelled(s) \/ ReadInit(s)
    BY <2>4, <1>9, <1>11 DEF TestCancelled, ReadInit
  <2>5. CASE BindFails(s)
    BY <2>5, <1>9 DEF BindFails
  <2>6. CASE BeginWork(s) \/ Bind(s) \/ Accept(s) \/ ReadAnswer(s)
               \/ AcceptFails(s)
    BY <2>6, <1>11 DEF BeginWork, Bind, Accept, ReadAnswer, AcceptFails
  <2>7. QED
    BY <1>13, <2>1, <2>2, <2>3, <2>4, <2>5, <2>6 DEF ServerStep, ServerFault
<1>14. ASSUME NEW e \in Engine, Connect(e) \/ EngineStep(e) \/ EngineDrops(e)
       PROVE  CommandTypes'
  BY <1>14, <1>a
     DEF Connect, EngineStep, EngineAnswers, EngineRuns, EngineDrops,
         EngineUnchanged
<1>15. CASE UNCHANGED vars
  BY <1>15, <1>a DEF vars
<1>16. QED
  BY <1>1, <1>2, <1>3, <1>4, <1>5, <1>6, <1>7, <1>8, <1>13, <1>14, <1>15
     DEF Next, Gui, EventLoop

\* Where the servers are, and who is at the other end of their sockets.
LEMMA ServerTypesStep ==
    ASSUME TypeOK, [Next]_vars
    PROVE  ServerTypes'
<1>a. GuiTypes /\ QueueTypes /\ ServerTypes
  BY TypesTogether
<1>b. MaxServers \in Nat
  BY DebuggerAssumption
<1> USE DEF ServerTypes, serverVars
<1>1. ASSUME CreateServer, UNCHANGED peer PROVE ServerTypes'
  <2>1. servers + 1 \in Server
    BY <1>1, <1>a, <1>b DEF CreateServer, GuiTypes, Server
  <2>2. pc' = [pc EXCEPT ![servers + 1] = "queued"]
    BY <1>1 DEF CreateServer
  <2>3. QED
    BY <1>1, <2>1, <2>2, <1>a
<1>2. ASSUME NEW s \in Server, UNCHANGED peer,
             NEW at \in {"bind", "loop", "accept", "ended"}, Goto(s, at)
      PROVE  ServerTypes'
  BY <1>2, <1>a DEF Goto
<1>3. ASSUME NEW s \in Server, EndWork(s) PROVE ServerTypes'
  BY <1>3, <1>a DEF EndWork, Goto
<1>4. ASSUME NEW s \in Server, LeaveSession(s) PROVE ServerTypes'
  BY <1>4, <1>a DEF LeaveSession, Goto
<1>5. ASSUME NEW s \in Server, UNCHANGED peer, peer[s] \in Engine,
             NEW at \in {"session", "reply", "drain"}, Goto(s, at)
      PROVE  ServerTypes'
  BY <1>5, <1>a DEF Goto
<1>6. ASSUME UNCHANGED <<pc, peer>> PROVE ServerTypes'
  BY <1>6, <1>a
<1>7. CASE Gui
  <2>1. CASE StartDebugger
    BY <2>1, <1>1 DEF StartDebugger
  <2>2. CASE UserCommand
    BY <2>2, <1>6 DEF UserCommand
  <2>3. ASSUME NEW restart \in BOOLEAN, StopDebugger(restart)
        PROVE  ServerTypes'
    BY <2>3, <1>6 DEF StopDebugger
  <2>4. QED
    BY <1>7, <2>1, <2>2, <2>3 DEF Gui
<1>8. CASE EventLoop
  <2>1. CASE StopAll
    BY <2>1, <1>a DEF StopAll
  <2>2. CASE RestartServer
    BY <2>2, <1>1, <1>6 DEF RestartServer
  <2>3. CASE StopAllReturns \/ OnDbgpInit \/ OnDbgpContinue
               \/ OnDbgpContinueStopping \/ OnDebuggerError
    BY <2>3, <1>6
       DEF StopAllReturns, OnDbgpInit, OnDbgpContinue, OnDbgpContinueStopping,
           OnDebuggerError
  <2>4. QED
    BY <1>8, <2>1, <2>2, <2>3 DEF EventLoop
<1>9. ASSUME NEW s \in Server, OnCmd(s) PROVE ServerTypes'
  BY <1>9, <1>6 DEF OnCmd
<1>10. ASSUME NEW s \in Server, ServerStep(s) \/ ServerFault(s)
       PROVE  ServerTypes'
  <2>1. CASE BeginWork(s) \/ Bind(s) \/ AcceptFails(s)
    BY <2>1, <1>2 DEF BeginWork, Bind, AcceptFails
  <2>2. CASE TestCancelled(s) \/ BindFails(s)
    BY <2>2, <1>2, <1>3 DEF TestCancelled, BindFails
  <2>3. CASE Accept(s)
    <3>1. Head(backlog) \in Engine \cup {Closer}
      BY <2>3, <1>a, HeadTailProperties DEF Accept, QueueTypes
    <3>2. QED
      BY <2>3, <3>1, <1>a DEF Accept, Goto
  <2>4. CASE ReadInit(s)
    BY <2>4, <1>3, <1>5 DEF ReadInit
  <2>5. CASE SessionCancelled(s) \/ ReadFails(s)
    BY <2>5, <1>4 DEF SessionCancelled, ReadFails
  <2>6. CASE SendCommand(s)
    <3>1. peer[s] \in Engine
      BY <2>6, <1>a DEF SendCommand
    <3>2. QED
      BY <2>6, <3>1, <1>5 DEF SendCommand
  <2>7. CASE ReadAnswer(s)
    <3>1. peer[s] \in Engine
      BY <2>7, <1>a DEF ReadAnswer
    <3>2. Goto(s, "drain") \/ Goto(s, "session")
      BY <2>7 DEF ReadAnswer
    <3>3. QED
      BY <2>7, <3>1, <3>2, <1>5 DEF ReadAnswer
  <2>8. CASE Drain(s)
    BY <2>8, <1>4, <1>6 DEF Drain
  <2>9. QED
    BY <1>10, <2>1, <2>2, <2>3, <2>4, <2>5, <2>6, <2>7, <2>8
       DEF ServerStep, ServerFault
<1>11. ASSUME NEW e \in Engine, Connect(e) \/ EngineStep(e) \/ EngineDrops(e)
       PROVE  ServerTypes'
  BY <1>11, <1>6
     DEF Connect, EngineStep, EngineAnswers, EngineRuns, EngineDrops,
         EngineUnchanged
<1>12. CASE UNCHANGED vars
  BY <1>12, <1>6 DEF vars
<1>13. QED
  BY <1>7, <1>8, <1>9, <1>10, <1>11, <1>12 DEF Next

\* What the scripts do, and what is in flight on their connections.
LEMMA EngineTypesStep ==
    ASSUME TypeOK, [Next]_vars
    PROVE  EngineTypes'
<1>a. EngineTypes /\ ServerTypes /\ CommandTypes
  BY TypesTogether
<1>b. Silence \in Message
  BY NothingIsTyped
<1> USE DEF EngineTypes, engineVars
<1>1. ASSUME NEW s \in Server, EndWork(s) PROVE EngineTypes'
  BY <1>1, <1>a, <1>b DEF EndWork
<1>2. ASSUME NEW s \in Server, LeaveSession(s) PROVE EngineTypes'
  BY <1>2, <1>a, <1>b DEF LeaveSession
<1>3. ASSUME UNCHANGED <<engine, wire>> PROVE EngineTypes'
  BY <1>3, <1>a
<1>4. ASSUME NEW e \in Engine, UNCHANGED engine,
             NEW m \in Message, wire' = [wire EXCEPT ![e] = m]
      PROVE  EngineTypes'
  BY <1>4, <1>a
<1>5. ASSUME NEW e \in Engine,
             NEW what \in Answer \cup {"none", "request"},
             wire' = [wire EXCEPT ![e].what = what]
      PROVE  wire' \in [Engine -> Message]
  <2>1. [wire[e] EXCEPT !.what = what] \in Message
    BY <1>5, <1>a DEF Message
  <2>2. QED
    BY <1>5, <2>1, <1>a
<1>6. CASE Gui \/ EventLoop
  BY <1>6, <1>3
     DEF Gui, EventLoop, StartDebugger, StopDebugger, UserCommand, StopAll,
         StopAllReturns, RestartServer, OnDbgpInit, OnDbgpContinue,
         OnDbgpContinueStopping, OnDebuggerError
<1>7. ASSUME NEW s \in Server, OnCmd(s) PROVE EngineTypes'
  BY <1>7, <1>3 DEF OnCmd
<1>8. ASSUME NEW s \in Server, ServerStep(s) \/ ServerFault(s)
      PROVE  EngineTypes'
  <2>1. CASE BeginWork(s) \/ Bind(s) \/ AcceptFails(s) \/ Accept(s)
    BY <2>1, <1>3 DEF BeginWork, Bind, AcceptFails, Accept
  <2>2. CASE TestCancelled(s) \/ BindFails(s)
    BY <2>2, <1>1, <1>3 DEF TestCancelled, BindFails
  <2>3. CASE ReadInit(s)
    BY <2>3, <1>1, <1>4, <1>b DEF ReadInit
  <2>4. CASE SessionCancelled(s) \/ ReadFails(s)
    BY <2>4, <1>2 DEF SessionCancelled, ReadFails
  <2>5. CASE SendCommand(s)
    <3>1. Head(Commands[s]) \in Command
      BY <2>5, <1>a, HeadTailProperties DEF SendCommand, CommandTypes
    <3>2. [what |-> "request", cmd |-> Head(Commands[s])] \in Message
      BY <3>1 DEF Message
    <3>3. UNCHANGED engine
      BY <2>5 DEF SendCommand
    <3>4. peer[s] \in Engine
      BY <2>5, <1>a DEF SendCommand, ServerTypes
    <3>5. \/ UNCHANGED wire
          \/ wire' = [wire EXCEPT ![peer[s]] =
                         [what |-> "request", cmd |-> Head(Commands[s])]]
      BY <2>5 DEF SendCommand
    <3>6. QED
      BY <3>2, <3>3, <3>4, <3>5, <1>3, <1>4
  <2>6. CASE ReadAnswer(s)
    BY <2>6, <1>a, <1>b DEF ReadAnswer
  <2>7. CASE Drain(s)
    BY <2>7, <1>2, <1>3 DEF Drain
  <2>8. QED
    BY <1>8, <2>1, <2>2, <2>3, <2>4, <2>5, <2>6, <2>7
       DEF ServerStep, ServerFault
<1>9. ASSUME NEW e \in Engine, Connect(e) PROVE EngineTypes'
  <2>1. wire' \in [Engine -> Message]
    BY <1>9, <1>5 DEF Connect, Answer
  <2>2. QED
    BY <1>9, <2>1, <1>a DEF Connect
<1>10. ASSUME NEW e \in Engine, EngineStep(e) \/ EngineDrops(e)
       PROVE  EngineTypes'
  <2>1. CASE EngineAnswers(e)
    <3>1. wire' \in [Engine -> Message]
      BY <2>1, <1>5 DEF EngineAnswers, Answers, Answer
    <3>2. QED
      BY <2>1, <3>1, <1>a DEF EngineAnswers
  <2>2. CASE EngineRuns(e)
    <3>1. PICK status \in {"break", "stopping"} :
              Answers(e, status) /\ engine' = [engine EXCEPT ![e] = status]
      BY <2>2 DEF EngineRuns
    <3>2. wire' \in [Engine -> Message]
      BY <3>1, <1>5 DEF Answers, Answer
    <3>3. QED
      BY <3>1, <3>2, <1>a
  <2>3. CASE EngineDrops(e)
    <3>1. wire' \in [Engine -> Message]
      BY <2>3, <1>5 DEF EngineDrops, Answers, Answer
    <3>2. QED
      BY <2>3, <3>1, <1>a DEF EngineDrops
  <2>4. QED
    BY <1>10, <2>1, <2>2, <2>3 DEF EngineStep
<1>11. CASE UNCHANGED vars
  BY <1>11, <1>3 DEF vars
<1>12. QED
  BY <1>6, <1>7, <1>8, <1>9, <1>10, <1>11 DEF Next

\* The program starts with nothing queued, running or connected.
LEMMA TypeInit == Init => TypeOK
<1> SUFFICES ASSUME Init PROVE TypeOK
  OBVIOUS
<1>1. FlagTypes
  BY DEF Init, FlagTypes
<1>2. GuiTypes /\ ServerTypes
  BY DebuggerAssumption DEF Init, GuiTypes, ServerTypes
<1>3. QueueTypes
  BY EmptySeq DEF Init, QueueTypes
<1>4. CommandTypes /\ EngineTypes
  BY NothingIsTyped, EmptySeq DEF Init, CommandTypes, EngineTypes
<1>5. QED
  BY <1>1, <1>2, <1>3, <1>4, TypesTogether

\* TypeOK is kept by every step.
LEMMA TypeStep ==
    ASSUME TypeOK, [Next]_vars
    PROVE  TypeOK'
<1>1. FlagTypes'
  BY TypesTogether, FlagTypesStep
<1>2. GuiTypes' /\ QueueTypes'
  BY GuiTypesStep, QueueTypesStep
<1>3. CommandTypes' /\ ServerTypes' /\ EngineTypes'
  BY CommandTypesStep, ServerTypesStep, EngineTypesStep
<1>4. QED
  BY <1>1, <1>2, <1>3
     DEF TypeOK, FlagTypes, GuiTypes, QueueTypes, CommandTypes, ServerTypes,
         EngineTypes

\* Every reachable state of the debugger is well-typed: in particular a server
\* that exchanges commands has a script at the other end of its socket
\* (BackgroundWork, SessionWork).
THEOREM DebuggerTypeCorrect == Spec => []TypeOK
<1>1. TypeOK /\ [Next]_vars => TypeOK'
  BY TypeStep
<1>2. QED
  BY TypeInit, <1>1, PTL DEF Spec

-----------------------------------------------------------------------------
(***************************************************************************)
(* The servers.  All that is said about them below follows from the few    *)
(* ways in which a step can move one.                                      *)
(***************************************************************************)

Inside == {"loop", "accept", "init", "session", "reply", "drain"}

\* A server is created, the queue is thrown away, the thread takes the first
\* one, one returns from BackgroundWork, one goes on inside of it, or nothing
\* of this happens.
LEMMA WaysToMove ==
    ASSUME [Next]_vars
    PROVE  \/ CreateServer
           \/ StopAll
           \/ \E s \in Server : BeginWork(s)
           \/ \E s \in Working : EndWork(s) /\ UNCHANGED servers
           \/ \E s \in Working, at \in Inside :
                  Goto(s, at) /\ UNCHANGED <<Handlers, Actions, servers>>
           \/ UNCHANGED <<pc, Handlers, Actions, servers>>
<1> USE DEF poolVars, serverVars
<1>1. CASE Gui
  BY <1>1 DEF Gui, StartDebugger, StopDebugger, UserCommand
<1>2. CASE EventLoop
  BY <1>2
     DEF EventLoop, StopAllReturns, RestartServer, OnDbgpInit, OnDbgpContinue,
         OnDbgpContinueStopping, OnDebuggerError
<1>3. ASSUME NEW s \in Server, OnCmd(s)
      PROVE  UNCHANGED <<pc, Handlers, Actions, servers>>
  BY <1>3 DEF OnCmd
<1>4. ASSUME NEW s \in Server, ServerStep(s) \/ ServerFault(s), ~BeginWork(s)
      PROVE  /\ s \in Working
             /\ UNCHANGED servers
             /\ \/ EndWork(s)
                \/ /\ UNCHANGED <<Handlers, Actions>>
                   /\ UNCHANGED pc \/ \E at \in Inside : Goto(s, at)
  <2> USE DEF Working, Listening, Inside, ServerUnchanged
  <2>1. CASE Bind(s) \/ TestCancelled(s) \/ BindFails(s) \/ AcceptFails(s)
    BY <2>1 DEF Bind, TestCancelled, BindFails, AcceptFails
  <2>2. CASE Accept(s) \/ ReadInit(s) \/ SendCommand(s) \/ ReadAnswer(s)
    BY <2>2 DEF Accept, ReadInit, SendCommand, ReadAnswer
  <2>3. CASE SessionCancelled(s) \/ ReadFails(s) \/ Drain(s)
    BY <2>3 DEF SessionCancelled, ReadFails, Drain, LeaveSession
  <2>4. QED
    BY <1>4, <2>1, <2>2, <2>3 DEF ServerStep, ServerFault
<1>5. ASSUME NEW e \in Engine, Connect(e) \/ EngineStep(e) \/ EngineDrops(e)
      PROVE  UNCHANGED <<pc, Handlers, Actions, servers>>
  BY <1>5
     DEF Connect, EngineStep, EngineAnswers, EngineRuns, EngineDrops,
         EngineUnchanged
<1>6. CASE UNCHANGED vars
  BY <1>6 DEF vars
<1>7. QED
  BY <1>1, <1>2, <1>3, <1>4, <1>5, <1>6 DEF Next

\* The queue holds servers that have not begun, each once, and the servers
\* that are yet to be created have left no trace.
QueueIsFresh ==
    /\ \A s \in Server : s > servers => pc[s] = "none"
    /\ \A n \in DOMAIN Actions : pc[Actions[n]] = "queued"
    /\ \A m, n \in DOMAIN Actions : Actions[m] = Actions[n] => m = n

\* One thread runs them all.
OneWorker == \A s, t \in Working : s = t

SinkInv == TypeOK /\ QueueIsFresh /\ OneWorker /\ SinkForgetsEnded

\* An action that begins or ends leaves the queue as it has to be, whatever the
\* GUI creates and deletes meanwhile.
LEMMA SinkInvStep ==
    ASSUME SinkInv, [Next]_vars
    PROVE  QueueIsFresh' /\ OneWorker' /\ SinkForgetsEnded'
<1>a. /\ pc \in [Server -> {"none", "queued", "bind", "loop", "accept",
                            "init", "session", "reply", "drain", "ended",
                            "dropped"}]
      /\ Actions \in Seq(Server)
      /\ servers \in 0 .. MaxServers
      /\ Handlers \in SUBSET Server
  BY DEF SinkInv, TypeOK
<1>b. QueueIsFresh /\ OneWorker /\ SinkForgetsEnded
  BY DEF SinkInv
<1>c. MaxServers \in Nat
  BY DebuggerAssumption
<1>d. /\ DOMAIN Actions = 1 .. Len(Actions)
      /\ Len(Actions) \in Nat
      /\ \A n \in DOMAIN Actions : Actions[n] \in Server
  BY <1>a, LenProperties, ElementOfSeq
<1> USE DEF Working, Listening, Alive, Inside
<1>1. CASE CreateServer
  <2> DEFINE new == servers + 1
  <2>1. /\ new \in Server
        /\ new > servers
        /\ pc[new] = "none"
    BY <1>1, <1>a, <1>b, <1>c DEF CreateServer, Server, QueueIsFresh
  <2>2. /\ servers' = new
        /\ pc' = [pc EXCEPT ![new] = "queued"]
        /\ Handlers' = Handlers \cup {new}
        /\ Actions' = Append(Actions, new)
    BY <1>1 DEF CreateServer
  <2>3. /\ DOMAIN Actions' = 1 .. Len(Actions) + 1
        /\ \A n \in 1 .. Len(Actions) : Actions'[n] = Actions[n]
        /\ Actions'[Len(Actions) + 1] = new
    BY <2>1, <2>2, <1>a, AppendProperties, LenProperties
  <2>4. \A n \in DOMAIN Actions : Actions[n] # new
    BY <2>1, <1>b DEF QueueIsFresh
  <2> HIDE DEF new
  <2>5. \A s \in Server : s > servers' => s > servers /\ s # new
    BY <2>1, <2>2, <1>a DEF Server
  <2>6. QueueIsFresh'
    <3>1. \A s \in Server : s > servers' => pc'[s] = "none"
      BY <2>1, <2>2, <2>5, <1>a, <1>b DEF QueueIsFresh
    <3>2. \A n \in DOMAIN Actions' : pc'[Actions'[n]] = "queued"
      BY <2>1, <2>2, <2>3, <2>4, <1>a, <1>b, <1>d DEF QueueIsFresh
    <3>3. \A m, n \in DOMAIN Actions' : Actions'[m] = Actions'[n] => m = n
      BY <2>3, <2>4, <1>b, <1>d DEF QueueIsFresh
    <3>4. QED
      BY <3>1, <3>2, <3>3 DEF QueueIsFresh
  <2>7. OneWorker'
    BY <2>1, <2>2, <1>a, <1>b DEF OneWorker
  <2>8. SinkForgetsEnded'
    BY <2>1, <2>2, <1>a, <1>b DEF SinkForgetsEnded
  <2>9. QED
    BY <2>6, <2>7, <2>8
<1>2. CASE StopAll
  <2>1. /\ servers' = servers
        /\ pc' = [s \in Server |-> IF pc[s] = "queued" THEN "dropped"
                                   ELSE pc[s]]
        /\ Handlers' = Handlers
        /\ Actions' = << >>
    BY <1>2 DEF StopAll
  <2>2. QueueIsFresh'
    BY <2>1, <1>a, <1>b DEF QueueIsFresh
  <2>3. OneWorker'
    BY <2>1, <1>a, <1>b DEF OneWorker
  <2>4. SinkForgetsEnded'
    BY <2>1, <1>a, <1>b DEF SinkForgetsEnded
  <2>5. QED
    BY <2>2, <2>3, <2>4
<1>3. ASSUME NEW s \in Server, BeginWork(s)
      PROVE  QueueIsFresh' /\ OneWorker' /\ SinkForgetsEnded'
  <2>1. /\ Actions # << >>
        /\ s = Head(Actions)
        /\ Working = {}
        /\ Actions' = Tail(Actions)
        /\ pc' = [pc EXCEPT ![s] = "bind"]
        /\ UNCHANGED <<servers, Handlers>>
    BY <1>3 DEF BeginWork, Goto, ServerUnchanged
  <2>2. /\ Len(Actions) >= 1
        /\ s = Actions[1]
        /\ DOMAIN Actions' = 1 .. Len(Actions) - 1
        /\ \A n \in 1 .. Len(Actions) - 1 : Actions'[n] = Actions[n + 1]
    BY <2>1, <1>a, HeadTailProperties, EmptySeq, LenProperties
  <2>3. pc[s] = "queued"
    BY <2>2, <1>b, <1>d DEF QueueIsFresh
  <2>4. QueueIsFresh'
    <3>1. \A r \in Server : r > servers' => pc'[r] = "none"
      BY <2>1, <2>3, <1>a, <1>b DEF QueueIsFresh
    <3>2. \A n \in DOMAIN Actions' : /\ n + 1 \in DOMAIN Actions
                                     /\ Actions'[n] = Actions[n + 1]
                                     /\ Actions[n + 1] # s
      BY <2>2, <1>b, <1>d DEF QueueIsFresh
    <3>3. \A n \in DOMAIN Actions' : pc'[Actions'[n]] = "queued"
      BY <3>2, <2>1, <1>a, <1>b, <1>d DEF QueueIsFresh
    <3>4. \A m, n \in DOMAIN Actions' : Actions'[m] = Actions'[n] => m = n
      BY <3>2, <2>2, <1>b, <1>d DEF QueueIsFresh
    <3>5. QED
      BY <3>1, <3>3, <3>4 DEF QueueIsFresh
  <2>5. OneWorker'
    BY <2>1, <1>a DEF OneWorker
  <2>6. SinkForgetsEnded'
    BY <2>1, <2>3, <1>a, <1>b DEF SinkForgetsEnded
  <2>7. QED
    BY <2>4, <2>5, <2>6
<1>4. ASSUME NEW s \in Working,
             NEW at \in Inside \cup {"ended"},
             pc' = [pc EXCEPT ![s] = at],
             Handlers' = IF at = "ended" THEN Handlers \ {s} ELSE Handlers,
             UNCHANGED <<Actions, servers>>
      PROVE  QueueIsFresh' /\ OneWorker' /\ SinkForgetsEnded'
  <2>1. s \in Server /\ pc[s] \notin {"none", "queued"}
    BY <1>4
  <2>2. QueueIsFresh'
    BY <1>4, <2>1, <1>a, <1>b, <1>d DEF QueueIsFresh
  <2>3. OneWorker'
    BY <1>4, <2>1, <1>a, <1>b DEF OneWorker
  <2>4. SinkForgetsEnded'
    BY <1>4, <2>1, <1>a, <1>b DEF SinkForgetsEnded
  <2>5. QED
    BY <2>2, <2>3, <2>4
<1>5. CASE UNCHANGED <<pc, Handlers, Actions, servers>>
  BY <1>5, <1>b DEF QueueIsFresh, OneWorker, SinkForgetsEnded
<1>6. ASSUME NEW s \in Working, EndWork(s), UNCHANGED servers
      PROVE  QueueIsFresh' /\ OneWorker' /\ SinkForgetsEnded'
  BY <1>6, <1>4 DEF EndWork, Goto
<1>7. ASSUME NEW s \in Working, NEW at \in Inside, Goto(s, at),
             UNCHANGED <<Handlers, Actions, servers>>
      PROVE  QueueIsFresh' /\ OneWorker' /\ SinkForgetsEnded'
  BY <1>7, <1>4 DEF Goto
<1>8. QED
  BY WaysToMove, <1>1, <1>2, <1>3, <1>5, <1>6, <1>7

\* A script that is accepted, or waits to be, has connected: it will not
\* connect again.
ConnectedOnce ==
    /\ \A s \in Server : peer[s] \in Engine => engine[peer[s]] # "idle"
    /\ \A n \in DOMAIN backlog :
           backlog[n] \in Engine => engine[backlog[n]] # "idle"

AnswerInv == SinkInv /\ ConnectedOnce /\ AnswersMatchCommands

\* No script starts anew, and none connects twice.
LEMMA ConnectedOnceStep ==
    ASSUME AnswerInv, [Next]_vars
    PROVE  /\ \A e \in Engine : engine[e] # "idle" => engine'[e] # "idle"
           /\ ConnectedOnce'
<1>a. /\ peer \in [Server -> Engine \cup {NoEngine, Closer}]
      /\ engine \in [Engine -> {"idle", "starting", "break", "stopping",
                                "gone"}]
      /\ backlog \in Seq(Engine \cup {Closer})
      /\ \A s \in Server : pc[s] \in {"session", "reply", "drain"} =>
                               peer[s] \in Engine
  BY DEF AnswerInv, SinkInv, TypeOK
<1>b. ConnectedOnce
  BY DEF AnswerInv
<1>c. NoEngine \notin Engine /\ Closer \notin Engine
  BY DebuggerAssumption
<1>d. /\ DOMAIN backlog = 1 .. Len(backlog)
      /\ Len(backlog) \in Nat
  BY <1>a, LenProperties
<1> USE DEF engineVars, serverVars
<1> DEFINE Never(e) == engine[e] # "idle" => engine'[e] # "idle"
<1>1. CASE Gui
  <2>1. CASE StartDebugger \/ UserCommand
    BY <2>1, <1>b DEF StartDebugger, UserCommand, ConnectedOnce
  <2>2. ASSUME NEW restart \in BOOLEAN, StopDebugger(restart)
        PROVE  ConnectedOnce' /\ UNCHANGED engine
    <3>1. UNCHANGED <<peer, engine>>
      BY <2>2 DEF StopDebugger
    <3>2. backlog' = backlog \/ backlog' = Append(backlog, Closer)
      BY <2>2 DEF StopDebugger
    <3>3. \A n \in DOMAIN backlog' :
              \/ backlog'[n] = Closer
              \/ n \in DOMAIN backlog /\ backlog'[n] = backlog[n]
      BY <3>2, <1>a, <1>d, AppendProperties, LenProperties
    <3>4. QED
      BY <3>1, <3>3, <1>b, <1>c DEF ConnectedOnce
  <2>3. QED
    BY <1>1, <2>1, <2>2 DEF Gui, StartDebugger, UserCommand
<1>2. CASE EventLoop
  BY <1>2, <1>b
     DEF EventLoop, StopAll, StopAllReturns, RestartServer, OnDbgpInit,
         OnDbgpContinue, OnDbgpContinueStopping, OnDebuggerError, ConnectedOnce
<1>3. ASSUME NEW s \in Server, OnCmd(s)
      PROVE  (\A e \in Engine : Never(e)) /\ ConnectedOnce'
  BY <1>3, <1>b DEF OnCmd, ConnectedOnce
<1>4. ASSUME NEW s \in Server, EndWork(s)
      PROVE  (\A e \in Engine : Never(e)) /\ ConnectedOnce'
  <2>1. \A e \in Engine : Never(e)
    BY <1>4, <1>a DEF EndWork
  <2>2. /\ backlog' = << >>
        /\ \A t \in Server : peer'[t] \in Engine => peer'[t] = peer[t]
    BY <1>4, <1>a, <1>c DEF EndWork
  <2>3. QED
    BY <2>1, <2>2, <1>b DEF ConnectedOnce
<1>5. ASSUME NEW s \in Server, LeaveSession(s)
      PROVE  (\A e \in Engine : Never(e)) /\ ConnectedOnce'
  <2>1. \A e \in Engine : Never(e)
    BY <1>5, <1>a DEF LeaveSession
  <2>2. /\ backlog' = backlog
        /\ \A t \in Server : peer'[t] \in Engine => peer'[t] = peer[t]
    BY <1>5, <1>a, <1>c DEF LeaveSession
  <2>3. QED
    BY <2>1, <2>2, <1>b, <1>a, <1>d, ElementOfSeq DEF ConnectedOnce
<1>6. ASSUME UNCHANGED <<engine, peer, backlog>>
      PROVE  (\A e \in Engine : Never(e)) /\ ConnectedOnce'
  BY <1>6, <1>b DEF ConnectedOnce
<1>7. ASSUME NEW s \in Server, ServerStep(s) \/ ServerFault(s)
      PROVE  (\A e \in Engine : Never(e)) /\ ConnectedOnce'
  <2>1. CASE BeginWork(s) \/ Bind(s) \/ AcceptFails(s) \/ SendCommand(s)
               \/ ReadAnswer(s)
    BY <2>1, <1>6 DEF BeginWork, Bind, AcceptFails, SendCommand, ReadAnswer
  <2>2. CASE TestCancelled(s) \/ BindFails(s) \/ ReadInit(s)
    BY <2>2, <1>4, <1>6 DEF TestCancelled, BindFails, ReadInit
  <2>3. CASE SessionCancelled(s) \/ ReadFails(s) \/ Drain(s)
    BY <2>3, <1>5, <1>6 DEF SessionCancelled, ReadFails, Drain
  <2>4. CASE Accept(s)
    <3>1. /\ backlog # << >>
          /\ peer' = [peer EXCEPT ![s] = Head(backlog)]
          /\ backlog' = Tail(backlog)
          /\ UNCHANGED engine
      BY <2>4 DEF Accept
    <3>2. /\ 1 \in DOMAIN backlog /\ Head(backlog) = backlog[1]
          /\ \A n \in DOMAIN backlog' : /\ n + 1 \in DOMAIN backlog
                                         /\ backlog'[n] = backlog[n + 1]
      BY <3>1, <1>a, <1>d, HeadTailProperties, EmptySeq, LenProperties
    <3>3. QED
      BY <3>1, <3>2, <1>a, <1>b DEF ConnectedOnce
  <2>5. QED
    BY <1>7, <2>1, <2>2, <2>3, <2>4 DEF ServerStep, ServerFault
<1>8. ASSUME NEW e \in Engine, Connect(e)
      PROVE  (\A f \in Engine : Never(f)) /\ ConnectedOnce'
  <2>1. /\ engine' = [engine EXCEPT ![e] = "starting"]
        /\ backlog' = Append(backlog, e)
        /\ UNCHANGED peer
    BY <1>8 DEF Connect, EngineUnchanged
  <2>2. \A f \in Engine : Never(f)
    BY <2>1, <1>a
  <2>3. \A n \in DOMAIN backlog' :
            \/ backlog'[n] = e
            \/ n \in DOMAIN backlog /\ backlog'[n] = backlog[n]
    BY <2>1, <1>a, <1>d, AppendProperties, LenProperties
  <2>4. engine'[e] # "idle"
    BY <2>1, <1>a
  <2> HIDE DEF Never
  <2>5. QED
    BY <2>1, <2>2, <2>3, <2>4, <1>b DEF ConnectedOnce, Never
<1>9. ASSUME NEW e \in Engine, EngineStep(e) \/ EngineDrops(e)
      PROVE  (\A f \in Engine : Never(f)) /\ ConnectedOnce'
  <2>1. UNCHANGED <<peer, backlog>>
    BY <1>9 DEF EngineStep, EngineAnswers, EngineRuns, EngineDrops,
                EngineUnchanged
  <2>2. UNCHANGED engine
          \/ \E at \in {"break", "stopping", "gone"} :
                 engine' = [engine EXCEPT ![e] = at]
    BY <1>9 DEF EngineStep, EngineAnswers, EngineRuns, EngineDrops
  <2>3. \A f \in Engine : Never(f)
    BY <2>2, <1>a
  <2>4. QED
    BY <2>1, <2>3, <1>b, <1>a, <1>d, ElementOfSeq DEF ConnectedOnce
<1>10. CASE UNCHANGED vars
  BY <1>10, <1>6 DEF vars
<1>11. QED
  BY <1>1, <1>2, <1>3, <1>7, <1>8, <1>9, <1>10
     DEF Next, Gui, EventLoop, StartDebugger, UserCommand, StopDebugger,
         StopAll, StopAllReturns, RestartServer, OnDbgpInit, OnDbgpContinue,
         OnDbgpContinueStopping, OnDebuggerError

\* Only the server that asked reads, and nobody writes to the connection of a
\* script that is being asked but the script.
LEMMA AnswersStep ==
    ASSUME AnswerInv, [Next]_vars
    PROVE  AnswersMatchCommands'
<1>a. /\ pc \in [Server -> {"none", "queued", "bind", "loop", "accept",
                            "init", "session", "reply", "drain", "ended",
                            "dropped"}]
      /\ next \in [Server -> Command]
      /\ peer \in [Server -> Engine \cup {NoEngine, Closer}]
      /\ wire \in [Engine -> Message]
      /\ servers \in 0 .. MaxServers
      /\ \A s \in Server : pc[s] \in {"session", "reply", "drain"} =>
                               peer[s] \in Engine
  BY DEF AnswerInv, SinkInv, TypeOK
<1>b. OneWorker /\ ConnectedOnce /\ AnswersMatchCommands
  BY DEF AnswerInv, SinkInv
<1> USE DEF engineVars, serverVars
<1> DEFINE Exchanging(t) == pc[t] \in {"session", "reply"}
           Same(t) == /\ UNCHANGED <<pc[t], peer[t], next[t]>>
                      /\ wire'[peer[t]] = wire[peer[t]]
<1>1. ASSUME \A t \in Server : Exchanging(t)' => Same(t)
      PROVE  AnswersMatchCommands'
  BY <1>1, <1>b DEF AnswersMatchCommands
<1>2. ASSUME NEW s \in Working, NEW t \in Server \ {s}, pc'[t] = pc[t]
      PROVE  ~Exchanging(t)'
  BY <1>2, <1>b DEF OneWorker, Working, Listening
<1>3. CASE Gui \/ EventLoop
  <2>1. UNCHANGED <<peer, next, wire>>
    BY <1>3
       DEF Gui, EventLoop, StartDebugger, StopDebugger, UserCommand, StopAll,
           StopAllReturns, RestartServer, OnDbgpInit, OnDbgpContinue,
           OnDbgpContinueStopping, OnDebuggerError
  <2>2. \/ UNCHANGED pc
        \/ pc' = [pc EXCEPT ![servers + 1] = "queued"]
        \/ pc' = [s \in Server |-> IF pc[s] = "queued" THEN "dropped"
                                   ELSE pc[s]]
    BY <1>3
       DEF Gui, EventLoop, StartDebugger, CreateServer, StopDebugger,
           UserCommand, StopAll, StopAllReturns, RestartServer, OnDbgpInit,
           OnDbgpContinue, OnDbgpContinueStopping, OnDebuggerError
  <2>3. \A t \in Server : Exchanging(t)' => UNCHANGED pc[t]
    BY <2>2, <1>a
  <2>4. QED
    BY <2>1, <2>3, <1>1
<1>4. ASSUME UNCHANGED <<pc, peer, next, wire>> PROVE AnswersMatchCommands'
  BY <1>4, <1>1
<1>5. ASSUME NEW s \in Working,
             NEW at \in {"bind", "loop", "accept", "init", "drain", "ended"},
             Goto(s, at)
      PROVE  AnswersMatchCommands'
  <2>1. \A t \in Server : ~Exchanging(t)'
    BY <1>5, <1>2, <1>a DEF Goto, Working, Listening
  <2>2. QED
    BY <2>1, <1>1
<1>6. ASSUME NEW s \in Working, NEW at \in {"session", "reply"}, Goto(s, at),
             UNCHANGED peer, peer[s] \in Engine,
             at = "session" => wire'[peer[s]].what \in {"none", "eof"},
             at = "reply" => \/ wire'[peer[s]].what = "eof"
                             \/ /\ wire'[peer[s]].what # "none"
                                /\ wire'[peer[s]].cmd = next'[s]
      PROVE  AnswersMatchCommands'
  <2>1. s \in Server /\ pc'[s] = at
    BY <1>6, <1>a DEF Goto, Working, Listening
  <2>2. \A t \in Server \ {s} : ~Exchanging(t)'
    BY <1>6, <1>2, <1>a DEF Goto
  <2>3. QED
    BY <1>6, <2>1, <2>2 DEF AnswersMatchCommands
<1>7. ASSUME NEW s \in Server, ServerStep(s) \/ ServerFault(s)
      PROVE  AnswersMatchCommands'
  <2>1. CASE BeginWork(s)
    <3>1. \A t \in Server : ~Exchanging(t)'
      BY <2>1, <1>a DEF BeginWork, Goto, Working, Listening
    <3>2. QED
      BY <3>1, <1>1
  <2>2. s \in Working \/ BeginWork(s)
    BY <1>7
       DEF ServerStep, ServerFault, Bind, TestCancelled, Accept, ReadInit,
           SessionCancelled, SendCommand, ReadAnswer, ReadFails, Drain,
           BindFails, AcceptFails, Working, Listening
  <2>3. CASE s \in Working /\ EndWork(s)
    BY <2>3, <1>5 DEF EndWork
  <2>4. CASE s \in Working /\ LeaveSession(s)
    BY <2>4, <1>5 DEF LeaveSession
  <2>5. CASE s \in Working /\ (Bind(s) \/ TestCancelled(s) \/ Accept(s)
                                \/ BindFails(s) \/ AcceptFails(s))
    BY <2>5, <2>3, <1>5 DEF Bind, TestCancelled, Accept, BindFails, AcceptFails
  <2>6. CASE s \in Working /\ (SessionCancelled(s) \/ ReadFails(s) \/ Drain(s))
    BY <2>6, <2>4, <1>4 DEF SessionCancelled, ReadFails, Drain
  <2>7. CASE s \in Working /\ ReadInit(s)
    <3>1. CASE EndWork(s)
      BY <2>7, <3>1, <2>3
    <3>2. CASE ~EndWork(s)
      <4>1. /\ peer[s] \in Engine
            /\ wire' = [wire EXCEPT ![peer[s]] = Silence]
            /\ Goto(s, "session")
            /\ UNCHANGED peer
        BY <2>7, <3>2 DEF ReadInit
      <4>2. wire'[peer[s]].what = "none"
        BY <4>1, <1>a DEF Silence
      <4>3. QED
        BY <2>7, <4>1, <4>2, <1>6
    <3>3. QED
      BY <3>1, <3>2
  <2>8. CASE s \in Working /\ SendCommand(s)
    <3>1. /\ peer[s] \in Engine
          /\ Goto(s, "reply")
          /\ UNCHANGED peer
          /\ next' = [next EXCEPT ![s] = Head(Commands[s])]
          /\ wire' = IF wire[peer[s]].what = "eof" THEN wire
                     ELSE [wire EXCEPT ![peer[s]] =
                             [what |-> "request", cmd |-> Head(Commands[s])]]
      BY <2>8, <1>a DEF SendCommand
    <3>2. \/ wire'[peer[s]].what = "eof"
          \/ /\ wire'[peer[s]].what # "none"
             /\ wire'[peer[s]].cmd = next'[s]
      BY <3>1, <1>a
    <3>3. QED
      BY <2>8, <3>1, <3>2, <1>6
  <2>9. CASE s \in Working /\ ReadAnswer(s)
    <3>1. /\ peer[s] \in Engine
          /\ wire' = [wire EXCEPT ![peer[s]] = Silence]
          /\ Goto(s, "drain") \/ Goto(s, "session")
          /\ UNCHANGED peer
      BY <2>9, <1>a DEF ReadAnswer
    <3>2. wire'[peer[s]].what = "none"
      BY <3>1, <1>a DEF Silence
    <3>3. QED
      BY <2>9, <3>1, <3>2, <1>5, <1>6
  <2>10. QED
    BY <1>7, <2>1, <2>2, <2>5, <2>6, <2>7, <2>8, <2>9
       DEF ServerStep, ServerFault
<1>8. ASSUME NEW e \in Engine, UNCHANGED <<pc, peer, next>>,
             NEW what \in Answer,
             wire' = [wire EXCEPT ![e].what = what],
             \/ wire[e].what = "request"
             \/ what = "eof"
             \/ engine[e] = "idle"
      PROVE  AnswersMatchCommands'
  <2>1. wire'[e].what = what /\ wire'[e].cmd = wire[e].cmd
    BY <1>8, <1>a DEF Message
  <2>2. \A f \in Engine \ {e} : wire'[f] = wire[f]
    BY <1>8, <1>a
  <2>3. \A t \in Server : Exchanging(t) => peer[t] \in Engine
                                            /\ engine[peer[t]] # "idle"
    BY <1>a, <1>b DEF ConnectedOnce
  <2>4. what # "none"
    BY DEF Answer
  <2>5. QED
    BY <1>8, <2>1, <2>2, <2>3, <2>4, <1>b DEF AnswersMatchCommands
<1>9. ASSUME NEW e \in Engine, Connect(e) \/ EngineStep(e) \/ EngineDrops(e)
      PROVE  AnswersMatchCommands'
  <2>1. UNCHANGED <<pc, peer, next>>
    BY <1>9 DEF Connect, EngineStep, EngineAnswers, EngineRuns, EngineDrops,
                EngineUnchanged
  <2>2. \E what \in Answer :
            /\ wire' = [wire EXCEPT ![e].what = what]
            /\ \/ wire[e].what = "request"
               \/ what = "eof"
               \/ engine[e] = "idle"
    BY <1>9 DEF Connect, EngineStep, EngineAnswers, EngineRuns, EngineDrops,
                Answers, Answer
  <2>3. QED
    BY <2>1, <2>2, <1>8
<1>10. ASSUME NEW s \in Server, OnCmd(s) PROVE AnswersMatchCommands'
  BY <1>10, <1>4 DEF OnCmd
<1>11. CASE UNCHANGED vars
  BY <1>11, <1>4 DEF vars
<1>12. QED
  BY <1>3, <1>7, <1>9, <1>10, <1>11 DEF Next

\* Nobody is registered, queued or connected at first.
LEMMA AnswerInvInit == Init => AnswerInv
<1> SUFFICES ASSUME Init PROVE AnswerInv
  OBVIOUS
<1>1. TypeOK
  BY TypeInit
<1>2. \A s \in Server : pc[s] = "none" /\ peer[s] = NoEngine
  BY DEF Init
<1>3. Actions = << >> /\ backlog = << >> /\ Handlers = {}
  BY DEF Init
<1>4. QueueIsFresh /\ OneWorker /\ SinkForgetsEnded
  BY <1>2, <1>3
     DEF QueueIsFresh, OneWorker, SinkForgetsEnded, Working, Alive, Listening
<1>5. ConnectedOnce /\ AnswersMatchCommands
  BY <1>2, <1>3, DebuggerAssumption DEF ConnectedOnce, AnswersMatchCommands
<1>6. QED
  BY <1>1, <1>4, <1>5 DEF AnswerInv, SinkInv

\* A server reads the answer to the command it sent last from the script it
\* sent it to, however the user stops and restarts servers, scripts connect
\* and go away, and commands are posted and drained (SessionWork,
\* ReadResponse, ParseAndPost).
THEOREM AnswersAreMatched == Spec => []AnswersMatchCommands
<1>1. AnswerInv /\ [Next]_vars => AnswerInv'
  BY TypeStep, SinkInvStep, ConnectedOnceStep, AnswersStep
     DEF AnswerInv, SinkInv
<1>2. AnswerInv => AnswersMatchCommands
  BY DEF AnswerInv
<1>3. QED
  BY AnswerInvInit, <1>1, <1>2, PTL DEF Spec

\* The event sink holds every server that exists, which commands therefore
\* reach, and no server that has ended, to which it would post
\* (DebuggerServerActionClass, EventSinkLockerClass).
THEOREM SinkIsCurrent == Spec => []SinkForgetsEnded
<1>1. Init => SinkInv
  BY AnswerInvInit DEF AnswerInv
<1>2. SinkInv /\ [Next]_vars => SinkInv'
  BY TypeStep, SinkInvStep DEF SinkInv
<1>3. SinkInv => SinkForgetsEnded
  BY DEF SinkInv
<1>4. QED
  BY <1>1, <1>2, <1>3, PTL DEF Spec

-----------------------------------------------------------------------------
(* The order of the commands.                                              *)

Increasing(q) == \A m, n \in DOMAIN q : m < n => q[m].id < q[n].id

\* The command x was sent last, c and p come after it, and the numbers up to
\* top have been given.
Ordered(x, c, p, top) ==
    /\ x.id <= top
    /\ \A n \in DOMAIN c : x.id < c[n].id /\ c[n].id <= top
    /\ \A n \in DOMAIN p : x.id < p[n].id /\ p[n].id <= top
    /\ \A m \in DOMAIN c, n \in DOMAIN p : c[m].id < p[n].id
    /\ Increasing(c) /\ Increasing(p)

OrderInv == \A s \in Server : Ordered(next[s], Commands[s], Posted[s], TransactionId)

\* Where the elements of a queue are when it is shortened or extended.
LEMMA QueueEnds ==
    ASSUME NEW q \in Seq(Command)
    PROVE  /\ \A n \in DOMAIN q : q[n] \in Command /\ q[n].id \in Nat
           /\ q # << >> => /\ 1 \in DOMAIN q /\ Head(q) = q[1]
                           /\ Tail(q) \in Seq(Command)
                           /\ \A n \in DOMAIN Tail(q) : /\ n \in Nat /\ n + 1 \in DOMAIN q
                                                        /\ 1 < n + 1 /\ Tail(q)[n] = q[n + 1]
           /\ \A c \in Command :
                  /\ Append(q, c) \in Seq(Command)
                  /\ \A n \in DOMAIN Append(q, c) :
                         \/ n \in DOMAIN q /\ Append(q, c)[n] = q[n]
                         \/ Append(q, c)[n] = c /\ \A m \in DOMAIN q : m < n
<1>1. ASSUME NEW n \in DOMAIN q PROVE q[n] \in Command /\ q[n].id \in Nat
  <2>1. q[n] \in Command
    OBVIOUS
  <2>2. QED
    BY <2>1 DEF Command
<1>2. PICK len \in Nat : len = Len(q) /\ DOMAIN q = 1 .. len
  OBVIOUS
<1>3. q # << >> => /\ 1 \in DOMAIN q /\ Head(q) = q[1]
                   /\ Tail(q) \in Seq(Command)
                   /\ \A n \in DOMAIN Tail(q) : /\ n \in Nat /\ n + 1 \in DOMAIN q
                                                /\ 1 < n + 1 /\ Tail(q)[n] = q[n + 1]
  OBVIOUS
<1>4. ASSUME NEW c \in Command
      PROVE  /\ Append(q, c) \in Seq(Command)
             /\ \A n \in DOMAIN Append(q, c) :
                    \/ n \in DOMAIN q /\ Append(q, c)[n] = q[n]
                    \/ Append(q, c)[n] = c /\ \A m \in DOMAIN q : m < n
  OBVIOUS
<1>5. QED
  BY <1>1, <1>3, <1>4

\* OnCmd, SendCommand, Drain, the end of a session and of a server.
LEMMA OrderedMoves ==
    ASSUME NEW x \in Command, NEW c \in Seq(Command), NEW p \in Seq(Command),
           NEW top \in Nat, Ordered(x, c, p, top)
    PROVE  /\ p # << >> => Ordered(x, Append(c, Head(p)), Tail(p), top)
           /\ c # << >> => Ordered(Head(c), Tail(c), p, top)
           /\ c # << >> => Ordered(x, Tail(c), p, top)
           /\ Ordered(NoCommand, c, p, top)
           /\ Ordered(x, << >>, << >>, top)
<1>1. x.id \in Nat /\ NoCommand.id = 0
  BY DEF Command, NoCommand
<1>2. ASSUME p # << >> PROVE Ordered(x, Append(c, Head(p)), Tail(p), top)
  <2>1. Head(p) = p[1] /\ p[1] \in Command /\ 1 \in DOMAIN p
    BY <1>2, QueueEnds
  <2>2. \A n \in DOMAIN Tail(p) : n \in Nat /\ n + 1 \in DOMAIN p /\ 1 < n + 1 /\ Tail(p)[n] = p[n + 1]
    BY <1>2, QueueEnds
  <2>3. \A n \in DOMAIN Append(c, Head(p)) :
            \/ n \in DOMAIN c /\ Append(c, Head(p))[n] = c[n]
            \/ Append(c, Head(p))[n] = p[1] /\ \A m \in DOMAIN c : m < n
    BY <2>1, QueueEnds
  <2>4. DOMAIN Append(c, Head(p)) \subseteq Nat
    BY <2>1
  <2>5. Increasing(Tail(p))
    BY <2>2 DEF Ordered, Increasing
  <2>6. Increasing(Append(c, Head(p)))
    <3>1. SUFFICES ASSUME NEW m \in DOMAIN Append(c, Head(p)),
                          NEW n \in DOMAIN Append(c, Head(p)), m < n
                   PROVE  Append(c, Head(p))[m].id < Append(c, Head(p))[n].id
      BY DEF Increasing
    <3>2. m \in DOMAIN c
      BY <2>1, <3>1
    <3>3. Append(c, Head(p))[m] = c[m]
      BY <2>1, <3>2
    <3>4. CASE n \in DOMAIN c /\ Append(c, Head(p))[n] = c[n]
      BY <3>1, <3>2, <3>3, <3>4 DEF Ordered, Increasing
    <3>5. CASE Append(c, Head(p))[n] = p[1]
      BY <2>1, <3>2, <3>3, <3>5 DEF Ordered
    <3>6. QED
      BY <2>3, <3>4, <3>5
  <2>7. \A m \in DOMAIN Append(c, Head(p)), n \in DOMAIN Tail(p) :
            Append(c, Head(p))[m].id < Tail(p)[n].id
    BY <2>1, <2>2, <2>3 DEF Ordered, Increasing
  <2>8. QED
    BY <2>1, <2>2, <2>3, <2>5, <2>6, <2>7 DEF Ordered
<1>3. ASSUME c # << >>
      PROVE  Ordered(Head(c), Tail(c), p, top) /\ Ordered(x, Tail(c), p, top)
  <2>1. Head(c) = c[1] /\ 1 \in DOMAIN c
    BY <1>3, QueueEnds
  <2>2. \A n \in DOMAIN Tail(c) : n \in Nat /\ n + 1 \in DOMAIN c /\ 1 < n + 1 /\ Tail(c)[n] = c[n + 1]
    BY <1>3, QueueEnds
  <2>3. Increasing(Tail(c))
    BY <2>2 DEF Ordered, Increasing
  <2>4. QED
    BY <2>1, <2>2, <2>3 DEF Ordered, Increasing
<1>4. Ordered(NoCommand, c, p, top)
  <2>1. \A n \in DOMAIN c : x.id < c[n].id /\ c[n].id \in Nat
    BY QueueEnds DEF Ordered
  <2>2. \A n \in DOMAIN p : x.id < p[n].id /\ p[n].id \in Nat
    BY QueueEnds DEF Ordered
  <2>3. QED
    BY <1>1, <2>1, <2>2 DEF Ordered
<1>5. Ordered(x, << >>, << >>, top)
  BY DEF Ordered, Increasing
<1>6. QED
  BY <1>2, <1>3, <1>4, <1>5

\* PostCmds numbers the new commands above all others.
LEMMA OrderedPosts ==
    ASSUME NEW x \in Command, NEW c \in Seq(Command), NEW p \in Seq(Command),
           NEW top \in Nat, NEW more \in Seq(Command),
           \A n \in DOMAIN more : more[n].id = top + n,
           Ordered(x, c, p, top)
    PROVE  /\ Ordered(x, c, p \o more, top + Len(more))
           /\ Ordered(x, c, p, top + Len(more))
<1>1. x.id \in Nat /\ Len(more) \in Nat /\ DOMAIN more = 1 .. Len(more)
      /\ DOMAIN p = 1 .. Len(p) /\ Len(p) \in Nat
  BY LenProperties DEF Command
<1>2. /\ \A n \in DOMAIN c : c[n].id \in Nat
      /\ \A n \in DOMAIN p : p[n].id \in Nat
  BY QueueEnds
<1>3. Ordered(x, c, p, top + Len(more))
  BY <1>1, <1>2 DEF Ordered
<1> DEFINE q == p \o more
<1>4. /\ DOMAIN q = 1 .. Len(p) + Len(more)
      /\ \A n \in 1 .. Len(p) : q[n] = p[n]
      /\ \A n \in Len(p) + 1 .. Len(p) + Len(more) : q[n] = more[n - Len(p)]
  BY <1>1, ConcatProperties
<1> HIDE DEF q
<1>5. \A n \in Len(p) + 1 .. Len(p) + Len(more) :
          q[n].id = top + (n - Len(p)) /\ n - Len(p) \in 1 .. Len(more)
  <2>1. ASSUME NEW n \in Len(p) + 1 .. Len(p) + Len(more)
        PROVE  n - Len(p) \in 1 .. Len(more)
    BY <1>1
  <2>2. QED
    BY <1>1, <1>4, <2>1
<1>6. \A n \in DOMAIN q : n \in 1 .. Len(p) \/ n \in Len(p) + 1 .. Len(p) + Len(more)
  BY <1>1, <1>4
<1>7. Increasing(q)
  <2>1. SUFFICES ASSUME NEW m \in DOMAIN q, NEW n \in DOMAIN q, m < n PROVE q[m].id < q[n].id
    BY DEF Increasing
  <2>2. CASE n \in 1 .. Len(p)
    <3>1. m \in 1 .. Len(p)
      BY <1>1, <1>4, <2>1, <2>2
    <3>2. QED
      BY <1>1, <1>4, <2>1, <2>2, <3>1 DEF Ordered, Increasing
  <2>3. CASE n \in Len(p) + 1 .. Len(p) + Len(more) /\ m \in 1 .. Len(p)
    BY <1>1, <1>2, <1>4, <1>5, <2>3 DEF Ordered
  <2>4. CASE n \in Len(p) + 1 .. Len(p) + Len(more) /\ m \in Len(p) + 1 .. Len(p) + Len(more)
    BY <1>1, <1>5, <2>1, <2>4
  <2>5. QED
    BY <1>6, <2>2, <2>3, <2>4
<1>8. ASSUME NEW n \in DOMAIN q PROVE x.id < q[n].id /\ q[n].id <= top + Len(more)
  <2>1. x.id <= top
    BY DEF Ordered
  <2>2. CASE n \in 1 .. Len(p)
    <3>1. p[n].id \in Nat /\ x.id < p[n].id /\ p[n].id <= top
      BY <1>1, <1>2, <2>2 DEF Ordered
    <3>2. QED
      BY <1>1, <1>4, <2>2, <3>1
  <2>3. CASE n \in Len(p) + 1 .. Len(p) + Len(more)
    <3>1. q[n].id = top + (n - Len(p)) /\ n - Len(p) \in 1 .. Len(more)
      BY <1>5, <2>3
    <3>2. QED
      BY <1>1, <2>1, <3>1
  <2>4. QED
    BY <1>6, <2>2, <2>3
<1>9. ASSUME NEW m \in DOMAIN c, NEW n \in DOMAIN q PROVE c[m].id < q[n].id
  <2>1. c[m].id \in Nat /\ c[m].id <= top
    BY <1>2 DEF Ordered
  <2>2. CASE n \in 1 .. Len(p)
    <3>1. c[m].id < p[n].id
      BY <1>1, <2>2 DEF Ordered
    <3>2. QED
      BY <1>4, <2>2, <3>1
  <2>3. CASE n \in Len(p) + 1 .. Len(p) + Len(more)
    <3>1. q[n].id = top + (n - Len(p)) /\ n - Len(p) \in 1 .. Len(more)
      BY <1>5, <2>3
    <3>2. QED
      BY <1>1, <2>1, <3>1
  <2>4. QED
    BY <1>6, <2>2, <2>3
<1>10. QED
  BY <1>3, <1>7, <1>8, <1>9 DEF Ordered, q

\* The GUI numbers new commands, OnCmd moves one, the server takes one or
\* forgets what it sent, a server loses all of its commands, or nothing happens
\* to them.
LEMMA OrderStep ==
    ASSUME TypeOK, OrderInv, [Next]_vars
    PROVE  OrderInv'
<1>a. /\ next \in [Server -> Command]
      /\ Posted \in [Server -> Seq(Command)]
      /\ Commands \in [Server -> Seq(Command)]
      /\ TransactionId \in Nat
  BY DEF TypeOK
<1>b. \A s \in Server : Ordered(next[s], Commands[s], Posted[s], TransactionId)
  BY DEF OrderInv
<1>c. \A s \in Server :
          LET x == next[s]
              c == Commands[s]
              p == Posted[s]
              top == TransactionId
          IN  /\ p # << >> => Ordered(x, Append(c, Head(p)), Tail(p), top)
              /\ c # << >> => Ordered(Head(c), Tail(c), p, top)
              /\ c # << >> => Ordered(x, Tail(c), p, top)
              /\ Ordered(NoCommand, c, p, top)
              /\ Ordered(x, << >>, << >>, top)
  BY <1>a, <1>b, OrderedMoves
<1> USE DEF serverVars
<1>1. ASSUME UNCHANGED <<next, Commands, Posted, TransactionId>> PROVE OrderInv'
  BY <1>1 DEF OrderInv
<1>2. ASSUME NEW kinds \in Seq({"run", "query"}), NEW for \in Engine \cup {NoEngine},
             PostCmds(kinds, for), UNCHANGED <<next, Commands>>
      PROVE  OrderInv'
  <2> DEFINE more == [n \in DOMAIN kinds |->
                         [id |-> TransactionId + n, kind |-> kinds[n], for |-> for]]
  <2>1. DOMAIN kinds = 1 .. Len(kinds) /\ Len(kinds) \in Nat
    BY LenProperties
  <2>2. more \in Seq(Command) /\ Len(more) = Len(kinds)
    <3>1. \A n \in 1 .. Len(kinds) :
              [id |-> TransactionId + n, kind |-> kinds[n], for |-> for] \in Command
      BY <1>a, <2>1, ElementOfSeq DEF Command
    <3>2. more \in [1 .. Len(kinds) -> Command]
      BY <2>1, <3>1
    <3>3. QED
      BY <2>1, <3>2, SeqDef, LenProperties
  <2>3. \A n \in DOMAIN more : more[n].id = TransactionId + n
    OBVIOUS
  <2>4. \A s \in Server : Posted'[s] \in {Posted[s], Posted[s] \o more}
    BY <1>2, <1>a DEF PostCmds
  <2>5. TransactionId' = TransactionId + Len(kinds)
    BY <1>2 DEF PostCmds
  <2> HIDE DEF more
  <2>6. ASSUME NEW s \in Server
        PROVE  Ordered(next[s], Commands[s], Posted[s] \o more, TransactionId')
               /\ Ordered(next[s], Commands[s], Posted[s], TransactionId')
    BY <1>a, <1>b, <2>2, <2>3, <2>5, OrderedPosts
  <2>7. QED
    BY <1>2, <2>4, <2>6 DEF OrderInv
<1>3. CASE Gui
  <2>1. CASE UserCommand
    <3>1. script \in Engine \cup {NoEngine}
      BY DEF TypeOK
    <3>2. QED
      BY <2>1, <3>1, <1>2, KindsAreSequences DEF UserCommand
  <2>2. CASE ~UserCommand
    BY <1>3, <2>2, <1>1 DEF Gui, StartDebugger, StopDebugger
  <2>3. QED
    BY <2>1, <2>2
<1>4. CASE OnDbgpInit \/ OnDbgpContinue
  <2>1. Head(featureEvents).from \in Engine
    BY <1>4, FirstEvent DEF OnDbgpInit, OnDbgpContinue
  <2>2. QED
    BY <1>4, <2>1, <1>2, KindsAreSequences DEF OnDbgpInit, OnDbgpContinue
<1>5. CASE StopAll
  <2>1. UNCHANGED <<next, TransactionId>>
    BY <1>5 DEF StopAll
  <2>2. \A s \in Server : \/ Commands'[s] = Commands[s] /\ Posted'[s] = Posted[s]
                          \/ Commands'[s] = << >> /\ Posted'[s] = << >>
    BY <1>5 DEF StopAll
  <2>3. QED
    BY <2>1, <2>2, <1>b, <1>c DEF OrderInv
<1>6. CASE StopAllReturns \/ RestartServer \/ OnDbgpContinueStopping \/ OnDebuggerError
  BY <1>6, <1>1 DEF StopAllReturns, RestartServer, OnDbgpContinueStopping, OnDebuggerError
<1>7. ASSUME NEW s \in Server, OnCmd(s) PROVE OrderInv'
  <2>1. /\ Posted[s] # << >>
        /\ Commands' = [Commands EXCEPT ![s] = Append(@, Head(Posted[s]))]
        /\ Posted' = [Posted EXCEPT ![s] = Tail(@)]
        /\ UNCHANGED <<next, TransactionId>>
    BY <1>7 DEF OnCmd
  <2>2. QED
    BY <2>1, <1>a, <1>b, <1>c DEF OrderInv
<1>8. ASSUME NEW s \in Server, EndWork(s), UNCHANGED TransactionId PROVE OrderInv'
  <2>1. /\ Commands' = [Commands EXCEPT ![s] = << >>]
        /\ Posted' = [Posted EXCEPT ![s] = << >>]
        /\ UNCHANGED <<next, TransactionId>>
    BY <1>8 DEF EndWork
  <2>2. QED
    BY <2>1, <1>a, <1>b, <1>c DEF OrderInv
<1>9. ASSUME NEW s \in Server, LeaveSession(s), UNCHANGED <<Commands, Posted, TransactionId>>
      PROVE  OrderInv'
  <2>1. next' = [next EXCEPT ![s] = NoCommand]
    BY <1>9 DEF LeaveSession
  <2>2. QED
    BY <1>9, <2>1, <1>a, <1>b, <1>c DEF OrderInv
<1>10. ASSUME NEW s \in Server, ServerStep(s) \/ ServerFault(s) PROVE OrderInv'
  <2>1. UNCHANGED TransactionId
    BY <1>10 DEF ServerStep, ServerFault, ServerUnchanged, BeginWork, Bind, TestCancelled,
       Accept, ReadInit, SessionCancelled, SendCommand, ReadAnswer, ReadFails, Drain,
       BindFails, AcceptFails
  <2>2. CASE BeginWork(s) \/ Bind(s) \/ Accept(s) \/ AcceptFails(s) \/ ReadAnswer(s)
    BY <2>1, <2>2, <1>1 DEF BeginWork, Bind, Accept, AcceptFails, ReadAnswer
  <2>3. CASE TestCancelled(s) \/ ReadInit(s) \/ BindFails(s)
    BY <2>1, <2>3, <1>1, <1>8 DEF TestCancelled, ReadInit, BindFails
  <2>4. CASE SessionCancelled(s) \/ ReadFails(s)
    BY <2>1, <2>4, <1>9 DEF SessionCancelled, ReadFails
  <2>5. CASE SendCommand(s)
    <3>1. /\ Commands[s] # << >>
          /\ next' = [next EXCEPT ![s] = Head(Commands[s])]
          /\ Commands' = [Commands EXCEPT ![s] = Tail(@)]
          /\ UNCHANGED Posted
      BY <2>5 DEF SendCommand
    <3>2. QED
      BY <2>1, <3>1, <1>a, <1>b, <1>c DEF OrderInv
  <2>6. CASE Drain(s)
    <3>1. CASE /\ Commands[s] # << >>
               /\ Commands' = [Commands EXCEPT ![s] = Tail(@)]
               /\ UNCHANGED <<next, Posted>>
      BY <2>1, <3>1, <1>a, <1>b, <1>c DEF OrderInv
    <3>2. CASE LeaveSession(s) /\ UNCHANGED <<Commands, Posted>>
      BY <2>1, <3>2, <1>9
    <3>3. QED
      BY <2>6, <3>1, <3>2 DEF Drain
  <2>7. QED
    BY <1>10, <2>2, <2>3, <2>4, <2>5, <2>6 DEF ServerStep, ServerFault
<1>11. ASSUME NEW e \in Engine, Connect(e) \/ EngineStep(e) \/ EngineDrops(e)
       PROVE  OrderInv'
  BY <1>11, <1>1 DEF Connect, EngineStep, EngineAnswers, EngineRuns, EngineDrops,
     EngineUnchanged
<1>12. CASE UNCHANGED vars
  BY <1>12, <1>1 DEF vars
<1>13. QED
  BY <1>3, <1>4, <1>5, <1>6, <1>7, <1>10, <1>11, <1>12 DEF Next, EventLoop

\* Commands that are ordered part by part are ordered as one queue.
LEMMA OrderedIsInOrder ==
    ASSUME TypeOK, OrderInv
    PROVE  CommandsInOrder
<1> SUFFICES ASSUME NEW s \in Server, NEW m \in DOMAIN Given(s), NEW n \in DOMAIN Given(s), m < n
             PROVE  Given(s)[m].id < Given(s)[n].id
  BY DEF CommandsInOrder
<1> DEFINE x == next[s]
           c == Commands[s]
           p == Posted[s]
<1>1. x \in Command /\ c \in Seq(Command) /\ p \in Seq(Command)
  BY DEF TypeOK
<1>2. Ordered(x, c, p, TransactionId)
  BY DEF OrderInv
<1>3. Given(s) = <<x>> \o c \o p
  BY DEF Given
<1> HIDE DEF x, c, p
<1>4. <<x>> \in Seq(Command) /\ Len(<<x>>) = 1 /\ <<x>>[1] = x
  BY <1>1
<1>5. Len(c) \in Nat /\ Len(p) \in Nat /\ DOMAIN c = 1 .. Len(c) /\ DOMAIN p = 1 .. Len(p)
  BY <1>1, LenProperties
<1> DEFINE q == <<x>> \o c
<1>6. /\ q \in Seq(Command) /\ Len(q) = 1 + Len(c)
      /\ q[1] = x /\ \A i \in 2 .. 1 + Len(c) : q[i] = c[i - 1]
  BY <1>1, <1>4, <1>5, ConcatProperties
<1> HIDE DEF q
<1> DEFINE g == q \o p
<1>7. /\ DOMAIN g = 1 .. 1 + Len(c) + Len(p)
      /\ g[1] = x
      /\ \A i \in 2 .. 1 + Len(c) : g[i] = c[i - 1]
      /\ \A i \in 2 + Len(c) .. 1 + Len(c) + Len(p) : g[i] = p[i - (1 + Len(c))]
  <2>1. /\ DOMAIN g = 1 .. Len(q) + Len(p)
        /\ \A i \in 1 .. Len(q) : g[i] = q[i]
        /\ \A i \in Len(q) + 1 .. Len(q) + Len(p) : g[i] = p[i - Len(q)]
    <3>1. /\ g \in Seq(Command) /\ Len(g) = Len(q) + Len(p)
          /\ \A i \in 1 .. Len(q) + Len(p) : g[i] = IF i <= Len(q) THEN q[i] ELSE p[i - Len(q)]
      BY <1>1, <1>6, ConcatProperties
    <3> HIDE DEF g
    <3>2. DOMAIN g = 1 .. Len(q) + Len(p)
      BY <3>1, LenProperties
    <3>3. QED
      BY <1>5, <1>6, <3>1, <3>2
  <2> HIDE DEF g
  <2>2. DOMAIN g = 1 .. 1 + Len(c) + Len(p)
    BY <1>5, <1>6, <2>1
  <2>3. g[1] = x
    BY <1>5, <1>6, <2>1
  <2>4. \A i \in 2 .. 1 + Len(c) : g[i] = c[i - 1]
    BY <1>5, <1>6, <2>1
  <2>5. \A i \in 2 + Len(c) .. 1 + Len(c) + Len(p) : g[i] = p[i - (1 + Len(c))]
    BY <1>5, <1>6, <2>1
  <2>6. QED
    BY <2>2, <2>3, <2>4, <2>5
<1>8. Given(s) = g
  BY <1>3 DEF q
<1> HIDE DEF g
<1>9. CASE m = 1
  <2>1. CASE n \in 2 .. 1 + Len(c)
    <3>1. n - 1 \in DOMAIN c
      BY <1>5, <2>1
    <3>2. QED
      BY <1>2, <1>7, <1>8, <1>9, <2>1, <3>1 DEF Ordered
  <2>2. CASE n \in 2 + Len(c) .. 1 + Len(c) + Len(p)
    <3>1. n - (1 + Len(c)) \in DOMAIN p
      BY <1>5, <2>2
    <3>2. QED
      BY <1>2, <1>7, <1>8, <1>9, <2>2, <3>1 DEF Ordered
  <2>3. QED
    BY <1>5, <1>7, <1>8, <1>9, <2>1, <2>2
<1>10. CASE m \in 2 .. 1 + Len(c)
  <2>0. m - 1 \in DOMAIN c
    BY <1>5, <1>10
  <2>1. CASE n \in 2 .. 1 + Len(c)
    <3>1. n - 1 \in DOMAIN c /\ m - 1 < n - 1
      BY <1>5, <1>10, <2>1
    <3>2. QED
      BY <1>2, <1>7, <1>8, <1>10, <2>0, <2>1, <3>1 DEF Ordered, Increasing
  <2>2. CASE n \in 2 + Len(c) .. 1 + Len(c) + Len(p)
    <3>1. n - (1 + Len(c)) \in DOMAIN p
      BY <1>5, <2>2
    <3>2. QED
      BY <1>2, <1>7, <1>8, <1>10, <2>0, <2>2, <3>1 DEF Ordered
  <2>3. QED
    BY <1>5, <1>7, <1>8, <1>10, <2>1, <2>2
<1>11. CASE m \in 2 + Len(c) .. 1 + Len(c) + Len(p)
  <2>1. n \in 2 + Len(c) .. 1 + Len(c) + Len(p)
    BY <1>5, <1>7, <1>8, <1>11
  <2>2. /\ m - (1 + Len(c)) \in DOMAIN p /\ n - (1 + Len(c)) \in DOMAIN p
        /\ m - (1 + Len(c)) < n - (1 + Len(c))
    BY <1>5, <1>11, <2>1
  <2>3. QED
    BY <1>2, <1>7, <1>8, <1>11, <2>1, <2>2 DEF Ordered, Increasing
<1>12. QED
  BY <1>5, <1>7, <1>8, <1>9, <1>10, <1>11

\* A server sends commands in the order in which the GUI built them, however
\* many scripts it serves and whatever is drained or dropped in between.
THEOREM CommandsAreInOrder == Spec => []CommandsInOrder
<1>1. ASSUME Init PROVE OrderInv
  <2>1. \A s \in Server : next[s] = NoCommand /\ Commands[s] = << >> /\ Posted[s] = << >>
    BY <1>1 DEF Init
  <2>2. TransactionId = 0 /\ NoCommand.id = 0
    BY <1>1 DEF Init, NoCommand
  <2>3. QED
    BY <2>1, <2>2 DEF OrderInv, Ordered, Increasing
<1>2. QED
  BY <1>1, OrderStep, OrderedIsInOrder, DebuggerTypeCorrect, PTL DEF Spec

-----------------------------------------------------------------------------
(* The two flags.                                                          *)

\* The GUI knows that a server may be gone: it is inside of StopDebugger, or has
\* an error to handle, or nobody told it.
MayBeGone == guiAt \in {"cancel", "join"} \/ errors > 0 \/ "drop" \in faults

\* A server ends because it was cancelled, because StopDebugger connected to it,
\* or because of a fault; the first two happen inside of StopDebugger only.
ServerIsThere == IsDebuggerServerActive => Alive # {} \/ MayBeGone

CancelledByStop ==
    \A s \in cancelled : /\ pc[s] \notin {"none", "queued"}
                         /\ s \in Working => guiAt = "join"

ClosedByStop ==
    /\ backlog # << >> => Working # {}
    /\ Closer \in Elements(backlog) => guiAt \in {"cancel", "join"}
    /\ \A s \in Server : peer[s] = Closer =>
           s \in Working /\ guiAt \in {"cancel", "join"}

WireTellsFaults ==
    \A e \in Engine : /\ wire[e].what = "eof" => "drop" \in faults
                      /\ wire[e].what = "error" => "error" \in faults

ServerInv ==
    SinkInv /\ ServerIsThere /\ CancelledByStop /\ ClosedByStop /\ WireTellsFaults

\* What is on the wire follows from the faults.
LEMMA WireFaultsStep ==
    ASSUME TypeOK, WireTellsFaults, [Next]_vars
    PROVE  faults \subseteq faults' /\ WireTellsFaults'
<1>a. wire \in [Engine -> Message] /\ faults \subseteq faults'
  <2>1. ASSUME NEW s \in Server, OnCmd(s) \/ ServerStep(s) \/ ServerFault(s)
        PROVE  faults \subseteq faults'
    BY <2>1 DEF OnCmd, ServerStep, ServerFault, BeginWork, Bind, TestCancelled, Accept, ReadInit,
       SessionCancelled, SendCommand, ReadAnswer, ReadFails, Drain, BindFails, AcceptFails, Fails
  <2>2. ASSUME NEW e \in Engine, Connect(e) \/ EngineStep(e) \/ EngineDrops(e)
        PROVE  faults \subseteq faults'
    BY <2>2 DEF Connect, EngineStep, EngineAnswers, EngineRuns, EngineDrops, Fails
  <2>3. ASSUME Gui \/ EventLoop \/ UNCHANGED vars
        PROVE  faults \subseteq faults'
    BY <2>3 DEF Gui, StartDebugger, StopDebugger, UserCommand, EventLoop, StopAll,
       StopAllReturns, RestartServer, OnDbgpInit, OnDbgpContinue, OnDbgpContinueStopping,
       OnDebuggerError, vars
  <2>4. QED
    BY <2>1, <2>2, <2>3 DEF Next, TypeOK
<1>b. \A e \in Engine : /\ wire[e].what = "eof" => "drop" \in faults
                        /\ wire[e].what = "error" => "error" \in faults
  BY DEF WireTellsFaults
<1> USE DEF engineVars, serverVars
<1>1. ASSUME \A e \in Engine : \/ wire'[e] = wire[e]
                               \/ wire'[e].what \notin {"eof", "error"}
                               \/ wire'[e].what = "eof" /\ "drop" \in faults'
                               \/ wire'[e].what = "error" /\ "error" \in faults'
      PROVE  \A e \in Engine : /\ wire'[e].what = "eof" => "drop" \in faults'
                               /\ wire'[e].what = "error" => "error" \in faults'
  BY <1>1, <1>a, <1>b
<1>2. CASE Gui \/ EventLoop \/ UNCHANGED vars \/ \E s \in Server : OnCmd(s)
  <2>1. UNCHANGED wire
    BY <1>2 DEF Gui, StartDebugger, StopDebugger, UserCommand, EventLoop, StopAll,
       StopAllReturns, RestartServer, OnDbgpInit, OnDbgpContinue, OnDbgpContinueStopping,
       OnDebuggerError, OnCmd, vars
  <2>2. QED
    BY <2>1, <1>1, <1>a DEF WireTellsFaults
<1>3. ASSUME NEW s \in Server, ServerStep(s) \/ ServerFault(s)
      PROVE  \A e \in Engine : wire'[e] = wire[e] \/ wire'[e].what \notin {"eof", "error"}
  <2>1. ASSUME EndWork(s)
        PROVE  \A e \in Engine : wire'[e] = wire[e] \/ wire'[e].what \notin {"eof", "error"}
    BY <2>1 DEF EndWork, Silence
  <2>2. ASSUME LeaveSession(s)
        PROVE  \A e \in Engine : wire'[e] = wire[e] \/ wire'[e].what \notin {"eof", "error"}
    BY <2>2, <1>a DEF LeaveSession, Silence
  <2>3. CASE BeginWork(s) \/ Bind(s) \/ Accept(s) \/ AcceptFails(s)
    BY <2>3 DEF BeginWork, Bind, Accept, AcceptFails
  <2>4. CASE TestCancelled(s) \/ BindFails(s) \/ SessionCancelled(s) \/ ReadFails(s) \/ Drain(s)
    BY <2>4, <2>1, <2>2 DEF TestCancelled, BindFails, SessionCancelled, ReadFails, Drain
  <2>5. CASE ReadInit(s) \/ ReadAnswer(s)
    <3>1. EndWork(s) \/ wire' = [wire EXCEPT ![peer[s]] = Silence]
      BY <2>5 DEF ReadInit, ReadAnswer
    <3>2. QED
      BY <3>1, <2>1, <1>a DEF Silence
  <2>6. CASE SendCommand(s)
    <3>1. \/ UNCHANGED wire
          \/ wire' = [wire EXCEPT ![peer[s]] = [what |-> "request", cmd |-> Head(Commands[s])]]
      BY <2>6 DEF SendCommand
    <3>2. QED
      BY <3>1, <1>a
  <2>7. QED
    BY <1>3, <2>3, <2>4, <2>5, <2>6 DEF ServerStep, ServerFault
<1>4. ASSUME NEW e \in Engine, Connect(e) \/ EngineStep(e) \/ EngineDrops(e)
      PROVE  \E what \in Answer : /\ wire' = [wire EXCEPT ![e].what = what]
                                  /\ what = "eof" => "drop" \in faults'
                                  /\ what = "error" => "error" \in faults'
  BY <1>4 DEF Connect, EngineStep, EngineAnswers, EngineRuns, EngineDrops, Answers, Answer, Fails
<1>5. ASSUME NEW e \in Engine, Connect(e) \/ EngineStep(e) \/ EngineDrops(e)
      PROVE  \A f \in Engine : /\ wire'[f].what = "eof" => "drop" \in faults'
                               /\ wire'[f].what = "error" => "error" \in faults'
  <2>1. PICK what \in Answer : /\ wire' = [wire EXCEPT ![e].what = what]
                               /\ what = "eof" => "drop" \in faults'
                               /\ what = "error" => "error" \in faults'
    BY <1>4, <1>5
  <2>2. wire'[e].what = what /\ \A f \in Engine \ {e} : wire'[f] = wire[f]
    BY <2>1, <1>a DEF Message
  <2>3. QED
    BY <2>1, <2>2, <1>a, <1>b
<1>6. QED
  BY <1>1, <1>2, <1>3, <1>5, <1>a DEF Next, WireTellsFaults

\* A server goes on until it returns from BackgroundWork.
LEMMA WorkersStay ==
    ASSUME SinkInv, [Next]_vars, NEW s \in Working, ~EndWork(s)
    PROVE  s \in Working'
<1>a. /\ pc \in [Server -> {"none", "queued", "bind", "loop", "accept", "init",
                            "session", "reply", "drain", "ended", "dropped"}]
      /\ Actions \in Seq(Server)
      /\ servers \in 0 .. MaxServers
      /\ s \in Server
      /\ QueueIsFresh /\ OneWorker
  BY DEF SinkInv, TypeOK, Working, Listening
<1>b. pc[s] \in Inside \cup {"bind"}
  BY DEF Inside, Working, Listening
<1>1. CASE pc'[s] = pc[s]
  BY <1>1, <1>a, <1>b DEF Working, Listening, Inside
<1>2. CASE CreateServer
  <2>1. s # servers + 1
    BY <1>a, <1>b DEF QueueIsFresh, Inside
  <2>2. QED
    BY <1>2, <2>1, <1>1, <1>a DEF CreateServer
<1>3. CASE StopAll
  BY <1>3, <1>1, <1>a, <1>b DEF StopAll, Inside
<1>4. ASSUME NEW t \in Server, BeginWork(t) PROVE s \in Working'
  BY <1>4 DEF BeginWork
<1>5. ASSUME NEW t \in Working, EndWork(t) PROVE FALSE
  BY <1>5, <1>a DEF OneWorker
<1>6. ASSUME NEW t \in Working, NEW at \in Inside, Goto(t, at)
      PROVE  s \in Working'
  BY <1>6, <1>a DEF OneWorker, Goto, Inside, Working, Listening
<1>7. CASE UNCHANGED pc
  BY <1>7, <1>1
<1>8. QED
  BY WaysToMove, <1>2, <1>3, <1>4, <1>5, <1>6, <1>7

\* Only StopAll cancels, and it waits for the servers it cancelled.
LEMMA CancelledStep ==
    ASSUME SinkInv, CancelledByStop, [Next]_vars
    PROVE  CancelledByStop'
<1>a. /\ pc \in [Server -> {"none", "queued", "bind", "loop", "accept", "init",
                            "session", "reply", "drain", "ended", "dropped"}]
      /\ cancelled \subseteq Server
      /\ Actions \in Seq(Server)
      /\ servers \in 0 .. MaxServers
      /\ QueueIsFresh /\ OneWorker /\ CancelledByStop
  BY DEF SinkInv, TypeOK
<1>1. CASE StopAll
  <2>1. \A s \in Server : pc'[s] = IF pc[s] = "queued" THEN "dropped" ELSE pc[s]
    BY <1>1, <1>a DEF StopAll
  <2>2. guiAt' = "join" /\ cancelled' = cancelled \cup Working
    BY <1>1 DEF StopAll
  <2>3. QED
    BY <2>1, <2>2, <1>a DEF CancelledByStop, Working, Listening
<1>2. CASE StopAllReturns
  BY <1>2, <1>a DEF StopAllReturns, CancelledByStop, Working, Listening, serverVars
<1>3. ASSUME UNCHANGED cancelled, guiAt # "join" \/ guiAt' = guiAt
      PROVE  CancelledByStop'
  <2>1. \A s \in cancelled : s \notin Working => pc'[s] \notin {"none", "queued"}
                                             /\ s \notin Working'
    <3>1. CASE CreateServer
      <4>1. servers + 1 \notin cancelled
        BY <3>1, <1>a DEF CreateServer, QueueIsFresh, CancelledByStop
      <4>2. QED
        BY <3>1, <4>1, <1>a DEF CreateServer, CancelledByStop, Working, Listening
    <3>2. CASE StopAll
      BY <3>2, <1>a DEF StopAll, CancelledByStop, Working, Listening
    <3>3. ASSUME NEW t \in Server, BeginWork(t)
          PROVE  \A s \in cancelled : s \notin Working =>
                     pc'[s] \notin {"none", "queued"} /\ s \notin Working'
      <4>1. pc[t] = "queued"
        BY <3>3, <1>a, HeadTailProperties, EmptySeq, LenProperties
           DEF BeginWork, QueueIsFresh
      <4>2. QED
        BY <3>3, <4>1, <1>a DEF BeginWork, Goto, CancelledByStop, Working, Listening
    <3>4. ASSUME NEW t \in Working, EndWork(t) \/ \E at \in Inside : Goto(t, at)
          PROVE  \A s \in cancelled : s \notin Working =>
                     pc'[s] \notin {"none", "queued"} /\ s \notin Working'
      <4>1. t \in Server
        BY DEF Working, Listening
      <4>2. \A s \in Server : s # t => pc'[s] = pc[s]
        BY <3>4, <4>1, <1>a DEF EndWork, Goto
      <4>3. QED
        BY <4>1, <4>2, <1>a DEF CancelledByStop, Working, Listening
    <3>5. CASE UNCHANGED pc
      BY <3>5, <1>a DEF CancelledByStop, Working, Listening
    <3>6. QED
      BY WaysToMove, <3>1, <3>2, <3>3, <3>4, <3>5
  <2>2. \A s \in cancelled : s \in Working => pc'[s] \notin {"none", "queued"}
    <3>1. ASSUME NEW s \in Working PROVE pc'[s] \notin {"none", "queued"}
      <4>1. CASE EndWork(s)
        BY <4>1, <1>a DEF EndWork, Goto, Working, Listening
      <4>2. CASE ~EndWork(s)
        <5>1. s \in Working'
          BY <4>2, WorkersStay
        <5>2. QED
          BY <5>1 DEF Working, Listening
      <4>3. QED
        BY <4>1, <4>2
    <3>2. QED
      BY <3>1
  <2>3. \A s \in cancelled : s \in Working => guiAt = "join"
    BY <1>a DEF CancelledByStop
  <2>4. QED
    BY <1>3, <2>1, <2>2, <2>3 DEF CancelledByStop
<1>4. \/ StopAll \/ StopAllReturns
      \/ UNCHANGED cancelled /\ (guiAt # "join" \/ guiAt' = guiAt)
  <2> USE DEF stopVars, serverVars
  <2>1. UNCHANGED vars => UNCHANGED <<cancelled, guiAt>>
    BY DEF vars
  <2>2. \A e \in Engine :
           Connect(e) \/ EngineStep(e) \/ EngineDrops(e) => UNCHANGED <<cancelled, guiAt>>
    BY DEF Connect, EngineStep, EngineAnswers, EngineRuns, EngineDrops, EngineUnchanged
  <2>3. \A s \in Server :
           OnCmd(s) \/ ServerStep(s) \/ ServerFault(s) => UNCHANGED <<cancelled, guiAt>>
    BY DEF OnCmd, ServerStep, ServerFault, ServerUnchanged, BeginWork, Bind,
       TestCancelled, Accept, ReadInit, SessionCancelled, SendCommand, ReadAnswer,
       ReadFails, Drain, BindFails, AcceptFails
  <2>4. EventLoop => \/ StopAll \/ StopAllReturns
                     \/ UNCHANGED cancelled /\ (guiAt # "join" \/ guiAt' = guiAt)
    BY DEF EventLoop, RestartServer, OnDbgpInit, OnDbgpContinue,
       OnDbgpContinueStopping, OnDebuggerError
  <2>5. Gui => \/ StopAll \/ StopAllReturns
               \/ UNCHANGED cancelled /\ (guiAt # "join" \/ guiAt' = guiAt)
    BY DEF Gui, StartDebugger, StopDebugger, UserCommand
  <2> QED
    BY <2>5, <2>4, <2>3, <2>2, <2>1 DEF Next
<1>5. QED
  BY <1>1, <1>2, <1>3, <1>4

\* Only StopDebugger makes the connection that closes, and it returns when no
\* server is left to wait for it.
LEMMA ClosedStep ==
    ASSUME SinkInv, ClosedByStop, [Next]_vars
    PROVE  ClosedByStop'
<1>a. /\ peer \in [Server -> Engine \cup {NoEngine, Closer}]
      /\ backlog \in Seq(Engine \cup {Closer})
      /\ OneWorker /\ ClosedByStop
      /\ Working \subseteq Server
  BY DEF SinkInv, TypeOK, Working, Listening
<1>b. Closer # NoEngine /\ \A e \in Engine : Closer # e
  BY DebuggerAssumption
<1>c. \A s \in Working : ~EndWork(s) => s \in Working'
  BY WorkersStay
<1>d. DOMAIN backlog = 1 .. Len(backlog) /\ Len(backlog) \in Nat
  BY <1>a, LenProperties
<1>1. ASSUME UNCHANGED <<peer, backlog>>, \A s \in Working : ~EndWork(s),
             guiAt \in {"cancel", "join"} => guiAt' \in {"cancel", "join"}
      PROVE  ClosedByStop'
  BY <1>1, <1>a, <1>c DEF ClosedByStop, Elements
<1>2. ASSUME NEW s \in Working, EndWork(s), UNCHANGED guiAt
      PROVE  ClosedByStop'
  <2>1. backlog' = << >> /\ peer' = [peer EXCEPT ![s] = NoEngine]
    BY <1>2 DEF EndWork
  <2>2. \A t \in Server : peer'[t] # Closer
    BY <2>1, <1>a, <1>b, <1>2 DEF OneWorker, ClosedByStop
  <2>3. Elements(backlog') = {}
    BY <2>1 DEF Elements
  <2>4. QED
    BY <2>1, <2>2, <2>3 DEF ClosedByStop
<1>3. CASE StopAllReturns
  <2>1. backlog = << >> /\ \A t \in Server : peer[t] # Closer
    BY <1>3, <1>a DEF StopAllReturns, ClosedByStop
  <2>2. backlog' = << >> /\ peer' = peer
    BY <1>3, <2>1 DEF StopAllReturns, serverVars, engineVars
  <2>3. Elements(backlog') = {}
    BY <2>2 DEF Elements
  <2>4. QED
    BY <2>1, <2>2, <2>3 DEF ClosedByStop
<1>4. ASSUME NEW restart \in BOOLEAN, StopDebugger(restart)
      PROVE  ClosedByStop'
  <2>1. guiAt' = "cancel" /\ UNCHANGED <<pc, peer>>
    BY <1>4 DEF StopDebugger, serverVars
  <2>2. backlog' # << >> => Working # {}
    BY <1>4, <1>a DEF StopDebugger, ClosedByStop, Working
  <2>3. QED
    BY <2>1, <2>2, <1>a DEF ClosedByStop, Working, Listening
<1>5. CASE StopAll
  <2>1. guiAt' = "join" /\ UNCHANGED <<peer, backlog>>
    BY <1>5 DEF StopAll, engineVars
  <2>2. \A s \in Working : s \in Working'
    BY <1>5, <1>a DEF StopAll, Working, Listening
  <2>3. QED
    BY <2>1, <2>2, <1>a DEF ClosedByStop, Elements
<1>6. ASSUME NEW s \in Server, ServerStep(s) \/ ServerFault(s)
      PROVE  ClosedByStop'
  <2>a. UNCHANGED guiAt
    BY <1>6 DEF ServerStep, ServerFault, ServerUnchanged, stopVars, BeginWork, Bind,
       TestCancelled, Accept, ReadInit, SessionCancelled, SendCommand, ReadAnswer,
       ReadFails, Drain, BindFails, AcceptFails
  <2>1. CASE EndWork(s)
    <3>1. s \in Working \/ BeginWork(s)
      BY <1>6 DEF ServerStep, ServerFault, Bind, TestCancelled, Accept, ReadInit,
         SessionCancelled, SendCommand, ReadAnswer, ReadFails, Drain, BindFails,
         AcceptFails, Working, Listening
    <3>2. ~BeginWork(s)
      <4>1. EndWork(s) => s \notin Handlers'
        BY DEF EndWork
      <4>2. BeginWork(s) => s \in Handlers'
        <5>1. BeginWork(s) => s \in Alive
          <6>1. BeginWork(s) => pc[s] = "queued"
            BY HeadTailProperties, EmptySeq, LenProperties
               DEF BeginWork, SinkInv, TypeOK, QueueIsFresh
          <6>2. QED
            BY <6>1 DEF Alive
        <5>2. QED
          BY <5>1 DEF BeginWork, SinkInv, SinkForgetsEnded
      <4>3. QED
        BY <2>1, <4>1, <4>2
    <3>3. QED
      BY <2>1, <2>a, <3>1, <3>2, <1>2
  <2>2. CASE Accept(s)
    <3>1. /\ peer' = [peer EXCEPT ![s] = Head(backlog)]
          /\ backlog' = Tail(backlog)
          /\ backlog # << >>
          /\ pc' = [pc EXCEPT ![s] = "init"]
          /\ pc[s] = "accept"
      BY <2>2 DEF Accept, Goto
    <3>2. pc \in [Server -> {"none", "queued", "bind", "loop", "accept", "init",
                             "session", "reply", "drain", "ended", "dropped"}]
      BY DEF SinkInv, TypeOK
    <3>3. s \in Working' /\ \A t \in Working : t \in Working'
      BY <3>1, <3>2 DEF Working, Listening
    <3>4. Elements(backlog') \subseteq Elements(backlog)
          /\ Head(backlog) \in Elements(backlog)
      BY <3>1, <1>a, <1>d, HeadTailProperties, LenProperties, EmptySeq DEF Elements
    <3>5. \A t \in Server : peer'[t] = Closer =>
              t \in Working' /\ guiAt \in {"cancel", "join"}
      BY <3>1, <3>3, <3>4, <1>a DEF ClosedByStop
    <3>6. QED
      BY <2>a, <3>3, <3>4, <3>5, <1>a DEF ClosedByStop
  <2>3. ASSUME LeaveSession(s), ~EndWork(s), pc[s] \in {"session", "reply", "drain"}
        PROVE  ClosedByStop'
    <3>1. peer' = [peer EXCEPT ![s] = NoEngine] /\ UNCHANGED backlog
      BY <2>3 DEF LeaveSession
    <3>2. \A t \in Working : ~EndWork(t)
      BY <2>3, <1>a DEF OneWorker, Working, Listening
    <3>3. \A t \in Server : peer'[t] = Closer => peer[t] = Closer
      BY <3>1, <1>a, <1>b
    <3>4. QED
      BY <3>1, <3>2, <3>3, <2>a, <1>a, <1>c DEF ClosedByStop, Elements
  <2>4. ASSUME UNCHANGED <<peer, backlog>>, ~EndWork(s) PROVE ClosedByStop'
    <3>1. \A t \in Working : ~EndWork(t)
      <4>1. Working = {} \/ s \in Working
        BY <1>6 DEF ServerStep, ServerFault, BeginWork, Bind, TestCancelled, Accept,
           ReadInit, SessionCancelled, SendCommand, ReadAnswer, ReadFails, Drain,
           BindFails, AcceptFails, Working, Listening
      <4>2. QED
        BY <4>1, <2>4, <1>a DEF OneWorker
    <3>2. QED
      BY <3>1, <2>4, <2>a, <1>1
  <2>5. QED
    <3>1. \/ EndWork(s) \/ Accept(s) \/ UNCHANGED <<peer, backlog>>
          \/ LeaveSession(s) /\ pc[s] \in {"session", "reply", "drain"}
      BY <1>6 DEF ServerStep, ServerFault, BeginWork, Bind, TestCancelled, ReadInit,
         SessionCancelled, SendCommand, ReadAnswer, ReadFails, Drain, BindFails,
         AcceptFails, engineVars
    <3>2. QED
      BY <3>1, <2>1, <2>2, <2>3, <2>4
<1>7. ASSUME NEW e \in Engine, Connect(e) PROVE ClosedByStop'
  <2>1. /\ backlog' = Append(backlog, e)
        /\ Listening # {}
        /\ UNCHANGED <<pc, peer, guiAt>>
    BY <1>7 DEF Connect, EngineUnchanged, stopVars, serverVars
  <2>2. Elements(backlog') \subseteq Elements(backlog) \cup {e}
    BY <2>1, <1>a, <1>d, AppendProperties, LenProperties DEF Elements
  <2>3. Working' # {} /\ Working' = Working
    BY <2>1 DEF Working, Listening
  <2>4. QED
    BY <2>1, <2>2, <2>3, <1>a, <1>b DEF ClosedByStop
<1>8. ASSUME UNCHANGED <<pc, peer, backlog, guiAt>> PROVE ClosedByStop'
  BY <1>8, <1>a DEF ClosedByStop, Elements, Working, Listening
<1>9. CASE StartDebugger \/ RestartServer
  <2>1. /\ UNCHANGED <<peer, backlog>>
        /\ guiAt \notin {"cancel", "join"}
    BY <1>9 DEF StartDebugger, RestartServer, engineVars
  <2>2. \A s \in Working : s \in Working'
    <3>1. \A s \in Server : pc'[s] = pc[s] \/ s = servers + 1
      BY <1>9 DEF StartDebugger, RestartServer, CreateServer, SinkInv, TypeOK
    <3>2. \A s \in Working : s # servers + 1
      <4>1. servers \in Nat /\ \A s \in Server : s > servers => pc[s] = "none"
        BY DebuggerAssumption DEF SinkInv, QueueIsFresh, TypeOK
      <4>2. servers + 1 > servers
        BY <4>1
      <4>3. QED
        BY <4>1, <4>2 DEF Working, Listening
    <3>3. QED
      BY <3>1, <3>2, <1>a DEF Working, Listening
  <2>3. QED
    BY <2>1, <2>2, <1>a DEF ClosedByStop, Elements
<1>10. CASE UserCommand \/ OnDbgpInit \/ OnDbgpContinue \/ OnDbgpContinueStopping
           \/ OnDebuggerError \/ UNCHANGED vars
  BY <1>10, <1>8 DEF UserCommand, OnDbgpInit, OnDbgpContinue, OnDbgpContinueStopping,
     OnDebuggerError, vars, stopVars, serverVars, engineVars
<1>11. ASSUME NEW s \in Server, OnCmd(s) PROVE ClosedByStop'
  BY <1>11, <1>8 DEF OnCmd, stopVars, serverVars, engineVars
<1>12. ASSUME NEW e \in Engine, EngineStep(e) \/ EngineDrops(e) PROVE ClosedByStop'
  BY <1>12, <1>8 DEF EngineStep, EngineAnswers, EngineRuns, EngineDrops,
     EngineUnchanged, stopVars, serverVars
<1>13. QED
  BY <1>3, <1>4, <1>5, <1>6, <1>7, <1>9, <1>10, <1>11, <1>12 DEF Next, Gui, EventLoop

\* The flag is set with the server, and a server that ends tells the GUI, is
\* waited for, or has lost its script.
LEMMA ServerIsThereStep ==
    ASSUME ServerInv, [Next]_vars
    PROVE  ServerIsThere'
<1>a. /\ pc \in [Server -> {"none", "queued", "bind", "loop", "accept", "init",
                            "session", "reply", "drain", "ended", "dropped"}]
      /\ errors \in Nat
      /\ servers \in Nat
      /\ ServerIsThere /\ CancelledByStop /\ ClosedByStop /\ WireTellsFaults
  BY DebuggerAssumption DEF ServerInv, SinkInv, TypeOK
<1>b. faults \subseteq faults'
  BY WireFaultsStep DEF ServerInv, SinkInv
<1>1. ASSUME UNCHANGED <<IsDebuggerServerActive, pc, guiAt>>,
             errors > 0 => errors' > 0
      PROVE  ServerIsThere'
  BY <1>1, <1>a, <1>b DEF ServerIsThere, MayBeGone, Alive, Working, Listening
<1>2. ASSUME IsDebuggerServerActive' = FALSE PROVE ServerIsThere'
  BY <1>2 DEF ServerIsThere
<1>3. ASSUME NEW s \in Server, pc'[s] \in Inside \cup {"queued", "bind"}
      PROVE  ServerIsThere'
  BY <1>3 DEF ServerIsThere, Alive, Working, Listening, Inside
<1>4. CASE StopAll \/ \E restart \in BOOLEAN : StopDebugger(restart)
  BY <1>4 DEF StopAll, StopDebugger, ServerIsThere, MayBeGone
<1>5. CASE CreateServer
  <2>1. servers + 1 \in Server
    BY <1>5, <1>a, DebuggerAssumption DEF CreateServer, Server
  <2>2. pc'[servers + 1] = "queued"
    BY <1>5, <2>1, <1>a DEF CreateServer
  <2>3. QED
    BY <2>1, <2>2, <1>3
<1>6. CASE StopAllReturns \/ OnDbgpContinueStopping \/ OnDebuggerError
  BY <1>6, <1>2 DEF StopAllReturns, OnDbgpContinueStopping, OnDebuggerError,
     ResetDebugger
<1>7. CASE UserCommand \/ OnDbgpInit \/ OnDbgpContinue \/ UNCHANGED vars
  BY <1>7, <1>1 DEF UserCommand, OnDbgpInit, OnDbgpContinue, vars, flagVars, stopVars,
     serverVars
<1>8. CASE RestartServer
  <2>1. CreateServer \/ /\ UNCHANGED <<pc, IsDebuggerServerActive, errors, faults>>
                        /\ guiAt \notin {"cancel", "join"}
    BY <1>8 DEF RestartServer
  <2>2. ASSUME UNCHANGED <<pc, IsDebuggerServerActive, errors, faults>>,
               guiAt \notin {"cancel", "join"}
        PROVE  ServerIsThere'
    BY <2>2, <1>a DEF ServerIsThere, MayBeGone, Alive, Working, Listening
  <2>3. QED
    BY <2>1, <2>2, <1>5
<1>9. ASSUME NEW s \in Server, OnCmd(s) PROVE ServerIsThere'
  BY <1>9, <1>1 DEF OnCmd, flagVars, stopVars, serverVars
<1>10. ASSUME NEW e \in Engine, Connect(e) \/ EngineStep(e) \/ EngineDrops(e)
       PROVE  ServerIsThere'
  BY <1>10, <1>1 DEF Connect, EngineStep, EngineAnswers, EngineRuns, EngineDrops,
     EngineUnchanged, flagVars, stopVars, serverVars
<1>11. ASSUME NEW s \in Server, ServerStep(s) \/ ServerFault(s)
       PROVE  ServerIsThere'
  <2> USE DEF ServerUnchanged, flagVars, stopVars, Goto
  <2>1. CASE BindFails(s)
    <3>1. errors' > 0
      BY <2>1, <1>a DEF BindFails
    <3>2. QED
      BY <3>1 DEF ServerIsThere, MayBeGone
  <2>2. CASE BeginWork(s) \/ Bind(s) \/ Accept(s) \/ AcceptFails(s)
    <3>1. pc'[s] \in Inside \cup {"bind"}
      BY <2>2, <1>a DEF BeginWork, Bind, Accept, AcceptFails, Inside
    <3>2. QED
      BY <3>1, <1>3
  <2>3. CASE SendCommand(s) \/ ReadAnswer(s)
    <3>1. pc'[s] \in Inside
      BY <2>3, <1>a DEF SendCommand, ReadAnswer, Inside
    <3>2. QED
      BY <3>1, <1>3
  <2>4. CASE SessionCancelled(s) \/ ReadFails(s) \/ Drain(s)
    <3>1. pc'[s] \in Inside
      BY <2>4, <1>a DEF SessionCancelled, ReadFails, Drain, LeaveSession, Inside
    <3>2. QED
      BY <3>1, <1>3
  <2>5. CASE TestCancelled(s)
    <3>1. CASE s \in cancelled
      <4>1. s \in Working
        BY <2>5 DEF TestCancelled, Working, Listening
      <4>2. guiAt' = "join"
        BY <2>5, <3>1, <4>1, <1>a DEF TestCancelled, CancelledByStop
      <4>3. QED
        BY <4>2 DEF ServerIsThere, MayBeGone
    <3>2. CASE s \notin cancelled
      <4>1. pc'[s] \in Inside
        BY <2>5, <3>2, <1>a DEF TestCancelled, Inside
      <4>2. QED
        BY <4>1, <1>3
    <3>3. QED
      BY <3>1, <3>2
  <2>6. CASE ReadInit(s)
    <3>1. CASE peer[s] = Closer
      <4>1. guiAt' \in {"cancel", "join"}
        BY <2>6, <3>1, <1>a DEF ReadInit, ClosedByStop
      <4>2. QED
        BY <4>1 DEF ServerIsThere, MayBeGone
    <3>2. CASE peer[s] \in Engine /\ wire[peer[s]].what = "eof"
      <4>1. "drop" \in faults'
        BY <3>2, <1>a, <1>b DEF WireTellsFaults
      <4>2. QED
        BY <4>1 DEF ServerIsThere, MayBeGone
    <3>3. CASE pc'[s] = "session"
      BY <3>3, <1>3 DEF Inside
    <3>4. QED
      BY <2>6, <3>1, <3>2, <3>3, <1>a DEF ReadInit
  <2>7. QED
    BY <1>11, <2>1, <2>2, <2>3, <2>4, <2>5, <2>6 DEF ServerStep, ServerFault
<1>12. QED
  BY <1>4, <1>5, <1>6, <1>7, <1>8, <1>9, <1>10, <1>11
     DEF Next, Gui, EventLoop, StartDebugger

\* An error event is the sign of a fault.
ErrorsAreFaults == errors > 0 => ~(faults \subseteq {"drop"})

\* The last event on its way to the feature, or the flag if there is none, says
\* that a script waits.
LastTells ==
    IF featureEvents = << >> THEN IsDebuggerSessionActive
    ELSE featureEvents[Len(featureEvents)].what \in {"init", "break"}

SessionIsTold ==
    faults \subseteq {"drop"} =>
        \A s \in Server : pc[s] \in {"session", "reply"} => LastTells

FlagInv == ServerInv /\ ErrorsAreFaults /\ SessionIsTold

\* Each event that counts an error follows a fault.
LEMMA ErrorsStep ==
    ASSUME ServerInv, ErrorsAreFaults, [Next]_vars
    PROVE  ErrorsAreFaults'
<1>a. errors \in Nat /\ WireTellsFaults
      /\ \A s \in Server : pc[s] = "reply" => peer[s] \in Engine
  BY DEF ServerInv, SinkInv, TypeOK
<1>b. faults \subseteq faults'
  BY WireFaultsStep DEF ServerInv, SinkInv
<1>1. ASSUME errors' = errors \/ errors > 0 PROVE ErrorsAreFaults'
  BY <1>1, <1>a, <1>b DEF ErrorsAreFaults
<1>2. CASE Gui \/ EventLoop \/ UNCHANGED vars
  BY <1>2, <1>1 DEF Gui, StartDebugger, StopDebugger, UserCommand, EventLoop, StopAll,
     StopAllReturns, RestartServer, OnDbgpInit, OnDbgpContinue, OnDbgpContinueStopping,
     OnDebuggerError, vars
<1>3. ASSUME NEW s \in Server, OnCmd(s) \/ ServerStep(s) \/ ServerFault(s)
      PROVE  ErrorsAreFaults'
  <2>1. CASE BindFails(s) \/ AcceptFails(s)
    <3>1. "bind" \in faults' \/ "accept" \in faults'
      BY <2>1 DEF BindFails, AcceptFails, Fails
    <3>2. QED
      BY <3>1 DEF ErrorsAreFaults
  <2>2. CASE ReadAnswer(s)
    <3>1. errors' = errors \/ "error" \in faults
      BY <2>2, <1>a DEF ReadAnswer, WireTellsFaults
    <3>2. QED
      BY <3>1, <1>1, <1>b DEF ErrorsAreFaults
  <2>3. CASE ~BindFails(s) /\ ~AcceptFails(s) /\ ~ReadAnswer(s)
    BY <1>3, <2>3, <1>1 DEF OnCmd, ServerStep, ServerFault, BeginWork, Bind,
       TestCancelled, Accept, ReadInit, SessionCancelled, SendCommand, ReadFails, Drain
  <2>4. QED
    BY <2>1, <2>2, <2>3
<1>4. ASSUME NEW e \in Engine, Connect(e) \/ EngineStep(e) \/ EngineDrops(e)
      PROVE  ErrorsAreFaults'
  BY <1>4, <1>1 DEF Connect, EngineStep, EngineAnswers, EngineRuns, EngineDrops,
     EngineUnchanged
<1>5. QED
  BY <1>2, <1>3, <1>4 DEF Next

\* An event is taken: what is left still ends as it did, or nothing is left.
LEMMA EventTaken ==
    ASSUME TypeOK, featureEvents # << >>, featureEvents' = Tail(featureEvents)
    PROVE  \/ featureEvents' = << >> /\ featureEvents[Len(featureEvents)]
                                            = Head(featureEvents)
           \/ /\ featureEvents' # << >>
              /\ featureEvents'[Len(featureEvents')]
                     = featureEvents[Len(featureEvents)]
<1>1. featureEvents \in Seq(FeatureEvent)
  BY DEF TypeOK
<1>2. /\ Len(featureEvents) \in Nat
      /\ Len(featureEvents) > 0
      /\ Head(featureEvents) = featureEvents[1]
      /\ featureEvents' \in Seq(FeatureEvent)
      /\ Len(featureEvents') = Len(featureEvents) - 1
      /\ \A n \in 1 .. Len(featureEvents') : featureEvents'[n] = featureEvents[n + 1]
  BY <1>1, HeadTailProperties, EmptySeq, LenProperties
<1>3. CASE Len(featureEvents) = 1
  BY <1>2, <1>3, EmptySeq
<1>4. CASE Len(featureEvents) > 1
  <2> DEFINE n == Len(featureEvents)
             k == Len(featureEvents')
  <2>0. n \in Nat /\ n > 1 /\ k = n - 1
    BY <1>2, <1>4
  <2>1. k \in 1 .. k /\ k + 1 = n /\ k # 0
    <3> HIDE DEF n, k
    <3>1. QED
      BY <2>0
  <2>2. featureEvents' # << >>
    BY <2>1
  <2>3. QED
    BY <1>2, <2>1, <2>2
<1>5. QED
  BY <1>2, <1>3, <1>4

\* An event is posted: it is the last one.
LEMMA EventPosted ==
    ASSUME TypeOK, NEW event \in FeatureEvent,
           featureEvents' = Append(featureEvents, event)
    PROVE  featureEvents' # << >> /\ featureEvents'[Len(featureEvents')] = event
<1>1. featureEvents \in Seq(FeatureEvent)
  BY DEF TypeOK
<1>2. /\ Len(featureEvents) \in Nat
      /\ Len(featureEvents') = Len(featureEvents) + 1
      /\ featureEvents'[Len(featureEvents) + 1] = event
  BY <1>1, AppendProperties, LenProperties
<1>3. Len(featureEvents') # 0
  BY <1>2
<1>4. QED
  BY <1>2, <1>3

\* The feature hears of a script before the script can wait, and of its end
\* only when it waits no longer.
LEMMA SessionToldStep ==
    ASSUME FlagInv, [Next]_vars
    PROVE  SessionIsTold'
<1>a. /\ TypeOK /\ SessionIsTold /\ ErrorsAreFaults /\ OneWorker /\ QueueIsFresh
      /\ pc \in [Server -> {"none", "queued", "bind", "loop", "accept", "init",
                            "session", "reply", "drain", "ended", "dropped"}]
      /\ servers \in Nat
  BY DebuggerAssumption DEF FlagInv, ServerInv, SinkInv, TypeOK
<1>b. faults \subseteq faults'
  BY WireFaultsStep DEF FlagInv, ServerInv, SinkInv
<1>1. ASSUME UNCHANGED <<featureEvents, IsDebuggerSessionActive>>,
             \A s \in Server : pc'[s] \in {"session", "reply"} =>
                                   pc[s] \in {"session", "reply"}
      PROVE  SessionIsTold'
  BY <1>1, <1>a, <1>b DEF SessionIsTold, LastTells
<1>2. CASE StartDebugger \/ RestartServer
  <2>1. UNCHANGED <<featureEvents, IsDebuggerSessionActive>>
    BY <1>2 DEF StartDebugger, RestartServer
  <2>2. UNCHANGED pc \/ pc' = [pc EXCEPT ![servers + 1] = "queued"]
    BY <1>2 DEF StartDebugger, RestartServer, CreateServer
  <2>3. QED
    BY <2>1, <2>2, <1>1, <1>a
<1>3. CASE StopAll
  BY <1>3, <1>1, <1>a DEF StopAll, flagVars
<1>4. CASE UserCommand \/ StopAllReturns \/ UNCHANGED vars
        \/ \E restart \in BOOLEAN : StopDebugger(restart)
  BY <1>4, <1>1 DEF UserCommand, StopAllReturns, vars, StopDebugger, flagVars,
     serverVars
<1>5. CASE OnDbgpInit \/ OnDbgpContinue
  <2>1. /\ featureEvents # << >>
        /\ featureEvents' = Tail(featureEvents)
        /\ IsDebuggerSessionActive' = TRUE
        /\ UNCHANGED <<pc, faults>>
    BY <1>5 DEF OnDbgpInit, OnDbgpContinue, serverVars
  <2>2. LastTells => LastTells'
    BY <2>1, <1>a, EventTaken DEF LastTells
  <2>3. QED
    BY <2>1, <2>2, <1>a DEF SessionIsTold
<1>6. CASE OnDbgpContinueStopping
  <2>1. /\ featureEvents # << >>
        /\ featureEvents' = Tail(featureEvents)
        /\ Head(featureEvents).what = "stopping"
        /\ UNCHANGED <<pc, faults>>
    BY <1>6 DEF OnDbgpContinueStopping, serverVars
  <2>2. LastTells => LastTells'
    BY <2>1, <1>a, EventTaken DEF LastTells
  <2>3. QED
    BY <2>1, <2>2, <1>a DEF SessionIsTold
<1>7. CASE OnDebuggerError
  BY <1>7, <1>a DEF OnDebuggerError, ErrorsAreFaults, SessionIsTold
<1>8. ASSUME NEW s \in Server, OnCmd(s) PROVE SessionIsTold'
  BY <1>8, <1>1 DEF OnCmd, flagVars, serverVars
<1>9. ASSUME NEW e \in Engine, Connect(e) \/ EngineStep(e) \/ EngineDrops(e)
      PROVE  SessionIsTold'
  BY <1>9, <1>1 DEF Connect, EngineStep, EngineAnswers, EngineRuns, EngineDrops,
     EngineUnchanged, flagVars, serverVars
<1>10. ASSUME NEW s \in Server, ServerStep(s) \/ ServerFault(s)
       PROVE  SessionIsTold'
  <2>a. UNCHANGED IsDebuggerSessionActive
    BY <1>10 DEF ServerStep, ServerFault, ServerUnchanged, flagVars, BeginWork, Bind,
       TestCancelled, Accept, ReadInit, SessionCancelled, SendCommand, ReadAnswer,
       ReadFails, Drain, BindFails, AcceptFails
  <2>1. ASSUME UNCHANGED featureEvents,
               \/ UNCHANGED pc
               \/ \E at \in {"bind", "loop", "accept", "init", "drain", "ended"} :
                      Goto(s, at)
               \/ pc[s] \in {"session", "reply"} /\ \E at \in Inside : Goto(s, at)
        PROVE  SessionIsTold'
    <3>1. \A t \in Server : pc'[t] \in {"session", "reply"} =>
                                pc[t] \in {"session", "reply"}
      BY <2>1, <1>a DEF Goto
    <3>2. QED
      BY <2>1, <2>a, <3>1, <1>1
  <2>2. CASE BeginWork(s) \/ Bind(s) \/ Accept(s) \/ AcceptFails(s)
    BY <2>2, <2>1 DEF BeginWork, Bind, Accept, AcceptFails
  <2>3. CASE TestCancelled(s) \/ BindFails(s) \/ EndWork(s)
    BY <2>3, <2>1 DEF TestCancelled, BindFails, EndWork
  <2>4. CASE SessionCancelled(s) \/ ReadFails(s) \/ Drain(s)
    BY <2>4, <2>1 DEF SessionCancelled, ReadFails, Drain, LeaveSession
  <2>5. CASE SendCommand(s)
    BY <2>5, <2>1 DEF SendCommand, Inside
  <2>6. CASE ReadInit(s)
    <3>1. CASE EndWork(s)
      BY <2>3, <3>1
    <3>2. CASE ~EndWork(s)
      <4>1. [what |-> "init", from |-> peer[s]] \in FeatureEvent
        BY <2>6, <3>2 DEF ReadInit, FeatureEvent
      <4>2. featureEvents' = Append(featureEvents,
                                    [what |-> "init", from |-> peer[s]])
        BY <2>6, <3>2 DEF ReadInit
      <4>3. LastTells'
        BY <4>1, <4>2, <1>a, EventPosted DEF LastTells
      <4>4. QED
        BY <4>3 DEF SessionIsTold
    <3>3. QED
      BY <3>1, <3>2
  <2>7. CASE ReadAnswer(s)
    <3> DEFINE answer == wire[peer[s]].what
    <3>a. pc[s] = "reply" /\ peer[s] \in Engine
      BY <2>7, <1>a DEF ReadAnswer, TypeOK
    <3>1. CASE answer \in {"ok", "error"}
      BY <2>7, <3>1, <3>a, <2>1 DEF ReadAnswer, Inside
    <3>2. CASE answer = "break"
      <4>1. [what |-> answer, from |-> peer[s]] \in FeatureEvent
        BY <3>2, <3>a DEF FeatureEvent
      <4>2. featureEvents' = Append(featureEvents, [what |-> answer, from |-> peer[s]])
        BY <2>7, <3>2 DEF ReadAnswer
      <4>3. LastTells'
        BY <4>1, <4>2, <3>2, <1>a, EventPosted DEF LastTells
      <4>4. QED
        BY <4>3 DEF SessionIsTold
    <3>3. CASE answer = "stopping"
      <4>1. pc' = [pc EXCEPT ![s] = "drain"]
        BY <2>7, <3>3 DEF ReadAnswer, Goto
      <4>2. \A t \in Server : pc'[t] \notin {"session", "reply"}
        BY <4>1, <3>a, <1>a DEF OneWorker, Working, Listening
      <4>3. QED
        BY <4>2 DEF SessionIsTold
    <3>4. QED
      BY <2>7, <3>1, <3>2, <3>3 DEF ReadAnswer
  <2>8. QED
    BY <1>10, <2>2, <2>3, <2>4, <2>5, <2>6, <2>7 DEF ServerStep, ServerFault
<1>11. QED
  BY <1>2, <1>3, <1>4, <1>5, <1>6, <1>7, <1>8, <1>9, <1>10 DEF Next, Gui, EventLoop

\* What the GUI believes of servers and scripts when it has handled its events
\* is true as long as nothing fails (StartDebugger, OnDbgpInit, OnDbgpContinue
\* and ResetDebugger of DebuggerFeatureClass).
THEOREM FlagsStayTrue == Spec => []FlagsAreTrue
<1>1. Init => FlagInv
  <2> SUFFICES ASSUME Init PROVE FlagInv
    OBVIOUS
  <2>1. SinkInv
    BY AnswerInvInit DEF AnswerInv
  <2>2. ServerIsThere /\ CancelledByStop /\ WireTellsFaults /\ ErrorsAreFaults
    BY DEF Init, ServerIsThere, CancelledByStop, WireTellsFaults, ErrorsAreFaults,
       Silence
  <2>3. ClosedByStop
    BY DebuggerAssumption DEF Init, ClosedByStop, Elements
  <2>4. SessionIsTold
    BY DEF Init, SessionIsTold
  <2>5. QED
    BY <2>1, <2>2, <2>3, <2>4 DEF FlagInv, ServerInv
<1>2. FlagInv /\ [Next]_vars => FlagInv'
  <2> SUFFICES ASSUME FlagInv, [Next]_vars PROVE FlagInv'
    OBVIOUS
  <2>1. SinkInv'
    BY TypeStep, SinkInvStep DEF FlagInv, ServerInv, SinkInv
  <2>2. CancelledByStop' /\ ClosedByStop'
    BY CancelledStep, ClosedStep DEF FlagInv, ServerInv
  <2>3. ServerIsThere' /\ WireTellsFaults'
    BY ServerIsThereStep, WireFaultsStep DEF FlagInv, ServerInv, SinkInv
  <2>4. ErrorsAreFaults' /\ SessionIsTold'
    BY ErrorsStep, SessionToldStep DEF FlagInv
  <2>5. QED
    BY <2>1, <2>2, <2>3, <2>4 DEF FlagInv, ServerInv
<1>3. FlagInv => FlagsAreTrue
  <2> SUFFICES ASSUME FlagInv PROVE FlagsAreTrue
    OBVIOUS
  <2>1. FlagMeansServer
    <3>1. ServerIsThere /\ errors \in Nat
      BY DEF FlagInv, ServerInv, SinkInv, TypeOK
    <3>2. QED
      BY <3>1 DEF FlagMeansServer, ServerIsThere, MayBeGone
  <2>2. SessionIsKnown
    BY DEF FlagInv, SessionIsTold, LastTells, SessionIsKnown
  <2>3. QED
    BY <2>1, <2>2 DEF FlagsAreTrue
<1>4. QED
  BY <1>1, <1>2, <1>3, PTL DEF Spec

=============================================================================
