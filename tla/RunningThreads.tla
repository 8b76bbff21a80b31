--------------------------- MODULE RunningThreads ---------------------------
(***************************************************************************)
(* The background thread pool of src/src/actions/ActionClass.{h,cpp}.      *)
(*                                                                         *)
(* The GUI thread calls RunningThreadsClass: Queue, CancelAction, StopAll, *)
(* Shutdown, the destructor, and the timer callback OnTimer.  Each         *)
(* ThreadActionClass of a batch of MaxThreads threads runs Entry: it polls *)
(* the shared queue, works on one action at a time and ends when StopAll   *)
(* has set its delete flag.                                                *)
(*                                                                         *)
(* A block of code under ActionMutex is one step.  StopAll takes no lock   *)
(* across its phases, so each of its loop iterations is a step of its own. *)
(* The threads of a pool are numbered <<batch, index>>: Queue starts a new *)
(* batch when ThreadActions is empty, and the threads of an earlier batch  *)
(* may still be running then if a wait of StopAll timed out.               *)
(***************************************************************************)
EXTENDS Integers, Sequences, FiniteSets

CONSTANTS
    Action,         \* the action objects that clients allocate
    NoAction,       \* the NULL pointer
    MaxThreads,     \* RunningThreadsClass::MaxThreads
    MaxBatches,     \* bound: how often Queue may start a batch of threads
    StopMayTimeOut  \* may Semaphore->WaitTimeout(4000) give up on a thread?

ASSUME ConstantsAssumption ==
    /\ NoAction \notin Action
    /\ MaxThreads \in Nat \ {0}
    /\ MaxBatches \in Nat
    /\ StopMayTimeOut \in BOOLEAN

Thread == (1 .. MaxBatches) \X (1 .. MaxThreads)

VARIABLES
    \* RunningThreadsClass
    Actions,        \* the queue of actions no thread has taken yet
    ThreadActions,  \* the threads of the current batch; <<>> before Queue
    batch,          \* number of batches started so far
    Semaphore,      \* value of the finish semaphore
    NextActionId,
    IsShutdown,
    timerRunning,   \* Timer.IsRunning()
    destroyed,      \* has the destructor of the pool run?
    \* the GUI thread inside StopAll: the phase, and the loop index
    stopPhase,
    stopIndex,
    \* ThreadActionClass
    pc,             \* where each thread is in Entry
    RunningAction,  \* its action: the local of Entry and the member agree
    destroyFlag,    \* what TestDestroy returns, set by wxThread::Delete
    \* ActionClass
    object,         \* is the object new, owned by the pool, or deleted?
    actionId,       \* ActionClass::ActionId
    cancelled,      \* the actions whose Cancelled flag is set
    \* observers
    lastEvent,      \* the last event posted for an action
    cancelAsked     \* the ids CancelAction has been called with

poolVars == <<Actions, ThreadActions, batch, Semaphore, NextActionId,
              IsShutdown, timerRunning, destroyed>>
stopVars == <<stopPhase, stopIndex>>
threadVars == <<pc, RunningAction, destroyFlag>>
actionVars == <<object, actionId, cancelled, lastEvent, cancelAsked>>
vars == <<poolVars, stopVars, threadVars, actionVars>>

Queued == {Actions[n] : n \in DOMAIN Actions}
InBatch == {ThreadActions[n] : n \in DOMAIN ThreadActions}

Location == {"none", "test", "next", "fetched", "work", "signal",
             "release", "cleanup", "finish", "dead"}

TypeOK ==
    /\ Actions \in Seq(Action)
    /\ batch \in 0 .. MaxBatches
    /\ ThreadActions \in {<< >>, [n \in 1 .. MaxThreads |-> <<batch, n>>]}
    /\ Semaphore \in 0 .. MaxThreads
    /\ NextActionId \in Nat
    /\ IsShutdown \in BOOLEAN
    /\ timerRunning \in BOOLEAN
    /\ destroyed \in BOOLEAN
    /\ stopPhase \in {"idle", "cancel", "delete", "wait"}
    /\ stopIndex \in 1 .. MaxThreads
    /\ pc \in [Thread -> Location]
    /\ RunningAction \in [Thread -> Action \cup {NoAction}]
    /\ destroyFlag \in [Thread -> BOOLEAN]
    /\ object \in [Action -> {"new", "owned", "deleted"}]
    /\ actionId \in [Action -> Nat]
    /\ cancelled \in SUBSET Action
    /\ lastEvent \in [Action -> {"none", "progress", "complete"}]
    /\ cancelAsked \in SUBSET Nat

\* The constructors of the pool and of the actions, and SetMaxThreads.
Init ==
    /\ Actions = << >>
    /\ ThreadActions = << >>
    /\ batch = 0
    /\ Semaphore = 0
    /\ NextActionId = 0
    /\ IsShutdown = FALSE
    /\ timerRunning = FALSE
    /\ destroyed = FALSE
    /\ stopPhase = "idle"
    /\ stopIndex = 1
    /\ pc = [t \in Thread |-> "none"]
    /\ RunningAction = [t \in Thread |-> NoAction]
    /\ destroyFlag = [t \in Thread |-> FALSE]
    /\ object = [a \in Action |-> "new"]
    /\ actionId = [a \in Action |-> 0]
    /\ cancelled = {}
    /\ lastEvent = [a \in Action |-> "none"]
    /\ cancelAsked = {}

-----------------------------------------------------------------------------
(* The GUI thread, outside StopAll.                                        *)

GuiReady == stopPhase = "idle" /\ ~destroyed

\* Mutant: the threads are started once in the life of the pool.
StartThreadsOnce ==
    IF batch = 0
    THEN /\ batch < MaxBatches
         /\ batch' = batch + 1
         /\ ThreadActions' = [n \in 1 .. MaxThreads |-> <<batch + 1, n>>]
         /\ pc' = [t \in Thread |-> IF t[1] = batch + 1 THEN "test" ELSE pc[t]]
    ELSE UNCHANGED <<batch, ThreadActions, pc>>

\* The tail of Queue: the first action after construction or after StopAll
\* starts the threads.
StartThreads ==
    IF ThreadActions = << >>
    THEN /\ batch < MaxBatches
         /\ batch' = batch + 1
         /\ ThreadActions' = [n \in 1 .. MaxThreads |-> <<batch + 1, n>>]
         /\ pc' = [t \in Thread |-> IF t[1] = batch + 1 THEN "test" ELSE pc[t]]
    ELSE UNCHANGED <<batch, ThreadActions, pc>>

Queue(a) ==
    /\ GuiReady
    /\ ~IsShutdown
    /\ object[a] = "new"
    /\ object' = [object EXCEPT ![a] = "owned"]
    /\ timerRunning' = TRUE
    /\ Actions' = Append(Actions, a)
    /\ actionId' = [actionId EXCEPT ![a] = NextActionId]
    /\ NextActionId' = NextActionId + 1
    /\ StartThreads
    /\ UNCHANGED <<Semaphore, IsShutdown, destroyed, stopVars, RunningAction,
                   destroyFlag, cancelled, lastEvent, cancelAsked>>

\* Queue after Shutdown deletes the action and returns -1.
QueueRefused(a) ==
    /\ GuiReady
    /\ IsShutdown
    /\ object[a] = "new"
    /\ object' = [object EXCEPT ![a] = "deleted"]
    /\ UNCHANGED <<poolVars, stopVars, threadVars, actionId, cancelled,
                   lastEvent, cancelAsked>>

\* The threads CancelAction and StopAll can reach whose action has this id.
RunningWithId(id) ==
    {t \in InBatch : RunningAction[t] # NoAction /\ actionId[RunningAction[t]] = id}

\* Mutant: the second queue is a stack.
KeepReversed(kept) ==
    {[n \in DOMAIN p |-> Actions[p[n]]] :
        p \in {f \in [1 .. Cardinality(kept) -> kept] :
                  \A m, n \in DOMAIN f : m < n => f[m] > f[n]}}

\* The queue reduced to the positions in kept, in the same order: what
\* CancelAction does by popping into a second queue and back.
KeepOnly(kept) ==
    {[n \in DOMAIN p |-> Actions[p[n]]] :
        p \in {f \in [1 .. Cardinality(kept) -> kept] :
                  \A m, n \in DOMAIN f : m < n => f[m] < f[n]}}

\* CancelAction with an id that Queue returned.  An empty queue ends the call
\* before the running actions are looked at.
CancelAction(id) ==
    LET kept == {n \in DOMAIN Actions : actionId[Actions[n]] # id}
    IN  /\ GuiReady
        /\ cancelAsked' = cancelAsked \cup {id}
        /\ IF Actions = << >>
           THEN UNCHANGED <<Actions, object, cancelled>>
           ELSE /\ Actions' \in KeepOnly(kept)
                /\ object' = [a \in Action |->
                       IF a \in Queued /\ actionId[a] = id THEN "deleted"
                                                         ELSE object[a]]
                /\ cancelled' =
                       cancelled \cup {RunningAction[t] : t \in RunningWithId(id)}
        /\ UNCHANGED <<ThreadActions, batch, Semaphore, NextActionId, IsShutdown,
                       timerRunning, destroyed, stopVars, threadVars, actionId,
                       lastEvent>>

\* The timer callback: a progress event for every running action of the batch.
OnTimer ==
    /\ GuiReady
    /\ timerRunning
    /\ lastEvent' = [a \in Action |->
           IF \E t \in InBatch : RunningAction[t] = a THEN "progress"
                                                      ELSE lastEvent[a]]
    /\ UNCHANGED <<poolVars, stopVars, threadVars, object, actionId, cancelled,
                   cancelAsked>>

-----------------------------------------------------------------------------
(* StopAll and its callers.                                                *)

\* Mutant: the running actions are cancelled with the queue still full.
LeaveQueuedActions ==
    IF ThreadActions = << >>
    THEN UNCHANGED <<Actions, object, stopVars>>
    ELSE /\ UNCHANGED <<Actions, object>>
         /\ stopPhase' = "cancel"
         /\ stopIndex' = 1

\* From the entry of StopAll to the end of the block under ActionMutex.
DeleteQueuedActions ==
    IF ThreadActions = << >>
    THEN UNCHANGED <<Actions, object, stopVars>>
    ELSE /\ Actions' = << >>
         /\ object' = [a \in Action |->
                IF a \in Queued THEN "deleted" ELSE object[a]]
         /\ stopPhase' = "cancel"
         /\ stopIndex' = 1

EnterStopAll ==
    /\ timerRunning' = FALSE
    /\ DeleteQueuedActions
    /\ UNCHANGED <<ThreadActions, batch, Semaphore, NextActionId, destroyed,
                   threadVars, actionId, cancelled, lastEvent, cancelAsked>>

StopAll ==
    /\ GuiReady
    /\ EnterStopAll
    /\ UNCHANGED IsShutdown

\* Mutant: Shutdown refuses new actions and stops nothing.
ShutdownOnlyFlag ==
    /\ GuiReady
    /\ IsShutdown' = TRUE
    /\ UNCHANGED <<Actions, ThreadActions, batch, Semaphore, NextActionId,
                   timerRunning, destroyed, stopVars, threadVars, actionVars>>

Shutdown ==
    /\ GuiReady
    /\ IsShutdown' = TRUE
    /\ EnterStopAll

\* The rest of the destructor; Shutdown, which it calls first, has returned.
Destroy ==
    /\ GuiReady
    /\ IsShutdown
    /\ destroyed' = TRUE
    /\ UNCHANGED <<Actions, ThreadActions, batch, Semaphore, NextActionId,
                   IsShutdown, timerRunning, stopVars, threadVars, actionVars>>

Stopping == ThreadActions[stopIndex]

\* Mutant: the threads are told to end and the actions are not.
CancelNothing ==
    /\ stopPhase = "cancel"
    /\ IF stopIndex < MaxThreads
       THEN stopIndex' = stopIndex + 1 /\ UNCHANGED stopPhase
       ELSE stopIndex' = 1 /\ stopPhase' = "delete"
    /\ UNCHANGED <<poolVars, threadVars, actionVars>>

\* One iteration of the first loop of StopAll.
CancelRunningAction ==
    /\ stopPhase = "cancel"
    /\ cancelled' = cancelled \cup ({RunningAction[Stopping]} \ {NoAction})
    /\ IF stopIndex < MaxThreads
       THEN stopIndex' = stopIndex + 1 /\ UNCHANGED stopPhase
       ELSE stopIndex' = 1 /\ stopPhase' = "delete"
    /\ UNCHANGED <<poolVars, threadVars, object, actionId, lastEvent, cancelAsked>>

\* wxThread::Delete on a detached thread sets its flag and returns.
DeleteThread ==
    /\ stopPhase = "delete"
    /\ destroyFlag' = [destroyFlag EXCEPT ![Stopping] = TRUE]
    /\ stopPhase' = "wait"
    /\ UNCHANGED <<poolVars, stopIndex, pc, RunningAction, actionVars>>

\* Mutant: the loop runs one index past the last thread.
NextToStopPastEnd ==
    IF stopIndex <= MaxThreads
    THEN /\ stopIndex' = stopIndex + 1
         /\ stopPhase' = "delete"
         /\ UNCHANGED ThreadActions
    ELSE /\ stopIndex' = 1
         /\ stopPhase' = "idle"
         /\ ThreadActions' = << >>

\* The end of an iteration of the second loop; the last one clears the batch.
NextToStop ==
    IF stopIndex < MaxThreads
    THEN /\ stopIndex' = stopIndex + 1
         /\ stopPhase' = "delete"
         /\ UNCHANGED ThreadActions
    ELSE /\ stopIndex' = 1
         /\ stopPhase' = "idle"
         /\ ThreadActions' = << >>

\* Mutant: a wait that found nothing to wait for is ignored.
TryWait ==
    /\ stopPhase = "wait"
    /\ Semaphore' = IF Semaphore > 0 THEN Semaphore - 1 ELSE 0
    /\ NextToStop
    /\ UNCHANGED <<Actions, batch, NextActionId, IsShutdown, timerRunning,
                   destroyed, threadVars, actionVars>>

SemaphoreWait ==
    /\ stopPhase = "wait"
    /\ Semaphore > 0
    /\ Semaphore' = Semaphore - 1
    /\ NextToStop
    /\ UNCHANGED <<Actions, batch, NextActionId, IsShutdown, timerRunning,
                   destroyed, threadVars, actionVars>>

SemaphoreTimeout ==
    /\ stopPhase = "wait"
    /\ StopMayTimeOut
    /\ Semaphore = 0
    /\ NextToStop
    /\ UNCHANGED <<Actions, batch, Semaphore, NextActionId, IsShutdown,
                   timerRunning, destroyed, threadVars, actionVars>>

-----------------------------------------------------------------------------
(* A background thread: ThreadActionClass::Entry.  What a thread does once *)
(* the pool is destroyed is undefined and is not explored.                 *)

At(t, l) == pc[t] = l /\ ~destroyed
GoTo(t, l) == pc' = [pc EXCEPT ![t] = l]

\* The condition of the while loop.
TestDestroy(t) ==
    /\ At(t, "test")
    /\ GoTo(t, IF destroyFlag[t] THEN "cleanup" ELSE "next")
    /\ UNCHANGED <<poolVars, stopVars, RunningAction, destroyFlag, actionVars>>

\* Mutant: the front action is read and not popped.
PeekAction(t) ==
    /\ At(t, "next")
    /\ IF Actions = << >>
       THEN /\ GoTo(t, "test")
            /\ RunningAction' = [RunningAction EXCEPT ![t] = NoAction]
       ELSE /\ GoTo(t, "fetched")
            /\ RunningAction' = [RunningAction EXCEPT ![t] = Head(Actions)]
    /\ UNCHANGED <<poolVars, stopVars, destroyFlag, actionVars>>

\* NextAction pops and sets RunningAction while it holds both mutexes.
NextAction(t) ==
    /\ At(t, "next")
    /\ IF Actions = << >>
       THEN /\ GoTo(t, "test")
            /\ RunningAction' = [RunningAction EXCEPT ![t] = NoAction]
            /\ UNCHANGED Actions
       ELSE /\ GoTo(t, "fetched")
            /\ RunningAction' = [RunningAction EXCEPT ![t] = Head(Actions)]
            /\ Actions' = Tail(Actions)
    /\ UNCHANGED <<ThreadActions, batch, Semaphore, NextActionId, IsShutdown,
                   timerRunning, destroyed, stopVars, destroyFlag, actionVars>>

\* The second TestDestroy: a thread told to end completes the action unworked.
\* Otherwise the first progress event announces BackgroundWork.
BeginWork(t) ==
    /\ At(t, "fetched")
    /\ IF destroyFlag[t]
       THEN GoTo(t, "signal") /\ UNCHANGED lastEvent
       ELSE /\ GoTo(t, "work")
            /\ lastEvent' = [lastEvent EXCEPT ![RunningAction[t]] = "progress"]
    /\ UNCHANGED <<poolVars, stopVars, RunningAction, destroyFlag, object,
                   actionId, cancelled, cancelAsked>>

\* BackgroundWork returns or throws; the exception is swallowed.
EndWork(t) ==
    /\ At(t, "work")
    /\ GoTo(t, "signal")
    /\ UNCHANGED <<poolVars, stopVars, RunningAction, destroyFlag, actionVars>>

\* The first half of ActionComplete, before it locks RunningActionMutex.
SignalEnd(t) ==
    /\ At(t, "signal")
    /\ GoTo(t, "release")
    /\ lastEvent' = [lastEvent EXCEPT ![RunningAction[t]] = "complete"]
    /\ UNCHANGED <<poolVars, stopVars, RunningAction, destroyFlag, object,
                   actionId, cancelled, cancelAsked>>

\* Mutant: RunningAction keeps the deleted pointer.
ReleaseDangling(t) ==
    /\ At(t, "release")
    /\ GoTo(t, "test")
    /\ object' = [object EXCEPT ![RunningAction[t]] = "deleted"]
    /\ UNCHANGED <<poolVars, stopVars, RunningAction, destroyFlag, actionId,
                   cancelled, lastEvent, cancelAsked>>

\* The second half.  The branch that breaks out of the loop also ends in the
\* loop's test here: its delete flag is set and is never reset.
ReleaseAction(t) ==
    /\ At(t, "release")
    /\ GoTo(t, "test")
    /\ object' = [object EXCEPT ![RunningAction[t]] = "deleted"]
    /\ RunningAction' = [RunningAction EXCEPT ![t] = NoAction]
    /\ UNCHANGED <<poolVars, stopVars, destroyFlag, actionId, cancelled,
                   lastEvent, cancelAsked>>

CleanupAllActions(t) ==
    /\ At(t, "cleanup")
    /\ GoTo(t, "finish")
    /\ Actions' = << >>
    /\ object' = [a \in Action |-> IF a \in Queued THEN "deleted" ELSE object[a]]
    /\ UNCHANGED <<ThreadActions, batch, Semaphore, NextActionId, IsShutdown,
                   timerRunning, destroyed, stopVars, RunningAction, destroyFlag,
                   actionId, cancelled, lastEvent, cancelAsked>>

\* Mutant: a semaphore without a maximum.
FinishUnbounded(t) ==
    /\ At(t, "finish")
    /\ GoTo(t, "dead")
    /\ Semaphore' = Semaphore + 1
    /\ UNCHANGED <<Actions, ThreadActions, batch, NextActionId, IsShutdown,
                   timerRunning, destroyed, stopVars, RunningAction, destroyFlag,
                   actionVars>>

\* wxSemaphore(0, MaxThreads)::Post fails, changing nothing, at its maximum.
FinishThread(t) ==
    /\ At(t, "finish")
    /\ GoTo(t, "dead")
    /\ Semaphore' = IF Semaphore < MaxThreads THEN Semaphore + 1 ELSE Semaphore
    /\ UNCHANGED <<Actions, ThreadActions, batch, NextActionId, IsShutdown,
                   timerRunning, destroyed, stopVars, RunningAction, destroyFlag,
                   actionVars>>

-----------------------------------------------------------------------------

Gui ==
    \/ \E a \in Action : Queue(a) \/ QueueRefused(a)
    \/ \E id \in 0 .. NextActionId - 1 : CancelAction(id)
    \/ OnTimer \/ StopAll \/ Shutdown \/ Destroy

StopStep == CancelRunningAction \/ DeleteThread \/ SemaphoreWait \/ SemaphoreTimeout

Worker(t) ==
    \/ TestDestroy(t) \/ NextAction(t) \/ BeginWork(t) \/ SignalEnd(t)
    \/ ReleaseAction(t) \/ CleanupAllActions(t) \/ FinishThread(t)

Next == Gui \/ StopStep \/ \E t \in Thread : Worker(t) \/ EndWork(t)

Spec == Init /\ [][Next]_vars

\* The operating system schedules every thread, and an action that has been
\* cancelled returns from BackgroundWork (the contract of IsCancelled); one
\* that has not been cancelled may work forever, as a server loop does.
StopSpec ==
    /\ Spec
    /\ WF_vars(StopStep)
    /\ \A t \in Thread :
           /\ WF_vars(Worker(t))
           /\ WF_vars(EndWork(t) /\ RunningAction[t] \in cancelled)

-----------------------------------------------------------------------------
(* What the pool promises.                                                 *)

Alive(t) == pc[t] \notin {"none", "dead"}
Running(t) == RunningAction[t] # NoAction

\* Ownership of the action objects: an action sits in one place of the queue
\* or in one thread, and what is queued or running has not been deleted.  So
\* no action is worked on twice, and Cancel and the progress events, which
\* follow RunningAction, never touch a deleted object.
SingleOwner ==
    /\ \A m, n \in DOMAIN Actions : Actions[m] = Actions[n] => m = n
    /\ \A a \in Queued : object[a] = "owned"
    /\ \A t \in Thread : Running(t) =>
           /\ object[RunningAction[t]] = "owned"
           /\ RunningAction[t] \notin Queued
           /\ \A u \in Thread : RunningAction[u] = RunningAction[t] => u = t

\* First In First Out: the ids in the queue increase, and whatever a thread
\* runs was queued before everything still in the queue.  Taking, cancelling
\* and stopping keep that order; ids in the pool are hence unique.
FifoOrder ==
    /\ \A m, n \in DOMAIN Actions :
           m < n => actionId[Actions[m]] < actionId[Actions[n]]
    /\ \A t \in Thread, a \in Queued :
           Running(t) => actionId[RunningAction[t]] < actionId[a]

\* From the moment StopAll asks the first thread to end, every action that a
\* thread of the batch is running has been cancelled: StopAll empties the
\* queue first, so no thread moves on to an action that escaped the cancel.
StopCancelsRunning ==
    stopPhase \in {"delete", "wait"} =>
        \A t \in InBatch : Running(t) => RunningAction[t] \in cancelled

\* Only threads of the current batch are alive: once StopAll has returned no
\* thread is left, and a later Queue does not run beside an earlier batch.
NoStragglers == \A t \in Thread : Alive(t) => t \in InBatch

\* The finish semaphore counts the thread being joined and nothing else, so
\* that each wait of StopAll is for the thread it has just told to end.
SemaphoreCountsJoin ==
    Semaphore = IF stopPhase = "wait" /\ pc[Stopping] = "dead" THEN 1 ELSE 0

\* An action leaves the queue for a thread, for a CancelAction of its own id,
\* or for StopAll; a thread that ends never deletes an action on its way out.
DropsAreAskedFor ==
    [][\A a \in Queued \ Queued' :
          \/ \E t \in Thread : RunningAction'[t] = a
          \/ actionId[a] \in cancelAsked'
          \/ stopPhase = "idle" /\ stopPhase' = "cancel"]_vars

\* After Shutdown has returned the pool posts no event: ~AppClass deletes the
\* event handlers next.
SilentAfterShutdown ==
    [][IsShutdown /\ stopPhase = "idle" => UNCHANGED lastEvent]_vars

\* StopAll returns although running actions may never end by themselves.
StopAllReturns == stopPhase # "idle" ~> stopPhase = "idle"

\* If the actions all finish by themselves, every queued action is eventually
\* run, cancelled or stopped, and deleted.
QueuedIsServed ==
    (\A t \in Thread : WF_vars(EndWork(t)))
        => \A a \in Action : a \in Queued ~> object[a] = "deleted"

(* What the comments of the code say and the code does not do.             *)

\* ActionClass.h:399, CancelAction: "If the action is running it is cancelled".
CancelReachesRunning ==
    \A t \in InBatch :
        Running(t) /\ actionId[RunningAction[t]] \in cancelAsked
            => RunningAction[t] \in cancelled

\* Triumph.cpp:60, SetMaxThreads(1) "to make sure any queued items are done
\* one at a time".
OneAtATime ==
    MaxThreads = 1 =>
        \A t, u \in Thread : pc[t] = "work" /\ pc[u] = "work" => t = u

=============================================================================
