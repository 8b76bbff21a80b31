----------------------- MODULE RunningThreads_proofs ------------------------
(***************************************************************************)
(* Theorems about the thread pool, for any number of actions, threads and  *)
(* batches.                                                                *)
(***************************************************************************)
EXTENDS RunningThreads, TLAPS, FiniteSetTheorems

-----------------------------------------------------------------------------
(* Type correctness.                                                       *)

\* While StopAll is in progress there is a batch to stop.
PhaseOK ==
    /\ ThreadActions # << >> => batch # 0
    /\ stopPhase # "idle" => ThreadActions # << >>

TypeInv == TypeOK /\ PhaseOK

\* The queue that CancelAction leaves behind is a subsequence of the queue.
LEMMA KeepOnlyIsSubsequence ==
    ASSUME Actions \in Seq(Action),
           NEW kept \in SUBSET DOMAIN Actions,
           NEW q \in KeepOnly(kept)
    PROVE  /\ q \in Seq(Action)
           /\ \E p \in [DOMAIN q -> kept] :
                  /\ \A m, n \in DOMAIN q : m < n => p[m] < p[n]
                  /\ \A n \in DOMAIN q : q[n] = Actions[p[n]]
<1>1. IsFiniteSet(kept)
  <2>1. Len(Actions) \in Nat /\ DOMAIN Actions = 1 .. Len(Actions)
    OBVIOUS
  <2>2. IsFiniteSet(DOMAIN Actions)
    BY <2>1, FS_Interval
  <2>3. QED
    BY <2>2, FS_Subset
<1>2. Cardinality(kept) \in Nat
  BY <1>1, FS_CardinalityType
<1>3. PICK p \in [1 .. Cardinality(kept) -> kept] :
          /\ \A m, n \in DOMAIN p : m < n => p[m] < p[n]
          /\ q = [n \in DOMAIN p |-> Actions[p[n]]]
  BY DEF KeepOnly
<1>4. DOMAIN q = 1 .. Cardinality(kept)
  BY <1>3
<1>5. \A n \in DOMAIN q : q[n] = Actions[p[n]] /\ q[n] \in Action
  BY <1>3, <1>4
<1>6. q \in [1 .. Cardinality(kept) -> Action]
  BY <1>3, <1>4, <1>5
<1>7. q \in Seq(Action)
  BY <1>2, <1>6
<1>8. QED
  BY <1>3, <1>4, <1>5, <1>7

\* The thread that StopAll has reached is one of the pool's.
LEMMA StoppingIsThread ==
    ASSUME ConstantsAssumption, TypeInv, stopPhase # "idle"
    PROVE  /\ ThreadActions = [n \in 1 .. MaxThreads |-> <<batch, n>>]
           /\ batch \in 1 .. MaxBatches
           /\ Stopping = <<batch, stopIndex>>
           /\ Stopping \in Thread
BY DEF ConstantsAssumption, TypeInv, TypeOK, PhaseOK, Stopping, Thread

\* A batch that has been started is not the empty vector.
LEMMA BatchNotEmpty ==
    ASSUME ConstantsAssumption, NEW b
    PROVE  [n \in 1 .. MaxThreads |-> <<b, n>>] # << >>
BY DEF ConstantsAssumption

\* Types and thread locations are an inductive invariant by themselves.
LEMMA TypeInvInvariant == Spec => []TypeInv
<1>1. Init => TypeInv
  <2> SUFFICES ASSUME Init PROVE TypeInv
    OBVIOUS
  <2>1. /\ 0 \in 0 .. MaxBatches /\ 0 \in 0 .. MaxThreads /\ 1 \in 1 .. MaxThreads
        /\ << >> \in Seq(Action)
    BY ConstantsAssumption DEF ConstantsAssumption
  <2>2. PhaseOK
    BY DEF Init, PhaseOK
  <2>3. TypeOK
    BY <2>1 DEF Init, TypeOK, Location
  <2>4. QED
    BY <2>2, <2>3 DEF TypeInv
<1>2. TypeInv /\ [Next]_vars => TypeInv'
  <2> SUFFICES ASSUME TypeInv, [Next]_vars
               PROVE  TypeInv'
    OBVIOUS
  <2> USE ConstantsAssumption DEF TypeInv, TypeOK, PhaseOK, Location, poolVars,
          stopVars, threadVars, actionVars
  <2>1. ASSUME NEW a \in Action, Queue(a) PROVE TypeInv'
    <3>1. ThreadActions' # << >>
      BY <2>1, BatchNotEmpty DEF Queue, StartThreads
    <3>2. QED
      BY <2>1, <3>1 DEF Queue, StartThreads, GuiReady, ConstantsAssumption
  <2>2. ASSUME NEW a \in Action, QueueRefused(a) PROVE TypeInv'
    BY <2>2 DEF QueueRefused
  <2>3. ASSUME NEW id \in 0 .. NextActionId - 1, CancelAction(id) PROVE TypeInv'
    <3> DEFINE kept == {n \in DOMAIN Actions : actionId[Actions[n]] # id}
    <3>1. Actions' \in Seq(Action)
      BY <2>3, KeepOnlyIsSubsequence, kept \in SUBSET DOMAIN Actions, ZenonT(30) DEF CancelAction
    <3>2. InBatch \subseteq Thread
      BY DEF InBatch, Thread, ConstantsAssumption
    <3>3. {RunningAction[t] : t \in RunningWithId(id)} \subseteq Action
      BY <3>2 DEF RunningWithId
    <3>4. QED
      BY <2>3, <3>1, <3>3 DEF CancelAction, GuiReady
  <2>4. CASE OnTimer
    BY <2>4 DEF OnTimer
  <2>5. CASE StopAll \/ Shutdown
    <3>1. EnterStopAll /\ IsShutdown' \in BOOLEAN
      BY <2>5 DEF StopAll, Shutdown
    <3>2. << >> \in Seq(Action) /\ 1 \in 1 .. MaxThreads
      BY DEF ConstantsAssumption
    <3>3. CASE ThreadActions = << >>
      BY <3>1, <3>3 DEF EnterStopAll, DeleteQueuedActions
    <3>4. CASE ThreadActions # << >>
      <4>1. /\ Actions' = << >> /\ stopPhase' = "cancel" /\ stopIndex' = 1
            /\ object' \in [Action -> {"new", "owned", "deleted"}]
        BY <3>1, <3>4 DEF EnterStopAll, DeleteQueuedActions
      <4>2. QED
        BY <3>1, <3>2, <3>4, <4>1 DEF EnterStopAll
    <3>5. QED
      BY <3>3, <3>4
  <2>6. CASE Destroy
    BY <2>6 DEF Destroy
  <2>7. CASE CancelRunningAction
    <3>1. RunningAction[Stopping] \in Action \cup {NoAction}
      BY <2>7, StoppingIsThread DEF CancelRunningAction
    <3>2. QED
      BY <2>7, <3>1 DEF CancelRunningAction, ConstantsAssumption
  <2>8. CASE DeleteThread
    BY <2>8 DEF DeleteThread
  <2>9. CASE SemaphoreWait
    BY <2>9 DEF SemaphoreWait, NextToStop, ConstantsAssumption
  <2>10. CASE SemaphoreTimeout
    BY <2>10 DEF SemaphoreTimeout, NextToStop, ConstantsAssumption
  <2>11. ASSUME NEW t \in Thread, Worker(t) PROVE TypeInv'
    <3>1. CASE TestDestroy(t)
      BY <3>1 DEF TestDestroy, At, GoTo
    <3>2. CASE NextAction(t)
      <4>1. CASE Actions = << >>
        BY <3>2, <4>1 DEF NextAction, At, GoTo
      <4>2. CASE Actions # << >>
        <5>1. Head(Actions) \in Action /\ Tail(Actions) \in Seq(Action)
          BY <4>2
        <5>2. QED
          BY <3>2, <4>2, <5>1, ZenonT(30) DEF NextAction, At, GoTo
      <4>3. QED
        BY <4>1, <4>2
    <3>3. CASE BeginWork(t)
      BY <3>3 DEF BeginWork, At, GoTo
    <3>4. CASE SignalEnd(t)
      BY <3>4 DEF SignalEnd, At, GoTo
    <3>5. CASE ReleaseAction(t)
      BY <3>5 DEF ReleaseAction, At, GoTo
    <3>6. CASE CleanupAllActions(t)
      BY <3>6 DEF CleanupAllActions, At, GoTo
    <3>7. CASE FinishThread(t)
      BY <3>7 DEF FinishThread, At, GoTo, ConstantsAssumption
    <3>8. QED
      BY <2>11, <3>1, <3>2, <3>3, <3>4, <3>5, <3>6, <3>7 DEF Worker
  <2>12. ASSUME NEW t \in Thread, EndWork(t) PROVE TypeInv'
    BY <2>12 DEF EndWork, At, GoTo
  <2>13. CASE UNCHANGED vars
    BY <2>13 DEF vars
  <2>14. QED
    BY <2>1, <2>2, <2>3, <2>4, <2>5, <2>6, <2>7, <2>8, <2>9, <2>10, <2>11,
       <2>12, <2>13 DEF Next, Gui, StopStep
<1>3. QED
  BY <1>1, <1>2, PTL DEF Spec

\* Every variable of the pool keeps its type, whatever threads, timer and GUI do.
THEOREM TypeCorrect == Spec => []TypeOK
BY TypeInvInvariant, PTL DEF TypeInv

\* Popping the front shifts the rest of the queue by one.
LEMMA TailShifts ==
    ASSUME NEW s \in Seq(Action), s # << >>
    PROVE  /\ Len(s) \in Nat \ {0} /\ DOMAIN s = 1 .. Len(s) /\ Head(s) = s[1]
           /\ DOMAIN Tail(s) = 1 .. Len(s) - 1
           /\ \A n \in 1 .. Len(s) - 1 : Tail(s)[n] = s[n + 1]
OBVIOUS

-----------------------------------------------------------------------------
(* Ownership and order.  An action with a larger id than every action in   *)
(* the pool enters at the back, and the front leaves to a thread: so ids   *)
(* increase along the queue, no action is in two places, and the deleted   *)
(* ones are in none.                                                       *)

Working == {"fetched", "work", "signal", "release"}

OwnInv ==
    /\ \A t \in Thread : Running(t) <=> pc[t] \in Working
    /\ \A t \in Thread : t[1] > batch => pc[t] = "none"
    /\ \A a \in Action : object[a] = "owned" => actionId[a] < NextActionId
    /\ SingleOwner
    /\ FifoOrder

\* A queued action is one of the actions.
LEMMA QueuedIsAction ==
    ASSUME TypeOK
    PROVE  /\ Queued \subseteq Action
           /\ DOMAIN Actions = 1 .. Len(Actions) /\ Len(Actions) \in Nat
BY DEF TypeOK, Queued

\* A step after which nothing is queued, and which deletes the queued actions.
LEMMA EmptyQueueKeepsOwnInv ==
    ASSUME TypeOK, TypeOK', OwnInv, Actions' = << >>,
           object' = [a \in Action |-> IF a \in Queued THEN "deleted" ELSE object[a]],
           UNCHANGED <<RunningAction, actionId, NextActionId, batch>>,
           \A t \in Thread : /\ pc'[t] \in Working <=> pc[t] \in Working
                             /\ pc[t] = "none" => pc'[t] = "none"
    PROVE  OwnInv'
<1>1. Queued' = {} /\ DOMAIN Actions' = {}
  BY DEF Queued
<1>2. \A a \in Action : object'[a] = "owned" => object[a] = "owned"
  OBVIOUS
<1>3. \A t \in Thread : Running(t) => object'[RunningAction[t]] = "owned"
  BY DEF OwnInv, SingleOwner, Running, TypeOK
<1>4. SingleOwner'
  BY <1>1, <1>3 DEF OwnInv, SingleOwner, Running
<1>5. FifoOrder'
  BY <1>1 DEF FifoOrder
<1>6. QED
  BY <1>2, <1>4, <1>5 DEF OwnInv, Running

\* A step that leaves the queue and the objects alone.
LEMMA SameQueueKeepsOwnInv ==
    ASSUME TypeOK, OwnInv,
           UNCHANGED <<Actions, object, RunningAction, actionId, NextActionId, batch>>,
           \A t \in Thread : /\ pc'[t] \in Working <=> pc[t] \in Working
                             /\ pc[t] = "none" => pc'[t] = "none"
    PROVE  OwnInv'
<1>1. Queued' = Queued
  BY DEF Queued
<1>2. QED
  BY <1>1 DEF OwnInv, SingleOwner, FifoOrder, Running

\* RunningThreadsClass::Queue appends an object that nobody owns yet.
LEMMA QueueKeepsOwnInv ==
    ASSUME ConstantsAssumption, TypeInv, TypeInv', OwnInv, NEW a \in Action, Queue(a)
    PROVE  OwnInv'
<1> USE DEF TypeInv
<1> DEFINE l == Len(Actions)
<1>1. /\ l \in Nat /\ DOMAIN Actions = 1 .. l /\ DOMAIN Actions' = 1 .. l + 1
      /\ Actions'[l + 1] = a /\ \A n \in 1 .. l : Actions'[n] = Actions[n]
  BY DEF TypeOK, Queue
<1>2. Queued' = Queued \cup {a}
  BY <1>1 DEF Queued
<1>3. a \notin Queued /\ \A t \in Thread : RunningAction[t] # a
  BY ConstantsAssumption DEF OwnInv, SingleOwner, Queue, Running, ConstantsAssumption
<1>4. /\ actionId'[a] = NextActionId /\ NextActionId' = NextActionId + 1
      /\ \A b \in Action \ {a} : actionId'[b] = actionId[b] /\ object'[b] = object[b]
      /\ object'[a] = "owned" /\ RunningAction' = RunningAction
  BY DEF Queue, TypeOK
<1>5. \A t \in Thread : pc'[t] \in Working <=> pc[t] \in Working
  <2>1. CASE UNCHANGED pc
    BY <2>1
  <2>2. CASE ThreadActions = << >> /\
             pc' = [t \in Thread |-> IF t[1] = batch + 1 THEN "test" ELSE pc[t]]
    <3>1. \A t \in Thread : t[1] = batch + 1 => pc[t] = "none"
      BY DEF OwnInv, TypeOK
    <3>2. QED
      BY <2>2, <3>1 DEF Working, TypeOK
  <2>3. QED
    BY <2>1, <2>2 DEF Queue, StartThreads
<1>6. \A t \in Thread : t[1] > batch' => pc'[t] = "none"
  <2>1. CASE UNCHANGED <<pc, batch>>
    BY <2>1 DEF OwnInv
  <2>2. CASE /\ batch' = batch + 1
             /\ pc' = [t \in Thread |-> IF t[1] = batch + 1 THEN "test" ELSE pc[t]]
    BY <2>2 DEF OwnInv, Thread, TypeOK, ConstantsAssumption
  <2>3. QED
    BY <2>1, <2>2 DEF Queue, StartThreads
<1>7. SingleOwner'
  <2>1. \A m, n \in DOMAIN Actions' : Actions'[m] = Actions'[n] => m = n
    BY <1>1, <1>3 DEF OwnInv, SingleOwner, Queued
  <2>2. \A b \in Queued' : object'[b] = "owned"
    BY <1>2, <1>4, QueuedIsAction DEF OwnInv, SingleOwner
  <2>3. QED
    BY <1>2, <1>3, <1>4, <2>1, <2>2 DEF OwnInv, SingleOwner, Running, TypeOK
<1>8. FifoOrder'
  <2>1. \A b \in Queued : b # a /\ actionId'[b] = actionId[b] /\ actionId[b] < NextActionId
    BY <1>3, <1>4, QueuedIsAction DEF OwnInv, SingleOwner
  <2>2. \A m, n \in DOMAIN Actions' : m < n => actionId'[Actions'[m]] < actionId'[Actions'[n]]
    BY <1>1, <1>4, <2>1 DEF OwnInv, FifoOrder, Queued
  <2>3. \A t \in Thread : Running(t) =>
           /\ RunningAction[t] \in Action
           /\ actionId'[RunningAction[t]] = actionId[RunningAction[t]]
           /\ actionId[RunningAction[t]] < NextActionId
    BY <1>3, <1>4 DEF OwnInv, SingleOwner, Running, TypeOK
  <2>4. QED
    BY <1>2, <1>4, <2>1, <2>2, <2>3 DEF OwnInv, FifoOrder, Running
<1>9. \A b \in Action : object'[b] = "owned" => actionId'[b] < NextActionId'
  <2>1. \A b \in Action : object[b] = "owned" => actionId[b] < NextActionId
    BY DEF OwnInv
  <2>2. NextActionId \in Nat /\ \A b \in Action : actionId[b] \in Nat
    BY DEF TypeOK
  <2>3. QED
    BY <1>4, <2>1, <2>2
<1>10. QED
  BY <1>4, <1>5, <1>6, <1>7, <1>8, <1>9 DEF OwnInv, Running

\* CancelAction deletes exactly what it takes out of the queue, and leaves the
\* rest in order.
LEMMA CancelActionKeepsOwnInv ==
    ASSUME TypeOK, TypeOK', OwnInv, NEW id \in 0 .. NextActionId - 1, CancelAction(id)
    PROVE  OwnInv'
<1> DEFINE kept == {n \in DOMAIN Actions : actionId[Actions[n]] # id}
<1>1. CASE Actions = << >>
  BY <1>1, SameQueueKeepsOwnInv DEF CancelAction, threadVars
<1>2. CASE Actions # << >>
  <2>1. PICK p \in [DOMAIN Actions' -> kept] :
           /\ \A m, n \in DOMAIN Actions' : m < n => p[m] < p[n]
           /\ \A n \in DOMAIN Actions' : Actions'[n] = Actions[p[n]]
    BY <1>2, KeepOnlyIsSubsequence, kept \in SUBSET DOMAIN Actions, ZenonT(30) DEF CancelAction, TypeOK
  <2>2. \A n \in DOMAIN Actions' :
           p[n] \in DOMAIN Actions /\ actionId[Actions'[n]] # id
    BY <2>1
  <2>3. Queued' \subseteq Queued /\ \A a \in Queued' : actionId[a] # id
    BY <2>1, <2>2 DEF Queued
  <2>4. /\ UNCHANGED <<actionId, NextActionId, RunningAction, pc, batch>>
        /\ object' = [a \in Action |->
               IF a \in Queued /\ actionId[a] = id THEN "deleted" ELSE object[a]]
    BY <1>2 DEF CancelAction, threadVars
  <2>5. \A m, n \in DOMAIN Actions' : m < n => actionId[Actions'[m]] < actionId[Actions'[n]]
    BY <2>1, <2>2 DEF OwnInv, FifoOrder
  <2>6. \A m, n \in DOMAIN Actions' : Actions'[m] = Actions'[n] => m = n
    <3>1. DOMAIN Actions' \subseteq Nat
      <4>1. Actions' \in Seq(Action)
        BY DEF TypeOK
      <4>2. QED
        BY <4>1
    <3>2. \A n \in DOMAIN Actions' : actionId[Actions'[n]] \in Nat
      BY DEF TypeOK
    <3>3. QED
      BY <2>5, <3>1, <3>2
  <2>7. SingleOwner'
    BY <2>3, <2>4, <2>6, QueuedIsAction DEF OwnInv, SingleOwner, Running, TypeOK
  <2>8. FifoOrder'
    BY <2>3, <2>4, <2>5 DEF OwnInv, FifoOrder, Running
  <2>9. QED
    BY <2>4, <2>7, <2>8 DEF OwnInv, Running
<1>3. QED
  BY <1>1, <1>2

\* NextAction moves the front of the queue to one thread, which nothing else
\* owns from then on.
LEMMA NextActionKeepsOwnInv ==
    ASSUME ConstantsAssumption, TypeOK, TypeOK', OwnInv, NEW t \in Thread, NextAction(t)
    PROVE  OwnInv'
<1> USE DEF NextAction, At, GoTo
<1>1. ~Running(t)
  BY DEF OwnInv, Working
<1>2. UNCHANGED <<object, actionId, NextActionId, batch>>
  BY DEF actionVars
<1>3. CASE Actions = << >>
  <2>1. RunningAction' = RunningAction
    BY <1>1, <1>3 DEF Running, TypeOK
  <2>2. QED
    BY <1>2, <1>3, <2>1, SameQueueKeepsOwnInv DEF Working, TypeOK
<1>4. CASE Actions # << >>
  <2> DEFINE a == Head(Actions)
             l == Len(Actions)
  <2>1. /\ l \in Nat \ {0} /\ DOMAIN Actions = 1 .. l /\ a = Actions[1]
        /\ DOMAIN Actions' = 1 .. l - 1
        /\ \A n \in 1 .. l - 1 : Actions'[n] = Actions[n + 1]
    <3>1. Actions \in Seq(Action) /\ Actions' = Tail(Actions)
      BY <1>4 DEF TypeOK
    <3>2. QED
      BY <1>4, <3>1, TailShifts
  <2>2. /\ a \in Queued /\ a \in Action /\ Queued' \subseteq Queued
        /\ RunningAction' = [RunningAction EXCEPT ![t] = a]
        /\ pc' = [pc EXCEPT ![t] = "fetched"]
    BY <1>4, <2>1, QueuedIsAction DEF Queued
  <2>3. \A b \in Queued' : b # a /\ actionId[a] < actionId[b]
    <3>1. /\ \A m, n \in 1 .. l : Actions[m] = Actions[n] => m = n
          /\ \A m, n \in 1 .. l : m < n => actionId[Actions[m]] < actionId[Actions[n]]
      BY <2>1 DEF OwnInv, SingleOwner, FifoOrder
    <3>2. SUFFICES ASSUME NEW n \in 1 .. l - 1
                   PROVE  Actions[n + 1] # a /\ actionId[a] < actionId[Actions[n + 1]]
      BY <2>1 DEF Queued
    <3>3. n + 1 \in 1 .. l /\ 1 \in 1 .. l /\ 1 < n + 1 /\ 1 # n + 1
      BY <2>1
    <3>4. QED
      BY <2>1, <3>1, <3>3
  <2>4. \A m, n \in DOMAIN Actions' :
           /\ Actions'[m] = Actions'[n] => m = n
           /\ m < n => actionId[Actions'[m]] < actionId[Actions'[n]]
    <3>1. /\ \A m, n \in 1 .. l : Actions[m] = Actions[n] => m = n
          /\ \A m, n \in 1 .. l : m < n => actionId[Actions[m]] < actionId[Actions[n]]
      BY <2>1 DEF OwnInv, SingleOwner, FifoOrder
    <3>2. \A m, n \in 1 .. l - 1 :
             /\ Actions[m + 1] = Actions[n + 1] => m = n
             /\ m < n => actionId[Actions[m + 1]] < actionId[Actions[n + 1]]
      <4> TAKE m, n \in 1 .. l - 1
      <4>1. /\ m + 1 \in 1 .. l /\ n + 1 \in 1 .. l
            /\ m + 1 = n + 1 => m = n
            /\ m < n => m + 1 < n + 1
        BY <2>1
      <4>2. QED
        BY <3>1, <4>1
    <3>3. QED
      <4> TAKE m, n \in DOMAIN Actions'
      <4>1. /\ m \in 1 .. l - 1 /\ Actions'[m] = Actions[m + 1]
            /\ n \in 1 .. l - 1 /\ Actions'[n] = Actions[n + 1]
        BY <2>1
      <4>2. QED
        BY <3>2, <4>1
  <2>5. /\ RunningAction'[t] = a /\ a # NoAction
        /\ \A u \in Thread \ {t} : RunningAction'[u] = RunningAction[u] /\ RunningAction[u] # a
    BY <2>2, ConstantsAssumption DEF ConstantsAssumption, TypeOK, OwnInv, SingleOwner, Running
  <2>6. SingleOwner'
    <3>1. \A b \in Queued' : object'[b] = "owned"
      BY <1>2, <2>2 DEF OwnInv, SingleOwner
    <3>2. \A u \in Thread : Running(u)' =>
             /\ object'[RunningAction'[u]] = "owned"
             /\ RunningAction'[u] \notin Queued'
             /\ \A v \in Thread : RunningAction'[v] = RunningAction'[u] => v = u
      BY <1>2, <2>2, <2>3, <2>5 DEF OwnInv, SingleOwner, Running
    <3>3. QED
      BY <2>4, <3>1, <3>2 DEF SingleOwner
  <2>7. FifoOrder'
    BY <1>2, <2>2, <2>3, <2>4, <2>5 DEF OwnInv, FifoOrder, Running
  <2>8. \A u \in Thread : Running(u)' <=> pc'[u] \in Working
    BY <2>2, <2>5 DEF OwnInv, Running, Working, TypeOK
  <2>9. QED
    BY <1>2, <2>2, <2>6, <2>7, <2>8 DEF OwnInv, TypeOK
<1>5. QED
  BY <1>3, <1>4

\* A thread that is done with its action deletes it and forgets it.
LEMMA ReleaseActionKeepsOwnInv ==
    ASSUME ConstantsAssumption, TypeOK, TypeOK', OwnInv, NEW t \in Thread, ReleaseAction(t)
    PROVE  OwnInv'
<1> DEFINE a == RunningAction[t]
<1>1. /\ UNCHANGED <<Actions, actionId, NextActionId, batch>> /\ Queued' = Queued
      /\ pc' = [pc EXCEPT ![t] = "test"] /\ pc[t] = "release"
      /\ RunningAction' = [RunningAction EXCEPT ![t] = NoAction]
      /\ object' = [object EXCEPT ![a] = "deleted"]
  BY DEF ReleaseAction, At, GoTo, poolVars, Queued
<1>2. Running(t) /\ a \in Action /\ a \notin Queued
  BY <1>1 DEF OwnInv, Working, Running, SingleOwner, TypeOK
<1>3. \A u \in Thread \ {t} : RunningAction'[u] = RunningAction[u] /\ RunningAction[u] # a
  BY <1>1, <1>2 DEF OwnInv, SingleOwner, TypeOK
<1>4. ~Running(t)' /\ \A b \in Action \ {a} : object'[b] = object[b]
  BY <1>1 DEF Running, TypeOK
<1>5. SingleOwner'
  <2>1. \A b \in Queued' : object'[b] = "owned"
    BY <1>1, <1>2, <1>4, QueuedIsAction DEF OwnInv, SingleOwner
  <2>2. \A u \in Thread : Running(u)' => u # t /\ Running(u) /\ RunningAction[u] \in Action
    BY <1>3, <1>4 DEF Running, TypeOK
  <2>3. QED
    BY <1>1, <1>3, <1>4, <2>1, <2>2 DEF OwnInv, SingleOwner, Running
<1>6. FifoOrder'
  BY <1>1, <1>3, <1>4 DEF OwnInv, FifoOrder, Running
<1>7. \A u \in Thread : Running(u)' <=> pc'[u] \in Working
  BY <1>1, <1>3, <1>4 DEF OwnInv, Running, Working, TypeOK
<1>8. \A u \in Thread : u[1] > batch' => pc'[u] = "none"
  BY <1>1 DEF OwnInv, TypeOK
<1>9. \A b \in Action : object'[b] = "owned" => actionId'[b] < NextActionId'
  BY <1>1, <1>4 DEF OwnInv, TypeOK
<1>10. QED
  BY <1>5, <1>6, <1>7, <1>8, <1>9 DEF OwnInv

\* Every step of the pool keeps the ownership of the actions.
LEMMA OwnInvStep == TypeInv /\ TypeInv' /\ OwnInv /\ [Next]_vars => OwnInv'
<1> SUFFICES ASSUME TypeInv, TypeInv', OwnInv, [Next]_vars
             PROVE  OwnInv'
  OBVIOUS
<1> USE ConstantsAssumption DEF TypeInv
<1>1. ASSUME NEW a \in Action, Queue(a) PROVE OwnInv'
  BY <1>1, QueueKeepsOwnInv
<1>2. ASSUME NEW a \in Action, QueueRefused(a) PROVE OwnInv'
  <2>1. \A b \in Action : object'[b] = IF b = a THEN "deleted" ELSE object[b]
    BY <1>2 DEF QueueRefused, TypeOK
  <2>2. /\ UNCHANGED <<Actions, RunningAction, actionId, NextActionId, batch, pc>>
        /\ Queued' = Queued /\ object[a] = "new"
    BY <1>2 DEF QueueRefused, poolVars, threadVars, Queued
  <2>3. SingleOwner'
    BY <2>1, <2>2, QueuedIsAction DEF OwnInv, SingleOwner, Running, TypeOK
  <2>4. FifoOrder'
    BY <2>2 DEF OwnInv, FifoOrder, Running
  <2>5. QED
    BY <2>1, <2>2, <2>3, <2>4 DEF OwnInv, Running
<1>3. ASSUME NEW id \in 0 .. NextActionId - 1, CancelAction(id) PROVE OwnInv'
  BY <1>3, CancelActionKeepsOwnInv
<1>4. CASE OnTimer
  BY <1>4, SameQueueKeepsOwnInv DEF OnTimer, poolVars, threadVars
<1>5. CASE StopAll \/ Shutdown
  <2>1. EnterStopAll
    BY <1>5 DEF StopAll, Shutdown
  <2>2. CASE ThreadActions = << >>
    BY <2>1, <2>2, SameQueueKeepsOwnInv DEF EnterStopAll, DeleteQueuedActions, threadVars
  <2>3. CASE ThreadActions # << >>
    BY <2>1, <2>3, EmptyQueueKeepsOwnInv DEF EnterStopAll, DeleteQueuedActions, threadVars
  <2>4. QED
    BY <2>2, <2>3
<1>6. CASE Destroy
  BY <1>6, SameQueueKeepsOwnInv DEF Destroy, threadVars, actionVars
<1>7. CASE StopStep
  BY <1>7, SameQueueKeepsOwnInv DEF StopStep, CancelRunningAction, DeleteThread,
     SemaphoreWait, SemaphoreTimeout, NextToStop, poolVars, threadVars, actionVars
<1>8. ASSUME NEW t \in Thread, Worker(t) \/ EndWork(t) PROVE OwnInv'
  <2>1. CASE TestDestroy(t) \/ BeginWork(t) \/ SignalEnd(t) \/ FinishThread(t) \/ EndWork(t)
    <3>1. UNCHANGED <<Actions, object, RunningAction, actionId, NextActionId, batch>>
      BY <2>1 DEF TestDestroy, BeginWork, SignalEnd, FinishThread, EndWork, poolVars,
         actionVars
    <3>2. \A u \in Thread : /\ pc'[u] \in Working <=> pc[u] \in Working
                            /\ pc[u] = "none" => pc'[u] = "none"
      BY <2>1 DEF TestDestroy, BeginWork, SignalEnd, FinishThread, EndWork, At, GoTo,
         Working, TypeOK
    <3>3. QED
      BY <3>1, <3>2, SameQueueKeepsOwnInv
  <2>2. CASE NextAction(t)
    BY <2>2, NextActionKeepsOwnInv
  <2>3. CASE ReleaseAction(t)
    BY <2>3, ReleaseActionKeepsOwnInv
  <2>4. CASE CleanupAllActions(t)
    <3>1. \A u \in Thread : /\ pc'[u] \in Working <=> pc[u] \in Working
                            /\ pc[u] = "none" => pc'[u] = "none"
      BY <2>4 DEF CleanupAllActions, At, GoTo, Working, TypeOK
    <3>2. QED
      BY <2>4, <3>1, EmptyQueueKeepsOwnInv DEF CleanupAllActions
  <2>5. QED
    BY <1>8, <2>1, <2>2, <2>3, <2>4 DEF Worker
<1>9. CASE UNCHANGED vars
  BY <1>9, SameQueueKeepsOwnInv DEF vars, poolVars, threadVars, actionVars
<1>10. QED
  BY <1>1, <1>2, <1>3, <1>4, <1>5, <1>6, <1>7, <1>8, <1>9 DEF Next, Gui

\* The ownership of the actions holds in every reachable state.
LEMMA OwnInvInvariant == Spec => []OwnInv
<1>1. Init => OwnInv
  BY ConstantsAssumption DEF Init, OwnInv, SingleOwner, FifoOrder, Running, Working,
     Queued, Thread, ConstantsAssumption
<1>2. QED
  BY <1>1, OwnInvStep, TypeInvInvariant, PTL DEF Spec

\* Whatever is cancelled, stopped or left behind by a thread that outlives
\* StopAll, an action is in one place and its object is alive while it is.
THEOREM ActionsHaveOneOwner == Spec => []SingleOwner
BY OwnInvInvariant, PTL DEF OwnInv

\* Actions are taken in the order in which they were queued.
THEOREM ActionsAreFifo == Spec => []FifoOrder
BY OwnInvInvariant, PTL DEF OwnInv

-----------------------------------------------------------------------------
(* StopAll cancels what runs.  It empties the queue before it cancels, and *)
(* the GUI thread queues nothing until StopAll returns: so a thread whose  *)
(* action has been cancelled cannot take another one.                      *)

StopInv ==
    /\ stopPhase # "idle" => Actions = << >>
    /\ stopPhase = "cancel" =>
           \A n \in 1 .. stopIndex - 1 :
               Running(<<batch, n>>) => RunningAction[<<batch, n>>] \in cancelled
    /\ StopCancelsRunning

\* The threads of a batch are numbered in the order of ThreadActions.
LEMMA BatchThreads ==
    ASSUME ConstantsAssumption, TypeInv, ThreadActions # << >>
    PROVE  /\ \A n \in 1 .. MaxThreads : <<batch, n>> \in Thread
           /\ InBatch = {<<batch, n>> : n \in 1 .. MaxThreads}
<1>1. /\ ThreadActions = [n \in 1 .. MaxThreads |-> <<batch, n>>]
      /\ batch \in 1 .. MaxBatches
  BY DEF ConstantsAssumption, TypeInv, TypeOK, PhaseOK
<1>2. DOMAIN ThreadActions = 1 .. MaxThreads
      /\ \A n \in 1 .. MaxThreads : ThreadActions[n] = <<batch, n>>
  BY <1>1
<1>3. QED
  BY <1>1, <1>2 DEF Thread, InBatch

\* No step lets an action escape the cancel of StopAll.
LEMMA StopInvStep == TypeInv /\ StopInv /\ [Next]_vars => StopInv'
<1> SUFFICES ASSUME TypeInv, StopInv, [Next]_vars
             PROVE  StopInv'
  OBVIOUS
<1> USE ConstantsAssumption
<1>1. CASE Gui
  <2>1. CASE (StopAll \/ Shutdown) /\ ThreadActions # << >>
    <3>1. Actions' = << >> /\ stopPhase' = "cancel" /\ stopIndex' = 1
      BY <2>1 DEF StopAll, Shutdown, EnterStopAll, DeleteQueuedActions
    <3>2. QED
      BY <3>1 DEF StopInv, StopCancelsRunning
  <2>2. CASE ~((StopAll \/ Shutdown) /\ ThreadActions # << >>)
    <3>1. stopPhase' = "idle"
      BY <1>1, <2>2 DEF Gui, GuiReady, Queue, QueueRefused, CancelAction, OnTimer,
         StopAll, Shutdown, Destroy, EnterStopAll, DeleteQueuedActions, stopVars
    <3>2. QED
      BY <3>1 DEF StopInv, StopCancelsRunning
  <2>3. QED
    BY <2>1, <2>2
<1>2. CASE CancelRunningAction
  <2>1. /\ UNCHANGED <<Actions, ThreadActions, batch, RunningAction>>
        /\ InBatch' = InBatch /\ stopPhase = "cancel"
        /\ stopIndex \in 1 .. MaxThreads
        /\ cancelled' = cancelled \cup ({RunningAction[Stopping]} \ {NoAction})
    BY <1>2 DEF CancelRunningAction, poolVars, threadVars, InBatch, TypeInv, TypeOK
  <2>2. Stopping = <<batch, stopIndex>> /\ Stopping \in Thread /\ ThreadActions # << >>
    BY <2>1, StoppingIsThread DEF TypeInv, PhaseOK
  <2>3. \A n \in 1 .. stopIndex :
           Running(<<batch, n>>) => RunningAction[<<batch, n>>] \in cancelled'
    BY <2>1, <2>2 DEF StopInv, Running
  <2>4. CASE stopIndex < MaxThreads
    <3>1. stopIndex' = stopIndex + 1 /\ stopPhase' = "cancel"
      BY <1>2, <2>4 DEF CancelRunningAction
    <3>2. QED
      BY <2>1, <2>3, <3>1 DEF StopInv, StopCancelsRunning, Running
  <2>5. CASE ~(stopIndex < MaxThreads)
    <3>1. stopIndex = MaxThreads /\ stopPhase' = "delete"
      BY <1>2, <2>1, <2>5 DEF CancelRunningAction, ConstantsAssumption
    <3>2. \A t \in InBatch : Running(t) => RunningAction[t] \in cancelled'
      BY <2>2, <2>3, <3>1, BatchThreads
    <3>3. QED
      BY <2>1, <3>1, <3>2 DEF StopInv, StopCancelsRunning, Running
  <2>6. QED
    BY <2>4, <2>5
<1>3. CASE DeleteThread
  BY <1>3 DEF DeleteThread, poolVars, actionVars, StopInv, StopCancelsRunning, InBatch,
     Running
<1>4. CASE SemaphoreWait \/ SemaphoreTimeout
  BY <1>4 DEF SemaphoreWait, SemaphoreTimeout, NextToStop, threadVars, actionVars,
     StopInv, StopCancelsRunning, InBatch, Running
<1>5. ASSUME NEW t \in Thread, Worker(t) \/ EndWork(t) PROVE StopInv'
  <2>1. /\ UNCHANGED <<stopPhase, stopIndex, ThreadActions, batch, cancelled>>
        /\ InBatch' = InBatch
    BY <1>5 DEF Worker, TestDestroy, NextAction, BeginWork, SignalEnd, ReleaseAction,
       CleanupAllActions, FinishThread, EndWork, poolVars, stopVars, actionVars, InBatch
  <2>2. Actions = << >> =>
           /\ Actions' = << >>
           /\ \A u \in Thread : RunningAction'[u] \in {RunningAction[u], NoAction}
    BY <1>5 DEF Worker, TestDestroy, NextAction, BeginWork, SignalEnd, ReleaseAction,
       CleanupAllActions, FinishThread, EndWork, poolVars, TypeInv, TypeOK
  <2>3. CASE stopPhase = "idle"
    BY <2>1, <2>3 DEF StopInv, StopCancelsRunning
  <2>4. CASE stopPhase # "idle"
    <3>1. Actions = << >> /\ ThreadActions # << >>
      BY <2>4 DEF StopInv, TypeInv, PhaseOK
    <3>2. stopIndex \in 1 .. MaxThreads
      BY DEF TypeInv, TypeOK
    <3>3. \A n \in 1 .. MaxThreads : <<batch, n>> \in Thread
      BY <3>1, BatchThreads
    <3>4. InBatch \subseteq Thread
      BY <3>1, BatchThreads
    <3>5. \A u \in Thread : Running(u)' => Running(u) /\ RunningAction'[u] = RunningAction[u]
      BY <2>2, <3>1 DEF Running
    <3>6. stopPhase = "cancel" => \A n \in 1 .. stopIndex - 1 :
             Running(<<batch, n>>)' => RunningAction'[<<batch, n>>] \in cancelled'
      <4>1. \A n \in 1 .. stopIndex - 1 : n \in 1 .. MaxThreads
        BY <3>2, ConstantsAssumption DEF ConstantsAssumption
      <4>2. QED
        BY <2>1, <3>3, <3>5, <4>1 DEF StopInv
    <3>7. StopCancelsRunning'
      BY <2>1, <3>4, <3>5 DEF StopInv, StopCancelsRunning
    <3>8. QED
      BY <2>1, <2>2, <3>1, <3>6, <3>7 DEF StopInv, Running
  <2>5. QED
    BY <2>3, <2>4
<1>6. CASE UNCHANGED vars
  BY <1>6 DEF vars, poolVars, stopVars, threadVars, actionVars, StopInv,
     StopCancelsRunning, InBatch, Running
<1>7. QED
  BY <1>1, <1>2, <1>3, <1>4, <1>5, <1>6 DEF Next, StopStep

\* The cancel of StopAll reaches every action, in every reachable state.
LEMMA StopInvInvariant == Spec => []StopInv
<1>1. Init => StopInv
  BY DEF Init, StopInv, StopCancelsRunning
<1>2. QED
  BY <1>1, StopInvStep, TypeInvInvariant, PTL DEF Spec

\* No action escapes the cancel of StopAll, even while the threads of an
\* earlier batch are still there.
THEOREM StopAllCancelsRunning == Spec => []StopCancelsRunning
BY StopInvInvariant, PTL DEF StopInv

-----------------------------------------------------------------------------
(* Joining.  If no wait gives up, StopAll ends the threads of the batch    *)
(* one by one: those before stopIndex are dead and have been waited for,   *)
(* those after it have not been told to end, and only the one at stopIndex *)
(* can have posted to the semaphore.                                       *)

Ending == {"cleanup", "finish", "dead"}

\* What StopAll has done to the n-th thread of the batch.
JoinedUpTo(n) ==
    LET t == ThreadActions[n]
    IN  CASE stopPhase \in {"idle", "cancel"} -> ~destroyFlag[t]
          [] stopPhase = "delete" ->
                 IF n < stopIndex THEN pc[t] = "dead" ELSE ~destroyFlag[t]
          [] OTHER ->
                 IF n < stopIndex THEN pc[t] = "dead"
                 ELSE destroyFlag[t] <=> n = stopIndex

JoinInv ==
    /\ NoStragglers
    /\ SemaphoreCountsJoin
    /\ \A t \in Thread : /\ pc[t] \in Ending => destroyFlag[t]
                         /\ t[1] > batch => pc[t] = "none" /\ ~destroyFlag[t]
    /\ \A t \in InBatch : pc[t] # "none"
    /\ \A n \in DOMAIN ThreadActions : JoinedUpTo(n)

\* Between two steps of StopAll only a thread moves.  One that has been told
\* to end is the one being joined, or is joined already.
LEMMA WorkerKeepsJoinInv ==
    ASSUME ConstantsAssumption, TypeInv, TypeInv', StopInv, JoinInv,
           NEW t \in Thread, Worker(t) \/ EndWork(t)
    PROVE  JoinInv'
<1>1. /\ UNCHANGED <<stopPhase, stopIndex, ThreadActions, batch, destroyFlag>>
      /\ InBatch' = InBatch /\ Stopping' = Stopping
      /\ pc[t] \notin {"none", "dead"}
      /\ pc' = [pc EXCEPT ![t] = pc'[t]] /\ pc'[t] # "none"
      /\ pc'[t] \in Ending => destroyFlag[t]
  <2>1. CASE TestDestroy(t)
    BY <2>1 DEF TestDestroy, At, GoTo, poolVars, stopVars, InBatch, Stopping, Ending, TypeInv, TypeOK
  <2>2. CASE NextAction(t)
    BY <2>2 DEF NextAction, At, GoTo, stopVars, InBatch, Stopping, Ending, TypeInv, TypeOK
  <2>3. CASE BeginWork(t) \/ SignalEnd(t) \/ ReleaseAction(t) \/ EndWork(t)
    BY <2>3 DEF BeginWork, SignalEnd, ReleaseAction, EndWork, At, GoTo, poolVars, stopVars,
       InBatch, Stopping, Ending, TypeInv, TypeOK
  <2>4. CASE CleanupAllActions(t) \/ FinishThread(t)
    <3>1. /\ UNCHANGED <<stopPhase, stopIndex, ThreadActions, batch, destroyFlag>>
          /\ pc[t] \in {"cleanup", "finish"} /\ pc \in [Thread -> Location]
          /\ \E l \in {"finish", "dead"} : pc' = [pc EXCEPT ![t] = l]
      BY <2>4 DEF CleanupAllActions, FinishThread, At, GoTo, stopVars, TypeInv, TypeOK
    <3>2. destroyFlag[t]
      BY <3>1 DEF JoinInv, Ending
    <3>3. QED
      BY <3>1, <3>2 DEF InBatch, Stopping
  <2>5. QED
    BY <2>1, <2>2, <2>3, <2>4 DEF Worker
<1>2. /\ t \in InBatch
      /\ \A u \in Thread : u # t => pc'[u] = pc[u]
  BY <1>1 DEF JoinInv, NoStragglers, Alive, TypeInv, TypeOK
<1>3. NoStragglers'
  BY <1>1, <1>2 DEF JoinInv, NoStragglers, Alive
<1>4. \A n \in DOMAIN ThreadActions' : JoinedUpTo(n)'
  <2>1. \A n \in DOMAIN ThreadActions : ThreadActions[n] \in Thread
    BY <1>2, BatchThreads DEF InBatch
  <2> SUFFICES ASSUME NEW n \in DOMAIN ThreadActions PROVE JoinedUpTo(n)'
    BY <1>1
  <2>2. JoinedUpTo(n) /\ ThreadActions[n] \in Thread
    BY <2>1 DEF JoinInv
  <2>3. pc[ThreadActions[n]] = "dead" => pc'[ThreadActions[n]] = "dead"
    BY <1>1, <1>2, <2>2
  <2>4. QED
    BY <1>1, <2>2, <2>3 DEF JoinedUpTo
<1>5. SemaphoreCountsJoin'
  <2>1. CASE FinishThread(t)
    <3>1. /\ pc[t] = "finish" /\ pc'[t] = "dead"
          /\ Semaphore' = IF Semaphore < MaxThreads THEN Semaphore + 1 ELSE Semaphore
      BY <2>1 DEF FinishThread, At, GoTo, TypeInv, TypeOK
    <3>2. destroyFlag[t] /\ ThreadActions # << >>
      BY <1>2, <3>1 DEF JoinInv, Ending, InBatch
    <3>3. PICK n \in DOMAIN ThreadActions : t = ThreadActions[n]
      BY <1>2 DEF InBatch
    <3>4. stopPhase = "wait" /\ n = stopIndex
      BY <1>1, <3>1, <3>2, <3>3 DEF JoinInv, JoinedUpTo, TypeInv, TypeOK
    <3>5. Semaphore = 0
      BY <3>1, <3>3, <3>4 DEF JoinInv, SemaphoreCountsJoin, Stopping
    <3>6. QED
      BY <1>1, <3>1, <3>3, <3>4, <3>5 DEF SemaphoreCountsJoin, Stopping, ConstantsAssumption
  <2>2. CASE ~FinishThread(t)
    <3>1. UNCHANGED Semaphore /\ pc'[t] # "dead"
      BY <2>2 DEF Worker, TestDestroy, NextAction, BeginWork, SignalEnd, ReleaseAction,
         CleanupAllActions, EndWork, At, GoTo, poolVars, TypeInv, TypeOK
    <3>2. stopPhase = "wait" => Stopping \in Thread
      BY StoppingIsThread
    <3>3. QED
      BY <1>1, <1>2, <3>1, <3>2 DEF JoinInv, SemaphoreCountsJoin
  <2>3. QED
    BY <2>1, <2>2
<1>6. \A u \in Thread : /\ pc'[u] \in Ending => destroyFlag'[u]
                        /\ u[1] > batch' => pc'[u] = "none" /\ ~destroyFlag'[u]
  BY <1>1, <1>2 DEF JoinInv
<1>7. \A u \in InBatch' : pc'[u] # "none"
  BY <1>1, <1>2, BatchThreads DEF JoinInv, InBatch
<1>8. QED
  BY <1>3, <1>4, <1>5, <1>6, <1>7 DEF JoinInv

\* Queue starts a batch only when no thread of an earlier one is left.
LEMMA QueueKeepsJoinInv ==
    ASSUME ConstantsAssumption, TypeInv, TypeInv', JoinInv, NEW a \in Action, Queue(a)
    PROVE  JoinInv'
<1>1. /\ UNCHANGED <<Semaphore, stopPhase, stopIndex, destroyFlag>>
      /\ stopPhase = "idle" /\ Semaphore = 0
  BY DEF Queue, GuiReady, stopVars, JoinInv, SemaphoreCountsJoin
<1>2. CASE ThreadActions # << >>
  BY <1>1, <1>2 DEF Queue, StartThreads, JoinInv, NoStragglers, Alive, InBatch,
     SemaphoreCountsJoin, JoinedUpTo
<1>3. CASE ThreadActions = << >>
  <2>1. /\ batch \in Nat /\ batch' = batch + 1
        /\ ThreadActions' = [n \in 1 .. MaxThreads |-> <<batch + 1, n>>]
        /\ pc' = [t \in Thread |-> IF t[1] = batch + 1 THEN "test" ELSE pc[t]]
    BY <1>3 DEF Queue, StartThreads, TypeInv, TypeOK
  <2>2. \A t \in Thread : ~Alive(t)
    BY <1>3 DEF JoinInv, NoStragglers, InBatch
  <2>3. /\ \A n \in 1 .. MaxThreads : <<batch + 1, n>> \in Thread
        /\ InBatch' = {<<batch + 1, n>> : n \in 1 .. MaxThreads}
    BY <1>3, <2>1, BatchThreads, BatchNotEmpty, SMTT(30) DEF TypeInv, TypeOK, Thread, InBatch
  <2>4. \A t \in Thread : t[1] = batch + 1 => t \in InBatch'
    BY <2>3 DEF Thread
  <2>5. NoStragglers'
    BY <2>1, <2>2, <2>4 DEF NoStragglers, Alive
  <2>6. \A t \in InBatch' : pc'[t] = "test" /\ ~destroyFlag[t]
    BY <2>1, <2>3 DEF JoinInv
  <2>7. \A n \in DOMAIN ThreadActions' : JoinedUpTo(n)'
    BY <1>1, <2>6 DEF JoinedUpTo, InBatch
  <2>8. \A t \in Thread : /\ pc'[t] \in Ending => destroyFlag'[t]
                          /\ t[1] > batch' => pc'[t] = "none" /\ ~destroyFlag'[t]
    BY <1>1, <2>1 DEF JoinInv, Ending, Thread
  <2>9. QED
    BY <1>1, <2>5, <2>6, <2>7, <2>8 DEF JoinInv, SemaphoreCountsJoin
<1>4. QED
  BY <1>2, <1>3

\* StopAll joins the threads of the batch one by one and drops them at the end.
LEMMA StopStepKeepsJoinInv ==
    ASSUME ConstantsAssumption, ~StopMayTimeOut, TypeInv, TypeInv', JoinInv, StopStep
    PROVE  JoinInv'
<1>1. stopPhase # "idle" /\ ~SemaphoreTimeout
  BY DEF StopStep, CancelRunningAction, DeleteThread, SemaphoreWait, SemaphoreTimeout
<1>2. /\ ThreadActions = [n \in 1 .. MaxThreads |-> <<batch, n>>]
      /\ Stopping = <<batch, stopIndex>> /\ Stopping \in Thread
      /\ stopIndex \in 1 .. MaxThreads /\ Stopping \in InBatch
      /\ DOMAIN ThreadActions = 1 .. MaxThreads
      /\ \A n \in 1 .. MaxThreads : ThreadActions[n] \in Thread
  <2>1. /\ ThreadActions = [n \in 1 .. MaxThreads |-> <<batch, n>>]
        /\ Stopping = <<batch, stopIndex>> /\ Stopping \in Thread
        /\ stopIndex \in 1 .. MaxThreads
    BY <1>1, StoppingIsThread DEF TypeInv, TypeOK
  <2>2. ThreadActions # << >>
    BY <1>1 DEF TypeInv, PhaseOK
  <2>3. QED
    BY <2>1, <2>2, BatchThreads
<1>3. CASE CancelRunningAction
  BY <1>2, <1>3 DEF CancelRunningAction, poolVars, threadVars, JoinInv, NoStragglers, Alive,
     SemaphoreCountsJoin, InBatch, JoinedUpTo, Stopping
<1>4. CASE DeleteThread
  <2>1. /\ UNCHANGED <<poolVars, stopIndex, pc>> /\ InBatch' = InBatch
        /\ stopPhase = "delete" /\ stopPhase' = "wait" /\ Stopping' = Stopping
        /\ destroyFlag' = [destroyFlag EXCEPT ![Stopping] = TRUE]
    BY <1>4 DEF DeleteThread, poolVars, InBatch, Stopping
  <2>2. ~destroyFlag[Stopping] /\ pc[Stopping] # "dead" /\ Semaphore = 0
    BY <1>2, <2>1, SMTT(30) DEF JoinInv, JoinedUpTo, Stopping, Ending, SemaphoreCountsJoin
  <2>3. SemaphoreCountsJoin'
    BY <2>1, <2>2 DEF SemaphoreCountsJoin, poolVars
  <2>4. \A n \in DOMAIN ThreadActions' : JoinedUpTo(n)'
    <3> SUFFICES ASSUME NEW n \in 1 .. MaxThreads PROVE JoinedUpTo(n)'
      BY <1>2, <2>1 DEF poolVars
    <3>1. n # stopIndex => ThreadActions[n] # Stopping
      BY <1>2
    <3>2. /\ n < stopIndex => pc[ThreadActions[n]] = "dead"
          /\ ~(n < stopIndex) => ~destroyFlag[ThreadActions[n]]
      BY <1>2, <2>1 DEF JoinInv, JoinedUpTo
    <3>3. destroyFlag'[ThreadActions[n]] <=> n = stopIndex \/ destroyFlag[ThreadActions[n]]
      BY <1>2, <2>1, <3>1 DEF Stopping, TypeInv, TypeOK
    <3>4. QED
      BY <2>1, <3>2, <3>3 DEF JoinedUpTo, poolVars
  <2>5. \A t \in Thread : /\ pc'[t] \in Ending => destroyFlag'[t]
                          /\ t[1] > batch' => pc'[t] = "none" /\ ~destroyFlag'[t]
    BY <1>2, <2>1 DEF JoinInv, poolVars, TypeInv, TypeOK
  <2>6. QED
    BY <2>1, <2>3, <2>4, <2>5 DEF JoinInv, NoStragglers, Alive, poolVars
<1>5. CASE SemaphoreWait
  <2>1. /\ stopPhase = "wait" /\ Semaphore > 0 /\ Semaphore' = Semaphore - 1
        /\ NextToStop /\ UNCHANGED <<batch, pc, destroyFlag>>
    BY <1>5 DEF SemaphoreWait, threadVars
  <2>2. pc[Stopping] = "dead" /\ Semaphore' = 0 /\ SemaphoreCountsJoin'
    BY <2>1 DEF JoinInv, SemaphoreCountsJoin, NextToStop
  <2>3. \A n \in 1 .. MaxThreads :
           /\ n <= stopIndex => pc[ThreadActions[n]] = "dead"
           /\ n > stopIndex => ~destroyFlag[ThreadActions[n]]
    BY <1>2, <2>1, <2>2 DEF JoinInv, JoinedUpTo, Stopping
  <2>4. CASE stopIndex < MaxThreads
    <3>1. /\ stopIndex' = stopIndex + 1 /\ stopPhase' = "delete" /\ UNCHANGED ThreadActions
          /\ InBatch' = InBatch
      BY <2>1, <2>4 DEF NextToStop, InBatch
    <3>2. \A n \in DOMAIN ThreadActions' : JoinedUpTo(n)'
      BY <1>2, <2>1, <2>3, <3>1 DEF JoinedUpTo
    <3>3. QED
      BY <2>1, <2>2, <3>1, <3>2 DEF JoinInv, NoStragglers, Alive
  <2>5. CASE ~(stopIndex < MaxThreads)
    <3>1. ThreadActions' = << >> /\ InBatch' = {} /\ DOMAIN ThreadActions' = {}
      BY <2>1, <2>5 DEF NextToStop, InBatch
    <3>2. \A t \in InBatch : pc[t] = "dead"
      BY <1>2, <2>3, <2>5 DEF InBatch, ConstantsAssumption
    <3>3. NoStragglers'
      BY <2>1, <3>2 DEF JoinInv, NoStragglers, Alive
    <3>4. QED
      BY <2>1, <2>2, <3>1, <3>3 DEF JoinInv
  <2>6. QED
    BY <2>4, <2>5
<1>6. QED
  BY <1>1, <1>3, <1>4, <1>5 DEF StopStep

\* Every step of the pool keeps the account of which threads are still there,
\* as long as StopAll does not time out.
LEMMA JoinInvStep ==
    ~StopMayTimeOut /\ TypeInv /\ TypeInv' /\ StopInv /\ JoinInv /\ [Next]_vars => JoinInv'
<1> SUFFICES ASSUME ~StopMayTimeOut, TypeInv, TypeInv', StopInv, JoinInv, [Next]_vars
             PROVE  JoinInv'
  OBVIOUS
<1> USE ConstantsAssumption
<1>1. CASE Gui
  <2>1. ASSUME NEW a \in Action, Queue(a) PROVE JoinInv'
    BY <2>1, QueueKeepsJoinInv
  <2>2. CASE \A a \in Action : ~Queue(a)
    <3>1. /\ UNCHANGED <<ThreadActions, batch, Semaphore, pc, destroyFlag>>
          /\ InBatch' = InBatch /\ stopPhase = "idle" /\ stopPhase' \in {"idle", "cancel"}
      BY <1>1, <2>2 DEF Gui, GuiReady, QueueRefused, CancelAction, OnTimer, StopAll,
         Shutdown, Destroy, EnterStopAll, DeleteQueuedActions, poolVars, stopVars,
         threadVars, InBatch
    <3>2. QED
      BY <3>1 DEF JoinInv, NoStragglers, Alive, SemaphoreCountsJoin, JoinedUpTo
  <2>3. QED
    BY <2>1, <2>2
<1>2. CASE StopStep
  BY <1>2, StopStepKeepsJoinInv
<1>3. ASSUME NEW t \in Thread, Worker(t) \/ EndWork(t) PROVE JoinInv'
  BY <1>3, WorkerKeepsJoinInv
<1>4. CASE UNCHANGED vars
  BY <1>4 DEF vars, poolVars, stopVars, threadVars, JoinInv, NoStragglers, Alive, InBatch,
     SemaphoreCountsJoin, JoinedUpTo, Stopping
<1>5. QED
  BY <1>1, <1>2, <1>3, <1>4 DEF Next

\* Without a timeout the account of the threads holds in every reachable state.
LEMMA JoinInvInvariant ==
    ASSUME ~StopMayTimeOut
    PROVE  Spec => []JoinInv
<1>1. Init => JoinInv
  BY DEF Init, JoinInv, NoStragglers, Alive, SemaphoreCountsJoin, InBatch, Ending
<1>2. TypeInv /\ TypeInv' /\ StopInv /\ JoinInv /\ [Next]_vars => JoinInv'
  BY JoinInvStep
<1>3. QED
  BY <1>1, <1>2, TypeInvInvariant, StopInvInvariant, PTL DEF Spec

\* Without a timeout the threads that run are those of the current batch, so
\* StopAll returns with none left and a pool of one thread works one at a time.
THEOREM StopAllLeavesNoThread ==
    ASSUME ~StopMayTimeOut
    PROVE  Spec => []NoStragglers
<1>1. JoinInv => NoStragglers
  BY DEF JoinInv
<1>2. QED
  BY <1>1, JoinInvInvariant, PTL

\* Without a timeout every wait of StopAll is answered by the thread it is for.
THEOREM SemaphoreIsForJoin ==
    ASSUME ~StopMayTimeOut
    PROVE  Spec => []SemaphoreCountsJoin
<1>1. JoinInv => SemaphoreCountsJoin
  BY DEF JoinInv
<1>2. QED
  BY <1>1, JoinInvInvariant, PTL

-----------------------------------------------------------------------------
(* Consequences for single steps.                                          *)

\* CancelAction keeps every action it does not look for.
LEMMA KeepOnlyKeepsAll ==
    ASSUME Actions \in Seq(Action),
           NEW kept \in SUBSET DOMAIN Actions,
           NEW q \in KeepOnly(kept)
    PROVE  \A m \in kept : \E n \in DOMAIN q : q[n] = Actions[m]
<1> DEFINE k == Cardinality(kept)
<1>1. IsFiniteSet(kept)
  <2>1. IsFiniteSet(DOMAIN Actions)
    BY FS_Interval, Len(Actions) \in Nat, DOMAIN Actions = 1 .. Len(Actions)
  <2>2. QED
    BY <2>1, FS_Subset
<1>2. k \in Nat
  BY <1>1, FS_CardinalityType
<1>3. PICK p \in [1 .. k -> kept] :
          /\ \A m, n \in DOMAIN p : m < n => p[m] < p[n]
          /\ q = [n \in DOMAIN p |-> Actions[p[n]]]
  BY DEF KeepOnly
<1> HIDE DEF k
<1>4. DOMAIN p = 1 .. k /\ DOMAIN q = 1 .. k /\ \A n \in 1 .. k : q[n] = Actions[p[n]]
  BY <1>3
<1>5. kept \subseteq Nat
  <2>1. DOMAIN Actions = 1 .. Len(Actions) /\ Len(Actions) \in Nat
    OBVIOUS
  <2>2. QED
    BY <2>1
<1>6. \A m, n \in 1 .. k : p[m] = p[n] => m = n
  <2>1. \A m, n \in 1 .. k : p[m] \in Nat /\ p[n] \in Nat /\ (m < n => p[m] < p[n])
    BY <1>3, <1>4, <1>5
  <2>2. \A m, n \in 1 .. k : m < n \/ n < m \/ m = n
    BY <1>2
  <2>3. QED
    BY <2>1, <2>2
<1>7. p \in Injection(1 .. k, kept)
  BY <1>3, <1>6 DEF Injection, IsInjective
<1>8. Cardinality(1 .. k) = k
  BY <1>2, FS_Interval
<1>9. p \in Surjection(1 .. k, kept)
  BY <1>1, <1>7, <1>8, FS_Injection DEF k
<1>10. QED
  BY <1>4, <1>9 DEF Surjection

\* Without a timeout no thread deletes an action that was queued for later.
THEOREM NothingIsDroppedSilently ==
    ASSUME ~StopMayTimeOut
    PROVE  Spec => DropsAreAskedFor
<1> DEFINE Drop(a) == \/ \E t \in Thread : RunningAction'[t] = a
                      \/ actionId[a] \in cancelAsked'
                      \/ stopPhase = "idle" /\ stopPhase' = "cancel"
<1>1. ASSUME TypeInv, StopInv, JoinInv, Next, NEW a \in Queued, a \notin Queued'
      PROVE  Drop(a)
  <2>1. Actions \in Seq(Action) /\ DOMAIN Actions = 1 .. Len(Actions)
        /\ Actions # Actions'
    BY <1>1 DEF TypeInv, TypeOK, Queued
  <2>2. ASSUME NEW b \in Action, Queue(b) PROVE FALSE
    <3>1. Actions' = Append(Actions, b)
      BY <2>2 DEF Queue
    <3>2. PICK m \in DOMAIN Actions : a = Actions[m]
      BY <1>1 DEF Queued
    <3>3. m \in DOMAIN Actions' /\ Actions'[m] = a
      <4>1. Len(Actions) \in Nat /\ m \in 1 .. Len(Actions)
        BY <2>1
      <4>2. DOMAIN Append(Actions, b) = 1 .. Len(Actions) + 1
            /\ Append(Actions, b)[m] = Actions[m]
        BY <2>1, <4>1, b \in Action
      <4>3. QED
        BY <3>1, <3>2, <4>1, <4>2
    <3>4. QED
      BY <1>1, <3>3 DEF Queued
  <2>3. ASSUME NEW id \in 0 .. NextActionId - 1, CancelAction(id) PROVE Drop(a)
    <3> DEFINE kept == {n \in DOMAIN Actions : actionId[Actions[n]] # id}
    <3>1. Actions' \in KeepOnly(kept) /\ cancelAsked' = cancelAsked \cup {id}
      BY <2>1, <2>3 DEF CancelAction
    <3>2. PICK m \in DOMAIN Actions : a = Actions[m]
      BY <1>1 DEF Queued
    <3>3. m \notin kept
      BY <1>1, <2>1, <3>1, <3>2, KeepOnlyKeepsAll DEF Queued
    <3>4. QED
      BY <3>1, <3>2, <3>3
  <2>4. CASE StopAll \/ Shutdown
    BY <2>1, <2>4 DEF StopAll, Shutdown, GuiReady, EnterStopAll, DeleteQueuedActions
  <2>5. ASSUME NEW t \in Thread, NextAction(t) PROVE Drop(a)
    <3>1. Actions # << >> /\ Actions' = Tail(Actions) /\ RunningAction'[t] = Head(Actions)
      BY <1>1, <2>1, <2>5 DEF NextAction, TypeInv, TypeOK
    <3>2. PICK m \in DOMAIN Actions : a = Actions[m]
      BY <1>1 DEF Queued
    <3>3. m = 1
      <4> SUFFICES ASSUME m # 1 PROVE FALSE
        OBVIOUS
      <4>1. Len(Actions) \in Nat /\ m \in 1 .. Len(Actions)
        BY <2>1
      <4>2. m - 1 \in 1 .. Len(Actions) - 1 /\ (m - 1) + 1 = m
        BY <4>1
      <4>3. DOMAIN Actions' = 1 .. Len(Actions) - 1
            /\ \A n \in 1 .. Len(Actions) - 1 : Actions'[n] = Actions[n + 1]
        BY <2>1, <3>1, TailShifts
      <4>4. m - 1 \in DOMAIN Actions' /\ Actions'[m - 1] = Actions[m]
        BY <4>2, <4>3
      <4>5. a \in Queued'
        BY <3>2, <4>4 DEF Queued
      <4>6. QED
        BY <1>1, <4>5
    <3>4. QED
      BY <3>1, <3>2, <3>3
  <2>6. ASSUME NEW t \in Thread, CleanupAllActions(t) PROVE FALSE
    <3>1. pc[t] = "cleanup"
      BY <2>6 DEF CleanupAllActions, At
    <3>2. t \in InBatch /\ destroyFlag[t]
      BY <1>1, <3>1 DEF JoinInv, NoStragglers, Alive, Ending
    <3>3. stopPhase # "idle"
      BY <1>1, <3>2 DEF JoinInv, JoinedUpTo, InBatch
    <3>4. QED
      BY <1>1, <3>3 DEF StopInv, Queued
  <2>7. QED
    <3>1. CASE Gui
      BY <2>1, <2>2, <2>3, <2>4, <3>1 DEF Gui, QueueRefused, OnTimer, Destroy, poolVars
    <3>2. CASE StopStep
      BY <2>1, <3>2 DEF StopStep, CancelRunningAction, DeleteThread, SemaphoreWait,
         SemaphoreTimeout, poolVars
    <3>3. ASSUME NEW t \in Thread, Worker(t) \/ EndWork(t) PROVE Drop(a)
      BY <2>1, <2>5, <2>6, <3>3 DEF Worker, TestDestroy, BeginWork, SignalEnd,
         ReleaseAction, FinishThread, EndWork, poolVars
    <3>4. QED
      BY <1>1, <3>1, <3>2, <3>3 DEF Next
<1>2. TypeInv /\ StopInv /\ JoinInv /\ [Next]_vars
      => [\A a \in Queued \ Queued' : Drop(a)]_vars
  BY <1>1
<1>3. QED
  BY <1>2, JoinInvInvariant, StopInvInvariant, TypeInvInvariant, PTL DEF Spec, DropsAreAskedFor

\* A pool that has been shut down and is not being stopped has no batch.
ShutdownInv == IsShutdown /\ stopPhase = "idle" => ThreadActions = << >>

\* A pool that has been shut down stays without threads.
LEMMA ShutdownInvInvariant == Spec => []ShutdownInv
<1>1. Init => ShutdownInv
  BY DEF Init, ShutdownInv
<1>2. TypeInv /\ ShutdownInv /\ [Next]_vars => ShutdownInv'
  <2> SUFFICES ASSUME TypeInv, ShutdownInv, [Next]_vars
               PROVE  ShutdownInv'
    OBVIOUS
  <2>1. CASE Gui
    BY <2>1 DEF Gui, Queue, QueueRefused, CancelAction, OnTimer, StopAll, Shutdown, Destroy,
       EnterStopAll, DeleteQueuedActions, poolVars, stopVars, ShutdownInv
  <2>2. CASE StopStep
    BY <2>2 DEF StopStep, CancelRunningAction, DeleteThread, SemaphoreWait,
       SemaphoreTimeout, NextToStop, ShutdownInv
  <2>3. ASSUME NEW t \in Thread, Worker(t) \/ EndWork(t) PROVE ShutdownInv'
    BY <2>3 DEF Worker, TestDestroy, NextAction, BeginWork, SignalEnd, ReleaseAction,
       CleanupAllActions, FinishThread, EndWork, poolVars, stopVars, ShutdownInv
  <2>4. CASE UNCHANGED vars
    BY <2>4 DEF vars, poolVars, stopVars, ShutdownInv
  <2>5. QED
    BY <2>1, <2>2, <2>3, <2>4 DEF Next
<1>3. QED
  BY <1>1, <1>2, TypeInvInvariant, PTL DEF Spec

\* Without a timeout no event is posted once Shutdown has returned.
THEOREM ShutdownIsSilent ==
    ASSUME ~StopMayTimeOut
    PROVE  Spec => SilentAfterShutdown
<1>1. ASSUME TypeInv, JoinInv, ShutdownInv, Next, IsShutdown, stopPhase = "idle"
      PROVE  UNCHANGED lastEvent
  <2>1. InBatch = {} /\ \A t \in Thread : pc[t] \in {"none", "dead"}
    BY <1>1 DEF ShutdownInv, JoinInv, NoStragglers, Alive, InBatch
  <2>2. CASE OnTimer
    BY <1>1, <2>1, <2>2 DEF OnTimer, TypeInv, TypeOK
  <2>3. ASSUME NEW t \in Thread, Worker(t) \/ EndWork(t) PROVE FALSE
    BY <2>1, <2>3 DEF Worker, TestDestroy, NextAction, BeginWork, SignalEnd, ReleaseAction,
       CleanupAllActions, FinishThread, EndWork, At
  <2>4. QED
    BY <1>1, <2>2, <2>3 DEF Next, Gui, StopStep, Queue, QueueRefused, CancelAction, StopAll,
       Shutdown, EnterStopAll, Destroy, CancelRunningAction, DeleteThread, SemaphoreWait,
       SemaphoreTimeout, actionVars
<1>2. TypeInv /\ JoinInv /\ ShutdownInv /\ [Next]_vars
      => [IsShutdown /\ stopPhase = "idle" => UNCHANGED lastEvent]_vars
  BY <1>1
<1>3. QED
  BY <1>2, JoinInvInvariant, ShutdownInvInvariant, TypeInvInvariant, PTL
     DEF Spec, SilentAfterShutdown

=============================================================================
