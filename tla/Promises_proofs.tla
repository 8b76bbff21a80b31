--------------------------- MODULE Promises_proofs ---------------------------
(***************************************************************************)
(* Proofs about the two parts that implement an abstract specification.    *)
(* Of the sequences, for any programs and any numbers of sequences and of  *)
(* files tagged again, that they are one after another; of the tag         *)
(* database, for any files, sources and indexing, that its tables belong   *)
(* together and act as the one table of TagTable.                          *)
(***************************************************************************)
EXTENDS Sequence, TagDb, TLAPS

-----------------------------------------------------------------------------
(* The sequences: Running() and the gauge.                                 *)

RunningInv == RunningHasSteps /\ GaugeShowsRunning

\* RunNextStep leaves the flag, the steps and the gauge in agreement when the
\* event posted before it is the start of the sequence.
LEMMA RunNextStepKeepsRunningInv ==
    ASSUME NEW steps, NEW finished, NEW pending, NEW posted,
           posted = "start",
           RunNextStep(steps, finished, pending, posted)
    PROVE  RunningInv'
BY DEF RunNextStep, PostIfDone, RunningInv, RunningHasSteps, GaugeShowsRunning

\* Every step of the sequencer keeps the flag, the steps and the gauge in
\* agreement.
LEMMA RunningInvStep ==
    ASSUME RunningInv, [Next]_vars
    PROVE  RunningInv'
<1> USE DEF RunningInv, RunningHasSteps, GaugeShowsRunning
<1>1. ASSUME NEW p \in Programs, Start(p) PROVE RunningInv'
  BY <1>1, RunNextStepKeepsRunningInv DEF Start
<1>2. ASSUME NEW p \in Programs, BuildRefused(p) PROVE RunningInv'
  BY <1>2 DEF BuildRefused
<1>3. CASE OnActionComplete
  <2>1. CASE Len(Steps) > 1
    <3>1. Steps # << >>
      BY <2>1
    <3>2. gauge = "start"
      BY <3>1
    <3>3. RunNextStep(Tail(Steps), OwnedFirst, Tail(inbox), gauge)
      BY <1>3, <2>1 DEF OnActionComplete
    <3>4. QED
      BY <3>2, <3>3, RunNextStepKeepsRunningInv
  <2>2. CASE ~(Len(Steps) > 1)
    BY <1>3, <2>2 DEF OnActionComplete
  <2>3. QED
    BY <2>1, <2>2
<1>4. CASE StopForPreferences
  BY <1>4 DEF StopForPreferences, StopSequence
<1>5. CASE StopForProjects
  BY <1>5 DEF StopForProjects, StopSequence
<1>6. CASE CloseDialog
  BY <1>6 DEF CloseDialog
<1>7. CASE CloseMainFrame
  BY <1>7 DEF CloseMainFrame, StopSequence
<1>8. CASE Exit
  BY <1>8 DEF Exit, StopSequence
<1>9. CASE FileRetagged
  BY <1>9 DEF FileRetagged
<1>10. CASE PoolCompletes
  BY <1>10 DEF PoolCompletes
<1>11. ASSUME NEW s \in processes, DetectorCompletes(s) PROVE RunningInv'
  BY <1>11 DEF DetectorCompletes
<1>12. ASSUME NEW s \in processes, DetectorNotRestarted(s) PROVE RunningInv'
  BY <1>12 DEF DetectorNotRestarted
<1>13. CASE UNCHANGED vars
  BY <1>13 DEF vars
<1>14. QED
  BY <1>1, <1>2, <1>3, <1>4, <1>5, <1>6, <1>7, <1>8, <1>9, <1>10, <1>11,
     <1>12, <1>13 DEF Next, Gui, Background

\* The flag, the steps and the gauge agree in every reachable state.
LEMMA RunningInvInvariant == Spec => []RunningInv
<1>1. Init => RunningInv
  BY DEF Init, RunningInv, RunningHasSteps, GaugeShowsRunning
<1>2. QED
  BY <1>1, RunningInvStep, PTL DEF Spec

\* Running() is true exactly while steps are left (SequenceClass.cpp:329).
THEOREM RunningMeansStepsLeft == Spec => []RunningHasSteps
BY RunningInvInvariant, PTL DEF RunningInv

\* The last sequence event posted is SEQUENCE_START exactly while a sequence
\* runs, so the gauge of the status bar never turns without one.
THEOREM GaugeIsFaithful == Spec => []GaugeShowsRunning
BY RunningInvInvariant, PTL DEF RunningInv

-----------------------------------------------------------------------------
(* Type correctness.                                                       *)

\* A program is a sequence of known action types.
LEMMA ProgramIsTyped ==
    ASSUME NEW p \in DOMAIN Program
    PROVE  Program[p] \in Seq(ActionType)
<1>1. p \in {"AppStart", "ProjectDefinitionsUpdated", "TagCacheWipeAndIndex",
             "DatabaseDetection", "BuildTemplateFiles", "BuildTagDetector",
             "BuildSqlMetaData"}
  BY DEF Program
<1>2. \E len \in Nat : Program[p] = [n \in 1 .. len |-> Program[p][n]]
  <2>1. CASE p = "AppStart"
    <3>1. Program[p] = [n \in 1 .. 5 |-> Program[p][n]]
      BY <2>1 DEF Program
    <3>2. QED
      BY <3>1
  <2>2. CASE p = "ProjectDefinitionsUpdated"
    <3>1. Program[p] = [n \in 1 .. 7 |-> Program[p][n]]
      BY <2>2 DEF Program
    <3>2. QED
      BY <3>1
  <2>3. CASE p = "TagCacheWipeAndIndex"
    <3>1. Program[p] = [n \in 1 .. 7 |-> Program[p][n]]
      BY <2>3 DEF Program
    <3>2. QED
      BY <3>1
  <2>4. CASE p = "DatabaseDetection"
    <3>1. Program[p] = [n \in 1 .. 2 |-> Program[p][n]]
      BY <2>4 DEF Program
    <3>2. QED
      BY <3>1
  <2>5. CASE p = "BuildTemplateFiles"
    <3>1. Program[p] = [n \in 1 .. 2 |-> Program[p][n]]
      BY <2>5 DEF Program
    <3>2. QED
      BY <3>1
  <2>6. CASE p = "BuildTagDetector"
    <3>1. Program[p] = [n \in 1 .. 1 |-> Program[p][n]]
      BY <2>6 DEF Program
    <3>2. QED
      BY <3>1
  <2>7. CASE p = "BuildSqlMetaData"
    <3>1. Program[p] = [n \in 1 .. 1 |-> Program[p][n]]
      BY <2>7 DEF Program
    <3>2. QED
      BY <3>1
  <2>8. QED
    BY <1>1, <2>1, <2>2, <2>3, <2>4, <2>5, <2>6, <2>7
<1>3. \A n \in DOMAIN Program[p] : Program[p][n] \in ActionType
  BY DEF ActionType, Elements
<1>4. QED
  BY <1>2, <1>3

\* The steps of a program are action objects of the next sequence.
LEMMA StepsOfIsTyped ==
    ASSUME SequenceAssumption, sequences \in 0 .. MaxSequences,
           sequences < MaxSequences, NEW p \in DOMAIN Program
    PROVE  /\ StepsOf(p) \in Seq(Object)
           /\ Elements(StepsOf(p)) \in SUBSET Object
<1>1. PICK len \in Nat : Program[p] \in [1 .. len -> ActionType]
  BY ProgramIsTyped
<1>2. sequences + 1 \in 0 .. MaxSequences
  BY DEF SequenceAssumption
<1>3. StepsOf(p) \in [1 .. len -> Object]
  BY <1>1, <1>2 DEF StepsOf, Object
<1>4. QED
  BY <1>3 DEF Elements

\* The elements of a sequence are in its codomain.
LEMMA ElementsAreTyped ==
    ASSUME NEW S, NEW s \in Seq(S)
    PROVE  Elements(s) \in SUBSET S
BY DEF Elements

\* What the sequence owns are objects.
LEMMA OwnedIsTyped ==
    ASSUME TypeOK
    PROVE  OwnedFirst \in SUBSET Object /\ Stopped \in SUBSET Object
<1>1. ASSUME Steps # << >>
      PROVE  Head(Steps) \in Object /\ Tail(Steps) \in Seq(Object)
  BY <1>1 DEF TypeOK
<1>2. QED
  BY <1>1, ElementsAreTyped DEF OwnedFirst, Stopped

\* RunNextStep keeps the types of what it changes.
LEMMA RunNextStepKeepsTypes ==
    ASSUME TypeOK,
           NEW steps \in Seq(Object), NEW finished \in SUBSET Object,
           NEW pending \in Seq(Object), NEW posted \in {"none", "start", "complete"},
           RunNextStep(steps, finished, pending, posted)
    PROVE  /\ Steps' \in Seq(Object)
           /\ IsRunning' \in BOOLEAN
           /\ IsCurrentStepAsync' \in BOOLEAN
           /\ pool' \in Seq(OfType(ActionType \ (Initializer \cup Detector)))
           /\ processes' \in SUBSET OfType(Detector)
           /\ inbox' \in Seq(Object)
           /\ deleted' \in SUBSET Object
           /\ gauge' \in {"none", "start", "complete"}
<1> DEFINE passed(k) == {steps[n] : n \in 1 .. k}
           rest(k) == SubSeq(steps, k + 1, Len(steps))
<1>1. PICK k \in 0 .. Len(steps) :
          /\ Steps' = rest(k)
          /\ IsRunning' = (rest(k) # << >>)
          /\ IsCurrentStepAsync' = DoAsync(IF rest(k) = << >> THEN steps[k].type
                                                          ELSE rest(k)[1].type)
          /\ DeletePassed(finished, passed(k))
          /\ pool' = IF FirstIs(rest(k), Asynchronous)
                     THEN Append(pool, Head(rest(k))) ELSE pool
          /\ processes' = (processes \ finished) \cup
                 (IF FirstIs(rest(k), Detector) THEN {Head(rest(k))} ELSE {})
          /\ inbox' = IF FirstIs(rest(k), Initializer)
                      THEN Append(pending, Head(rest(k))) ELSE pending
          /\ PostIfDone(rest(k), posted)
  BY DEF RunNextStep
<1>2. rest(k) \in Seq(Object)
  OBVIOUS
<1>3. passed(k) \in SUBSET Object
  OBVIOUS
<1>4. rest(k) # << >> => Head(rest(k)) \in Object
  BY <1>2
<1> HIDE DEF rest, passed
<1>5. FirstIs(rest(k), Asynchronous) =>
          Head(rest(k)) \in OfType(ActionType \ (Initializer \cup Detector))
  BY <1>4 DEF FirstIs, Asynchronous, DoAsync, OfType
<1>6. FirstIs(rest(k), Detector) => Head(rest(k)) \in OfType(Detector)
  BY <1>4 DEF FirstIs, OfType
<1>7. pool' \in Seq(OfType(ActionType \ (Initializer \cup Detector)))
  BY <1>1, <1>5 DEF TypeOK
<1>8. processes' \in SUBSET OfType(Detector)
  BY <1>1, <1>6 DEF TypeOK
<1>9. inbox' \in Seq(Object)
  BY <1>1, <1>4 DEF FirstIs
<1>10. deleted' \in SUBSET Object
  BY <1>1, <1>3 DEF DeletePassed, TypeOK
<1>11. IsCurrentStepAsync' \in BOOLEAN
  BY <1>1 DEF DoAsync
<1>12. gauge' \in {"none", "start", "complete"}
  BY <1>1 DEF PostIfDone
<1>13. QED
  BY <1>1, <1>2, <1>7, <1>8, <1>9, <1>10, <1>11, <1>12

\* Stop keeps the types of what it changes.
LEMMA StopKeepsTypes ==
    ASSUME TypeOK, StopSequence
    PROVE  /\ Steps' \in Seq(Object)
           /\ IsRunning' \in BOOLEAN
           /\ IsCurrentStepAsync' \in BOOLEAN
           /\ processes' \in SUBSET OfType(Detector)
           /\ gauge' \in {"none", "start", "complete"}
<1>1. Steps' \in Seq(Object)
  BY DEF StopSequence
<1>2. IsRunning' \in BOOLEAN /\ IsCurrentStepAsync' \in BOOLEAN
  BY DEF StopSequence, TypeOK
<1>3. processes' \in SUBSET OfType(Detector)
  BY DEF StopSequence, TypeOK
<1>4. gauge' \in {"none", "start", "complete"}
  BY DEF StopSequence
<1>5. QED
  BY <1>1, <1>2, <1>3, <1>4

\* Every step of the sequencer keeps the types.
LEMMA TypeStep ==
    ASSUME SequenceAssumption, TypeOK, [Next]_vars
    PROVE  TypeOK'
<1>1. ASSUME NEW p \in Programs, Start(p) PROVE TypeOK'
  <2>1. StepsOf(p) \in Seq(Object) /\ Elements(StepsOf(p)) \in SUBSET Object
    BY <1>1, StepsOfIsTyped DEF Start, TypeOK, SequenceAssumption
  <2>2. Steps \o StepsOf(p) \in Seq(Object)
    BY <2>1 DEF TypeOK
  <2>3. RunNextStep(Steps \o StepsOf(p), {}, inbox, "start")
    BY <1>1 DEF Start
  <2>4. sequences' \in 0 .. MaxSequences
    BY <1>1 DEF Start, TypeOK, SequenceAssumption
  <2>5. {} \in SUBSET Object /\ inbox \in Seq(Object)
    BY DEF TypeOK
  <2>6. /\ Steps' \in Seq(Object)
        /\ IsRunning' \in BOOLEAN
        /\ IsCurrentStepAsync' \in BOOLEAN
        /\ pool' \in Seq(OfType(ActionType \ (Initializer \cup Detector)))
        /\ processes' \in SUBSET OfType(Detector)
        /\ inbox' \in Seq(Object)
        /\ deleted' \in SUBSET Object
        /\ gauge' \in {"none", "start", "complete"}
    BY <2>2, <2>3, <2>5, RunNextStepKeepsTypes
  <2>7. QED
    BY <1>1, <2>1, <2>4, <2>6 DEF Start, TypeOK
<1>2. ASSUME NEW p \in Programs, BuildRefused(p) PROVE TypeOK'
  <2>1. Elements(StepsOf(p)) \in SUBSET Object
    BY <1>2, StepsOfIsTyped DEF BuildRefused, TypeOK, SequenceAssumption
  <2>2. sequences' \in 0 .. MaxSequences
    BY <1>2 DEF BuildRefused, TypeOK, SequenceAssumption
  <2>3. QED
    BY <1>2, <2>1, <2>2 DEF BuildRefused, TypeOK
<1>3. CASE OnActionComplete
  <2>1. inbox # << >> /\ Tail(inbox) \in Seq(Object)
    BY <1>3 DEF OnActionComplete, TypeOK
  <2>2. OwnedFirst \in SUBSET Object
    BY OwnedIsTyped
  <2>3. CASE Len(Steps) > 1
    <3>1. Tail(Steps) \in Seq(Object)
      BY <2>3 DEF TypeOK
    <3>2. RunNextStep(Tail(Steps), OwnedFirst, Tail(inbox), gauge)
      BY <1>3, <2>3 DEF OnActionComplete
    <3>3. /\ Steps' \in Seq(Object)
          /\ IsRunning' \in BOOLEAN
          /\ IsCurrentStepAsync' \in BOOLEAN
          /\ pool' \in Seq(OfType(ActionType \ (Initializer \cup Detector)))
          /\ processes' \in SUBSET OfType(Detector)
          /\ inbox' \in Seq(Object)
          /\ deleted' \in SUBSET Object
          /\ gauge' \in {"none", "start", "complete"}
      BY <2>1, <2>2, <3>1, <3>2, RunNextStepKeepsTypes DEF TypeOK
    <3>4. QED
      BY <1>3, <3>3 DEF OnActionComplete, TypeOK
  <2>4. CASE ~(Len(Steps) > 1)
    <3>1. Steps' \in Seq(Object)
      BY <1>3, <2>4 DEF OnActionComplete
    <3>2. IsRunning' \in BOOLEAN /\ IsCurrentStepAsync' \in BOOLEAN
      BY <1>3, <2>4 DEF OnActionComplete, TypeOK
    <3>3. deleted' \in SUBSET Object /\ processes' \in SUBSET OfType(Detector)
      BY <1>3, <2>2, <2>4 DEF OnActionComplete, TypeOK
    <3>4. QED
      BY <1>3, <2>1, <2>4, <3>1, <3>2, <3>3 DEF OnActionComplete, TypeOK
  <2>5. QED
    BY <2>3, <2>4
<1>4. CASE StopForPreferences
  <2>1. Stopped \in SUBSET Object
    BY OwnedIsTyped
  <2>2. pool \in Seq(Object)
    BY DEF TypeOK, OfType
  <2>3. Elements(pool) \in SUBSET Object
    BY <2>2, ElementsAreTyped
  <2>4. inbox' \in Seq(Object)
    <3>1. PICK taken \in 0 .. 1 :
              taken <= Len(pool) /\ inbox' = inbox \o SubSeq(pool, 1, taken)
      BY <1>4 DEF StopForPreferences
    <3>2. SubSeq(pool, 1, taken) \in Seq(Object)
      BY <2>2, <3>1
    <3>3. QED
      BY <3>1, <3>2 DEF TypeOK
  <2>5. pool' \in Seq(OfType(ActionType \ (Initializer \cup Detector)))
    BY <1>4 DEF StopForPreferences
  <2>6. deleted' \in SUBSET Object
    BY <1>4, <2>1, <2>3 DEF StopForPreferences, TypeOK
  <2>7. StopSequence /\ phase' \in Phase
    BY <1>4 DEF StopForPreferences, Phase
  <2>8. QED
    BY <1>4, <2>4, <2>5, <2>6, <2>7, StopKeepsTypes
    DEF StopForPreferences, TypeOK
<1>5. CASE StopForProjects
  <2>1. StopSequence /\ phase' \in Phase
    BY <1>5 DEF StopForProjects, Phase
  <2>2. deleted' \in SUBSET Object
    BY <1>5, OwnedIsTyped DEF StopForProjects, TypeOK
  <2>3. QED
    BY <1>5, <2>1, <2>2, StopKeepsTypes DEF StopForProjects, TypeOK
<1>6. CASE CloseDialog
  BY <1>6 DEF CloseDialog, TypeOK, Phase
<1>7. CASE CloseMainFrame
  <2>1. StopSequence /\ phase' \in Phase
    BY <1>7 DEF CloseMainFrame, Phase
  <2>2. deleted' \in SUBSET Object
    BY <1>7, OwnedIsTyped DEF CloseMainFrame, TypeOK
  <2>3. QED
    BY <1>7, <2>1, <2>2, StopKeepsTypes DEF CloseMainFrame, TypeOK
<1>8. CASE Exit
  <2>1. pool \in Seq(Object)
    BY DEF TypeOK, OfType
  <2>2. Elements(pool) \in SUBSET Object
    BY <2>1, ElementsAreTyped
  <2>3. deleted' \in SUBSET Object
    BY <1>8, <2>2, OwnedIsTyped DEF Exit, TypeOK
  <2>4. StopSequence /\ phase' \in Phase
    BY <1>8 DEF Exit, Phase
  <2>5. /\ pool' \in Seq(OfType(ActionType \ (Initializer \cup Detector)))
        /\ inbox' \in Seq(Object)
    BY <1>8 DEF Exit
  <2>6. QED
    BY <1>8, <2>3, <2>4, <2>5, StopKeepsTypes DEF Exit, TypeOK
<1>9. CASE FileRetagged
  <2> DEFINE action == [seq |-> 0, n |-> retags + 1, type |-> "ProjectTagSingleFile"]
  <2>1. action \in OfType(ActionType \ (Initializer \cup Detector))
    BY DEF OfType, Object, ActionType, Initializer, Detector, TypeOK,
           SequenceAssumption
  <2>2. action \in Object
    BY <2>1 DEF OfType
  <2>3. retags' \in 0 .. MaxRetags
    BY <1>9 DEF FileRetagged, TypeOK, SequenceAssumption
  <2>4. created' = created \cup {action} /\ pool' = Append(pool, action)
    BY <1>9 DEF FileRetagged
  <2> HIDE DEF action
  <2>5. QED
    BY <1>9, <2>1, <2>2, <2>3, <2>4 DEF FileRetagged, TypeOK
<1>10. CASE PoolCompletes
  <2>1. /\ Head(pool) \in Object
        /\ Tail(pool) \in Seq(OfType(ActionType \ (Initializer \cup Detector)))
    BY <1>10 DEF PoolCompletes, TypeOK, OfType
  <2>2. QED
    BY <1>10, <2>1 DEF PoolCompletes, TypeOK
<1>11. ASSUME NEW s \in processes, DetectorCompletes(s) PROVE TypeOK'
  <2>1. s \in Object
    BY DEF TypeOK, OfType
  <2>2. QED
    BY <1>11, <2>1 DEF DetectorCompletes, TypeOK
<1>12. ASSUME NEW s \in processes, DetectorNotRestarted(s) PROVE TypeOK'
  BY <1>12 DEF DetectorNotRestarted, TypeOK
<1>13. CASE UNCHANGED vars
  BY <1>13 DEF vars, TypeOK
<1>14. QED
  BY <1>1, <1>2, <1>3, <1>4, <1>5, <1>6, <1>7, <1>8, <1>9, <1>10, <1>11,
     <1>12, <1>13 DEF Next, Gui, Background

\* Every variable keeps its type, and no step but an asynchronous one is ever
\* queued on the pool (GlobalActionClass::DoAsync and its overrides).
THEOREM SequenceTypeCorrect == Spec => []TypeOK
<1>1. SequenceAssumption
  BY SequenceAssumption
<1>2. ASSUME Init PROVE TypeOK
  <2>1. /\ Steps \in Seq(Object)
        /\ pool \in Seq(OfType(ActionType \ (Initializer \cup Detector)))
        /\ inbox \in Seq(Object)
    BY <1>2 DEF Init
  <2>2. sequences \in 0 .. MaxSequences /\ retags \in 0 .. MaxRetags
    BY <1>1, <1>2 DEF Init, SequenceAssumption
  <2>3. IsRunning \in BOOLEAN /\ IsCurrentStepAsync \in BOOLEAN
    BY <1>2 DEF Init
  <2>4. QED
    BY <1>2, <2>1, <2>2, <2>3 DEF Init, TypeOK, Phase
<1>3. QED
  BY <1>1, <1>2, TypeStep, PTL DEF Spec

-----------------------------------------------------------------------------
(* The sequence never waits for nothing.                                   *)

\* Appending to a sequence adds the appended element to its elements.
LEMMA ElementsOfAppend ==
    ASSUME NEW S, NEW s \in Seq(S), NEW x
    PROVE  Elements(Append(s, x)) = Elements(s) \cup {x}
<1>1. PICK len \in Nat : len = Len(s) /\ DOMAIN s = 1 .. len
  OBVIOUS
<1>2. DOMAIN Append(s, x) = 1 .. len + 1
  BY <1>1
<1>3. \A n \in 1 .. len : Append(s, x)[n] = s[n]
  BY <1>1
<1>4. Append(s, x)[len + 1] = x
  BY <1>1
<1>5. \A n \in 1 .. len + 1 : n \in 1 .. len \/ n = len + 1
  BY <1>1
<1>6. QED
  BY <1>1, <1>2, <1>3, <1>4, <1>5 DEF Elements

\* A sequence consists of its head and its tail.
LEMMA ElementsOfHeadTail ==
    ASSUME NEW S, NEW s \in Seq(S), s # << >>
    PROVE  Elements(s) = {Head(s)} \cup Elements(Tail(s))
<1>1. PICK len \in Nat : len = Len(s) /\ DOMAIN s = 1 .. len /\ len > 0
  OBVIOUS
<1>2. DOMAIN Tail(s) = 1 .. len - 1 /\ Head(s) = s[1]
  BY <1>1
<1>3. \A n \in 1 .. len - 1 : Tail(s)[n] = s[n + 1]
  BY <1>1
<1>4. \A n \in 1 .. len : n = 1 \/ n - 1 \in 1 .. len - 1
  BY <1>1
<1>5. Elements(s) \subseteq {Head(s)} \cup Elements(Tail(s))
  <2>1. SUFFICES ASSUME NEW n \in 1 .. len, n # 1
                 PROVE  s[n] \in Elements(Tail(s))
    BY <1>1, <1>2 DEF Elements
  <2>2. n - 1 \in 1 .. len - 1
    BY <1>4, <2>1
  <2>3. (n - 1) + 1 = n
    OBVIOUS
  <2>4. Tail(s)[n - 1] = s[n]
    BY <1>3, <2>2, <2>3
  <2>5. QED
    BY <1>2, <2>2, <2>4 DEF Elements
<1>6. {Head(s)} \cup Elements(Tail(s)) \subseteq Elements(s)
  <2>1. \A n \in 1 .. len - 1 : n + 1 \in 1 .. len
    BY <1>1
  <2>2. 1 \in 1 .. len
    BY <1>1
  <2>3. QED
    BY <1>1, <1>2, <1>3, <2>1, <2>2 DEF Elements
<1>7. QED
  BY <1>5, <1>6

\* The step that RunNextStep starts is in the pool, has a process, or has
\* posted its completion: there is no fourth kind of step.
LEMMA RunNextStepStartsLiveStep ==
    ASSUME TypeOK,
           NEW steps \in Seq(Object), NEW finished,
           NEW pending \in Seq(Object), NEW posted,
           RunNextStep(steps, finished, pending, posted)
    PROVE  CurrentStepIsLive'
<1> DEFINE rest(k) == SubSeq(steps, k + 1, Len(steps))
<1>1. PICK k \in 0 .. Len(steps) :
          /\ Steps' = rest(k)
          /\ IsRunning' = (rest(k) # << >>)
          /\ pool' = IF FirstIs(rest(k), Asynchronous)
                     THEN Append(pool, Head(rest(k))) ELSE pool
          /\ processes' = (processes \ finished) \cup
                 (IF FirstIs(rest(k), Detector) THEN {Head(rest(k))} ELSE {})
          /\ inbox' = IF FirstIs(rest(k), Initializer)
                      THEN Append(pending, Head(rest(k))) ELSE pending
  BY DEF RunNextStep
<1>2. rest(k) \in Seq(Object)
  OBVIOUS
<1> HIDE DEF rest
<1>3. SUFFICES ASSUME IsRunning'
               PROVE  Head(Steps') \in Elements(pool') \cup processes' \cup Elements(inbox')
  BY DEF CurrentStepIsLive
<1>4. rest(k) # << >> /\ Head(rest(k)) \in Object
  <2>1. rest(k) # << >>
    BY <1>1, <1>3
  <2>2. QED
    BY <1>2, <2>1
<1>5. Head(rest(k)).type \in Asynchronous \cup Detector \cup Initializer
  BY <1>4 DEF Object, Asynchronous, DoAsync
<1>6. CASE FirstIs(rest(k), Asynchronous)
  <2>1. pool' = Append(pool, Head(rest(k))) /\ Steps' = rest(k)
    BY <1>1, <1>6
  <2>2. pool \in Seq(OfType(ActionType \ (Initializer \cup Detector)))
    BY DEF TypeOK
  <2>3. QED
    BY <2>1, <2>2, ElementsOfAppend
<1>7. CASE FirstIs(rest(k), Detector)
  BY <1>1, <1>7
<1>8. CASE FirstIs(rest(k), Initializer)
  <2>1. inbox' = Append(pending, Head(rest(k))) /\ Steps' = rest(k)
    BY <1>1, <1>8
  <2>2. QED
    BY <2>1, ElementsOfAppend
<1>9. QED
  BY <1>4, <1>5, <1>6, <1>7, <1>8 DEF FirstIs

\* Every step of the sequencer keeps the current step live, if a detector can
\* always start its next process.
LEMMA LiveStep ==
    ASSUME ~MayNotRestart, SequenceAssumption, TypeOK, RunningInv,
           CurrentStepIsLive, [Next]_vars
    PROVE  CurrentStepIsLive'
<1>1. ASSUME NEW p \in Programs, Start(p) PROVE CurrentStepIsLive'
  <2>1. StepsOf(p) \in Seq(Object)
    BY <1>1, StepsOfIsTyped DEF Start, TypeOK, SequenceAssumption
  <2>2. Steps \o StepsOf(p) \in Seq(Object) /\ inbox \in Seq(Object)
    BY <2>1 DEF TypeOK
  <2>3. RunNextStep(Steps \o StepsOf(p), {}, inbox, "start")
    BY <1>1 DEF Start
  <2>4. QED
    BY <2>2, <2>3, RunNextStepStartsLiveStep
<1>2. ASSUME NEW p \in Programs, BuildRefused(p) PROVE CurrentStepIsLive'
  BY <1>2 DEF BuildRefused, CurrentStepIsLive
<1>3. CASE OnActionComplete
  <2>1. CASE Len(Steps) > 1
    <3>1. Tail(Steps) \in Seq(Object)
      BY <2>1 DEF TypeOK
    <3>2. Tail(inbox) \in Seq(Object)
      BY <1>3 DEF OnActionComplete, TypeOK
    <3>3. RunNextStep(Tail(Steps), OwnedFirst, Tail(inbox), gauge)
      BY <1>3, <2>1 DEF OnActionComplete
    <3>4. QED
      BY <3>1, <3>2, <3>3, RunNextStepStartsLiveStep
  <2>2. CASE ~(Len(Steps) > 1)
    BY <1>3, <2>2 DEF OnActionComplete, CurrentStepIsLive
  <2>3. QED
    BY <2>1, <2>2
<1>4. CASE StopForPreferences
  BY <1>4 DEF StopForPreferences, StopSequence, CurrentStepIsLive
<1>5. CASE StopForProjects
  BY <1>5 DEF StopForProjects, StopSequence, CurrentStepIsLive
<1>6. CASE CloseDialog
  BY <1>6 DEF CloseDialog, CurrentStepIsLive
<1>7. CASE CloseMainFrame
  BY <1>7 DEF CloseMainFrame, StopSequence, CurrentStepIsLive
<1>8. CASE Exit
  BY <1>8 DEF Exit, StopSequence, CurrentStepIsLive
<1>9. CASE FileRetagged
  <2>1. Elements(pool) \subseteq Elements(pool')
    BY <1>9, ElementsOfAppend DEF FileRetagged, TypeOK
  <2>2. QED
    BY <1>9, <2>1 DEF FileRetagged, CurrentStepIsLive
<1>10. CASE PoolCompletes
  <2>1. Elements(pool) = {Head(pool)} \cup Elements(pool')
    BY <1>10, ElementsOfHeadTail DEF PoolCompletes, TypeOK
  <2>2. Elements(inbox') = Elements(inbox) \cup {Head(pool)}
    BY <1>10, ElementsOfAppend DEF PoolCompletes, TypeOK
  <2>3. QED
    BY <1>10, <2>1, <2>2 DEF PoolCompletes, CurrentStepIsLive
<1>11. ASSUME NEW s \in processes, DetectorCompletes(s)
       PROVE  CurrentStepIsLive'
  <2>1. Elements(inbox') = Elements(inbox) \cup {s}
    BY <1>11, ElementsOfAppend DEF DetectorCompletes, TypeOK
  <2>2. QED
    BY <1>11, <2>1 DEF DetectorCompletes, CurrentStepIsLive
<1>12. ASSUME NEW s \in processes, DetectorNotRestarted(s)
       PROVE  CurrentStepIsLive'
  BY <1>12 DEF DetectorNotRestarted
<1>13. CASE UNCHANGED vars
  BY <1>13 DEF vars, CurrentStepIsLive
<1>14. QED
  BY <1>1, <1>2, <1>3, <1>4, <1>5, <1>6, <1>7, <1>8, <1>9, <1>10, <1>11,
     <1>12, <1>13 DEF Next, Gui, Background

\* While Running() is true something is under way that will post a completion:
\* no order of completions, foreign ones included, of files tagged again and of
\* stops makes the sequence wait for nothing, if detectors always start their next process.
THEOREM SequenceNeverWaitsForNothing ==
    ASSUME ~MayNotRestart
    PROVE  Spec => []CurrentStepIsLive
<1>1. SequenceAssumption
  BY SequenceAssumption
<1>2. Init => CurrentStepIsLive
  BY DEF Init, CurrentStepIsLive
<1>3. QED
  BY <1>1, <1>2, LiveStep, SequenceTypeCorrect, RunningInvInvariant, PTL DEF Spec

-----------------------------------------------------------------------------
(* The sequencer implements OneAfterAnother, as long as no file is tagged  *)
(* again on its pool and no projects dialog stops it.                      *)

Idle == pool = << >> /\ processes = {}

\* One token is passed around: the current step is in the pool, or has its
\* process, or has posted its completion.  No completion is left over when the
\* next sequence can be started.
PromiseInv ==
    \/ /\ phase = "open"
       /\ Steps # << >>
       /\ \/ pool = <<Head(Steps)>> /\ processes = {} /\ inbox = << >>
          \/ /\ pool = << >> /\ processes = {Head(Steps)} /\ inbox = << >>
             /\ ~IsCurrentStepAsync
          \/ Idle /\ Len(inbox) <= 1
    \/ phase = "open" /\ Steps = << >> /\ Idle /\ inbox = << >>
    \/ phase = "dialog" /\ Steps = << >> /\ Idle
    \/ /\ phase \in {"closing", "exited"}
       /\ Steps = << >>
       /\ Len(pool) <= 1
       /\ processes = {}

Working == processes \cup Elements(pool)

\* Nothing is in the empty sequence, and one thing in a sequence of one.
LEMMA ElementsOfShort ==
    /\ Elements(<< >>) = {}
    /\ \A x : Elements(<<x>>) = {x}
BY DEF Elements

\* When nothing is under way, RunNextStep puts at most the first of the steps
\* it leaves under way.
LEMMA RunNextStepStartsOne ==
    ASSUME Idle, phase' = "open",
           NEW steps \in Seq(Object), NEW finished, NEW posted,
           RunNextStep(steps, finished, << >>, posted)
    PROVE  /\ PromiseInv'
           /\ IF Steps' = << >> THEN Working' = {} ELSE Working' \subseteq {Head(Steps')}
           /\ \E k \in 0 .. Len(steps) : Steps' = SubSeq(steps, k + 1, Len(steps))
<1> DEFINE rest(k) == SubSeq(steps, k + 1, Len(steps))
<1>1. PICK k \in 0 .. Len(steps) :
          /\ Steps' = rest(k)
          /\ IsCurrentStepAsync' = DoAsync(IF rest(k) = << >> THEN steps[k].type
                                                          ELSE rest(k)[1].type)
          /\ pool' = IF FirstIs(rest(k), Asynchronous)
                     THEN Append(pool, Head(rest(k))) ELSE pool
          /\ processes' = (processes \ finished) \cup
                 (IF FirstIs(rest(k), Detector) THEN {Head(rest(k))} ELSE {})
          /\ inbox' = IF FirstIs(rest(k), Initializer)
                      THEN Append(<< >>, Head(rest(k))) ELSE << >>
  BY DEF RunNextStep
<1>2. rest(k) \in Seq(Object)
  OBVIOUS
<1>3. \E m \in 0 .. Len(steps) : Steps' = SubSeq(steps, m + 1, Len(steps))
  BY <1>1
<1> HIDE DEF rest
<1>4. CASE rest(k) = << >>
  <2>1. Steps' = << >> /\ pool' = << >> /\ processes' = {} /\ inbox' = << >>
    BY <1>1, <1>4 DEF FirstIs, Idle
  <2>2. Working' = {}
    BY <2>1, ElementsOfShort DEF Working
  <2>3. QED
    BY <1>3, <2>1, <2>2 DEF PromiseInv, Idle
<1>5. CASE rest(k) # << >>
  <2> DEFINE h == Head(rest(k))
  <2>1. h \in Object /\ h = rest(k)[1]
    BY <1>2, <1>5
  <2>2. Steps' # << >> /\ Head(Steps') = h
    BY <1>1, <1>5
  <2> HIDE DEF h
  <2>3. /\ pool' = IF h.type \in Asynchronous THEN <<h>> ELSE << >>
        /\ processes' = IF h.type \in Detector THEN {h} ELSE {}
        /\ inbox' = IF h.type \in Initializer THEN <<h>> ELSE << >>
        /\ IsCurrentStepAsync' = DoAsync(h.type)
    <3>1. Append(<< >>, h) = <<h>>
      OBVIOUS
    <3>2. \A types : FirstIs(rest(k), types) <=> h.type \in types
      BY <1>5 DEF FirstIs, h
    <3>3. pool' = IF h.type \in Asynchronous THEN <<h>> ELSE << >>
      BY <1>1, <3>1, <3>2 DEF Idle, h
    <3>4. processes' = IF h.type \in Detector THEN {h} ELSE {}
      BY <1>1, <3>2 DEF Idle, h
    <3>5. inbox' = IF h.type \in Initializer THEN <<h>> ELSE << >>
      BY <1>1, <3>1, <3>2 DEF h
    <3>6. IsCurrentStepAsync' = DoAsync(h.type)
      BY <1>1, <1>5, <2>1
    <3>7. QED
      BY <3>3, <3>4, <3>5, <3>6
  <2>4. CASE h.type \in Asynchronous
    <3>1. h.type \notin Detector /\ h.type \notin Initializer
      BY <2>4 DEF Asynchronous, DoAsync
    <3>2. pool' = <<h>> /\ processes' = {} /\ inbox' = << >>
      BY <2>3, <2>4, <3>1
    <3>3. Working' = {h}
      BY <3>2, ElementsOfShort DEF Working
    <3>4. QED
      BY <1>3, <2>2, <3>2, <3>3 DEF PromiseInv
  <2>5. CASE h.type \in Detector
    <3>1. h.type \notin Asynchronous /\ h.type \notin Initializer /\ ~DoAsync(h.type)
      BY <2>5 DEF Asynchronous, DoAsync, Detector, Initializer
    <3>2. /\ pool' = << >> /\ processes' = {h} /\ inbox' = << >>
          /\ ~IsCurrentStepAsync'
      BY <2>3, <2>5, <3>1
    <3>3. Working' = {h}
      BY <3>2, ElementsOfShort DEF Working
    <3>4. QED
      BY <1>3, <2>2, <3>2, <3>3 DEF PromiseInv
  <2>6. CASE h.type \notin Asynchronous /\ h.type \notin Detector
    <3>1. pool' = << >> /\ processes' = {} /\ (inbox' = <<h>> \/ inbox' = << >>)
      BY <2>3, <2>6
    <3>2. Working' = {}
      BY <3>1, ElementsOfShort DEF Working
    <3>3. Len(<<h>>) <= 1 /\ Len(<< >>) <= 1
      OBVIOUS
    <3>4. QED
      BY <1>3, <2>2, <3>1, <3>2, <3>3 DEF PromiseInv, Idle
  <2>7. QED
    BY <2>4, <2>5, <2>6
<1>6. QED
  BY <1>4, <1>5

\* The tail of a tail of a sequence is a tail of the sequence.
LEMMA TailOfTail ==
    ASSUME NEW S, NEW s \in Seq(S), Len(s) > 1, NEW k \in 0 .. Len(Tail(s))
    PROVE  \E n \in 1 .. Len(s) :
               SubSeq(Tail(s), k + 1, Len(Tail(s))) = SubSeq(s, n + 1, Len(s))
<1>1. Len(Tail(s)) = Len(s) - 1 /\ Tail(s) \in Seq(S) /\ Len(s) \in Nat
  OBVIOUS
<1>2. k + 1 \in 1 .. Len(s) /\ k \in Nat
  BY <1>1
<1>3. SubSeq(Tail(s), k + 1, Len(Tail(s))) = SubSeq(s, (k + 1) + 1, Len(s))
  BY <1>1, <1>2
<1>4. QED
  BY <1>2, <1>3

\* Every step of the sequencer passes the token on, and is a step of
\* OneAfterAnother or changes nothing of it.
LEMMA PromiseStep ==
    ASSUME SequenceAssumption, MaxRetags = 0, ~ProjectsDialog,
           TypeOK, RunningInv, PromiseInv, [Next]_vars
    PROVE  PromiseInv' /\ [Promise!Next]_(Promise!vars)
<1> USE DEF Promise!vars, Working
<1>1. ASSUME NEW p \in Programs, Start(p)
      PROVE  PromiseInv' /\ [Promise!Next]_(Promise!vars)
  <2>1. Steps = << >> /\ Idle /\ inbox = << >> /\ phase = "open" /\ phase' = "open"
    BY <1>1 DEF Start, PromiseInv, RunningInv, RunningHasSteps
  <2>2. StepsOf(p) \in Seq(Object)
    BY <1>1, StepsOfIsTyped DEF Start, TypeOK, SequenceAssumption
  <2>3. Steps \o StepsOf(p) \in Seq(Object)
    BY <2>2 DEF TypeOK
  <2>4. RunNextStep(Steps \o StepsOf(p), {}, << >>, "start")
    BY <1>1, <2>1 DEF Start
  <2>5. /\ PromiseInv'
        /\ IF Steps' = << >> THEN Working' = {} ELSE Working' \subseteq {Head(Steps')}
    BY <2>1, <2>3, <2>4, RunNextStepStartsOne
  <2>6. Steps' \in Seq(Object)
    <3> DEFINE all == Steps \o StepsOf(p)
    <3>1. all \in Seq(Object)
      BY <2>3
    <3>2. \E k \in 0 .. Len(all) : Steps' = SubSeq(all, k + 1, Len(all))
      BY <2>1, <2>3, <2>4, RunNextStepStartsOne
    <3> HIDE DEF all
    <3>3. QED
      BY <3>1, <3>2
  <2>7. Working = {}
    BY <2>1, ElementsOfShort DEF Idle
  <2>8. Promise!Start
    BY <2>1, <2>5, <2>6, <2>7 DEF Promise!Start, Promise!BeginFirst
  <2>9. QED
    BY <2>5, <2>8 DEF Promise!Next
<1>2. ASSUME NEW p \in Programs, BuildRefused(p)
      PROVE  PromiseInv' /\ [Promise!Next]_(Promise!vars)
  BY <1>2 DEF BuildRefused, PromiseInv, Idle
<1>3. CASE OnActionComplete
  <2>1. CASE Len(Steps) > 1
    <3>1. Steps # << >> /\ Steps \in Seq(Object) /\ Tail(Steps) \in Seq(Object)
      BY <2>1 DEF TypeOK
    <3>2. inbox # << >> /\ RunNextStep(Tail(Steps), OwnedFirst, Tail(inbox), gauge)
      BY <1>3, <2>1 DEF OnActionComplete
    <3>3. Idle /\ Len(inbox) <= 1 /\ phase = "open"
      BY <3>1, <3>2 DEF PromiseInv
    <3>4. Tail(inbox) = << >>
      BY <3>2, <3>3 DEF TypeOK
    <3>5. phase' = "open"
      BY <1>3, <3>3 DEF OnActionComplete
    <3>6. /\ PromiseInv'
          /\ IF Steps' = << >> THEN Working' = {} ELSE Working' \subseteq {Head(Steps')}
          /\ \E k \in 0 .. Len(Tail(Steps)) :
                 Steps' = SubSeq(Tail(Steps), k + 1, Len(Tail(Steps)))
      BY <3>1, <3>2, <3>3, <3>4, <3>5, RunNextStepStartsOne
    <3>7. \E n \in 1 .. Len(Steps) : Steps' = SubSeq(Steps, n + 1, Len(Steps))
      BY <2>1, <3>1, <3>6, TailOfTail
    <3>8. Working = {}
      BY <3>3, ElementsOfShort DEF Idle
    <3>9. Promise!Advance
      BY <3>6, <3>7, <3>8 DEF Promise!Advance, Promise!BeginFirst
    <3>10. QED
      BY <3>6, <3>9 DEF Promise!Next
  <2>2. CASE ~(Len(Steps) > 1)
    <3>1. /\ inbox # << >> /\ Steps' = << >> /\ pool' = pool /\ phase' = phase
          /\ processes' = processes \ OwnedFirst /\ inbox' = Tail(inbox)
      BY <1>3, <2>2 DEF OnActionComplete
    <3>2. Promise!Abandon
      BY <3>1 DEF Promise!Abandon
    <3>3. PromiseInv'
      <4>1. CASE phase = "open"
        <5>1. Idle /\ Len(inbox) <= 1
          BY <3>1, <4>1 DEF PromiseInv
        <5>2. Tail(inbox) = << >>
          BY <3>1, <5>1 DEF TypeOK
        <5>3. QED
          BY <3>1, <4>1, <5>1, <5>2 DEF PromiseInv, Idle
      <4>2. CASE phase # "open"
        BY <3>1, <4>2 DEF PromiseInv, Idle
      <4>3. QED
        BY <4>1, <4>2
    <3>4. QED
      BY <3>2, <3>3 DEF Promise!Next
  <2>3. QED
    BY <2>1, <2>2
<1>4. CASE StopForPreferences
  <2>1. processes' = {} /\ pool' = << >> /\ Steps' = << >> /\ phase' = "dialog"
    <3>1. Steps # << >> /\ phase = "open"
      BY <1>4 DEF StopForPreferences, RunningInv, RunningHasSteps
    <3>2. processes \subseteq Stopped
      BY <3>1 DEF PromiseInv, Stopped, OwnedFirst, Idle
    <3>3. QED
      BY <1>4, <3>2 DEF StopForPreferences, StopSequence
  <2>2. Working' = {}
    BY <2>1, ElementsOfShort
  <2>3. Promise!Abandon
    BY <2>1, <2>2 DEF Promise!Abandon
  <2>4. QED
    BY <2>1, <2>3 DEF PromiseInv, Idle, Promise!Next
<1>5. CASE StopForProjects
  BY <1>5 DEF StopForProjects
<1>6. CASE CloseDialog
  <2>1. UNCHANGED <<Steps, processes, pool>>
    BY <1>6 DEF CloseDialog
  <2>2. PromiseInv'
    BY <1>6 DEF CloseDialog, PromiseInv, Idle
  <2>3. QED
    BY <2>1, <2>2
<1>7. CASE CloseMainFrame
  <2>1. /\ Steps' = << >> /\ pool' = pool /\ phase = "open" /\ phase' = "closing"
        /\ processes' = processes \ Stopped
    BY <1>7 DEF CloseMainFrame, StopSequence
  <2>2. processes \subseteq Stopped /\ Len(pool) <= 1
    <3>1. processes \subseteq Stopped
      BY <2>1 DEF PromiseInv, Stopped, OwnedFirst, Idle
    <3>2. pool = << >> \/ pool = <<Head(Steps)>>
      BY <2>1 DEF PromiseInv, Idle
    <3>3. pool = << >> \/ \E step : pool = <<step>>
      BY <3>2, Zenon
    <3>4. Len(pool) <= 1
      <4>1. Len(<< >>) <= 1 /\ \A step : Len(<<step>>) <= 1
        OBVIOUS
      <4>2. QED
        BY <3>3, <4>1, Zenon
    <3>5. QED
      BY <3>1, <3>4
  <2>3. Promise!Abandon
    BY <2>1 DEF Promise!Abandon
  <2>4. QED
    BY <2>1, <2>2, <2>3 DEF PromiseInv, Promise!Next
<1>8. CASE Exit
  <2>1. /\ Steps' = << >> /\ pool' = << >> /\ phase = "closing" /\ phase' = "exited"
        /\ processes' = processes \ Stopped
    BY <1>8 DEF Exit, StopSequence
  <2>2. processes' = {} /\ Len(pool') <= 1
    BY <2>1 DEF PromiseInv
  <2>3. Promise!Abandon
    BY <2>1, <2>2, ElementsOfShort DEF Promise!Abandon
  <2>4. QED
    BY <2>1, <2>2, <2>3 DEF PromiseInv, Promise!Next
<1>9. CASE FileRetagged
  BY <1>9 DEF FileRetagged, TypeOK
<1>10. CASE PoolCompletes
  <2>1. /\ pool # << >> /\ pool' = Tail(pool) /\ inbox' = Append(inbox, Head(pool))
        /\ UNCHANGED <<Steps, processes, phase>>
    BY <1>10 DEF PoolCompletes
  <2>2. processes = {} /\ Len(pool) <= 1
    BY <2>1 DEF PromiseInv, Idle
  <2>3. Tail(pool) = << >>
    BY <2>1, <2>2 DEF TypeOK
  <2>4. Working' = {}
    BY <2>1, <2>2, <2>3, ElementsOfShort
  <2>5. Head(pool) \in Working
    BY <2>1, ElementsOfHeadTail DEF TypeOK
  <2>6. Promise!Finish
    BY <2>1, <2>4, <2>5 DEF Promise!Finish
  <2>7. PromiseInv'
    <3>1. CASE phase = "open"
      <4>1. Steps # << >> /\ inbox = << >>
        BY <2>1, <3>1 DEF PromiseInv, Idle
      <4>2. Len(inbox') <= 1
        BY <2>1, <4>1
      <4>3. QED
        BY <2>1, <2>2, <2>3, <3>1, <4>1, <4>2 DEF PromiseInv, Idle
    <3>2. CASE phase # "open"
      BY <2>1, <2>2, <2>3, <3>2 DEF PromiseInv, Idle
    <3>3. QED
      BY <3>1, <3>2
  <2>8. QED
    BY <2>6, <2>7 DEF Promise!Next
<1>11. ASSUME NEW s \in processes, DetectorCompletes(s)
       PROVE  PromiseInv' /\ [Promise!Next]_(Promise!vars)
  <2>1. /\ phase = "open" /\ Steps # << >> /\ pool = << >> /\ processes = {s}
        /\ inbox = << >>
    BY DEF PromiseInv, Idle
  <2>2. /\ processes' = {} /\ inbox' = Append(<< >>, s)
        /\ UNCHANGED <<Steps, pool, phase>>
    BY <1>11, <2>1 DEF DetectorCompletes
  <2>3. Len(inbox') <= 1
    BY <2>2
  <2>4. Working' = {} /\ s \in Working
    BY <2>1, <2>2, ElementsOfShort
  <2>5. Promise!Finish
    BY <2>2, <2>4 DEF Promise!Finish
  <2>6. QED
    BY <2>1, <2>2, <2>3, <2>5 DEF PromiseInv, Idle, Promise!Next
<1>12. ASSUME NEW s \in processes, DetectorNotRestarted(s)
       PROVE  PromiseInv' /\ [Promise!Next]_(Promise!vars)
  <2>1. /\ phase = "open" /\ Steps # << >> /\ pool = << >> /\ processes = {s}
        /\ inbox = << >>
    BY DEF PromiseInv, Idle
  <2>2. processes' = {} /\ UNCHANGED <<Steps, pool, phase, inbox>>
    BY <1>12, <2>1 DEF DetectorNotRestarted
  <2>3. Len(inbox') <= 1
    BY <2>1, <2>2
  <2>4. Working' = {} /\ s \in Working
    BY <2>1, <2>2, ElementsOfShort
  <2>5. Promise!Finish
    BY <2>2, <2>4 DEF Promise!Finish
  <2>6. QED
    BY <2>1, <2>2, <2>3, <2>5 DEF PromiseInv, Idle, Promise!Next
<1>13. CASE UNCHANGED vars
  BY <1>13 DEF vars, PromiseInv, Idle
<1>14. QED
  BY <1>1, <1>2, <1>3, <1>4, <1>5, <1>6, <1>7, <1>8, <1>9, <1>10, <1>11,
     <1>12, <1>13 DEF Next, Gui, Background

\* SequenceClass runs the steps of one sequence after another, in the order
\* they are given and never two at once (SequenceClass.h:51), when neither a
\* file is tagged again on its pool nor a projects dialog stops a sequence.
THEOREM SequenceKeepsItsPromise ==
    ASSUME MaxRetags = 0, ~ProjectsDialog
    PROVE  Spec => KeepsPromise
<1>1. SequenceAssumption
  BY SequenceAssumption
<1>2. Init => PromiseInv /\ Promise!Init
  <2>1. ASSUME Init PROVE Working = {}
    BY <2>1, ElementsOfShort DEF Init, Working
  <2>2. QED
    BY <2>1 DEF Init, PromiseInv, Idle, Promise!Init, Working
<1>3. QED
  BY <1>1, <1>2, PromiseStep, SequenceTypeCorrect, RunningInvInvariant, PTL
  DEF Spec, KeepsPromise, Promise!Spec

-----------------------------------------------------------------------------
(* Who owns the action objects.                                            *)

Distinct(s) == \A m, n \in DOMAIN s : s[m] = s[n] => m = n

\* The sequence and the pool hold disjoint sets of live objects, the external
\* process belongs to the current step, and nothing that was created is lost; an
\* object that is created next is none of them.
OwnInv ==
    /\ Distinct(Steps)
    /\ Distinct(pool)
    /\ Steps # << >> => IsCurrentStepAsync = DoAsync(Head(Steps).type)
    /\ Stopped \cap (deleted \cup Elements(pool)) = {}
    /\ Elements(pool) \cap deleted = {}
    /\ processes \subseteq OwnedFirst
    /\ Elements(Steps) \cup Elements(pool) \cup deleted \subseteq created
    /\ created \subseteq deleted \cup refused \cup Stopped \cup Elements(pool)
    /\ \A o \in created : o.seq <= sequences /\ (o.seq = 0 => o.n <= retags)

Passed(s, k) == {s[n] : n \in 1 .. k}
After(s, k) == SubSeq(s, k + 1, Len(s))

\* Splitting a sequence of distinct elements.
LEMMA SplitOfDistinct ==
    ASSUME NEW S, NEW s \in Seq(S), Distinct(s), NEW k \in 0 .. Len(s)
    PROVE  /\ After(s, k) \in Seq(S) /\ Distinct(After(s, k))
           /\ Elements(s) = Passed(s, k) \cup Elements(After(s, k))
           /\ Passed(s, k) \cap Elements(After(s, k)) = {}
<1> DEFINE passed == Passed(s, k)
           rest == After(s, k)
<1> USE DEF Passed, After
<1>1. PICK len \in Nat : len = Len(s) /\ DOMAIN s = 1 .. len /\ k \in 0 .. len
  OBVIOUS
<1>2. /\ DOMAIN rest = 1 .. len - k
      /\ \A n \in 1 .. len - k : rest[n] = s[k + n]
  BY <1>1
<1>3. \A n \in 1 .. len - k : k + n \in 1 .. len /\ k + n \notin 1 .. k
  BY <1>1
<1>4. \A n \in 1 .. len : n \in 1 .. k \/ (n - k \in 1 .. len - k /\ k + (n - k) = n)
  BY <1>1
<1>5. Elements(rest) = {s[k + n] : n \in 1 .. len - k}
  BY <1>2 DEF Elements
<1>6. Distinct(rest)
  <2>1. ASSUME NEW m \in 1 .. len - k, NEW n \in 1 .. len - k, rest[m] = rest[n]
        PROVE  m = n
    <3>1. s[k + m] = s[k + n]
      BY <1>2, <2>1
    <3>2. k + m = k + n
      BY <1>1, <1>3, <3>1 DEF Distinct
    <3>3. QED
      BY <1>1, <3>2
  <2>2. QED
    BY <1>2, <2>1 DEF Distinct
<1>7. passed \cap Elements(rest) = {}
  <2>1. ASSUME NEW m \in 1 .. k, NEW n \in 1 .. len - k PROVE s[m] # s[k + n]
    <3>1. m \in 1 .. len /\ m # k + n
      BY <1>1, <1>3
    <3>2. QED
      BY <1>1, <1>3, <3>1 DEF Distinct
  <2>2. QED
    BY <1>5, <2>1
<1>8. Elements(s) = passed \cup Elements(rest)
  <2>1. Elements(s) = {s[n] : n \in 1 .. len}
    BY <1>1 DEF Elements
  <2>2. 1 .. k \subseteq 1 .. len
    BY <1>1
  <2>3. ASSUME NEW n \in 1 .. len PROVE s[n] \in passed \cup Elements(rest)
    BY <1>4, <1>5
  <2>4. passed \subseteq Elements(s)
    BY <2>1, <2>2
  <2>5. Elements(rest) \subseteq Elements(s)
    BY <1>3, <1>5, <2>1
  <2>6. QED
    BY <2>1, <2>3, <2>4, <2>5
<1>9. rest \in Seq(S)
  OBVIOUS
<1>10. QED
  BY <1>6, <1>7, <1>8, <1>9

LEMMA HeadOfDistinct ==
    ASSUME NEW S, NEW s \in Seq(S), Distinct(s), s # << >>
    PROVE  Distinct(Tail(s)) /\ Head(s) \notin Elements(Tail(s))
<1>1. PICK len \in Nat : len = Len(s) /\ DOMAIN s = 1 .. len /\ len > 0
  OBVIOUS
<1>2. /\ DOMAIN Tail(s) = 1 .. len - 1 /\ Head(s) = s[1]
      /\ \A n \in 1 .. len - 1 : Tail(s)[n] = s[n + 1]
  BY <1>1
<1>3. \A n \in 1 .. len - 1 : n + 1 \in 1 .. len /\ n + 1 # 1
  BY <1>1
<1>4. 1 \in 1 .. len
  BY <1>1
<1>5. \A n \in 1 .. len - 1 : Tail(s)[n] # s[1]
  BY <1>1, <1>2, <1>3, <1>4 DEF Distinct
<1>6. ASSUME NEW m \in 1 .. len - 1, NEW n \in 1 .. len - 1, Tail(s)[m] = Tail(s)[n]
      PROVE  m = n
  <2>1. m + 1 = n + 1
    BY <1>1, <1>2, <1>3, <1>6 DEF Distinct
  <2>2. QED
    BY <1>1, <2>1
<1>7. QED
  BY <1>2, <1>5, <1>6 DEF Distinct, Elements

LEMMA AppendToDistinct ==
    ASSUME NEW S, NEW s \in Seq(S), Distinct(s), NEW x, x \notin Elements(s)
    PROVE  Distinct(Append(s, x))
<1>1. PICK len \in Nat : len = Len(s) /\ DOMAIN s = 1 .. len
  OBVIOUS
<1>2. /\ DOMAIN Append(s, x) = 1 .. len + 1
      /\ \A n \in 1 .. len : Append(s, x)[n] = s[n]
      /\ Append(s, x)[len + 1] = x
  BY <1>1
<1>3. \A n \in 1 .. len + 1 : n \in 1 .. len \/ n = len + 1
  BY <1>1
<1>4. \A n \in 1 .. len : s[n] # x
  BY <1>1 DEF Elements
<1>5. QED
  BY <1>1, <1>2, <1>3, <1>4 DEF Distinct

\* What the sequence owns: the steps, but for a first one that the pool owns.
LEMMA StoppedSteps ==
    ASSUME Steps \in Seq(Object), IsCurrentStepAsync \in BOOLEAN
    PROVE  /\ Steps = << >> => Stopped = {} /\ OwnedFirst = {}
           /\ Steps # << >> /\ IsCurrentStepAsync =>
                  Stopped = Elements(Tail(Steps)) /\ OwnedFirst = {}
           /\ Steps # << >> /\ ~IsCurrentStepAsync =>
                  Stopped = Elements(Steps) /\ OwnedFirst = {Head(Steps)}
           /\ Steps # << >> => Elements(Steps) = {Head(Steps)} \cup Elements(Tail(Steps))
           /\ OwnedFirst \subseteq Stopped /\ Stopped \subseteq Elements(Steps)
<1>1. Steps # << >> => Elements(Steps) = {Head(Steps)} \cup Elements(Tail(Steps))
  BY ElementsOfHeadTail
<1>2. QED
  BY <1>1 DEF Stopped, OwnedFirst

\* RunNextStep hands every step over to the pool, to the steps that are left, or
\* to those that are deleted, and to one of them only.
LEMMA RunNextStepHandsOver ==
    ASSUME TypeOK, TypeOK',
           NEW steps \in Seq(Object), Distinct(steps), steps # << >>,
           NEW finished, NEW pending, NEW posted,
           Elements(steps) \cap (deleted \cup finished \cup Elements(pool)) = {},
           Elements(pool) \cap (deleted \cup finished) = {},
           Distinct(pool), processes \subseteq finished,
           RunNextStep(steps, finished, pending, posted)
    PROVE  /\ Distinct(Steps') /\ Distinct(pool')
           /\ Steps' # << >> => IsCurrentStepAsync' = DoAsync(Head(Steps').type)
           /\ Stopped' \cap (deleted' \cup Elements(pool')) = {}
           /\ Elements(pool') \cap deleted' = {}
           /\ processes' \subseteq OwnedFirst'
           /\ Elements(Steps') \cup Elements(pool') \cup deleted' \subseteq
                  Elements(steps) \cup Elements(pool) \cup deleted \cup finished
           /\ Elements(steps) \cup Elements(pool) \cup deleted \cup finished \subseteq
                  deleted' \cup Stopped' \cup Elements(pool')
<1>1. PICK k \in 0 .. Len(steps) :
          /\ Steps' = After(steps, k)
          /\ IsCurrentStepAsync' = DoAsync(IF After(steps, k) = << >> THEN steps[k].type
                                                     ELSE After(steps, k)[1].type)
          /\ DeletePassed(finished, Passed(steps, k))
          /\ pool' = IF FirstIs(After(steps, k), Asynchronous)
                     THEN Append(pool, Head(After(steps, k))) ELSE pool
          /\ processes' = (processes \ finished) \cup
                 (IF FirstIs(After(steps, k), Detector) THEN {Head(After(steps, k))} ELSE {})
  BY DEF RunNextStep, Passed, After
<1> DEFINE passed == Passed(steps, k)
           rest == After(steps, k)
<1>2. /\ rest \in Seq(Object) /\ Distinct(rest)
      /\ Elements(steps) = passed \cup Elements(rest)
      /\ passed \cap Elements(rest) = {}
  BY SplitOfDistinct
<1>3. /\ Steps' = rest
      /\ rest # << >> => IsCurrentStepAsync' = DoAsync(rest[1].type)
      /\ deleted' = deleted \cup finished \cup passed
      /\ pool' = IF FirstIs(rest, Asynchronous) THEN Append(pool, Head(rest)) ELSE pool
      /\ processes' = IF FirstIs(rest, Detector) THEN {Head(rest)} ELSE {}
  BY <1>1 DEF DeletePassed
<1> HIDE DEF passed, rest
<1>4. CASE rest = << >>
  <2>1. pool' = pool /\ processes' = {} /\ Steps' = << >>
    BY <1>3, <1>4 DEF FirstIs
  <2>2. Stopped' = {} /\ OwnedFirst' = {}
    BY <2>1 DEF Stopped, OwnedFirst
  <2>3. Elements(rest) = {} /\ Distinct(Steps')
    BY <1>2, <1>3, <1>4, ElementsOfShort
  <2>4. QED
    BY <1>2, <1>3, <2>1, <2>2, <2>3
<1>5. CASE rest # << >>
  <2> DEFINE h == Head(rest)
  <2>1. h = rest[1] /\ h \in Object /\ h \in Elements(rest)
    <3>1. h = rest[1] /\ h \in Object
      BY <1>2, <1>5
    <3>2. QED
      BY <1>2, <1>5, <3>1, ElementsOfHeadTail
  <2>2. Elements(rest) = {h} \cup Elements(Tail(rest)) /\ h \notin Elements(Tail(rest))
    BY <1>2, <1>5, ElementsOfHeadTail, HeadOfDistinct
  <2>3. /\ pool' = IF h.type \in Asynchronous THEN Append(pool, h) ELSE pool
        /\ processes' = IF h.type \in Detector THEN {h} ELSE {}
        /\ IsCurrentStepAsync' = DoAsync(h.type)
        /\ Steps' # << >> /\ Head(Steps') = h
    BY <1>3, <1>5, <2>1 DEF FirstIs
  <2>4. h.type \in ActionType
    BY <2>1 DEF Object
  <2> HIDE DEF h
  <2>5. CASE DoAsync(h.type)
    <3>1. h.type \in Asynchronous /\ h.type \notin Detector
      BY <2>4, <2>5 DEF Asynchronous, DoAsync
    <3>2. pool' = Append(pool, h) /\ processes' = {} /\ IsCurrentStepAsync'
      BY <2>3, <2>5, <3>1
    <3>3. pool \in Seq(OfType(ActionType \ (Initializer \cup Detector)))
      BY DEF TypeOK
    <3>4. Elements(pool') = Elements(pool) \cup {h}
      BY <3>2, <3>3, ElementsOfAppend
    <3>5. Distinct(pool')
      <4>1. h \notin Elements(pool)
        BY <1>2, <2>1
      <4>2. QED
        BY <3>2, <3>3, <4>1, AppendToDistinct
    <3>6. Stopped' = Elements(Tail(rest)) /\ OwnedFirst' = {}
      BY <1>3, <1>5, <3>2 DEF Stopped, OwnedFirst
    <3>7. Stopped' \cap (deleted' \cup Elements(pool')) = {}
      BY <1>2, <1>3, <2>2, <3>4, <3>6
    <3>8. Elements(pool') \cap deleted' = {}
      BY <1>2, <1>3, <2>2, <3>4
    <3>9. QED
      BY <1>2, <1>3, <2>2, <2>3, <2>5, <3>2, <3>4, <3>5, <3>6, <3>7, <3>8
  <2>6. CASE ~DoAsync(h.type)
    <3>1. h.type \notin Asynchronous
      BY <2>6 DEF Asynchronous
    <3>2. pool' = pool /\ processes' \subseteq {h} /\ ~IsCurrentStepAsync'
      BY <2>3, <2>6, <3>1
    <3>3. OwnedFirst' = {h} /\ Stopped' = Elements(rest)
      BY <1>3, <1>5, <2>2, <2>3, <3>2 DEF Stopped, OwnedFirst
    <3>4. QED
      BY <1>2, <1>3, <2>3, <3>2, <3>3
  <2>7. QED
    BY <2>5, <2>6
<1>6. QED
  BY <1>4, <1>5

\* The steps of a new sequence are new objects, and different from each other.
LEMMA StepsOfAreNew ==
    ASSUME SequenceAssumption, TypeOK, OwnInv, sequences < MaxSequences, NEW p \in DOMAIN Program
    PROVE  /\ Distinct(StepsOf(p)) /\ StepsOf(p) # << >>
           /\ \A o \in Elements(StepsOf(p)) : o.seq = sequences + 1 /\ o.seq # 0
           /\ Elements(StepsOf(p)) \cap created = {}
<1>1. /\ DOMAIN StepsOf(p) = DOMAIN Program[p]
      /\ \A n \in DOMAIN Program[p] :
             StepsOf(p)[n] = [seq |-> sequences + 1, n |-> n, type |-> Program[p][n]]
  BY DEF StepsOf
<1>2. Distinct(StepsOf(p))
  BY <1>1 DEF Distinct
<1>3. sequences \in Nat
  BY DEF TypeOK, SequenceAssumption
<1>4. \A o \in Elements(StepsOf(p)) : o.seq = sequences + 1
  BY <1>1 DEF Elements
<1>5. StepsOf(p) # << >>
  <2>1. \A q \in DOMAIN Program : 1 \in DOMAIN Program[q]
    BY DEF Program
  <2>2. 1 \in DOMAIN StepsOf(p)
    BY <1>1, <2>1
  <2>3. QED
    BY <2>2
<1>6. sequences + 1 # 0 /\ ~(sequences + 1 <= sequences)
  BY <1>3
<1>7. QED
  BY <1>2, <1>4, <1>5, <1>6 DEF OwnInv

\* A step that gives up all steps and deletes what the sequence owns, and with
\* it perhaps what the pool has, leaves nobody without an owner.
LEMMA StoppingHandsOver ==
    ASSUME TypeOK, OwnInv, NEW dropped \in {{}, Elements(pool)},
           Steps' = << >>, processes' = processes \ Stopped,
           deleted' = deleted \cup Stopped \cup dropped,
           pool' = IF dropped = {} THEN pool ELSE << >>,
           UNCHANGED <<sequences, retags, created, refused>>
    PROVE  OwnInv'
<1>1. Stopped' = {} /\ OwnedFirst' = {} /\ Elements(Steps') = {}
  BY ElementsOfShort DEF Stopped, OwnedFirst
<1>2. processes' = {}
  BY StoppedSteps DEF TypeOK, OwnInv
<1>3. Elements(pool') = Elements(pool) \ dropped
  BY ElementsOfShort
<1>4. Distinct(pool') /\ Distinct(Steps')
  BY DEF OwnInv, Distinct
<1>5. Stopped \subseteq created
  BY StoppedSteps DEF TypeOK, OwnInv
<1>6. QED
  BY <1>1, <1>2, <1>3, <1>4, <1>5 DEF OwnInv

\* Every step of the sequencer, of the pool and of the dialogs keeps the owners
\* apart.
LEMMA OwnStep ==
    ASSUME SequenceAssumption, TypeOK, TypeOK', RunningInv, OwnInv, [Next]_vars
    PROVE  OwnInv'
<1>0. Steps \in Seq(Object) /\ IsCurrentStepAsync \in BOOLEAN
      /\ pool \in Seq(OfType(ActionType \ (Initializer \cup Detector)))
  BY DEF TypeOK
<1>1. ASSUME NEW p \in Programs, Start(p) PROVE OwnInv'
  <2>1. Steps = << >> /\ p \in DOMAIN Program /\ sequences < MaxSequences
    BY <1>1 DEF Start, RunningInv, RunningHasSteps, SequenceAssumption
  <2>2. /\ Distinct(StepsOf(p)) /\ StepsOf(p) # << >>
        /\ \A o \in Elements(StepsOf(p)) : o.seq = sequences + 1 /\ o.seq # 0
        /\ Elements(StepsOf(p)) \cap created = {}
    BY <2>1, StepsOfAreNew
  <2>3. StepsOf(p) \in Seq(Object)
    BY <2>1, StepsOfIsTyped DEF TypeOK
  <2>4. Steps \o StepsOf(p) = StepsOf(p)
    BY <2>1, <2>3
  <2>5. /\ RunNextStep(StepsOf(p), {}, inbox, "start")
        /\ sequences' = sequences + 1 /\ created' = created \cup Elements(StepsOf(p))
        /\ UNCHANGED <<retags, refused>>
    BY <1>1, <2>4 DEF Start
  <2>6. processes = {} /\ Stopped = {}
    BY <2>1 DEF OwnInv, OwnedFirst, Stopped
  <2>7. Elements(StepsOf(p)) \cap (deleted \cup {} \cup Elements(pool)) = {}
        /\ Elements(pool) \cap (deleted \cup {}) = {} /\ Distinct(pool)
    BY <2>2 DEF OwnInv
  <2>8. /\ Distinct(Steps') /\ Distinct(pool')
        /\ Steps' # << >> => IsCurrentStepAsync' = DoAsync(Head(Steps').type)
        /\ Stopped' \cap (deleted' \cup Elements(pool')) = {}
        /\ Elements(pool') \cap deleted' = {}
        /\ processes' \subseteq OwnedFirst'
        /\ Elements(Steps') \cup Elements(pool') \cup deleted' \subseteq
               Elements(StepsOf(p)) \cup Elements(pool) \cup deleted \cup {}
        /\ Elements(StepsOf(p)) \cup Elements(pool) \cup deleted \cup {} \subseteq
               deleted' \cup Stopped' \cup Elements(pool')
    BY <2>2, <2>3, <2>5, <2>6, <2>7, RunNextStepHandsOver
  <2>9. Elements(Steps') \cup Elements(pool') \cup deleted' \subseteq created'
    BY <2>5, <2>8 DEF OwnInv
  <2>10. created' \subseteq deleted' \cup refused' \cup Stopped' \cup Elements(pool')
    BY <2>5, <2>6, <2>8 DEF OwnInv
  <2>11. \A o \in created' : o.seq <= sequences' /\ (o.seq = 0 => o.n <= retags')
    <3>1. sequences \in Nat /\ \A o \in created : o.seq \in Nat
      BY DEF TypeOK, Object, SequenceAssumption
    <3>2. \A o \in created : o.seq <= sequences + 1
      BY <3>1 DEF OwnInv
    <3>3. QED
      BY <2>2, <2>5, <3>1, <3>2 DEF OwnInv
  <2>12. QED
    BY <2>8, <2>9, <2>10, <2>11 DEF OwnInv
<1>2. ASSUME NEW p \in Programs, BuildRefused(p) PROVE OwnInv'
  <2>1. p \in DOMAIN Program /\ sequences < MaxSequences
    BY <1>2 DEF BuildRefused, SequenceAssumption
  <2>2. \A o \in Elements(StepsOf(p)) : o.seq = sequences + 1 /\ o.seq # 0
    BY <2>1, StepsOfAreNew
  <2>3. /\ sequences' = sequences + 1 /\ created' = created \cup Elements(StepsOf(p))
        /\ refused' = refused \cup Elements(StepsOf(p))
        /\ UNCHANGED <<Steps, IsCurrentStepAsync, retags, pool, processes, deleted>>
    BY <1>2 DEF BuildRefused
  <2>4. Stopped' = Stopped /\ OwnedFirst' = OwnedFirst
    BY <2>3 DEF Stopped, OwnedFirst
  <2>5. \A o \in created' : o.seq <= sequences' /\ (o.seq = 0 => o.n <= retags')
    <3>1. sequences \in Nat /\ \A o \in created : o.seq \in Nat
      BY DEF TypeOK, Object, SequenceAssumption
    <3>2. \A o \in created : o.seq <= sequences + 1
      BY <3>1 DEF OwnInv
    <3>3. QED
      BY <2>2, <2>3, <3>1, <3>2 DEF OwnInv
  <2>6. QED
    BY <2>3, <2>4, <2>5 DEF OwnInv
<1>3. CASE OnActionComplete
  <2>1. UNCHANGED <<sequences, retags, created, refused>>
    BY <1>3 DEF OnActionComplete
  <2>2. CASE Len(Steps) > 1
    <3>1. Steps # << >> /\ Tail(Steps) \in Seq(Object) /\ Tail(Steps) # << >>
      BY <1>0, <2>2
    <3>2. RunNextStep(Tail(Steps), OwnedFirst, Tail(inbox), gauge)
      BY <1>3, <2>2 DEF OnActionComplete
    <3>3. Distinct(Tail(Steps)) /\ Head(Steps) \notin Elements(Tail(Steps))
      BY <1>0, <3>1, HeadOfDistinct DEF OwnInv
    <3>4. /\ OwnedFirst \subseteq {Head(Steps)}
          /\ Stopped = OwnedFirst \cup Elements(Tail(Steps))
          /\ Stopped \subseteq Elements(Steps)
          /\ Elements(Steps) = {Head(Steps)} \cup Elements(Tail(Steps))
      BY <1>0, <3>1, StoppedSteps DEF Stopped, OwnedFirst
    <3>5. /\ Elements(Tail(Steps)) \cap (deleted \cup OwnedFirst \cup Elements(pool)) = {}
          /\ Elements(pool) \cap (deleted \cup OwnedFirst) = {}
          /\ Distinct(pool) /\ processes \subseteq OwnedFirst
      BY <3>3, <3>4 DEF OwnInv
    <3>6. /\ Distinct(Steps') /\ Distinct(pool')
          /\ Steps' # << >> => IsCurrentStepAsync' = DoAsync(Head(Steps').type)
          /\ Stopped' \cap (deleted' \cup Elements(pool')) = {}
          /\ Elements(pool') \cap deleted' = {}
          /\ processes' \subseteq OwnedFirst'
          /\ Elements(Steps') \cup Elements(pool') \cup deleted' \subseteq
                 Elements(Tail(Steps)) \cup Elements(pool) \cup deleted \cup OwnedFirst
          /\ Elements(Tail(Steps)) \cup Elements(pool) \cup deleted \cup OwnedFirst \subseteq
                 deleted' \cup Stopped' \cup Elements(pool')
      BY <3>1, <3>2, <3>3, <3>5, RunNextStepHandsOver
    <3>7. Elements(Steps') \cup Elements(pool') \cup deleted' \subseteq created'
      BY <2>1, <3>4, <3>6 DEF OwnInv
    <3>8. created' \subseteq deleted' \cup refused' \cup Stopped' \cup Elements(pool')
      BY <2>1, <3>4, <3>6 DEF OwnInv
    <3>9. QED
      BY <2>1, <3>6, <3>7, <3>8 DEF OwnInv
  <2>3. CASE ~(Len(Steps) > 1)
    <3>1. /\ Steps' = << >> /\ pool' = pool /\ deleted' = deleted \cup OwnedFirst
          /\ processes' = processes \ OwnedFirst
      BY <1>3, <2>3 DEF OnActionComplete
    <3>2. Stopped = OwnedFirst
      <4>1. Steps # << >> => Tail(Steps) = << >>
        BY <1>0, <2>3
      <4>2. QED
        BY <4>1, ElementsOfShort DEF Stopped, OwnedFirst
    <3>3. QED
      BY <2>1, <3>1, <3>2, StoppingHandsOver
  <2>4. QED
    BY <2>2, <2>3
<1>4. CASE StopForPreferences
  <2>1. pool = << >> => Elements(pool) = {}
    BY ElementsOfShort
  <2>2. pool' = IF Elements(pool) = {} THEN pool ELSE << >>
    <3>1. pool # << >> => Head(pool) \in Elements(pool)
      BY <1>0, ElementsOfHeadTail
    <3>2. QED
      BY <1>4, <2>1, <3>1 DEF StopForPreferences
  <2>3. QED
    BY <1>4, <2>2, StoppingHandsOver DEF StopForPreferences, StopSequence
<1>5. CASE StopForProjects
  BY <1>5, StoppingHandsOver DEF StopForProjects, StopSequence
<1>6. CASE CloseDialog
  BY <1>6 DEF CloseDialog, OwnInv, Stopped, OwnedFirst
<1>7. CASE CloseMainFrame
  BY <1>7, StoppingHandsOver DEF CloseMainFrame, StopSequence
<1>8. CASE Exit
  <2>1. pool' = IF Elements(pool) = {} THEN pool ELSE << >>
    <3>1. pool # << >> => Head(pool) \in Elements(pool)
      BY <1>0, ElementsOfHeadTail
    <3>2. QED
      BY <1>8, <3>1 DEF Exit
  <2>2. QED
    BY <1>8, <2>1, StoppingHandsOver DEF Exit, StopSequence
<1>9. CASE FileRetagged
  <2> DEFINE action == [seq |-> 0, n |-> retags + 1, type |-> "ProjectTagSingleFile"]
  <2>1. /\ retags' = retags + 1 /\ created' = created \cup {action}
        /\ pool' = Append(pool, action)
        /\ UNCHANGED <<Steps, IsCurrentStepAsync, sequences, processes, deleted, refused>>
    BY <1>9 DEF FileRetagged
  <2>2. action.seq = 0 /\ action.n = retags + 1 /\ retags \in Nat /\ sequences \in Nat
    BY DEF TypeOK, SequenceAssumption
  <2> HIDE DEF action
  <2>3. action \notin created
    BY <2>2 DEF OwnInv
  <2>4. Elements(pool') = Elements(pool) \cup {action}
    BY <1>0, <2>1, ElementsOfAppend
  <2>5. action \notin Elements(pool) \cup Elements(Steps) \cup deleted
    BY <2>3 DEF OwnInv
  <2>6. Distinct(pool')
    BY <1>0, <2>1, <2>5, AppendToDistinct DEF OwnInv
  <2>7. Stopped' = Stopped /\ OwnedFirst' = OwnedFirst /\ Stopped \subseteq Elements(Steps)
    BY <1>0, <2>1, StoppedSteps DEF Stopped, OwnedFirst
  <2>8. \A o \in created' : o.seq <= sequences' /\ (o.seq = 0 => o.n <= retags')
    <3>1. \A o \in created : o.n \in Nat
      BY DEF TypeOK, Object
    <3>2. QED
      BY <2>1, <2>2, <3>1 DEF OwnInv
  <2>9. /\ Stopped' \cap (deleted' \cup Elements(pool')) = {}
        /\ Elements(pool') \cap deleted' = {}
        /\ Elements(Steps') \cup Elements(pool') \cup deleted' \subseteq created'
        /\ created' \subseteq deleted' \cup refused' \cup Stopped' \cup Elements(pool')
    BY <2>1, <2>4, <2>5, <2>7 DEF OwnInv
  <2>10. QED
    BY <2>1, <2>6, <2>7, <2>8, <2>9 DEF OwnInv
<1>10. CASE PoolCompletes
  <2>1. /\ pool # << >> /\ pool' = Tail(pool) /\ deleted' = deleted \cup {Head(pool)}
        /\ UNCHANGED <<Steps, IsCurrentStepAsync, sequences, retags, processes, created, refused>>
    BY <1>10 DEF PoolCompletes
  <2>2. Elements(pool) = {Head(pool)} \cup Elements(pool')
    BY <1>0, <2>1, ElementsOfHeadTail
  <2>3. Distinct(pool') /\ Head(pool) \notin Elements(pool')
    BY <1>0, <2>1, HeadOfDistinct DEF OwnInv
  <2>4. Stopped' = Stopped /\ OwnedFirst' = OwnedFirst
    BY <2>1 DEF Stopped, OwnedFirst
  <2>5. /\ Stopped' \cap (deleted' \cup Elements(pool')) = {}
        /\ Elements(pool') \cap deleted' = {}
        /\ Elements(Steps') \cup Elements(pool') \cup deleted' \subseteq created'
        /\ created' \subseteq deleted' \cup refused' \cup Stopped' \cup Elements(pool')
    BY <2>1, <2>2, <2>3, <2>4 DEF OwnInv
  <2>6. QED
    BY <2>1, <2>3, <2>4, <2>5 DEF OwnInv
<1>11. ASSUME NEW s \in processes, DetectorCompletes(s) \/ DetectorNotRestarted(s)
       PROVE  OwnInv'
  BY <1>11 DEF DetectorCompletes, DetectorNotRestarted, OwnInv, Stopped, OwnedFirst
<1>12. CASE UNCHANGED vars
  BY <1>12 DEF vars, OwnInv, Stopped, OwnedFirst
<1>13. QED
  BY <1>1, <1>2, <1>3, <1>4, <1>5, <1>6, <1>7, <1>8, <1>9, <1>10, <1>11,
     <1>12 DEF Next, Gui, Background

\* No action object is deleted twice, used after its deletion or lost, however
\* the sequence, the pool and the dialogs hand it to each other and completions
\* of other actions move the sequence on.
THEOREM EveryStepHasOneOwner == Spec => []StepsHaveOneOwner
<1>1. SequenceAssumption
  BY SequenceAssumption
<1>2. Init => OwnInv
  BY ElementsOfShort DEF Init, OwnInv, Distinct, Stopped, OwnedFirst
<1>3. ASSUME TypeOK, OwnInv PROVE StepsHaveOneOwner
  <2>1. OwnedFirst \cup Stopped = Stopped
    BY <1>3, StoppedSteps DEF TypeOK
  <2>2. OneOwner
    BY <1>3, <2>1 DEF OwnInv, OneOwner, Distinct
  <2>3. QED
    BY <1>3, <2>2 DEF OwnInv, NothingLeaks, StepsHaveOneOwner
<1>4. QED
  BY <1>1, <1>2, <1>3, OwnStep, SequenceTypeCorrect, RunningInvInvariant, PTL DEF Spec

-----------------------------------------------------------------------------
(***************************************************************************)
(* The tag database.                                                       *)
(***************************************************************************)

Sound(d) ==
    /\ IdsAreUnique(d) /\ SourcesAreKept(d) /\ NamespacesAreNotRepeated(d)
    /\ TraitsAreKept(d)

Neat(d) == TagsHaveTheirFile(d) /\ TagsAreOfOneText(d)

-----------------------------------------------------------------------------
(***************************************************************************)
(* The operators on tables.                                                *)
(***************************************************************************)

\* The fields of Delete, and their types.
LEMMA DeleteType ==
    ASSUME NEW d \in Tables, NEW ids, NEW srcs, NEW tables
    PROVE  Delete(d, ids, srcs, tables) \in Tables
<1> DEFINE e == Delete(d, ids, srcs, tables)
<1>1. e.sources \subseteq SourceIds
  BY DEF Delete, Tables
<1>2. e.file_items \in [TaggedPaths -> FileRows \cup {NoRow}]
  BY DEF Delete, Tables, HasRow
<1>3. e.resources \subseteq TagRows /\ e.trait_resources \subseteq TagRows
  BY DEF Delete, Tables
<1>4. e.namespaces \subseteq NamespaceRows
  BY DEF Delete, Tables
<1>5. e = [sources |-> e.sources, file_items |-> e.file_items, resources |-> e.resources,
           namespaces |-> e.namespaces, trait_resources |-> e.trait_resources]
  BY DEF Delete
<1> QED
  BY <1>1, <1>2, <1>3, <1>4, <1>5 DEF Tables

\* The row that a file has after a deletion was there before it.
LEMMA DeleteRows ==
    ASSUME NEW d \in Tables, NEW ids, NEW srcs, NEW tables, NEW p \in TaggedPaths
    PROVE  LET e == Delete(d, ids, srcs, tables) IN
           /\ HasRow(e, p) <=>
                 /\ HasRow(d, p)
                 /\ ~(/\ "file_items" \in tables
                      /\ d.file_items[p].id \in ids \/ d.file_items[p].source \in srcs)
           /\ HasRow(e, p) => e.file_items[p] = d.file_items[p]
  BY DEF Delete, HasRow, Tables

\* A deletion from any tables keeps what does not depend on the tags' files, if it takes
\* the rows of files with their source, and those of traits with their tags.
LEMMA DeleteKeepsSound ==
    ASSUME NEW d \in Tables, NEW ids, NEW srcs, NEW tables, Sound(d),
           "sources" \in tables => "file_items" \in tables,
           "trait_resources" \in tables => "resources" \in tables
    PROVE  Sound(Delete(d, ids, srcs, tables))
<1> DEFINE e == Delete(d, ids, srcs, tables)
<1>1. IdsAreUnique(e)
  BY DeleteRows DEF Sound, IdsAreUnique
<1>2. SourcesAreKept(e)
  <2> SUFFICES ASSUME NEW p \in TaggedPaths, HasRow(e, p)
               PROVE  e.file_items[p].source \in e.sources
    BY DEF SourcesAreKept
  <2>1. HasRow(d, p) /\ e.file_items[p] = d.file_items[p]
    BY DeleteRows
  <2>2. d.file_items[p].source \in d.sources
    BY <2>1 DEF Sound, SourcesAreKept
  <2>3. "file_items" \in tables => d.file_items[p].source \notin srcs
    BY DeleteRows
  <2>4. e.sources = IF "sources" \in tables THEN d.sources \ srcs ELSE d.sources
    BY DEF Delete
  <2> QED
    BY <2>1, <2>2, <2>3, <2>4
<1>3. NamespacesAreNotRepeated(e)
  BY DEF Sound, NamespacesAreNotRepeated, Delete
<1>4. TraitsAreKept(e)
  BY DEF Sound, TraitsAreKept, Delete
<1> QED
  BY <1>1, <1>2, <1>3, <1>4 DEF Sound

\* The tags of a file are deleted no later than the file.
LEMMA DeleteKeepsNeat ==
    ASSUME NEW d \in Tables, NEW ids, NEW srcs, NEW tables, Neat(d),
           "file_items" \in tables => "resources" \in tables
    PROVE  Neat(Delete(d, ids, srcs, tables))
<1> DEFINE e == Delete(d, ids, srcs, tables)
<1>1. TagsHaveTheirFile(e)
  <2> SUFFICES ASSUME NEW t \in e.resources \cup e.namespaces
               PROVE  IsOfFile(e, t)
    BY DEF TagsHaveTheirFile
  <2>1. t \in d.resources \cup d.namespaces
    BY DEF Delete
  <2>2. "resources" \in tables => t.id \notin ids /\ t.source \notin srcs
    BY DEF Delete
  <2>3. PICK p \in TaggedPaths :
            HasRow(d, p) /\ d.file_items[p].id = t.id /\ d.file_items[p].source = t.source
    BY <2>1 DEF Neat, TagsHaveTheirFile, IsOfFile
  <2>4. HasRow(e, p) /\ e.file_items[p] = d.file_items[p]
    BY <2>2, <2>3, DeleteRows
  <2> QED
    BY <2>3, <2>4 DEF IsOfFile
<1>2. TagsAreOfOneText(e)
  BY DEF Neat, TagsAreOfOneText, Delete
<1> QED
  BY <1>1, <1>2 DEF Neat

LEMMA PersistSourceKeeps ==
    ASSUME NEW d \in Tables, NEW s \in SourceIds
    PROVE  /\ PersistSource(d, s) \in Tables
           /\ Sound(d) => Sound(PersistSource(d, s))
           /\ Neat(d) => Neat(PersistSource(d, s))
  BY DEF PersistSource, Tables, Sound, Neat, IdsAreUnique, SourcesAreKept, HasRow,
         NamespacesAreNotRepeated, TraitsAreKept, TagsHaveTheirFile, IsOfFile, TagsAreOfOneText

\* A file that has no row gets one, under an id that no other has.
LEMMA PersistFileTagKeeps ==
    ASSUME NEW d \in Tables, NEW p \in TaggedPaths, NEW row \in FileRows,
           ~HasRow(d, p), IsNextId(d, row.id), row # NoRow, row.source \in d.sources
    PROVE  LET e == PersistFileTag(d, p, row) IN
           /\ e \in Tables
           /\ HasRow(e, p) /\ e.file_items[p] = row
           /\ Sound(d) => Sound(e)
           /\ Neat(d) => Neat(e)
           /\ e.resources = d.resources /\ e.namespaces = d.namespaces /\ e.sources = d.sources
<1> DEFINE e == PersistFileTag(d, p, row)
<1>1. /\ e \in Tables
      /\ e.file_items = [d.file_items EXCEPT ![p] = row]
      /\ e.resources = d.resources /\ e.namespaces = d.namespaces /\ e.sources = d.sources
      /\ e.trait_resources = d.trait_resources
  BY DEF PersistFileTag, Tables
<1>2. HasRow(e, p) /\ e.file_items[p] = row
  BY <1>1 DEF HasRow, Tables
<1>3. \A q \in TaggedPaths : q # p => e.file_items[q] = d.file_items[q]
  BY <1>1 DEF Tables
<1>4. \A q \in TaggedPaths : HasRow(d, q) => d.file_items[q].id < row.id
  BY DEF IsNextId
<1>5. ASSUME Sound(d) PROVE Sound(e)
  <2>1. IdsAreUnique(e)
    <3> SUFFICES ASSUME NEW q \in TaggedPaths, NEW r \in TaggedPaths,
                        HasRow(e, q), HasRow(e, r), e.file_items[q].id = e.file_items[r].id
                 PROVE  q = r
      BY DEF IdsAreUnique
    <3>0. \A x \in TaggedPaths : HasRow(d, x) => d.file_items[x].id # row.id
      <4> SUFFICES ASSUME NEW x \in TaggedPaths, HasRow(d, x) PROVE d.file_items[x].id # row.id
        OBVIOUS
      <4>1. d.file_items[x] \in FileRows
        BY DEF Tables, HasRow
      <4> QED
        BY <4>1, <1>4 DEF FileRows, FileIds
    <3> QED
      BY <1>2, <1>3, <1>5, <3>0 DEF Sound, IdsAreUnique, HasRow
  <2>2. SourcesAreKept(e)
    BY <1>1, <1>2, <1>3, <1>5 DEF Sound, SourcesAreKept, HasRow
  <2> QED
    BY <1>1, <1>5, <2>1, <2>2 DEF Sound, NamespacesAreNotRepeated, TraitsAreKept
<1>6. ASSUME Neat(d) PROVE Neat(e)
  <2>1. TagsHaveTheirFile(e)
    BY <1>1, <1>3, <1>6 DEF Neat, TagsHaveTheirFile, IsOfFile, HasRow
  <2> QED
    BY <1>1, <1>6, <2>1 DEF Neat, TagsAreOfOneText
<1> QED
  BY <1>1, <1>2, <1>5, <1>6

\* A file that is given the next id has no tags yet.
LEMMA NextIdHasNoTags ==
    ASSUME NEW d \in Tables, NEW id \in FileIds, IsNextId(d, id), Neat(d)
    PROVE  \A t \in d.resources : t.id # id
<1> SUFFICES ASSUME NEW t \in d.resources PROVE t.id # id
  OBVIOUS
<1>1. PICK p \in TaggedPaths : HasRow(d, p) /\ d.file_items[p].id = t.id
  BY DEF Neat, TagsHaveTheirFile, IsOfFile
<1>2. d.file_items[p].id < id
  BY <1>1 DEF IsNextId
<1>3. t.id \in FileIds
  BY DEF Tables, TagRows
<1> QED
  BY <1>1, <1>2, <1>3 DEF FileIds

\* Tags are stored for a file that has none, under its source.
LEMMA PersistTagsKeeps ==
    ASSUME NEW d \in Tables, NEW p \in TaggedPaths, HasRow(d, p), NEW text \in Texts,
           NEW seen, NEW traits \in SUBSET Texts, TraitsIn(text) \subseteq traits
    PROVE  LET row == d.file_items[p]
               e == PersistTags(d, row.id, row.source, text, seen, traits)
           IN /\ e \in Tables
              /\ Sound(d) => Sound(e)
              /\ Neat(d) /\ (\A t \in d.resources : t.id # row.id) => Neat(e)
<1> DEFINE row == d.file_items[p]
           e == PersistTags(d, row.id, row.source, text, seen, traits)
           tag == [id |-> row.id, source |-> row.source, text |-> text]
           space == [id |-> row.id, source |-> row.source]
           used == {[id |-> row.id, source |-> row.source, text |-> t] : t \in traits}
<1>1. row \in FileRows
  BY DEF Tables, HasRow
<1>2. /\ e.sources = d.sources /\ e.file_items = d.file_items
      /\ e.resources = d.resources \cup {tag}
      /\ e.namespaces = IF NewNamespace(d, text, seen)
                        THEN d.namespaces \cup {space} ELSE d.namespaces
      /\ e.trait_resources = d.trait_resources \cup used
  BY DEF PersistTags, Tables
<1>3. tag \in TagRows /\ space \in NamespaceRows /\ used \subseteq TagRows
  BY <1>1 DEF FileRows, TagRows, NamespaceRows
<1>4. e \in Tables
  <2>1. \A r, n, x : /\ r \in SUBSET TagRows /\ x \in SUBSET TagRows
                     /\ n \in SUBSET NamespaceRows
                     => [d EXCEPT !.resources = r, !.namespaces = n, !.trait_resources = x]
                        \in Tables
    BY DEF Tables
  <2>2. e = [d EXCEPT !.resources = d.resources \cup {tag},
                      !.namespaces = IF NewNamespace(d, text, seen)
                                     THEN d.namespaces \cup {space} ELSE d.namespaces,
                      !.trait_resources = d.trait_resources \cup used]
    BY Zenon DEF PersistTags
  <2>3. d.resources \in SUBSET TagRows /\ d.trait_resources \in SUBSET TagRows
        /\ d.namespaces \in SUBSET NamespaceRows
    BY DEF Tables
  <2>4. /\ d.resources \cup {tag} \in SUBSET TagRows
        /\ d.trait_resources \cup used \in SUBSET TagRows
        /\ (IF NewNamespace(d, text, seen) THEN d.namespaces \cup {space} ELSE d.namespaces)
           \in SUBSET NamespaceRows
    BY <1>3, <2>3
  <2> HIDE DEF tag, space, used, e
  <2> QED
    BY <2>1, <2>2, <2>4
<1>5. ASSUME Sound(d) PROVE Sound(e)
  <2>1. IdsAreUnique(e) /\ SourcesAreKept(e)
    <3> HIDE DEF e, tag, space, used
    <3>1. IdsAreUnique(e)
      BY <1>2, <1>5 DEF Sound, IdsAreUnique, HasRow
    <3>2. SourcesAreKept(e)
      BY <1>2, <1>5 DEF Sound, SourcesAreKept, HasRow
    <3> QED
      BY <3>1, <3>2
  <2>2. NamespacesAreNotRepeated(e)
    BY <1>2, <1>5 DEF Sound, NamespacesAreNotRepeated, NewNamespace
  <2>3. TraitsAreKept(e)
    <3> SUFFICES ASSUME NEW t \in e.resources, t.text \in UsesTraits
                 PROVE  t \in e.trait_resources
      BY DEF TraitsAreKept
    <3>1. CASE t \in d.resources
      BY <1>2, <1>5, <3>1 DEF Sound, TraitsAreKept
    <3>2. CASE t = tag
      BY <1>2, <3>2 DEF TraitsIn
    <3> QED
      BY <1>2, <3>1, <3>2
  <2> QED
    BY <2>1, <2>2, <2>3 DEF Sound
<1>6. ASSUME Neat(d), \A t \in d.resources : t.id # row.id PROVE Neat(e)
  <2>1. TagsHaveTheirFile(e)
    <3> SUFFICES ASSUME NEW t \in e.resources \cup e.namespaces PROVE IsOfFile(e, t)
      BY DEF TagsHaveTheirFile
    <3>1. CASE t \in d.resources \cup d.namespaces
      <4> HIDE DEF e, tag, space, used
      <4>1. IsOfFile(d, t)
        BY <1>6, <3>1 DEF Neat, TagsHaveTheirFile
      <4> QED
        BY <1>2, <4>1 DEF IsOfFile, HasRow
    <3>2. CASE t = tag \/ t = space
      <4>1. t.id = row.id /\ t.source = row.source
        BY <3>2
      <4> HIDE DEF e, tag, space, used
      <4> QED
        BY <1>2, <4>1 DEF IsOfFile, HasRow
    <3> QED
      BY <1>2, <3>1, <3>2
  <2>2. TagsAreOfOneText(e)
    <3> SUFFICES ASSUME NEW t \in e.resources, NEW u \in e.resources, t.id = u.id
                 PROVE  t = u
      BY DEF TagsAreOfOneText
    <3>1. (t \in d.resources \/ t = tag) /\ (u \in d.resources \/ u = tag)
      BY <1>2
    <3>2. tag.id = row.id
      OBVIOUS
    <3>3. CASE t \in d.resources /\ u \in d.resources
      BY <1>6, <3>3 DEF Neat, TagsAreOfOneText
    <3> QED
      BY <1>6, <3>1, <3>2, <3>3
  <2> QED
    BY <2>1, <2>2 DEF Neat
<1> QED
  BY <1>4, <1>5, <1>6

IsRenaming(m) ==
    /\ DOMAIN m \subseteq Files
    /\ \A f \in DOMAIN m : m[f] \in Files \ DOMAIN m
    /\ \A f, g \in DOMAIN m : m[f] = m[g] => f = g

\* Each row has one name after a renaming, another one or its own.
LEMMA RenameRows ==
    ASSUME NEW d \in Tables, NEW m, IsRenaming(m), Rename(d, m) # d
    PROVE  LET e == Rename(d, m) IN
           /\ \A q \in DOMAIN m : e.file_items[m[q]] = IF HasRow(d, q) THEN d.file_items[q]
                                                       ELSE d.file_items[m[q]]
           /\ \A q \in DOMAIN m : ~HasRow(e, q)
           /\ \A p \in TaggedPaths :
                 p \notin DOMAIN m /\ (\A q \in DOMAIN m : m[q] # p)
                 => e.file_items[p] = d.file_items[p]
           /\ \A q \in DOMAIN m : HasRow(d, q) => ~HasRow(d, m[q])
           /\ e.file_items \in [TaggedPaths -> FileRows \cup {NoRow}]
           /\ e = [d EXCEPT !.file_items = e.file_items]
<1> DEFINE e == Rename(d, m)
           moved == [p \in TaggedPaths |->
                        IF \E q \in DOMAIN m : m[q] = p /\ HasRow(d, q)
                        THEN d.file_items[CHOOSE q \in DOMAIN m : m[q] = p]
                        ELSE IF p \in DOMAIN m THEN NoRow ELSE d.file_items[p]]
<1>1. /\ ~\E p \in DOMAIN m : HasRow(d, p) /\ HasRow(d, m[p])
      /\ e = [d EXCEPT !.file_items = moved]
  BY DEF Rename
<1>2. e.file_items = moved
  BY <1>1 DEF Tables
<1>3. ASSUME NEW q \in DOMAIN m PROVE (CHOOSE r \in DOMAIN m : m[r] = m[q]) = q
  BY <1>3 DEF IsRenaming
<1>4. \A q \in DOMAIN m : q \in TaggedPaths /\ m[q] \in TaggedPaths /\ m[q] \notin DOMAIN m
  BY DEF IsRenaming, TaggedPaths
<1>5. ASSUME NEW q \in DOMAIN m
      PROVE  moved[m[q]] = IF HasRow(d, q) THEN d.file_items[q] ELSE d.file_items[m[q]]
  <2>1. CASE HasRow(d, q)
    BY <1>3, <1>4, <2>1
  <2>2. CASE ~HasRow(d, q)
    <3>1. ~\E r \in DOMAIN m : m[r] = m[q] /\ HasRow(d, r)
      BY <2>2 DEF IsRenaming
    <3> QED
      BY <1>4, <2>2, <3>1
  <2> QED
    BY <2>1, <2>2
<1>6. ASSUME NEW q \in DOMAIN m PROVE moved[q] = NoRow
  <2>1. ~\E r \in DOMAIN m : m[r] = q /\ HasRow(d, r)
    BY <1>4
  <2> QED
    BY <1>4, <2>1
<1>7. moved \in [TaggedPaths -> FileRows \cup {NoRow}]
  <2> SUFFICES ASSUME NEW p \in TaggedPaths PROVE moved[p] \in FileRows \cup {NoRow}
    OBVIOUS
  <2>1. CASE \E q \in DOMAIN m : m[q] = p /\ HasRow(d, q)
    BY <1>3, <1>4, <2>1 DEF Tables
  <2>2. CASE ~\E q \in DOMAIN m : m[q] = p /\ HasRow(d, q)
    BY <2>2 DEF Tables
  <2> QED
    BY <2>1, <2>2
<1> QED
  BY <1>1, <1>2, <1>4, <1>5, <1>6, <1>7 DEF HasRow

LEMMA RenameKeeps ==
    ASSUME NEW d \in Tables, NEW m, IsRenaming(m)
    PROVE  LET e == Rename(d, m) IN
           /\ e \in Tables /\ e.sources = d.sources
           /\ Sound(d) => Sound(e)
           /\ Neat(d) => Neat(e)
<1> DEFINE e == Rename(d, m)
<1> SUFFICES ASSUME e # d
             PROVE  /\ e \in Tables /\ e.sources = d.sources
                    /\ Sound(d) => Sound(e)
                    /\ Neat(d) => Neat(e)
  OBVIOUS
<1>1. /\ e \in Tables /\ e.sources = d.sources
      /\ e.resources = d.resources /\ e.namespaces = d.namespaces
      /\ e.trait_resources = d.trait_resources
  BY RenameRows DEF Tables
\* Where the row of a file came from, and where it goes.
<1>2. ASSUME NEW p \in TaggedPaths, HasRow(e, p)
      PROVE  \E q \in TaggedPaths :
                 /\ HasRow(d, q) /\ e.file_items[p] = d.file_items[q]
                 /\ IF q \in DOMAIN m THEN p = m[q] ELSE p = q
  <2>1. p \notin DOMAIN m
    BY <1>2, RenameRows
  <2>2. CASE \E q \in DOMAIN m : m[q] = p /\ HasRow(d, q)
    BY <2>2, RenameRows DEF IsRenaming, TaggedPaths
  <2>3. CASE ~\E q \in DOMAIN m : m[q] = p /\ HasRow(d, q)
    <3>1. e.file_items[p] = d.file_items[p]
      BY <2>1, <2>3, RenameRows
    <3> QED
      BY <1>2, <2>1, <3>1 DEF HasRow
  <2> QED
    BY <2>2, <2>3
<1>3. ASSUME NEW q \in TaggedPaths, HasRow(d, q)
      PROVE  \E p \in TaggedPaths : HasRow(e, p) /\ e.file_items[p] = d.file_items[q]
  <2>1. CASE q \in DOMAIN m
    BY <1>3, <2>1, RenameRows DEF IsRenaming, TaggedPaths, HasRow
  <2>2. CASE q \notin DOMAIN m
    <3>1. \A r \in DOMAIN m : m[r] = q => ~HasRow(d, r)
      BY <1>3, RenameRows
    <3>2. e.file_items[q] = d.file_items[q]
      BY <2>2, <3>1, RenameRows
    <3> QED
      BY <1>3, <3>2 DEF HasRow
  <2> QED
    BY <2>1, <2>2
<1>4. ASSUME Sound(d) PROVE Sound(e)
  <2>1. IdsAreUnique(e)
    <3> SUFFICES ASSUME NEW p \in TaggedPaths, NEW r \in TaggedPaths, HasRow(e, p), HasRow(e, r),
                        e.file_items[p].id = e.file_items[r].id
                 PROVE  p = r
      BY DEF IdsAreUnique
    <3>1. PICK x \in TaggedPaths : /\ HasRow(d, x) /\ e.file_items[p] = d.file_items[x]
                                   /\ IF x \in DOMAIN m THEN p = m[x] ELSE p = x
      BY <1>2
    <3>2. PICK y \in TaggedPaths : /\ HasRow(d, y) /\ e.file_items[r] = d.file_items[y]
                                   /\ IF y \in DOMAIN m THEN r = m[y] ELSE r = y
      BY <1>2
    <3>3. x = y
      BY <1>4, <3>1, <3>2 DEF Sound, IdsAreUnique
    <3> QED
      BY <3>1, <3>2, <3>3
  <2>2. SourcesAreKept(e)
    BY <1>1, <1>2, <1>4 DEF Sound, SourcesAreKept
  <2> QED
    BY <1>1, <1>4, <2>1, <2>2 DEF Sound, NamespacesAreNotRepeated, TraitsAreKept
<1>5. ASSUME Neat(d) PROVE Neat(e)
  <2>1. TagsHaveTheirFile(e)
    <3> SUFFICES ASSUME NEW t \in d.resources \cup d.namespaces PROVE IsOfFile(e, t)
      BY <1>1 DEF TagsHaveTheirFile
    <3>1. PICK q \in TaggedPaths :
              HasRow(d, q) /\ d.file_items[q].id = t.id /\ d.file_items[q].source = t.source
      BY <1>5 DEF Neat, TagsHaveTheirFile, IsOfFile
    <3> QED
      BY <1>3, <3>1 DEF IsOfFile
  <2> QED
    BY <1>1, <1>5, <2>1 DEF Neat, TagsAreOfOneText
<1> QED
  BY <1>1, <1>4, <1>5

-----------------------------------------------------------------------------
(***************************************************************************)
(* The inductive invariant.  A search that has read has the tables to      *)
(* itself; before that, and between searches, every connection sees the    *)
(* same tables.                                                            *)
(***************************************************************************)
ReadsAlone == ~(Searching /\ search.read) => db = committed

SearchHasSource == Searching => search.source \in db.sources \cap committed.sources

TagDbInv == TagDbTypeOK /\ TablesBelongTogether /\ ReadsAlone /\ SearchHasSource

\* What a step must show of new tables.
Whole(d, tornThen) == d \in Tables /\ Sound(d) /\ (~tornThen => Neat(d))

LEMMA WholeIsWhole ==
    /\ TagDbInv => Whole(db, torn) /\ Whole(committed, torn)
    /\ Whole(db', torn') /\ Whole(committed', torn') => TablesBelongTogether'
  BY DEF TagDbInv, TagDbTypeOK, Whole, TablesBelongTogether, WholeTables, Sound, Neat

LEMMA NoSearchIsNone == \A x \in Searches : x # NoSearch
<1> SUFFICES ASSUME NEW x \in Searches PROVE x # NoSearch
  OBVIOUS
<1>1. x.source \in Sources
  BY DEF Searches
<1>2. NoSearch.source = NoSource
  BY DEF NoSearch
<1> QED
  BY <1>1, <1>2, TagDbAssumption

\* A file is looked at.
LEMMA LookKeepsWhole ==
    ASSUME TagDbInv, Searching, NEW f \in Files, NEW id \in FileIds, IsNextId(Replaced(f), id)
    PROVE  LET e == BuildResourceCache(f, id) IN
           Whole(e, torn) /\ search.source \in e.sources
<1> DEFINE d == Replaced(f)
           row == [id |-> id, source |-> search.source, last_modified |-> LastModified(f),
                   is_parsed |-> f \in PhpFiles, is_new |-> FALSE]
           a == PersistFileTag(d, f, row)
           used == search.traits \cup TraitsIn(fileText[f])
           e == PersistTags(a, id, search.source, fileText[f], search.namespace, used)
<1>1. f \in TaggedPaths
  BY DEF TaggedPaths
<1>2. Whole(db, torn)
  BY WholeIsWhole
<1>3. search \in Searches /\ search.source \in SourceIds /\ search.traits \in SUBSET Texts
  BY TagDbAssumption DEF TagDbInv, TagDbTypeOK, Searching, Searches, SourceIds
<1>4. Whole(d, torn) /\ d.sources = db.sources /\ ~HasRow(d, f)
  <2>1. CASE HasRow(db, f)
    <3>1. d = Delete(db, {db.file_items[f].id}, {}, {"resources", "file_items"})
      BY <2>1 DEF Replaced
    <3>2. d \in Tables
      BY <1>2, <3>1, DeleteType DEF Whole
    <3>3. Sound(d)
      BY <1>2, <3>1, DeleteKeepsSound DEF Whole
    <3>4. ~torn => Neat(d)
      BY <1>2, <3>1, DeleteKeepsNeat DEF Whole
    <3>5. ~HasRow(d, f)
      BY <1>1, <1>2, <3>1, DeleteRows DEF Whole
    <3>6. d.sources = db.sources
      BY <3>1 DEF Delete
    <3> QED
      BY <3>2, <3>3, <3>4, <3>5, <3>6 DEF Whole
  <2>2. CASE ~HasRow(db, f)
    BY <1>2, <2>2 DEF Replaced
  <2> QED
    BY <2>1, <2>2
<1>5. LastModified(f) \in Texts
  BY DEF TagDbInv, TagDbTypeOK, LastModified, Texts
<1>6. row \in FileRows /\ row # NoRow /\ row.source \in d.sources /\ row.id = id
  <2>1. row \in FileRows
    BY <1>3, <1>5 DEF FileRows
  <2> QED
    BY <1>4, <2>1, TagDbAssumption DEF TagDbInv, SearchHasSource
<1> HIDE DEF row
<1>7. /\ Whole(a, torn) /\ HasRow(a, f) /\ a.file_items[f] = row
      /\ a.resources = d.resources /\ a.sources = db.sources
  BY <1>1, <1>4, <1>6, PersistFileTagKeeps DEF Whole
<1>8. ~torn => \A t \in a.resources : t.id # id
  BY <1>4, <1>7, NextIdHasNoTags DEF Whole
<1>9. row.source = search.source
  BY DEF row
<1>10. CASE IsRead(f)
  <2>1. fileText[f] \in Texts /\ used \in SUBSET Texts /\ TraitsIn(fileText[f]) \subseteq used
    <3>1. fileText[f] \in 0 .. MaxText /\ fileText[f] # 0
      BY <1>10 DEF IsRead, TagDbInv, TagDbTypeOK
    <3> QED
      BY <1>3, <3>1, TagDbAssumption DEF Texts, TraitsIn
  <2>2. Whole(e, torn)
    BY <1>1, <1>6, <1>7, <1>8, <1>9, <2>1, PersistTagsKeeps DEF Whole
  <2>3. e.sources = a.sources
    BY <1>7 DEF PersistTags, Whole, Tables
  <2> QED
    BY <1>7, <1>10, <2>2, <2>3 DEF BuildResourceCache, row, TagDbInv, SearchHasSource
<1>11. CASE ~IsRead(f)
  BY <1>7, <1>11 DEF BuildResourceCache, row, TagDbInv, SearchHasSource
<1> QED
  BY <1>10, <1>11

\* The tags of a page are stored, under the source that its file has.
LEMMA PageKeepsWhole ==
    ASSUME TagDbInv, NEW p \in TaggedPaths, NEW s \in SourceIds, NEW id \in FileIds,
           written' \in Texts, ~HasRow(db, p) => IsNextId(db, id)
    PROVE  Whole(BuildResourceCacheForFile(p, s, id), torn)
<1> DEFINE d == PersistSource(db, s)
           new == [id |-> id, source |-> s, last_modified |-> written',
                   is_parsed |-> FALSE, is_new |-> p \in NewFiles]
           row == IF HasRow(d, p) THEN d.file_items[p] ELSE new
           removed == IF HasRow(d, p) THEN Delete(d, {row.id}, {}, {"resources"})
                      ELSE PersistFileTag(d, p, row)
           e == PersistTags(removed, row.id, row.source, written', FALSE, TraitsIn(written'))
<1>1. /\ Whole(d, torn) /\ s \in d.sources
      /\ HasRow(d, p) <=> HasRow(db, p)
      /\ IsNextId(db, id) => IsNextId(d, id)
  <2>1. d.file_items = db.file_items /\ s \in d.sources
    BY DEF PersistSource, TagDbInv, TagDbTypeOK, Tables
  <2> QED
    BY <2>1, WholeIsWhole, PersistSourceKeeps DEF Whole, HasRow, IsNextId
<1>2. new \in FileRows /\ new.id = id /\ new.source = s /\ new # NoRow
  <2>1. new \in FileRows
    BY DEF FileRows
  <2> QED
    BY <2>1, TagDbAssumption
<1> HIDE DEF new
<1>3. /\ Whole(removed, torn) /\ HasRow(removed, p) /\ removed.file_items[p] = row
      /\ ~torn => \A t \in removed.resources : t.id # row.id
  <2>1. CASE HasRow(d, p)
    <3>1. removed = Delete(d, {row.id}, {}, {"resources"})
      BY <2>1
    <3>2. removed \in Tables
      BY <1>1, <3>1, DeleteType DEF Whole
    <3>3. Sound(removed)
      BY <1>1, <3>1, DeleteKeepsSound DEF Whole
    <3>4. ~torn => Neat(removed)
      BY <1>1, <3>1, DeleteKeepsNeat DEF Whole
    <3>5. HasRow(removed, p) /\ removed.file_items[p] = row
      BY <1>1, <2>1, <3>1, DeleteRows DEF Whole
    <3>6. \A t \in removed.resources : t.id # row.id
      BY <3>1 DEF Delete
    <3> QED
      BY <3>2, <3>3, <3>4, <3>5, <3>6 DEF Whole
  <2>2. CASE ~HasRow(d, p)
    <3>1. removed = PersistFileTag(d, p, new) /\ row = new
      BY <2>2
    <3>2. IsNextId(d, new.id)
      BY <1>1, <1>2, <2>2
    <3>3. /\ removed \in Tables
          /\ HasRow(removed, p) /\ removed.file_items[p] = new
          /\ Sound(d) => Sound(removed)
          /\ Neat(d) => Neat(removed)
          /\ removed.resources = d.resources
      BY <1>1, <1>2, <2>2, <3>1, <3>2, PersistFileTagKeeps DEF Whole
    <3>4. ~torn => \A t \in d.resources : t.id # new.id
      BY <1>1, <1>2, <3>2, NextIdHasNoTags DEF Whole
    <3> QED
      BY <1>1, <3>1, <3>3, <3>4 DEF Whole
  <2> QED
    BY <2>1, <2>2
<1>4. TraitsIn(written') \in SUBSET Texts
  BY DEF TraitsIn
<1> HIDE DEF row, removed
<1>5. Whole(e, torn)
  BY <1>3, <1>4, PersistTagsKeeps DEF Whole
<1> QED
  BY <1>5 DEF BuildResourceCacheForFile, e, removed, row, new

\* The statements that were carried out are the first ones.
LEMMA FirstOfFileStatements ==
    ASSUME NEW n \in 1 .. 2
    PROVE  LET done == FirstOf(<<"resources", "file_items">>, n) IN
           "resources" \in done /\ "sources" \notin done /\ "trait_resources" \notin done
  BY DEF FirstOf

LEMMA FirstOfDirectoryStatements ==
    ASSUME NEW n \in 1 .. 3
    PROVE  LET done == FirstOf(<<"resources", "trait_resources", "file_items">>, n) IN
           "resources" \in done /\ "sources" \notin done
  BY DEF FirstOf

LEMMA FirstOfSourceStatements ==
    ASSUME NEW n \in 1 .. 4
    PROVE  LET done == FirstOf(<<"resources", "trait_resources", "file_items", "sources">>, n) IN
           "resources" \in done /\ ("sources" \in done => "file_items" \in done)
  BY DEF FirstOf

LEMMA FirstOfWipeStatements ==
    ASSUME NEW n \in 1 .. 4
    PROVE  LET done == FirstOf(<<"file_items", "resources", "trait_resources", "sources">>, n) IN
           /\ "file_items" \in done
           /\ "resources" \in done <=> n # 1
           /\ "trait_resources" \in done => "resources" \in done
  BY DEF FirstOf

LEMMA BeginsType == TagDbInv /\ Begins => operations' \in 0 .. MaxOperations
  BY TagDbAssumption DEF TagDbInv, TagDbTypeOK, Begins

\* Any deletion but a wipe.
LEMMA DeletionKeepsInv ==
    ASSUME TagDbInv, Begins, NEW ids, NEW srcs, NEW tables, DeleteIn(ids, srcs, tables),
           UNCHANGED <<fileText, written, search, torn>>,
           "resources" \in tables, "sources" \in tables => "file_items" \in tables,
           ~(Searching /\ search.read), Searching => "sources" \notin tables
    PROVE  TagDbInv'
<1>1. ASSUME NEW d \in Tables, Whole(d, torn)
      PROVE  Whole(Delete(d, ids, srcs, tables), torn)
  BY <1>1, DeleteType, DeleteKeepsSound, DeleteKeepsNeat DEF Whole
<1>2. Whole(db', torn') /\ Whole(committed', torn')
  BY <1>1, WholeIsWhole DEF DeleteIn, TagDbInv, TagDbTypeOK
<1>3. TagDbTypeOK'
  BY <1>2, BeginsType DEF TagDbInv, TagDbTypeOK, Whole
<1>4. ReadsAlone'
  BY DEF DeleteIn, TagDbInv, ReadsAlone, Searching
<1>5. SearchHasSource'
  BY DEF DeleteIn, Delete, TagDbInv, SearchHasSource, Searching
<1> QED
  BY <1>2, <1>3, <1>4, <1>5, WholeIsWhole DEF TagDbInv

\* A wipe takes all tags, or all files and no tags, and then torn is set.
LEMMA WipeKeepsInv ==
    ASSUME TagDbInv, NEW n \in 1 .. 4, WipeAll(n)
    PROVE  TagDbInv'
<1> DEFINE done == FirstOf(<<"file_items", "resources", "trait_resources", "sources">>, n)
<1>1. /\ "file_items" \in done /\ ("resources" \in done <=> n # 1)
      /\ "trait_resources" \in done => "resources" \in done
  BY FirstOfWipeStatements
<1>2. /\ db' = Delete(db, {}, SourceIds, done) /\ committed' = Delete(committed, {}, SourceIds, done)
      /\ torn' = (n = 1) /\ ~Searching /\ Begins /\ UNCHANGED <<fileText, written, search>>
  BY DEF WipeAll, DeleteIn, Operation
<1> HIDE DEF done
<1>3. ASSUME NEW d \in Tables, Whole(d, torn)
      PROVE  Whole(Delete(d, {}, SourceIds, done), torn')
  <2> DEFINE e == Delete(d, {}, SourceIds, done)
  <2>1. e \in Tables
    BY DeleteType
  <2>2. Sound(e)
    BY <1>1, <1>3, DeleteKeepsSound DEF Whole
  <2>3. ASSUME ~torn' PROVE Neat(e)
    <3>1. "resources" \in done
      BY <1>1, <1>2, <2>3
    <3>2. e.resources = {} /\ e.namespaces = {}
      BY <3>1 DEF Delete, Tables, TagRows, NamespaceRows
    <3> QED
      BY <3>2 DEF Neat, TagsHaveTheirFile, TagsAreOfOneText
  <2> QED
    BY <2>1, <2>2, <2>3 DEF Whole
<1>4. Whole(db', torn') /\ Whole(committed', torn')
  BY <1>2, <1>3, WholeIsWhole DEF TagDbInv, TagDbTypeOK
<1>5. TagDbTypeOK'
  BY <1>2, <1>4, BeginsType DEF TagDbInv, TagDbTypeOK, Whole
<1>6. ReadsAlone' /\ SearchHasSource'
  BY <1>2 DEF TagDbInv, ReadsAlone, SearchHasSource, Searching
<1> QED
  BY <1>4, <1>5, <1>6, WholeIsWhole DEF TagDbInv

LEMMA RenamesAreRenamings ==
    /\ \A f, g \in Files : f # g => IsRenaming([p \in {f} |-> g])
    /\ \A m \in DirRenames : IsRenaming(m)
  BY TagDbAssumption DEF IsRenaming

LEMMA RenameKeepsInv ==
    ASSUME TagDbInv, NEW m, IsRenaming(m), RenameIn(m)
    PROVE  TagDbInv'
<1>1. /\ db' = Rename(db, m) /\ committed' = Rename(committed, m)
      /\ ~Searching /\ Begins /\ UNCHANGED <<fileText, written, search, torn>>
  BY DEF RenameIn, Operation
<1>2. Whole(db', torn') /\ Whole(committed', torn')
  BY <1>1, WholeIsWhole, RenameKeeps DEF Whole, TagDbInv, TagDbTypeOK
<1>3. TagDbTypeOK'
  BY <1>1, <1>2, BeginsType DEF TagDbInv, TagDbTypeOK, Whole
<1>4. ReadsAlone' /\ SearchHasSource'
  BY <1>1 DEF TagDbInv, ReadsAlone, SearchHasSource, Searching
<1> QED
  BY <1>2, <1>3, <1>4, WholeIsWhole DEF TagDbInv

LEMMA SearchAfterType ==
    ASSUME TagDbInv, Searching, NEW f \in Files
    PROVE  SearchAfter(f) \in Searches /\ SearchAfter(f).source = search.source
<1>1. search \in Searches
  BY DEF TagDbInv, TagDbTypeOK, Searching
<1>2. (search.parsed + 1) % CommitEvery \in 0 .. CommitEvery - 1
  <2>1. search.parsed \in Nat /\ CommitEvery \in Nat \ {0}
    BY <1>1, TagDbAssumption DEF Searches
  <2> QED
    BY <2>1
<1>3. (search.namespace \/ (IsRead(f) /\ NewNamespace(Replaced(f), fileText[f], search.namespace)))
      \in BOOLEAN
  OBVIOUS
<1>4. IsRead(f) => TraitsIn(fileText[f]) \in SUBSET UsesTraits
  BY DEF TraitsIn
<1> QED
  BY <1>1, <1>2, <1>3, <1>4 DEF SearchAfter, Searches

LEMMA TagDbInitHolds == TagDbInit => TagDbInv
<1> SUFFICES ASSUME TagDbInit PROVE TagDbInv
  OBVIOUS
<1>1. EmptyTables \in Tables
  BY DEF EmptyTables, Tables
<1>2. TagDbTypeOK
  <2>1. 1 \in Texts /\ \A x \in {0, 1} : x \in 0 .. MaxText
    BY TagDbAssumption DEF Texts
  <2>2. fileText \in [Files -> 0 .. MaxText]
    BY <2>1 DEF TagDbInit
  <2>3. 0 \in 0 .. MaxOperations
    BY TagDbAssumption
  <2> QED
    BY <1>1, <2>1, <2>2, <2>3 DEF TagDbInit, TagDbTypeOK
<1>3. Sound(EmptyTables) /\ Neat(EmptyTables)
  BY DEF EmptyTables, Sound, Neat, IdsAreUnique, SourcesAreKept, NamespacesAreNotRepeated,
         TraitsAreKept, TagsHaveTheirFile, TagsAreOfOneText, HasRow
<1>4. TablesBelongTogether
  BY <1>3 DEF TagDbInit, TablesBelongTogether, WholeTables, Sound, Neat
<1> QED
  BY <1>2, <1>4 DEF TagDbInit, TagDbInv, ReadsAlone, SearchHasSource, Searching

\* Each action keeps the invariant.
LEMMA TagDbStepHolds == TagDbInv /\ [TagDbNext]_tagDbVars => TagDbInv'
<1> SUFFICES ASSUME TagDbInv, [TagDbNext]_tagDbVars PROVE TagDbInv'
  OBVIOUS
<1> USE DEF Searching
<1>0. Whole(db, torn) /\ Whole(committed, torn) /\ TagDbTypeOK /\ ReadsAlone /\ SearchHasSource
  BY WholeIsWhole DEF TagDbInv
<1>1. ASSUME NEW f \in Files, WriteText(f) \/ DeleteText(f) PROVE TagDbInv'
  <2>1. UNCHANGED <<db, committed, search, operations, torn>>
    BY <1>1 DEF WriteText, DeleteText
  <2>2. fileText' \in [Files -> 0 .. MaxText] /\ written' \in Texts
    <3>1. CASE WriteText(f)
      <4>1. written' \in 1 .. MaxText
        BY <1>0, <3>1, TagDbAssumption DEF WriteText, NewText, TagDbTypeOK, Texts
      <4> QED
        BY <1>0, <3>1, <4>1, TagDbAssumption DEF WriteText, TagDbTypeOK, Texts
    <3>2. CASE DeleteText(f)
      BY <1>0, <3>2, TagDbAssumption DEF DeleteText, TagDbTypeOK
    <3> QED
      BY <1>1, <3>1, <3>2
  <2>3. TagDbTypeOK' /\ ReadsAlone' /\ SearchHasSource'
    BY <1>0, <2>1, <2>2 DEF TagDbTypeOK, ReadsAlone, SearchHasSource
  <2> QED
    BY <1>0, <2>1, <2>3, WholeIsWhole DEF TagDbInv
<1>2. ASSUME NEW s \in Sources, BeginSearch(s) PROVE TagDbInv'
  <2>1. /\ db' = PersistSource(db, s) /\ committed' = PersistSource(committed, s)
        /\ search' = [NoSearch EXCEPT !.source = s] /\ ~Searching /\ Begins
        /\ UNCHANGED <<fileText, written, torn>>
    BY <1>2 DEF BeginSearch, Operation
  <2>2. s \in SourceIds
    BY DEF SourceIds
  <2>3. Whole(db', torn') /\ Whole(committed', torn')
    BY <1>0, <2>1, <2>2, PersistSourceKeeps DEF Whole
  <2>4. search' \in Searches /\ search'.source = s /\ ~search'.read
    <3>1. 0 \in 0 .. CommitEvery - 1
      BY TagDbAssumption
    <3> QED
      BY <2>1, <3>1 DEF NoSearch, Searches
  <2>5. TagDbTypeOK'
    BY <1>0, <2>1, <2>3, <2>4, BeginsType DEF TagDbTypeOK, Whole
  <2>6. ReadsAlone' /\ SearchHasSource'
    <3>1. s \in db'.sources /\ s \in committed'.sources
      BY <1>0, <2>1 DEF PersistSource, TagDbTypeOK, Tables
    <3> QED
      BY <1>0, <2>1, <2>4, <3>1 DEF ReadsAlone, SearchHasSource
  <2> QED
    BY <2>3, <2>5, <2>6, WholeIsWhole DEF TagDbInv
<1>3. ASSUME NEW f \in Files, Walk(f) PROVE TagDbInv'
  <2>1. PICK id \in FileIds : IsNextId(Replaced(f), id) /\ db' = BuildResourceCache(f, id)
    BY <1>3 DEF Walk
  <2>2. /\ Searching /\ search' = SearchAfter(f)
        /\ UNCHANGED <<fileText, written, committed, operations, torn>>
    BY <1>3 DEF Walk, CanWalk
  <2>3. Whole(db', torn') /\ Whole(committed', torn') /\ search.source \in db'.sources
    BY <1>0, <2>1, <2>2, LookKeepsWhole
  <2>4. search' \in Searches /\ search'.source = search.source /\ search'.read
    BY <2>2, SearchAfterType DEF SearchAfter, TagDbInv, TagDbTypeOK, Searches
  <2>5. TagDbTypeOK'
    BY <1>0, <2>2, <2>3, <2>4 DEF TagDbTypeOK, Whole
  <2>6. ReadsAlone' /\ SearchHasSource'
    BY <1>0, <2>2, <2>3, <2>4, NoSearchIsNone DEF ReadsAlone, SearchHasSource
  <2> QED
    BY <2>3, <2>5, <2>6, WholeIsWhole DEF TagDbInv
<1>4. ASSUME NEW f \in Files, WalkAndCommit(f) PROVE TagDbInv'
  <2>1. PICK id \in FileIds : /\ IsNextId(Replaced(f), id)
                          /\ \/ db' = BuildResourceCache(f, id) /\ committed' = db'
                             \/ db' = committed /\ UNCHANGED committed
    BY <1>4 DEF WalkAndCommit
  <2>2. /\ Searching /\ search' = [SearchAfter(f) EXCEPT !.read = FALSE]
        /\ UNCHANGED <<fileText, written, operations, torn>>
    BY <1>4 DEF WalkAndCommit, CanWalk
  <2>3. /\ Whole(db', torn') /\ committed' = db'
        /\ search.source \in db'.sources
    BY <1>0, <2>1, <2>2, LookKeepsWhole DEF SearchHasSource
  <2>4. search' \in Searches /\ search'.source = search.source /\ ~search'.read
    BY <2>2, SearchAfterType DEF Searches
  <2>5. TagDbTypeOK'
    BY <1>0, <2>2, <2>3, <2>4 DEF TagDbTypeOK, Whole
  <2>6. ReadsAlone' /\ SearchHasSource'
    BY <2>3, <2>4 DEF ReadsAlone, SearchHasSource
  <2> QED
    BY <2>3, <2>5, <2>6, WholeIsWhole DEF TagDbInv
<1>5. ASSUME NEW f \in Files, WalkPast(f) PROVE TagDbInv'
  <2>1. /\ Searching /\ search' = [search EXCEPT !.read = TRUE]
        /\ UNCHANGED <<fileText, written, db, committed, operations, torn>>
    BY <1>5 DEF WalkPast, CanWalk
  <2>2. search' \in Searches /\ search'.source = search.source /\ search'.read
    BY <1>0, <2>1 DEF TagDbTypeOK, Searches
  <2>3. TagDbTypeOK' /\ ReadsAlone' /\ SearchHasSource'
    BY <1>0, <2>1, <2>2, NoSearchIsNone DEF TagDbTypeOK, ReadsAlone, SearchHasSource
  <2> QED
    BY <1>0, <2>1, <2>3, WholeIsWhole DEF TagDbInv
<1>6. ASSUME EndSearch \/ Close PROVE TagDbInv'
  <2>1. /\ search' = NoSearch /\ UNCHANGED <<fileText, written, operations, torn>>
        /\ committed' = db' /\ (db' = db \/ db' = committed)
    BY <1>6 DEF EndSearch, Close
  <2>2. Whole(db', torn') /\ Whole(committed', torn')
    BY <1>0, <2>1
  <2>3. TagDbTypeOK' /\ ReadsAlone' /\ SearchHasSource'
    BY <1>0, <2>1, <2>2 DEF TagDbTypeOK, ReadsAlone, SearchHasSource, Whole
  <2> QED
    BY <2>2, <2>3, WholeIsWhole DEF TagDbInv
<1>7. ASSUME NEW p \in TaggedPaths, NEW s \in SourceIds, TagPage(p, s) PROVE TagDbInv'
  <2>1. /\ ~Searching /\ Begins /\ NewText /\ UNCHANGED <<fileText, search, torn>>
    BY <1>7 DEF TagPage, Operation
  <2>2. written' \in Texts
    BY <1>0, <2>1, TagDbAssumption DEF NewText, TagDbTypeOK, Texts
  <2>3. Whole(db', torn') /\ committed' = db'
    <3>1. CASE UNCHANGED <<db, committed>>
      BY <1>0, <2>1, <3>1 DEF ReadsAlone
    <3>2. ASSUME NEW id \in FileIds, ~HasRow(db, p) => IsNextId(db, id),
                 db' = BuildResourceCacheForFile(p, s, id), committed' = db'
          PROVE  Whole(db', torn') /\ committed' = db'
      BY <2>1, <2>2, <3>2, PageKeepsWhole
    <3> QED
      BY <1>7, <3>1, <3>2 DEF TagPage
  <2>4. TagDbTypeOK'
    BY <1>0, <2>1, <2>2, <2>3, BeginsType DEF TagDbTypeOK, Whole
  <2>5. ReadsAlone' /\ SearchHasSource'
    BY <2>1, <2>3 DEF ReadsAlone, SearchHasSource
  <2> QED
    BY <2>3, <2>4, <2>5, WholeIsWhole DEF TagDbInv
<1>8. ASSUME NEW p \in TaggedPaths, NEW n \in 1 .. 2, DeleteFromFile(p, n) PROVE TagDbInv'
  <2> DEFINE done == FirstOf(<<"resources", "file_items">>, n)
  <2>1. "resources" \in done /\ "sources" \notin done
    BY FirstOfFileStatements
  <2>2. /\ Begins /\ ~(Searching /\ search.read)
        /\ DeleteIn(RowIds({p}), {}, done) /\ UNCHANGED <<fileText, written, search, torn>>
    BY <1>8 DEF DeleteFromFile
  <2> HIDE DEF done
  <2> QED
    BY <2>1, <2>2, DeletionKeepsInv
<1>9. ASSUME NEW dir \in Directories, NEW n \in 1 .. 3, DeleteDirectories(dir, n) PROVE TagDbInv'
  <2> DEFINE done == FirstOf(<<"resources", "trait_resources", "file_items">>, n)
  <2>1. "resources" \in done /\ "sources" \notin done
    BY FirstOfDirectoryStatements
  <2>2. /\ Begins /\ ~Searching
        /\ DeleteIn(RowIds(dir), {}, done) /\ UNCHANGED <<fileText, written, search, torn>>
    BY <1>9 DEF DeleteDirectories, Operation
  <2> HIDE DEF done
  <2> QED
    BY <2>1, <2>2, DeletionKeepsInv
<1>10. ASSUME NEW s \in Sources, NEW n \in 1 .. 4, DeleteSource(s, n) PROVE TagDbInv'
  <2> DEFINE done == FirstOf(<<"resources", "trait_resources", "file_items", "sources">>, n)
  <2>1. "resources" \in done /\ ("sources" \in done => "file_items" \in done)
    BY FirstOfSourceStatements
  <2>2. /\ Begins /\ ~Searching
        /\ DeleteIn({}, {s}, done) /\ UNCHANGED <<fileText, written, search, torn>>
    BY <1>10 DEF DeleteSource, Operation
  <2> HIDE DEF done
  <2> QED
    BY <2>1, <2>2, DeletionKeepsInv
<1>11. ASSUME NEW n \in 1 .. 4, WipeAll(n) PROVE TagDbInv'
  BY <1>11, WipeKeepsInv
<1>12. ASSUME NEW f \in Files, NEW g \in Files, RenameFile(f, g) PROVE TagDbInv'
  <2> DEFINE m == [p \in {f} |-> g]
  <2>1. RenameIn(m) /\ IsRenaming(m)
    BY <1>12, RenamesAreRenamings DEF RenameFile
  <2> HIDE DEF m
  <2> QED
    BY <2>1, RenameKeepsInv
<1>13. ASSUME NEW m \in DirRenames, RenameDir(m) PROVE TagDbInv'
  BY <1>13, RenamesAreRenamings, RenameKeepsInv DEF RenameDir
<1>14. CASE UNCHANGED tagDbVars
  <2>1. UNCHANGED <<fileText, written, db, committed, search, operations, torn>>
    BY <1>14 DEF tagDbVars
  <2>2. TagDbTypeOK' /\ ReadsAlone' /\ SearchHasSource'
    BY <1>0, <2>1 DEF TagDbTypeOK, ReadsAlone, SearchHasSource
  <2> QED
    BY <1>0, <2>1, <2>2, WholeIsWhole DEF TagDbInv
<1> QED
  BY <1>1, <1>2, <1>3, <1>4, <1>5, <1>6, <1>7, <1>8, <1>9, <1>10, <1>11, <1>12, <1>13, <1>14
     DEF TagDbNext

LEMMA TagDbInvariant == TagDbSpec => []TagDbInv
  BY TagDbInitHolds, TagDbStepHolds, PTL DEF TagDbSpec

\* The tables keep their types: each file has at most one row, under an id within the
\* bound, and a search counts its files up to the next commit, whatever is cut short.
THEOREM TagDbTypeCorrect == TagDbSpec => []TagDbTypeOK
<1>1. TagDbInv => TagDbTypeOK
  BY DEF TagDbInv
<1> QED
  BY <1>1, TagDbInvariant, PTL

\* For any files, sources and texts: whatever operations fail half-way, whatever commits
\* are lost, all connections see tables that belong together.
THEOREM TablesStayTogether == TagDbSpec => []TablesBelongTogether
<1>1. TagDbInv => TablesBelongTogether
  BY DEF TagDbInv
<1> QED
  BY <1>1, TagDbInvariant, PTL

-----------------------------------------------------------------------------
(***************************************************************************)
(* The tables as the one table of TagTable: what each operation on tables  *)
(* does to the entries.                                                    *)
(***************************************************************************)
TextsOf(d, id) == {t.text : t \in {u \in d.resources : u.id = id}}

EntryOfRow(d, row) ==
    [source |-> row.source, last_modified |-> row.last_modified,
     is_parsed |-> row.is_parsed, is_new |-> row.is_new, tags |-> TextsOf(d, row.id)]

LEMMA EntryIsOfRow ==
    ASSUME NEW d \in Tables, NEW p \in TaggedPaths
    PROVE  /\ HasRow(d, p) => /\ d.file_items[p] \in FileRows
                              /\ EntriesOf(d)[p] = EntryOfRow(d, d.file_items[p])
                              /\ EntriesOf(d)[p] \in Entries
                              /\ EntriesOf(d)[p] # NoRow
           /\ ~HasRow(d, p) => EntriesOf(d)[p] = NoRow
<1>1. ASSUME HasRow(d, p)
      PROVE  d.file_items[p] \in FileRows /\ EntriesOf(d)[p] = EntryOfRow(d, d.file_items[p])
  BY <1>1 DEF HasRow, Tables, EntriesOf, EntryOfRow, TextsOf
<1>2. \A id : TextsOf(d, id) \in SUBSET Texts
  BY DEF TextsOf, Tables, TagRows
<1>3. HasRow(d, p) => EntriesOf(d)[p] \in Entries
  BY <1>1, <1>2 DEF EntryOfRow, FileRows, Entries
<1>4. ~HasRow(d, p) => EntriesOf(d)[p] = NoRow
  BY DEF EntriesOf
<1> QED
  BY <1>1, <1>3, <1>4, TagDbAssumption

LEMMA EntriesAreAFunction ==
    ASSUME NEW d
    PROVE  EntriesOf(d) = [p \in TaggedPaths |-> EntriesOf(d)[p]]
  BY DEF EntriesOf

\* Tags go when the row of their file would.
LEMMA DeleteEntries ==
    ASSUME NEW d \in Tables, Sound(d), Neat(d), NEW ids, NEW srcs, NEW tables,
           "resources" \in tables
    PROVE  EntriesOf(Delete(d, ids, srcs, tables)) =
               [p \in TaggedPaths |->
                   IF /\ HasRow(d, p)
                      /\ d.file_items[p].id \in ids \/ d.file_items[p].source \in srcs
                   THEN Table!Emptied(EntriesOf(d)[p], "file_items" \in tables)
                   ELSE EntriesOf(d)[p]]
<1> DEFINE e == Delete(d, ids, srcs, tables)
           Goes(row) == row.id \in ids \/ row.source \in srcs
<1>1. e \in Tables
  BY DeleteType
<1> SUFFICES ASSUME NEW p \in TaggedPaths
             PROVE  EntriesOf(e)[p] = IF HasRow(d, p) /\ Goes(d.file_items[p])
                                      THEN Table!Emptied(EntriesOf(d)[p], "file_items" \in tables)
                                      ELSE EntriesOf(d)[p]
  BY EntriesAreAFunction
<1>2. CASE ~HasRow(d, p)
  <2>1. ~HasRow(e, p)
    BY <1>2, DeleteRows
  <2> QED
    BY <1>1, <1>2, <2>1, EntryIsOfRow
<1>3. CASE HasRow(d, p)
  <2> DEFINE row == d.file_items[p]
  <2>1. ASSUME NEW t \in d.resources, t.id = row.id PROVE t.source = row.source
    BY <1>3, <2>1 DEF Neat, TagsHaveTheirFile, IsOfFile, Sound, IdsAreUnique
  <2>2. e.resources = {t \in d.resources : ~Goes(t)}
    BY DEF Delete
  <2>3. Goes(row) => TextsOf(e, row.id) = {}
    BY <2>1, <2>2 DEF TextsOf
  <2>4. ~Goes(row) => TextsOf(e, row.id) = TextsOf(d, row.id)
    BY <2>1, <2>2 DEF TextsOf
  <2>5. /\ EntriesOf(d)[p] = EntryOfRow(d, row) /\ EntriesOf(d)[p] # NoRow
        /\ HasRow(e, p) <=> ~("file_items" \in tables /\ Goes(row))
        /\ HasRow(e, p) => EntriesOf(e)[p] = EntryOfRow(e, row)
        /\ ~HasRow(e, p) => EntriesOf(e)[p] = NoRow
    BY <1>1, <1>3, DeleteRows, EntryIsOfRow
  <2>6. CASE ~Goes(row)
    BY <2>4, <2>5, <2>6 DEF EntryOfRow
  <2>7. CASE Goes(row) /\ "file_items" \in tables
    BY <1>3, <2>5, <2>7 DEF Table!Emptied
  <2>8. CASE Goes(row) /\ "file_items" \notin tables
    <3>1. EntriesOf(e)[p] = [EntryOfRow(d, row) EXCEPT !.tags = {}]
      BY <2>3, <2>5, <2>8 DEF EntryOfRow
    <3> QED
      BY <1>3, <2>5, <2>8, <3>1 DEF Table!Emptied
  <2> QED
    BY <2>6, <2>7, <2>8
<1> QED
  BY <1>2, <1>3

\* A new row is an entry without tags.
LEMMA PersistFileTagEntries ==
    ASSUME NEW d \in Tables, NEW p \in TaggedPaths, NEW row \in FileRows,
           ~HasRow(d, p), IsNextId(d, row.id), Neat(d)
    PROVE  EntriesOf(PersistFileTag(d, p, row)) =
               [EntriesOf(d) EXCEPT ![p] =
                   [source |-> row.source, last_modified |-> row.last_modified,
                    is_parsed |-> row.is_parsed, is_new |-> row.is_new, tags |-> {}]]
<1> DEFINE e == PersistFileTag(d, p, row)
           entry == [source |-> row.source, last_modified |-> row.last_modified,
                     is_parsed |-> row.is_parsed, is_new |-> row.is_new, tags |-> {}]
<1>1. /\ e \in Tables /\ e.resources = d.resources
      /\ e.file_items = [d.file_items EXCEPT ![p] = row]
  BY DEF PersistFileTag, Tables
<1>2. HasRow(e, p) /\ e.file_items[p] = row
  BY <1>1, TagDbAssumption DEF HasRow, Tables
<1>3. \A id : TextsOf(e, id) = TextsOf(d, id)
  BY <1>1 DEF TextsOf
<1>4. TextsOf(d, row.id) = {}
  <2>1. row.id \in FileIds
    BY DEF FileRows
  <2> QED
    BY <2>1, NextIdHasNoTags DEF TextsOf
<1>5. EntriesOf(e)[p] = entry
  <2>1. EntriesOf(e)[p] = EntryOfRow(e, row)
    BY <1>1, <1>2, EntryIsOfRow
  <2>2. TextsOf(e, row.id) = {}
    BY <1>3, <1>4
  <2> QED
    BY <2>1, <2>2 DEF EntryOfRow
<1>6. ASSUME NEW q \in TaggedPaths, q # p PROVE EntriesOf(e)[q] = EntriesOf(d)[q]
  <2>1. e.file_items[q] = d.file_items[q] /\ (HasRow(e, q) <=> HasRow(d, q))
    BY <1>1, <1>6 DEF Tables, HasRow
  <2>2. CASE HasRow(d, q)
    <3> DEFINE old == d.file_items[q]
    <3>1. EntriesOf(e)[q] = EntryOfRow(e, old) /\ EntriesOf(d)[q] = EntryOfRow(d, old)
      BY <1>1, <2>1, <2>2, EntryIsOfRow
    <3>2. TextsOf(e, old.id) = TextsOf(d, old.id)
      BY <1>3
    <3> QED
      BY <3>1, <3>2 DEF EntryOfRow
  <2> QED
    BY <1>1, <2>1, <2>2, EntryIsOfRow
<1> HIDE DEF e, entry
<1>7. EntriesOf(e) = [EntriesOf(d) EXCEPT ![p] = entry]
  BY <1>5, <1>6, EntriesAreAFunction
<1> QED
  BY <1>7 DEF e, entry

\* An entry with other tags.
Tagged(entry, tags) ==
    [source |-> entry.source, last_modified |-> entry.last_modified,
     is_parsed |-> entry.is_parsed, is_new |-> entry.is_new, tags |-> tags]

LEMMA TaggedIsExcept ==
    ASSUME NEW entry \in Entries, NEW tags
    PROVE  [entry EXCEPT !.tags = tags] = Tagged(entry, tags)
  BY DEF Entries, Tagged

\* e has a tag of this text for p that d has not, and p had none in d.
FirstTagOf(e, d, p, text) ==
    /\ HasRow(d, p) /\ \A t \in d.resources : t.id # d.file_items[p].id
    /\ e.file_items = d.file_items
    /\ e.resources = d.resources \cup
           {[id |-> d.file_items[p].id, source |-> d.file_items[p].source, text |-> text]}

\* Storing tags for a file that has none changes its entry alone.
LEMMA PersistTagsEntries ==
    ASSUME NEW d \in Tables, NEW e \in Tables, NEW p \in TaggedPaths, NEW text \in Texts,
           Sound(d), FirstTagOf(e, d, p, text)
    PROVE  /\ EntriesOf(e)[p] = Tagged(EntriesOf(d)[p], {text})
           /\ \A q \in TaggedPaths : q # p => EntriesOf(e)[q] = EntriesOf(d)[q]
<1> DEFINE row == d.file_items[p]
           tag == [id |-> row.id, source |-> row.source, text |-> text]
<1>0. /\ HasRow(d, p) /\ \A t \in d.resources : t.id # row.id
      /\ e.file_items = d.file_items /\ e.resources = d.resources \cup {tag}
  BY DEF FirstTagOf
<1>1. TextsOf(e, row.id) = {text}
  <2>1. {u \in e.resources : u.id = row.id} = {tag}
    BY <1>0
  <2>2. {t.text : t \in {tag}} = {text}
    OBVIOUS
  <2> QED
    BY <2>1, <2>2 DEF TextsOf
<1>2. \A id : id # row.id => TextsOf(e, id) = TextsOf(d, id)
  BY <1>0 DEF TextsOf
<1>3. EntriesOf(e)[p] = Tagged(EntriesOf(d)[p], {text})
  <2>1. HasRow(e, p) /\ e.file_items[p] = row
    BY <1>0 DEF HasRow
  <2>2. EntriesOf(e)[p] = EntryOfRow(e, row) /\ EntriesOf(d)[p] = EntryOfRow(d, row)
    BY <1>0, <2>1, EntryIsOfRow
  <2> QED
    BY <1>1, <2>2 DEF EntryOfRow, Tagged
<1>4. ASSUME NEW q \in TaggedPaths, q # p PROVE EntriesOf(e)[q] = EntriesOf(d)[q]
  <2>1. e.file_items[q] = d.file_items[q] /\ (HasRow(e, q) <=> HasRow(d, q))
    BY <1>0 DEF HasRow
  <2>2. HasRow(d, q) => d.file_items[q].id # row.id
    BY <1>0, <1>4 DEF Sound, IdsAreUnique
  <2>3. CASE HasRow(d, q)
    <3> DEFINE old == d.file_items[q]
    <3>1. EntriesOf(e)[q] = EntryOfRow(e, old) /\ EntriesOf(d)[q] = EntryOfRow(d, old)
      BY <2>1, <2>3, EntryIsOfRow
    <3>2. TextsOf(e, old.id) = TextsOf(d, old.id)
      BY <1>2, <2>2, <2>3
    <3> QED
      BY <3>1, <3>2 DEF EntryOfRow
  <2> QED
    BY <2>1, <2>3, EntryIsOfRow
<1> QED
  BY <1>3, <1>4

\* Looking at a file replaces its entry.
LEMMA LookEntries ==
    ASSUME TagDbInv, ~torn, Searching, NEW f \in Files, NEW id \in FileIds, IsNextId(Replaced(f), id)
    PROVE  EntriesOf(BuildResourceCache(f, id)) =
               [EntriesOf(db) EXCEPT ![f] = Table!EntryFor(f, search.source)]
<1> DEFINE d == Replaced(f)
           row == [id |-> id, source |-> search.source, last_modified |-> LastModified(f),
                   is_parsed |-> f \in PhpFiles, is_new |-> FALSE]
           a == PersistFileTag(d, f, row)
           used == search.traits \cup TraitsIn(fileText[f])
           e == PersistTags(a, id, search.source, fileText[f], search.namespace, used)
           bare == [source |-> search.source, last_modified |-> LastModified(f),
                    is_parsed |-> f \in PhpFiles, is_new |-> FALSE, tags |-> {}]
<1>1. f \in TaggedPaths /\ db \in Tables /\ Sound(db) /\ Neat(db)
  BY WholeIsWhole DEF TaggedPaths, Whole
<1>2. search \in Searches /\ search.source \in SourceIds /\ search.traits \in SUBSET Texts
  BY TagDbAssumption DEF TagDbInv, TagDbTypeOK, Searching, Searches, SourceIds
<1>3. /\ d \in Tables /\ Sound(d) /\ Neat(d) /\ d.sources = db.sources /\ ~HasRow(d, f)
      /\ \A q \in TaggedPaths : q # f => EntriesOf(d)[q] = EntriesOf(db)[q]
  <2>1. CASE HasRow(db, f)
    <3> DEFINE gone == {"resources", "file_items"}
               ids == {db.file_items[f].id}
    <3>1. d = Delete(db, ids, {}, gone)
      BY <2>1 DEF Replaced
    <3>2. d \in Tables /\ Sound(d) /\ Neat(d) /\ d.sources = db.sources
      <4>1. d \in Tables
        BY <1>1, <3>1, DeleteType
      <4>2. Sound(d)
        BY <1>1, <3>1, DeleteKeepsSound
      <4>3. Neat(d)
        BY <1>1, <3>1, DeleteKeepsNeat
      <4>4. d.sources = db.sources
        BY <3>1 DEF Delete
      <4> QED
        BY <4>1, <4>2, <4>3, <4>4
    <3>3. ~HasRow(d, f)
      BY <1>1, <2>1, <3>1, DeleteRows
    <3>4. ASSUME NEW q \in TaggedPaths, q # f PROVE EntriesOf(d)[q] = EntriesOf(db)[q]
      <4>1. HasRow(db, q) => db.file_items[q].id \notin ids
        BY <1>1, <2>1, <3>4 DEF Sound, IdsAreUnique
      <4>2. EntriesOf(d)[q] = IF /\ HasRow(db, q)
                                 /\ db.file_items[q].id \in ids \/ db.file_items[q].source \in {}
                             THEN Table!Emptied(EntriesOf(db)[q], "file_items" \in gone)
                             ELSE EntriesOf(db)[q]
        BY <1>1, <3>1, DeleteEntries
      <4> QED
        BY <4>1, <4>2
    <3> QED
      BY <3>2, <3>3, <3>4
  <2>2. CASE ~HasRow(db, f)
    BY <1>1, <2>2 DEF Replaced
  <2> QED
    BY <2>1, <2>2
<1>4. LastModified(f) \in Texts
  BY DEF TagDbInv, TagDbTypeOK, LastModified, Texts
<1>5. row \in FileRows /\ row.id = id /\ row.source \in d.sources /\ row # NoRow
  <2>1. row \in FileRows
    BY <1>2, <1>4 DEF FileRows
  <2> QED
    BY <1>3, <2>1, TagDbAssumption DEF TagDbInv, SearchHasSource
<1>6. /\ a \in Tables /\ Sound(a) /\ HasRow(a, f) /\ a.file_items[f] = row
      /\ \A t \in a.resources : t.id # id
      /\ EntriesOf(a) = [EntriesOf(d) EXCEPT ![f] = bare]
  <2> HIDE DEF row
  <2>1. /\ a \in Tables /\ Sound(a) /\ HasRow(a, f) /\ a.file_items[f] = row
        /\ a.resources = d.resources
    BY <1>1, <1>3, <1>5, PersistFileTagKeeps
  <2>2. \A t \in a.resources : t.id # id
    BY <1>3, <2>1, NextIdHasNoTags
  <2>3. EntriesOf(a) = [EntriesOf(d) EXCEPT ![f] =
            [source |-> row.source, last_modified |-> row.last_modified,
             is_parsed |-> row.is_parsed, is_new |-> row.is_new, tags |-> {}]]
    BY <1>1, <1>3, <1>5, PersistFileTagEntries
  <2> QED
    BY <2>1, <2>2, <2>3 DEF row
<1>7. row.source = search.source
  OBVIOUS
<1>8. /\ EntriesOf(a)[f] = bare
      /\ \A q \in TaggedPaths : q # f => EntriesOf(a)[q] = EntriesOf(db)[q]
  <2> HIDE DEF a, d, bare
  <2> QED
    BY <1>1, <1>3, <1>6, EntriesAreAFunction
<1> DEFINE entry == Table!EntryFor(f, search.source)
<1>9. CASE IsRead(f)
  <2>1. fileText[f] \in Texts /\ used \in SUBSET Texts /\ TraitsIn(fileText[f]) \subseteq used
    <3>1. fileText[f] \in 0 .. MaxText /\ fileText[f] # 0
      BY <1>9 DEF IsRead, TagDbInv, TagDbTypeOK
    <3> QED
      BY <1>2, <3>1, TagDbAssumption DEF Texts, TraitsIn
  <2>2. /\ EntriesOf(e)[f] = Tagged(EntriesOf(a)[f], {fileText[f]})
        /\ \A q \in TaggedPaths : q # f => EntriesOf(e)[q] = EntriesOf(a)[q]
    <3>1. a.file_items[f].id = id /\ a.file_items[f].source = search.source
      BY <1>5, <1>6, <1>7
    <3> HIDE DEF a, row, used
    <3>2. e \in Tables
      BY <1>1, <1>6, <2>1, <3>1, PersistTagsKeeps
    <3>3. /\ e.file_items = a.file_items
          /\ e.resources = a.resources \cup
                 {[id |-> id, source |-> search.source, text |-> fileText[f]]}
      BY <1>6 DEF PersistTags, Tables
    <3>4. \A t \in a.resources : t.id # a.file_items[f].id
      BY <1>6, <3>1
    <3>5. a \in Tables /\ Sound(a) /\ HasRow(a, f)
      BY <1>6
    <3>6. e.resources = a.resources \cup {[id |-> a.file_items[f].id,
                                          source |-> a.file_items[f].source,
                                          text |-> fileText[f]]}
      BY <3>1, <3>3
    <3> HIDE DEF e, d
    <3>7. f \in TaggedPaths /\ fileText[f] \in Texts
      BY <1>1, <2>1
    <3>8. FirstTagOf(e, a, f, fileText[f])
      BY <3>3, <3>4, <3>5, <3>6 DEF FirstTagOf
    <3> QED
      BY <3>2, <3>5, <3>7, <3>8, PersistTagsEntries
  <2>3. Tagged(bare, {fileText[f]}) = entry
    <3>1. f \in PhpFiles /\ fileText[f] # 0
      BY <1>9 DEF IsRead
    <3> QED
      BY <3>1 DEF Tagged, Table!EntryFor, LastModified
  <2>4. EntriesOf(e) = [EntriesOf(db) EXCEPT ![f] = entry]
    <3> HIDE DEF a, e, bare, entry
    <3> QED
      BY <1>1, <1>8, <2>2, <2>3, EntriesAreAFunction
  <2>5. BuildResourceCache(f, id) = e
    BY <1>9 DEF BuildResourceCache
  <2> QED
    BY <2>4, <2>5
<1>10. CASE ~IsRead(f)
  <2>1. bare = entry
    BY <1>10 DEF Table!EntryFor, LastModified, IsRead
  <2>2. EntriesOf(a) = [EntriesOf(db) EXCEPT ![f] = entry]
    <3> HIDE DEF a, bare, entry
    <3> QED
      BY <1>1, <1>8, <2>1, EntriesAreAFunction
  <2>3. BuildResourceCache(f, id) = a
    BY <1>10 DEF BuildResourceCache
  <2> QED
    BY <2>2, <2>3
<1> QED
  BY <1>9, <1>10

\* A page replaces the tags of its entry, or makes one.
LEMMA PageEntries ==
    ASSUME TagDbInv, ~torn, NEW p \in TaggedPaths, NEW s \in SourceIds, NEW id \in FileIds,
           written' \in Texts, ~HasRow(db, p) => IsNextId(db, id)
    PROVE  EntriesOf(BuildResourceCacheForFile(p, s, id)) =
               [EntriesOf(db) EXCEPT ![p] =
                   IF @ # NoRow THEN [@ EXCEPT !.tags = {written'}]
                   ELSE [source |-> s, last_modified |-> written', is_parsed |-> FALSE,
                         is_new |-> p \in NewFiles, tags |-> {written'}]]
<1> DEFINE d == PersistSource(db, s)
           new == [id |-> id, source |-> s, last_modified |-> written',
                   is_parsed |-> FALSE, is_new |-> p \in NewFiles]
           row == IF HasRow(d, p) THEN d.file_items[p] ELSE new
           removed == IF HasRow(d, p) THEN Delete(d, {row.id}, {}, {"resources"})
                      ELSE PersistFileTag(d, p, row)
           e == PersistTags(removed, row.id, row.source, written', FALSE, TraitsIn(written'))
           E == EntriesOf(db)
           bare == [source |-> s, last_modified |-> written', is_parsed |-> FALSE,
                    is_new |-> p \in NewFiles, tags |-> {}]
<1>1. /\ d \in Tables /\ Sound(d) /\ Neat(d) /\ s \in d.sources /\ EntriesOf(d) = E
      /\ HasRow(d, p) <=> HasRow(db, p)
      /\ IsNextId(db, id) => IsNextId(d, id)
  <2>1. d.file_items = db.file_items /\ d.resources = db.resources /\ s \in d.sources
    BY DEF PersistSource, TagDbInv, TagDbTypeOK, Tables
  <2>2. EntriesOf(d) = E
    BY <2>1 DEF EntriesOf, HasRow
  <2> QED
    BY <2>1, <2>2, WholeIsWhole, PersistSourceKeeps DEF Whole, HasRow, IsNextId
<1>2. new \in FileRows /\ new.id = id /\ new.source = s /\ new # NoRow
  <2>1. new \in FileRows
    BY DEF FileRows
  <2> QED
    BY <2>1, TagDbAssumption
<1>3. /\ removed \in Tables /\ Sound(removed) /\ HasRow(removed, p)
      /\ removed.file_items[p] = row /\ \A t \in removed.resources : t.id # row.id
      /\ EntriesOf(removed)[p] = IF E[p] # NoRow THEN [E[p] EXCEPT !.tags = {}] ELSE bare
      /\ \A q \in TaggedPaths : q # p => EntriesOf(removed)[q] = E[q]
  <2>1. CASE HasRow(d, p)
    <3> DEFINE ids == {d.file_items[p].id}
    <3>1. removed = Delete(d, ids, {}, {"resources"}) /\ row = d.file_items[p]
      BY <2>1
    <3>2. removed \in Tables /\ Sound(removed)
      BY <1>1, <3>1, DeleteType, DeleteKeepsSound
    <3>3. HasRow(removed, p) /\ removed.file_items[p] = row
      BY <1>1, <2>1, <3>1, DeleteRows
    <3>4. \A t \in removed.resources : t.id # row.id
      BY <3>1 DEF Delete
    <3>5. ASSUME NEW q \in TaggedPaths
          PROVE  EntriesOf(removed)[q] = IF HasRow(d, q) /\ d.file_items[q].id \in ids
                                         THEN Table!Emptied(E[q], FALSE) ELSE E[q]
      <4>1. EntriesOf(removed)[q] =
                IF /\ HasRow(d, q)
                   /\ d.file_items[q].id \in ids \/ d.file_items[q].source \in {}
                THEN Table!Emptied(EntriesOf(d)[q], "file_items" \in {"resources"})
                ELSE EntriesOf(d)[q]
        BY <1>1, <3>1, DeleteEntries
      <4>2. ("file_items" \in {"resources"}) = FALSE
        OBVIOUS
      <4> QED
        BY <1>1, <4>1, <4>2
    <3>6. E[p] # NoRow
      BY <1>1, <2>1, EntryIsOfRow
    <3>7. EntriesOf(removed)[p] = [E[p] EXCEPT !.tags = {}]
      BY <2>1, <3>5, <3>6 DEF Table!Emptied
    <3>8. ASSUME NEW q \in TaggedPaths, q # p PROVE EntriesOf(removed)[q] = E[q]
      <4>1. ~(HasRow(d, q) /\ d.file_items[q].id \in ids)
        BY <1>1, <2>1, <3>8 DEF Sound, IdsAreUnique
      <4> QED
        BY <3>5, <4>1
    <3> QED
      BY <3>2, <3>3, <3>4, <3>6, <3>7, <3>8
  <2>2. CASE ~HasRow(d, p)
    <3>1. removed = PersistFileTag(d, p, new) /\ row = new
      BY <2>2
    <3>2. IsNextId(d, new.id)
      BY <1>1, <1>2, <2>2
    <3>3. E[p] = NoRow
      BY <1>1, <2>2, EntryIsOfRow
    <3>4. EntriesOf(removed) = [E EXCEPT ![p] =
              [source |-> new.source, last_modified |-> new.last_modified,
               is_parsed |-> new.is_parsed, is_new |-> new.is_new, tags |-> {}]]
      <4> HIDE DEF new, d
      <4> QED
        BY <1>1, <1>2, <2>2, <3>1, <3>2, PersistFileTagEntries
    <3>5. /\ removed \in Tables /\ Sound(removed)
          /\ HasRow(removed, p) /\ removed.file_items[p] = new
          /\ removed.resources = d.resources
      <4> HIDE DEF new, d
      <4> QED
        BY <1>1, <1>2, <2>2, <3>1, <3>2, PersistFileTagKeeps
    <3>6. \A t \in removed.resources : t.id # new.id
      BY <1>1, <1>2, <3>2, <3>5, NextIdHasNoTags
    <3>7. EntriesOf(removed) = [E EXCEPT ![p] = bare]
      BY <3>4
    <3> HIDE DEF removed, bare, E, new
    <3>8. E = [q \in TaggedPaths |-> E[q]]
      BY EntriesAreAFunction DEF E
    <3>9. /\ EntriesOf(removed)[p] = bare
          /\ \A q \in TaggedPaths : q # p => EntriesOf(removed)[q] = E[q]
      BY <3>7, <3>8
    <3> QED
      BY <3>1, <3>3, <3>5, <3>6, <3>9
  <2> QED
    BY <2>1, <2>2
<1>4. TraitsIn(written') \in SUBSET Texts
  BY DEF TraitsIn
<1>5. /\ EntriesOf(e)[p] = Tagged(EntriesOf(removed)[p], {written'})
      /\ \A q \in TaggedPaths : q # p => EntriesOf(e)[q] = EntriesOf(removed)[q]
  <2> HIDE DEF row, removed
  <2>1. e \in Tables
    BY <1>3, <1>4, PersistTagsKeeps
  <2>2. /\ e.file_items = removed.file_items
        /\ e.resources = removed.resources \cup
               {[id |-> row.id, source |-> row.source, text |-> written']}
    BY <1>3 DEF PersistTags, Tables
  <2> HIDE DEF e
  <2>3. FirstTagOf(e, removed, p, written')
    BY <1>3, <2>2 DEF FirstTagOf
  <2>4. removed \in Tables /\ Sound(removed)
    BY <1>3
  <2> QED
    BY <2>1, <2>3, <2>4, PersistTagsEntries
<1> DEFINE entry == IF E[p] # NoRow THEN [E[p] EXCEPT !.tags = {written'}]
                    ELSE [source |-> s, last_modified |-> written', is_parsed |-> FALSE,
                          is_new |-> p \in NewFiles, tags |-> {written'}]
<1>6. EntriesOf(e)[p] = entry
  <2>1. CASE E[p] # NoRow
    <3>1. E[p] \in Entries
      BY <1>1, <2>1, EntryIsOfRow DEF TagDbInv, TagDbTypeOK
    <3>2. EntriesOf(removed)[p] = Tagged(E[p], {})
      BY <1>3, <2>1, <3>1, TaggedIsExcept
    <3>3. entry = Tagged(E[p], {written'})
      BY <2>1, <3>1, TaggedIsExcept
    <3> HIDE DEF removed, e, E, entry
    <3> QED
      BY <1>5, <3>2, <3>3 DEF Tagged
  <2>2. CASE E[p] = NoRow
    <3>1. EntriesOf(removed)[p] = bare
      BY <1>3, <2>2
    <3>2. Tagged(bare, {written'}) = entry
      BY <2>2 DEF Tagged
    <3> HIDE DEF removed, e, E, entry, bare
    <3> QED
      BY <1>5, <3>1, <3>2
  <2> QED
    BY <2>1, <2>2
<1>7. EntriesOf(e) = [E EXCEPT ![p] = entry]
  <2>1. \A q \in TaggedPaths : q # p => EntriesOf(e)[q] = E[q]
    <3> HIDE DEF removed, e, E
    <3> QED
      BY <1>3, <1>5
  <2>2. E = [q \in TaggedPaths |-> E[q]] /\ EntriesOf(e) = [q \in TaggedPaths |-> EntriesOf(e)[q]]
    BY EntriesAreAFunction
  <2> HIDE DEF removed, e, E, entry
  <2> QED
    BY <1>6, <2>1, <2>2
<1>8. BuildResourceCacheForFile(p, s, id) = e
  BY DEF BuildResourceCacheForFile
<1> QED
  BY <1>7, <1>8

\* The same row is the same entry.
LEMMA SameRowSameEntry ==
    ASSUME NEW d \in Tables, NEW e \in Tables, NEW p \in TaggedPaths, NEW q \in TaggedPaths,
           e.resources = d.resources, e.file_items[q] = d.file_items[p]
    PROVE  EntriesOf(e)[q] = EntriesOf(d)[p]
<1>1. \A id : TextsOf(e, id) = TextsOf(d, id)
  BY DEF TextsOf
<1>2. HasRow(e, q) <=> HasRow(d, p)
  BY DEF HasRow
<1>3. CASE HasRow(d, p)
  <2> DEFINE row == d.file_items[p]
  <2>1. EntriesOf(e)[q] = EntryOfRow(e, row) /\ EntriesOf(d)[p] = EntryOfRow(d, row)
    BY <1>2, <1>3, EntryIsOfRow
  <2> QED
    BY <1>1, <2>1 DEF EntryOfRow
<1>4. CASE ~HasRow(d, p)
  BY <1>2, <1>4, EntryIsOfRow
<1> QED
  BY <1>3, <1>4

\* A renaming that is not refused moves the entries of the files that have one.
LEMMA RenameEntries ==
    ASSUME NEW d \in Tables, NEW m, IsRenaming(m), Rename(d, m) # d
    PROVE  LET E == EntriesOf(d) IN
           /\ \A p \in DOMAIN m : E[p] # NoRow => E[m[p]] = NoRow
           /\ EntriesOf(Rename(d, m)) =
                  [p \in TaggedPaths |->
                      IF \E q \in DOMAIN m : m[q] = p /\ E[q] # NoRow
                      THEN E[CHOOSE q \in DOMAIN m : m[q] = p]
                      ELSE IF p \in DOMAIN m THEN NoRow ELSE E[p]]
<1> DEFINE E == EntriesOf(d)
           e == Rename(d, m)
<1>1. \A q \in DOMAIN m : q \in TaggedPaths /\ m[q] \in TaggedPaths /\ m[q] \notin DOMAIN m
  BY DEF IsRenaming, TaggedPaths
<1>2. e \in Tables /\ e.resources = d.resources
  <2>1. e = [d EXCEPT !.file_items = e.file_items]
    BY RenameRows
  <2>2. e \in Tables
    BY RenameKeeps
  <2> QED
    BY <2>1, <2>2 DEF Tables
<1>3. \A p \in TaggedPaths : E[p] # NoRow <=> HasRow(d, p)
  BY EntryIsOfRow
<1>4. ASSUME NEW p \in DOMAIN m, E[p] # NoRow PROVE E[m[p]] = NoRow
  BY <1>1, <1>3, <1>4, RenameRows
<1>5. ASSUME NEW p \in TaggedPaths
      PROVE  EntriesOf(e)[p] =
                 IF \E q \in DOMAIN m : m[q] = p /\ E[q] # NoRow
                 THEN E[CHOOSE q \in DOMAIN m : m[q] = p]
                 ELSE IF p \in DOMAIN m THEN NoRow ELSE E[p]
  <2>1. CASE \E q \in DOMAIN m : m[q] = p /\ E[q] # NoRow
    <3>1. PICK q \in DOMAIN m : m[q] = p /\ E[q] # NoRow
      BY <2>1
    <3>2. (CHOOSE r \in DOMAIN m : m[r] = p) = q
      BY <3>1 DEF IsRenaming
    <3>3. e.file_items[p] = d.file_items[q]
      BY <1>1, <1>3, <3>1, RenameRows
    <3>4. EntriesOf(e)[p] = E[q]
      BY <1>1, <1>2, <3>3, SameRowSameEntry
    <3> QED
      BY <2>1, <3>2, <3>4
  <2>2. CASE /\ ~\E q \in DOMAIN m : m[q] = p /\ E[q] # NoRow
             /\ p \in DOMAIN m
    <3>1. ~HasRow(e, p)
      BY <2>2, RenameRows
    <3> QED
      BY <1>2, <2>2, <3>1, EntryIsOfRow
  <2>3. CASE /\ ~\E q \in DOMAIN m : m[q] = p /\ E[q] # NoRow
             /\ p \notin DOMAIN m
    <3>1. e.file_items[p] = d.file_items[p]
      <4>1. CASE \E q \in DOMAIN m : m[q] = p
        <5>1. PICK q \in DOMAIN m : m[q] = p
          BY <4>1
        <5>2. ~HasRow(d, q)
          BY <1>1, <1>3, <2>3, <5>1
        <5> QED
          BY <5>1, <5>2, RenameRows
      <4>2. CASE \A q \in DOMAIN m : m[q] # p
        BY <2>3, <4>2, RenameRows
      <4> QED
        BY <4>1, <4>2
    <3>2. EntriesOf(e)[p] = E[p]
      BY <1>2, <3>1, SameRowSameEntry
    <3> QED
      BY <2>3, <3>2
  <2> QED
    BY <2>1, <2>2, <2>3
<1> HIDE DEF e, E
<1>6. EntriesOf(e) = [p \in TaggedPaths |-> EntriesOf(e)[p]]
  BY EntriesAreAFunction
<1>7. EntriesOf(e) = [p \in TaggedPaths |->
                         IF \E q \in DOMAIN m : m[q] = p /\ E[q] # NoRow
                         THEN E[CHOOSE q \in DOMAIN m : m[q] = p]
                         ELSE IF p \in DOMAIN m THEN NoRow ELSE E[p]]
  BY <1>5, <1>6, Zenon
<1> QED
  BY <1>4, <1>7 DEF E, e

-----------------------------------------------------------------------------
(***************************************************************************)
(* The refinement, action by action.                                       *)
(***************************************************************************)
LEMMA PrimedEntries ==
    EntriesOf(db)' = EntriesOf(db') /\ EntriesOf(committed)' = EntriesOf(committed')
  BY DEF EntriesOf, HasRow

LEMMA SamePaths == Table!TableFiles = Files /\ Table!TablePaths = TaggedPaths
  BY DEF Table!TableFiles, Table!TablePaths, Files, TaggedPaths

LEMMA EmptyEntries == EntriesOf(EmptyTables) = [p \in TaggedPaths |-> NoRow]
  BY DEF EntriesOf, EmptyTables, HasRow

LEMMA InitIsTableInit == TagDbInit => Table!TableInit
  BY EmptyEntries, SamePaths DEF TagDbInit, Table!TableInit

\* The files that a deletion names are those with a row that goes.
LEMMA DeletionDiscards ==
    ASSUME TagDbInv, ~torn, NEW ids, NEW srcs, NEW tables, NEW named,
           DeleteIn(ids, srcs, tables), UNCHANGED <<fileText, written>>,
           "resources" \in tables, ~(Searching /\ search.read),
           \A p \in TaggedPaths : HasRow(db, p) =>
               (p \in named <=>
                   db.file_items[p].id \in ids \/ db.file_items[p].source \in srcs)
    PROVE  \/ Table!Discard(named, TRUE)
           \/ Table!Discard(named, FALSE)
<1> DEFINE E == EntriesOf(db)
<1>1. db \in Tables /\ Sound(db) /\ Neat(db)
  BY WholeIsWhole DEF Whole
<1>2. db = committed
  BY DEF TagDbInv, ReadsAlone
<1>3. db' = Delete(db, ids, srcs, tables) /\ committed' = db'
  BY <1>2 DEF DeleteIn
<1>4. EntriesOf(db') = [p \in TaggedPaths |->
          IF /\ HasRow(db, p)
             /\ db.file_items[p].id \in ids \/ db.file_items[p].source \in srcs
          THEN Table!Emptied(E[p], "file_items" \in tables) ELSE E[p]]
  BY <1>1, <1>3, DeleteEntries
<1>5. \A p \in TaggedPaths : ~HasRow(db, p) => E[p] = NoRow
  BY <1>1, EntryIsOfRow
<1>6. /\ Table!Emptied(NoRow, TRUE) = NoRow
      /\ Table!Emptied(NoRow, FALSE) = NoRow
  BY DEF Table!Emptied
<1>7. CASE "file_items" \in tables
  <2>1. \A p \in TaggedPaths :
            (IF /\ HasRow(db, p)
                /\ db.file_items[p].id \in ids \/ db.file_items[p].source \in srcs
             THEN Table!Emptied(E[p], "file_items" \in tables) ELSE E[p])
            = IF p \in named THEN Table!Emptied(E[p], TRUE) ELSE E[p]
    BY <1>5, <1>6, <1>7 DEF Table!Emptied
  <2>2. EntriesOf(db') = [p \in TaggedPaths |->
                             IF p \in named THEN Table!Emptied(E[p], TRUE) ELSE E[p]]
    BY <1>4, <2>1
  <2> QED
    BY <1>2, <1>3, <2>2, PrimedEntries, SamePaths
       DEF Table!Discard, Table!Both, Table!TextsStay
<1>8. CASE "file_items" \notin tables
  <2>1. \A p \in TaggedPaths :
            (IF /\ HasRow(db, p)
                /\ db.file_items[p].id \in ids \/ db.file_items[p].source \in srcs
             THEN Table!Emptied(E[p], "file_items" \in tables) ELSE E[p])
            = IF p \in named THEN Table!Emptied(E[p], FALSE) ELSE E[p]
    BY <1>5, <1>6, <1>8 DEF Table!Emptied
  <2>2. EntriesOf(db') = [p \in TaggedPaths |->
                             IF p \in named THEN Table!Emptied(E[p], FALSE) ELSE E[p]]
    BY <1>4, <2>1
  <2> QED
    BY <1>2, <1>3, <2>2, PrimedEntries, SamePaths
       DEF Table!Discard, Table!Both, Table!TextsStay
<1> QED
  BY <1>7, <1>8

LEMMA RowIdsOfNamed ==
    ASSUME TagDbInv, ~torn, NEW ps \in SUBSET TaggedPaths
    PROVE  \A p \in TaggedPaths :
               HasRow(db, p) => (p \in ps <=> db.file_items[p].id \in RowIds(ps))
<1>1. IdsAreUnique(db)
  BY WholeIsWhole DEF Whole, Sound
<1> SUFFICES ASSUME NEW p \in TaggedPaths, HasRow(db, p)
             PROVE  p \in ps <=> db.file_items[p].id \in RowIds(ps)
  OBVIOUS
<1>2. p \in ps => db.file_items[p].id \in RowIds(ps)
  BY DEF RowIds
<1>3. ASSUME db.file_items[p].id \in RowIds(ps) PROVE p \in ps
  <2>1. PICK q \in ps : HasRow(db, q) /\ db.file_items[q].id = db.file_items[p].id
    BY <1>3 DEF RowIds
  <2> QED
    BY <1>1, <2>1 DEF IdsAreUnique
<1> QED
  BY <1>2, <1>3

\* A file that is looked at is not current.
LEMMA LookedAtIsNotCurrent ==
    ASSUME TagDbInv, NEW f \in Files, NEW s, IsLookedAt(f)
    PROVE  ~Table!IsCurrent(f, s)
<1>1. db \in Tables /\ f \in TaggedPaths
  BY DEF TagDbInv, TagDbTypeOK, TaggedPaths
<1>2. CASE ~HasRow(db, f)
  BY <1>1, <1>2, EntryIsOfRow DEF Table!IsCurrent
<1>3. CASE HasRow(db, f)
  <2> DEFINE row == db.file_items[f]
  <2>1. f \in PhpFiles /\ f \notin OtherFiles
    BY <1>3, TagDbAssumption DEF IsLookedAt
  <2>2. row.is_new \/ ~row.is_parsed \/ row.last_modified < LastModified(f)
    BY <1>3 DEF IsLookedAt, NeedsToBeParsed
  <2>3. /\ EntriesOf(db)[f].is_new <=> row.is_new
        /\ EntriesOf(db)[f].is_parsed <=> row.is_parsed
        /\ EntriesOf(db)[f].last_modified = row.last_modified
    <3>1. EntriesOf(db)[f] = EntryOfRow(db, row)
      BY <1>1, <1>3, EntryIsOfRow
    <3> QED
      BY <3>1 DEF EntryOfRow
  <2>4. Table!EntryFor(f, s).last_modified = LastModified(f)
    BY DEF Table!EntryFor, LastModified
  <2>5. row.last_modified \in Nat /\ LastModified(f) \in Nat
    <3>1. row \in FileRows
      BY <1>1, <1>3, EntryIsOfRow
    <3>2. LastModified(f) \in 0 .. MaxText
      BY TagDbAssumption DEF TagDbInv, TagDbTypeOK, LastModified, Texts
    <3> QED
      BY <3>1, <3>2 DEF FileRows, Texts
  <2> QED
    BY <2>1, <2>2, <2>3, <2>4, <2>5 DEF Table!IsCurrent
<1> QED
  BY <1>2, <1>3

\* A file that is walked, committed or not, or lost with its transaction.
LEMMA WalkIsLook ==
    ASSUME TagDbInv, ~torn, NEW f \in Files, Walk(f) \/ WalkAndCommit(f)
    PROVE  Table!Look(f, search.source) \/ Table!Lose
<1>1. /\ Searching /\ f \in FilesOf[search.source] /\ IsLookedAt(f)
      /\ UNCHANGED <<fileText, written>>
  BY DEF Walk, WalkAndCommit, CanWalk
<1>2. CASE /\ \E id \in FileIds : IsNextId(Replaced(f), id) /\ db' = BuildResourceCache(f, id)
           /\ committed' = committed \/ committed' = db'
  <2>1. PICK id \in FileIds : IsNextId(Replaced(f), id) /\ db' = BuildResourceCache(f, id)
    BY <1>2
  <2>2. EntriesOf(db') = [EntriesOf(db) EXCEPT ![f] = Table!EntryFor(f, search.source)]
    BY <1>1, <2>1, LookEntries
  <2>3. EntriesOf(committed') = EntriesOf(committed) \/ EntriesOf(committed') = EntriesOf(db')
    BY <1>2
  <2> QED
    BY <1>1, <2>2, <2>3, LookedAtIsNotCurrent, PrimedEntries
       DEF Table!Look, Table!Both, Table!TextsStay
<1>3. CASE db' = committed /\ UNCHANGED committed
  BY <1>1, <1>3, PrimedEntries DEF Table!Lose, Table!TextsStay
<1> QED
  BY <1>2, <1>3 DEF Walk, WalkAndCommit

LEMMA PageIsStored ==
    ASSUME TagDbInv, ~torn, NEW p \in TaggedPaths, NEW s \in SourceIds, TagPage(p, s)
    PROVE  Table!StorePage(p, s)
<1>1. /\ ~Searching /\ NewText /\ UNCHANGED fileText /\ db = committed
  BY DEF TagPage, Operation, TagDbInv, ReadsAlone
<1>2. written' \in Texts
  BY <1>1, TagDbAssumption DEF NewText, TagDbInv, TagDbTypeOK, Texts
<1>3. Table!NewText
  BY <1>1 DEF NewText, Table!NewText
<1>4. CASE UNCHANGED <<db, committed>>
  BY <1>1, <1>3, <1>4, PrimedEntries DEF Table!StorePage, Table!Both
<1>5. ASSUME NEW id \in FileIds, ~HasRow(db, p) => IsNextId(db, id),
             db' = BuildResourceCacheForFile(p, s, id), committed' = db'
      PROVE  Table!StorePage(p, s)
  <2>1. EntriesOf(db') =
            [EntriesOf(db) EXCEPT ![p] =
                IF @ # NoRow THEN [@ EXCEPT !.tags = {written'}]
                ELSE [source |-> s, last_modified |-> written', is_parsed |-> FALSE,
                      is_new |-> p \in NewFiles, tags |-> {written'}]]
    BY <1>2, <1>5, PageEntries
  <2> QED
    BY <1>1, <1>3, <1>5, <2>1, PrimedEntries DEF Table!StorePage, Table!Both
<1> QED
  BY <1>4, <1>5 DEF TagPage

\* A wipe that deleted more than file_items leaves no entry, whatever was there.
LEMMA WipeDiscardsAll ==
    ASSUME TagDbInv, NEW n \in 1 .. 4, WipeAll(n), ~torn'
    PROVE  Table!Discard(TaggedPaths, TRUE)
<1> DEFINE done == FirstOf(<<"file_items", "resources", "trait_resources", "sources">>, n)
<1>1. /\ db' = Delete(db, {}, SourceIds, done) /\ ~Searching
      /\ committed' = Delete(committed, {}, SourceIds, done)
      /\ UNCHANGED <<fileText, written>>
  BY DEF WipeAll, DeleteIn, Operation
<1>2. db = committed /\ db \in Tables
  BY <1>1 DEF TagDbInv, TagDbTypeOK, ReadsAlone
<1>3. "file_items" \in done
  BY FirstOfWipeStatements
<1> HIDE DEF done
<1>4. db' \in Tables
  BY <1>1, <1>2, DeleteType
<1>5. \A p \in TaggedPaths : ~HasRow(db', p)
  <2>1. \A p \in TaggedPaths : HasRow(db, p) => db.file_items[p].source \in SourceIds
    BY <1>2 DEF Tables, FileRows, HasRow
  <2> QED
    BY <1>1, <1>2, <1>3, <2>1, DeleteRows
<1>6. EntriesOf(db') = [p \in TaggedPaths |-> NoRow]
  BY <1>4, <1>5 DEF EntriesOf
<1> QED
  BY <1>1, <1>2, <1>6, PrimedEntries, SamePaths
     DEF Table!Discard, Table!Emptied, Table!Both, Table!TextsStay

\* A renaming, or none if the index refused one.
LEMMA RenameMoves ==
    ASSUME TagDbInv, NEW m, IsRenaming(m), RenameIn(m)
    PROVE  Table!Move(m) \/ UNCHANGED Table!tableVars
<1>1. /\ db' = Rename(db, m) /\ committed' = Rename(committed, m) /\ ~Searching
      /\ UNCHANGED <<fileText, written>>
  BY DEF RenameIn, Operation
<1>2. db = committed /\ db \in Tables
  BY <1>1 DEF TagDbInv, TagDbTypeOK, ReadsAlone
<1>3. CASE Rename(db, m) = db
  BY <1>1, <1>2, <1>3, PrimedEntries DEF Table!tableVars
<1>4. CASE Rename(db, m) # db
  <2> DEFINE E == EntriesOf(db)
  <2>1. /\ \A p \in DOMAIN m : E[p] # NoRow => E[m[p]] = NoRow
        /\ EntriesOf(db') = [p \in TaggedPaths |->
                                IF \E q \in DOMAIN m : m[q] = p /\ E[q] # NoRow
                                THEN E[CHOOSE q \in DOMAIN m : m[q] = p]
                                ELSE IF p \in DOMAIN m THEN NoRow ELSE E[p]]
    BY <1>1, <1>2, <1>4, RenameEntries
  <2>2. /\ EntriesOf(db)' = EntriesOf(db') /\ EntriesOf(committed)' = EntriesOf(db)'
        /\ EntriesOf(db) = EntriesOf(committed)
    BY <1>1, <1>2, PrimedEntries
  <2>3. Table!Both /\ Table!TextsStay
    BY <1>1, <2>2 DEF Table!Both, Table!TextsStay
  <2>4. Table!Move(m)
    BY <2>1, <2>2, <2>3, SamePaths, Zenon DEF Table!Move
  <2> QED
    BY <2>4
<1> QED
  BY <1>3, <1>4

\* Every step is a step of the one table, or changes nothing in it, or leaves a torn wipe.
LEMMA StepIsTableStep ==
    TagDbInv /\ [TagDbNext]_tagDbVars => [Table!TableNext \/ torn']_(Table!tableVars)
<1> SUFFICES ASSUME TagDbInv, [TagDbNext]_tagDbVars, ~torn'
             PROVE  Table!TableNext \/ UNCHANGED Table!tableVars
  OBVIOUS
<1> USE SamePaths
<1>1. ASSUME NEW s \in Sources, NEW n \in 1 .. 4, WipeAll(n)
      PROVE  Table!TableNext
  BY <1>1, WipeDiscardsAll DEF Table!TableNext
<1>2. CASE UNCHANGED tagDbVars
  BY <1>2, PrimedEntries DEF tagDbVars, Table!tableVars
\* All but a wipe leave torn as it is.
<1>3. ASSUME NEW f \in Files, WriteText(f) \/ DeleteText(f) PROVE Table!TableNext
  <2>1. UNCHANGED <<EntriesOf(db), EntriesOf(committed)>>
    BY <1>3, PrimedEntries DEF WriteText, DeleteText
  <2>2. Table!Write(f) \/ Table!Remove(f)
    BY <1>3, <2>1
       DEF WriteText, DeleteText, NewText, Table!NewText, Table!Write, Table!Remove
  <2> QED
    BY <2>2 DEF Table!TableNext
<1>4. ASSUME NEW s \in Sources, BeginSearch(s) PROVE UNCHANGED Table!tableVars
  <2>1. /\ db'.file_items = db.file_items /\ db'.resources = db.resources
        /\ committed'.file_items = committed.file_items
        /\ committed'.resources = committed.resources
    BY <1>4 DEF BeginSearch, PersistSource, TagDbInv, TagDbTypeOK, Tables
  <2>2. EntriesOf(db') = EntriesOf(db) /\ EntriesOf(committed') = EntriesOf(committed)
    BY <2>1 DEF EntriesOf, HasRow
  <2> QED
    BY <1>4, <2>2, PrimedEntries DEF BeginSearch, Table!tableVars
<1>5. ASSUME NEW f \in Files, Walk(f) \/ WalkAndCommit(f) PROVE Table!TableNext
  <2>1. ~torn
    BY <1>5 DEF Walk, WalkAndCommit
  <2>2. Searching
    BY <1>5 DEF Walk, WalkAndCommit, CanWalk
  <2>3. search.source \in Sources
    BY <2>2 DEF TagDbInv, TagDbTypeOK, Searching, Searches
  <2> QED
    BY <1>5, <2>1, <2>3, WalkIsLook DEF Table!TableNext
<1>6. ASSUME NEW f \in Files, WalkPast(f) PROVE UNCHANGED Table!tableVars
  BY <1>6, PrimedEntries DEF WalkPast, Table!tableVars
<1>7. ASSUME EndSearch \/ Close PROVE Table!TableNext
  <2>1. Table!Commit \/ Table!Lose
    BY <1>7, PrimedEntries DEF EndSearch, Close, Table!Commit, Table!Lose, Table!TextsStay
  <2> QED
    BY <2>1 DEF Table!TableNext
<1>8. ASSUME NEW p \in TaggedPaths, NEW s \in SourceIds, TagPage(p, s) PROVE Table!TableNext
  <2>1. ~torn
    BY <1>8 DEF TagPage
  <2> QED
    BY <1>8, <2>1, PageIsStored DEF Table!TableNext, SourceIds
<1>9. ASSUME NEW p \in TaggedPaths, NEW n \in 1 .. 2, DeleteFromFile(p, n)
      PROVE  Table!TableNext
  <2> DEFINE done == FirstOf(<<"resources", "file_items">>, n)
             ids == RowIds({p})
             srcs == {}
  <2>1. /\ DeleteIn(ids, srcs, done) /\ UNCHANGED <<fileText, written>>
        /\ ~torn /\ ~(Searching /\ search.read)
    BY <1>9 DEF DeleteFromFile
  <2>2. "resources" \in done
    BY FirstOfFileStatements
  <2>3. \A q \in TaggedPaths : HasRow(db, q) =>
            (q \in {p} <=> db.file_items[q].id \in ids \/ db.file_items[q].source \in srcs)
    BY <2>1, RowIdsOfNamed
  <2> HIDE DEF done, ids, srcs
  <2>4. Table!Discard({p}, TRUE) \/ Table!Discard({p}, FALSE)
    BY <2>1, <2>2, <2>3, DeletionDiscards
  <2> QED
    BY <2>4 DEF Table!TableNext
<1>10. ASSUME NEW dir \in Directories, NEW n \in 1 .. 3, DeleteDirectories(dir, n)
       PROVE  Table!TableNext
  <2> DEFINE done == FirstOf(<<"resources", "trait_resources", "file_items">>, n)
             ids == RowIds(dir)
             srcs == {}
  <2>1. /\ DeleteIn(ids, srcs, done) /\ UNCHANGED <<fileText, written>>
        /\ ~torn /\ ~(Searching /\ search.read)
    BY <1>10 DEF DeleteDirectories, Operation
  <2>2. "resources" \in done
    BY FirstOfDirectoryStatements
  <2>3. \A q \in TaggedPaths : HasRow(db, q) =>
            (q \in dir <=> db.file_items[q].id \in ids \/ db.file_items[q].source \in srcs)
    <3>1. dir \in SUBSET TaggedPaths
      BY TagDbAssumption DEF TaggedPaths
    <3> QED
      BY <2>1, <3>1, RowIdsOfNamed
  <2> HIDE DEF done, ids, srcs
  <2>4. Table!Discard(dir, TRUE) \/ Table!Discard(dir, FALSE)
    BY <2>1, <2>2, <2>3, DeletionDiscards
  <2> QED
    BY <2>4 DEF Table!TableNext
<1>11. ASSUME NEW s \in Sources, NEW n \in 1 .. 4, DeleteSource(s, n)
       PROVE  Table!TableNext
  <2> DEFINE done == FirstOf(<<"resources", "trait_resources", "file_items", "sources">>, n)
             named == Table!BelowSource(s)
             ids == {}
             srcs == {s}
  <2>1. /\ DeleteIn(ids, srcs, done) /\ UNCHANGED <<fileText, written>>
        /\ ~torn /\ ~(Searching /\ search.read)
    BY <1>11 DEF DeleteSource, Operation
  <2>2. "resources" \in done
    BY FirstOfSourceStatements
  <2>3. \A q \in TaggedPaths : HasRow(db, q) =>
            (q \in named <=> db.file_items[q].id \in ids \/ db.file_items[q].source \in srcs)
    <3> SUFFICES ASSUME NEW q \in TaggedPaths, HasRow(db, q)
                 PROVE  q \in named <=> db.file_items[q].source = s
      OBVIOUS
    <3>1. db \in Tables
      BY DEF TagDbInv, TagDbTypeOK
    <3>2. EntriesOf(db)[q] = EntryOfRow(db, db.file_items[q]) /\ EntriesOf(db)[q] # NoRow
      BY <3>1, EntryIsOfRow
    <3>3. EntriesOf(db)[q].source = db.file_items[q].source
      BY <3>2 DEF EntryOfRow
    <3> QED
      BY <3>2, <3>3 DEF Table!BelowSource
  <2> HIDE DEF done, named, ids, srcs
  <2>4. Table!Discard(named, TRUE) \/ Table!Discard(named, FALSE)
    BY <2>1, <2>2, <2>3, DeletionDiscards
  <2> QED
    BY <2>4 DEF Table!TableNext, named
<1>12. ASSUME NEW f \in Files, NEW g \in Files, RenameFile(f, g)
       PROVE  Table!TableNext \/ UNCHANGED Table!tableVars
  <2> DEFINE m == [p \in {f} |-> g]
  <2>1. RenameIn(m) /\ IsRenaming(m) /\ f # g
    BY <1>12, RenamesAreRenamings DEF RenameFile
  <2> HIDE DEF m
  <2>2. Table!Move(m) \/ UNCHANGED Table!tableVars
    BY <2>1, RenameMoves
  <2> QED
    BY <2>1, <2>2 DEF Table!TableNext, m
<1>13. ASSUME NEW m \in DirRenames, RenameDir(m)
       PROVE  Table!TableNext \/ UNCHANGED Table!tableVars
  <2>1. Table!Move(m) \/ UNCHANGED Table!tableVars
    BY <1>13, RenamesAreRenamings, RenameMoves DEF RenameDir
  <2> QED
    BY <2>1 DEF Table!TableNext
<1> QED
  BY <1>1, <1>2, <1>3, <1>4, <1>5, <1>6, <1>7, <1>8, <1>9, <1>10, <1>11, <1>12, <1>13
     DEF TagDbNext

\* For any files, sources, texts and directories: the tables, with their ids, transactions
\* and caches, do what one table with an entry for each file would, but for a wipe that
\* was cut after its first statement.
THEOREM TagDbActsAsOneTable == TagDbSpec => ActsAsOneTable
  BY TagDbInvariant, InitIsTableInit, StepIsTableStep, PTL DEF TagDbSpec, ActsAsOneTable
=============================================================================
