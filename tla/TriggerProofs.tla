--------------------------- MODULE TriggerProofs ----------------------------
(***************************************************************************)
(* Theorems about TriggerConformance, for every number of windows and      *)
(* every cooldown, the zero and negative ones that both constructors clamp *)
(* included, and for sequences of windows of every length.                 *)
(***************************************************************************)
EXTENDS TriggerConformance, TLAPS

\* Both constructors clamp alike, and to what the definition of a detection says.
LEMMA ClampsAgree ==
    /\ RunLength \in Nat \ {0} /\ Rest \in Nat
    /\ RequiredWindows = RunLength /\ PyRequiredWindows = RunLength
    /\ Cooldown = Rest /\ PyCooldownWindows = Rest
BY TriggerAssumption DEF RunLength, Rest, RequiredWindows, PyRequiredWindows,
                         Cooldown, PyCooldownWindows

\* The last consecutiveCount windows are positive.
CountIsRun == /\ consecutiveCount <= Len(windows)
              /\ \A j \in 1..Len(windows) :
                    j > Len(windows) - consecutiveCount => windows[j]

\* Every cooldown is over when the present run begins, but for what remains.
RestsAreOver == /\ \A d \in detections :
                      d + Rest <= Len(windows) - consecutiveCount + cooldownRemaining
                /\ cooldownRemaining > 0
                      => /\ consecutiveCount = 0
                         /\ \E d \in detections : d + Rest = Len(windows) + cooldownRemaining

\* The run could not have begun earlier: before it is a negative window or the
\* end of a cooldown.
RunIsLongest ==
    cooldownRemaining = 0 /\ consecutiveCount < Len(windows)
        => \/ ~windows[Len(windows) - consecutiveCount]
           \/ \E d \in detections : Len(windows) - consecutiveCount <= d + Rest

\* Outside LISTENING there is no run to reset.
NoRunOutside == appState # "Listening" => consecutiveCount = 0

\* The strengthening under which exact detection is inductive.
Exact == /\ TypeOK /\ TwinsAgree
         /\ CountIsRun /\ RestsAreOver /\ RunIsLongest /\ NoRunOutside
         /\ DetectionsExact

\* Initially there are no windows.
LEMMA ExactInit == Init => Exact
<1>1. SUFFICES ASSUME Init PROVE Exact
  OBVIOUS
<1>2. Len(windows) = 0 /\ detections = {} /\ windows \in Seq(BOOLEAN)
  BY <1>1 DEF Init
<1>3. TypeOK
  BY <1>1, <1>2, ClampsAgree DEF Init, TriggerInit, TypeOK, TriggerTypeOK, AppStates
<1>4. TwinsAgree
  BY <1>1 DEF Init, TriggerInit, TwinsAgree
<1>5. CountIsRun /\ RestsAreOver /\ RunIsLongest /\ NoRunOutside /\ DetectionsExact
  BY <1>1, <1>2 DEF Init, TriggerInit, CountIsRun, RestsAreOver, RunIsLongest, NoRunOutside,
                    DetectionsExact
<1>6. QED
  BY <1>3, <1>4, <1>5 DEF Exact

\* One window, given to both machines.
LEMMA ExactWindow ==
    ASSUME Exact, NEW positive \in BOOLEAN, EvaluateWindow(positive)
    PROVE  Exact'
<1> DEFINE n == Len(windows)
<1>1. /\ windows \in Seq(BOOLEAN) /\ detections \subseteq 1..n /\ n \in Nat
      /\ consecutiveCount \in 0..(RunLength - 1) /\ cooldownRemaining \in 0..Rest
      /\ appState \in AppStates
  BY ClampsAgree DEF Exact, TypeOK, TriggerTypeOK
<1>2. /\ Len(windows') = n + 1 /\ windows' \in Seq(BOOLEAN)
      /\ windows'[n + 1] = positive
      /\ \A j \in 1..n : windows'[j] = windows[j]
  BY <1>1 DEF EvaluateWindow
<1>3. appState = "Listening"
  BY DEF EvaluateWindow
<1> DEFINE count == IF positive THEN consecutiveCount + 1 ELSE 0
           fires == cooldownRemaining = 0 /\ count >= RunLength
<1>4. /\ cooldownRemaining' = IF fires THEN Rest
                              ELSE IF cooldownRemaining > 0 THEN cooldownRemaining - 1 ELSE 0
      /\ consecutiveCount' = IF cooldownRemaining > 0 \/ fires THEN 0 ELSE count
      /\ detections' = IF fires THEN detections \cup {n + 1} ELSE detections
      /\ appState' = IF fires THEN "KeywordDetected" ELSE "Listening"
  <2>1. CASE cooldownRemaining > 0
    BY <2>1, <1>1, <1>2, <1>3 DEF EvaluateWindow, Update, IgnoreWindow, SuppressWindow,
         CountWindow, DetectKeyword
  <2>2. CASE cooldownRemaining = 0 /\ count < RunLength
    BY <2>2, <1>1, <1>2, <1>3, ClampsAgree DEF EvaluateWindow, Update, IgnoreWindow,
         SuppressWindow, CountWindow, DetectKeyword, NextCount
  <2>3. CASE cooldownRemaining = 0 /\ count >= RunLength
    BY <2>3, <1>1, <1>2, <1>3, ClampsAgree DEF EvaluateWindow, Update, IgnoreWindow,
         SuppressWindow, CountWindow, DetectKeyword, NextCount
  <2>4. QED
    BY <2>1, <2>2, <2>3, <1>1, ClampsAgree
<1>5. /\ pyCooldown' = cooldownRemaining' /\ pyCount' = consecutiveCount'
      /\ pyDetections' = detections'
  BY <1>1, <1>2, <1>4, ClampsAgree DEF EvaluateWindow, PyUpdate, Exact, TwinsAgree
<1>6. TypeOK'
  <2>1. appState' \in AppStates
    BY <1>4 DEF AppStates
  <2>2. consecutiveCount' \in 0..(RunLength - 1) /\ cooldownRemaining' \in 0..Rest
    BY <1>1, <1>4, ClampsAgree
  <2>3. detections' \subseteq 1..Len(windows')
    <3>1. detections' \subseteq detections \cup {n + 1}
      BY <1>4
    <3>2. QED
      BY <3>1, <1>1, <1>2
  <2>4. QED
    BY <1>2, <1>5, <2>1, <2>2, <2>3, ClampsAgree DEF TypeOK, TriggerTypeOK
<1>7. TwinsAgree'
  BY <1>5 DEF TwinsAgree
<1>8. CountIsRun'
  BY <1>1, <1>2, <1>4, ClampsAgree DEF Exact, CountIsRun
<1>9. RestsAreOver'
  BY <1>1, <1>2, <1>4, ClampsAgree DEF Exact, RestsAreOver, CountIsRun, Rest
<1>10. RunIsLongest'
  BY <1>1, <1>2, <1>4, ClampsAgree DEF Exact, RestsAreOver, RunIsLongest, Rest
<1>11. DetectionsExact'
  <2>1. SUFFICES ASSUME NEW i \in 1..(n + 1)
                 PROVE  i \in detections' <=> EndsRun(i)' /\ AfterCooldown(i)'
    BY <1>2 DEF DetectionsExact
  <2> DEFINE ends == i >= RunLength /\ \A j \in (i - RunLength + 1)..i : windows'[j]
             after == \A d \in detections' : d < i => i - RunLength >= d + Rest
  <2>2. (EndsRun(i)' <=> ends) /\ (AfterCooldown(i)' <=> after)
    BY DEF EndsRun, AfterCooldown
  \* The windows and detections before the new one are as they were.
  <2>3. CASE i <= n
    <3>1. i \in detections' <=> i \in detections
      BY <2>3, <1>1, <1>4
    <3>2. ends <=> EndsRun(i)
      BY <2>3, <1>1, <1>2, ClampsAgree DEF EndsRun
    <3>3. after <=> AfterCooldown(i)
      BY <2>3, <1>1, <1>4 DEF AfterCooldown
    <3>4. i \in detections <=> EndsRun(i) /\ AfterCooldown(i)
      BY <2>3, <1>1 DEF Exact, DetectionsExact
    <3>5. QED
      BY <2>2, <3>1, <3>2, <3>3, <3>4
  <2>4. CASE i = n + 1 /\ cooldownRemaining > 0
    <3>1. i \notin detections'
      BY <2>4, <1>1, <1>4
    <3>2. PICK d \in detections : d + Rest = n + cooldownRemaining
      BY <2>4 DEF Exact, RestsAreOver
    <3>3. d \in detections' /\ d < i /\ ~(i - RunLength >= d + Rest)
      BY <2>4, <3>2, <1>1, <1>4, ClampsAgree
    <3>4. QED
      BY <2>2, <3>1, <3>3
  <2>5. CASE i = n + 1 /\ fires
    <3>1. i \in detections' /\ positive /\ consecutiveCount = RunLength - 1
      BY <2>5, <1>1, <1>4, ClampsAgree
    <3>2. ends
      <4>1. i >= RunLength
        BY <2>5, <3>1, <1>1, ClampsAgree DEF Exact, CountIsRun
      <4>2. ASSUME NEW j \in (i - RunLength + 1)..i PROVE windows'[j]
        <5>1. j = n + 1 \/ (j \in 1..n /\ j > n - consecutiveCount)
          BY <2>5, <3>1, <4>1, <1>1, ClampsAgree
        <5>2. QED
          BY <5>1, <3>1, <1>1, <1>2 DEF Exact, CountIsRun
      <4>3. QED
        BY <4>1, <4>2
    <3>3. after
      BY <2>5, <3>1, <1>1, <1>4, ClampsAgree DEF Exact, RestsAreOver
    <3>4. QED
      BY <2>2, <3>1, <3>2, <3>3
  <2>6. CASE i = n + 1 /\ cooldownRemaining = 0 /\ count < RunLength
    <3>1. i \notin detections' /\ detections' = detections
      BY <2>6, <1>1, <1>4, ClampsAgree
    <3>2. CASE ~positive
      BY <2>2, <2>6, <3>1, <3>2, <1>2, ClampsAgree
    <3>3. CASE positive /\ consecutiveCount = n
      BY <2>2, <2>6, <3>1, <3>3, <1>1, ClampsAgree
    <3>4. CASE positive /\ consecutiveCount < n
      <4>1. CASE ~windows[n - consecutiveCount]
        <5>1. n - consecutiveCount \in (i - RunLength + 1)..i /\ n - consecutiveCount \in 1..n
          BY <2>6, <3>4, <1>1, ClampsAgree
        <5>2. QED
          BY <2>2, <3>1, <4>1, <5>1, <1>2
      <4>2. CASE \E d \in detections : n - consecutiveCount <= d + Rest
        BY <2>2, <2>6, <3>1, <3>4, <4>2, <1>1, ClampsAgree
      <4>3. QED
        BY <2>6, <3>4, <4>1, <4>2 DEF Exact, RunIsLongest
    <3>5. QED
      BY <3>2, <3>3, <3>4, <1>1 DEF Exact, CountIsRun
  <2>7. QED
    BY <2>3, <2>4, <2>5, <2>6, <1>1, ClampsAgree
<1>12. NoRunOutside'
  BY <1>4 DEF NoRunOutside
<1>13. QED
  BY <1>6, <1>7, <1>8, <1>9, <1>10, <1>11, <1>12 DEF Exact

\* A step that evaluates no window while LISTENING disturbs nothing.
LEMMA ExactElsewhere ==
    ASSUME Exact, UNCHANGED <<windows, detections, pyVars, consecutiveCount, cooldownRemaining>>,
           appState' \in AppStates, NoRunOutside'
    PROVE  Exact'
<1>1. TypeOK'
  BY DEF Exact, TypeOK, TriggerTypeOK, pyVars
<1>2. TwinsAgree'
  BY DEF Exact, TwinsAgree, pyVars
<1>3. CountIsRun' /\ RestsAreOver' /\ RunIsLongest'
  BY DEF Exact, CountIsRun, RestsAreOver, RunIsLongest
<1>4. DetectionsExact'
  BY DEF Exact, DetectionsExact, EndsRun, AfterCooldown
<1>5. QED
  BY <1>1, <1>2, <1>3, <1>4 DEF Exact

LEMMA ExactNext == Exact /\ [Next]_vars => Exact'
<1>1. SUFFICES ASSUME Exact, [Next]_vars PROVE Exact'
  OBVIOUS
<1>2. ASSUME NEW positive \in BOOLEAN, EvaluateWindow(positive) PROVE Exact'
  BY <1>1, <1>2, ExactWindow
<1>3. ASSUME NEW positive \in BOOLEAN, EvaluateOutsideListening(positive) PROVE Exact'
  <2>1. UNCHANGED triggerVars
    BY <1>3 DEF EvaluateOutsideListening, Update, IgnoreWindow, SuppressWindow, CountWindow,
                DetectKeyword
  <2>2. QED
    BY <1>1, <1>3, <2>1, ExactElsewhere
       DEF EvaluateOutsideListening, triggerVars, Exact, TypeOK, TriggerTypeOK, NoRunOutside
<1>4. CASE CallerForces
  <2>1. PICK t \in CallerTransitions : appState = t[1] /\ ForceState(t[2])
    BY <1>4 DEF CallerForces
  <2>2. appState # "Listening" /\ t[2] \in AppStates
    BY <2>1 DEF CallerTransitions, AppStates
  <2>3. consecutiveCount = 0 /\ consecutiveCount' = 0
    BY <1>1, <2>1, <2>2 DEF Exact, NoRunOutside, ForceState
  <2>4. QED
    BY <1>1, <1>4, <2>1, <2>2, <2>3, ExactElsewhere DEF CallerForces, ForceState, NoRunOutside
<1>5. CASE UNCHANGED vars
  BY <1>1, <1>5, ExactElsewhere
     DEF vars, triggerVars, Exact, TypeOK, TriggerTypeOK, NoRunOutside
<1>6. QED
  BY <1>1, <1>2, <1>3, <1>4, <1>5 DEF Next

\* The strengthening holds in every behaviour.
LEMMA Exactly == Spec => []Exact
<1>1. QED
  BY ExactInit, ExactNext, PTL DEF Spec

\* The types of both machines (the classes' members), in every behaviour.
THEOREM TypeCorrect == Spec => []TypeOK
<1>1. Exact => TypeOK
  BY DEF Exact
<1>2. QED
  BY <1>1, Exactly, PTL

\* The keyword is detected exactly where the definition says, over sequences of
\* windows of every length, with sessions in between (TriggerStateMachine).
THEOREM DetectsExactly == Spec => []DetectionsExact
<1>1. Exact => DetectionsExact
  BY DEF Exact
<1>2. QED
  BY <1>1, Exactly, PTL

\* Firmware and desktop trigger on the same windows, also when configured with
\* zero or negative numbers (the constructors' clamps).
THEOREM Twins == Spec => []TwinsAgree
<1>1. Exact => TwinsAgree
  BY DEF Exact
<1>2. QED
  BY <1>1, Exactly, PTL
=============================================================================
