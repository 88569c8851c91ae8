------------------------ MODULE TriggerConformance -------------------------
(***************************************************************************)
(* The C++ trigger state machine run next to its Python twin of the        *)
(* desktop simulator, on every sequence of windows up to MaxWindows, and   *)
(* compared with a declarative definition of when a keyword is detected.   *)
(***************************************************************************)
EXTENDS TriggerStateMachine, Sequences

CONSTANT MaxWindows   \* bound on the number of windows evaluated while LISTENING

ASSUME ConformanceAssumption == MaxWindows \in Nat

VARIABLES windows,      \* history: the windows evaluated while LISTENING
          detections,   \* history: the indices at which the C++ class detects
          pyCount,      \* Python: consecutive_count
          pyCooldown,   \* Python: cooldown_remaining
          pyDetections  \* history: the indices at which the Python class detects

pyVars == <<pyCount, pyCooldown, pyDetections>>
vars == <<triggerVars, windows, detections, pyVars>>

Init == /\ TriggerInit
        /\ windows = <<>>
        /\ detections = {}
        /\ pyCount = 0 /\ pyCooldown = 0
        /\ pyDetections = {}

\* max(1, ...) and max(0, ...) of the Python constructor.
PyRequiredWindows == IF 1 >= ConsecutivePositiveWindows THEN 1
                     ELSE ConsecutivePositiveWindows
PyCooldownWindows == IF 0 >= CooldownWindows THEN 0 ELSE CooldownWindows

\* Mutant: the twin keeps counting during its cooldown.
PyCountsInCooldown(positive, index) ==
    LET count == IF positive THEN pyCount + 1 ELSE 0
        fires == pyCooldown = 0 /\ count >= PyRequiredWindows
    IN  /\ pyCooldown' = IF fires THEN PyCooldownWindows
                         ELSE IF pyCooldown > 0 THEN pyCooldown - 1 ELSE 0
        /\ pyCount' = IF fires THEN 0 ELSE count
        /\ pyDetections' = IF fires THEN pyDetections \cup {index} ELSE pyDetections

\* TriggerStateMachine.update of desktop/desktop_kws_client.py: it has no
\* states, the caller decides when to feed it.
PyUpdate(positive, index) ==
    LET count == IF pyCooldown = 0 /\ positive THEN pyCount + 1 ELSE 0
        fires == pyCooldown = 0 /\ count >= PyRequiredWindows
    IN  /\ pyCooldown' = IF fires THEN PyCooldownWindows
                         ELSE IF pyCooldown > 0 THEN pyCooldown - 1 ELSE 0
        /\ pyCount' = IF fires THEN 0 ELSE count
        /\ pyDetections' = IF fires THEN pyDetections \cup {index} ELSE pyDetections

\* A window while LISTENING goes to both machines.
EvaluateWindow(positive) ==
    /\ appState = "Listening"
    /\ Len(windows) < MaxWindows
    /\ windows' = Append(windows, positive)
    /\ Update(positive)
    /\ detections' = IF appState' = "KeywordDetected"
                     THEN detections \cup {Len(windows')} ELSE detections
    /\ PyUpdate(positive, Len(windows'))

\* A window outside LISTENING: the desktop loop has left its loop, only the
\* C++ class could still be called.
EvaluateOutsideListening(positive) ==
    /\ appState # "Listening"
    /\ Update(positive)
    /\ UNCHANGED <<windows, detections, pyVars>>

\* The transitions app_main.cpp drives through ForceState.
CallerTransitions == {<<"KeywordDetected", "Streaming">>,
                      <<"KeywordDetected", "Listening">>,
                      <<"Streaming", "SessionComplete">>,
                      <<"Streaming", "ErrorRecovery">>,
                      <<"SessionComplete", "Listening">>,
                      <<"ErrorRecovery", "Listening">>}

CallerForces == \E t \in CallerTransitions :
                    /\ appState = t[1]
                    /\ ForceState(t[2])
                    /\ UNCHANGED <<windows, detections, pyVars>>

Next == \/ \E positive \in BOOLEAN : EvaluateWindow(positive)
        \/ \E positive \in BOOLEAN : EvaluateOutsideListening(positive)
        \/ CallerForces

Spec == Init /\ [][Next]_vars
-----------------------------------------------------------------------------
\* Types of the machine and of its twin.
TypeOK == /\ TriggerTypeOK
          /\ windows \in Seq(BOOLEAN)
          /\ detections \subseteq 1..Len(windows)
          /\ pyCount \in 0..(PyRequiredWindows - 1)
          /\ pyCooldown \in 0..PyCooldownWindows
          /\ pyDetections \subseteq 1..Len(windows)

\* A declarative definition: window i is a detection iff it ends a run of
\* positives, as many as configured and at least one, that starts after the
\* cooldown of every earlier detection.
RunLength == IF ConsecutivePositiveWindows < 1 THEN 1 ELSE ConsecutivePositiveWindows
Rest == IF CooldownWindows < 0 THEN 0 ELSE CooldownWindows
EndsRun(i) == /\ i >= RunLength
              /\ \A j \in (i - RunLength + 1)..i : windows[j]
AfterCooldown(i) == \A d \in detections :
                        d < i => i - RunLength >= d + Rest

\* The keyword is detected exactly where the documented trigger logic says
\* ("the required number of consecutive inference windows", cooldown after
\* each): no missed, no early and no repeated detection, over any sequence of
\* windows and sessions (trigger_state_machine.cpp, Update and ForceState).
DetectionsExact == \A i \in 1..Len(windows) :
                       i \in detections <=> EndsRun(i) /\ AfterCooldown(i)

\* The firmware and the desktop simulator agree, window by window, on what
\* triggers a session (tests/firmware/README.md: the Python reference
\* "mirrors the C++ version exactly").
TwinsAgree == /\ detections = pyDetections
              /\ cooldownRemaining = pyCooldown
              /\ consecutiveCount = pyCount
=============================================================================
