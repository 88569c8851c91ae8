------------------------ MODULE TriggerStateMachine ------------------------
(***************************************************************************)
(* The trigger state machine of the firmware                               *)
(* (components/trigger_state_machine): one call of Update per evaluated    *)
(* audio window, and ForceState for the tasks that drive the rest of the   *)
(* session.  A window's probability matters only through the comparison    *)
(* probability >= threshold_, so a window is a Boolean, "positive".        *)
(***************************************************************************)
EXTENDS Integers

CONSTANTS ConsecutivePositiveWindows,   \* constructor argument, clamped to >= 1
          CooldownWindows               \* constructor argument, clamped to >= 0

ASSUME TriggerAssumption == /\ ConsecutivePositiveWindows \in Int
                            /\ CooldownWindows \in Int

VARIABLES appState,           \* state_
          consecutiveCount,   \* consecutive_count_
          cooldownRemaining   \* cooldown_remaining_

triggerVars == <<appState, consecutiveCount, cooldownRemaining>>

AppStates == {"Listening", "KeywordDetected", "Streaming",
              "SessionComplete", "ErrorRecovery"}

\* The constructor's clamps.
RequiredWindows == IF ConsecutivePositiveWindows > 0
                   THEN ConsecutivePositiveWindows ELSE 1
Cooldown == IF CooldownWindows > 0 THEN CooldownWindows ELSE 0

TriggerTypeOK == /\ appState \in AppStates
                 /\ consecutiveCount \in 0..(RequiredWindows - 1)
                 /\ cooldownRemaining \in 0..Cooldown

TriggerInit == /\ appState = "Listening"
               /\ consecutiveCount = 0
               /\ cooldownRemaining = 0
-----------------------------------------------------------------------------
\* Update outside LISTENING: the early return.
IgnoreWindow == /\ appState # "Listening"
                /\ UNCHANGED triggerVars

\* Update while the cooldown runs: the window is not looked at.
SuppressWindow == /\ appState = "Listening"
                  /\ cooldownRemaining > 0
                  /\ cooldownRemaining' = cooldownRemaining - 1
                  /\ consecutiveCount' = 0
                  /\ UNCHANGED appState

\* The run of positives with the window at hand.
NextCount(positive) == IF positive THEN consecutiveCount + 1 ELSE 0

CountWindow(count) == /\ appState = "Listening"
                      /\ cooldownRemaining = 0
                      /\ count < RequiredWindows
                      /\ consecutiveCount' = count
                      /\ UNCHANGED <<appState, cooldownRemaining>>

\* Mutant: a detection leaves the run of positives standing.
DetectKeepingCount(count) == /\ appState = "Listening"
                             /\ cooldownRemaining = 0
                             /\ count >= RequiredWindows
                             /\ consecutiveCount' = count
                             /\ cooldownRemaining' = Cooldown
                             /\ appState' = "KeywordDetected"

\* The window that completes the run of positives.
DetectKeyword(count) == /\ appState = "Listening"
                        /\ cooldownRemaining = 0
                        /\ count >= RequiredWindows
                        /\ consecutiveCount' = 0
                        /\ cooldownRemaining' = Cooldown
                        /\ appState' = "KeywordDetected"

\* TriggerStateMachine::Update(probability), positive == probability >= threshold_.
Update(positive) ==
    \/ IgnoreWindow
    \/ SuppressWindow
    \/ CountWindow(NextCount(positive))
    \/ DetectKeyword(NextCount(positive))

\* Mutant: returning to LISTENING forgets the cooldown.
ForceStateResettingCooldown(s) ==
    /\ appState' = s
    /\ consecutiveCount' = IF s = "Listening" THEN 0 ELSE consecutiveCount
    /\ cooldownRemaining' = IF s = "Listening" THEN 0 ELSE cooldownRemaining

\* TriggerStateMachine::ForceState(s) called by one task with no other inside
\* the object; the cooldown survives it.
ForceState(s) ==
    /\ appState' = s
    /\ consecutiveCount' = IF s = "Listening" THEN 0 ELSE consecutiveCount
    /\ UNCHANGED cooldownRemaining
=============================================================================
