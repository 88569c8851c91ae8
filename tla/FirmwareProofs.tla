--------------------------- MODULE FirmwareProofs ---------------------------
(***************************************************************************)
(* Proofs about Firmware, for every queue length, buffer, window and       *)
(* pre-roll size, and every trigger configuration.                         *)
(***************************************************************************)
EXTENDS Firmware, TLAPS

\* The clamps of the constructor of TriggerStateMachine.
LEMMA TriggerConstants == RequiredWindows \in Nat \ {0} /\ Cooldown \in Nat
BY TriggerAssumption DEF RequiredWindows, Cooldown

LEMMA LeastBounds == ASSUME NEW a \in Nat, NEW b \in Nat
                     PROVE  /\ Least(a, b) \in Nat
                            /\ Least(a, b) <= a /\ Least(a, b) <= b
                            /\ Least(a, b) = a \/ Least(a, b) = b
BY DEF Least

\* A window keeps the trigger state machine well typed.
LEMMA UpdateType == ASSUME TriggerTypeOK, NEW positive \in BOOLEAN, Update(positive)
                    PROVE  TriggerTypeOK'
<1> USE TriggerConstants DEF TriggerTypeOK, AppStates, triggerVars
<1>1. CASE IgnoreWindow
  BY <1>1 DEF IgnoreWindow
<1>2. CASE SuppressWindow
  BY <1>2 DEF SuppressWindow
<1>3. CASE CountWindow(NextCount(positive))
  BY <1>3 DEF CountWindow, NextCount
<1>4. CASE DetectKeyword(NextCount(positive))
  BY <1>4 DEF DetectKeyword
<1> QED
  BY <1>1, <1>2, <1>3, <1>4 DEF Update

\* So does a forced state.
LEMMA ForceType == ASSUME TriggerTypeOK, NEW s \in AppStates, ForceState(s)
                   PROVE  TriggerTypeOK'
BY TriggerConstants DEF TriggerTypeOK, ForceState

\* TypeOK in three parts, each for the prover that handles it.
ScalarsOK == /\ capture \in {"init", "running", "deleted"}
             /\ filled \in 0..BufferFrames
             /\ kws \in KwsPlaces
             /\ pending \in 0..QueueLength
             /\ stream \in StreamPlaces
             /\ sequence \in Nat
             /\ extra \in 0..MaxExtraFrames
FlagsOK == connected \in BOOLEAN /\ failed \in BOOLEAN
WireOK == wire \in Seq(Messages)

\* What the streaming task sends is a message, and the log stays a log.
LEMMA MessageType == ASSUME NEW type \in {"START", "CHUNK", "END"},
                            NEW seq \in Nat, NEW frames \in Nat
                     PROVE  Message(type, seq, frames) \in Messages
BY DEF Message, Messages

LEMMA AppendWire == ASSUME WireOK, NEW m \in Messages, wire' = Append(wire, m)
                    PROVE  WireOK'
BY DEF WireOK

LEMMA TypeParts == TypeOK <=> TriggerTypeOK /\ ScalarsOK /\ FlagsOK /\ WireOK
BY DEF TypeOK, ScalarsOK, FlagsOK, WireOK
-----------------------------------------------------------------------------
\* Every variable keeps its type (app_main.cpp, all tasks): the queue never
\* holds more than its length, the run of positives never reaches the number
\* that triggers, under every interleaving.
THEOREM TypeCorrect == Spec => []TypeOK
<1>1. Init => TypeOK
  <2> SUFFICES ASSUME Init PROVE TypeOK
    OBVIOUS
  <2>1. TriggerTypeOK
    BY TriggerConstants DEF Init, TriggerInit, TriggerTypeOK, AppStates
  <2>2. ScalarsOK
    BY FirmwareAssumption DEF Init, ScalarsOK, KwsPlaces, StreamPlaces
  <2>3. FlagsOK
    BY DEF Init, FlagsOK
  <2>4. WireOK
    BY DEF Init, WireOK
  <2> QED
    BY <2>1, <2>2, <2>3, <2>4, TypeParts
<1>2. TypeOK /\ [Next]_vars => TypeOK'
  <2> SUFFICES ASSUME TypeOK, [Next]_vars PROVE TypeOK'
    OBVIOUS
  <2> USE FirmwareAssumption
  <2>0. TriggerTypeOK /\ ScalarsOK /\ FlagsOK /\ WireOK
    BY TypeParts
  <2> SUFFICES TriggerTypeOK' /\ ScalarsOK' /\ FlagsOK' /\ WireOK'
    BY TypeParts, PTL
  <2>1. CASE UNCHANGED vars
    BY <2>0, <2>1 DEF vars, triggerVars, TriggerTypeOK, captureVars, sessionVars,
                      ScalarsOK, FlagsOK, WireOK
    <2>2. CASE CaptureInit
      BY <2>0, <2>2 DEF CaptureInit, triggerVars, TriggerTypeOK, ScalarsOK, FlagsOK, WireOK, sessionVars
    <2>3. CASE CaptureFrame
      BY <2>0, <2>3 DEF CaptureFrame, triggerVars, TriggerTypeOK, ScalarsOK, FlagsOK, WireOK, Least, sessionVars
    <2>4. CASE KwsInit
      BY <2>0, <2>4 DEF KwsInit, triggerVars, TriggerTypeOK, ScalarsOK, FlagsOK, WireOK,
                       KwsPlaces, captureVars, sessionVars
    <2>5. CASE KwsPoll
      BY <2>0, <2>5 DEF KwsPoll, triggerVars, TriggerTypeOK, ScalarsOK, FlagsOK, WireOK,
                       KwsPlaces, captureVars, sessionVars
  <2>6. CASE KwsGetWindow
    <3>1. TriggerTypeOK' /\ WireOK'
      BY <2>0, <2>6 DEF KwsGetWindow, triggerVars, TriggerTypeOK, WireOK, sessionVars
    <3>2. ScalarsOK'
      BY <2>0, <2>6 DEF KwsGetWindow, ScalarsOK, KwsPlaces, captureVars, sessionVars
    <3>3. FlagsOK'
      BY <2>0, <2>6 DEF KwsGetWindow, FlagsOK, sessionVars
    <3> QED
      BY <3>1, <3>2, <3>3
    <2>7. CASE KwsInfer
      <3>1. TriggerTypeOK'
        BY <2>0, <2>7, UpdateType DEF KwsInfer, triggerVars, TriggerTypeOK
      <3> QED
        BY <2>0, <2>7, <3>1 DEF KwsInfer, ScalarsOK, FlagsOK, WireOK, KwsPlaces,
                             captureVars, sessionVars
    <2>8. CASE KwsSend
      <3>1. TriggerTypeOK'
        BY <2>0, <2>8, ForceType DEF KwsSend, triggerVars, TriggerTypeOK, AppStates
      <3> QED
        BY <2>0, <2>8, <3>1 DEF KwsSend, ScalarsOK, FlagsOK, WireOK, KwsPlaces,
                             captureVars, sessionVars
    <2>9. CASE KwsHandOff
      <3>1. TriggerTypeOK'
        BY <2>0, <2>9, ForceType DEF KwsHandOff, AppStates
      <3> QED
        BY <2>0, <2>9, <3>1 DEF KwsHandOff, ScalarsOK, FlagsOK, WireOK, KwsPlaces,
                             captureVars, sessionVars
  <2>10. CASE StreamWork \/ StreamReturn
    <3> USE DEF sharedVars, captureVars, sessionVars
    <3>1. CASE StreamReceive
      <4>1. TriggerTypeOK'
        BY <2>0, <3>1 DEF StreamReceive, triggerVars, TriggerTypeOK
      <4>2. ScalarsOK'
        BY <2>0, <3>1 DEF StreamReceive, ScalarsOK, StreamPlaces
      <4>3. FlagsOK'
        BY <2>0, <3>1 DEF StreamReceive, FlagsOK
      <4>4. WireOK'
        BY <3>1 DEF StreamReceive, WireOK
      <4> QED
        BY <4>1, <4>2, <4>3, <4>4
      <3>2. CASE StreamConnect
        BY <2>0, <3>2 DEF StreamConnect, triggerVars, TriggerTypeOK, ScalarsOK, FlagsOK, WireOK, StreamPlaces
    <3>3. CASE StreamStart
      <4>1. TriggerTypeOK'
        BY <2>0, <3>3 DEF StreamStart, triggerVars, TriggerTypeOK
      <4>2. ScalarsOK'
        BY <2>0, <3>3 DEF StreamStart, ScalarsOK, StreamPlaces, GiveUp
      <4>3. FlagsOK'
        BY <2>0, <3>3 DEF StreamStart, FlagsOK, GiveUp
      <4>4. WireOK'
        <5>1. Message("START", 0, 0) \in Messages
          BY MessageType
        <5> QED
          BY <2>0, <3>3, <5>1, AppendWire DEF StreamStart, GiveUp, WireOK
      <4> QED
        BY <4>1, <4>2, <4>3, <4>4
    <3>4. CASE StreamPreRoll
      <4>1. TriggerTypeOK'
        BY <2>0, <3>4 DEF StreamPreRoll, triggerVars, TriggerTypeOK
      <4>2. ScalarsOK'
        BY <2>0, <3>4 DEF StreamPreRoll, ScalarsOK, StreamPlaces, GiveUp, EnterLoop
      <4>3. FlagsOK'
        BY <2>0, <3>4 DEF StreamPreRoll, FlagsOK, GiveUp
      <4>4. WireOK'
        <5>1. Message("CHUNK", 0, Least(PreRollFrames, filled)) \in Messages
          BY <2>0, LeastBounds, MessageType DEF ScalarsOK
        <5> QED
          BY <2>0, <3>4, <5>1, AppendWire DEF StreamPreRoll, GiveUp, WireOK
      <4> QED
        BY <4>1, <4>2, <4>3, <4>4
    <3>5. CASE StreamFrame
      <4>1. TriggerTypeOK'
        BY <2>0, <3>5 DEF StreamFrame, triggerVars, TriggerTypeOK
      <4>2. ScalarsOK'
        BY <2>0, <3>5 DEF StreamFrame, ScalarsOK, StreamPlaces
      <4>3. FlagsOK'
        BY <2>0, <3>5 DEF StreamFrame, FlagsOK
      <4>4. WireOK'
        <5>1. Message("CHUNK", sequence, 1) \in Messages
          BY <2>0, MessageType DEF ScalarsOK
        <5> QED
          BY <2>0, <3>5, <5>1, AppendWire DEF StreamFrame, WireOK
      <4> QED
        BY <4>1, <4>2, <4>3, <4>4
      <3>6. CASE StreamLoopDone
        BY <2>0, <3>6 DEF StreamLoopDone, triggerVars, TriggerTypeOK, ScalarsOK, FlagsOK, WireOK, StreamPlaces
    <3>7. CASE StreamEnd
      <4>1. TriggerTypeOK'
        BY <2>0, <3>7 DEF StreamEnd, triggerVars, TriggerTypeOK
      <4>2. ScalarsOK'
        BY <2>0, <3>7 DEF StreamEnd, ScalarsOK, StreamPlaces
      <4>3. FlagsOK'
        BY <2>0, <3>7 DEF StreamEnd, FlagsOK
      <4>4. WireOK'
        <5>1. Message("END", sequence, 0) \in Messages
          BY <2>0, MessageType DEF ScalarsOK
        <5> QED
          BY <2>0, <3>7, <5>1, AppendWire DEF StreamEnd, WireOK
      <4> QED
        BY <4>1, <4>2, <4>3, <4>4
      <3>8. CASE StreamResult
        BY <2>0, <3>8 DEF StreamResult, triggerVars, TriggerTypeOK, ScalarsOK, FlagsOK, WireOK, StreamPlaces
      <3>9. CASE StreamFinish
        <4>1. TriggerTypeOK'
          BY <2>0, <3>9, ForceType DEF StreamFinish, AppStates
        <4> QED
          BY <2>0, <3>9, <4>1 DEF StreamFinish, ScalarsOK, FlagsOK, WireOK, StreamPlaces
      <3>10. CASE StreamDelay
        BY <2>0, <3>10 DEF StreamDelay, triggerVars, TriggerTypeOK, ScalarsOK, FlagsOK, WireOK, StreamPlaces
      <3>11. CASE StreamReset
        BY <2>0, <3>11, TriggerConstants DEF StreamReset, TriggerTypeOK, ScalarsOK, FlagsOK, WireOK, StreamPlaces
      <3>12. CASE StreamReturn
        BY <2>0, <3>12 DEF StreamReturn, TriggerTypeOK, AppStates, ScalarsOK, FlagsOK, WireOK,
                              StreamPlaces
    <3> QED
      BY <2>10, <3>1, <3>2, <3>3, <3>4, <3>5, <3>6, <3>7, <3>8, <3>9, <3>10,
         <3>11, <3>12 DEF StreamWork
  <2> QED
    BY <2>1, <2>2, <2>3, <2>4, <2>5, <2>6, <2>7, <2>8, <2>9, <2>10
    DEF Next, KwsStep, StreamStep
<1> QED
  BY <1>1, <1>2, PTL DEF Spec
-----------------------------------------------------------------------------
\* The timed behaviours are behaviours: what holds of Spec holds of TimedSpec.
LEMMA TimedRefines == TimedSpec => Spec
<1>1. [TimedNext]_vars => [Next]_vars
  BY DEF TimedNext, Next, TimedStreamStep, StreamStep, ReturnInTime
<1> QED
  BY <1>1, PTL DEF TimedSpec, Spec

\* Why KwsTask and StreamingTask never hold a session each: the state says
\* LISTENING exactly while no session is pending or running, except between
\* KwsTask's two statements ("sent"), when there is one.
HandOffInv ==
    /\ pending \in {0, 1}
    /\ pending = 1 => stream \in {"idle", "reset"}
    /\ kws \in {"init", "dead", "window", "infer"} => appState = "Listening" /\ ~InSession
    /\ kws = "poll" => (appState = "Listening" <=> ~InSession)
    /\ kws = "detected" => appState = "KeywordDetected" /\ ~InSession
    /\ kws = "sent" => InSession

LEMMA HandOffInvariant == TimedSpec => []HandOffInv
<1>1. Init => HandOffInv
  BY DEF Init, TriggerInit, HandOffInv, InSession
<1>2. TypeOK /\ HandOffInv /\ [TimedNext]_vars => HandOffInv'
  <2> SUFFICES ASSUME TypeOK, HandOffInv, [TimedNext]_vars PROVE HandOffInv'
    OBVIOUS
  <2> USE DEF HandOffInv, InSession
  <2>0. kws \in KwsPlaces /\ stream \in StreamPlaces
    BY DEF TypeOK
  <2>1. CASE UNCHANGED vars
    BY <2>1 DEF vars, triggerVars
  <2>2. CASE CaptureInit \/ CaptureFrame
    BY <2>2 DEF CaptureInit, CaptureFrame, triggerVars
  <2>3. CASE KwsInit \/ KwsPoll \/ KwsGetWindow
    BY <2>3 DEF KwsInit, KwsPoll, KwsGetWindow, triggerVars
  <2>4. CASE KwsInfer
    <3>1. CASE kws' = "poll" /\ UNCHANGED triggerVars
      BY <2>4, <3>1 DEF KwsInfer, triggerVars
    <3>2. CASE \E positive \in BOOLEAN : Update(positive)
      <4>1. appState' = "Listening" \/ appState' = "KeywordDetected"
        BY <2>4, <3>2 DEF KwsInfer, Update, IgnoreWindow, SuppressWindow, CountWindow,
                          DetectKeyword, triggerVars
      <4>2. kws' \in {"poll", "detected"} /\ (kws' = "detected" <=> appState' = "KeywordDetected")
        BY <2>4, <3>2, <4>1 DEF KwsInfer, triggerVars
      <4> QED
        BY <2>4, <4>1, <4>2 DEF KwsInfer
    <3> QED
      BY <2>4, <3>1, <3>2 DEF KwsInfer
  <2>5. CASE KwsSend
    BY <2>5, FirmwareAssumption DEF KwsSend, triggerVars
  <2>6. CASE KwsHandOff
    BY <2>6 DEF KwsHandOff, ForceState
  <2>7. CASE StreamWork
    <3> USE DEF sharedVars, triggerVars
    <3>1. CASE StreamReceive
      BY <3>1 DEF StreamReceive
    <3>2. CASE StreamConnect \/ StreamStart
      BY <3>2 DEF StreamConnect, StreamStart, GiveUp
    <3>3. CASE StreamPreRoll
      BY <3>3 DEF StreamPreRoll, GiveUp, EnterLoop
    <3>4. CASE StreamFrame \/ StreamLoopDone \/ StreamEnd \/ StreamResult \/ StreamDelay
      BY <3>4 DEF StreamFrame, StreamLoopDone, StreamEnd, StreamResult, StreamDelay
    <3>5. CASE StreamFinish
      BY <2>0, <3>5 DEF StreamFinish, ForceState, KwsPlaces
    <3>6. CASE StreamReset
      BY <3>6 DEF StreamReset
    <3> QED
      BY <2>7, <3>1, <3>2, <3>3, <3>4, <3>5, <3>6 DEF StreamWork
  <2>8. CASE ReturnInTime
    BY <2>0, <2>8 DEF ReturnInTime, StreamReturn, sharedVars, KwsPlaces
  <2> QED
    BY <2>1, <2>2, <2>3, <2>4, <2>5, <2>6, <2>7, <2>8
    DEF TimedNext, KwsStep, TimedStreamStep
<1> QED
  BY <1>1, <1>2, TypeCorrect, TimedRefines, PTL DEF TimedSpec

\* KwsTask is never between reading LISTENING and queueing a request while a
\* session is pending or running, for any trigger configuration and queue
\* length (app_main.cpp, the state check of KwsTask and the ForceState calls).
THEOREM OneSessionAtATime == TimedSpec => []NoDetectionDuringSession
<1>1. HandOffInv => NoDetectionDuringSession
  BY DEF HandOffInv, NoDetectionDuringSession
<1> QED
  BY <1>1, HandOffInvariant, PTL

\* The device is never left outside LISTENING without a session that will
\* bring it back (app_main.cpp, KwsTask and StreamingTask).
THEOREM NotStranded == TimedSpec => []NeverStranded
<1>1. TypeOK /\ HandOffInv => NeverStranded
  BY DEF TypeOK, KwsPlaces, HandOffInv, NeverStranded
<1> QED
  BY <1>1, HandOffInvariant, TypeCorrect, TimedRefines, PTL
-----------------------------------------------------------------------------
\* What is on the wire at each place of StreamingTask, and why a pre-roll is
\* whole: from the first full window on, the buffer holds at least one.
AudioInv == kws \in {"infer", "detected", "sent"} \/ InSession => filled >= WindowFrames

PlaceInv ==
    /\ connected => stream \in {"start", "preroll", "live", "end", "result"}
    /\ stream \in {"connect", "start"} => wire = <<>> /\ ~failed
    /\ stream = "preroll" => Len(wire) = 1 /\ ~failed
    /\ stream = "live" => ~failed
    /\ stream \in {"preroll", "live", "end"} =>
           /\ Len(wire) >= 1 /\ wire[1].type = "START"
           /\ \A i \in 2..Len(wire) : wire[i].type = "CHUNK"
    /\ stream \in {"live", "end"} =>
           /\ sequence >= 1
           /\ \A i \in 2..Len(wire) : wire[i].seq < sequence
           /\ ~failed /\ Len(wire) > 1 => wire[Len(wire)].seq = sequence - 1

LEMMA AppendFacts == ASSUME WireOK, NEW m \in Messages, wire' = Append(wire, m)
                     PROVE  /\ Len(wire) \in Nat
                            /\ Len(wire') = Len(wire) + 1
                            /\ \A i \in 1..Len(wire) : wire'[i] = wire[i]
                            /\ wire'[Len(wire) + 1] = m
BY DEF WireOK

LEMMA WireNumbers == ASSUME WireOK
                     PROVE  \A i \in 1..Len(wire) : wire[i].seq \in Nat
<1> SUFFICES ASSUME NEW i \in 1..Len(wire) PROVE wire[i].seq \in Nat
  OBVIOUS
<1>1. wire[i] \in Messages
  BY DEF WireOK
<1> QED
  BY <1>1 DEF Messages

LEMMA WireInvariant == Spec => [](PlaceInv /\ WireInOrder)
<1>1. Init => PlaceInv /\ WireInOrder
  BY DEF Init, PlaceInv, WireInOrder
<1>2. TypeOK /\ PlaceInv /\ WireInOrder /\ [Next]_vars => (PlaceInv /\ WireInOrder)'
  <2> SUFFICES ASSUME TypeOK, PlaceInv, WireInOrder, [Next]_vars
               PROVE  PlaceInv' /\ WireInOrder'
    OBVIOUS
  <2>0. /\ stream \in StreamPlaces /\ sequence \in Nat /\ WireOK /\ failed \in BOOLEAN
        /\ Len(wire) \in Nat
    BY DEF TypeOK, WireOK
  <2>1. CASE UNCHANGED <<stream, sessionVars>>
    BY <2>1 DEF sessionVars, PlaceInv, WireInOrder
  <2>2. CASE StreamReceive
    BY <2>2 DEF StreamReceive, PlaceInv, WireInOrder
  <2>3. CASE StreamConnect
    BY <2>3 DEF StreamConnect, PlaceInv, WireInOrder
  <2>4. CASE StreamStart
    <3>1. CASE GiveUp
      BY <2>4, <3>1 DEF StreamStart, GiveUp, PlaceInv, WireInOrder
    <3>2. CASE wire' = Append(wire, Message("START", 0, 0))
      <4>1. Message("START", 0, 0) \in Messages /\ Message("START", 0, 0).type = "START"
        BY MessageType DEF Message
      <4>2. stream = "start" /\ wire = <<>> /\ Len(wire) = 0 /\ ~failed
        BY <2>4 DEF StreamStart, PlaceInv
      <4>3. Len(wire') = 1 /\ wire'[1].type = "START"
        BY <2>0, <3>2, <4>1, <4>2, AppendFacts
      <4>4. stream' \in {"preroll", "error"} /\ (stream' = "preroll" => ~failed')
        BY <2>4, <4>2 DEF StreamStart, GiveUp
      <4>5. connected' => stream' = "preroll"
        BY <2>4 DEF StreamStart, GiveUp
      <4> QED
        BY <4>3, <4>4, <4>5 DEF PlaceInv, WireInOrder
    <3> QED
      BY <2>4, <3>1, <3>2 DEF StreamStart
  <2>5. CASE StreamPreRoll
    <3>1. CASE GiveUp
      BY <2>5, <3>1 DEF StreamPreRoll, GiveUp, PlaceInv, WireInOrder
    <3>2. CASE EnterLoop /\ UNCHANGED <<connected, failed, wire>>
      <4>1. Len(wire) = 1 /\ wire[1].type = "START" /\ ~failed
        BY <2>5 DEF StreamPreRoll, PlaceInv
      <4>2. Len(wire') = 1 /\ wire'[1].type = "START"
        BY <3>2, <4>1
      <4>3. ~failed' /\ stream' = "live" /\ sequence' = 1
        BY <3>2, <4>1 DEF EnterLoop
      <4>4. PlaceInv'
        BY <4>2, <4>3 DEF PlaceInv
      <4>5. WireInOrder'
        BY <4>2 DEF WireInOrder
      <4> QED
        BY <4>4, <4>5
    <3>3. CASE /\ EnterLoop /\ UNCHANGED <<connected, failed>>
               /\ wire' = Append(wire, Message("CHUNK", 0, Least(PreRollFrames, filled)))
      <4> DEFINE m == Message("CHUNK", 0, Least(PreRollFrames, filled))
      <4>1. m \in Messages /\ m.type = "CHUNK" /\ m.seq = 0
        BY MessageType, LeastBounds, FirmwareAssumption DEF Message, TypeOK
      <4>2. Len(wire) = 1 /\ wire[1].type = "START" /\ ~failed
        BY <2>5 DEF StreamPreRoll, PlaceInv
      <4>3. Len(wire') = 2 /\ wire'[1].type = "START" /\ wire'[2] = m
        BY <2>0, <3>3, <4>1, <4>2, AppendFacts
      <4>4. ~failed' /\ stream' = "live" /\ sequence' = 1 /\ UNCHANGED connected
        BY <3>3, <4>2 DEF EnterLoop
      <4>5. PlaceInv'
        BY <4>1, <4>3, <4>4 DEF PlaceInv
      <4>6. WireInOrder'
        BY <4>1, <4>3 DEF WireInOrder
      <4> QED
        BY <4>5, <4>6
    <3> QED
      BY <2>5, <3>1, <3>2, <3>3 DEF StreamPreRoll
  <2>6. CASE StreamFrame
    <3>0. stream = "live" /\ ~failed /\ UNCHANGED connected
      BY <2>6 DEF StreamFrame, PlaceInv
    <3>1. CASE UNCHANGED <<stream, sequence, wire, failed>>
      BY <2>6, <3>0, <3>1 DEF PlaceInv, WireInOrder
    <3>2. CASE failed' = TRUE /\ stream' = "end" /\ sequence' = sequence + 1 /\ UNCHANGED wire
      <4>1. \A i \in 1..Len(wire) : wire[i].seq \in Nat
        BY <2>0, WireNumbers
      <4>2. PlaceInv'
        BY <2>0, <3>0, <3>2, <4>1 DEF PlaceInv
      <4>3. WireInOrder'
        BY <3>2 DEF WireInOrder
      <4> QED
        BY <4>2, <4>3
    <3>3. CASE /\ sequence' = sequence + 1 /\ UNCHANGED <<stream, failed>>
               /\ wire' = Append(wire, Message("CHUNK", sequence, 1))
      <4> DEFINE m == Message("CHUNK", sequence, 1)
      <4>1. m \in Messages /\ m.type = "CHUNK" /\ m.seq = sequence
        BY <2>0, MessageType DEF Message
      <4>2. /\ Len(wire') = Len(wire) + 1 /\ wire'[Len(wire) + 1] = m
            /\ \A i \in 1..Len(wire) : wire'[i] = wire[i]
        BY <2>0, <3>3, <4>1, AppendFacts
      <4>3. \A i \in 1..Len(wire) : wire[i].seq \in Nat
        BY <2>0, WireNumbers
      <4>4. PlaceInv'
        BY <2>0, <3>0, <3>3, <4>1, <4>2, <4>3 DEF PlaceInv
      <4>5. WireInOrder'
        BY <2>0, <3>0, <3>3, <4>1, <4>2, <4>3 DEF PlaceInv, WireInOrder
      <4> QED
        BY <4>4, <4>5
    <3> QED
      BY <2>6, <3>1, <3>2, <3>3 DEF StreamFrame
  <2>7. CASE StreamLoopDone
    BY <2>7 DEF StreamLoopDone, sessionVars, PlaceInv, WireInOrder
  <2>8. CASE StreamEnd
    <3>0. stream = "end" /\ stream' = "result" /\ UNCHANGED <<connected, sequence>>
      BY <2>8 DEF StreamEnd
    <3>1. CASE UNCHANGED wire /\ failed' = TRUE
      BY <3>0, <3>1 DEF PlaceInv, WireInOrder
    <3>2. CASE UNCHANGED failed /\ wire' = Append(wire, Message("END", sequence, 0))
      <4> DEFINE m == Message("END", sequence, 0)
      <4>1. m \in Messages /\ m.type = "END" /\ m.seq = sequence
        BY <2>0, MessageType DEF Message
      <4>2. /\ Len(wire') = Len(wire) + 1 /\ wire'[Len(wire) + 1] = m
            /\ \A i \in 1..Len(wire) : wire'[i] = wire[i]
        BY <2>0, <3>2, <4>1, AppendFacts
      <4>3. \A i \in 1..Len(wire) : wire[i].seq \in Nat
        BY <2>0, WireNumbers
      <4>4. WireInOrder'
        BY <2>0, <3>0, <3>2, <4>1, <4>2, <4>3 DEF PlaceInv, WireInOrder
      <4> QED
        BY <3>0, <4>4 DEF PlaceInv
    <3> QED
      BY <2>8, <3>1, <3>2 DEF StreamEnd
  <2>9. CASE StreamResult
    <3>1. ~failed' => ~failed
      BY <2>9 DEF StreamResult
    <3>2. WireInOrder'
      BY <2>9, <3>1 DEF StreamResult, WireInOrder
    <3> QED
      BY <2>9, <3>2 DEF StreamResult, PlaceInv
  <2>10. CASE StreamFinish \/ StreamDelay \/ StreamReturn \/ StreamReset
    BY <2>10 DEF StreamFinish, StreamDelay, StreamReturn, StreamReset, sessionVars,
                 PlaceInv, WireInOrder
  <2>11. CASE CaptureInit \/ CaptureFrame \/ KwsStep
    BY <2>1, <2>11 DEF CaptureInit, CaptureFrame, KwsStep, KwsInit, KwsPoll, KwsGetWindow,
                       KwsInfer, KwsSend, KwsHandOff
  <2> QED
    BY <2>1, <2>2, <2>3, <2>4, <2>5, <2>6, <2>7, <2>8, <2>9, <2>10, <2>11
    DEF Next, StreamStep, StreamWork, vars
<1> QED
  BY <1>1, <1>2, TypeCorrect, PTL DEF Spec

\* For any number of live frames and any pattern of failures, the server sees
\* START, increasing chunk numbers, END, without a gap while nothing failed
\* (app_main.cpp, StreamingTask's sequence_number).
THEOREM WireOrdered == Spec => []WireInOrder
BY WireInvariant, PTL

\* No path through StreamingTask keeps a socket (app_main.cpp, the Disconnect
\* calls of every failure path).
THEOREM SocketsClosed == Spec => []NoSocketLeak
<1>1. PlaceInv => NoSocketLeak
  BY DEF PlaceInv, NoSocketLeak
<1> QED
  BY <1>1, WireInvariant, PTL

LEMMA AudioInvariant == Spec => []AudioInv
<1>1. Init => AudioInv
  BY DEF Init, AudioInv, InSession
<1>2. TypeOK /\ AudioInv /\ [Next]_vars => AudioInv'
  <2> SUFFICES ASSUME TypeOK, AudioInv, [Next]_vars PROVE AudioInv'
    OBVIOUS
  <2> USE DEF AudioInv, InSession
  <2>0. filled \in 0..BufferFrames /\ pending \in Nat /\ stream \in StreamPlaces
    BY FirmwareAssumption DEF TypeOK
  <2>1. CASE UNCHANGED vars
    BY <2>1 DEF vars, captureVars
  <2>2. CASE CaptureInit \/ CaptureFrame
    BY <2>0, <2>2, FirmwareAssumption DEF CaptureInit, CaptureFrame, Least
  <2>3. CASE KwsInit \/ KwsPoll \/ KwsGetWindow \/ KwsInfer \/ KwsHandOff
    BY <2>3 DEF KwsInit, KwsPoll, KwsGetWindow, KwsInfer, KwsHandOff, captureVars
  <2>4. CASE KwsSend
    BY <2>0, <2>4 DEF KwsSend, captureVars
  <2>5. CASE StreamWork
    <3>1. UNCHANGED <<kws, filled>>
      BY <2>5 DEF StreamWork, StreamReceive, StreamConnect, StreamStart, StreamPreRoll,
                  StreamFrame, StreamLoopDone, StreamEnd, StreamResult, StreamFinish,
                  StreamDelay, StreamReset, sharedVars, captureVars
    <3>2. CASE StreamReceive
      BY <3>1, <3>2 DEF StreamReceive
    <3>3. CASE StreamReset
      BY <3>1, <3>3 DEF StreamReset
    <3>4. (UNCHANGED pending /\ stream \notin {"idle", "reset"}) \/ StreamReceive \/ StreamReset
      BY <2>5 DEF StreamWork, StreamConnect, StreamStart, StreamPreRoll,
                  StreamFrame, StreamLoopDone, StreamEnd, StreamResult, StreamFinish,
                  StreamDelay
    <3> QED
      BY <3>1, <3>2, <3>3, <3>4
  <2>6. CASE StreamReturn
    BY <2>6 DEF StreamReturn, sharedVars, captureVars
  <2> QED
    BY <2>1, <2>2, <2>3, <2>4, <2>5, <2>6 DEF Next, KwsStep, StreamStep
<1> QED
  BY <1>1, <1>2, TypeCorrect, PTL DEF Spec

\* A pre-roll that is sent has its full length, for every pre-roll no longer
\* than the evaluated window (app_main.cpp, the two GetLast calls).
THEOREM PreRollFull == Spec => []PreRollComplete
<1>1. Init => PreRollComplete
  BY DEF Init, PreRollComplete
<1>2. TypeOK /\ AudioInv /\ PlaceInv /\ PreRollComplete /\ [Next]_vars => PreRollComplete'
  <2> SUFFICES ASSUME TypeOK, AudioInv, PlaceInv, PreRollComplete, [Next]_vars
               PROVE  PreRollComplete'
    OBVIOUS
  <2> USE DEF PreRollComplete
  <2>0. WireOK /\ sequence \in Nat
    BY DEF TypeOK, WireOK
  <2>1. CASE UNCHANGED wire
    BY <2>1
  <2>2. CASE wire' = <<>>
    BY <2>2
  <2>3. ASSUME NEW m \in Messages, wire' = Append(wire, m),
               m.type = "CHUNK" /\ m.seq = 0 => m.frames = PreRollFrames
        PROVE  PreRollComplete'
    BY <2>0, <2>3, AppendFacts
  <2>4. CASE StreamStart
    BY <2>1, <2>3, <2>4, MessageType DEF StreamStart, GiveUp, Message
  <2>5. CASE StreamPreRoll
    <3>1. filled \in Nat /\ filled >= PreRollFrames
      BY <2>5, FirmwareAssumption DEF StreamPreRoll, AudioInv, InSession, TypeOK
    <3>2. Least(PreRollFrames, filled) = PreRollFrames
      BY <3>1, FirmwareAssumption DEF Least
    <3>3. Message("CHUNK", 0, PreRollFrames) \in Messages
      BY MessageType, FirmwareAssumption
    <3> QED
      BY <2>1, <2>3, <2>5, <3>2, <3>3 DEF StreamPreRoll, GiveUp, Message
  <2>6. CASE StreamFrame
    <3>1. sequence >= 1
      BY <2>6 DEF StreamFrame, PlaceInv
    <3>2. Message("CHUNK", sequence, 1) \in Messages /\ Message("CHUNK", sequence, 1).seq # 0
      BY <2>0, <3>1, MessageType DEF Message
    <3> QED
      BY <2>1, <2>3, <2>6, <3>2 DEF StreamFrame
  <2>7. CASE StreamEnd
    <3>1. Message("END", sequence, 0) \in Messages /\ Message("END", sequence, 0).type = "END"
      BY <2>0, MessageType DEF Message
    <3> QED
      BY <2>1, <2>3, <2>7, <3>1 DEF StreamEnd
  <2>8. UNCHANGED wire \/ wire' = <<>> \/ StreamStart \/ StreamPreRoll \/ StreamFrame \/ StreamEnd
    BY DEF Next, KwsStep, StreamStep, StreamWork, vars, sessionVars, CaptureInit, CaptureFrame,
           KwsInit, KwsPoll, KwsGetWindow, KwsInfer, KwsSend, KwsHandOff, StreamReceive,
           StreamConnect, StreamLoopDone, StreamResult, StreamFinish, StreamDelay,
           StreamReturn, StreamReset
  <2> QED
    BY <2>1, <2>2, <2>4, <2>5, <2>6, <2>7, <2>8
<1> QED
  BY <1>1, <1>2, TypeCorrect, AudioInvariant, WireInvariant, PTL DEF Spec
=============================================================================
