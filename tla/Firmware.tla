------------------------------ MODULE Firmware ------------------------------
(***************************************************************************)
(* The tasks of firmware/esp32s3/main/app_main.cpp and what they share:    *)
(* the trigger state machine, the ring buffer (as its fill level), and the *)
(* queue of stream requests from KwsTask to StreamingTask.                 *)
(*                                                                         *)
(* Audio is counted in frames (one audio_read).  A task step is what the   *)
(* task does between two points where another task can observe or change   *)
(* shared state; the transport and the local buffers are StreamingTask's   *)
(* own.  Outcomes of the network, the mutex and the model are free.        *)
(***************************************************************************)
EXTENDS TriggerStateMachine, Sequences

CONSTANTS QueueLength,     \* xQueueCreate(2, ...)
          BufferFrames,    \* capacity of the ring buffer
          WindowFrames,    \* required_samples of KwsTask
          PreRollFrames,   \* kPreRollSamples
          MaxExtraFrames   \* max_extra_frames of the streaming loop

ASSUME FirmwareAssumption ==
    /\ QueueLength \in Nat \ {0}
    /\ BufferFrames \in Nat /\ WindowFrames \in Nat
    /\ PreRollFrames \in Nat \ {0} /\ MaxExtraFrames \in Nat
    /\ PreRollFrames <= WindowFrames /\ WindowFrames <= BufferFrames

VARIABLES
    capture,      \* where AudioCaptureTask is
    filled,       \* frames held by g_ring_buffer
    kws,          \* where KwsTask is
    pending,      \* stream requests in g_stream_request_queue
    stream,       \* where StreamingTask is
    connected,    \* transport: a socket is open
    sequence,     \* sequence_number
    extra,        \* i of the streaming loop
    wire,         \* history: messages sent on the current connection
    failed        \* history: some call of the current session failed

captureVars == <<capture, filled>>
sessionVars == <<connected, sequence, extra, wire, failed>>
vars == <<triggerVars, captureVars, kws, pending, stream, sessionVars>>

KwsPlaces == {"init", "dead", "poll", "window", "infer", "detected", "sent"}
StreamPlaces == {"idle", "connect", "start", "preroll", "live", "end",
                 "result", "complete", "error", "delay", "return", "reset"}
Messages == [type : {"START", "CHUNK", "END"}, seq : Nat, frames : Nat]

Least(a, b) == IF a <= b THEN a ELSE b

TypeOK == /\ TriggerTypeOK
          /\ capture \in {"init", "running", "deleted"}
          /\ filled \in 0..BufferFrames
          /\ kws \in KwsPlaces
          /\ pending \in 0..QueueLength
          /\ stream \in StreamPlaces
          /\ connected \in BOOLEAN
          /\ sequence \in Nat
          /\ extra \in 0..MaxExtraFrames
          /\ wire \in Seq(Messages)
          /\ failed \in BOOLEAN

\* app_main: the queue is created, the tasks start; a queue that cannot be
\* created ends app_main before any task exists.
Init == /\ TriggerInit
        /\ capture = "init" /\ filled = 0
        /\ kws = "init" /\ pending = 0
        /\ stream = "idle" /\ connected = FALSE
        /\ sequence = 0 /\ extra = 0
        /\ wire = <<>> /\ failed = FALSE
-----------------------------------------------------------------------------
(* AudioCaptureTask *)

CaptureInit == /\ capture = "init"
               /\ capture' \in {"running", "deleted"}
               /\ UNCHANGED <<triggerVars, filled, kws, pending, stream,
                              sessionVars>>

\* A whole frame read and pushed.  A short read, and a Push that times out on
\* the mutex, only log: they are stuttering steps.
CaptureFrame == /\ capture = "running"
                /\ filled' = Least(filled + 1, BufferFrames)
                /\ UNCHANGED <<triggerVars, capture, kws, pending, stream,
                               sessionVars>>
-----------------------------------------------------------------------------
(* KwsTask *)

\* g_kws_inference.Init; on failure the task only logs, forever.
KwsInit == /\ kws = "init"
           /\ kws' \in {"poll", "dead"}
           /\ UNCHANGED <<triggerVars, captureVars, pending, stream,
                          sessionVars>>

\* Mutant: the loop does not look at the state.
KwsPollAnyState == /\ kws = "poll"
                   /\ kws' = "window"
                   /\ UNCHANGED <<triggerVars, captureVars, pending,
                                  stream, sessionVars>>

\* The state is read here and not again before Update; outside LISTENING the
\* loop delays and reads it again.
KwsPoll == /\ kws = "poll"
           /\ appState = "Listening"
           /\ kws' = "window"
           /\ UNCHANGED <<triggerVars, captureVars, pending, stream,
                          sessionVars>>

\* Mutant: a short window is evaluated too.
KwsGetAnyWindow ==
    /\ kws = "window"
    /\ kws' \in {"infer", "poll"}
    /\ UNCHANGED <<triggerVars, captureVars, pending, stream, sessionVars>>

\* GetLast: a whole window, or fewer samples or a mutex timeout, after which
\* the loop starts over.
KwsGetWindow ==
    /\ kws = "window"
    /\ \/ filled >= WindowFrames /\ kws' = "infer"
       \/ kws' = "poll"
    /\ UNCHANGED <<triggerVars, captureVars, pending, stream, sessionVars>>

\* Compute and Run: one of them fails and the loop starts over, or Update is
\* called with the probability of the keyword.
KwsInfer ==
    /\ kws = "infer"
    /\ \/ /\ kws' = "poll"
          /\ UNCHANGED triggerVars
       \/ /\ \E positive \in BOOLEAN : Update(positive)
          /\ kws' = IF appState' = "KeywordDetected" THEN "detected" ELSE "poll"
    /\ UNCHANGED <<captureVars, pending, stream, sessionVars>>

\* xQueueSend with no wait; a full queue drops the request.
KwsSend ==
    /\ kws = "detected"
    /\ IF pending < QueueLength
       THEN /\ pending' = pending + 1
            /\ kws' = "sent"
            /\ UNCHANGED triggerVars
       ELSE /\ ForceState("Listening")
            /\ kws' = "poll"
            /\ UNCHANGED pending
    /\ UNCHANGED <<captureVars, stream, sessionVars>>

\* ForceState(kStreaming): StreamingTask may already be at work on the request.
KwsHandOff == /\ kws = "sent"
              /\ ForceState("Streaming")
              /\ kws' = "poll"
              /\ UNCHANGED <<captureVars, pending, stream,
                             sessionVars>>

KwsStep == KwsInit \/ KwsPoll \/ KwsGetWindow \/ KwsInfer \/ KwsSend \/ KwsHandOff
-----------------------------------------------------------------------------
(* StreamingTask *)

sharedVars == <<captureVars, kws>>

Message(type, seq, frames) == [type |-> type, seq |-> seq, frames |-> frames]

\* xQueueReceive.
StreamReceive == /\ stream = "idle" /\ pending > 0
                 /\ pending' = pending - 1
                 /\ stream' = "connect"
                 /\ wire' = <<>> /\ failed' = FALSE
                 /\ UNCHANGED <<triggerVars, sharedVars, connected, sequence, extra>>

\* transport.Connect: on failure no socket is left open.
StreamConnect ==
    /\ stream = "connect"
    /\ \/ /\ connected' = TRUE /\ stream' = "start"
          /\ UNCHANGED failed
       \/ /\ failed' = TRUE /\ stream' = "error"
          /\ UNCHANGED connected
    /\ UNCHANGED <<triggerVars, sharedVars, pending, sequence, extra, wire>>

\* Mutants: the error path of START_SESSION or the pre-roll keeps the socket;
\* or it waits for the next request at once.
GiveUpConnected == /\ failed' = TRUE
                   /\ stream' = "error"
                   /\ UNCHANGED <<connected, wire, sequence, extra>>
GiveUpWithoutRecovery == /\ connected' = FALSE
                         /\ failed' = TRUE
                         /\ stream' = "idle"
                         /\ UNCHANGED <<wire, sequence, extra>>

\* A failed START_SESSION or pre-roll: Disconnect, then error recovery.
GiveUp == /\ connected' = FALSE
          /\ failed' = TRUE
          /\ stream' = "error"
          /\ UNCHANGED <<wire, sequence, extra>>

StreamStart ==
    /\ stream = "start"
    /\ \/ /\ wire' = Append(wire, Message("START", 0, 0))
          /\ stream' = "preroll"
          /\ UNCHANGED <<connected, failed, sequence, extra>>
       \/ GiveUp
    /\ UNCHANGED <<triggerVars, sharedVars, pending>>

\* The declarations in front of the streaming loop.
EnterLoopFromZero == /\ sequence' = 0 /\ extra' = 0      \* mutant
                     /\ stream' = "live"
EnterLoop == /\ sequence' = 1 /\ extra' = 0
             /\ stream' = "live"

\* GetLast copies what there is, or nothing when the mutex is not obtained in
\* time: then the pre-roll is left out.  StartStreaming is not defined in the
\* repository and changes nothing this module tells apart.
StreamPreRoll ==
    /\ stream = "preroll"
    /\ \/ /\ EnterLoop
          /\ UNCHANGED <<connected, failed, wire>>
       \/ /\ filled > 0
          /\ EnterLoop
          /\ wire' = Append(wire, Message("CHUNK", 0, Least(PreRollFrames, filled)))
          /\ UNCHANGED <<connected, failed>>
       \/ filled > 0 /\ GiveUp
    /\ UNCHANGED <<triggerVars, sharedVars, pending>>

\* One iteration: nothing to read yet; a chunk sent; a chunk that could not be
\* sent, which leaves the loop after its sequence number was used.
StreamFrame ==
    /\ stream = "live" /\ extra < MaxExtraFrames
    /\ \/ /\ extra' = extra + 1
          /\ UNCHANGED <<stream, sequence, wire, failed>>
       \/ /\ extra' = extra + 1
          /\ sequence' = sequence + 1
          /\ wire' = Append(wire, Message("CHUNK", sequence, 1))
          /\ UNCHANGED <<stream, failed>>
       \/ /\ sequence' = sequence + 1
          /\ failed' = TRUE
          /\ stream' = "end"
          /\ UNCHANGED <<extra, wire>>
    /\ UNCHANGED <<triggerVars, sharedVars, pending, connected>>

StreamLoopDone == /\ stream = "live" /\ extra = MaxExtraFrames
                  /\ stream' = "end"
                  /\ UNCHANGED <<triggerVars, sharedVars, pending, sessionVars>>

\* SendEndSession, its status ignored.
StreamEnd ==
    /\ stream = "end"
    /\ \/ /\ wire' = Append(wire, Message("END", sequence, 0))
          /\ UNCHANGED failed
       \/ /\ failed' = TRUE
          /\ UNCHANGED wire
    /\ stream' = "result"
    /\ UNCHANGED <<triggerVars, sharedVars, pending, connected, sequence, extra>>

\* ReceiveResult: a transcript, or an ERROR or a timeout, which is only
\* logged; then Disconnect.
StreamResult == /\ stream = "result"
                /\ failed' \in {failed, TRUE}
                /\ connected' = FALSE
                /\ stream' = "complete"
                /\ UNCHANGED <<triggerVars, sharedVars, pending, sequence,
                               extra, wire>>

\* ForceState(kSessionComplete) or ForceState(kErrorRecovery).
StreamFinish ==
    /\ \/ /\ stream = "complete"
          /\ ForceState("SessionComplete") /\ stream' = "return"
       \/ /\ stream = "error"
          /\ ForceState("ErrorRecovery") /\ stream' = "delay"
    /\ UNCHANGED <<sharedVars, pending, sessionVars>>

\* vTaskDelay(500 ms) of error recovery.
StreamDelay == /\ stream = "delay"
               /\ stream' = "return"
               /\ UNCHANGED <<triggerVars, sharedVars, pending, sessionVars>>

\* Mutant: the session ends without the state machine being told.
StreamReturnSilently == /\ stream = "return"
                        /\ stream' = "reset"
                        /\ UNCHANGED <<triggerVars, sharedVars, pending, sessionVars>>

\* ForceState(kListening) is two stores; KwsTask may run between them.
StreamReturn == /\ stream = "return"
                /\ appState' = "Listening"
                /\ stream' = "reset"
                /\ UNCHANGED <<consecutiveCount, cooldownRemaining, sharedVars,
                               pending, sessionVars>>

StreamReset == /\ stream = "reset"
               /\ consecutiveCount' = 0
               /\ stream' = "idle"
               /\ UNCHANGED <<appState, cooldownRemaining, sharedVars, pending,
                              sessionVars>>

StreamWork == \/ StreamReceive \/ StreamConnect \/ StreamStart \/ StreamPreRoll
              \/ StreamFrame \/ StreamLoopDone \/ StreamEnd \/ StreamResult
              \/ StreamFinish \/ StreamDelay \/ StreamReset
StreamStep == StreamWork \/ StreamReturn
-----------------------------------------------------------------------------
Next == CaptureInit \/ CaptureFrame \/ KwsStep \/ StreamStep

\* Every interleaving of the tasks.
Spec == Init /\ [][Next]_vars

\* The timing the priorities give: StreamingTask (priority 5) does not get
\* through a whole session, or through the 500 ms of error recovery, while
\* KwsTask (priority 8) stands between xQueueSend and the next statement.
ReturnInTime == kws # "sent" /\ StreamReturn

TimedStreamStep == StreamWork \/ ReturnInTime
TimedNext == CaptureInit \/ CaptureFrame \/ KwsStep \/ TimedStreamStep

\* No task blocks for ever: every call has a timeout, and xQueueReceive waits
\* only while there is no request.
TimedSpec == /\ Init /\ [][TimedNext]_vars
             /\ WF_vars(KwsStep) /\ WF_vars(TimedStreamStep)
-----------------------------------------------------------------------------
InSession == pending > 0 \/ stream \notin {"idle", "reset"}

\* KwsTask reads the state once and acts on it several calls later: it is
\* never between that read and the request while a session is pending or
\* running, so no session is requested during another one, and the queue is
\* never full (KwsTask drops a request it cannot queue).
NoDetectionDuringSession ==
    kws \in {"window", "infer", "detected"} => ~InSession

\* The device is never left in STREAMING, where KwsTask evaluates nothing,
\* without a request that will bring it back (docs/state_machine.md:34, "without
\* remaining indefinitely blocked").
NeverStranded == (appState # "Listening" /\ kws # "detected") => InSession

\* A socket is open only inside a session: no path back to xQueueReceive keeps
\* one, and Connect never overwrites one.
NoSocketLeak == connected =>
    stream \in {"start", "preroll", "live", "end", "result"}

\* What reaches the server is START, chunks with strictly increasing sequence
\* numbers, END; numbers are used without a gap as long as no call failed
\* (docs/network_protocol.md:50).
WireInOrder ==
    \A i \in 2..Len(wire) :
        /\ wire[1].type = "START" /\ wire[i].type # "START"
        /\ wire[i].type = "END" => i = Len(wire)
        /\ i > 2 => wire[i - 1].seq < wire[i].seq
        /\ ~failed /\ i > 2 => wire[i].seq = wire[i - 1].seq + 1

\* A pre-roll that is sent is complete: a session starts only after a whole
\* window was captured, and the buffer never drains before the pre-roll is copied.
PreRollComplete ==
    \A i \in 1..Len(wire) :
        wire[i].type = "CHUNK" /\ wire[i].seq = 0 => wire[i].frames = PreRollFrames

\* The device always comes back to LISTENING, whatever the network does.
ReturnsToListening == []<>(appState = "Listening")

\* A request that was queued is served to the end of a session.
RequestsServed == (pending > 0) ~> (stream = "reset")
=============================================================================
