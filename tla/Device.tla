------------------------------- MODULE Device -------------------------------
(***************************************************************************)
(* The device as the repository has it, from power-on: app_main with Wi-Fi *)
(* and the flash that survives a reboot, AudioCaptureTask on the mock      *)
(* source, KwsTask with the embedded model, and MetricsTask, at the values *)
(* of app_config.h.  As KwsInference::Run always fails, no request is ever *)
(* made and StreamingTask waits: Firmware has the rest of the program.     *)
(***************************************************************************)
EXTENDS FeatureExtractor, KwsInference, RuntimeMetrics

CONSTANTS MaxFrames,    \* bound on the audio frames captured after a boot
          MaxWindows,   \* bound on the windows evaluated after a boot
          MaxFaults     \* bound on the faults: failing calls and power cuts

ASSUME DeviceAssumption == MaxFrames \in Nat /\ MaxWindows \in Nat /\ MaxFaults \in Nat

VARIABLES
    boot,       \* the call app_main is about to make
    flash,      \* the NVS partition, which survives a reboot
    faults,     \* faults so far
    tasks,      \* the tasks created
    captured,   \* samples captured: g_sample_index of the mock source
    capture,    \* where AudioCaptureTask is
    kws,        \* where KwsTask is; a number while it is in SetStaticSizes
    window      \* windows copied so far

bootVars == <<boot, flash, faults>>
taskVars == <<tasks, captured, capture, kws, window>>
vars == <<bootVars, taskVars, metricsVars>>

FlashStates == {"good", "noFreePages", "newVersion"}

\* The calls of app_main and WifiInit; each one's failure is an abort, but for
\* the queue and the tasks.
BootSteps == <<"queue", "nvs", "netif", "eventLoop", "wifiSta", "wifiInit", "mode",
               "config", "start", "connect",
               "audio_capture_task", "kws_task", "streaming_task", "metrics_task",
               "done">>
TaskNames == {"audio_capture_task", "kws_task", "streaming_task", "metrics_task"}
After(step) == BootSteps[1 + CHOOSE i \in 1..Len(BootSteps) : BootSteps[i] = step]

PowerOn == /\ tasks = {} /\ captured = 0 /\ capture = "init"
           /\ kws = "init" /\ window = 0
           /\ MetricsInit

Init == /\ boot = "queue" /\ faults = 0
        /\ flash \in FlashStates
        /\ PowerOn

Fault == faults < MaxFaults /\ faults' = faults + 1

\* A reset: only the flash remains.
Reset == /\ boot' = "queue"
         /\ tasks' = {} /\ captured' = 0 /\ capture' = "init"
         /\ kws' = "init" /\ window' = 0
         /\ metrics' = Unset /\ snapshot' = Unset /\ copied' = 0 /\ logged' = Unset
-----------------------------------------------------------------------------
(* app_main *)

\* xQueueCreate; without memory app_main returns.
CreateQueue == /\ boot = "queue"
               /\ \/ boot' = "nvs" /\ UNCHANGED faults
                  \/ boot' = "returned" /\ Fault
               /\ UNCHANGED <<flash, taskVars, metricsVars>>

\* Mutant: only a full partition is erased.
EraseIfFull == /\ boot = "nvs"
               /\ \/ /\ flash # "newVersion"
                     /\ boot' = IF flash = "good" THEN After("nvs") ELSE "erase"
                     /\ UNCHANGED <<taskVars, metricsVars>>
                  \/ flash = "newVersion" /\ Reset
               /\ UNCHANGED <<flash, faults>>

\* nvs_flash_init: a partition it cannot use is to be erased.
InitNvs == /\ boot = "nvs"
           /\ boot' = IF flash = "good" THEN After("nvs") ELSE "erase"
           /\ UNCHANGED <<flash, faults, taskVars, metricsVars>>

\* nvs_flash_erase, and nvs_flash_init again, which finds an empty partition.
EraseNvs == /\ boot = "erase"
            /\ flash' = "good"
            /\ boot' = After("nvs")
            /\ UNCHANGED <<faults, taskVars, metricsVars>>

\* The calls under ESP_ERROR_CHECK that succeed.
WifiStep == /\ boot \in {"netif", "eventLoop", "wifiSta", "wifiInit", "mode",
                         "config", "start", "connect"}
            /\ boot' = After(boot)
            /\ UNCHANGED <<flash, faults, taskVars, metricsVars>>

\* xTaskCreate; its result is not looked at.
CreateTask == /\ boot \in TaskNames
              /\ boot' = After(boot)
              /\ \/ tasks' = tasks \cup {boot} /\ UNCHANGED faults
                 \/ Fault /\ UNCHANGED tasks
              /\ UNCHANGED <<flash, captured, capture, kws, window, metricsVars>>

\* A call under ESP_ERROR_CHECK fails and aborts, or the power is cut, at any
\* time: an erase that was interrupted leaves a partition of no use.
Crash == /\ Fault
         /\ IF boot = "erase" THEN flash' \in FlashStates ELSE UNCHANGED flash
         /\ Reset

BootStep == CreateQueue \/ InitNvs \/ EraseNvs \/ WifiStep \/ CreateTask
-----------------------------------------------------------------------------
(* AudioCaptureTask *)

\* Mutant: the result of audio_capture_init is taken the wrong way round.
StartCaptureInverted ==
    /\ "audio_capture_task" \in tasks /\ capture = "init"
    /\ capture' = "deleted" /\ captured' = 0
    /\ UNCHANGED <<bootVars, tasks, kws, window, metricsVars>>

\* audio_capture_init of the mock source.
StartCapture == /\ "audio_capture_task" \in tasks /\ capture = "init"
                /\ capture' = "running" /\ captured' = 0
                /\ UNCHANGED <<bootVars, tasks, kws, window, metricsVars>>

\* audio_read of the mock source, which is always whole, and Push.
CaptureFrame == /\ capture = "running" /\ captured < MaxFrames * kFrameSizeSamples
                /\ captured' = captured + kFrameSizeSamples
                /\ RecordLoopPeriod
                /\ UNCHANGED <<bootVars, tasks, capture, kws, window,
                               snapshot, copied, logged>>
-----------------------------------------------------------------------------
(* KwsTask *)

InitKws == /\ "kws_task" \in tasks /\ kws = "init"
           /\ \E status \in InitStatuses : kws' = IF status = 0 THEN "sizes1" ELSE "dead"
           /\ UNCHANGED <<bootVars, tasks, captured, capture, window, metricsVars>>

SizePlaces == <<"sizes1", "sizes2", "sizes3", "sizes4", "sizes5", "poll">>
SetStaticSizes ==
    \E i \in 1..Len(StaticSizes) :
        /\ kws = SizePlaces[i]
        /\ StoreSize(i)
        /\ kws' = SizePlaces[i + 1]
        /\ UNCHANGED <<bootVars, tasks, captured, capture, window,
                       snapshot, copied, logged>>

\* The state is always LISTENING.
PollState == /\ kws = "poll"
             /\ kws' = "window"
             /\ UNCHANGED <<bootVars, tasks, captured, capture, window, metricsVars>>

\* Mutant: the last frame's own length is left out of the window's.
GetShortWindow ==
    /\ kws = "window" /\ window < MaxWindows
    /\ IF captured >= (kNumFrames - 1) * kHopLengthSamples
       THEN kws' = "compute" /\ window' = window + 1
       ELSE kws' = "poll" /\ UNCHANGED window
    /\ UNCHANGED <<bootVars, tasks, captured, capture, metricsVars>>

\* GetLast of RequiredSamples samples; fewer, and the loop starts over.
GetWindow == /\ kws = "window" /\ window < MaxWindows
             /\ IF captured >= RequiredSamples
                THEN kws' = "compute" /\ window' = window + 1
                ELSE kws' = "poll" /\ UNCHANGED window
             /\ UNCHANGED <<bootVars, tasks, captured, capture, metricsVars>>

Compute == /\ kws = "compute"
           /\ RecordFeatureExtractionDuration(window)
           /\ kws' = "run"
           /\ UNCHANGED <<bootVars, tasks, captured, capture, window,
                          snapshot, copied, logged>>

Run == /\ kws = "run"
       /\ RecordKwsInferenceDuration(window)
       /\ RunStatus # 0 /\ kws' = "poll"
       /\ UNCHANGED <<bootVars, tasks, captured, capture, window,
                      snapshot, copied, logged>>

KwsStep == InitKws \/ SetStaticSizes \/ PollState \/ GetWindow \/ Compute \/ Run
-----------------------------------------------------------------------------
MetricsTask == /\ "metrics_task" \in tasks
               /\ CopyField \/ LogSnapshot
               /\ UNCHANGED <<bootVars, taskVars>>

Next == BootStep \/ Crash \/ StartCapture \/ CaptureFrame \/ KwsStep \/ MetricsTask

\* Every task is scheduled (the mock source never blocks, but there are two
\* cores), and a call of app_main returns or aborts.
Spec == /\ Init /\ [][Next]_vars
        /\ WF_vars(BootStep) /\ WF_vars(KwsStep) /\ WF_vars(MetricsTask)
-----------------------------------------------------------------------------
TypeOK == /\ boot \in {BootSteps[i] : i \in 1..Len(BootSteps)} \cup {"erase", "returned"}
          /\ flash \in FlashStates /\ faults \in 0..MaxFaults
          /\ tasks \subseteq TaskNames
          /\ captured \in 0..(MaxFrames * kFrameSizeSamples)
          /\ capture \in {"init", "running"}
          /\ kws \in {"init", "dead", "window", "compute", "run"}
                      \cup {SizePlaces[i] : i \in 1..Len(SizePlaces)}
          /\ window \in 0..MaxWindows /\ copied \in 0..Len(Fields)
          /\ \A r \in {metrics, snapshot, logged} : r \in [FieldNames -> Nat]

FeaturesAgree == /\ Written = Extracted
                 /\ {c.cell : c \in Written} = 0..(Bytes("input") - 1)
                 /\ FiltersAgree(BinPoints)

\* What the model is given fills exactly its input tensor, and each cell is
\* computed by the formula of the Python features the model was trained with
\* (audio_format.md:3, "Firmware must reproduce the same preprocessing"), up to
\* the scale of the coefficients and the normalization.
FeaturesAsExtracted == kws = "run" => FeaturesAgree

TrainedAgree == /\ \A k \in 0..(kNumMfcc - 1) : SameRatio(DctScale(k), PyDctScale(k))
                /\ Written = Trained

\* The same with the scale and the normalization: audio_format.md:42-46,
\* "-> DCT-II ... -> train-set mean/std normalization".
FeaturesAsTrained == kws = "run" => TrainedAgree

\* Loading fails for lack of memory only: the model embedded fits the code
\* around it (size, version, operators), and its classes the result.
LoadsUnlessArenaTooSmall ==
    kws = "dead" => /\ 0 \in InitStatuses
                    /\ Bytes("output") = kNumClasses

\* A partition that cannot be used is repaired, also when the repair is
\* interrupted, and does not keep the device in a boot loop (WifiInit).
FlashRepaired == []<>(flash = "good" \/ boot = "returned")

\* The sizes of KwsTask reach the log as they are, although they are stored
\* and copied one by one and without a lock.
SizesLogged ==
    (kws = "poll" /\ "metrics_task" \in tasks)
        ~> \/ \A i \in 1..Len(StaticSizes) : logged[StaticSizes[i][1]] = StaticSizes[i][2]
           \/ boot = "queue"

\* Samples in whole frames, and those the ring buffer still holds.
InFrames(samples) == (samples + kFrameSizeSamples - 1) \div kFrameSizeSamples
kept == IF captured < kRingBufferSamples THEN captured ELSE kRingBufferSamples

F == INSTANCE Firmware WITH
        ConsecutivePositiveWindows <- kConsecutivePositiveWindows,
        CooldownWindows <- CooldownArgument,
        QueueLength <- 2,
        BufferFrames <- InFrames(kRingBufferSamples),
        WindowFrames <- InFrames(RequiredSamples),
        PreRollFrames <- InFrames(kPreRollSamples),
        MaxExtraFrames <- MaxExtraFrames,
        appState <- "Listening", consecutiveCount <- 0, cooldownRemaining <- 0,
        filled <- InFrames(kept),
        kws <- CASE kws \in {"compute", "run"} -> "infer"
                 [] kws \in {SizePlaces[i] : i \in 1..Len(SizePlaces)} -> "poll"
                 [] OTHER -> kws,
        pending <- 0, stream <- "idle", connected <- FALSE, sequence <- 0,
        extra <- 0, wire <- <<>>, failed <- FALSE

\* From each boot on the device is one of those that Firmware allows, its
\* audio in samples and its loops in steps of their own.
ImplementsFirmware ==
    F!Init /\ [][[F!Next]_(F!vars) \/ (boot' = "queue" /\ F!Init')]_vars
=============================================================================
