--------------------------- MODULE RuntimeMetrics ---------------------------
(***************************************************************************)
(* components/runtime_metrics: words that several tasks store and          *)
(* MetricsTask copies, one at a time and with no lock.  A word is what it  *)
(* says: a size, or the number of the window (0 before the first) or       *)
(* whether there was a frame, that its duration belongs to.  The heap      *)
(* sizes and the idle estimate, always -1, are left out.                   *)
(***************************************************************************)
EXTENDS AppConfig, Sequences

VARIABLES metrics,    \* the fields of the one instance
          snapshot,   \* the copy LogSnapshot fills
          copied,     \* how many fields it holds so far
          logged      \* the last snapshot logged

metricsVars == <<metrics, snapshot, copied, logged>>

\* In the order Snapshot copies them; the build may copy in another, which
\* no property depends on.
Fields == <<"tensor_arena_bytes", "tensor_arena_used_bytes", "model_size_bytes",
            "ring_buffer_bytes", "feature_buffer_bytes", "network_buffer_bytes",
            "last_kws_inference_duration_us", "last_feature_extraction_duration_us",
            "last_loop_period_us">>
FieldNames == {Fields[i] : i \in 1..Len(Fields)}
Unset == [f \in FieldNames |-> 0]

MetricsInit == /\ metrics = Unset /\ snapshot = Unset
               /\ copied = 0 /\ logged = Unset

\* The arguments of SetStaticSizes, in the order it stores them: the model's
\* size is given as 0, the network buffers as 4096 + 2048.
StaticSizes == <<<<"tensor_arena_bytes", kTensorArenaBytes>>,
                 <<"model_size_bytes", 0>>,
                 <<"ring_buffer_bytes", kRingBufferSamples * 2>>,
                 <<"feature_buffer_bytes", kNumFrames * kNumMelBins * 4>>,
                 <<"network_buffer_bytes", 6144>>>>

\* Mutant: two arguments of the same type change places.
StoreSwapped(i) ==
    metrics' = [metrics EXCEPT
        ![StaticSizes[i][1]] = StaticSizes[IF i = 3 THEN 4 ELSE IF i = 4 THEN 3 ELSE i][2]]

\* SetStaticSizes, its i-th store.
StoreSize(i) == metrics' = [metrics EXCEPT ![StaticSizes[i][1]] = StaticSizes[i][2]]

RecordFeatureExtractionDuration(window) ==
    metrics' = [metrics EXCEPT !.last_feature_extraction_duration_us = window]
RecordKwsInferenceDuration(window) ==
    metrics' = [metrics EXCEPT !.last_kws_inference_duration_us = window]
RecordLoopPeriod == metrics' = [metrics EXCEPT !.last_loop_period_us = 1]

\* Snapshot: one more field, whatever the others have become meanwhile.
CopyField == /\ copied < Len(Fields)
             /\ copied' = copied + 1
             /\ snapshot' = [snapshot EXCEPT ![Fields[copied + 1]] = metrics[Fields[copied + 1]]]
             /\ UNCHANGED <<metrics, logged>>

\* LogSnapshot, and the 5 s of MetricsTask.
LogSnapshot == /\ copied = Len(Fields)
               /\ copied' = 0
               /\ logged' = snapshot /\ snapshot' = Unset
               /\ UNCHANGED metrics
=============================================================================
