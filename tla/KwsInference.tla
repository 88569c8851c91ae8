---------------------------- MODULE KwsInference ----------------------------
(***************************************************************************)
(* components/kws_inference: the embedded model as far as loading it       *)
(* depends on it (its size, version, operators and activation tensors, as  *)
(* the bytes of kws_model_data.cc encode them), Init and Run.  The weights *)
(* are left out.  The interpreter is TensorFlow Lite Micro.                *)
(***************************************************************************)
EXTENDS AppConfig, Sequences, FiniteSetsExt

\* g_kws_model_data_len, and the version field of the flat buffer.
ModelLength == 38712
ModelVersion == 3
SupportedVersion == 3    \* TFLITE_SCHEMA_VERSION

\* The activation tensors: height, width, channels; all are int8.
Shape == [input |-> <<50, 13, 1>>,
          conv1 |-> <<25, 7, 64>>,
          ds1_dw |-> <<25, 7, 64>>, ds1_pw |-> <<25, 7, 64>>,
          ds2_dw |-> <<25, 7, 64>>, ds2_pw |-> <<25, 7, 64>>,
          ds3_dw |-> <<25, 7, 64>>, ds3_pw |-> <<25, 7, 64>>,
          gap |-> <<1, 1, 64>>,
          logits |-> <<1, 1, 4>>, output |-> <<1, 1, 4>>]

\* The operators in order of execution: code, input, output.
Operators == <<<<"CONV_2D", "input", "conv1">>,
               <<"DEPTHWISE_CONV_2D", "conv1", "ds1_dw">>,
               <<"CONV_2D", "ds1_dw", "ds1_pw">>,
               <<"DEPTHWISE_CONV_2D", "ds1_pw", "ds2_dw">>,
               <<"CONV_2D", "ds2_dw", "ds2_pw">>,
               <<"DEPTHWISE_CONV_2D", "ds2_pw", "ds3_dw">>,
               <<"CONV_2D", "ds3_dw", "ds3_pw">>,
               <<"MEAN", "ds3_pw", "gap">>,
               <<"FULLY_CONNECTED", "gap", "logits">>,
               <<"SOFTMAX", "logits", "output">>>>

\* Mutant: the list its comment gives for the two architectures, without the
\* operator that pools.
RegisteredWithoutMean == {"CONV_2D", "MAX_POOL_2D", "DEPTHWISE_CONV_2D",
                          "FULLY_CONNECTED", "SOFTMAX", "RESHAPE"}

\* The operators Init registers with the resolver.
Registered == {"CONV_2D", "MAX_POOL_2D", "DEPTHWISE_CONV_2D", "FULLY_CONNECTED",
               "SOFTMAX", "RESHAPE", "MEAN"}

Bytes(tensor) == Shape[tensor][1] * Shape[tensor][2] * Shape[tensor][3]

\* An operator's input and output are held at the same time; everything else
\* AllocateTensors puts in the arena is the interpreter's own, of unknown size.
ActivationBytes == Max({Bytes(Operators[i][2]) + Bytes(Operators[i][3])
                        : i \in 1..Len(Operators)})

Known(i) == Operators[i][1] \in Registered

\* What Init may return, the interpreter's own need for the arena being free.
InitStatuses ==
    IF ModelLength = 0 THEN {-1}
    ELSE IF ModelVersion # SupportedVersion THEN {-2}
    ELSE IF ActivationBytes > kTensorArenaBytes \/ \E i \in 1..Len(Operators) : ~Known(i)
    THEN {-3} ELSE {0, -3}

\* Run is a placeholder that reports failure and no probabilities.
RunStatus == -1
=============================================================================
