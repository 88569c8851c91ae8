----------------------------- MODULE AppConfig ------------------------------
(***************************************************************************)
(* firmware/esp32s3/main/app_config.h: the compile-time constants that the *)
(* other modules of the device use, at their real values.                  *)
(***************************************************************************)
EXTENDS Integers

kSampleRateHz == 16000
kFrameDurationMs == 30
kFrameSizeSamples == 480
kPreRollSamples == 12800
kRingBufferSamples == 32000
kMaxStreamDurationMs == 8000

kNumMelBins == 40
kNumMfcc == 13
kNumFrames == 50
kFftSize == 256
kWindowLengthSamples == 512
kHopLengthSamples == 320

kConsecutivePositiveWindows == 3
kCooldownMs == 1500
kNumClasses == 4
kTensorArenaBytes == 60 * 1024

\* required_samples, of KwsTask and of FeatureExtractor::Compute.
RequiredSamples == kWindowLengthSamples + (kNumFrames - 1) * kHopLengthSamples

\* The arguments g_trigger_sm and the streaming loop are built from.
CooldownArgument == kCooldownMs \div ((kHopLengthSamples * 1000) \div kSampleRateHz)
MaxExtraFrames == kMaxStreamDurationMs \div kFrameDurationMs
=============================================================================
