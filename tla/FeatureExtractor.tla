-------------------------- MODULE FeatureExtractor --------------------------
(***************************************************************************)
(* components/feature_extractor next to the Python pipeline the model was  *)
(* trained with (ml/features).  Floating point is left out: a value is the *)
(* formula it is computed by, as far as the two formulas can differ: which *)
(* samples go into a frame, the weights of the filters as ratios, the      *)
(* scale of the DCT, where a coefficient is written, what is normalized.   *)
(***************************************************************************)
EXTENDS AppConfig

NBins == kFftSize \div 2 + 1
Bins == 0..(NBins - 1)
BinTables == [0..(kNumMelBins + 1) -> Bins]

\* The points equally spaced in mel from 300 to 8000 Hz, in FFT bins; float32
\* and float64 give the same.
BinPoints ==
    LET points == <<4, 5, 6, 7, 8, 9, 10, 11, 13, 14, 15, 17, 19, 20, 22, 24, 26, 28,
                    30, 32, 34, 37, 40, 42, 45, 48, 52, 55, 59, 62, 66, 71, 75, 80,
                    85, 90, 96, 101, 108, 114, 121, 128>>
    IN  [i \in 0..(kNumMelBins + 1) |-> points[i + 1]]
-----------------------------------------------------------------------------
(* The filterbank; weights are pairs of numerator and denominator *)

AtLeast(low, x) == IF x <= low THEN low + 1 ELSE x

\* Mutant: the falling slope starts from the next filter's center.
MelWeightSkewed(bins, m, k) ==
    LET left   == bins[m - 1]
        center == AtLeast(left, bins[m])
        right  == AtLeast(center, bins[m + 1])
    IN  IF left <= k /\ k < center THEN <<k - left, center - left>>
        ELSE IF center <= k /\ k <= right THEN <<right - k, right - left>>
        ELSE <<0, 1>>

\* BuildMelFilterbank: the weight of bin k in filter m.
MelWeight(bins, m, k) ==
    LET left   == bins[m - 1]
        center == AtLeast(left, bins[m])
        beyond == AtLeast(center, bins[m + 1])
        right  == IF beyond >= NBins THEN NBins - 1 ELSE beyond
    IN  IF left <= k /\ k < center THEN <<k - left, center - left>>
        ELSE IF center <= k /\ k <= right THEN <<right - k, right - center>>
        ELSE <<0, 1>>

\* build_mel_filterbank of mel_spectrogram.py: the right end is not a bin of
\* the filter, and is not clamped.
PyMelWeight(bins, m, k) ==
    LET left   == bins[m - 1]
        center == AtLeast(left, bins[m])
        right  == AtLeast(center, bins[m + 1])
    IN  IF left <= k /\ k < center THEN <<k - left, center - left>>
        ELSE IF center <= k /\ k < right THEN <<right - k, right - center>>
        ELSE <<0, 1>>

\* Equal as numbers; a ratio with denominator 0 equals nothing, as NaN does.
SameRatio(a, b) == a[2] # 0 /\ b[2] # 0 /\ a[1] * b[2] = b[1] * a[2]

FiltersAgree(bins) ==
    \A m \in 1..kNumMelBins : \A k \in Bins :
        SameRatio(MelWeight(bins, m, k), PyMelWeight(bins, m, k))
-----------------------------------------------------------------------------
(* Frames: a windowed sample is the sample, the one subtracted from it, and *)
(* whether the Hann window, which is 0 at both ends, lets it through.       *)

None == -1
Passes(n) == n # 0 /\ n # kWindowLengthSamples - 1
Term(sample, previous, n) == IF Passes(n) THEN <<sample, previous, n>> ELSE <<>>

\* The samples a DFT of kFftSize points sees of a longer frame.
Seen == 0..((IF kWindowLengthSamples < kFftSize THEN kWindowLengthSamples
             ELSE kFftSize) - 1)

\* ComputeFrame: pre-emphasis starts over in each frame.
Frame(start) ==
    [n \in Seen |-> Term(start + n, IF n = 0 THEN None ELSE start + n - 1, n)]

\* Mutant: the hop is that of the audio driver.
FrameStartByAudioFrame(t) == t * kFrameSizeSamples

\* Where frame t of a window starts.
FrameStart(t) == t * kHopLengthSamples

\* pre_emphasis and frame_signal: the whole recording is emphasized, then cut.
PyTerm(i, n) == Term(i, IF i = 0 THEN None ELSE i - 1, n)
PyFrame(t) == [n \in Seen |-> PyTerm(t * kHopLengthSamples + n, n)]
-----------------------------------------------------------------------------
(* Coefficients *)

\* ComputeDct: the square of the scale of coefficient k, as a ratio.
DctScale(k) == <<2, kNumMelBins>>
\* scipy's dct with norm="ortho".
PyDctScale(k) == IF k = 0 THEN <<1, kNumMelBins>> ELSE <<2, kNumMelBins>>

\* Compute: where coefficient k of frame t is written in out_features.
Cell(t, k) == t * kNumMfcc + k

\* What Compute leaves of its own in out_features: in each cell the frame and
\* the coefficient. Nothing is normalized.
Written == {[cell |-> Cell(t, k), frame |-> Frame(FrameStart(t)), k |-> k,
             normalized |-> FALSE] : t \in 0..(kNumFrames - 1), k \in 0..(kNumMfcc - 1)}

\* The row-major tensor of extract_features, after the normalization with the
\* mean and deviation of the training set (dataset_loader.py).
Trained == {[cell |-> t * kNumMfcc + k, frame |-> PyFrame(t), k |-> k,
             normalized |-> TRUE] : t \in 0..(kNumFrames - 1), k \in 0..(kNumMfcc - 1)}

\* The same tensor before it is normalized.
Extracted == {[cell EXCEPT !.normalized = FALSE] : cell \in Trained}
=============================================================================
