---------------------------- MODULE DeviceProofs ----------------------------
(***************************************************************************)
(* The device at the values of app_config.h: its features are those of the *)
(* Python pipeline, its model loads, every boot keeps the types and the    *)
(* audio in whole frames, and what it does is what Firmware lets it do.    *)
(* The first part is about every table of filter points and every frame.   *)
(***************************************************************************)
EXTENDS Device, TLAPS

Increasing(bins) == \A i \in 0..kNumMelBins : bins[i] < bins[i + 1]

\* The two filterbanks are equal for every strictly increasing table of points:
\* the bin at the right end, which only the C++ code touches, gets weight 0, and
\* its division has no zero denominator. Without the assumption it may have one.
THEOREM FilterbanksAgree ==
    ASSUME NEW bins \in BinTables, Increasing(bins)
    PROVE  FiltersAgree(bins)
<1> SUFFICES ASSUME NEW m \in 1..kNumMelBins, NEW k \in Bins
             PROVE  SameRatio(MelWeight(bins, m, k), PyMelWeight(bins, m, k))
  BY DEF FiltersAgree
<1> DEFINE left == bins[m - 1]
           center == bins[m]
           right == bins[m + 1]
<1>1. /\ left \in Bins /\ center \in Bins /\ right \in Bins
      /\ left < center /\ center < right
  <2>1. /\ m - 1 \in 0..(kNumMelBins + 1) /\ m \in 0..(kNumMelBins + 1)
        /\ m + 1 \in 0..(kNumMelBins + 1)
        /\ m - 1 \in 0..kNumMelBins /\ m \in 0..kNumMelBins /\ (m - 1) + 1 = m
    BY DEF kNumMelBins
  <2>2. bins[m - 1] < bins[(m - 1) + 1] /\ bins[m] < bins[m + 1]
    BY <2>1 DEF Increasing
  <2> QED
    BY <2>1, <2>2 DEF BinTables
<1> HIDE DEF left, center, right
<1>2. left \in Int /\ center \in Int /\ right \in Int /\ k \in Int /\ right < NBins
  BY <1>1 DEF Bins, NBins, kFftSize
<1>3. MelWeight(bins, m, k) =
        IF left <= k /\ k < center THEN <<k - left, center - left>>
        ELSE IF center <= k /\ k <= right THEN <<right - k, right - center>>
        ELSE <<0, 1>>
  BY <1>1, <1>2 DEF MelWeight, AtLeast, left, center, right, NBins, kFftSize
<1>4. PyMelWeight(bins, m, k) =
        IF left <= k /\ k < center THEN <<k - left, center - left>>
        ELSE IF center <= k /\ k < right THEN <<right - k, right - center>>
        ELSE <<0, 1>>
  BY <1>1, <1>2 DEF PyMelWeight, AtLeast, left, center, right
<1>5. CASE k = right
  <2>1. MelWeight(bins, m, k) = <<0, right - center>> /\ PyMelWeight(bins, m, k) = <<0, 1>>
    BY <1>1, <1>2, <1>3, <1>4, <1>5
  <2> QED
    BY <1>1, <1>2, <2>1 DEF SameRatio
<1>6. CASE k # right
  <2>1. MelWeight(bins, m, k) = PyMelWeight(bins, m, k)
    BY <1>2, <1>3, <1>4, <1>6
  <2>2. MelWeight(bins, m, k)[2] # 0
    BY <1>1, <1>2, <1>3
  <2> QED
    BY <2>1, <2>2 DEF SameRatio
<1> QED
  BY <1>5, <1>6

\* Every frame of a window has the samples the reference has in it, although
\* one restarts its pre-emphasis where the other runs on: the window function is
\* 0 at the only sample where they differ.
THEOREM FramesAgree ==
    \A t \in 0..(kNumFrames - 1) : Frame(FrameStart(t)) = PyFrame(t)
<1> TAKE t \in 0..(kNumFrames - 1)
<1> DEFINE s == t * kHopLengthSamples
<1>1. s \in Nat
  BY DEF kHopLengthSamples, kNumFrames
<1>2. \A n \in Seen : Term(s + n, IF n = 0 THEN None ELSE s + n - 1, n)
                     = PyTerm(s + n, n)
  <2> TAKE n \in Seen
  <2>1. n \in Nat
    BY DEF Seen, kFftSize, kWindowLengthSamples
  <2>2. CASE n = 0
    BY <2>2 DEF Term, PyTerm, Passes
  <2>3. CASE n # 0
    BY <1>1, <2>1, <2>3 DEF PyTerm
  <2> QED
    BY <2>2, <2>3
<1> HIDE DEF s
<1>3. Frame(s) = [n \in Seen |-> Term(s + n, IF n = 0 THEN None ELSE s + n - 1, n)]
  BY DEF Frame
<1>4. PyFrame(t) = [n \in Seen |-> PyTerm(s + n, n)]
  BY DEF PyFrame, s
<1> QED
  BY <1>2, <1>3, <1>4 DEF FrameStart, s

\* No frame reaches beyond the samples that Compute has checked to be there.
THEOREM FramesInsideWindow ==
    \A t \in 0..(kNumFrames - 1) : \A n \in 0..(kWindowLengthSamples - 1) :
        FrameStart(t) + n \in 0..(RequiredSamples - 1)
BY DEF FrameStart, RequiredSamples, kNumFrames, kWindowLengthSamples, kHopLengthSamples

\* No two coefficients of a window are written to the same cell.
THEOREM CellsDistinct ==
    \A t, u \in 0..(kNumFrames - 1) : \A k, l \in 0..(kNumMfcc - 1) :
        Cell(t, k) = Cell(u, l) => t = u /\ k = l
BY DEF Cell, kNumFrames, kNumMfcc
-----------------------------------------------------------------------------
(* The configuration *)

LEMMA PointsIncrease == BinPoints \in BinTables /\ Increasing(BinPoints)
<1> DEFINE points == <<4, 5, 6, 7, 8, 9, 10, 11, 13, 14, 15, 17, 19, 20, 22, 24, 26, 28,
                       30, 32, 34, 37, 40, 42, 45, 48, 52, 55, 59, 62, 66, 71, 75, 80,
                       85, 90, 96, 101, 108, 114, 121, 128>>
<1>1. \A i \in 0..41 : points[i + 1] \in Bins
  BY DEF Bins, NBins, kFftSize
<1>2. \A i \in 0..40 : points[i + 1] < points[(i + 1) + 1]
  OBVIOUS
<1>3. BinPoints = [i \in 0..41 |-> points[i + 1]]
  BY DEF BinPoints, kNumMelBins
<1> HIDE DEF points
<1>4. QED
  BY <1>1, <1>2, <1>3 DEF BinTables, Increasing, kNumMelBins

\* The features a window is given to the model with are those of the Python
\* pipeline, cell by cell (Compute).
LEMMA ConfigurationAgrees == FeaturesAgree
<1> DEFINE rows == 0..(kNumFrames - 1)
           columns == 0..(kNumMfcc - 1)
<1>1. Written = Extracted
  <2> DEFINE cell(t, k, frame) == [cell |-> Cell(t, k), frame |-> frame, k |-> k,
                                   normalized |-> FALSE]
             trained(t, k) == [cell |-> Cell(t, k), frame |-> PyFrame(t), k |-> k,
                               normalized |-> TRUE]
  <2>1. \A x : x \in Written <=>
            \E t \in rows, k \in columns : x = cell(t, k, Frame(FrameStart(t)))
    BY DEF Written
  <2>2. \A y : y \in Trained <=> \E t \in rows, k \in columns : y = trained(t, k)
    BY DEF Trained, Cell
  <2>3. \A x : x \in Extracted <=> \E y \in Trained : x = [y EXCEPT !.normalized = FALSE]
    BY DEF Extracted
  <2>4. ASSUME NEW t, NEW k
        PROVE  [trained(t, k) EXCEPT !.normalized = FALSE] = cell(t, k, PyFrame(t))
    <3> DEFINE f == PyFrame(t)
               c == Cell(t, k)
               before == TRUE
               after == FALSE
    <3> HIDE DEF f, c, before, after
    <3>1. [[cell |-> c, frame |-> f, k |-> k, normalized |-> before] EXCEPT !.normalized = after]
            = [cell |-> c, frame |-> f, k |-> k, normalized |-> after]
      OBVIOUS
    <3>2. QED
      BY <3>1 DEF f, c, before, after
  <2> HIDE DEF cell, trained
  <2>5. \A x : x \in Extracted <=> \E t \in rows, k \in columns : x = cell(t, k, PyFrame(t))
    <3>1. ASSUME NEW x \in Extracted
          PROVE  \E t \in rows, k \in columns : x = cell(t, k, PyFrame(t))
      <4>1. PICK y \in Trained : x = [y EXCEPT !.normalized = FALSE]
        BY <2>3
      <4>2. PICK t \in rows, k \in columns : y = trained(t, k)
        BY <2>2
      <4>3. QED
        BY <2>4, <4>1, <4>2
    <3>2. ASSUME NEW t \in rows, NEW k \in columns
          PROVE  cell(t, k, PyFrame(t)) \in Extracted
      <4>1. trained(t, k) \in Trained
        BY <2>2
      <4>2. QED
        BY <2>3, <2>4, <4>1
    <3>3. QED
      BY <3>1, <3>2
  <2>6. \A t \in rows : Frame(FrameStart(t)) = PyFrame(t)
    BY FramesAgree
  <2> HIDE DEF rows, columns
  <2>7. \A x : x \in Written <=> x \in Extracted
    BY <2>1, <2>5, <2>6
  <2>8. QED
    BY <2>7
<1>2. {c.cell : c \in Written} = 0..(Bytes("input") - 1)
  <2>1. \A x : x \in Written <=>
            \E t \in rows, k \in columns :
                x = [cell |-> Cell(t, k), frame |-> Frame(FrameStart(t)), k |-> k,
                     normalized |-> FALSE]
    BY DEF Written
  <2>2. Bytes("input") = 650
    BY DEF Bytes, Shape
  <2>3. ASSUME NEW t \in rows, NEW k \in columns PROVE Cell(t, k) \in 0..649
    BY DEF Cell, kNumFrames, kNumMfcc
  <2>4. ASSUME NEW c \in 0..649 PROVE \E t \in rows, k \in columns : Cell(t, k) = c
    <3> DEFINE t == c \div 13
               k == c % 13
    <3>1. c \in Int /\ t \in Int /\ k \in 0..12 /\ c = 13 * t + k
      OBVIOUS
    <3> HIDE DEF t, k
    <3>2. t \in 0..49 /\ c = t * 13 + k
      BY <3>1
    <3>3. t \in rows /\ k \in columns /\ Cell(t, k) = c
      BY <3>1, <3>2 DEF Cell, kNumFrames, kNumMfcc
    <3>4. QED
      BY <3>3
  <2> HIDE DEF rows, columns
  <2>5. ASSUME NEW x \in Written PROVE x.cell \in 0..649
    BY <2>1, <2>3
  <2>6. ASSUME NEW c \in 0..649 PROVE \E x \in Written : x.cell = c
    <3>1. PICK t \in rows, k \in columns : Cell(t, k) = c
      BY <2>4
    <3> DEFINE x == [cell |-> Cell(t, k), frame |-> Frame(FrameStart(t)), k |-> k,
                     normalized |-> FALSE]
    <3>2. x \in Written /\ x.cell = c
      BY <2>1, <3>1
    <3>3. QED
      BY <3>2
  <2>7. \A v : v \in {c.cell : c \in Written} <=> v \in 0..649
    BY <2>5, <2>6
  <2>8. Bytes("input") - 1 = 649
    BY <2>2
  <2> DEFINE cells == {c.cell : c \in Written}
  <2>9. cells = 0..649
    <3>1. \A v : v \in cells <=> v \in 0..649
      BY <2>7
    <3> HIDE DEF cells
    <3>2. QED
      BY <3>1
  <2> HIDE DEF cells
  <2>10. cells = 0..(Bytes("input") - 1)
    BY <2>8, <2>9
  <2>11. QED
    BY <2>10 DEF cells
<1>3. FiltersAgree(BinPoints)
  BY PointsIncrease, FilterbanksAgree
<1>4. QED
  BY <1>1, <1>2, <1>3 DEF FeaturesAgree

\* The model fits the arena as far as the arena's size is known: Init may load
\* it, and fails for no other reason.
LEMMA ModelFits == 0 \in InitStatuses /\ Bytes("output") = kNumClasses
<1>1. Len(Operators) = 10
  BY DEF Operators
<1> DEFINE size(i) == Bytes(Operators[i][2]) + Bytes(Operators[i][3])
           sizes == {size(i) : i \in 1..Len(Operators)}
<1>2. /\ Bytes("input") = 650 /\ Bytes("conv1") = 11200
      /\ Bytes("ds1_dw") = 11200 /\ Bytes("ds1_pw") = 11200
      /\ Bytes("ds2_dw") = 11200 /\ Bytes("ds2_pw") = 11200
      /\ Bytes("ds3_dw") = 11200 /\ Bytes("ds3_pw") = 11200
      /\ Bytes("gap") = 64 /\ Bytes("logits") = 4 /\ Bytes("output") = 4
  BY DEF Bytes, Shape
<1>3. /\ size(1) = 11850 /\ size(2) = 22400 /\ size(3) = 22400 /\ size(4) = 22400
      /\ size(5) = 22400 /\ size(6) = 22400 /\ size(7) = 22400 /\ size(8) = 11264
      /\ size(9) = 68 /\ size(10) = 8
  BY <1>2 DEF Operators
<1>4. \A i \in 1..10 : Known(i)
  BY DEF Known, Operators, Registered
<1>5. ActivationBytes = Max(sizes)
  BY DEF ActivationBytes
<1> HIDE DEF size
<1>6. 22400 \in sizes /\ \A x \in sizes : x \in Nat /\ x <= 22400
  <2>1. 2 \in 1..10
    OBVIOUS
  <2>2. \A i \in 1..10 : size(i) \in Nat /\ size(i) <= 22400
    BY <1>3
  <2>3. QED
    BY <1>1, <1>3, <2>1, <2>2
<1> HIDE DEF sizes
<1>7. Max(sizes) \in sizes
  BY <1>6 DEF Max
<1>8. ~(ActivationBytes > kTensorArenaBytes)
  BY <1>5, <1>6, <1>7 DEF kTensorArenaBytes
<1>9. 0 \in InitStatuses
  BY <1>1, <1>4, <1>8 DEF InitStatuses, ModelLength, ModelVersion, SupportedVersion
<1>10. QED
  BY <1>2, <1>9 DEF kNumClasses
-----------------------------------------------------------------------------
(* Every boot *)

BootNames == {BootSteps[i] : i \in 1..Len(BootSteps)}
KwsNames == {"init", "dead", "window", "compute", "run"}
                \cup {SizePlaces[i] : i \in 1..Len(SizePlaces)}

\* Audio is captured in whole frames, by a driver that was started.
FramesCaptured == /\ \E n \in 0..MaxFrames : captured = n * kFrameSizeSamples
                  /\ capture = "init" => captured = 0

DeviceInv == TypeOK /\ FramesCaptured

LEMMA Names ==
    /\ BootNames = {"queue", "nvs", "netif", "eventLoop", "wifiSta", "wifiInit", "mode",
                    "config", "start", "connect", "audio_capture_task", "kws_task",
                    "streaming_task", "metrics_task", "done"}
    /\ KwsNames = {"init", "dead", "window", "compute", "run",
                   "sizes1", "sizes2", "sizes3", "sizes4", "sizes5", "poll"}
<1>1. Len(BootSteps) = 15 /\ Len(SizePlaces) = 6
  BY DEF BootSteps, SizePlaces
<1>2. 1..15 = {1, 2, 3, 4, 5, 6, 7, 8, 9, 10, 11, 12, 13, 14, 15} /\ 1..6 = {1, 2, 3, 4, 5, 6}
  OBVIOUS
<1>3. BootNames = {BootSteps[i] : i \in {1, 2, 3, 4, 5, 6, 7, 8, 9, 10, 11, 12, 13, 14, 15}}
  BY <1>1, <1>2 DEF BootNames
<1>4. {SizePlaces[i] : i \in 1..Len(SizePlaces)} = {SizePlaces[i] : i \in {1, 2, 3, 4, 5, 6}}
  BY <1>1, <1>2
<1>5. QED
  BY <1>3, <1>4 DEF BootSteps, SizePlaces, KwsNames

\* The call after one of app_main is one of app_main.
LEMMA AfterIsNext == ASSUME NEW step \in BootNames, step # "done"
                     PROVE  After(step) \in BootNames
<1> DEFINE n == Len(BootSteps)
           i == CHOOSE j \in 1..n : BootSteps[j] = step
<1>1. n \in Nat /\ BootSteps[n] = "done"
  BY DEF BootSteps
<1>2. \E j \in 1..n : BootSteps[j] = step
  BY DEF BootNames
<1>3. i \in 1..n /\ BootSteps[i] = step
  BY <1>2
<1>4. After(step) = BootSteps[1 + i]
  BY DEF After
<1> HIDE DEF n, i
<1>5. i # n
  BY <1>1, <1>3
<1>6. 1 + i \in 1..n
  BY <1>1, <1>3, <1>5
<1>7. QED
  BY <1>4, <1>6 DEF BootNames, n

\* The words that are stored stay numbers.
LEMMA MetricsWords == /\ Unset \in [FieldNames -> Nat] /\ Len(Fields) = 9
                      /\ \A i \in 1..9 : Fields[i] \in FieldNames
                      /\ Len(StaticSizes) = 5
                      /\ \A i \in 1..5 : StaticSizes[i][2] \in Nat
<1>1. Len(Fields) = 9
  BY DEF Fields
<1>2. Unset \in [FieldNames -> Nat] /\ \A i \in 1..9 : Fields[i] \in FieldNames
  BY <1>1 DEF Unset, FieldNames
<1>3. Len(StaticSizes) = 5 /\ \A i \in 1..5 : StaticSizes[i][2] \in Nat
  BY DEF StaticSizes, kTensorArenaBytes, kRingBufferSamples, kNumFrames, kNumMelBins
<1>4. QED
  BY <1>1, <1>2, <1>3

\* The parts of the type invariant, by who changes them.
BootTypes == /\ boot \in BootNames \cup {"erase", "returned"}
             /\ flash \in FlashStates /\ faults \in 0..MaxFaults
TaskTypes == /\ tasks \subseteq TaskNames
             /\ captured \in 0..(MaxFrames * kFrameSizeSamples)
             /\ capture \in {"init", "running"}
             /\ kws \in KwsNames /\ window \in 0..MaxWindows
MetricsTypes == /\ copied \in 0..9
                /\ metrics \in [FieldNames -> Nat] /\ snapshot \in [FieldNames -> Nat]
                /\ logged \in [FieldNames -> Nat]

LEMMA TypeParts == /\ TypeOK <=> BootTypes /\ TaskTypes /\ MetricsTypes
                   /\ TypeOK' <=> BootTypes' /\ TaskTypes' /\ MetricsTypes'
<1>1. TypeOK <=> BootTypes /\ TaskTypes /\ MetricsTypes
  BY MetricsWords DEF TypeOK, BootTypes, TaskTypes, MetricsTypes, BootNames, KwsNames
<1>2. TypeOK' <=> BootTypes' /\ TaskTypes' /\ MetricsTypes'
  BY MetricsWords DEF TypeOK, BootTypes, TaskTypes, MetricsTypes, BootNames, KwsNames
<1>3. QED
  BY <1>1, <1>2

LEMMA ResetInv == ASSUME Reset, flash' \in FlashStates, faults' \in 0..MaxFaults
                  PROVE  DeviceInv'
<1>2. /\ boot' = "queue" /\ tasks' = {} /\ captured' = 0 /\ capture' = "init"
      /\ kws' = "init" /\ window' = 0
      /\ metrics' = Unset /\ snapshot' = Unset /\ copied' = 0 /\ logged' = Unset
  BY DEF Reset
<1>3. MaxFrames \in Nat /\ MaxWindows \in Nat
  BY DeviceAssumption
<1>4. boot' \in BootNames /\ kws' \in KwsNames
  BY <1>2, Names
<1>5. FramesCaptured'
  BY <1>2, <1>3 DEF FramesCaptured, kFrameSizeSamples
<1>6. captured' \in 0..(MaxFrames * kFrameSizeSamples)
  BY <1>2, <1>3 DEF kFrameSizeSamples
<1>7. BootTypes'
  BY <1>2, <1>4 DEF BootTypes
<1>8. TaskTypes'
  BY <1>2, <1>3, <1>4, <1>6 DEF TaskTypes
<1>9. MetricsTypes'
  BY <1>2, MetricsWords DEF MetricsTypes
<1>10. QED
  BY <1>5, <1>7, <1>8, <1>9, TypeParts DEF DeviceInv

LEMMA DeviceInit == Init => DeviceInv
<1> SUFFICES ASSUME Init PROVE DeviceInv
  OBVIOUS
<1>1. /\ boot = "queue" /\ faults = 0 /\ flash \in FlashStates
      /\ tasks = {} /\ captured = 0 /\ capture = "init" /\ kws = "init" /\ window = 0
      /\ metrics = Unset /\ snapshot = Unset /\ copied = 0 /\ logged = Unset
  BY DEF Init, PowerOn, MetricsInit
<1>2. MaxFrames \in Nat /\ MaxWindows \in Nat /\ MaxFaults \in Nat
  BY DeviceAssumption
<1>3. boot \in BootNames /\ kws \in KwsNames
  BY <1>1, Names
<1>4. FramesCaptured
  BY <1>1, <1>2 DEF FramesCaptured, kFrameSizeSamples
<1>5. captured \in 0..(MaxFrames * kFrameSizeSamples)
  BY <1>1, <1>2 DEF kFrameSizeSamples
<1>6. BootTypes
  BY <1>1, <1>2, <1>3 DEF BootTypes
<1>7. TaskTypes
  BY <1>1, <1>2, <1>3, <1>5 DEF TaskTypes
<1>8. MetricsTypes
  BY <1>1, MetricsWords DEF MetricsTypes
<1>9. QED
  BY <1>4, <1>6, <1>7, <1>8, TypeParts DEF DeviceInv

LEMMA DeviceStep == DeviceInv /\ [Next]_vars => DeviceInv'
<1> SUFFICES ASSUME DeviceInv, [Next]_vars PROVE DeviceInv'
  OBVIOUS
<1>1. BootTypes /\ TaskTypes /\ MetricsTypes /\ FramesCaptured
  BY TypeParts DEF DeviceInv
<1>2. SUFFICES \/ BootTypes' /\ TaskTypes' /\ MetricsTypes' /\ FramesCaptured'
               \/ DeviceInv'
  BY TypeParts DEF DeviceInv
<1>3. MaxFrames \in Nat /\ MaxWindows \in Nat /\ MaxFaults \in Nat
  BY DeviceAssumption
<1>4. ASSUME Fault PROVE faults' \in 0..MaxFaults
  BY <1>1, <1>3, <1>4 DEF Fault, BootTypes
<1>5. ASSUME UNCHANGED metricsVars PROVE MetricsTypes'
  BY <1>1, <1>5 DEF metricsVars, MetricsTypes
<1>6. ASSUME UNCHANGED bootVars PROVE BootTypes'
  BY <1>1, <1>6 DEF bootVars, BootTypes
<1>7. ASSUME UNCHANGED <<captured, capture>> PROVE FramesCaptured'
  BY <1>1, <1>7 DEF FramesCaptured
<1>8. CASE CreateQueue \/ InitNvs \/ EraseNvs \/ WifiStep
  <2>1. UNCHANGED taskVars /\ UNCHANGED metricsVars
    BY <1>8 DEF CreateQueue, InitNvs, EraseNvs, WifiStep
  <2>2. TaskTypes' /\ MetricsTypes' /\ FramesCaptured'
    BY <1>1, <1>5, <1>7, <2>1 DEF taskVars, TaskTypes
  <2>3. BootTypes'
    <3>1. CASE CreateQueue
      BY <1>1, <1>4, <3>1, Names DEF CreateQueue, BootTypes
    <3>2. CASE InitNvs
      <4>1. After("nvs") \in BootNames
        BY Names, AfterIsNext
      <4>2. QED
        BY <1>1, <3>2, <4>1 DEF InitNvs, BootTypes
    <3>3. CASE EraseNvs
      <4>1. After("nvs") \in BootNames
        BY Names, AfterIsNext
      <4>2. QED
        BY <1>1, <3>3, <4>1 DEF EraseNvs, BootTypes, FlashStates
    <3>4. CASE WifiStep
      <4>1. boot \in BootNames /\ boot # "done"
        BY <3>4, Names DEF WifiStep
      <4>2. QED
        BY <1>1, <3>4, <4>1, AfterIsNext DEF WifiStep, BootTypes
    <3>5. QED
      BY <1>8, <3>1, <3>2, <3>3, <3>4
  <2>4. QED
    BY <2>2, <2>3
<1>9. CASE CreateTask
  <2>1. boot \in TaskNames /\ boot' = After(boot) /\ UNCHANGED flash
        /\ UNCHANGED <<captured, capture, kws, window>> /\ UNCHANGED metricsVars
        /\ \/ tasks' = tasks \cup {boot} /\ UNCHANGED faults
           \/ Fault /\ UNCHANGED tasks
    BY <1>9 DEF CreateTask
  <2>2. boot \in BootNames /\ boot # "done"
    BY <2>1, Names DEF TaskNames
  <2>3. BootTypes'
    BY <1>1, <1>4, <2>1, <2>2, AfterIsNext DEF BootTypes
  <2>4. TaskTypes'
    BY <1>1, <2>1 DEF TaskTypes
  <2>5. QED
    BY <1>5, <1>7, <2>1, <2>3, <2>4
<1>10. CASE Crash
  <2>1. Reset /\ flash' \in FlashStates /\ faults' \in 0..MaxFaults
    BY <1>1, <1>4, <1>10 DEF Crash, BootTypes
  <2>2. QED
    BY <2>1, ResetInv
<1>11. CASE StartCapture
  <2>1. capture' = "running" /\ captured' = 0 /\ UNCHANGED <<tasks, kws, window>>
        /\ UNCHANGED bootVars /\ UNCHANGED metricsVars
    BY <1>11 DEF StartCapture
  <2>2. FramesCaptured'
    BY <1>3, <2>1 DEF FramesCaptured, kFrameSizeSamples
  <2>3. TaskTypes'
    BY <1>1, <1>3, <2>1 DEF TaskTypes, kFrameSizeSamples
  <2>4. QED
    BY <1>5, <1>6, <2>1, <2>2, <2>3
<1>12. CASE CaptureFrame
  <2>1. /\ capture = "running" /\ captured < MaxFrames * kFrameSizeSamples
        /\ captured' = captured + kFrameSizeSamples
        /\ UNCHANGED <<tasks, capture, kws, window, snapshot, copied, logged>>
        /\ UNCHANGED bootVars /\ RecordLoopPeriod
    BY <1>12 DEF CaptureFrame
  <2>2. PICK n \in 0..MaxFrames : captured = n * kFrameSizeSamples
    BY <1>1 DEF FramesCaptured
  <2>3. n + 1 \in 0..MaxFrames /\ captured' = (n + 1) * kFrameSizeSamples
    BY <1>3, <2>1, <2>2 DEF kFrameSizeSamples
  <2>4. FramesCaptured'
    BY <2>1, <2>3 DEF FramesCaptured
  <2>5. captured' \in 0..(MaxFrames * kFrameSizeSamples)
    BY <1>3, <2>3 DEF kFrameSizeSamples
  <2>6. MetricsTypes'
    BY <1>1, <2>1 DEF RecordLoopPeriod, MetricsTypes
  <2>7. TaskTypes'
    BY <1>1, <2>1, <2>5 DEF TaskTypes
  <2>8. QED
    BY <1>6, <2>1, <2>4, <2>6, <2>7
<1>13. CASE InitKws \/ PollState \/ GetWindow
  <2>1. /\ UNCHANGED <<tasks, captured, capture>> /\ UNCHANGED bootVars
        /\ UNCHANGED metricsVars
    BY <1>13 DEF InitKws, PollState, GetWindow
  <2>2. kws' \in KwsNames /\ window' \in 0..MaxWindows
    BY <1>1, <1>3, <1>13, Names DEF InitKws, PollState, GetWindow, TaskTypes
  <2>3. TaskTypes'
    BY <1>1, <2>1, <2>2 DEF TaskTypes
  <2>4. QED
    BY <1>5, <1>6, <1>7, <2>1, <2>3
<1>14. CASE SetStaticSizes
  <2>1. PICK i \in 1..Len(StaticSizes) :
            /\ kws = SizePlaces[i] /\ StoreSize(i) /\ kws' = SizePlaces[i + 1]
            /\ UNCHANGED <<tasks, captured, capture, window, snapshot, copied, logged>>
            /\ UNCHANGED bootVars
    BY <1>14 DEF SetStaticSizes
  <2>2. i \in 1..5 /\ StaticSizes[i][2] \in Nat
    BY <2>1, MetricsWords
  <2>3. kws' \in KwsNames
    <3>1. i + 1 \in 1..6 /\ Len(SizePlaces) = 6
      BY <2>2 DEF SizePlaces
    <3>2. QED
      BY <2>1, <3>1 DEF KwsNames
  <2>4. MetricsTypes'
    BY <1>1, <2>1, <2>2 DEF StoreSize, MetricsTypes
  <2>5. TaskTypes'
    BY <1>1, <2>1, <2>3 DEF TaskTypes
  <2>6. QED
    BY <1>6, <1>7, <2>1, <2>4, <2>5
<1>15. CASE Compute \/ Run
  <2>1. /\ UNCHANGED <<tasks, captured, capture, window, snapshot, copied, logged>>
        /\ UNCHANGED bootVars /\ kws' \in {"run", "poll"}
        /\ RecordFeatureExtractionDuration(window) \/ RecordKwsInferenceDuration(window)
    BY <1>15 DEF Compute, Run
  <2>2. MetricsTypes'
    BY <1>1, <1>3, <2>1
       DEF RecordFeatureExtractionDuration, RecordKwsInferenceDuration, MetricsTypes, TaskTypes
  <2>3. TaskTypes'
    BY <1>1, <2>1, Names DEF TaskTypes
  <2>4. QED
    BY <1>6, <1>7, <2>1, <2>2, <2>3
<1>16. CASE MetricsTask
  <2>1. UNCHANGED bootVars /\ UNCHANGED taskVars /\ (CopyField \/ LogSnapshot)
    BY <1>16 DEF MetricsTask
  <2>2. MetricsTypes'
    <3>1. CASE CopyField
      <4>1. /\ copied < 9 /\ copied' = copied + 1 /\ UNCHANGED <<metrics, logged>>
            /\ snapshot' = [snapshot EXCEPT ![Fields[copied + 1]] = metrics[Fields[copied + 1]]]
        BY <3>1, MetricsWords DEF CopyField
      <4>2. copied + 1 \in 1..9
        BY <1>1, <4>1 DEF MetricsTypes
      <4>3. Fields[copied + 1] \in FieldNames
        BY <4>2, MetricsWords
      <4>4. QED
        BY <1>1, <4>1, <4>2, <4>3 DEF MetricsTypes
    <3>2. CASE LogSnapshot
      BY <1>1, <3>2, MetricsWords DEF LogSnapshot, MetricsTypes
    <3>3. QED
      BY <2>1, <3>1, <3>2
  <2>3. TaskTypes' /\ FramesCaptured'
    BY <1>1, <1>7, <2>1 DEF taskVars, TaskTypes
  <2>4. QED
    BY <1>6, <2>1, <2>2, <2>3
<1>17. CASE UNCHANGED vars
  <2>1. UNCHANGED bootVars /\ UNCHANGED taskVars /\ UNCHANGED metricsVars
    BY <1>17 DEF vars
  <2>2. TaskTypes' /\ FramesCaptured'
    BY <1>1, <1>7, <2>1 DEF taskVars, TaskTypes
  <2>3. QED
    BY <1>5, <1>6, <2>1, <2>2
<1>18. QED
  BY <1>8, <1>9, <1>10, <1>11, <1>12, <1>13, <1>14, <1>15, <1>16, <1>17
     DEF Next, BootStep, KwsStep

LEMMA DeviceInvariant == Spec => []DeviceInv
  BY DeviceInit, DeviceStep, PTL DEF Spec

\* The types of every variable, in every boot.
THEOREM DeviceTypes == Spec => []TypeOK
<1>1. DeviceInv => TypeOK
  BY DEF DeviceInv
<1>2. QED
  BY <1>1, DeviceInvariant, PTL

\* Whatever was captured, the model is given the features it was trained with,
\* up to scale and normalization (FeatureExtractor::Compute).
THEOREM FeaturesCorrect == Spec => []FeaturesAsExtracted
<1>1. FeaturesAsExtracted
  BY ConfigurationAgrees DEF FeaturesAsExtracted
<1>2. QED
  BY <1>1, PTL

\* The embedded model is one that the code around it can load (KwsInference::Init).
THEOREM ModelLoads == Spec => []LoadsUnlessArenaTooSmall
<1>1. LoadsUnlessArenaTooSmall
  BY ModelFits DEF LoadsUnlessArenaTooSmall
<1>2. QED
  BY <1>1, PTL
-----------------------------------------------------------------------------
(* The device implements Firmware *)

\* What Firmware sees of the device: where KwsTask is, and the ring buffer's
\* level in frames.
View(place) == CASE place \in {"compute", "run"} -> "infer"
                 [] place \in {SizePlaces[i] : i \in 1..Len(SizePlaces)} -> "poll"
                 [] OTHER -> place
KwsView == View(kws)

Capped(samples) == IF samples < kRingBufferSamples THEN samples ELSE kRingBufferSamples
Level(samples) == InFrames(Capped(samples))
Held == Level(captured)

\* A ring buffer of 32000 samples is full after 67 frames of 480; a window of
\* 16192 takes 34 of them.
LEMMA Levels ==
    ASSUME NEW n \in Nat
    PROVE  /\ Level(n * kFrameSizeSamples) = F!Least(n, InFrames(kRingBufferSamples))
           /\ n * kFrameSizeSamples >= RequiredSamples
                => Level(n * kFrameSizeSamples) >= InFrames(RequiredSamples)
<1> DEFINE samples == n * kFrameSizeSamples
<1>1. InFrames(kRingBufferSamples) = 67 /\ InFrames(RequiredSamples) = 34
  BY DEF InFrames, kRingBufferSamples, kFrameSizeSamples, RequiredSamples, kNumFrames,
         kWindowLengthSamples, kHopLengthSamples
<1>2. samples = n * 480 /\ (samples >= RequiredSamples => n * 480 >= 16192)
  BY DEF kFrameSizeSamples, RequiredSamples, kNumFrames, kWindowLengthSamples,
         kHopLengthSamples
<1> HIDE DEF samples
<1>3. CASE n <= 66
  <2>1. Capped(samples) = n * 480
    BY <1>2, <1>3 DEF Capped, kRingBufferSamples
  <2>2. Level(samples) = (n * 480 + 479) \div 480
    BY <2>1 DEF Level, InFrames, kFrameSizeSamples
  <2>3. Level(samples) = n
    BY <2>2
  <2>4. QED
    BY <1>1, <1>2, <1>3, <2>3 DEF F!Least, samples
<1>4. CASE n >= 67
  <2>1. Capped(samples) = 32000
    BY <1>2, <1>4 DEF Capped, kRingBufferSamples
  <2>2. Level(samples) = 67
    BY <1>1, <2>1 DEF Level, kRingBufferSamples
  <2>3. QED
    BY <1>1, <1>4, <2>2 DEF F!Least, samples
<1>5. QED
  BY <1>3, <1>4

\* The configuration is one that Firmware is for: a pre-roll is within a window,
\* and a window within the ring buffer.
LEMMA ConfigurationAllowed ==
    /\ kConsecutivePositiveWindows \in Int /\ CooldownArgument \in Int
    /\ InFrames(kRingBufferSamples) \in Nat /\ InFrames(RequiredSamples) \in Nat
    /\ InFrames(kPreRollSamples) \in Nat \ {0} /\ MaxExtraFrames \in Nat
    /\ InFrames(kPreRollSamples) <= InFrames(RequiredSamples)
    /\ InFrames(RequiredSamples) <= InFrames(kRingBufferSamples)
BY DEF kConsecutivePositiveWindows, CooldownArgument, kCooldownMs, kHopLengthSamples,
       kSampleRateHz, InFrames, kRingBufferSamples, RequiredSamples, kNumFrames,
       kWindowLengthSamples, kPreRollSamples, kFrameSizeSamples, MaxExtraFrames,
       kMaxStreamDurationMs, kFrameDurationMs

LEMMA EmptyLevel == Level(0) = 0
  BY DEF Level, Capped, InFrames, kRingBufferSamples, kFrameSizeSamples

LEMMA Views ==
    /\ View("compute") = "infer" /\ View("run") = "infer"
    /\ \A place \in {"sizes1", "sizes2", "sizes3", "sizes4", "sizes5", "poll"} :
            View(place) = "poll"
    /\ \A place \in {"init", "dead", "window"} : View(place) = place
<1>1. {SizePlaces[i] : i \in 1..Len(SizePlaces)}
        = {"sizes1", "sizes2", "sizes3", "sizes4", "sizes5", "poll"}
  <2>1. Len(SizePlaces) = 6 /\ 1..6 = {1, 2, 3, 4, 5, 6}
    BY DEF SizePlaces
  <2>2. {SizePlaces[i] : i \in 1..Len(SizePlaces)} = {SizePlaces[i] : i \in {1, 2, 3, 4, 5, 6}}
    BY <2>1
  <2>3. QED
    BY <2>2 DEF SizePlaces
<1>2. QED
  BY <1>1 DEF View

\* The steps of the device that Firmware has, in its own words.
LEMMA FirmwareSteps ==
    /\ capture = "init" /\ capture' = "running" /\ UNCHANGED <<Held, KwsView>>
         => F!CaptureInit
    /\ capture = "running" /\ Held' = F!Least(Held + 1, InFrames(kRingBufferSamples))
         /\ UNCHANGED <<capture, KwsView>> => F!CaptureFrame
    /\ KwsView = "init" /\ KwsView' \in {"poll", "dead"} /\ UNCHANGED <<capture, Held>>
         => F!KwsInit
    /\ KwsView = "poll" /\ KwsView' = "window" /\ UNCHANGED <<capture, Held>> => F!KwsPoll
    /\ KwsView = "window" /\ UNCHANGED <<capture, Held>>
         /\ \/ Held >= InFrames(RequiredSamples) /\ KwsView' = "infer"
            \/ KwsView' = "poll"
         => F!KwsGetWindow
    /\ KwsView = "infer" /\ KwsView' = "poll" /\ UNCHANGED <<capture, Held>> => F!KwsInfer
    /\ UNCHANGED <<capture, Held, KwsView>> => UNCHANGED F!vars
    /\ capture = "init" /\ Held = 0 /\ KwsView = "init" => F!Init
    /\ capture' = "init" /\ Held' = 0 /\ KwsView' = "init" => F!Init'
BY DEF F!CaptureInit, F!CaptureFrame, F!KwsInit, F!KwsPoll, F!KwsGetWindow, F!KwsInfer,
       F!vars, F!triggerVars, F!captureVars, F!sessionVars, F!Init, F!TriggerInit,
       Held, Level, Capped, kept, KwsView, View

\* A boot starts as Firmware starts.
LEMMA BootIsInit == /\ Init => F!Init
                    /\ Reset => boot' = "queue" /\ F!Init'
<1>1. ASSUME captured = 0 PROVE Held = 0
  BY <1>1, EmptyLevel DEF Held
<1>2. ASSUME captured' = 0 PROVE Held' = 0
  BY <1>2, EmptyLevel DEF Held
<1>3. Init => capture = "init" /\ kws = "init" /\ captured = 0
  BY DEF Init, PowerOn
<1>4. Reset => boot' = "queue" /\ capture' = "init" /\ kws' = "init" /\ captured' = 0
  BY DEF Reset
<1>5. Init => F!Init
  BY <1>1, <1>3, Views, FirmwareSteps DEF KwsView
<1>6. kws' = "init" => KwsView' = "init"
  BY Views DEF KwsView
<1>7. Reset => F!Init'
  BY <1>2, <1>4, <1>6, FirmwareSteps
<1>8. QED
  BY <1>4, <1>5, <1>7

LEMMA StepSimulated ==
    ASSUME DeviceInv, [Next]_vars
    PROVE  [F!Next]_(F!vars) \/ (boot' = "queue" /\ F!Init')
<1>1. FramesCaptured /\ kws \in KwsNames
  BY DEF DeviceInv, TypeOK, KwsNames
<1>2. ASSUME UNCHANGED captured PROVE UNCHANGED Held
  BY <1>2 DEF Held
<1>3. ASSUME UNCHANGED kws PROVE UNCHANGED KwsView
  BY <1>3 DEF KwsView
<1>4. ASSUME UNCHANGED <<captured, capture, kws>> PROVE UNCHANGED F!vars
  BY <1>2, <1>3, <1>4, FirmwareSteps
<1>5. CASE CreateQueue \/ InitNvs \/ EraseNvs \/ WifiStep \/ CreateTask \/ MetricsTask
           \/ UNCHANGED vars
  <2>1. UNCHANGED <<captured, capture, kws>>
    BY <1>5 DEF CreateQueue, InitNvs, EraseNvs, WifiStep, CreateTask, MetricsTask,
                vars, taskVars
  <2>2. QED
    BY <1>4, <2>1
<1>6. CASE Crash
  BY <1>6, BootIsInit DEF Crash
<1>7. CASE StartCapture
  <2>1. capture = "init" /\ capture' = "running" /\ UNCHANGED <<captured, kws>>
    BY <1>1, <1>7 DEF StartCapture, FramesCaptured
  <2>2. F!CaptureInit
    BY <1>2, <1>3, <2>1, FirmwareSteps
  <2>3. QED
    BY <2>2 DEF F!Next
<1>8. CASE CaptureFrame
  <2>1. capture = "running" /\ captured' = captured + kFrameSizeSamples
        /\ UNCHANGED <<capture, kws>>
    BY <1>8 DEF CaptureFrame
  <2>2. PICK n \in Nat : captured = n * kFrameSizeSamples
    BY <1>1, DeviceAssumption DEF FramesCaptured
  <2>3. n + 1 \in Nat /\ captured' = (n + 1) * kFrameSizeSamples
    BY <2>1, <2>2 DEF kFrameSizeSamples
  <2>4. Held = F!Least(n, InFrames(kRingBufferSamples))
    BY <2>2, Levels DEF Held
  <2>5. Held' = F!Least(n + 1, InFrames(kRingBufferSamples))
    BY <2>3, Levels DEF Held
  <2>6. Held' = F!Least(Held + 1, InFrames(kRingBufferSamples))
    <3>1. InFrames(kRingBufferSamples) \in Int
      BY DEF InFrames, kRingBufferSamples, kFrameSizeSamples
    <3>2. QED
      BY <2>2, <2>4, <2>5, <3>1 DEF F!Least
  <2>7. F!CaptureFrame
    BY <1>3, <2>1, <2>6, FirmwareSteps
  <2>8. QED
    BY <2>7 DEF F!Next
<1>9. CASE InitKws
  <2>1. kws = "init" /\ kws' \in {"sizes1", "dead"} /\ UNCHANGED <<captured, capture>>
    BY <1>9 DEF InitKws
  <2>2. KwsView = "init" /\ KwsView' \in {"poll", "dead"}
    BY <2>1, Views DEF KwsView
  <2>3. F!KwsInit
    BY <1>2, <2>1, <2>2, FirmwareSteps
  <2>4. QED
    BY <2>3 DEF F!Next, F!KwsStep
<1>10. CASE SetStaticSizes
  <2>1. PICK i \in 1..Len(StaticSizes) : kws = SizePlaces[i] /\ kws' = SizePlaces[i + 1]
    BY <1>10 DEF SetStaticSizes
  <2>2. UNCHANGED <<captured, capture>>
    BY <1>10 DEF SetStaticSizes
  <2>3. i \in 1..5
    BY <2>1, MetricsWords
  <2>4. /\ kws \in {"sizes1", "sizes2", "sizes3", "sizes4", "sizes5", "poll"}
        /\ kws' \in {"sizes1", "sizes2", "sizes3", "sizes4", "sizes5", "poll"}
    BY <2>1, <2>3 DEF SizePlaces
  <2>5. UNCHANGED KwsView
    BY <2>4, Views DEF KwsView
  <2>6. UNCHANGED F!vars
    BY <1>2, <2>2, <2>5, FirmwareSteps
  <2>7. QED
    BY <2>6
<1>11. CASE PollState
  <2>1. kws = "poll" /\ kws' = "window" /\ UNCHANGED <<captured, capture>>
    BY <1>11 DEF PollState
  <2>2. F!KwsPoll
    BY <1>2, <2>1, Views, FirmwareSteps DEF KwsView
  <2>3. QED
    BY <2>2 DEF F!Next, F!KwsStep
<1>12. CASE GetWindow
  <2>1. /\ kws = "window" /\ UNCHANGED <<captured, capture>>
        /\ \/ captured >= RequiredSamples /\ kws' = "compute"
           \/ kws' = "poll"
    BY <1>12 DEF GetWindow
  <2>2. captured >= RequiredSamples => Held >= InFrames(RequiredSamples)
    BY <1>1, Levels, DeviceAssumption DEF FramesCaptured, Held
  <2>3. F!KwsGetWindow
    BY <1>2, <2>1, <2>2, Views, FirmwareSteps DEF KwsView
  <2>4. QED
    BY <2>3 DEF F!Next, F!KwsStep
<1>13. CASE Compute
  <2>1. kws = "compute" /\ kws' = "run" /\ UNCHANGED <<captured, capture>>
    BY <1>13 DEF Compute
  <2>2. UNCHANGED KwsView
    BY <2>1, Views DEF KwsView
  <2>3. UNCHANGED F!vars
    BY <1>2, <2>1, <2>2, FirmwareSteps
  <2>4. QED
    BY <2>3
<1>14. CASE Run
  <2>1. kws = "run" /\ kws' = "poll" /\ UNCHANGED <<captured, capture>>
    BY <1>14 DEF Run
  <2>2. F!KwsInfer
    BY <1>2, <2>1, Views, FirmwareSteps DEF KwsView
  <2>3. QED
    BY <2>2 DEF F!Next, F!KwsStep
<1>15. QED
  BY <1>5, <1>6, <1>7, <1>8, <1>9, <1>10, <1>11, <1>12, <1>13, <1>14
     DEF Next, BootStep, KwsStep

\* From each boot on, what the device does is what Firmware lets it do: each of
\* its steps is one of Firmware's, or one that Firmware does not see, or a reset
\* that starts Firmware over.
THEOREM DeviceImplementsFirmware == Spec => ImplementsFirmware
<1>1. Init => F!Init
  BY BootIsInit
<1>2. DeviceInv /\ [Next]_vars
        => [[F!Next]_(F!vars) \/ (boot' = "queue" /\ F!Init')]_vars
  BY StepSimulated
<1>3. QED
  BY <1>1, <1>2, DeviceInvariant, PTL DEF Spec, ImplementsFirmware
=============================================================================
