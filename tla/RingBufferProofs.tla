-------------------------- MODULE RingBufferProofs ---------------------------
(***************************************************************************)
(* The ring buffer implements the bounded FIFO, for every capacity, every  *)
(* number of readers and pushes of every size: first that the positions    *)
(* and the copies a task has made stay what RingInv says of them, then the *)
(* refinement of AudioFifo, and from that the order of capture.            *)
(***************************************************************************)
EXTENDS RingBuffer, SequenceTheorems, TLAPS

\* A position that went past the end once.
Wrap(a) == IF a < Capacity THEN a ELSE a - Capacity

\* What the remainder is of the sums the code computes.
LEMMA ModIsWrap == ASSUME NEW a \in 0..(2 * Capacity - 1)
                   PROVE  Mod(a) = Wrap(a) /\ Wrap(a) \in Indices
<1>1. Capacity \in Nat \ {0}
  BY RingAssumption
<1>2. CASE a < Capacity
  BY <1>1, <1>2 DEF Mod, Wrap, Indices
<1>3. CASE a >= Capacity
  BY <1>1, <1>3 DEF Mod, Wrap, Indices
<1>4. QED
  BY <1>1, <1>2, <1>3

\* How far a position and a number of samples reach.
LEMMA SumOfPositions == ASSUME NEW a \in Indices, NEW b \in 0..Capacity
                        PROVE  a + b \in 0..(2 * Capacity - 1)
BY RingAssumption DEF Indices

Numbers == 0..MaxSamples
Inside == {"first", "second", "give"}

RingTypes ==
    /\ storage \in [Indices -> Numbers] /\ before \in [Indices -> Numbers]
    /\ writePos \in Indices /\ readPos \in Indices /\ filled \in 0..Capacity
    /\ mutex \in Tasks \cup {Free}
    /\ step \in [Tasks -> Inside \cup {"idle", "returned"}]
    /\ samples \in [Tasks -> Seq(Numbers)]
    /\ request \in [Readers -> [takes : BOOLEAN, start : Indices, count : Nat]]
    /\ captured \in Numbers

\* A task is inside an operation exactly while it holds the mutex.
Locked == /\ \A t \in Tasks : step[t] \in Inside <=> mutex = t
          /\ step[Writer] # "returned"

\* How far behind the write position an index is.
Offset(k) == IF k >= writePos THEN k - writePos ELSE k - writePos + Capacity

\* What a push has written so far, and what it has left.
PushInv ==
    mutex = Writer =>
        /\ \E k \in Numbers, n \in PushSizes : /\ samples[Writer] = Frame(k, n)
                                               /\ captured = k + n
        /\ Len(samples[Writer]) \in 1..Capacity
        /\ step[Writer] = "first" => storage = before
        /\ step[Writer] = "second" =>
              /\ Capacity - writePos < Len(samples[Writer])
              /\ \A k \in Indices :
                    storage[k] = IF k >= writePos THEN samples[Writer][k - writePos + 1]
                                                  ELSE before[k]
        /\ step[Writer] = "give" =>
              \A k \in Indices :
                  storage[k] = IF Offset(k) < Len(samples[Writer])
                               THEN samples[Writer][Offset(k) + 1] ELSE before[k]

\* What a read is about to copy, and what it has copied so far.
ReadInv ==
    \A r \in Readers :
        mutex = r =>
            /\ request[r].count \in 1..filled
            /\ \E n \in Counts : request[r].count = Least(n, filled)
            /\ request[r].start = IF request[r].takes THEN readPos
                                  ELSE Wrap(writePos + Capacity - request[r].count)
            /\ step[r] = "second" =>
                  /\ FirstCount(request[r]) < request[r].count
                  /\ Len(samples[r]) = FirstCount(request[r])
                  /\ \A i \in 1..FirstCount(request[r]) :
                        samples[r][i] = storage[request[r].start + i - 1]
            /\ step[r] = "give" =>
                  /\ Len(samples[r]) = request[r].count
                  /\ \A i \in 1..request[r].count :
                        samples[r][i] = storage[Wrap(request[r].start + i - 1)]

RingInv == RingTypes /\ Locked /\ PositionsAgree /\ PushInv /\ ReadInv

LEMMA Constants == /\ Capacity \in Nat \ {0} /\ MaxSamples \in Nat
                   /\ PushSizes \subseteq Nat \ {0} /\ Counts \subseteq Nat \ {0}
                   /\ Writer \notin Readers /\ Free \notin Readers /\ Writer # Free
                   /\ Tasks = Readers \cup {Writer}
BY RingAssumption, TaskAssumption DEF Writer, Free, Tasks

\* A sequence given by its elements.
LEMMA SeqOf == ASSUME NEW S, NEW n \in Nat, NEW f, f \in [1..n -> S]
               PROVE  f \in Seq(S) /\ Len(f) = n
<1>1. f \in Seq(S)
  BY SeqDef
<1>2. DOMAIN f = 1..Len(f) /\ Len(f) \in Nat /\ DOMAIN f = 1..n
  BY <1>1, LenProperties
<1>3. QED
  BY <1>1, <1>2

\* The samples of one push.
LEMMA FrameType == ASSUME NEW k \in Nat, NEW n \in PushSizes, k + n <= MaxSamples
                   PROVE  /\ Frame(k, n) \in Seq(Numbers)
                          /\ Len(Frame(k, n)) = Least(n, Capacity)
                          /\ Len(Frame(k, n)) \in 1..Capacity
                          /\ \A i \in 1..Len(Frame(k, n)) :
                                Frame(k, n)[i] = k + n - Least(n, Capacity) + i
<1> DEFINE kept == Least(n, Capacity)
<1>1. kept \in 1..Capacity /\ kept \in Nat /\ kept <= n /\ n \in Nat
  BY Constants DEF Least
<1>2. Frame(k, n) = [i \in 1..kept |-> k + n - kept + i]
  BY DEF Frame
<1>3. Frame(k, n) \in [1..kept -> Numbers]
  BY <1>1, <1>2, Constants DEF Numbers
<1>4. Frame(k, n) \in Seq(Numbers) /\ Len(Frame(k, n)) = kept
  BY <1>1, <1>3, SeqOf
<1>5. QED
  BY <1>1, <1>2, <1>4
-----------------------------------------------------------------------------
(* Pushing *)

LEMMA PushTakeKeeps == ASSUME RingInv, NEW n \in PushSizes, PushTake(n)
                       PROVE  RingInv'
<1>1. captured \in Nat /\ captured + n <= MaxSamples /\ n \in Nat \ {0}
  BY Constants DEF RingInv, RingTypes, Numbers, PushTake
<1>2. /\ Frame(captured, n) \in Seq(Numbers)
      /\ Len(Frame(captured, n)) \in 1..Capacity
  BY <1>1, FrameType
<1>3. /\ samples' = [samples EXCEPT ![Writer] = Frame(captured, n)]
      /\ step' = [step EXCEPT ![Writer] = "first"] /\ mutex' = Writer
      /\ captured' = captured + n /\ before' = storage
      /\ UNCHANGED <<storage, writePos, readPos, filled, request>> /\ mutex = Free
  BY DEF PushTake, ring
<1>4. RingTypes'
  BY <1>1, <1>2, <1>3, Constants DEF RingInv, RingTypes, Inside, Numbers
<1>5. Locked'
  BY <1>3, Constants DEF RingInv, RingTypes, Locked, Inside
<1>6. PositionsAgree'
  BY <1>3 DEF RingInv, PositionsAgree
<1>7. PushInv'
  <2>1. samples'[Writer] = Frame(captured, n) /\ step'[Writer] = "first"
    BY <1>3, Constants DEF RingInv, RingTypes
  <2>2. QED
    BY <1>1, <1>2, <1>3, <2>1 DEF PushInv, RingInv, RingTypes, Numbers
<1>8. ReadInv'
  BY <1>3, Constants DEF ReadInv
<1>9. QED
  BY <1>4, <1>5, <1>6, <1>7, <1>8 DEF RingInv

\* The two parts of a frame, and where the first ends.
LEMMA PartsOfFrame ==
    ASSUME NEW s \in Seq(Numbers), Len(s) \in 1..Capacity, writePos \in Indices
    PROVE  LET m == Least(Len(s), Capacity - writePos)
           IN  /\ m \in 1..Len(s) /\ m <= Capacity - writePos
               /\ FirstPart(s) \in Seq(Numbers) /\ Len(FirstPart(s)) = m
               /\ \A i \in 1..m : FirstPart(s)[i] = s[i]
               /\ SecondPart(s) \in Seq(Numbers) /\ Len(SecondPart(s)) = Len(s) - m
               /\ \A i \in 1..(Len(s) - m) : SecondPart(s)[i] = s[m + i]
               /\ SecondPart(s) = <<>> <=> Len(s) <= Capacity - writePos
<1> DEFINE m == Least(Len(s), Capacity - writePos)
<1>1. m \in 1..Len(s) /\ m <= Capacity - writePos /\ Len(s) \in Nat
  BY Constants DEF Least, Indices
<1>2. \A i \in 1..Len(s) : s[i] \in Numbers
  BY ElementOfSeq
<1>3. /\ SubSeq(s, 1, m) \in Seq(Numbers) /\ Len(SubSeq(s, 1, m)) = m
      /\ \A i \in 1..m : SubSeq(s, 1, m)[i] = s[i]
  BY <1>1, <1>2, SubSeqProperties
<1>4. /\ SubSeq(s, m + 1, Len(s)) \in Seq(Numbers)
      /\ Len(SubSeq(s, m + 1, Len(s))) = Len(s) - m
      /\ \A i \in 1..(Len(s) - m) : SubSeq(s, m + 1, Len(s))[i] = s[m + i]
  <2>1. \A i \in (m + 1)..Len(s) : s[i] \in Numbers
    BY <1>1, <1>2
  <2>2. m + 1 \in Int /\ Len(s) \in Int
    BY <1>1
  <2>3. /\ SubSeq(s, m + 1, Len(s)) \in Seq(Numbers)
        /\ Len(SubSeq(s, m + 1, Len(s))) =
              IF m + 1 <= Len(s) THEN Len(s) - (m + 1) + 1 ELSE 0
        /\ \A i \in 1..(Len(s) - (m + 1) + 1) :
              SubSeq(s, m + 1, Len(s))[i] = s[(m + 1) + i - 1]
    BY <2>1, <2>2, SubSeqProperties
  <2> HIDE DEF m
  <2>4. QED
    BY <1>1, <2>3
<1>5. m = Len(s) <=> Len(s) <= Capacity - writePos
  BY <1>1, Constants DEF Least, Indices
<1>6. SubSeq(s, m + 1, Len(s)) = <<>> <=> Len(s) = m
  <2> DEFINE rest == SubSeq(s, m + 1, Len(s))
  <2>1. rest \in Seq(Numbers) /\ Len(rest) = Len(s) - m /\ m \in Nat /\ Len(s) \in Nat
    BY <1>1, <1>4
  <2> HIDE DEF rest, m
  <2>2. rest = <<>> <=> Len(rest) = 0
    BY <2>1, EmptySeq
  <2>3. rest = <<>> <=> Len(s) = m
    BY <2>1, <2>2
  <2>4. QED
    BY <2>3 DEF rest
<1>7. QED
  BY <1>1, <1>3, <1>4, <1>5, <1>6 DEF FirstPart, SecondPart

LEMMA PushFirstKeeps == ASSUME RingInv, PushFirst PROVE RingInv'
<1> DEFINE s == samples[Writer]
           m == Least(Len(s), Capacity - writePos)
<1>1. /\ step[Writer] = "first" /\ mutex = Writer /\ storage = before
      /\ s \in Seq(Numbers) /\ Len(s) \in 1..Capacity /\ writePos \in Indices
      /\ storage \in [Indices -> Numbers]
  BY Constants DEF PushFirst, RingInv, RingTypes, Locked, PushInv, Inside
<1>2. /\ m \in 1..Len(s) /\ m <= Capacity - writePos
      /\ Len(FirstPart(s)) = m /\ FirstPart(s) \in Seq(Numbers)
      /\ \A i \in 1..m : FirstPart(s)[i] = s[i]
      /\ SecondPart(s) = <<>> <=> Len(s) <= Capacity - writePos
  BY <1>1, PartsOfFrame
<1>3. /\ storage' = Written(storage, writePos, FirstPart(s))
      /\ step' = [step EXCEPT ![Writer] = IF SecondPart(s) = <<>> THEN "give" ELSE "second"]
      /\ UNCHANGED <<writePos, readPos, filled, mutex, samples, request, captured, before>>
  BY DEF PushFirst
<1>4. \A k \in Indices : storage'[k] = IF k >= writePos /\ k - writePos < m
                                       THEN s[k - writePos + 1] ELSE before[k]
  BY <1>1, <1>2, <1>3, Constants DEF Written, Indices
<1>5. RingTypes'
  <2>1. storage' \in [Indices -> Numbers]
    <3>1. \A i \in 1..m : FirstPart(s)[i] \in Numbers
      BY <1>2, ElementOfSeq
    <3>2. QED
      BY <1>1, <1>2, <1>3, <3>1, Constants DEF Written, Indices
  <2>2. QED
    BY <1>3, <2>1, Constants DEF RingInv, RingTypes, Inside
<1>6. Locked' /\ PositionsAgree' /\ ReadInv'
  BY <1>1, <1>3, Constants DEF RingInv, RingTypes, Locked, Inside, PositionsAgree, ReadInv
<1>7. PushInv'
  <2>1. CASE Len(s) <= Capacity - writePos
    <3>1. m = Len(s) /\ step'[Writer] = "give"
      BY <1>1, <1>2, <1>3, <2>1, Constants DEF Least, RingInv, RingTypes
    <3>2. \A k \in Indices : storage'[k] = IF Offset(k) < Len(s) THEN s[Offset(k) + 1]
                                           ELSE before[k]
      BY <1>1, <1>4, <2>1, <3>1, Constants DEF Offset, Indices
    <3>3. QED
      BY <1>1, <1>3, <3>1, <3>2 DEF RingInv, PushInv, Offset
  <2>2. CASE ~(Len(s) <= Capacity - writePos)
    <3>1. m = Capacity - writePos /\ step'[Writer] = "second"
      BY <1>1, <1>2, <1>3, <2>2, Constants DEF Least, RingInv, RingTypes
    <3>2. /\ Capacity - writePos < Len(s)
          /\ \A k \in Indices : storage'[k] = IF k >= writePos THEN s[k - writePos + 1]
                                              ELSE before[k]
      BY <1>1, <1>4, <2>2, <3>1, Constants DEF Indices
    <3>3. QED
      BY <1>1, <1>3, <3>1, <3>2 DEF RingInv, PushInv
  <2>3. QED
    BY <2>1, <2>2
<1>8. QED
  BY <1>5, <1>6, <1>7 DEF RingInv

LEMMA PushSecondKeeps == ASSUME RingInv, PushSecond PROVE RingInv'
<1> DEFINE s == samples[Writer]
           m == Least(Len(s), Capacity - writePos)
<1>1. /\ step[Writer] = "second" /\ mutex = Writer
      /\ Capacity - writePos < Len(s)
      /\ \A k \in Indices : storage[k] = IF k >= writePos THEN s[k - writePos + 1]
                                         ELSE before[k]
      /\ s \in Seq(Numbers) /\ Len(s) \in 1..Capacity /\ writePos \in Indices
      /\ storage \in [Indices -> Numbers]
  BY Constants DEF PushSecond, RingInv, RingTypes, Locked, PushInv, Inside
<1>2. /\ m = Capacity - writePos /\ m \in 1..Capacity
      /\ Len(SecondPart(s)) = Len(s) - m /\ SecondPart(s) \in Seq(Numbers)
      /\ \A i \in 1..(Len(s) - m) : SecondPart(s)[i] = s[m + i]
  <2>1. m = Capacity - writePos /\ m \in 1..Capacity
    BY <1>1, Constants DEF Least, Indices
  <2>2. /\ Len(SecondPart(s)) = Len(s) - m /\ SecondPart(s) \in Seq(Numbers)
        /\ \A i \in 1..(Len(s) - m) : SecondPart(s)[i] = s[m + i]
    BY <1>1, PartsOfFrame
  <2>3. QED
    BY <2>1, <2>2
<1> HIDE DEF m
<1>3. /\ storage' = Written(storage, 0, SecondPart(s))
      /\ step' = [step EXCEPT ![Writer] = "give"]
      /\ UNCHANGED <<writePos, readPos, filled, mutex, samples, request, captured, before>>
  BY DEF PushSecond
<1>4. \A k \in Indices : storage'[k] = IF k < Len(s) - m THEN s[m + (k + 1)] ELSE storage[k]
  <2> SUFFICES ASSUME NEW k \in Indices
               PROVE  storage'[k] = IF k < Len(s) - m THEN s[m + (k + 1)] ELSE storage[k]
    OBVIOUS
  <2>1. storage'[k] = IF k \in 0..(Len(s) - m - 1) THEN SecondPart(s)[k + 1] ELSE storage[k]
    BY <1>1, <1>2, <1>3, Constants DEF Written, Indices
  <2>2. k < Len(s) - m => k + 1 \in 1..(Len(s) - m)
    BY <1>1, <1>2, Constants DEF Indices
  <2>3. QED
    BY <1>1, <1>2, <2>1, <2>2, Constants DEF Indices
<1>5. RingTypes'
  <2>1. storage' \in [Indices -> Numbers]
    <3>1. \A i \in 1..(Len(s) - m) : SecondPart(s)[i] \in Numbers
      BY <1>2, ElementOfSeq
    <3>2. QED
      BY <1>1, <1>2, <1>3, <3>1, Constants DEF Written, Indices
  <2>2. QED
    BY <1>3, <2>1, Constants DEF RingInv, RingTypes, Inside
<1>6. Locked' /\ PositionsAgree' /\ ReadInv'
  BY <1>1, <1>3, Constants DEF RingInv, RingTypes, Locked, Inside, PositionsAgree, ReadInv
<1>7. PushInv'
  <2>1. step'[Writer] = "give"
    BY <1>3, Constants DEF RingInv, RingTypes
  <2>2. \A k \in Indices : storage'[k] = IF Offset(k) < Len(s) THEN s[Offset(k) + 1]
                                         ELSE before[k]
    BY <1>1, <1>2, <1>4, Constants DEF Offset, Indices
  <2>3. QED
    BY <1>1, <1>3, <2>1, <2>2 DEF RingInv, PushInv, Offset
<1>8. QED
  BY <1>5, <1>6, <1>7 DEF RingInv

\* How far an overrun moves the read position.
Overrun(count) == IF filled + count > Capacity THEN filled + count - Capacity ELSE 0

LEMMA PushGiveKeeps ==
    ASSUME RingInv, PushGive
    PROVE  /\ RingInv'
           /\ readPos' = Wrap(readPos + Overrun(Len(samples[Writer])))
           /\ filled' = filled + Len(samples[Writer]) - Overrun(Len(samples[Writer]))
<1> DEFINE count == Len(samples[Writer])
<1>1. /\ step[Writer] = "give" /\ mutex = Writer /\ count \in 1..Capacity
      /\ writePos \in Indices /\ readPos \in Indices /\ filled \in 0..Capacity
  BY Constants DEF PushGive, RingInv, RingTypes, Locked, PushInv, Inside
<1>2. /\ writePos' = Mod(writePos + count)
      /\ filled' = Least(filled + count, Capacity)
      /\ readPos' = IF filled + count - Capacity > 0
                    THEN Mod(readPos + (filled + count - Capacity)) ELSE readPos
      /\ mutex' = Free
      /\ step' = [step EXCEPT ![Writer] = "idle"]
      /\ samples' = [samples EXCEPT ![Writer] = <<>>]
      /\ UNCHANGED <<storage, request, captured, before>>
  BY DEF PushGive
<1> HIDE DEF count
<1>3. /\ writePos' = Wrap(writePos + count) /\ writePos' \in Indices
  BY <1>1, <1>2, ModIsWrap, Constants DEF Indices
<1>4. /\ readPos' = Wrap(readPos + Overrun(count)) /\ readPos' \in Indices
      /\ filled' = filled + count - Overrun(count) /\ filled' \in 0..Capacity
  <2>1. filled' = filled + count - Overrun(count) /\ filled' \in 0..Capacity
    BY <1>1, <1>2, Constants DEF Overrun, Least
  <2>2. CASE filled + count > Capacity
    <3>1. readPos + (filled + count - Capacity) \in 0..(2 * Capacity - 1)
      BY <1>1, <2>2, Constants DEF Indices
    <3>2. readPos' = Mod(readPos + (filled + count - Capacity))
      BY <1>1, <1>2, <2>2, Constants
    <3>3. QED
      BY <2>1, <2>2, <3>1, <3>2, ModIsWrap DEF Overrun
  <2>3. CASE ~(filled + count > Capacity)
    BY <1>1, <1>2, <2>1, <2>3, Constants DEF Overrun, Wrap, Indices
  <2>4. QED
    BY <2>2, <2>3
<1>5. RingTypes'
  <2>1. <<>> \in Seq(Numbers)
    BY EmptySeq
  <2>2. QED
    BY <1>2, <1>3, <1>4, <2>1, Constants DEF RingInv, RingTypes, Inside, Tasks
<1>6. Locked'
  BY <1>1, <1>2, Constants DEF RingInv, RingTypes, Locked, Inside
<1>7. PositionsAgree'
  <2>1. writePos = Wrap(readPos + filled)
    BY <1>1, ModIsWrap, Constants DEF RingInv, PositionsAgree, Indices
  <2>2. readPos' + filled' \in 0..(2 * Capacity - 1)
    BY <1>4, Constants DEF Indices
  <2>3. Wrap(readPos' + filled') = writePos'
    BY <1>1, <1>3, <1>4, <2>1, Constants DEF Overrun, Wrap, Indices
  <2>4. QED
    BY <2>2, <2>3, ModIsWrap DEF PositionsAgree, Mod
<1>8. PushInv' /\ ReadInv'
  BY <1>2, Constants DEF PushInv, ReadInv
<1>9. QED
  BY <1>4, <1>5, <1>6, <1>7, <1>8 DEF RingInv, count
-----------------------------------------------------------------------------
(* Reading *)

LEMMA ReadTakeKeeps ==
    ASSUME RingInv, NEW r \in Readers, NEW n \in Counts, NEW takes \in BOOLEAN,
           ReadTake(r, n, takes)
    PROVE  RingInv'
<1> DEFINE count == Least(n, filled)
           start == IF takes THEN readPos ELSE Mod(writePos + Capacity - count)
<1>1. /\ mutex = Free /\ step[r] = "idle" /\ count > 0 /\ mutex' = r /\ before' = storage
      /\ request' = [request EXCEPT ![r] = [takes |-> takes, count |-> count, start |-> start]]
      /\ step' = [step EXCEPT ![r] = "first"]
      /\ UNCHANGED <<storage, writePos, readPos, filled, samples, captured>>
  BY DEF ReadTake, ring
<1>2. /\ count \in 1..filled /\ filled \in 0..Capacity /\ writePos \in Indices
      /\ readPos \in Indices
  BY <1>1, Constants DEF RingInv, RingTypes, Least
<1>3. /\ start = IF takes THEN readPos ELSE Wrap(writePos + Capacity - count)
      /\ start \in Indices
  <2>1. writePos + Capacity - count \in 0..(2 * Capacity - 1)
    BY <1>2, Constants DEF Indices
  <2>2. QED
    BY <1>2, <2>1, ModIsWrap
<1> HIDE DEF start
<1>4. RingTypes'
  BY <1>1, <1>2, <1>3, Constants DEF RingInv, RingTypes, Inside, Tasks
<1>5. Locked'
  BY <1>1, Constants DEF RingInv, RingTypes, Locked, Inside, Tasks
<1>6. PositionsAgree'
  BY <1>1 DEF RingInv, PositionsAgree
<1>7. PushInv'
  BY <1>1, Constants DEF PushInv
<1>8. ReadInv'
  <2>1. /\ request'[r].count = count /\ request'[r].start = start
        /\ request'[r].takes = takes /\ step'[r] = "first"
    BY <1>1, Constants DEF RingInv, RingTypes, Tasks
  <2>2. QED
    BY <1>1, <1>2, <1>3, <2>1 DEF ReadInv, Wrap
<1>9. QED
  BY <1>4, <1>5, <1>6, <1>7, <1>8 DEF RingInv

\* What a reader with the mutex knows of its request.
LEMMA ReaderHolds ==
    ASSUME RingInv, NEW r \in Readers, step[r] \in Inside
    PROVE  LET q == request[r]
           IN  /\ mutex = r /\ mutex # Writer
               /\ q.count \in 1..Capacity /\ q.start \in Indices
               /\ FirstCount(q) \in 1..q.count
               /\ FirstCount(q) <= Capacity - q.start
               /\ FirstCount(q) = q.count \/ FirstCount(q) = Capacity - q.start
<1>1. mutex = r /\ mutex # Writer
  BY Constants DEF RingInv, Locked, Tasks
<1>2. request[r].count \in 1..Capacity /\ request[r].start \in Indices
  <2>1. request[r].count \in 1..filled /\ filled \in 0..Capacity
    BY <1>1 DEF RingInv, ReadInv, RingTypes
  <2>2. request[r] \in [takes : BOOLEAN, start : Indices, count : Nat]
    BY DEF RingInv, RingTypes
  <2>3. QED
    BY <2>1, <2>2, Constants
<1>3. QED
  BY <1>1, <1>2, Constants DEF FirstCount, Least, Indices

LEMMA ReadFirstKeeps ==
    ASSUME RingInv, NEW r \in Readers, ReadFirst(r)
    PROVE  RingInv'
<1> DEFINE q == request[r]
           n == FirstCount(q)
<1>1. step[r] = "first" /\ step[r] \in Inside
  BY DEF ReadFirst, Inside
<1>2. /\ mutex = r /\ mutex # Writer
      /\ q.count \in 1..Capacity /\ q.start \in Indices
      /\ n \in 1..q.count /\ n <= Capacity - q.start
      /\ n = q.count \/ n = Capacity - q.start
  BY <1>1, ReaderHolds
<1>3. /\ samples' = [samples EXCEPT ![r] = Copied(storage, q.start, n)]
      /\ step' = [step EXCEPT ![r] = IF n = q.count THEN "give" ELSE "second"]
      /\ UNCHANGED <<ring, mutex, request, captured, before>>
  BY DEF ReadFirst
<1> HIDE DEF q, n
<1>4. /\ Copied(storage, q.start, n) \in Seq(Numbers)
      /\ Len(Copied(storage, q.start, n)) = n
      /\ \A i \in 1..n : Copied(storage, q.start, n)[i] = storage[q.start + i - 1]
  <2>1. \A i \in 1..n : q.start + i - 1 \in Indices
    BY <1>2, Constants DEF Indices
  <2>2. Copied(storage, q.start, n) \in [1..n -> Numbers]
    BY <2>1 DEF Copied, RingInv, RingTypes
  <2>3. n \in Nat
    BY <1>2
  <2>4. QED
    BY <2>2, <2>3, SeqOf DEF Copied
<1>5. RingTypes'
  BY <1>3, <1>4, Constants DEF RingInv, RingTypes, Inside, Tasks, ring
<1>6. Locked' /\ PositionsAgree' /\ PushInv'
  BY <1>1, <1>2, <1>3, Constants
     DEF RingInv, RingTypes, Locked, Inside, Tasks, PositionsAgree, PushInv, ring
<1>7. ReadInv'
  <2>1. /\ samples'[r] = Copied(storage, q.start, n)
        /\ step'[r] = IF n = q.count THEN "give" ELSE "second"
        /\ mutex' = r /\ request' = request /\ storage' = storage
        /\ filled' = filled /\ writePos' = writePos /\ readPos' = readPos
    BY <1>2, <1>3, Constants DEF RingInv, RingTypes, Tasks, ring
  <2>2. n = q.count => \A i \in 1..n : Wrap(q.start + i - 1) = q.start + i - 1
    BY <1>2, Constants DEF Wrap, Indices
  <2>3. n # q.count => n < q.count
    BY <1>2
  <2>4. \A s \in Readers : mutex' = s => s = r
    BY <2>1
  <2>5. /\ q.count \in 1..filled
        /\ \E k \in Counts : q.count = Least(k, filled)
        /\ q.start = IF q.takes THEN readPos ELSE Wrap(writePos + Capacity - q.count)
    BY <1>2 DEF RingInv, ReadInv, q
  <2>6. QED
    BY <1>4, <2>1, <2>2, <2>3, <2>4, <2>5 DEF ReadInv, q, n, FirstCount, Wrap
<1>8. QED
  BY <1>5, <1>6, <1>7 DEF RingInv

LEMMA ReadSecondKeeps ==
    ASSUME RingInv, NEW r \in Readers, ReadSecond(r)
    PROVE  RingInv'
<1> DEFINE q == request[r]
           n == FirstCount(q)
           rest == Copied(storage, 0, q.count - n)
<1>1. step[r] = "second" /\ step[r] \in Inside
  BY DEF ReadSecond, Inside
<1>2. /\ mutex = r /\ mutex # Writer
      /\ q.count \in 1..Capacity /\ q.start \in Indices
      /\ n \in 1..q.count /\ n <= Capacity - q.start
      /\ n = q.count \/ n = Capacity - q.start
  BY <1>1, ReaderHolds
<1>3. /\ samples' = [samples EXCEPT ![r] = samples[r] \o rest]
      /\ step' = [step EXCEPT ![r] = "give"]
      /\ UNCHANGED <<ring, mutex, request, captured, before>>
  BY DEF ReadSecond
<1>4. /\ n < q.count /\ samples[r] \in Seq(Numbers) /\ Len(samples[r]) = n
      /\ \A i \in 1..n : samples[r][i] = storage[q.start + i - 1]
  BY <1>1, <1>2, Constants DEF RingInv, ReadInv, RingTypes, Tasks
<1> HIDE DEF q, n, rest
<1>5. /\ rest \in Seq(Numbers) /\ Len(rest) = q.count - n
      /\ \A i \in 1..(q.count - n) : rest[i] = storage[i - 1]
  <2>1. \A i \in 1..(q.count - n) : 0 + i - 1 \in Indices /\ 0 + i - 1 = i - 1
    BY <1>2, Constants DEF Indices
  <2>2. rest \in [1..(q.count - n) -> Numbers]
    BY <2>1 DEF Copied, RingInv, RingTypes, rest
  <2>3. q.count - n \in Nat
    BY <1>2
  <2>4. rest \in Seq(Numbers) /\ Len(rest) = q.count - n
    BY <2>2, <2>3, SeqOf
  <2>5. QED
    BY <2>1, <2>4 DEF Copied, rest
<1>6. /\ samples[r] \o rest \in Seq(Numbers)
      /\ Len(samples[r] \o rest) = q.count
      /\ \A i \in 1..q.count : (samples[r] \o rest)[i] = storage[Wrap(q.start + i - 1)]
  <2>1. /\ samples[r] \o rest \in Seq(Numbers)
        /\ Len(samples[r] \o rest) = n + (q.count - n)
        /\ \A i \in 1..(n + (q.count - n)) :
              (samples[r] \o rest)[i] = IF i <= n THEN samples[r][i] ELSE rest[i - n]
    <3>1. /\ samples[r] \o rest \in Seq(Numbers)
          /\ Len(samples[r] \o rest) = Len(samples[r]) + Len(rest)
          /\ \A i \in 1..(Len(samples[r]) + Len(rest)) :
                (samples[r] \o rest)[i] = IF i <= Len(samples[r]) THEN samples[r][i]
                                          ELSE rest[i - Len(samples[r])]
      BY ONLY <1>4, <1>5, ConcatProperties
    <3>2. QED
      BY ONLY <1>4, <1>5, <3>1
  <2>2. n + (q.count - n) = q.count
    BY <1>2
  <2>3. ASSUME NEW i \in 1..q.count
        PROVE  (samples[r] \o rest)[i] = storage[Wrap(q.start + i - 1)]
    <3>1. CASE i <= n
      <4>1. i \in 1..n /\ Wrap(q.start + i - 1) = q.start + i - 1
        BY <1>2, <3>1, Constants DEF Wrap, Indices
      <4>2. QED
        BY <1>4, <2>1, <2>2, <3>1, <4>1
    <3>2. CASE ~(i <= n)
      <4>1. i - n \in 1..(q.count - n) /\ Wrap(q.start + i - 1) = (i - n) - 1
        BY <1>2, <1>4, <3>2, Constants DEF Wrap, Indices
      <4>2. QED
        BY <1>5, <2>1, <2>2, <3>2, <4>1
    <3>3. QED
      BY <3>1, <3>2
  <2>4. QED
    BY <2>1, <2>2, <2>3
<1>7. RingTypes'
  BY <1>3, <1>6, Constants DEF RingInv, RingTypes, Inside, Tasks, ring
<1>8. Locked' /\ PositionsAgree' /\ PushInv'
  BY <1>1, <1>2, <1>3, Constants
     DEF RingInv, RingTypes, Locked, Inside, Tasks, PositionsAgree, PushInv, ring
<1>9. ReadInv'
  <2>1. /\ samples'[r] = samples[r] \o rest /\ step'[r] = "give"
        /\ mutex' = r /\ request' = request /\ storage' = storage
        /\ filled' = filled /\ writePos' = writePos /\ readPos' = readPos
    BY <1>2, <1>3, Constants DEF RingInv, RingTypes, Tasks, ring
  <2>2. \A s \in Readers : mutex' = s => s = r
    BY <2>1
  <2>3. /\ q.count \in 1..filled
        /\ \E k \in Counts : q.count = Least(k, filled)
        /\ q.start = IF q.takes THEN readPos ELSE Wrap(writePos + Capacity - q.count)
    BY <1>2 DEF RingInv, ReadInv, q
  <2>4. QED
    BY <1>6, <2>1, <2>2, <2>3 DEF ReadInv, q, Wrap
<1>10. QED
  BY <1>7, <1>8, <1>9 DEF RingInv

LEMMA ReadGiveKeeps ==
    ASSUME RingInv, NEW r \in Readers, ReadGive(r)
    PROVE  /\ RingInv'
           /\ request[r].takes => /\ readPos' = Wrap(readPos + request[r].count)
                                  /\ filled' = filled - request[r].count
<1> DEFINE q == request[r]
<1>1. step[r] = "give" /\ step[r] \in Inside
  BY DEF ReadGive, Inside
<1>2. /\ mutex = r /\ q.count \in 1..filled /\ filled \in 0..Capacity
      /\ readPos \in Indices /\ writePos \in Indices
  BY <1>1, ReaderHolds DEF RingInv, ReadInv, RingTypes
<1>3. /\ IF q.takes THEN readPos' = Mod(readPos + q.count) /\ filled' = filled - q.count
                    ELSE UNCHANGED <<readPos, filled>>
      /\ mutex' = Free /\ step' = [step EXCEPT ![r] = "returned"]
      /\ UNCHANGED <<storage, writePos, samples, request, captured, before>>
  BY DEF ReadGive
<1> HIDE DEF q
<1>4. readPos + q.count \in 0..(2 * Capacity - 1)
  BY <1>2, Constants DEF Indices
<1>5. q.takes => readPos' = Wrap(readPos + q.count) /\ filled' = filled - q.count
  BY <1>3, <1>4, ModIsWrap
<1>6. readPos' \in Indices /\ filled' \in 0..Capacity
  BY <1>2, <1>3, <1>4, ModIsWrap, Constants
<1>7. RingTypes'
  BY <1>3, <1>6, Constants DEF RingInv, RingTypes, Inside, Tasks
<1>8. Locked'
  BY <1>1, <1>2, <1>3, Constants DEF RingInv, RingTypes, Locked, Inside, Tasks
<1>9. PositionsAgree'
  <2>1. CASE q.takes
    <3>1. writePos = Wrap(readPos + filled)
      BY <1>2, ModIsWrap, Constants DEF RingInv, PositionsAgree, Indices
    <3>2. readPos' + filled' \in 0..(2 * Capacity - 1)
      BY <1>6, SumOfPositions
    <3>3. Wrap(readPos' + filled') = writePos
      BY <1>2, <1>5, <2>1, <3>1, Constants DEF Wrap, Indices
    <3>4. QED
      BY <1>3, <3>2, <3>3, ModIsWrap DEF PositionsAgree, Mod
  <2>2. CASE ~q.takes
    BY <1>3, <2>2 DEF RingInv, PositionsAgree, Mod
  <2>3. QED
    BY <2>1, <2>2
<1>10. PushInv' /\ ReadInv'
  BY <1>3, Constants DEF PushInv, ReadInv
<1>11. QED
  BY <1>5, <1>7, <1>8, <1>9, <1>10 DEF RingInv, q

LEMMA UseKeeps == ASSUME RingInv, NEW r \in Readers, Use(r)
                  PROVE  RingInv'
<1>1. /\ step[r] = "returned"
      /\ step' = [step EXCEPT ![r] = "idle"]
      /\ samples' = [samples EXCEPT ![r] = <<>>]
      /\ UNCHANGED <<storage, writePos, readPos, filled, mutex, request, captured, before>>
  BY DEF Use, ring
<1>2. mutex # r
  BY <1>1 DEF RingInv, Locked, Tasks, Inside
<1>3. RingTypes'
  BY <1>1, EmptySeq, Constants DEF RingInv, RingTypes, Inside, Tasks
<1>4. Locked'
  BY <1>1, <1>2, Constants DEF RingInv, RingTypes, Locked, Inside, Tasks
<1>5. /\ samples'[Writer] = samples[Writer] /\ step'[Writer] = step[Writer]
      /\ \A s \in Readers \ {r} : samples'[s] = samples[s] /\ step'[s] = step[s]
  BY <1>1, Constants DEF RingInv, RingTypes
<1>6. PushInv' /\ PositionsAgree'
  BY <1>1, <1>5 DEF RingInv, PushInv, PositionsAgree, Offset
<1>7. ReadInv'
  BY <1>1, <1>2, <1>5 DEF RingInv, ReadInv
<1>8. QED
  BY <1>3, <1>4, <1>6, <1>7 DEF RingInv
-----------------------------------------------------------------------------
(* The positions *)

LEMMA RingInit == Init => RingInv
<1> SUFFICES ASSUME Init PROVE RingInv
  OBVIOUS
<1>1. RingTypes
  BY EmptySeq, Constants DEF Init, RingTypes, Indices, Numbers, Tasks, Inside
<1>2. Locked /\ PushInv /\ ReadInv
  BY Constants DEF Init, Locked, Inside, Tasks, PushInv, ReadInv
<1>3. PositionsAgree
  <2>1. Mod(0) = 0
    BY ModIsWrap, Constants DEF Wrap
  <2>2. QED
    BY <2>1 DEF Init, PositionsAgree
<1>4. QED
  BY <1>1, <1>2, <1>3 DEF RingInv

LEMMA RingStep == RingInv /\ [Next]_vars => RingInv'
<1> SUFFICES ASSUME RingInv, [Next]_vars PROVE RingInv'
  OBVIOUS
<1>1. ASSUME NEW n \in PushSizes, PushTimesOut(n) PROVE RingInv'
  <2>1. /\ captured' = captured + n /\ captured' \in Numbers
        /\ UNCHANGED <<storage, writePos, readPos, filled, mutex, step, samples, request, before>>
        /\ mutex # Free /\ step[Writer] = "idle"
    BY <1>1, Constants DEF PushTimesOut, ring, RingInv, RingTypes, Numbers
  <2>2. mutex # Writer
    BY <2>1, Constants DEF RingInv, Locked, Inside
  <2>3. QED
    BY <2>1, <2>2 DEF RingInv, RingTypes, Locked, PositionsAgree, PushInv, ReadInv
<1>2. CASE UNCHANGED vars
  BY <1>2 DEF vars, ring, RingInv, RingTypes, Locked, PositionsAgree, PushInv, ReadInv, Offset
<1>3. QED
  BY <1>1, <1>2, PushTakeKeeps, PushFirstKeeps, PushSecondKeeps, PushGiveKeeps,
     ReadTakeKeeps, ReadFirstKeeps, ReadSecondKeeps, ReadGiveKeeps, UseKeeps DEF Next

\* GetLast and Read see one buffer: read_pos_ and filled_ lead to write_pos_
\* in every state, between the steps of an operation too.
THEOREM OneBuffer == Spec => []PositionsAgree
<1>1. RingInv => PositionsAgree
  BY DEF RingInv
<1>2. QED
  BY <1>1, RingInit, RingStep, PTL DEF Spec
-----------------------------------------------------------------------------
(* The refinement of AudioFifo *)

\* The samples held from a position of a storage on.
HeldFrom(st, p, n) == [i \in 1..n |-> st[Mod(p + i - 1)]]
Base == IF mutex = Writer THEN before ELSE storage

LEMMA HeldIs == Held = HeldFrom(Base, readPos, filled)
BY DEF Held, HeldFrom, Base

LEMMA HeldIsNext == Held' = HeldFrom(Base', readPos', filled')
BY DEF Held, HeldFrom, Base, Mod

LEMMA HeldIsSeq ==
    ASSUME NEW st \in [Indices -> Numbers], NEW p \in Indices, NEW n \in 0..Capacity
    PROVE  /\ HeldFrom(st, p, n) \in Seq(Numbers) /\ Len(HeldFrom(st, p, n)) = n
           /\ \A i \in 1..n : HeldFrom(st, p, n)[i] = st[Wrap(p + i - 1)]
<1>1. \A i \in 1..n : Mod(p + i - 1) = Wrap(p + i - 1) /\ Wrap(p + i - 1) \in Indices
  <2> SUFFICES ASSUME NEW i \in 1..n
               PROVE  Mod(p + i - 1) = Wrap(p + i - 1) /\ Wrap(p + i - 1) \in Indices
    OBVIOUS
  <2>1. p + i - 1 \in 0..(2 * Capacity - 1)
    BY Constants DEF Indices
  <2>2. QED
    BY <2>1, ModIsWrap
<1>2. HeldFrom(st, p, n) \in [1..n -> Numbers]
  BY <1>1 DEF HeldFrom
<1>3. n \in Nat
  BY Constants
<1>4. HeldFrom(st, p, n) \in Seq(Numbers) /\ Len(HeldFrom(st, p, n)) = n
  BY <1>2, <1>3, SeqOf
<1>5. QED
  BY <1>1, <1>4 DEF HeldFrom

\* A part of a sequence of numbers.
LEMMA PartOf == ASSUME NEW s \in Seq(Numbers), NEW a \in Nat, NEW b \in Nat,
                       a <= b, b <= Len(s)
                PROVE  /\ SubSeq(s, a + 1, b) \in Seq(Numbers)
                       /\ Len(SubSeq(s, a + 1, b)) = b - a
                       /\ \A i \in 1..(b - a) : SubSeq(s, a + 1, b)[i] = s[a + i]
<1>1. Len(s) \in Nat /\ \A i \in 1..Len(s) : s[i] \in Numbers
  BY ElementOfSeq
<1>2. \A i \in (a + 1)..b : s[i] \in Numbers
  BY <1>1
<1>3. a + 1 \in Int /\ b \in Int
  OBVIOUS
<1>4. /\ SubSeq(s, a + 1, b) \in Seq(Numbers)
      /\ Len(SubSeq(s, a + 1, b)) = IF a + 1 <= b THEN b - (a + 1) + 1 ELSE 0
      /\ \A i \in 1..(b - (a + 1) + 1) : SubSeq(s, a + 1, b)[i] = s[(a + 1) + i - 1]
  BY <1>2, <1>3, SubSeqProperties
<1>5. QED
  BY <1>4

\* A frame that replaced the oldest samples leaves the newest ones.
LEMMA PushedPosition ==
    ASSUME RingInv, NEW count \in 1..Capacity, NEW j \in 1..(filled + count),
           j > Overrun(count),
           NEW k \in Indices, k = Wrap(Wrap(readPos + Overrun(count)) + (j - Overrun(count)) - 1)
    PROVE  IF j <= filled THEN Offset(k) >= count /\ k = Wrap(readPos + j - 1)
                          ELSE Offset(k) = j - filled - 1
<1>1. readPos \in Indices /\ filled \in 0..Capacity /\ writePos \in Indices
  BY DEF RingInv, RingTypes
<1>2. writePos = Wrap(readPos + filled)
  BY <1>1, SumOfPositions, ModIsWrap DEF RingInv, PositionsAgree
<1>3. CASE filled + count > Capacity
  BY <1>1, <1>2, <1>3, Constants DEF Overrun, Wrap, Offset, Indices
<1>4. CASE ~(filled + count > Capacity)
  BY <1>1, <1>2, <1>4, Constants DEF Overrun, Wrap, Offset, Indices
<1>5. QED
  BY <1>3, <1>4
LEMMA HeldKept == ASSUME Base' = Base, UNCHANGED <<readPos, filled>>
                  PROVE  Held' = Held
BY HeldIs, HeldIsNext DEF HeldFrom

\* A step of one task that returns nothing leaves every answer.
LEMMA AnswersKept == ASSUME NEW t \in Tasks, step[t] # "returned", step'[t] # "returned",
                            \A u \in Tasks \ {t} : step'[u] = step[u] /\ samples'[u] = samples[u]
                     PROVE  Returned' = Returned
BY Constants DEF Returned

\* Until the writer gives the mutex back, its callers see none of a push.
LEMMA PushingStutters ==
    ASSUME RingInv,
           \/ \E n \in PushSizes : PushTake(n) \/ PushTimesOut(n)
           \/ PushFirst \/ PushSecond
    PROVE  Held' = Held /\ Returned' = Returned
<1>1. ASSUME NEW n \in PushSizes, PushTake(n) PROVE Held' = Held /\ Returned' = Returned
  <2>1. Base' = Base /\ UNCHANGED <<readPos, filled>>
    BY <1>1, Constants DEF PushTake, Base, ring
  <2>2. /\ step[Writer] # "returned" /\ step'[Writer] # "returned"
        /\ \A u \in Tasks \ {Writer} : step'[u] = step[u] /\ samples'[u] = samples[u]
    BY <1>1, Constants DEF PushTake, RingInv, RingTypes
  <2>3. QED
    BY <2>1, <2>2, HeldKept, AnswersKept, Constants
<1>2. ASSUME NEW n \in PushSizes, PushTimesOut(n) PROVE Held' = Held /\ Returned' = Returned
  <2>1. Base' = Base /\ UNCHANGED <<readPos, filled, step, samples>>
    BY <1>2 DEF PushTimesOut, Base, ring
  <2>2. QED
    BY <2>1, HeldKept DEF Returned
<1>3. ASSUME PushFirst PROVE Held' = Held /\ Returned' = Returned
  <2>1. mutex = Writer
    BY <1>3, Constants DEF PushFirst, RingInv, Locked, Inside
  <2>2. Base' = Base /\ UNCHANGED <<readPos, filled>>
    BY <1>3, <2>1 DEF PushFirst, Base
  <2>3. /\ step[Writer] # "returned" /\ step'[Writer] # "returned"
        /\ \A u \in Tasks \ {Writer} : step'[u] = step[u] /\ samples'[u] = samples[u]
    BY <1>3, Constants DEF PushFirst, RingInv, RingTypes
  <2>4. QED
    BY <2>2, <2>3, HeldKept, AnswersKept, Constants
<1>4. ASSUME PushSecond PROVE Held' = Held /\ Returned' = Returned
  <2>1. mutex = Writer
    BY <1>4, Constants DEF PushSecond, RingInv, Locked, Inside
  <2>2. Base' = Base /\ UNCHANGED <<readPos, filled>>
    BY <1>4, <2>1 DEF PushSecond, Base
  <2>3. /\ step[Writer] # "returned" /\ step'[Writer] # "returned"
        /\ \A u \in Tasks \ {Writer} : step'[u] = step[u] /\ samples'[u] = samples[u]
    BY <1>4, Constants DEF PushSecond, RingInv, RingTypes
  <2>4. QED
    BY <2>2, <2>3, HeldKept, AnswersKept, Constants
<1>5. QED
  BY <1>1, <1>2, <1>3, <1>4

\* A reader that has not given the mutex back has changed nothing.
LEMMA ReadingStutters ==
    ASSUME RingInv, NEW r \in Readers,
           \/ \E n \in Counts, takes \in BOOLEAN : ReadTake(r, n, takes)
           \/ ReadFirst(r) \/ ReadSecond(r)
    PROVE  Held' = Held /\ Returned' = Returned
<1>1. /\ UNCHANGED <<storage, readPos, filled>>
      /\ mutex # Writer /\ mutex' # Writer
  <2>1. CASE \E n \in Counts, takes \in BOOLEAN : ReadTake(r, n, takes)
    BY <2>1, Constants DEF ReadTake, ring
  <2>2. CASE ReadFirst(r)
    BY <2>2, ReaderHolds DEF ReadFirst, ring, Inside
  <2>3. CASE ReadSecond(r)
    BY <2>3, ReaderHolds DEF ReadSecond, ring, Inside
  <2>4. QED
    BY <2>1, <2>2, <2>3
<1>2. Base' = Base
  BY <1>1 DEF Base
<1>3. /\ step[r] # "returned" /\ step'[r] # "returned" /\ r \in Tasks
      /\ \A u \in Tasks \ {r} : step'[u] = step[u] /\ samples'[u] = samples[u]
  <2>1. step \in [Tasks -> Inside \cup {"idle", "returned"}] /\ r \in Tasks
        /\ samples \in [Tasks -> Seq(Numbers)]
    BY Constants DEF RingInv, RingTypes
  <2>2. CASE \E n \in Counts, takes \in BOOLEAN : ReadTake(r, n, takes)
    BY <2>1, <2>2 DEF ReadTake
  <2>3. CASE ReadFirst(r)
    BY <2>1, <2>3 DEF ReadFirst
  <2>4. CASE ReadSecond(r)
    BY <2>1, <2>4 DEF ReadSecond
  <2>5. QED
    BY <2>1, <2>2, <2>3, <2>4
<1>4. QED
  BY <1>1, <1>2, <1>3, HeldKept, AnswersKept
\* The end of a push brings the whole frame, and drops the oldest samples.
LEMMA PushGivePushes ==
    ASSUME RingInv, PushGive
    PROVE  /\ \E s \in {Frame(k, n) : k \in 0..MaxSamples, n \in PushSizes} : Fifo!PushSamples(s)
           /\ Fifo!PushSamples(samples[Writer])
<1> DEFINE s == samples[Writer]
           count == Len(s)
           over == Overrun(count)
           all == Held \o s
<1>1. /\ step[Writer] = "give" /\ mutex = Writer /\ count \in 1..Capacity /\ s \in Seq(Numbers)
      /\ readPos \in Indices /\ filled \in 0..Capacity
      /\ before \in [Indices -> Numbers] /\ storage \in [Indices -> Numbers]
      /\ \A k \in Indices : storage[k] = IF Offset(k) < count THEN s[Offset(k) + 1] ELSE before[k]
      /\ \E k \in Numbers, n \in PushSizes : s = Frame(k, n)
  BY Constants DEF PushGive, RingInv, RingTypes, Locked, PushInv, Inside
<1>2. /\ RingInv' /\ readPos' = Wrap(readPos + over) /\ filled' = filled + count - over
  BY PushGiveKeeps
<1>3. mutex' = Free /\ storage' = storage
      /\ step' = [step EXCEPT ![Writer] = "idle"] /\ samples' = [samples EXCEPT ![Writer] = <<>>]
  BY DEF PushGive
<1>4. over \in Nat /\ filled + count - over \in 0..Capacity
      /\ over = IF filled + count > Capacity THEN filled + count - Capacity ELSE 0
  BY <1>1, Constants DEF Overrun
<1> HIDE DEF s, count, over
<1>5. /\ Held \in Seq(Numbers) /\ Len(Held) = filled
      /\ \A i \in 1..filled : Held[i] = before[Wrap(readPos + i - 1)]
  BY <1>1, HeldIs, HeldIsSeq DEF Base
<1>6. /\ all \in Seq(Numbers) /\ Len(all) = filled + count
      /\ \A j \in 1..(filled + count) :
            all[j] = IF j <= filled THEN Held[j] ELSE s[j - filled]
  <2>1. /\ all \in Seq(Numbers) /\ Len(all) = Len(Held) + Len(s)
        /\ \A j \in 1..(Len(Held) + Len(s)) :
              all[j] = IF j <= Len(Held) THEN Held[j] ELSE s[j - Len(Held)]
    BY ONLY <1>1, <1>5, ConcatProperties
  <2>2. Len(s) = count
    BY DEF count
  <2>3. QED
    BY <1>5, <2>1, <2>2
<1>7. /\ Held' \in Seq(Numbers) /\ Len(Held') = filled'
      /\ \A i \in 1..filled' : Held'[i] = storage[Wrap(readPos' + i - 1)]
  <2>1. readPos' \in Indices /\ filled' \in 0..Capacity
    BY <1>2 DEF RingInv, RingTypes, Indices
  <2>2. Base' = storage
    BY <1>3, Constants DEF Base
  <2>3. Held' = HeldFrom(storage, readPos', filled')
    BY <2>2, HeldIsNext
  <2> DEFINE p == readPos'
             n == filled'
             h == Held'
  <2> HIDE DEF p, n, h
  <2>4. p \in Indices /\ n \in 0..Capacity /\ h = HeldFrom(storage, p, n)
    BY <2>1, <2>3 DEF p, n, h
  <2>5. h \in Seq(Numbers) /\ Len(h) = n /\ \A i \in 1..n : h[i] = storage[Wrap(p + i - 1)]
    BY <1>1, <2>4, HeldIsSeq
  <2>6. QED
    BY <2>5 DEF p, n, h
<1>8. \A i \in 1..filled' : Held'[i] = all[over + i]
  <2> SUFFICES ASSUME NEW i \in 1..filled' PROVE Held'[i] = all[over + i]
    OBVIOUS
  <2> DEFINE j == over + i
             k == Wrap(Wrap(readPos + over) + (j - over) - 1)
  <2>1. /\ j \in 1..(filled + count) /\ j > over /\ filled' \in 0..Capacity /\ j - over = i
    BY <1>1, <1>2, <1>4
  <2>2. k = Wrap(readPos' + i - 1)
    BY <1>2, <2>1
  <2>3. k \in Indices
    <3>1. readPos' \in Indices
      BY <1>2 DEF RingInv, RingTypes, Indices
    <3>2. i - 1 \in 0..Capacity
      BY <2>1, Constants
    <3>3. readPos' + (i - 1) \in 0..(2 * Capacity - 1)
      BY <3>1, <3>2, SumOfPositions
    <3>4. readPos' + i - 1 = readPos' + (i - 1)
      BY <2>1, <3>1, Constants DEF Indices
    <3>5. QED
      BY <2>2, <3>3, <3>4, ModIsWrap
  <2>4. Held'[i] = storage[k]
    BY <1>7, <2>2
  <2> HIDE DEF j, k
  <2>5. IF j <= filled THEN Offset(k) >= count /\ k = Wrap(readPos + j - 1)
                       ELSE Offset(k) = j - filled - 1
    BY <1>1, <2>1, <2>3, PushedPosition DEF k, over
  <2>6. CASE j <= filled
    <3>1. storage[k] = before[k]
      BY <1>1, <2>3, <2>5, <2>6, Constants DEF Offset, Indices, RingInv, RingTypes
    <3>2. all[j] = before[Wrap(readPos + j - 1)]
      BY <1>1, <1>5, <1>6, <2>1, <2>6
    <3>3. QED
      BY <2>4, <2>5, <2>6, <3>1, <3>2 DEF j
  <2>7. CASE ~(j <= filled)
    <3>1. Offset(k) = j - filled - 1 /\ j - filled - 1 < count
      BY <1>1, <2>1, <2>5, <2>7
    <3>2. storage[k] = s[j - filled - 1 + 1]
      BY <1>1, <2>3, <3>1
    <3>3. j - filled - 1 + 1 = j - filled
      BY <1>1, <2>1
    <3>4. QED
      BY <1>6, <2>1, <2>4, <2>7, <3>2, <3>3 DEF j
  <2>8. QED
    BY <2>6, <2>7
<1>9. Held' = Fifo!Newest(all, Capacity)
  <2>1. Fifo!Fewer(Capacity, all) = filled + count - over
    BY <1>1, <1>4, <1>6, Constants DEF Fifo!Fewer
  <2>2. Len(all) - (filled + count - over) + 1 = over + 1
    BY <1>1, <1>4, <1>6
  <2>3. Fifo!Newest(all, Capacity) = SubSeq(all, over + 1, Len(all))
    BY <2>1, <2>2 DEF Fifo!Newest, Fifo!LastOf
  <2>4. over <= Len(all) /\ Len(all) \in Nat /\ Len(all) - over = filled'
    BY <1>1, <1>2, <1>4, <1>6
  <2> HIDE DEF all
  <2>5. /\ SubSeq(all, over + 1, Len(all)) \in Seq(Numbers)
        /\ Len(SubSeq(all, over + 1, Len(all))) = filled'
        /\ \A i \in 1..filled' : SubSeq(all, over + 1, Len(all))[i] = all[over + i]
    <3>1. Len(all) <= Len(all)
      BY <2>4
    <3>2. /\ SubSeq(all, over + 1, Len(all)) \in Seq(Numbers)
          /\ Len(SubSeq(all, over + 1, Len(all))) = Len(all) - over
          /\ \A i \in 1..(Len(all) - over) : SubSeq(all, over + 1, Len(all))[i] = all[over + i]
      BY <1>4, <1>6, <2>4, <3>1, PartOf
    <3>3. QED
      BY <2>4, <3>2
  <2>6. Held' = SubSeq(all, over + 1, Len(all))
    BY <1>7, <1>8, <2>5, SeqEqual
  <2>7. QED
    BY <2>3, <2>6
<1>10. Returned' = Returned
  <2>1. /\ step[Writer] # "returned" /\ step'[Writer] # "returned"
        /\ \A u \in Tasks \ {Writer} : step'[u] = step[u] /\ samples'[u] = samples[u]
    BY <1>1, <1>3 DEF RingInv, RingTypes
  <2>2. QED
    BY <2>1, AnswersKept, Constants
<1>11. Fifo!PushSamples(s)
  BY <1>9, <1>10 DEF Fifo!PushSamples
<1>12. QED
  BY <1>1, <1>11 DEF Numbers, s
\* Counting back from the write position is counting on from the read position.
LEMMA NewestPositions ==
    ASSUME NEW p \in Indices, NEW n \in 0..Capacity, NEW c \in 1..n, NEW i \in 1..c
    PROVE  Wrap(Wrap(Wrap(p + n) + Capacity - c) + i - 1) = Wrap(p + ((n - c) + i) - 1)
<1>1. Capacity \in Nat \ {0} /\ p \in 0..(Capacity - 1)
  BY Constants DEF Indices
<1>2. CASE p + n < Capacity
  BY <1>1, <1>2 DEF Wrap
<1>3. CASE p + n >= Capacity
  BY <1>1, <1>3 DEF Wrap
<1>4. QED
  BY <1>1, <1>2, <1>3

LEMMA OldestPositions ==
    ASSUME NEW p \in Indices, NEW n \in 0..Capacity, NEW c \in 1..n, NEW i \in 1..(n - c)
    PROVE  Wrap(Wrap(p + c) + i - 1) = Wrap(p + (c + i) - 1)
<1>1. Capacity \in Nat \ {0} /\ p \in 0..(Capacity - 1)
  BY Constants DEF Indices
<1>2. CASE p + c < Capacity
  BY <1>1, <1>2 DEF Wrap
<1>3. CASE p + c >= Capacity
  BY <1>1, <1>3 DEF Wrap
<1>4. QED
  BY <1>1, <1>2, <1>3

\* What a reader copied is a part of what the buffer holds: the newest
\* samples for GetLast, the oldest for Read.
LEMMA CopiedIsHeld ==
    ASSUME RingInv, NEW r \in Readers, ReadGive(r)
    PROVE  LET q == request[r]
           IN  /\ Held \in Seq(Numbers) /\ Len(Held) = filled
               /\ samples[r] \in Seq(Numbers)
               /\ q.takes => samples[r] = SubSeq(Held, 1, q.count)
               /\ ~q.takes => samples[r] = SubSeq(Held, filled - q.count + 1, filled)
<1> DEFINE q == request[r]
<1>1. /\ step[r] = "give" /\ mutex = r /\ mutex # Writer
      /\ q.count \in 1..filled /\ filled \in 0..Capacity
      /\ readPos \in Indices /\ writePos \in Indices
      /\ q.start = IF q.takes THEN readPos ELSE Wrap(writePos + Capacity - q.count)
      /\ Len(samples[r]) = q.count
      /\ \A i \in 1..q.count : samples[r][i] = storage[Wrap(q.start + i - 1)]
      /\ storage \in [Indices -> Numbers] /\ samples[r] \in Seq(Numbers)
      /\ writePos = Wrap(readPos + filled)
  <2>1. step[r] = "give" /\ step[r] \in Inside
    BY DEF ReadGive, Inside
  <2>2. mutex = r /\ mutex # Writer
    BY <2>1, ReaderHolds
  <2>3. /\ filled \in 0..Capacity /\ readPos \in Indices /\ writePos \in Indices
        /\ storage \in [Indices -> Numbers] /\ samples[r] \in Seq(Numbers)
    BY Constants DEF RingInv, RingTypes
  <2>4. writePos = Wrap(readPos + filled)
    BY <2>3, SumOfPositions, ModIsWrap DEF RingInv, PositionsAgree
  <2>5. /\ q.count \in 1..filled
        /\ q.start = IF q.takes THEN readPos ELSE Wrap(writePos + Capacity - q.count)
        /\ Len(samples[r]) = q.count
        /\ \A i \in 1..q.count : samples[r][i] = storage[Wrap(q.start + i - 1)]
    BY <2>1, <2>2 DEF RingInv, ReadInv
  <2>6. QED
    BY <2>1, <2>2, <2>3, <2>4, <2>5
<1> HIDE DEF q
<1>2. /\ Held \in Seq(Numbers) /\ Len(Held) = filled
      /\ \A i \in 1..filled : Held[i] = storage[Wrap(readPos + i - 1)]
  BY <1>1, HeldIs, HeldIsSeq DEF Base
<1>3. ASSUME q.takes PROVE samples[r] = SubSeq(Held, 1, q.count)
  <2>1. /\ SubSeq(Held, 0 + 1, q.count) \in Seq(Numbers)
        /\ Len(SubSeq(Held, 0 + 1, q.count)) = q.count - 0
        /\ \A i \in 1..(q.count - 0) : SubSeq(Held, 0 + 1, q.count)[i] = Held[0 + i]
    <3>1. 0 \in Nat /\ q.count \in Nat /\ 0 <= q.count /\ q.count <= Len(Held)
      BY <1>1, <1>2
    <3>2. QED
      BY <1>2, <3>1, PartOf
  <2>2. \A i \in 1..q.count : samples[r][i] = SubSeq(Held, 1, q.count)[i]
    <3> SUFFICES ASSUME NEW i \in 1..q.count
                 PROVE  samples[r][i] = SubSeq(Held, 1, q.count)[i]
      OBVIOUS
    <3>1. i \in 1..(q.count - 0) /\ 0 + i = i /\ i \in 1..filled
      BY <1>1
    <3>2. SubSeq(Held, 1, q.count)[i] = Held[i]
      BY <2>1, <3>1
    <3>3. QED
      BY <1>1, <1>2, <1>3, <3>1, <3>2
  <2>3. /\ SubSeq(Held, 1, q.count) \in Seq(Numbers)
        /\ Len(SubSeq(Held, 1, q.count)) = Len(samples[r])
    BY <1>1, <2>1
  <2>4. QED
    BY <1>1, <2>2, <2>3, SeqEqual
<1>4. ASSUME ~q.takes PROVE samples[r] = SubSeq(Held, filled - q.count + 1, filled)
  <2> DEFINE a == filled - q.count
  <2>1. a \in Nat /\ filled \in Nat /\ a <= filled /\ filled <= Len(Held) /\ filled - a = q.count
    BY <1>1, <1>2
  <2> HIDE DEF a
  <2>2. /\ SubSeq(Held, a + 1, filled) \in Seq(Numbers)
        /\ Len(SubSeq(Held, a + 1, filled)) = q.count
        /\ \A i \in 1..q.count : SubSeq(Held, a + 1, filled)[i] = Held[a + i]
    <3>1. /\ SubSeq(Held, a + 1, filled) \in Seq(Numbers)
          /\ Len(SubSeq(Held, a + 1, filled)) = filled - a
          /\ \A i \in 1..(filled - a) : SubSeq(Held, a + 1, filled)[i] = Held[a + i]
      BY <1>2, <2>1, PartOf
    <3>2. QED
      BY <2>1, <3>1
  <2>3. \A i \in 1..q.count : Wrap(q.start + i - 1) = Wrap(readPos + (a + i) - 1)
    BY <1>1, <1>4, NewestPositions DEF a
  <2>4. \A i \in 1..q.count : samples[r][i] = SubSeq(Held, a + 1, filled)[i]
    <3> SUFFICES ASSUME NEW i \in 1..q.count
                 PROVE  samples[r][i] = SubSeq(Held, a + 1, filled)[i]
      OBVIOUS
    <3>1. a + i \in 1..filled
      BY <1>1, <2>1
    <3>2. Held[a + i] = storage[Wrap(readPos + (a + i) - 1)]
      BY <1>2, <3>1
    <3>3. QED
      BY <1>1, <2>2, <2>3, <3>2
  <2>5. samples[r] = SubSeq(Held, a + 1, filled)
    BY <1>1, <2>2, <2>4, SeqEqual
  <2>6. QED
    BY <2>5 DEF a
<1>5. QED
  BY <1>1, <1>2, <1>3, <1>4 DEF q
\* The end of a read is GetLast or Read of the abstract buffer.
LEMMA ReadGiveAnswers ==
    ASSUME RingInv, NEW r \in Readers, ReadGive(r)
    PROVE  \E n \in Counts : Fifo!AnswerLast(r, n) \/ Fifo!AnswerRead(r, n)
<1> DEFINE q == request[r]
<1>1. /\ step[r] = "give" /\ mutex = r /\ mutex # Writer
      /\ q.count \in 1..filled /\ filled \in 0..Capacity
      /\ readPos \in Indices /\ storage \in [Indices -> Numbers]
  <2>1. step[r] = "give" /\ step[r] \in Inside
    BY DEF ReadGive, Inside
  <2>2. mutex = r /\ mutex # Writer
    BY <2>1, ReaderHolds
  <2>3. QED
    BY <2>1, <2>2 DEF RingInv, RingTypes, ReadInv
<1>2. PICK n \in Counts : q.count = Least(n, filled)
  BY <1>1 DEF RingInv, ReadInv
<1>3. /\ mutex' = Free /\ step' = [step EXCEPT ![r] = "returned"]
      /\ UNCHANGED <<storage, samples>>
      /\ ~q.takes => UNCHANGED <<readPos, filled>>
  BY DEF ReadGive
<1>4. /\ Held \in Seq(Numbers) /\ Len(Held) = filled /\ samples[r] \in Seq(Numbers)
      /\ q.takes => samples[r] = SubSeq(Held, 1, q.count)
      /\ ~q.takes => samples[r] = SubSeq(Held, filled - q.count + 1, filled)
  BY CopiedIsHeld
<1>5. Returned' = [Returned EXCEPT ![r] = samples[r]]
  <2>1. /\ \A u \in Readers \ {r} : step'[u] = step[u]
        /\ step'[r] = "returned" /\ samples' = samples
    BY <1>3, Constants DEF RingInv, RingTypes
  <2>2. \A u \in Readers : (IF step'[u] = "returned" THEN samples'[u] ELSE <<>>)
                              = IF u = r THEN samples[r] ELSE Returned[u]
    <3> SUFFICES ASSUME NEW u \in Readers
                 PROVE  (IF step'[u] = "returned" THEN samples'[u] ELSE <<>>)
                              = IF u = r THEN samples[r] ELSE Returned[u]
      OBVIOUS
    <3>1. Returned[u] = IF step[u] = "returned" THEN samples[u] ELSE <<>>
      BY DEF Returned
    <3>2. CASE u = r
      BY <2>1, <3>2
    <3>3. CASE u # r
      BY <2>1, <3>1, <3>3
    <3>4. QED
      BY <3>2, <3>3
  <2>3. Returned' = [u \in Readers |-> IF u = r THEN samples[r] ELSE Returned[u]]
    BY <2>2 DEF Returned
  <2>4. Returned = [u \in Readers |-> Returned[u]]
    BY DEF Returned
  <2>5. QED
    BY <2>3, <2>4
<1>6. Base' = storage /\ Base = storage
  BY <1>1, <1>3, Constants DEF Base
<1>7. Fifo!Fewer(n, Held) = q.count
  BY <1>2, <1>4 DEF Fifo!Fewer, Least
<1>8. CASE ~q.takes
  <2>1. Held' = Held
    BY <1>3, <1>6, <1>8, HeldKept
  <2>2. Fifo!Newest(Held, n) = SubSeq(Held, filled - q.count + 1, filled)
    BY <1>4, <1>7 DEF Fifo!Newest, Fifo!LastOf
  <2>3. Fifo!AnswerLast(r, n)
    BY <1>4, <1>5, <1>8, <2>1, <2>2 DEF Fifo!AnswerLast
  <2>4. QED
    BY <2>3
<1>9. CASE q.takes
  <2>1. readPos' = Wrap(readPos + q.count) /\ filled' = filled - q.count
    BY <1>9, ReadGiveKeeps
  <2> HIDE DEF q
  <2> DEFINE p == readPos'
             m == filled'
             h == Held'
  <2>2. p \in Indices /\ m \in 0..Capacity /\ h = HeldFrom(storage, p, m)
    <3>1. readPos + q.count \in 0..(2 * Capacity - 1)
      BY <1>1, Constants DEF Indices
    <3>2. p \in Indices
      BY <2>1, <3>1, ModIsWrap
    <3>3. m \in 0..Capacity
      BY <1>1, <2>1, Constants
    <3>4. QED
      BY <1>6, <3>2, <3>3, HeldIsNext
  <2>3. p = Wrap(readPos + q.count) /\ m = filled - q.count
    BY <2>1
  <2> HIDE DEF p, m, h
  <2>4. h \in Seq(Numbers) /\ Len(h) = m /\ \A i \in 1..m : h[i] = storage[Wrap(p + i - 1)]
    BY <1>1, <2>2, HeldIsSeq
  <2>5. \A i \in 1..filled : Held[i] = storage[Wrap(readPos + i - 1)]
    BY <1>1, <1>6, HeldIs, HeldIsSeq
  <2>6. /\ SubSeq(Held, q.count + 1, filled) \in Seq(Numbers)
        /\ Len(SubSeq(Held, q.count + 1, filled)) = m
        /\ \A i \in 1..m : SubSeq(Held, q.count + 1, filled)[i] = Held[q.count + i]
    <3>1. q.count \in Nat /\ filled \in Nat /\ q.count <= filled /\ filled <= Len(Held)
      BY <1>1, <1>4
    <3>2. QED
      BY <1>4, <2>3, <3>1, PartOf
  <2>7. \A i \in 1..m : h[i] = SubSeq(Held, q.count + 1, filled)[i]
    <3> SUFFICES ASSUME NEW i \in 1..m PROVE h[i] = SubSeq(Held, q.count + 1, filled)[i]
      OBVIOUS
    <3>1. q.count + i \in 1..filled
      BY <1>1, <2>3
    <3>2. Wrap(p + i - 1) = Wrap(readPos + (q.count + i) - 1)
      BY <1>1, <2>3, OldestPositions
    <3>3. Held[q.count + i] = storage[Wrap(readPos + (q.count + i) - 1)]
      BY <2>5, <3>1
    <3>4. QED
      BY <2>4, <2>6, <3>2, <3>3
  <2>8. h = SubSeq(Held, q.count + 1, filled)
    BY <2>4, <2>6, <2>7, SeqEqual
  <2>9. Fifo!AnswerRead(r, n)
    BY <1>4, <1>5, <1>7, <1>9, <2>8 DEF Fifo!AnswerRead, h, q
  <2>10. QED
    BY <2>9
<1>10. QED
  BY <1>8, <1>9

LEMMA UseConsumes == ASSUME RingInv, NEW r \in Readers, Use(r)
                     PROVE  Fifo!Consume(r)
<1>1. /\ step' = [step EXCEPT ![r] = "idle"] /\ samples' = [samples EXCEPT ![r] = <<>>]
      /\ UNCHANGED <<storage, readPos, filled, mutex, before>>
  BY DEF Use, ring
<1>2. Held' = Held
  BY <1>1, HeldKept DEF Base
<1>3. /\ \A u \in Readers \ {r} : step'[u] = step[u] /\ samples'[u] = samples[u]
      /\ step'[r] = "idle"
  BY <1>1, Constants DEF RingInv, RingTypes
<1>4. Returned' = [Returned EXCEPT ![r] = <<>>]
  BY <1>3 DEF Returned
<1>5. QED
  BY <1>2, <1>4 DEF Fifo!Consume

LEMMA FifoInitially == Init => Fifo!FifoInit
<1> SUFFICES ASSUME Init PROVE Fifo!FifoInit
  OBVIOUS
<1>1. Held = <<>>
  <2>1. RingInv
    BY RingInit
  <2>2. Held \in Seq(Numbers) /\ Len(Held) = 0
    <3>1. Base \in [Indices -> Numbers] /\ readPos \in Indices /\ filled = 0 /\ filled \in 0..Capacity
      BY <2>1 DEF Init, RingInv, RingTypes, Base
    <3>2. QED
      BY <3>1, HeldIs, HeldIsSeq
  <2>3. QED
    BY <2>2, EmptySeq
<1>2. Returned = [r \in Readers |-> <<>>]
  BY Constants DEF Init, Returned
<1>3. QED
  BY <1>1, <1>2 DEF Fifo!FifoInit

\* Whatever the tasks interleave, the ring buffer is the bounded FIFO: GetLast
\* returns the newest samples and Read the oldest, in order and never a
\* mixture of two pushes, for every capacity and frames of every size.
THEOREM RefinesFifo == Spec => ImplementsFifo
<1>1. RingInv /\ [Next]_vars => [Fifo!FifoNext]_(Fifo!fifoVars)
  <2> SUFFICES ASSUME RingInv, [Next]_vars PROVE [Fifo!FifoNext]_(Fifo!fifoVars)
    OBVIOUS
  <2>1. CASE UNCHANGED vars
    BY <2>1, HeldKept DEF vars, ring, Base, Returned, Fifo!fifoVars
  <2>2. CASE PushGive
    BY <2>2, PushGivePushes DEF Fifo!FifoNext
  <2>3. ASSUME NEW r \in Readers, ReadGive(r) PROVE [Fifo!FifoNext]_(Fifo!fifoVars)
    BY <2>3, ReadGiveAnswers DEF Fifo!FifoNext
  <2>4. ASSUME NEW r \in Readers, Use(r) PROVE [Fifo!FifoNext]_(Fifo!fifoVars)
    BY <2>4, UseConsumes DEF Fifo!FifoNext
  <2>5. CASE \/ \E n \in PushSizes : PushTake(n) \/ PushTimesOut(n)
             \/ PushFirst \/ PushSecond
    BY <2>5, PushingStutters DEF Fifo!fifoVars
  <2>6. ASSUME NEW r \in Readers,
               \/ \E n \in Counts, takes \in BOOLEAN : ReadTake(r, n, takes)
               \/ ReadFirst(r) \/ ReadSecond(r)
        PROVE  [Fifo!FifoNext]_(Fifo!fifoVars)
    BY <2>6, ReadingStutters DEF Fifo!fifoVars
  <2>7. QED
    BY <2>1, <2>2, <2>3, <2>4, <2>5, <2>6 DEF Next
<1>2. QED
  BY <1>1, RingInit, RingStep, FifoInitially, PTL DEF Spec, ImplementsFifo, Fifo!FifoSpec
-----------------------------------------------------------------------------
(* The order of capture *)

Increasing(s) == \A i, j \in 1..Len(s) : i < j => s[i] < s[j]

\* The samples held are in order, and older than the frame being pushed.
OrderInv == /\ Increasing(Held)
            /\ \A i \in 1..Len(Held) : Held[i] <= captured
            /\ mutex = Writer => \A i \in 1..Len(Held) : Held[i] < samples[Writer][1]
            /\ \A r \in Readers : Increasing(Returned[r])

LEMMA HeldType == ASSUME RingInv
                  PROVE  Held \in Seq(Numbers) /\ Len(Held) = filled /\ Len(Held) \in Nat
                         /\ \A i \in 1..Len(Held) : Held[i] \in Int
<1>1. Base \in [Indices -> Numbers] /\ readPos \in Indices /\ filled \in 0..Capacity
  BY DEF RingInv, RingTypes, Base
<1>2. Held \in Seq(Numbers) /\ Len(Held) = filled
  BY <1>1, HeldIs, HeldIsSeq
<1>3. \A i \in 1..Len(Held) : Held[i] \in Numbers
  BY <1>2, ElementOfSeq
<1>4. QED
  BY <1>1, <1>2, <1>3, Constants DEF Numbers

LEMMA PartIncreases ==
    ASSUME NEW s \in Seq(Numbers), NEW a \in Nat, NEW b \in Nat, a <= b, b <= Len(s),
           Increasing(s), NEW top \in Int, \A i \in 1..Len(s) : s[i] <= top
    PROVE  /\ Increasing(SubSeq(s, a + 1, b))
           /\ \A i \in 1..Len(SubSeq(s, a + 1, b)) : SubSeq(s, a + 1, b)[i] <= top
<1>1. /\ Len(SubSeq(s, a + 1, b)) = b - a
      /\ \A i \in 1..(b - a) : SubSeq(s, a + 1, b)[i] = s[a + i]
  BY PartOf
<1>2. Len(s) \in Nat /\ \A i \in 1..(b - a) : a + i \in 1..Len(s)
  BY LenProperties
<1>3. QED
  BY <1>1, <1>2 DEF Increasing

\* A frame appended to older samples keeps the order.
LEMMA JoinIncreases ==
    ASSUME NEW s \in Seq(Numbers), NEW f \in Seq(Numbers), Len(f) > 0,
           Increasing(s), Increasing(f), NEW top \in Int,
           \A i \in 1..Len(s) : s[i] < f[1], \A i \in 1..Len(f) : f[i] <= top
    PROVE  /\ s \o f \in Seq(Numbers) /\ Increasing(s \o f)
           /\ \A i \in 1..Len(s \o f) : (s \o f)[i] <= top
<1>1. /\ s \o f \in Seq(Numbers) /\ Len(s \o f) = Len(s) + Len(f)
      /\ \A i \in 1..(Len(s) + Len(f)) :
            (s \o f)[i] = IF i <= Len(s) THEN s[i] ELSE f[i - Len(s)]
  BY ConcatProperties
<1>2. /\ Len(s) \in Nat /\ Len(f) \in Nat
      /\ \A i \in 1..Len(s) : s[i] \in Int
      /\ \A i \in 1..Len(f) : f[i] \in Int
  <2>1. /\ \A i \in 1..Len(s) : s[i] \in Numbers
        /\ \A i \in 1..Len(f) : f[i] \in Numbers
    BY ElementOfSeq
  <2>2. QED
    BY <2>1, LenProperties, Constants DEF Numbers
<1>3. \A i \in 1..Len(f) : f[1] <= f[i]
  BY <1>2 DEF Increasing
<1>4. ASSUME NEW i \in 1..(Len(s) + Len(f)) PROVE (s \o f)[i] <= top
  <2>1. CASE i <= Len(s)
    <3>1. s[i] < f[1] /\ f[1] <= top /\ s[i] \in Int /\ f[1] \in Int
      BY <1>2, <2>1
    <3>2. QED
      BY <1>1, <2>1, <3>1
  <2>2. CASE ~(i <= Len(s))
    <3>1. i - Len(s) \in 1..Len(f)
      BY <1>2, <2>2
    <3>2. QED
      BY <1>1, <2>2, <3>1
  <2>3. QED
    BY <2>1, <2>2
<1>5. ASSUME NEW i \in 1..(Len(s) + Len(f)), NEW j \in 1..(Len(s) + Len(f)), i < j
      PROVE  (s \o f)[i] < (s \o f)[j]
  <2>1. CASE j <= Len(s)
    BY <1>1, <1>2, <1>5, <2>1 DEF Increasing
  <2>2. CASE i <= Len(s) /\ ~(j <= Len(s))
    <3>1. j - Len(s) \in 1..Len(f) /\ i \in 1..Len(s)
      BY <1>2, <2>2
    <3>2. s[i] < f[1] /\ f[1] <= f[j - Len(s)] /\ s[i] \in Int /\ f[1] \in Int
          /\ f[j - Len(s)] \in Int
      BY <1>2, <1>3, <3>1
    <3>3. QED
      BY <1>1, <2>2, <3>2
  <2>3. CASE ~(i <= Len(s)) /\ ~(j <= Len(s))
    <3>1. i - Len(s) \in 1..Len(f) /\ j - Len(s) \in 1..Len(f) /\ i - Len(s) < j - Len(s)
      BY <1>2, <1>5, <2>3
    <3>2. QED
      BY <1>1, <2>3, <3>1 DEF Increasing
  <2>4. QED
    BY <1>2, <1>5, <2>1, <2>2, <2>3
<1>6. QED
  BY <1>1, <1>4, <1>5 DEF Increasing
LEMMA FrameIncreases ==
    ASSUME NEW k \in Nat, NEW n \in PushSizes, k + n <= MaxSamples
    PROVE  /\ Increasing(Frame(k, n))
           /\ \A i \in 1..Len(Frame(k, n)) : Frame(k, n)[i] > k /\ Frame(k, n)[i] <= k + n
<1>1. /\ Len(Frame(k, n)) = Least(n, Capacity) /\ Len(Frame(k, n)) \in 1..Capacity
      /\ \A i \in 1..Len(Frame(k, n)) : Frame(k, n)[i] = k + n - Least(n, Capacity) + i
  BY FrameType
<1>2. n \in Nat /\ Least(n, Capacity) \in Nat /\ Least(n, Capacity) <= n
  BY Constants DEF Least
<1>3. QED
  BY <1>1, <1>2 DEF Increasing

LEMMA OrderInit == Init => OrderInv
<1> SUFFICES ASSUME Init PROVE OrderInv
  OBVIOUS
<1>1. Len(Held) = 0
  BY RingInit, HeldType DEF Init
<1>2. \A r \in Readers : Returned[r] = <<>> /\ Len(<<>>) = 0
  BY EmptySeq, Constants DEF Init, Returned
<1>3. mutex # Writer
  BY Constants DEF Init
<1>4. QED
  BY <1>1, <1>2, <1>3 DEF OrderInv, Increasing

LEMMA OrderStep == RingInv /\ OrderInv /\ [Next]_vars => OrderInv'
<1> SUFFICES ASSUME RingInv, OrderInv, [Next]_vars PROVE OrderInv'
  OBVIOUS
<1>1. /\ Held \in Seq(Numbers) /\ Len(Held) \in Nat /\ captured \in Nat
      /\ \A i \in 1..Len(Held) : Held[i] \in Int
      /\ captured \in Int
  BY HeldType, Constants DEF RingInv, RingTypes, Numbers
<1>2. ASSUME NEW n \in PushSizes, PushTake(n) PROVE OrderInv'
  <2>1. Held' = Held /\ Returned' = Returned
    BY <1>2, PushingStutters
  <2>2. captured' = captured + n /\ captured + n <= MaxSamples /\ n \in Nat
    BY <1>2, Constants DEF PushTake
  <2>3. samples'[Writer] = Frame(captured, n)
    BY <1>2, Constants DEF PushTake, RingInv, RingTypes
  <2>4. Frame(captured, n)[1] > captured /\ Frame(captured, n)[1] \in Int
    <3>1. /\ Len(Frame(captured, n)) \in 1..Capacity /\ 1 \in 1..Len(Frame(captured, n))
          /\ Frame(captured, n) \in Seq(Numbers)
      BY <1>1, <2>2, FrameType, Constants
    <3>2. Frame(captured, n)[1] \in Numbers
      BY <3>1, ElementOfSeq
    <3>3. QED
      BY <1>1, <2>2, <3>1, <3>2, FrameIncreases, Constants DEF Numbers
  <2>5. QED
    BY <1>1, <2>1, <2>2, <2>3, <2>4 DEF OrderInv
<1>3. ASSUME NEW n \in PushSizes, PushTimesOut(n) PROVE OrderInv'
  <2>1. Held' = Held /\ Returned' = Returned
    BY <1>3, PushingStutters
  <2>2. captured' = captured + n /\ n \in Nat /\ UNCHANGED <<mutex, samples>>
    BY <1>3, Constants DEF PushTimesOut
  <2>3. QED
    BY <1>1, <2>1, <2>2 DEF OrderInv
<1>4. CASE PushFirst \/ PushSecond
  <2>1. Held' = Held /\ Returned' = Returned
    BY <1>4, PushingStutters
  <2>2. UNCHANGED <<captured, mutex, samples>>
    BY <1>4 DEF PushFirst, PushSecond
  <2>3. QED
    BY <2>1, <2>2 DEF OrderInv
<1>5. CASE PushGive
  <2> DEFINE s == samples[Writer]
             all == Held \o s
             a == Len(all) - Fifo!Fewer(Capacity, all)
  <2>1. mutex = Writer /\ mutex' = Free /\ captured' = captured
        /\ samples \in [Tasks -> Seq(Numbers)]
    BY <1>5, Constants DEF PushGive, RingInv, RingTypes, Locked, Inside
  <2>2. Held' = Fifo!Newest(all, Capacity) /\ Returned' = Returned
    BY <1>5, PushGivePushes DEF Fifo!PushSamples
  <2>3. /\ s \in Seq(Numbers) /\ Len(s) > 0 /\ Increasing(s)
        /\ \A i \in 1..Len(s) : s[i] <= captured
    <3>1. PICK k \in Numbers, n \in PushSizes : s = Frame(k, n) /\ captured = k + n
      BY <2>1 DEF RingInv, PushInv
    <3>2. k \in Nat /\ k + n <= MaxSamples
      BY <3>1, Constants DEF RingInv, RingTypes, Numbers
    <3>3. Frame(k, n) \in Seq(Numbers) /\ Len(Frame(k, n)) \in 1..Capacity
      BY <3>2, FrameType
    <3>4. QED
      BY <3>1, <3>2, <3>3, FrameIncreases, Constants
  <2>4. \A i \in 1..Len(Held) : Held[i] < s[1]
    BY <2>1 DEF OrderInv
  <2> HIDE DEF s, all
  <2>5. /\ all \in Seq(Numbers) /\ Increasing(all)
        /\ \A i \in 1..Len(all) : all[i] <= captured
    BY <1>1, <2>3, <2>4, JoinIncreases DEF OrderInv, all
  <2>6. Len(all) \in Nat /\ a \in Nat /\ a <= Len(all) /\ Len(all) <= Len(all)
    BY <2>5, LenProperties, Constants DEF Fifo!Fewer
  <2>7. Held' = SubSeq(all, a + 1, Len(all))
    BY <2>2 DEF Fifo!Newest, Fifo!LastOf
  <2> HIDE DEF a
  <2>8. Increasing(Held') /\ \A i \in 1..Len(Held') : Held'[i] <= captured
    BY <1>1, <2>5, <2>6, <2>7, PartIncreases
  <2>9. QED
    BY <2>1, <2>2, <2>8, Constants DEF OrderInv, Increasing
<1>6. ASSUME NEW r \in Readers,
             \/ \E n \in Counts, takes \in BOOLEAN : ReadTake(r, n, takes)
             \/ ReadFirst(r) \/ ReadSecond(r)
      PROVE  OrderInv'
  <2>1. Held' = Held /\ Returned' = Returned
    BY <1>6, ReadingStutters
  <2>2. captured' = captured /\ mutex' # Writer
    BY <1>6, ReaderHolds, Constants DEF ReadTake, ReadFirst, ReadSecond, Inside
  <2>3. QED
    BY <2>1, <2>2 DEF OrderInv
<1>7. ASSUME NEW r \in Readers, ReadGive(r) PROVE OrderInv'
  <2>1. captured' = captured /\ mutex' # Writer
    BY <1>7, Constants DEF ReadGive
  <2>2. PICK n \in Counts : Fifo!AnswerLast(r, n) \/ Fifo!AnswerRead(r, n)
    BY <1>7, ReadGiveAnswers
  <2> DEFINE c == Fifo!Fewer(n, Held)
             a == Len(Held) - c
  <2>3. /\ c \in Nat /\ c <= Len(Held) /\ a \in Nat /\ a <= Len(Held) /\ Len(Held) <= Len(Held)
        /\ 0 \in Nat /\ 0 <= c
    BY <1>1, Constants DEF Fifo!Fewer
  <2> HIDE DEF c, a
  <2>4. /\ Increasing(SubSeq(Held, a + 1, Len(Held)))
        /\ Increasing(SubSeq(Held, 0 + 1, c))
        /\ Increasing(SubSeq(Held, c + 1, Len(Held)))
        /\ \A i \in 1..Len(SubSeq(Held, c + 1, Len(Held))) :
              SubSeq(Held, c + 1, Len(Held))[i] <= captured
    BY <1>1, <2>3, PartIncreases DEF OrderInv
  <2>5. Returned \in [Readers -> Seq(Numbers)]
    <3>1. samples \in [Tasks -> Seq(Numbers)] /\ <<>> \in Seq(Numbers)
      BY EmptySeq DEF RingInv, RingTypes
    <3>2. QED
      BY <3>1, Constants DEF Returned
  <2>6. CASE Fifo!AnswerLast(r, n)
    <3>1. /\ Returned' = [Returned EXCEPT ![r] = SubSeq(Held, a + 1, Len(Held))]
          /\ Held' = Held
      BY <2>6 DEF Fifo!AnswerLast, Fifo!Newest, Fifo!LastOf, a, c
    <3>2. \A u \in Readers : Increasing(Returned'[u])
      BY <2>4, <2>5, <3>1 DEF OrderInv
    <3>3. QED
      BY <2>1, <3>1, <3>2 DEF OrderInv
  <2>7. CASE Fifo!AnswerRead(r, n)
    <3>1. /\ Returned' = [Returned EXCEPT ![r] = SubSeq(Held, 0 + 1, c)]
          /\ Held' = SubSeq(Held, c + 1, Len(Held))
      BY <2>7 DEF Fifo!AnswerRead, c
    <3>2. \A u \in Readers : Increasing(Returned'[u])
      BY <2>4, <2>5, <3>1 DEF OrderInv
    <3>3. QED
      BY <2>1, <2>4, <3>1, <3>2 DEF OrderInv
  <2>8. QED
    BY <2>2, <2>6, <2>7
<1>8. ASSUME NEW r \in Readers, Use(r) PROVE OrderInv'
  <2>1. Held' = Held /\ Returned' = [Returned EXCEPT ![r] = <<>>]
    BY <1>8, UseConsumes DEF Fifo!Consume
  <2>2. /\ captured' = captured /\ mutex' = mutex /\ samples'[Writer] = samples[Writer]
    BY <1>8, Constants DEF Use, RingInv, RingTypes
  <2>3. \A u \in Readers : Returned'[u] = Returned[u] \/ Returned'[u] = <<>>
    BY <2>1 DEF Returned
  <2>4. Increasing(<<>>)
    BY EmptySeq DEF Increasing
  <2>5. QED
    BY <2>1, <2>2, <2>3, <2>4 DEF OrderInv
<1>9. CASE UNCHANGED vars
  <2>1. Held' = Held /\ Returned' = Returned
    BY <1>9, HeldKept DEF vars, ring, Base, Returned
  <2>2. QED
    BY <1>9, <2>1 DEF vars, OrderInv
<1>10. QED
  BY <1>2, <1>3, <1>4, <1>5, <1>6, <1>7, <1>8, <1>9 DEF Next

\* No stale sample survives next to a newer one: what GetLast and Read return
\* is in capture order, over every overrun, wrap and frame lost to a timeout.
THEOREM CaptureOrder == Spec => []InCaptureOrder
<1>1. RingInv /\ OrderInv => InCaptureOrder
  <2> SUFFICES ASSUME RingInv, OrderInv, NEW r \in Readers, step[r] = "returned",
                      NEW i \in 1..(Len(samples[r]) - 1)
               PROVE  samples[r][i] < samples[r][i + 1]
    BY DEF InCaptureOrder
  <2>1. Returned[r] = samples[r] /\ Increasing(samples[r])
    BY DEF Returned, OrderInv
  <2>2. Len(samples[r]) \in Nat
    BY LenProperties, Constants DEF RingInv, RingTypes
  <2>3. i \in 1..Len(samples[r]) /\ i + 1 \in 1..Len(samples[r]) /\ i < i + 1
    BY <2>2
  <2>4. QED
    BY <2>1, <2>3 DEF Increasing
<1>2. QED
  BY <1>1, RingInit, RingStep, OrderInit, OrderStep, PTL DEF Spec
-----------------------------------------------------------------------------
(* Nothing but captured samples *)

\* The sample 0 is what the storage holds before anything is captured.
Captured(s) == \A i \in 1..Len(s) : s[i] > 0

CapturedInv == Captured(Held) /\ \A t \in Tasks : Captured(samples[t])

LEMMA PartCaptured ==
    ASSUME NEW s \in Seq(Numbers), NEW a \in Nat, NEW b \in Nat, a <= b, b <= Len(s),
           Captured(s)
    PROVE  Captured(SubSeq(s, a + 1, b))
<1>1. /\ Len(SubSeq(s, a + 1, b)) = b - a
      /\ \A i \in 1..(b - a) : SubSeq(s, a + 1, b)[i] = s[a + i]
  BY PartOf
<1>2. Len(s) \in Nat /\ \A i \in 1..(b - a) : a + i \in 1..Len(s)
  BY LenProperties
<1>3. QED
  BY <1>1, <1>2 DEF Captured

LEMMA JoinCaptured ==
    ASSUME NEW s \in Seq(Numbers), NEW f \in Seq(Numbers), Captured(s), Captured(f)
    PROVE  s \o f \in Seq(Numbers) /\ Captured(s \o f)
<1>1. /\ s \o f \in Seq(Numbers) /\ Len(s \o f) = Len(s) + Len(f)
      /\ \A i \in 1..(Len(s) + Len(f)) :
            (s \o f)[i] = IF i <= Len(s) THEN s[i] ELSE f[i - Len(s)]
  BY ConcatProperties
<1>2. Len(s) \in Nat /\ Len(f) \in Nat
  BY LenProperties
<1>3. ASSUME NEW i \in 1..(Len(s) + Len(f)) PROVE (s \o f)[i] > 0
  <2>1. CASE i <= Len(s)
    BY <1>1, <1>2, <2>1 DEF Captured
  <2>2. CASE ~(i <= Len(s))
    <3>1. i - Len(s) \in 1..Len(f)
      BY <1>2, <2>2
    <3>2. QED
      BY <1>1, <2>2, <3>1 DEF Captured
  <2>3. QED
    BY <2>1, <2>2
<1>4. QED
  BY <1>1, <1>3 DEF Captured

\* What a reader is about to copy is a part of what the buffer holds.
LEMMA RequestedCaptured ==
    ASSUME RingInv, Captured(Held), NEW r \in Readers, mutex = r
    PROVE  LET q == request[r]
           IN  \A i \in 1..q.count : storage[Wrap(q.start + i - 1)] > 0
<1> DEFINE q == request[r]
<1>1. /\ q.count \in 1..filled /\ filled \in 0..Capacity
      /\ readPos \in Indices /\ writePos \in Indices
      /\ q.start = IF q.takes THEN readPos ELSE Wrap(writePos + Capacity - q.count)
      /\ storage \in [Indices -> Numbers] /\ mutex # Writer
  BY Constants DEF RingInv, RingTypes, ReadInv
<1>2. writePos = Wrap(readPos + filled)
  BY <1>1, SumOfPositions, ModIsWrap DEF RingInv, PositionsAgree
<1> HIDE DEF q
<1>3. /\ Len(Held) = filled
      /\ \A i \in 1..filled : Held[i] = storage[Wrap(readPos + i - 1)]
  BY <1>1, HeldIs, HeldIsSeq DEF Base
<1>4. \A i \in 1..filled : storage[Wrap(readPos + i - 1)] > 0
  BY <1>3 DEF Captured
<1>5. ASSUME NEW i \in 1..q.count PROVE storage[Wrap(q.start + i - 1)] > 0
  <2>1. CASE q.takes
    <3>1. i \in 1..filled
      BY <1>1
    <3>2. QED
      BY <1>1, <1>4, <2>1, <3>1
  <2>2. CASE ~q.takes
    <3>1. (filled - q.count) + i \in 1..filled
      BY <1>1
    <3>2. Wrap(q.start + i - 1) = Wrap(readPos + ((filled - q.count) + i) - 1)
      BY <1>1, <1>2, <2>2, NewestPositions
    <3>3. QED
      BY <1>4, <3>1, <3>2
  <2>3. QED
    BY <2>1, <2>2
<1>6. QED
  BY <1>5 DEF q

LEMMA CapturedInit == Init => CapturedInv
<1> SUFFICES ASSUME Init PROVE CapturedInv
  OBVIOUS
<1>1. Len(Held) = 0
  BY RingInit, HeldType DEF Init
<1>2. \A t \in Tasks : samples[t] = <<>> /\ Len(<<>>) = 0
  BY EmptySeq DEF Init
<1>3. QED
  BY <1>1, <1>2 DEF CapturedInv, Captured

LEMMA CapturedStep == RingInv /\ CapturedInv /\ [Next]_vars => CapturedInv'
<1> SUFFICES ASSUME RingInv, CapturedInv, [Next]_vars PROVE CapturedInv'
  OBVIOUS
<1>1. /\ RingInv' /\ samples \in [Tasks -> Seq(Numbers)] /\ captured \in Nat
      /\ Held \in Seq(Numbers) /\ Len(Held) \in Nat
  <2>1. RingInv'
    BY RingStep
  <2>2. Held \in Seq(Numbers) /\ Len(Held) \in Nat
    BY HeldType
  <2>3. samples \in [Tasks -> Seq(Numbers)] /\ captured \in Nat
    BY Constants DEF RingInv, RingTypes, Numbers
  <2>4. QED
    BY <2>1, <2>2, <2>3
<1>2. Captured(<<>>)
  BY EmptySeq DEF Captured
<1>3. ASSUME NEW n \in PushSizes, PushTake(n) PROVE CapturedInv'
  <2>1. Held' = Held
    BY <1>3, PushingStutters
  <2>2. captured + n <= MaxSamples /\ samples' = [samples EXCEPT ![Writer] = Frame(captured, n)]
    BY <1>3 DEF PushTake
  <2>3. Captured(Frame(captured, n))
    <3>1. /\ \A i \in 1..Len(Frame(captured, n)) : Frame(captured, n)[i] > captured
          /\ Frame(captured, n) \in Seq(Numbers)
      BY <1>1, <2>2, FrameIncreases, FrameType
    <3>2. \A i \in 1..Len(Frame(captured, n)) : Frame(captured, n)[i] \in Numbers
      BY <3>1, ElementOfSeq
    <3>3. QED
      BY <1>1, <3>1, <3>2, Constants DEF Captured, Numbers
  <2>4. QED
    BY <1>1, <2>1, <2>2, <2>3, Constants DEF CapturedInv
<1>4. ASSUME NEW n \in PushSizes, PushTimesOut(n) PROVE CapturedInv'
  <2>1. Held' = Held /\ samples' = samples
    BY <1>4, PushingStutters DEF PushTimesOut
  <2>2. QED
    BY <2>1 DEF CapturedInv
<1>5. CASE PushFirst \/ PushSecond
  <2>1. Held' = Held /\ samples' = samples
    BY <1>5, PushingStutters DEF PushFirst, PushSecond
  <2>2. QED
    BY <2>1 DEF CapturedInv
<1>6. CASE PushGive
  <2> DEFINE s == samples[Writer]
             all == Held \o s
             a == Len(all) - Fifo!Fewer(Capacity, all)
  <2>1. Held' = Fifo!Newest(all, Capacity) /\ samples' = [samples EXCEPT ![Writer] = <<>>]
    BY <1>6, PushGivePushes DEF Fifo!PushSamples, PushGive
  <2>2. s \in Seq(Numbers) /\ Captured(s)
    BY <1>1, Constants DEF CapturedInv
  <2> HIDE DEF s
  <2>3. all \in Seq(Numbers) /\ Captured(all)
    BY <1>1, <2>2, JoinCaptured DEF CapturedInv
  <2> HIDE DEF all
  <2>4. Len(all) \in Nat /\ a \in Nat /\ a <= Len(all) /\ Len(all) <= Len(all)
    BY <2>3, LenProperties, Constants DEF Fifo!Fewer
  <2>5. Held' = SubSeq(all, a + 1, Len(all))
    BY <2>1 DEF Fifo!Newest, Fifo!LastOf
  <2> HIDE DEF a
  <2>6. Captured(Held')
    BY <2>3, <2>4, <2>5, PartCaptured
  <2>7. QED
    BY <1>1, <1>2, <2>1, <2>6 DEF CapturedInv
<1>7. ASSUME NEW r \in Readers, NEW n \in Counts, NEW takes \in BOOLEAN, ReadTake(r, n, takes)
      PROVE  CapturedInv'
  <2>1. Held' = Held /\ samples' = samples
    BY <1>7, ReadingStutters DEF ReadTake
  <2>2. QED
    BY <2>1 DEF CapturedInv
<1>8. ASSUME NEW r \in Readers, ReadFirst(r) \/ ReadSecond(r) PROVE CapturedInv'
  <2>1. Held' = Held
    BY <1>8, ReadingStutters
  <2>2. /\ mutex = r /\ mutex' = r /\ request' = request /\ storage' = storage
        /\ step'[r] \in {"second", "give"}
        /\ \A t \in Tasks : t # r => samples'[t] = samples[t]
    <3>1. step \in [Tasks -> Inside \cup {"idle", "returned"}]
      BY DEF RingInv, RingTypes
    <3>2. step[r] \in Inside
      BY <1>8 DEF ReadFirst, ReadSecond, Inside
    <3>3. mutex = r
      BY <3>2, ReaderHolds
    <3>4. QED
      BY <1>1, <1>8, <3>1, <3>3, Constants DEF ReadFirst, ReadSecond, ring
  <2>3. \A i \in 1..request[r].count : storage[Wrap(request[r].start + i - 1)] > 0
    BY <2>2, RequestedCaptured DEF CapturedInv
  <2>4. ASSUME step'[r] = "give" PROVE Captured(samples'[r])
    <3>1. /\ Len(samples'[r]) = request[r].count
          /\ \A i \in 1..request[r].count :
                samples'[r][i] = storage[Wrap(request[r].start + i - 1)]
      BY <1>1, <2>2, <2>4 DEF RingInv, ReadInv
    <3>2. QED
      BY <2>3, <3>1 DEF Captured
  <2>5. ASSUME step'[r] = "second" PROVE Captured(samples'[r])
    <3> DEFINE q == request[r]
               n == FirstCount(request[r])
    <3>1. FirstCount(request[r])' = n
      BY <2>2 DEF FirstCount
    <3>2. /\ Len(samples'[r]) = n
          /\ \A i \in 1..n : samples'[r][i] = storage[q.start + i - 1]
      BY <1>1, <2>2, <2>5, <3>1 DEF RingInv, ReadInv
    <3>3. n \in 1..q.count /\ n <= Capacity - q.start /\ q.start \in Indices
          /\ q.count \in 1..Capacity
      <4>1. step[r] \in Inside
        BY <1>8 DEF ReadFirst, ReadSecond, Inside
      <4>2. QED
        BY <4>1, ReaderHolds
    <3> HIDE DEF n, q
    <3>4. \A i \in 1..n : i \in 1..q.count /\ Wrap(q.start + i - 1) = q.start + i - 1
      BY <3>3, Constants DEF Wrap, Indices
    <3>5. QED
      BY <2>3, <3>2, <3>4 DEF Captured, q
  <2>6. Captured(samples'[r])
    BY <2>2, <2>4, <2>5
  <2>7. QED
    BY <2>1, <2>2, <2>6 DEF CapturedInv
<1>9. ASSUME NEW r \in Readers, ReadGive(r) PROVE CapturedInv'
  <2>1. samples' = samples
    BY <1>9 DEF ReadGive
  <2>2. PICK n \in Counts : Fifo!AnswerLast(r, n) \/ Fifo!AnswerRead(r, n)
    BY <1>9, ReadGiveAnswers
  <2> DEFINE c == Fifo!Fewer(n, Held)
  <2>3. c \in Nat /\ c <= Len(Held) /\ Len(Held) <= Len(Held)
    BY <1>1, Constants DEF Fifo!Fewer
  <2> HIDE DEF c
  <2>4. Captured(SubSeq(Held, c + 1, Len(Held)))
    BY <1>1, <2>3, PartCaptured DEF CapturedInv
  <2>5. Held' = Held \/ Held' = SubSeq(Held, c + 1, Len(Held))
    BY <2>2 DEF Fifo!AnswerLast, Fifo!AnswerRead, c
  <2>6. QED
    BY <2>1, <2>4, <2>5 DEF CapturedInv
<1>10. ASSUME NEW r \in Readers, Use(r) PROVE CapturedInv'
  <2>1. Held' = Held /\ samples' = [samples EXCEPT ![r] = <<>>]
    BY <1>10, UseConsumes DEF Fifo!Consume, Use
  <2>2. QED
    BY <1>1, <1>2, <2>1 DEF CapturedInv
<1>11. CASE UNCHANGED vars
  <2>1. Held' = Held /\ samples' = samples
    BY <1>11, HeldKept DEF vars, ring, Base
  <2>2. QED
    BY <2>1 DEF CapturedInv
<1>12. QED
  BY <1>3, <1>4, <1>5, <1>6, <1>7, <1>8, <1>9, <1>10, <1>11 DEF Next

\* Types of the ring, and that no task is ever given a sample that was not
\* captured: neither storage before its first use nor beyond what is filled
\* (RingBuffer::GetLast and Read).
THEOREM TypeCorrect == Spec => []TypeOK
<1>1. RingInv /\ CapturedInv => TypeOK
  <2> SUFFICES ASSUME RingInv, CapturedInv PROVE TypeOK
    OBVIOUS
  <2>1. \A t \in Tasks : samples[t] \in Seq(1..MaxSamples)
    <3> SUFFICES ASSUME NEW t \in Tasks PROVE samples[t] \in Seq(1..MaxSamples)
      OBVIOUS
    <3>1. samples[t] \in Seq(Numbers) /\ Captured(samples[t])
      BY DEF RingInv, RingTypes, CapturedInv
    <3>2. /\ Len(samples[t]) \in Nat
          /\ samples[t] \in [1..Len(samples[t]) -> Numbers]
      BY <3>1, LenProperties
    <3>3. samples[t] \in [1..Len(samples[t]) -> 1..MaxSamples]
      BY <3>1, <3>2, Constants DEF Captured, Numbers
    <3>4. QED
      BY <3>2, <3>3, SeqOf
  <2>2. QED
    BY <2>1 DEF RingInv, RingTypes, TypeOK, Numbers, Inside
<1>2. QED
  BY <1>1, RingInit, RingStep, CapturedInit, CapturedStep, PTL DEF Spec
=============================================================================
