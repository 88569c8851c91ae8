----------------------------- MODULE RingBuffer -----------------------------
(***************************************************************************)
(* components/ring_buffer: a circular buffer of samples behind a mutex     *)
(* that every operation waits for at most five ticks.  One task pushes     *)
(* (AudioCaptureTask), others read.  An operation takes the mutex, copies  *)
(* up to the end of the storage, copies the part that wrapped around, then *)
(* updates the positions and gives the mutex back; other tasks run between *)
(* these steps.  A sample is the number under which it was captured.       *)
(***************************************************************************)
EXTENDS Integers, Sequences

CONSTANTS Capacity,    \* capacity_
          Readers,     \* tasks that call GetLast or Read
          PushSizes,   \* numbers of samples the writer pushes at once
          Counts,      \* numbers of samples a reader asks for
          MaxSamples   \* bound on the samples captured

ASSUME RingAssumption == /\ Capacity \in Nat \ {0}
                         /\ PushSizes \subseteq Nat \ {0}
                         /\ Counts \subseteq Nat \ {0}
                         /\ MaxSamples \in Nat

Writer == "writer"
Free == "free"
ASSUME TaskAssumption == Writer \notin Readers /\ Free \notin Readers

VARIABLES
    storage,    \* storage_
    writePos,   \* write_pos_
    readPos,    \* read_pos_
    filled,     \* filled_
    mutex,      \* the task that holds mutex_, or Free
    step,       \* where each task is in its operation
    samples,    \* the writer's samples; what a reader has copied into out
    request,    \* a reader's operation: whether it takes the samples, start, count
    captured,   \* samples the microphone has delivered
    before      \* history: storage when the mutex was last taken

ring == <<storage, writePos, readPos, filled>>
vars == <<ring, mutex, step, samples, request, captured, before>>

Tasks == Readers \cup {Writer}
Indices == 0..(Capacity - 1)

Least(a, b) == IF a <= b THEN a ELSE b
\* Mutant: a position one past the end does not wrap.
ModLate(a) == IF a > Capacity THEN a % Capacity ELSE a
Mod(a) == a % Capacity

\* memcpy of s into a storage, from position p on.
Written(st, p, s) == [i \in Indices |->
                        IF i \in p..(p + Len(s) - 1) THEN s[i - p + 1] ELSE st[i]]
\* memcpy of n samples out of a storage, from position p on.
Copied(st, p, n) == [i \in 1..n |-> st[p + i - 1]]

Init == /\ storage = [i \in Indices |-> 0]      \* static storage is zeroed
        /\ writePos = 0 /\ readPos = 0 /\ filled = 0
        /\ mutex = Free
        /\ step = [t \in Tasks |-> "idle"]
        /\ samples = [t \in Tasks |-> <<>>]
        /\ request = [r \in Readers |-> [takes |-> FALSE, start |-> 0, count |-> 0]]
        /\ captured = 0
        /\ before = storage

\* The samples of one push; more than the buffer holds are cut to the last.
Frame(from, n) == LET kept == Least(n, Capacity)
                  IN  [i \in 1..kept |-> from + n - kept + i]
-----------------------------------------------------------------------------
(* Push *)

\* Mutant: Push does not take the mutex.
PushUnlocked(n) == /\ step[Writer] = "idle"
                   /\ captured + n <= MaxSamples
                   /\ captured' = captured + n
                   /\ samples' = [samples EXCEPT ![Writer] = Frame(captured, n)]
                   /\ step' = [step EXCEPT ![Writer] = "first"]
                   /\ before' = storage
                   /\ UNCHANGED <<ring, mutex, request>>

PushTake(n) == /\ step[Writer] = "idle"
               /\ mutex = Free
               /\ captured + n <= MaxSamples
               /\ captured' = captured + n
               /\ mutex' = Writer
               /\ samples' = [samples EXCEPT ![Writer] = Frame(captured, n)]
               /\ step' = [step EXCEPT ![Writer] = "first"]
               /\ before' = storage
               /\ UNCHANGED <<ring, request>>

\* The mutex is not obtained within kMutexTimeoutTicks: the frame is lost.
PushTimesOut(n) == /\ step[Writer] = "idle"
                   /\ mutex # Free
                   /\ captured + n <= MaxSamples
                   /\ captured' = captured + n
                   /\ UNCHANGED <<ring, mutex, step, samples, request, before>>

FirstPart(s) == SubSeq(s, 1, Least(Len(s), Capacity - writePos))
SecondPart(s) == SubSeq(s, Least(Len(s), Capacity - writePos) + 1, Len(s))

PushFirst == /\ step[Writer] = "first"
             /\ storage' = Written(storage, writePos, FirstPart(samples[Writer]))
             /\ step' = [step EXCEPT ![Writer] =
                            IF SecondPart(samples[Writer]) = <<>> THEN "give" ELSE "second"]
             /\ UNCHANGED <<writePos, readPos, filled, mutex, samples, request,
                            captured, before>>

PushSecond == /\ step[Writer] = "second"
              /\ storage' = Written(storage, 0, SecondPart(samples[Writer]))
              /\ step' = [step EXCEPT ![Writer] = "give"]
              /\ UNCHANGED <<writePos, readPos, filled, mutex, samples, request,
                             captured, before>>

\* Mutant: an overrun does not move the read position.
PushGiveKeepingRead ==
    LET count == Len(samples[Writer])
    IN  /\ step[Writer] = "give"
        /\ writePos' = Mod(writePos + count)
        /\ filled' = Least(filled + count, Capacity)
        /\ UNCHANGED readPos
        /\ mutex' = Free
        /\ step' = [step EXCEPT ![Writer] = "idle"]
        /\ samples' = [samples EXCEPT ![Writer] = <<>>]
        /\ UNCHANGED <<storage, request, captured, before>>

\* The positions, the overrun that moves the read position, the mutex.
PushGive ==
    LET count == Len(samples[Writer])
        overflow == filled + count - Capacity
    IN  /\ step[Writer] = "give"
        /\ writePos' = Mod(writePos + count)
        /\ filled' = Least(filled + count, Capacity)
        /\ readPos' = IF overflow > 0 THEN Mod(readPos + overflow) ELSE readPos
        /\ mutex' = Free
        /\ step' = [step EXCEPT ![Writer] = "idle"]
        /\ samples' = [samples EXCEPT ![Writer] = <<>>]
        /\ UNCHANGED <<storage, request, captured, before>>
-----------------------------------------------------------------------------
(* GetLast and Read *)

\* A timeout, or an empty buffer, returns no samples and changes nothing.
ReadTake(r, n, takes) ==
    LET count == Least(n, filled)
    IN  /\ step[r] = "idle"
        /\ mutex = Free
        /\ count > 0
        /\ mutex' = r
        /\ request' = [request EXCEPT ![r] =
               [takes |-> takes, count |-> count,
                start |-> IF takes THEN readPos ELSE Mod(writePos + Capacity - count)]]
        /\ step' = [step EXCEPT ![r] = "first"]
        /\ before' = storage
        /\ UNCHANGED <<ring, samples, captured>>

FirstCount(q) == Least(q.count, Capacity - q.start)

ReadFirst(r) ==
    /\ step[r] = "first"
    /\ samples' = [samples EXCEPT ![r] =
           Copied(storage, request[r].start, FirstCount(request[r]))]
    /\ step' = [step EXCEPT ![r] =
           IF FirstCount(request[r]) = request[r].count THEN "give" ELSE "second"]
    /\ UNCHANGED <<ring, mutex, request, captured, before>>

ReadSecond(r) ==
    /\ step[r] = "second"
    /\ samples' = [samples EXCEPT ![r] =
           @ \o Copied(storage, 0, request[r].count - FirstCount(request[r]))]
    /\ step' = [step EXCEPT ![r] = "give"]
    /\ UNCHANGED <<ring, mutex, request, captured, before>>

ReadGive(r) ==
    /\ step[r] = "give"
    /\ IF request[r].takes
       THEN /\ readPos' = Mod(readPos + request[r].count)
            /\ filled' = filled - request[r].count
       ELSE UNCHANGED <<readPos, filled>>
    /\ mutex' = Free
    /\ step' = [step EXCEPT ![r] = "returned"]
    /\ UNCHANGED <<storage, writePos, samples, request, captured, before>>

\* The caller is done with its own buffer.
Use(r) == /\ step[r] = "returned"
          /\ step' = [step EXCEPT ![r] = "idle"]
          /\ samples' = [samples EXCEPT ![r] = <<>>]
          /\ UNCHANGED <<ring, mutex, request, captured, before>>

Next == \/ \E n \in PushSizes : PushTake(n) \/ PushTimesOut(n)
        \/ PushFirst \/ PushSecond \/ PushGive
        \/ \E r \in Readers :
              \/ \E n \in Counts, takes \in BOOLEAN : ReadTake(r, n, takes)
              \/ ReadFirst(r) \/ ReadSecond(r) \/ ReadGive(r) \/ Use(r)

Spec == Init /\ [][Next]_vars
-----------------------------------------------------------------------------
TypeOK == /\ storage \in [Indices -> 0..MaxSamples]
          /\ writePos \in Indices /\ readPos \in Indices
          /\ filled \in 0..Capacity
          /\ mutex \in Tasks \cup {Free}
          /\ step \in [Tasks -> {"idle", "first", "second", "give", "returned"}]
          /\ captured \in 0..MaxSamples
          /\ before \in [Indices -> 0..MaxSamples]
          /\ \A t \in Tasks : samples[t] \in Seq(1..MaxSamples)

\* What the buffer holds: while a push is copying, what it held before.
Held == LET st == IF mutex = Writer THEN before ELSE storage
        IN  [i \in 1..filled |-> st[Mod(readPos + i - 1)]]

\* What each reader's last call returned.
Returned == [r \in Readers |-> IF step[r] = "returned" THEN samples[r] ELSE <<>>]

\* The ring buffer implements the bounded FIFO: whatever the tasks interleave
\* and wherever a frame wraps around, GetLast returns the newest samples and
\* Read the oldest, in order, never a mixture of two pushes
\* (ring_buffer.cpp, Push, GetLast and Read).
Fifo == INSTANCE AudioFifo WITH
            Frames <- {Frame(k, n) : k \in 0..MaxSamples, n \in PushSizes},
            queue <- Held, answer <- Returned
ImplementsFifo == Fifo!FifoSpec

\* The three positions agree, so GetLast (which counts back from write_pos_)
\* and Read (which counts on from read_pos_) see one buffer.
PositionsAgree == Mod(readPos + filled) = writePos

\* What a reader gets is in capture order, even when frames were lost to the
\* mutex timeout in between: no stale sample survives next to a newer one.
InCaptureOrder ==
    \A r \in Readers : step[r] = "returned" =>
        \A i \in 1..(Len(samples[r]) - 1) : samples[r][i] < samples[r][i + 1]
=============================================================================
