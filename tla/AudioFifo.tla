----------------------------- MODULE AudioFifo ------------------------------
(***************************************************************************)
(* What the ring buffer promises its callers: the latest Capacity samples  *)
(* in the order they were captured, the oldest dropped first; a reader gets *)
(* the newest samples (GetLast) or takes the oldest (Read), never a mixture *)
(* of before and after a push.  Each operation is one step.                *)
(***************************************************************************)
EXTENDS Integers, Sequences

CONSTANTS Capacity,   \* samples the buffer holds
          Readers,    \* tasks that read
          Frames,     \* the sequences of samples a push may bring
          Counts      \* the numbers of samples a reader may ask for

VARIABLES queue,      \* the samples held, oldest first
          answer      \* what each reader's last call returned

fifoVars == <<queue, answer>>

LastOf(s, n) == SubSeq(s, Len(s) - n + 1, Len(s))
Fewer(n, s) == IF n <= Len(s) THEN n ELSE Len(s)
Newest(s, n) == LastOf(s, Fewer(n, s))

FifoInit == /\ queue = <<>>
            /\ answer = [r \in Readers |-> <<>>]

PushSamples(s) == /\ queue' = Newest(queue \o s, Capacity)
                  /\ UNCHANGED answer

AnswerLast(r, n) == /\ answer' = [answer EXCEPT ![r] = Newest(queue, n)]
                    /\ UNCHANGED queue

AnswerRead(r, n) == /\ answer' = [answer EXCEPT ![r] = SubSeq(queue, 1, Fewer(n, queue))]
                    /\ queue' = SubSeq(queue, Fewer(n, queue) + 1, Len(queue))

\* The reader is done with the samples.
Consume(r) == /\ answer' = [answer EXCEPT ![r] = <<>>]
              /\ UNCHANGED queue

FifoNext == \/ \E s \in Frames : PushSamples(s)
            \/ \E r \in Readers : \/ Consume(r)
                                  \/ \E n \in Counts : AnswerLast(r, n) \/ AnswerRead(r, n)

FifoSpec == FifoInit /\ [][FifoNext]_fifoVars
=============================================================================
