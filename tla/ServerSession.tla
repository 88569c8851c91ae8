--------------------------- MODULE ServerSession ----------------------------
(***************************************************************************)
(* server/session.py: one session and its AudioBuffer, fed with chunks in  *)
(* any order, any number of times, with any gaps.                          *)
(***************************************************************************)
EXTENDS AudioBuffer, FiniteSets, Sequences

CONSTANTS Numbers,        \* sequence numbers the client may use
          MaxDeliveries   \* bound on the chunks delivered

ASSUME SessionAssumption == Numbers \subseteq Nat /\ MaxDeliveries \in Nat

VARIABLES buffer,      \* buffer
          closed,      \* closed
          arrivals,    \* history: the numbers stored, in the order they came
          deliveries   \* history: calls of add_chunk

vars == <<buffer, closed, arrivals, deliveries>>

Init == /\ buffer = NewBuffer
        /\ closed = FALSE
        /\ arrivals = <<>>
        /\ deliveries = 0

\* add_chunk of a non-empty chunk; on a closed session it raises.
AddChunk(seq, p) ==
    /\ deliveries < MaxDeliveries
    /\ deliveries' = deliveries + 1
    /\ IF closed \/ IsDuplicate(buffer, seq) \/ Overflows(buffer, seq, p)
       THEN UNCHANGED arrivals
       ELSE arrivals' = Append(arrivals, seq)
    /\ buffer' = IF closed THEN buffer ELSE AppendChunk(buffer, seq, p)
    /\ UNCHANGED closed

Close == /\ ~closed
         /\ closed' = TRUE
         /\ UNCHANGED <<buffer, arrivals, deliveries>>

Next == Close \/ \E seq \in Numbers, p \in Payloads : AddChunk(seq, p)

Spec == Init /\ [][Next]_vars
-----------------------------------------------------------------------------
held == DOMAIN buffer.chunks

TypeOK == /\ held \subseteq Numbers
          /\ \A s \in held : buffer.chunks[s] \in Payloads
          /\ buffer.total \in 0..MaxBytes
          /\ {buffer.expectedNext, buffer.received, buffer.duplicates,
              buffer.outOfOrder, buffer.dropped} \subseteq Nat
          /\ closed \in BOOLEAN
          /\ deliveries \in 0..MaxDeliveries

\* Bytes in the chunks with numbers below n.
bytesBelow[n \in Nat] ==
    IF n = 0 THEN 0
    ELSE bytesBelow[n - 1] + IF n - 1 \in held THEN buffer.chunks[n - 1].size ELSE 0

\* The memory budget is the memory held: total_bytes is what the stored chunks
\* sum to, and never more than max_bytes, whatever is retransmitted or late
\* (tests/python/test_connection_handling.py:11).
BytesBounded == buffer.total = bytesBelow[buffer.expectedNext] /\ buffer.total <= MaxBytes

\* dropped_estimate corrected by the late chunks is exactly the number of
\* missing chunks below the highest number received, although append only ever
\* adds to either counter.
MissingExact == /\ held \subseteq 0..(buffer.expectedNext - 1)
                /\ buffer.dropped - buffer.outOfOrder =
                     Cardinality((0..(buffer.expectedNext - 1)) \ held)

\* out_of_order counts exactly the stored chunks that a higher number overtook.
OutOfOrderExact ==
    buffer.outOfOrder =
        Cardinality({i \in 1..Len(arrivals) :
                        \E j \in 1..(i - 1) : arrivals[j] > arrivals[i]})

\* What was received is never replaced or lost, by a duplicate, an overflow or
\* a close: the first payload of a number is the one that is reconstructed.
StoredForever == [][\A s \in held : s \in held' /\ buffer'.chunks[s] = buffer.chunks[s]]_vars
=============================================================================
