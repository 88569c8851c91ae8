---------------------------- MODULE AudioBuffer -----------------------------
(***************************************************************************)
(* server/audio_buffer.py: the chunks of one session keyed by their        *)
(* sequence number, a byte budget, and the sequence statistics.  A buffer  *)
(* is a record, so that a server can hold one per session.  A payload is a *)
(* record with its size in bytes.                                          *)
(***************************************************************************)
EXTENDS Integers

CONSTANTS MaxBytes,   \* max_bytes
          Payloads    \* the payloads a chunk may carry

ASSUME BufferAssumption ==
    /\ MaxBytes \in Nat \ {0}
    /\ \A p \in Payloads : p.size \in Nat \ {0}

NewBuffer == [chunks |-> [s \in {} |-> 0], total |-> 0, expectedNext |-> 0,
              received |-> 0, duplicates |-> 0, outOfOrder |-> 0, dropped |-> 0]

IsDuplicate(b, seq) == seq \in DOMAIN b.chunks

\* Mutant: the budget is compared with what is held, not with what would be.
OverflowsLate(b, seq, p) == ~IsDuplicate(b, seq) /\ b.total > MaxBytes
Overflows(b, seq, p) == ~IsDuplicate(b, seq) /\ b.total + p.size > MaxBytes

\* Mutant: a retransmission replaces the stored chunk.
Overwritten(b, seq, p) ==
    [b EXCEPT !.duplicates = @ + 1, !.chunks[seq] = p]

CountedDuplicate(b, seq, p) == [b EXCEPT !.duplicates = @ + 1]

\* Mutants: a late chunk is not told from a missing one; a late chunk moves
\* expected_next back; the bytes of a late chunk are not counted.
StoredUncounted(b, seq, p) ==
    [b EXCEPT !.chunks = [s \in DOMAIN @ \cup {seq} |-> IF s = seq THEN p ELSE @[s]],
              !.total = @ + p.size,
              !.received = @ + 1,
              !.dropped = IF seq > b.expectedNext THEN @ + (seq - b.expectedNext) ELSE @,
              !.expectedNext = IF seq >= @ THEN seq + 1 ELSE @]
StoredRewinding(b, seq, p) ==
    [b EXCEPT !.chunks = [s \in DOMAIN @ \cup {seq} |-> IF s = seq THEN p ELSE @[s]],
              !.total = @ + p.size,
              !.received = @ + 1,
              !.outOfOrder = IF seq < b.expectedNext THEN @ + 1 ELSE @,
              !.dropped = IF seq > b.expectedNext THEN @ + (seq - b.expectedNext) ELSE @,
              !.expectedNext = seq + 1]
StoredFree(b, seq, p) ==
    [b EXCEPT !.chunks = [s \in DOMAIN @ \cup {seq} |-> IF s = seq THEN p ELSE @[s]],
              !.total = IF seq < b.expectedNext THEN @ ELSE @ + p.size,
              !.received = @ + 1,
              !.outOfOrder = IF seq < b.expectedNext THEN @ + 1 ELSE @,
              !.dropped = IF seq > b.expectedNext THEN @ + (seq - b.expectedNext) ELSE @,
              !.expectedNext = IF seq >= @ THEN seq + 1 ELSE @]

Stored(b, seq, p) ==
    [b EXCEPT !.chunks = [s \in DOMAIN @ \cup {seq} |-> IF s = seq THEN p ELSE @[s]],
              !.total = @ + p.size,
              !.received = @ + 1,
              !.outOfOrder = IF seq < b.expectedNext THEN @ + 1 ELSE @,
              !.dropped = IF seq > b.expectedNext THEN @ + (seq - b.expectedNext) ELSE @,
              !.expectedNext = IF seq >= @ THEN seq + 1 ELSE @]

\* AudioBuffer.append: a duplicate is counted before the budget is looked at;
\* an overflow raises and changes nothing.
AppendChunk(b, seq, p) == IF IsDuplicate(b, seq) THEN CountedDuplicate(b, seq, p)
                          ELSE IF Overflows(b, seq, p) THEN b
                          ELSE Stored(b, seq, p)
=============================================================================
