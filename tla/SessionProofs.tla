---------------------------- MODULE SessionProofs ----------------------------
(***************************************************************************)
(* Theorems about ServerSession: the statistics of a session are exact and *)
(* its audio is kept, for any budget and payloads, and for chunks of any   *)
(* numbers delivered in any order any number of times.                     *)
(***************************************************************************)
EXTENDS ServerSession, FiniteSetTheorems, SequenceTheorems, WellFoundedInduction, TLAPS

\* What the buffer of a session may be.
Chunks == UNION {[S -> Payloads] : S \in SUBSET Numbers}
Buffers == [chunks : Chunks, total : 0..MaxBytes, expectedNext : Nat, received : Nat,
            duplicates : Nat, outOfOrder : Nat, dropped : Nat]

SessionTypes == /\ buffer \in Buffers
                /\ arrivals \in Seq(Numbers)
                /\ closed \in BOOLEAN /\ deliveries \in 0..MaxDeliveries

\* The numbers held are those that arrived, and the highest is expected_next - 1.
ArrivedHeld == /\ held = {arrivals[i] : i \in 1..Len(arrivals)}
               /\ \A s \in held : s < buffer.expectedNext
               /\ buffer.expectedNext > 0 => buffer.expectedNext - 1 \in held

StatisticsInv == SessionTypes /\ ArrivedHeld /\ MissingExact /\ OutOfOrderExact

\* What append does with a chunk it has room for.
LEMMA StoredIs ==
    ASSUME NEW b \in Buffers, NEW seq \in Numbers, NEW p \in Payloads,
           ~IsDuplicate(b, seq), ~Overflows(b, seq, p)
    PROVE  LET stored == AppendChunk(b, seq, p)
           IN  /\ stored \in Buffers
               /\ DOMAIN stored.chunks = DOMAIN b.chunks \cup {seq}
               /\ \A s \in DOMAIN b.chunks : stored.chunks[s] = b.chunks[s]
               /\ stored.chunks[seq] = p /\ stored.total = b.total + p.size
               /\ stored.outOfOrder = IF seq < b.expectedNext THEN b.outOfOrder + 1
                                      ELSE b.outOfOrder
               /\ stored.dropped = IF seq > b.expectedNext
                                   THEN b.dropped + (seq - b.expectedNext) ELSE b.dropped
               /\ stored.expectedNext = IF seq >= b.expectedNext THEN seq + 1
                                        ELSE b.expectedNext
<1> DEFINE chunks == [s \in DOMAIN b.chunks \cup {seq} |-> IF s = seq THEN p ELSE b.chunks[s]]
           outOfOrder == IF seq < b.expectedNext THEN b.outOfOrder + 1 ELSE b.outOfOrder
           dropped == IF seq > b.expectedNext THEN b.dropped + (seq - b.expectedNext)
                                              ELSE b.dropped
           expectedNext == IF seq >= b.expectedNext THEN seq + 1 ELSE b.expectedNext
<1>1. p.size \in Nat \ {0} /\ MaxBytes \in Nat /\ seq \in Nat
  BY BufferAssumption, SessionAssumption
<1>2. PICK S \in SUBSET Numbers : b.chunks \in [S -> Payloads]
  BY DEF Buffers, Chunks
<1>3. /\ chunks \in Chunks /\ DOMAIN chunks = DOMAIN b.chunks \cup {seq}
      /\ \A s \in DOMAIN b.chunks : chunks[s] = b.chunks[s]
      /\ chunks[seq] = p
  <2>1. chunks \in [S \cup {seq} -> Payloads]
    BY <1>2
  <2>2. S \cup {seq} \in SUBSET Numbers
    OBVIOUS
  <2>3. seq \notin DOMAIN b.chunks
    BY DEF IsDuplicate
  <2>4. QED
    BY <2>1, <2>2, <2>3 DEF Chunks
<1> HIDE DEF chunks
<1>4. b.total + p.size \in 0..MaxBytes
  BY <1>1 DEF Overflows, Buffers
<1>5. outOfOrder \in Nat /\ dropped \in Nat /\ expectedNext \in Nat /\ b.received + 1 \in Nat
  BY <1>1 DEF Buffers
<1>6. AppendChunk(b, seq, p) =
          [chunks |-> chunks, total |-> b.total + p.size, expectedNext |-> expectedNext,
           received |-> b.received + 1, duplicates |-> b.duplicates,
           outOfOrder |-> outOfOrder, dropped |-> dropped]
  BY DEF AppendChunk, Stored, chunks, Buffers
<1>7. AppendChunk(b, seq, p) \in Buffers
  <2> HIDE DEF outOfOrder, dropped, expectedNext
  <2>1. QED
    BY <1>3, <1>4, <1>5, <1>6 DEF Buffers
<1>8. QED
  BY <1>3, <1>6, <1>7

\* The two ways a step treats the chunks of a session.
KeepsChunks == /\ buffer'.chunks = buffer.chunks /\ arrivals' = arrivals
               /\ buffer'.expectedNext = buffer.expectedNext
               /\ buffer'.outOfOrder = buffer.outOfOrder
               /\ buffer'.dropped = buffer.dropped
               /\ buffer'.total = buffer.total
StoresChunk(seq, p) == /\ ~IsDuplicate(buffer, seq) /\ ~Overflows(buffer, seq, p)
                       /\ buffer' = AppendChunk(buffer, seq, p)
                       /\ arrivals' = Append(arrivals, seq)

LEMMA SessionStep ==
    ASSUME SessionTypes, [Next]_vars
    PROVE  /\ SessionTypes'
           /\ KeepsChunks \/ \E seq \in Numbers, p \in Payloads : StoresChunk(seq, p)
<1>1. CASE UNCHANGED vars
  BY <1>1 DEF vars, SessionTypes, KeepsChunks
<1>2. CASE Close
  BY <1>2 DEF Close, SessionTypes, KeepsChunks
<1>3. ASSUME NEW seq \in Numbers, NEW p \in Payloads, AddChunk(seq, p)
      PROVE  SessionTypes' /\ (KeepsChunks \/ StoresChunk(seq, p))
  <2>1. deliveries' \in 0..MaxDeliveries /\ closed' \in BOOLEAN
    BY <1>3, SessionAssumption DEF AddChunk, SessionTypes
  <2>2. CASE closed \/ (~IsDuplicate(buffer, seq) /\ Overflows(buffer, seq, p))
    <3>1. buffer' = buffer /\ arrivals' = arrivals
      BY <1>3, <2>2 DEF AddChunk, AppendChunk
    <3>2. QED
      BY <2>1, <3>1 DEF SessionTypes, KeepsChunks
  <2>3. CASE ~closed /\ IsDuplicate(buffer, seq)
    <3>1. buffer' = [buffer EXCEPT !.duplicates = @ + 1] /\ arrivals' = arrivals
      BY <1>3, <2>3 DEF AddChunk, AppendChunk, CountedDuplicate
    <3>2. QED
      BY <2>1, <3>1 DEF SessionTypes, Buffers, KeepsChunks
  <2>4. CASE ~closed /\ ~IsDuplicate(buffer, seq) /\ ~Overflows(buffer, seq, p)
    <3>1. buffer' = AppendChunk(buffer, seq, p) /\ arrivals' = Append(arrivals, seq)
      BY <1>3, <2>4 DEF AddChunk
    <3>2. AppendChunk(buffer, seq, p) \in Buffers /\ Append(arrivals, seq) \in Seq(Numbers)
      BY <2>4, StoredIs, AppendProperties DEF SessionTypes
    <3>3. QED
      BY <2>1, <2>4, <3>1, <3>2 DEF SessionTypes, StoresChunk
  <2>5. QED
    BY <2>2, <2>3, <2>4
<1>4. QED
  BY <1>1, <1>2, <1>3 DEF Next
-----------------------------------------------------------------------------
(* The stored audio *)

\* What was stored stays as it was: duplicates, overflows, late chunks and the
\* close of the session included (AudioBuffer.append, Session.add_chunk).
LEMMA ChunksStay == SessionTypes /\ [Next]_vars
                        => \A s \in held : s \in held' /\ buffer'.chunks[s] = buffer.chunks[s]
<1> SUFFICES ASSUME SessionTypes, [Next]_vars, NEW s \in held
             PROVE  s \in held' /\ buffer'.chunks[s] = buffer.chunks[s]
  OBVIOUS
<1>1. CASE KeepsChunks
  BY <1>1 DEF KeepsChunks, held
<1>2. ASSUME NEW seq \in Numbers, NEW p \in Payloads, StoresChunk(seq, p)
      PROVE  s \in held' /\ buffer'.chunks[s] = buffer.chunks[s]
  BY <1>2, StoredIs DEF StoresChunk, held, SessionTypes
<1>3. QED
  BY <1>1, <1>2, SessionStep

LEMMA TypesInit == Init => SessionTypes
<1> SUFFICES ASSUME Init PROVE SessionTypes
  OBVIOUS
<1>1. [s \in {} |-> 0] \in Chunks
  <2>1. [s \in {} |-> 0] \in [{} -> Payloads]
    OBVIOUS
  <2>2. QED
    BY <2>1 DEF Chunks
<1>2. NewBuffer \in Buffers
  BY <1>1, BufferAssumption DEF NewBuffer, Buffers
<1>3. <<>> \in Seq(Numbers)
  BY EmptySeq
<1>4. deliveries \in 0..MaxDeliveries /\ closed \in BOOLEAN
  <2>1. 0 \in 0..MaxDeliveries
    BY SessionAssumption
  <2>2. QED
    BY <2>1 DEF Init
<1>5. QED
  BY <1>2, <1>3, <1>4 DEF Init, SessionTypes

\* No chunk that was received is replaced or lost.
THEOREM NothingLost == Spec => StoredForever
<1>1. SessionTypes /\ [Next]_vars => SessionTypes'
  BY SessionStep
<1>2. SessionTypes /\ [Next]_vars
          => [\A s \in held : s \in held' /\ buffer'.chunks[s] = buffer.chunks[s]]_vars
  BY ChunksStay
<1>3. QED
  BY <1>1, <1>2, TypesInit, PTL DEF Spec, StoredForever

\* The types of a session and its buffer, the budget among them.
THEOREM TypeCorrect == Spec => []TypeOK
<1>1. SessionTypes => TypeOK
  <2> SUFFICES ASSUME SessionTypes PROVE TypeOK
    OBVIOUS
  <2>1. PICK S \in SUBSET Numbers : buffer.chunks \in [S -> Payloads]
    BY DEF SessionTypes, Buffers, Chunks
  <2>2. held \subseteq Numbers /\ \A s \in held : buffer.chunks[s] \in Payloads
    BY <2>1 DEF held
  <2>3. /\ buffer.total \in 0..MaxBytes
        /\ buffer.expectedNext \in Nat /\ buffer.received \in Nat /\ buffer.duplicates \in Nat
        /\ buffer.outOfOrder \in Nat /\ buffer.dropped \in Nat
    BY DEF SessionTypes, Buffers
  <2>4. QED
    BY <2>2, <2>3 DEF TypeOK, SessionTypes
<1>2. SessionTypes /\ [Next]_vars => SessionTypes'
  BY SessionStep
<1>3. QED
  BY <1>1, <1>2, TypesInit, PTL DEF Spec
-----------------------------------------------------------------------------
(* The statistics *)

\* The numbers below n that are not in S.
Missing(n, S) == (0..(n - 1)) \ S

\* One more number: it fills a gap, follows the highest, or leaves a gap.
LEMMA MissingChanges ==
    ASSUME NEW n \in Nat, NEW S \in SUBSET Nat, \A s \in S : s < n,
           NEW seq \in Nat, seq \notin S
    PROVE  /\ Cardinality(Missing(n, S)) \in Nat
           /\ seq < n => Cardinality(Missing(n, S \cup {seq})) = Cardinality(Missing(n, S)) - 1
           /\ seq >= n => Cardinality(Missing(seq + 1, S \cup {seq}))
                             = Cardinality(Missing(n, S)) + (seq - n)
<1>1. IsFiniteSet(Missing(n, S)) /\ Cardinality(Missing(n, S)) \in Nat
  <2>1. IsFiniteSet(0..(n - 1))
    BY FS_Interval
  <2>2. IsFiniteSet(Missing(n, S))
    BY <2>1, FS_Difference DEF Missing
  <2>3. QED
    BY <2>2, FS_CardinalityType
<1>2. ASSUME seq < n
      PROVE  Cardinality(Missing(n, S \cup {seq})) = Cardinality(Missing(n, S)) - 1
  <2>1. Missing(n, S \cup {seq}) = Missing(n, S) \ {seq} /\ seq \in Missing(n, S)
    BY <1>2 DEF Missing
  <2>2. QED
    BY <1>1, <2>1, FS_RemoveElement
<1>3. ASSUME seq >= n
      PROVE  Cardinality(Missing(seq + 1, S \cup {seq})) = Cardinality(Missing(n, S)) + (seq - n)
  <2>1. /\ Missing(seq + 1, S \cup {seq}) = Missing(n, S) \cup (n..(seq - 1))
        /\ Missing(n, S) \cap (n..(seq - 1)) = {}
    BY <1>3 DEF Missing
  <2>2. IsFiniteSet(n..(seq - 1)) /\ Cardinality(n..(seq - 1)) = seq - n
    <3>1. n \in Int /\ seq - 1 \in Int
      OBVIOUS
    <3>2. /\ IsFiniteSet(n..(seq - 1))
          /\ Cardinality(n..(seq - 1)) = IF n > seq - 1 THEN 0 ELSE (seq - 1) - n + 1
      BY <3>1, FS_Interval
    <3>3. QED
      BY <1>3, <3>2
  <2>3. Cardinality(Missing(n, S) \cup (n..(seq - 1))) =
            Cardinality(Missing(n, S)) + Cardinality(n..(seq - 1)) - Cardinality({})
    BY <1>1, <2>1, <2>2, FS_Union
  <2>4. Cardinality({}) = 0
    BY FS_EmptySet
  <2> DEFINE A == Missing(n, S)
             B == n..(seq - 1)
  <2>5. Missing(seq + 1, S \cup {seq}) = A \cup B /\ A \cap B = {}
    BY <2>1
  <2>6. Cardinality(A) \in Nat /\ Cardinality(B) = seq - n
    BY <1>1, <2>2
  <2>7. Cardinality(A \cup B) = Cardinality(A) + Cardinality(B) - Cardinality({})
    BY <2>3
  <2> HIDE DEF A, B
  <2>8. Cardinality(A \cup B) = Cardinality(A) + (seq - n)
    BY <2>4, <2>6, <2>7
  <2>9. QED
    BY <2>5, <2>8 DEF A
<1>4. QED
  BY <1>1, <1>2, <1>3

\* The places of a sequence that a higher number comes before.
Overtaken(s) == {i \in 1..Len(s) : \E j \in 1..(i - 1) : s[j] > s[i]}

LEMMA OvertakenChanges ==
    ASSUME NEW s \in Seq(Nat), NEW n \in Nat, NEW seq \in Nat,
           \A i \in 1..Len(s) : s[i] < n,
           n > 0 => \E i \in 1..Len(s) : s[i] = n - 1,
           \A i \in 1..Len(s) : s[i] # seq
    PROVE  /\ Cardinality(Overtaken(s)) \in Nat
           /\ Cardinality(Overtaken(Append(s, seq))) =
                  IF seq < n THEN Cardinality(Overtaken(s)) + 1 ELSE Cardinality(Overtaken(s))
<1> DEFINE t == Append(s, seq)
           m == Len(s)
<1>1. /\ m \in Nat /\ Len(t) = m + 1 /\ t[m + 1] = seq
      /\ \A i \in 1..m : t[i] = s[i] /\ s[i] \in Nat
  BY AppendProperties, LenProperties, ElementOfSeq
<1> HIDE DEF t, m
<1>2. Overtaken(s) = {i \in 1..m : \E j \in 1..(i - 1) : s[j] > s[i]}
  BY DEF Overtaken, m
<1>3. Overtaken(t) = {i \in 1..(m + 1) : \E j \in 1..(i - 1) : t[j] > t[i]}
  BY <1>1 DEF Overtaken
<1>4. IsFiniteSet(Overtaken(s)) /\ Cardinality(Overtaken(s)) \in Nat /\ m + 1 \notin Overtaken(s)
  <2>1. IsFiniteSet(1..m)
    BY <1>1, FS_Interval
  <2>2. Overtaken(s) \in SUBSET (1..m)
    BY <1>2
  <2>3. IsFiniteSet(Overtaken(s))
    BY <2>1, <2>2, FS_Subset
  <2>4. QED
    BY <1>1, <2>2, <2>3, FS_CardinalityType
<1>5. \A i \in 1..m : i \in Overtaken(t) <=> i \in Overtaken(s)
  BY <1>1, <1>2, <1>3
<1>6. m + 1 \in Overtaken(t) <=> seq < n
  <2>1. m + 1 \in Overtaken(t) <=> \E j \in 1..m : s[j] > seq
    <3>1. m + 1 \in 1..(m + 1) /\ (m + 1) - 1 = m
      BY <1>1
    <3>2. m + 1 \in Overtaken(t) <=> \E j \in 1..m : t[j] > t[m + 1]
      BY <1>3, <3>1
    <3>3. QED
      BY <1>1, <3>2
  <2>2. ASSUME seq < n PROVE \E j \in 1..m : s[j] > seq
    <3>1. PICK j \in 1..m : s[j] = n - 1
      BY <2>2 DEF m
    <3>2. n - 1 # seq
      BY <3>1 DEF m
    <3>3. QED
      BY <2>2, <3>1, <3>2
  <2>3. ASSUME NEW j \in 1..m, s[j] > seq PROVE seq < n
    <3>1. s[j] < n /\ s[j] \in Nat
      BY <1>1 DEF m
    <3>2. QED
      BY <2>3, <3>1
  <2>4. QED
    BY <2>1, <2>2, <2>3
<1>7. /\ Overtaken(s) \subseteq 1..m /\ Overtaken(t) \subseteq (1..m) \cup {m + 1}
  <2>1. 1..(m + 1) = (1..m) \cup {m + 1}
    BY <1>1
  <2>2. Overtaken(s) \subseteq 1..m /\ Overtaken(t) \subseteq 1..(m + 1)
    BY <1>2, <1>3
  <2>3. QED
    BY <2>1, <2>2
<1>8. CASE seq < n
  <2>1. Overtaken(t) = Overtaken(s) \cup {m + 1}
    BY <1>5, <1>6, <1>7, <1>8
  <2>2. QED
    BY <1>4, <1>8, <2>1, FS_AddElement DEF t
<1>9. CASE ~(seq < n)
  <2>1. Overtaken(t) = Overtaken(s)
    BY <1>4, <1>5, <1>6, <1>7, <1>9
  <2>2. QED
    BY <1>4, <1>9, <2>1 DEF t
<1>10. QED
  BY <1>8, <1>9

LEMMA StatisticsInit == Init => StatisticsInv
<1> SUFFICES ASSUME Init PROVE StatisticsInv
  OBVIOUS
<1>1. SessionTypes
  BY TypesInit
<1>2. /\ held = {} /\ arrivals = <<>> /\ buffer.expectedNext = 0
      /\ buffer.dropped = 0 /\ buffer.outOfOrder = 0
  BY DEF Init, NewBuffer, held
<1>3. Cardinality({}) = 0
  BY FS_EmptySet
<1>4. Len(arrivals) = 0
  BY <1>2
<1>5. ArrivedHeld
  BY <1>2, <1>4 DEF ArrivedHeld
<1>6. MissingExact
  <2>1. (0..(0 - 1)) \ {} = {}
    OBVIOUS
  <2>2. QED
    BY <1>2, <1>3, <2>1 DEF MissingExact
<1>7. OutOfOrderExact
  <2>1. {i \in 1..Len(arrivals) : \E j \in 1..(i - 1) : arrivals[j] > arrivals[i]} = {}
    BY <1>4
  <2>2. QED
    BY <1>2, <1>3, <2>1 DEF OutOfOrderExact
<1>8. QED
  BY <1>1, <1>5, <1>6, <1>7 DEF StatisticsInv

\* A stored chunk is counted in both statistics as what it is.
LEMMA StatisticsStep == StatisticsInv /\ [Next]_vars => StatisticsInv'
<1> SUFFICES ASSUME StatisticsInv, [Next]_vars PROVE StatisticsInv'
  OBVIOUS
<1>1. SessionTypes /\ SessionTypes'
  BY SessionStep DEF StatisticsInv
<1>2. CASE KeepsChunks
  <2>1. /\ held' = held /\ arrivals' = arrivals
        /\ buffer'.expectedNext = buffer.expectedNext
        /\ buffer'.outOfOrder = buffer.outOfOrder /\ buffer'.dropped = buffer.dropped
    BY <1>2 DEF KeepsChunks, held
  <2>2. ArrivedHeld'
    BY <2>1 DEF StatisticsInv, ArrivedHeld
  <2>3. MissingExact'
    BY <2>1 DEF StatisticsInv, MissingExact
  <2>4. OutOfOrderExact'
    BY <2>1 DEF StatisticsInv, OutOfOrderExact
  <2>5. QED
    BY <1>1, <2>2, <2>3, <2>4 DEF StatisticsInv
<1>3. ASSUME NEW seq \in Numbers, NEW p \in Payloads, StoresChunk(seq, p)
      PROVE  StatisticsInv'
  <2> DEFINE n == buffer.expectedNext
             m == Len(arrivals)
  <2>1. n \in Nat /\ seq \in Nat /\ buffer.dropped \in Nat /\ buffer.outOfOrder \in Nat
    BY <1>1, SessionAssumption DEF SessionTypes, Buffers
  <2>2. arrivals \in Seq(Nat) /\ m \in Nat
    <3>1. arrivals \in Seq(Numbers)
      BY <1>1 DEF SessionTypes
    <3>2. arrivals \in Seq(Nat)
      BY <3>1, SeqMonotonic, SessionAssumption
    <3>3. QED
      BY <3>2, LenProperties
  <2>3. /\ held \in SUBSET Nat /\ seq \notin held /\ \A s \in held : s < n
        /\ held = {arrivals[i] : i \in 1..m} /\ (n > 0 => n - 1 \in held)
    BY <1>3, <2>2, ElementOfSeq DEF StatisticsInv, ArrivedHeld, StoresChunk, IsDuplicate, held
  <2>4. /\ held' = held \cup {seq}
        /\ buffer'.outOfOrder = IF seq < n THEN buffer.outOfOrder + 1 ELSE buffer.outOfOrder
        /\ buffer'.dropped = IF seq > n THEN buffer.dropped + (seq - n) ELSE buffer.dropped
        /\ buffer'.expectedNext = IF seq >= n THEN seq + 1 ELSE n
    BY <1>1, <1>3, StoredIs DEF StoresChunk, held, SessionTypes
  <2>5. /\ arrivals' = Append(arrivals, seq) /\ Len(arrivals') = m + 1
        /\ arrivals'[m + 1] = seq /\ \A i \in 1..m : arrivals'[i] = arrivals[i]
    BY <1>3, <2>1, <2>2, AppendProperties DEF StoresChunk
  <2> HIDE DEF n, m
  <2>6. ArrivedHeld'
    <3>1. held' = {arrivals'[i] : i \in 1..(m + 1)}
      <4>1. 1..(m + 1) = (1..m) \cup {m + 1}
        BY <2>2
      <4>2. QED
        <5>1. {arrivals'[i] : i \in 1..(m + 1)} =
                  {arrivals'[i] : i \in 1..m} \cup {arrivals'[m + 1]}
          BY <4>1
        <5>2. {arrivals'[i] : i \in 1..m} = {arrivals[i] : i \in 1..m}
          BY <2>5
        <5>3. QED
          BY <2>3, <2>4, <2>5, <5>1, <5>2
    <3>2. \A s \in held' : s < buffer'.expectedNext
      BY <2>1, <2>3, <2>4
    <3>3. buffer'.expectedNext > 0 => buffer'.expectedNext - 1 \in held'
      BY <2>1, <2>3, <2>4
    <3>4. QED
      BY <2>5, <3>1, <3>2, <3>3 DEF ArrivedHeld
  <2>7. MissingExact'
    <3>1. buffer.dropped - buffer.outOfOrder = Cardinality(Missing(n, held))
      BY DEF StatisticsInv, MissingExact, Missing, n
    <3>2. /\ Cardinality(Missing(n, held)) \in Nat
          /\ seq < n => Cardinality(Missing(n, held \cup {seq}))
                            = Cardinality(Missing(n, held)) - 1
          /\ seq >= n => Cardinality(Missing(seq + 1, held \cup {seq}))
                             = Cardinality(Missing(n, held)) + (seq - n)
      BY <2>1, <2>3, MissingChanges
    <3>3. buffer'.dropped - buffer'.outOfOrder
              = Cardinality(Missing(buffer'.expectedNext, held'))
      <4>1. CASE seq < n
        BY <2>1, <2>4, <3>1, <3>2, <4>1
      <4>2. CASE seq >= n
        BY <2>1, <2>4, <3>1, <3>2, <4>2
      <4>3. QED
        BY <2>1, <4>1, <4>2
    <3>4. held' \subseteq 0..(buffer'.expectedNext - 1)
      BY <2>1, <2>3, <2>4
    <3>5. QED
      BY <3>3, <3>4 DEF MissingExact, Missing
  <2>8. OutOfOrderExact'
    <3>1. buffer.outOfOrder = Cardinality(Overtaken(arrivals))
      BY DEF StatisticsInv, OutOfOrderExact, Overtaken
    <3>2. Cardinality(Overtaken(Append(arrivals, seq))) =
              IF seq < n THEN Cardinality(Overtaken(arrivals)) + 1
                         ELSE Cardinality(Overtaken(arrivals))
      <4>1. \A i \in 1..Len(arrivals) : arrivals[i] < n /\ arrivals[i] # seq
        BY <2>3 DEF m
      <4>2. n > 0 => \E i \in 1..Len(arrivals) : arrivals[i] = n - 1
        BY <2>3 DEF m
      <4>3. QED
        BY <2>1, <2>2, <4>1, <4>2, OvertakenChanges
    <3>3. buffer'.outOfOrder = Cardinality(Overtaken(arrivals'))
      BY <2>1, <2>4, <2>5, <3>1, <3>2
    <3>4. QED
      BY <3>3 DEF OutOfOrderExact, Overtaken
  <2>9. QED
    BY <1>1, <2>6, <2>7, <2>8 DEF StatisticsInv
<1>4. QED
  BY <1>1, <1>2, <1>3, SessionStep

LEMMA StatisticsAlways == Spec => []StatisticsInv
  BY StatisticsInit, StatisticsStep, PTL DEF Spec

\* dropped_estimate less out_of_order is the number of missing chunks, in any
\* order of arrival (AudioBuffer.append).
THEOREM MissingCounted == Spec => []MissingExact
<1>1. StatisticsInv => MissingExact
  BY DEF StatisticsInv
<1>2. QED
  BY <1>1, StatisticsAlways, PTL

\* out_of_order is the number of stored chunks that a higher number overtook
\* (AudioBuffer.append).
THEOREM LateCounted == Spec => []OutOfOrderExact
<1>1. StatisticsInv => OutOfOrderExact
  BY DEF StatisticsInv
<1>2. QED
  BY <1>1, StatisticsAlways, PTL
-----------------------------------------------------------------------------
(* The bytes held *)

\* A set of natural numbers has a smallest one, so that what holds of 0 and of
\* the successors of what it holds of holds of all.
LEMMA Smallest == ASSUME NEW T \in SUBSET Nat, T # {}
                  PROVE  \E x \in T : \A y \in T : x <= y
<1> DEFINE R == OpToRel(<, Nat)
<1>1. IsWellFoundedOn(R, Nat)
  BY NatLessThanWellFounded
<1>2. \A a, b \in Nat : a < b => <<a, b>> \in R
  BY DEF OpToRel
<1> HIDE DEF R
<1>3. PICK x \in T : \A y \in T : ~(<<y, x>> \in R)
  BY <1>1, WFMin
<1>4. \A y \in T : ~(y < x)
  BY <1>2, <1>3
<1>5. QED
  BY <1>4

LEMMA SetInduction == ASSUME NEW T, 0 \in T, \A n \in Nat : n \in T => n + 1 \in T
                      PROVE  Nat \subseteq T
<1> SUFFICES ASSUME Nat \ T # {} PROVE FALSE
  OBVIOUS
<1>1. PICK x \in Nat \ T : \A y \in Nat \ T : x <= y
  BY Smallest
<1>2. x # 0
  BY <1>1
<1>3. x - 1 \in Nat /\ x - 1 \in T
  BY <1>1, <1>2
<1>4. QED
  BY <1>3

\* The bytes that chunks hold for a number, and their sums below a number.
SizeAt(chunks, s) == IF s \in DOMAIN chunks THEN chunks[s].size ELSE 0
Sums(g, chunks) == \A n \in Nat : g[n] = IF n = 0 THEN 0 ELSE g[n - 1] + SizeAt(chunks, n - 1)

\* The sums reach total_bytes at expected_next and stay there.
SumInv == \E g \in [Nat -> Nat] : /\ Sums(g, buffer.chunks)
                                  /\ \A k \in Nat : k >= buffer.expectedNext => g[k] = buffer.total

BytesInv == StatisticsInv /\ SumInv

\* One more chunk: every sum beyond its number grows by its size.
Grown(g, seq, size) == [n \in Nat |-> IF n > seq THEN g[n] + size ELSE g[n]]

LEMMA SumsGrow ==
    ASSUME NEW g \in [Nat -> Nat], NEW chunks, Sums(g, chunks), NEW seq \in Nat,
           seq \notin DOMAIN chunks, NEW more, NEW p, p.size \in Nat,
           DOMAIN more = DOMAIN chunks \cup {seq}, more[seq] = p,
           \A s \in DOMAIN chunks : more[s] = chunks[s] /\ chunks[s].size \in Nat
    PROVE  /\ Grown(g, seq, p.size) \in [Nat -> Nat]
           /\ Sums(Grown(g, seq, p.size), more)
<1> DEFINE h == [n \in Nat |-> IF n > seq THEN g[n] + p.size ELSE g[n]]
<1>1. h \in [Nat -> Nat]
  OBVIOUS
<1>2. ASSUME NEW n \in Nat PROVE h[n] = IF n = 0 THEN 0 ELSE h[n - 1] + SizeAt(more, n - 1)
  <2>1. CASE n = 0
    BY <2>1 DEF Sums
  <2>2. CASE n # 0
    <3>1. n - 1 \in Nat /\ g[n] = g[n - 1] + SizeAt(chunks, n - 1)
          /\ g[n] \in Nat /\ g[n - 1] \in Nat
      BY <2>2 DEF Sums
    <3>2. CASE n - 1 = seq
      <4>1. SizeAt(chunks, n - 1) = 0 /\ SizeAt(more, n - 1) = p.size
        BY <3>2 DEF SizeAt
      <4>2. h[n] = g[n] + p.size /\ h[n - 1] = g[n - 1]
        BY <3>1, <3>2
      <4>3. QED
        BY <2>2, <3>1, <4>1, <4>2
    <3>3. CASE n - 1 # seq
      <4>1. SizeAt(chunks, n - 1) = SizeAt(more, n - 1)
        BY <3>3 DEF SizeAt
      <4>2. SizeAt(chunks, n - 1) \in Nat
        BY DEF SizeAt
      <4>3. \/ h[n] = g[n] /\ h[n - 1] = g[n - 1]
            \/ h[n] = g[n] + p.size /\ h[n - 1] = g[n - 1] + p.size
        BY <3>1, <3>3
      <4>4. QED
        BY <2>2, <3>1, <4>1, <4>2, <4>3
    <3>4. QED
      BY <3>2, <3>3
  <2>3. QED
    BY <2>1, <2>2
<1> HIDE DEF h
<1>3. Sums(h, more)
  BY <1>2 DEF Sums
<1>4. QED
  BY <1>1, <1>3 DEF h, Grown

LEMMA BytesInit == Init => BytesInv
<1> SUFFICES ASSUME Init PROVE BytesInv
  OBVIOUS
<1>1. DOMAIN buffer.chunks = {} /\ buffer.total = 0 /\ buffer.expectedNext = 0
  BY DEF Init, NewBuffer
<1> DEFINE g == [n \in Nat |-> 0]
<1>2. g \in [Nat -> Nat] /\ \A k \in Nat : g[k] = 0
  OBVIOUS
<1>3. Sums(g, buffer.chunks)
  BY <1>1 DEF Sums, SizeAt
<1> HIDE DEF g
<1>4. SumInv
  BY <1>1, <1>2, <1>3 DEF SumInv
<1>5. QED
  BY <1>4, StatisticsInit DEF BytesInv

\* total_bytes grows by what the new chunk adds to the sums.
LEMMA BytesStep == BytesInv /\ [Next]_vars => BytesInv'
<1> SUFFICES ASSUME BytesInv, [Next]_vars PROVE BytesInv'
  OBVIOUS
<1>1. StatisticsInv /\ SessionTypes /\ StatisticsInv'
  BY StatisticsStep DEF BytesInv, StatisticsInv
<1>2. PICK g \in [Nat -> Nat] : /\ Sums(g, buffer.chunks)
                                /\ \A k \in Nat : k >= buffer.expectedNext => g[k] = buffer.total
  BY DEF BytesInv, SumInv
<1>3. CASE KeepsChunks
  <2>1. Sums(g, buffer.chunks)'
    BY <1>2, <1>3 DEF KeepsChunks, Sums, SizeAt
  <2>2. \A k \in Nat : k >= buffer'.expectedNext => g[k] = buffer'.total
    BY <1>2, <1>3 DEF KeepsChunks
  <2>3. QED
    BY <1>1, <2>1, <2>2 DEF BytesInv, SumInv
<1>4. ASSUME NEW seq \in Numbers, NEW p \in Payloads, StoresChunk(seq, p)
      PROVE  BytesInv'
  <2>1. seq \in Nat /\ p.size \in Nat /\ buffer.expectedNext \in Nat /\ buffer.total \in Nat
    <3>1. seq \in Nat
      BY SessionAssumption
    <3>2. p.size \in Nat /\ MaxBytes \in Nat
      BY BufferAssumption
    <3>3. buffer \in Buffers
      BY <1>1 DEF SessionTypes
    <3>4. buffer.expectedNext \in Nat /\ buffer.total \in 0..MaxBytes
      BY <3>3 DEF Buffers
    <3>5. QED
      BY <3>1, <3>2, <3>4
  <2>2. /\ seq \notin DOMAIN buffer.chunks
        /\ DOMAIN buffer'.chunks = DOMAIN buffer.chunks \cup {seq}
        /\ \A s \in DOMAIN buffer.chunks : buffer'.chunks[s] = buffer.chunks[s]
        /\ buffer'.chunks[seq] = p /\ buffer'.total = buffer.total + p.size
        /\ buffer'.expectedNext = IF seq >= buffer.expectedNext THEN seq + 1
                                  ELSE buffer.expectedNext
    <3>1. /\ buffer \in Buffers /\ ~IsDuplicate(buffer, seq) /\ ~Overflows(buffer, seq, p)
          /\ buffer' = AppendChunk(buffer, seq, p)
      BY <1>1, <1>4 DEF StoresChunk, SessionTypes
    <3>2. seq \notin DOMAIN buffer.chunks
      BY <3>1 DEF IsDuplicate
    <3>3. QED
      BY <3>1, <3>2, StoredIs
  <2>3. \A s \in DOMAIN buffer.chunks : buffer.chunks[s].size \in Nat
    <3>1. PICK S \in SUBSET Numbers : buffer.chunks \in [S -> Payloads]
      BY <1>1 DEF SessionTypes, Buffers, Chunks
    <3>2. QED
      BY <3>1, BufferAssumption
  <2> DEFINE h == Grown(g, seq, p.size)
  <2>4. h \in [Nat -> Nat] /\ Sums(h, buffer'.chunks)
    <3> DEFINE chunks == buffer.chunks
               more == buffer'.chunks
    <3>1. /\ g \in [Nat -> Nat] /\ Sums(g, chunks) /\ seq \in Nat /\ seq \notin DOMAIN chunks /\ p.size \in Nat
          /\ DOMAIN more = DOMAIN chunks \cup {seq} /\ more[seq] = p
          /\ \A s \in DOMAIN chunks : more[s] = chunks[s] /\ chunks[s].size \in Nat
      BY <1>2, <2>1, <2>2, <2>3
    <3> HIDE DEF chunks, more
    <3>2. h \in [Nat -> Nat] /\ Sums(h, more)
      BY <3>1, SumsGrow
    <3>3. QED
      BY <3>2 DEF more
  <2>5. ASSUME NEW k \in Nat, k >= buffer'.expectedNext PROVE h[k] = buffer'.total
    <3>1. k >= buffer.expectedNext /\ k > seq
      BY <2>1, <2>2, <2>5
    <3>2. QED
      BY <1>2, <2>1, <2>2, <3>1 DEF Grown
  <2> HIDE DEF h
  <2>6. SumInv'
    BY <2>4, <2>5 DEF SumInv
  <2>7. QED
    BY <1>1, <2>6 DEF BytesInv
<1>5. QED
  BY <1>3, <1>4, SessionStep, <1>1

\* The sums of bytesBelow are the only ones.
LEMMA SumsUnique ==
    ASSUME NEW g \in [Nat -> Nat], Sums(g, buffer.chunks)
    PROVE  \A n \in Nat : bytesBelow[n] = g[n]
<1> DEFINE F(f) == [n \in Nat |-> IF n = 0 THEN 0
                        ELSE f[n - 1] + IF n - 1 \in held THEN buffer.chunks[n - 1].size ELSE 0]
<1>1. g = F(g)
  BY DEF Sums, SizeAt, held
<1>2. bytesBelow = CHOOSE f : f = F(f)
  BY DEF bytesBelow
<1>3. bytesBelow = F(bytesBelow)
  <2> HIDE DEF F
  <2>1. QED
    BY <1>1, <1>2
<1>4. bytesBelow[0] = 0 /\ g[0] = 0
  BY <1>1, <1>3
<1>5. ASSUME NEW n \in Nat, bytesBelow[n] = g[n] PROVE bytesBelow[n + 1] = g[n + 1]
  <2>1. n + 1 \in Nat /\ n + 1 # 0 /\ (n + 1) - 1 = n
    OBVIOUS
  <2>2. F(bytesBelow)[n + 1] = F(g)[n + 1]
    BY <1>5, <2>1
  <2> HIDE DEF F
  <2>3. QED
    BY <1>1, <1>3, <2>2
<1> DEFINE T == {n \in Nat : bytesBelow[n] = g[n]}
<1>6. Nat \subseteq T
  <2>1. 0 \in T /\ \A n \in Nat : n \in T => n + 1 \in T
    BY <1>4, <1>5
  <2> HIDE DEF T
  <2>2. QED
    BY <2>1, SetInduction
<1>7. QED
  BY <1>6

\* total_bytes is what the stored chunks sum to, and within the budget, for any
\* payloads in any order of arrival (AudioBuffer.append).
THEOREM BytesCounted == Spec => []BytesBounded
<1>1. BytesInv => BytesBounded
  <2> SUFFICES ASSUME BytesInv PROVE BytesBounded
    OBVIOUS
  <2>1. PICK g \in [Nat -> Nat] : /\ Sums(g, buffer.chunks)
                                  /\ \A k \in Nat : k >= buffer.expectedNext => g[k] = buffer.total
    BY DEF BytesInv, SumInv
  <2>2. buffer.expectedNext \in Nat /\ buffer.total \in 0..MaxBytes /\ MaxBytes \in Nat
    BY BufferAssumption DEF BytesInv, StatisticsInv, SessionTypes, Buffers
  <2>3. bytesBelow[buffer.expectedNext] = g[buffer.expectedNext]
    BY <2>1, <2>2, SumsUnique
  <2>4. g[buffer.expectedNext] = buffer.total
    BY <2>1, <2>2
  <2>5. QED
    BY <2>2, <2>3, <2>4 DEF BytesBounded
<1>2. QED
  BY <1>1, BytesInit, BytesStep, PTL DEF Spec
=============================================================================
