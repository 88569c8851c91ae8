---------------------------- MODULE ServerProofs ----------------------------
(***************************************************************************)
(* Theorems about AudioStreamServer, for any connections and identifiers,  *)
(* any budget and any number of messages, in every interleaving.           *)
(***************************************************************************)
EXTENDS AudioStreamServer, TLAPS

\* What the buffer of a session may be.
Chunks == UNION {[S -> Payloads] : S \in SUBSET Numbers}
Buffers == [chunks : Chunks, total : 0..MaxBytes, expectedNext : Nat, received : Nat,
            duplicates : Nat, outOfOrder : Nat, dropped : Nat]

\* TypeOK without the buffers, and with all of them.
HandlersOK == /\ handler \in [Connections -> Awaits]
              /\ then \in [Connections -> {"loop", "finalize", "break"}]
              /\ link \in [Connections -> BOOLEAN]
              /\ messages \in [Connections -> 0..MaxMessages]
SessionsOK == /\ session \in [Connections -> Ids \cup {NoSession}]
              /\ closed \in [Connections -> BOOLEAN]
              /\ DOMAIN sessions \subseteq used
              /\ \A id \in DOMAIN sessions : sessions[id] \in Connections
              /\ used \subseteq Ids /\ abandoned \subseteq used
BuffersOK == buffer \in [Connections -> Buffers]

\* The session of a handler has been started, and is no other handler's.
SessionsApart ==
    /\ \A c \in Connections : session[c] # NoSession => session[c] \in used
    /\ \A c, d \in Connections : session[c] = session[d] => c = d \/ session[c] = NoSession

\* An error that is followed by a finalization has a session to finalize, and
\* there is none before the connection.
FinalizesASession ==
    \A c \in Connections :
        /\ handler[c] = "sendError" /\ then[c] = "finalize" => session[c] # NoSession
        /\ handler[c] = "unconnected" => session[c] = NoSession

\* The strengthening under which the registry's invariants are inductive.
RegistryInv == /\ HandlersOK /\ SessionsOK /\ SessionsApart /\ FinalizesASession
               /\ OpenIsRegistered /\ NeverFinalizedTwice /\ OrphansExplained
-----------------------------------------------------------------------------
(* The buffers *)

\* A session begins with an empty buffer (AudioBuffer.__init__).
LEMMA NewBufferType == NewBuffer \in Buffers
<1>1. [s \in {} |-> 0] \in [{} -> Payloads]
  OBVIOUS
<1>2. [s \in {} |-> 0] \in Chunks
  BY <1>1 DEF Chunks
<1>3. QED
  BY <1>2, BufferAssumption DEF NewBuffer, Buffers

\* A buffer to which a chunk is appended stays one, within the budget
\* (AudioBuffer.append).
LEMMA AppendType == ASSUME NEW b \in Buffers, NEW seq \in Numbers, NEW p \in Payloads
                    PROVE  AppendChunk(b, seq, p) \in Buffers
<1>1. p.size \in Nat \ {0} /\ MaxBytes \in Nat /\ seq \in Nat
  BY BufferAssumption, ServerAssumption
<1>2. CASE IsDuplicate(b, seq)
  BY <1>2 DEF AppendChunk, CountedDuplicate, Buffers
<1>3. CASE ~IsDuplicate(b, seq) /\ Overflows(b, seq, p)
  BY <1>3 DEF AppendChunk
<1>4. CASE ~IsDuplicate(b, seq) /\ ~Overflows(b, seq, p)
  <2> DEFINE stored == [s \in DOMAIN b.chunks \cup {seq} |->
                            IF s = seq THEN p ELSE b.chunks[s]]
  <2>1. PICK S \in SUBSET Numbers : b.chunks \in [S -> Payloads]
    BY DEF Buffers, Chunks
  <2>2. stored \in [S \cup {seq} -> Payloads]
    BY <2>1
  <2>3. stored \in Chunks
    BY <2>2 DEF Chunks
  <2>4. b.total + p.size \in 0..MaxBytes
    BY <1>1, <1>4 DEF Overflows, Buffers
  <2> HIDE DEF stored
  <2> DEFINE outOfOrder == IF seq < b.expectedNext THEN b.outOfOrder + 1 ELSE b.outOfOrder
             dropped == IF seq > b.expectedNext THEN b.dropped + (seq - b.expectedNext)
                                                ELSE b.dropped
             expectedNext == IF seq >= b.expectedNext THEN seq + 1 ELSE b.expectedNext
  <2>5. outOfOrder \in Nat /\ dropped \in Nat /\ expectedNext \in Nat /\ b.received + 1 \in Nat
    BY <1>1 DEF Buffers
  <2>6. AppendChunk(b, seq, p) =
            [chunks |-> stored, total |-> b.total + p.size, expectedNext |-> expectedNext,
             received |-> b.received + 1, duplicates |-> b.duplicates,
             outOfOrder |-> outOfOrder, dropped |-> dropped]
    BY <1>4 DEF AppendChunk, Stored, stored, Buffers
  <2> HIDE DEF outOfOrder, dropped, expectedNext
  <2>7. QED
    BY <2>3, <2>4, <2>5, <2>6 DEF Buffers
<1>5. QED
  BY <1>2, <1>3, <1>4

\* The buffers keep their types: only START_SESSION and AUDIO_CHUNK touch them.
LEMMA BuffersStep == BuffersOK /\ [Next]_vars => BuffersOK'
<1> SUFFICES ASSUME BuffersOK, [Next]_vars PROVE BuffersOK'
  OBVIOUS
<1>2. ASSUME NEW c \in Connections, NEW id \in Ids, StartSession(c, id) PROVE BuffersOK'
  BY NewBufferType, <1>2 DEF StartSession, BuffersOK
<1>3. ASSUME NEW c \in Connections, NEW seq \in Numbers, NEW p \in Payloads,
             BufferChunk(c, seq, p)
      PROVE  BuffersOK'
  <2>1. AppendChunk(buffer[c], seq, p) \in Buffers
    BY AppendType DEF BuffersOK
  <2>2. QED
    BY <1>3, <2>1 DEF BufferChunk, BuffersOK
<1>4. ASSUME NEW c \in Connections, HandlerStep(c) PROVE UNCHANGED buffer
  BY <1>4 DEF HandlerStep, SeeClosed, HandleClose, TimeOut, BeginFinalize, ErrorSent,
              TranscribeReturns, ReplySent, sessionVars
<1>5. ASSUME NEW c \in Connections,
             Connect(c) \/ LoseConnection(c) \/ RejectMessage(c) \/ FailChunk(c) \/ EndSession(c)
      PROVE  UNCHANGED buffer
  BY <1>5 DEF Connect, LoseConnection, RejectMessage, FailChunk, EndSession,
              BeginFinalize, sessionVars
<1>6. CASE UNCHANGED vars
  BY <1>6 DEF vars, sessionVars, BuffersOK
<1>7. QED
  BY <1>2, <1>3, <1>4, <1>5, <1>6 DEF Next, ClientStep, BuffersOK
-----------------------------------------------------------------------------
(* The registry *)

\* A finalization that begins (END_SESSION, a timeout, a failed chunk) keeps the
\* invariant, whether it gets as far as its await or not.
LEMMA BeginFinalizeKeeps ==
    ASSUME RegistryInv, NEW c \in Connections, NEW next \in {"loop", "break"},
           Live(c), session[c] # NoSession, ~closed[c],
           BeginFinalize(c, next),
           messages' \in [Connections -> 0..MaxMessages]
    PROVE  RegistryInv'
<1>1. UNCHANGED <<session, closed, sessions, used>>
  BY DEF BeginFinalize, sessionVars
<1>2. CASE /\ At(c, "transcribe") /\ then' = [then EXCEPT ![c] = next]
           /\ UNCHANGED <<link, abandoned>>
  BY <1>1, <1>2 DEF RegistryInv, HandlersOK, SessionsOK, SessionsApart, FinalizesASession,
        OpenIsRegistered, NeverFinalizedTwice, OrphansExplained, Live, At, Awaits
<1>3. CASE WriteFails(c)
  BY <1>1, <1>3 DEF RegistryInv, HandlersOK, SessionsOK, SessionsApart, FinalizesASession,
        OpenIsRegistered, NeverFinalizedTwice, OrphansExplained, Live, At, Awaits, WriteFails
<1>4. QED
  BY <1>2, <1>3 DEF BeginFinalize

\* Every step keeps the invariant.
LEMMA RegistryStep == RegistryInv /\ [Next]_vars => RegistryInv'
<1> SUFFICES ASSUME RegistryInv, [Next]_vars PROVE RegistryInv'
  OBVIOUS
<1> USE DEF RegistryInv, HandlersOK, SessionsOK, SessionsApart, FinalizesASession,
            OpenIsRegistered, NeverFinalizedTwice, OrphansExplained, Live, At, Awaits
<1>1. ASSUME NEW c \in Connections, Connect(c) PROVE RegistryInv'
  BY <1>1 DEF Connect, sessionVars
<1>2. ASSUME NEW c \in Connections, LoseConnection(c) PROVE RegistryInv'
  BY <1>2 DEF LoseConnection, sessionVars
<1>3. ASSUME NEW c \in Connections, RejectMessage(c) PROVE RegistryInv'
  <2>1. HandlersOK' /\ SessionsOK' /\ SessionsApart' /\ FinalizesASession'
    BY <1>3, ServerAssumption DEF RejectMessage, Receive, sessionVars
  <2>2. OpenIsRegistered' /\ NeverFinalizedTwice' /\ OrphansExplained'
    BY <1>3 DEF RejectMessage, Receive, sessionVars
  <2>3. QED
    BY <2>1, <2>2
<1>4. ASSUME NEW c \in Connections, FailChunk(c) PROVE RegistryInv'
  <2>1. HandlersOK' /\ SessionsOK' /\ SessionsApart' /\ FinalizesASession'
    BY <1>4, ServerAssumption DEF FailChunk, Receive, sessionVars
  <2>2. OpenIsRegistered' /\ NeverFinalizedTwice' /\ OrphansExplained'
    BY <1>4 DEF FailChunk, Receive, sessionVars
  <2>3. QED
    BY <2>1, <2>2
<1>5. ASSUME NEW c \in Connections, EndSession(c) PROVE RegistryInv'
  BY <1>5, BeginFinalizeKeeps, ServerAssumption DEF EndSession, Receive
<1>6. ASSUME NEW c \in Connections, NEW id \in Ids, StartSession(c, id) PROVE RegistryInv'
  <2>1. /\ \A d \in Connections : session[d] # id
        /\ id \notin DOMAIN sessions /\ id # NoSession
        /\ session[c] = NoSession
    BY <1>6, ServerAssumption DEF StartSession
  <2>2. HandlersOK' /\ SessionsOK'
    BY <1>6, ServerAssumption DEF StartSession, Receive, Registered
  <2>3. SessionsApart' /\ FinalizesASession'
    BY <1>6, <2>1 DEF StartSession, Receive
  <2>4. OpenIsRegistered' /\ NeverFinalizedTwice'
    BY <1>6, <2>1 DEF StartSession, Receive, Registered
  <2>5. OrphansExplained'
    <3> SUFFICES ASSUME NEW i \in DOMAIN sessions', i \notin abandoned'
                 PROVE  (Live(sessions[i]) /\ session[sessions[i]] = i)'
      OBVIOUS
    <3>1. CASE i = id
      BY <1>6, <2>1, <3>1 DEF StartSession, Receive, Registered
    <3>2. CASE i # id
      <4>1. /\ i \in DOMAIN sessions /\ sessions'[i] = sessions[i] /\ i # NoSession
            /\ i \notin abandoned
        BY <1>6, <3>2, ServerAssumption DEF StartSession, Registered
      <4>2. /\ sessions[i] \in Connections /\ Live(sessions[i])
            /\ session[sessions[i]] = i /\ sessions[i] # c
        BY <2>1, <4>1
      <4>3. QED
        BY <1>6, <4>1, <4>2 DEF StartSession, Receive
    <3>3. QED
      BY <3>1, <3>2
  <2>6. QED
    BY <2>2, <2>3, <2>4, <2>5
<1>7. ASSUME NEW c \in Connections, NEW seq \in Numbers, NEW p \in Payloads,
             BufferChunk(c, seq, p)
      PROVE  RegistryInv'
  BY <1>7, ServerAssumption DEF BufferChunk, Receive
<1>8. ASSUME NEW c \in Connections, SeeClosed(c) PROVE RegistryInv'
  <2>1. CASE session[c] # NoSession /\ ~closed[c]
    <3>1. HandlersOK'
      BY <1>8, <2>1 DEF SeeClosed, HandleClose, Without
    <3>4. closed' \in [Connections -> BOOLEAN]
      BY <1>8, <2>1 DEF SeeClosed, HandleClose
    <3>5. SessionsOK' /\ SessionsApart'
      <4>1. UNCHANGED <<session, used, abandoned>> /\ sessions' = Without(session[c])
        BY <1>8, <2>1 DEF SeeClosed, HandleClose
      <4>2. QED
        BY <3>4, <4>1 DEF Without
    <3>6. FinalizesASession'
      BY <1>8, <2>1 DEF SeeClosed, HandleClose, Without
    <3>2. OpenIsRegistered' /\ NeverFinalizedTwice'
      BY <1>8, <2>1 DEF SeeClosed, HandleClose, Without
    <3>3. OrphansExplained'
      BY <1>8, <2>1 DEF SeeClosed, HandleClose, Without
    <3>7. QED
      BY <3>1, <3>5, <3>6, <3>2, <3>3
  <2>2. CASE session[c] = NoSession
    BY <1>8, <2>2, ServerAssumption DEF SeeClosed, HandleClose
  <2>3. CASE session[c] # NoSession /\ closed[c]
    BY <1>8, <2>3 DEF SeeClosed, HandleClose
  <2>4. QED
    BY <2>1, <2>2, <2>3
<1>9. ASSUME NEW c \in Connections, TimeOut(c) PROVE RegistryInv'
  <2>1. CASE session[c] = NoSession
    <3>1. HandlersOK'
      BY <1>9, <2>1 DEF TimeOut, sessionVars
    <3>5. SessionsOK' /\ SessionsApart'
      BY <1>9, <2>1 DEF TimeOut, sessionVars
    <3>6. FinalizesASession'
      BY <1>9, <2>1 DEF TimeOut, sessionVars
    <3>2. OpenIsRegistered' /\ NeverFinalizedTwice'
      BY <1>9, <2>1 DEF TimeOut, sessionVars
    <3>3. OrphansExplained'
      BY <1>9, <2>1, ServerAssumption DEF TimeOut, sessionVars
    <3>7. QED
      BY <3>1, <3>5, <3>6, <3>2, <3>3
  <2>2. CASE session[c] # NoSession
    BY <1>9, <2>2, BeginFinalizeKeeps DEF TimeOut
  <2>3. QED
    BY <2>1, <2>2
<1>10. ASSUME NEW c \in Connections, ErrorSent(c) PROVE RegistryInv'
  <2>1. CASE then[c] = "finalize"
    BY <1>10, <2>1, BeginFinalizeKeeps DEF ErrorSent
  <2>2. CASE then[c] # "finalize"
    BY <1>10, <2>2 DEF ErrorSent, sessionVars
  <2>3. QED
    BY <2>1, <2>2
<1>11. ASSUME NEW c \in Connections, TranscribeReturns(c) PROVE RegistryInv'
  BY <1>11 DEF TranscribeReturns
<1>12. ASSUME NEW c \in Connections, ReplySent(c) PROVE RegistryInv'
  <2>1. session[c] # NoSession
    BY <1>12 DEF ReplySent
  <2>2. PICK goesOn \in {then[c] = "loop", FALSE} :
            /\ handler' = [handler EXCEPT ![c] = IF goesOn THEN "recv" ELSE "exited"]
            /\ link' = [link EXCEPT ![c] = goesOn]
    BY <1>12 DEF ReplySent
  <2>7. HandlersOK'
    BY <1>12, <2>2 DEF ReplySent
  <2>8. SessionsOK'
    BY <1>12 DEF ReplySent, Without
  <2>3. SessionsApart' /\ FinalizesASession'
    BY <1>12, <2>1 DEF ReplySent
  <2>4. OpenIsRegistered' /\ NeverFinalizedTwice'
    BY <1>12, <2>1 DEF ReplySent, Without
  <2>5. OrphansExplained'
    BY <1>12, <2>1 DEF ReplySent, Without
  <2>6. QED
    BY <2>7, <2>8, <2>3, <2>4, <2>5
<1>13. CASE UNCHANGED vars
  BY <1>13 DEF vars, sessionVars
<1>14. QED
  BY <1>1, <1>2, <1>3, <1>4, <1>5, <1>6, <1>7, <1>8, <1>9, <1>10, <1>11, <1>12, <1>13
     DEF Next, HandlerStep, ClientStep

\* Initially nothing is connected or registered.
LEMMA RegistryInit == Init => RegistryInv /\ BuffersOK
<1> SUFFICES ASSUME Init PROVE RegistryInv /\ BuffersOK
  OBVIOUS
<1>1. RegistryInv
  BY ServerAssumption
     DEF Init, RegistryInv, HandlersOK, SessionsOK, SessionsApart, FinalizesASession,
         OpenIsRegistered, NeverFinalizedTwice, OrphansExplained, Live, Awaits
<1>2. BuffersOK
  BY NewBufferType DEF Init, BuffersOK
<1>3. QED
  BY <1>1, <1>2

\* Registry and buffers, in every behaviour.
LEMMA ServerInvariant == Spec => [](RegistryInv /\ BuffersOK)
<1>1. QED
  BY RegistryInit, RegistryStep, BuffersStep, PTL DEF Spec
-----------------------------------------------------------------------------
(* The theorems *)

\* The types of the handlers, the registry and the buffers; in particular no
\* session's audio exceeds the budget (max_buffer_bytes).
THEOREM TypeCorrect == Spec => []TypeOK
<1>1. RegistryInv /\ BuffersOK => TypeOK
  BY DEF RegistryInv, HandlersOK, SessionsOK, BuffersOK, Buffers, TypeOK
<1>2. QED
  BY <1>1, ServerInvariant, PTL

\* An open session of a live handler is registered as that handler's, whatever
\* the other connections do (_sessions in main.py).
THEOREM OpenRegistered == Spec => []OpenIsRegistered
<1>1. RegistryInv => OpenIsRegistered
  BY DEF RegistryInv
<1>2. QED
  BY <1>1, ServerInvariant, PTL

\* No session is finalized twice (_finalize_session).
THEOREM FinalizedOnce == Spec => []NeverFinalizedTwice
<1>1. RegistryInv => NeverFinalizedTwice
  BY DEF RegistryInv
<1>2. QED
  BY <1>1, ServerInvariant, PTL

\* A session is left behind in the registry only by a finalization that was cut
\* short, in every interleaving of any number of connections.
THEOREM OrphansOnlyCutShort == Spec => []OrphansExplained
<1>1. RegistryInv => OrphansExplained
  BY DEF RegistryInv
<1>2. QED
  BY <1>1, ServerInvariant, PTL
=============================================================================
