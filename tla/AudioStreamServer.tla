------------------------- MODULE AudioStreamServer --------------------------
(***************************************************************************)
(* server/main.py: one handler coroutine per connection, sharing the       *)
(* registry _sessions.  A coroutine gives way to the others only at an     *)
(* await, so a step goes from one await to the next: recv with a timeout,  *)
(* send of an error or of the result, and transcribe.                      *)
(*                                                                         *)
(* The peer, the network, the ASR backend and the disk are free: any       *)
(* message at any time, a connection lost at any time, an exception or a   *)
(* transcript from the ASR, an OSError from a file write.                  *)
(***************************************************************************)
EXTENDS AudioBuffer

CONSTANTS Connections,   \* client connections
          Ids,           \* session identifiers
          NoSession,     \* None
          Numbers,       \* sequence numbers of chunks
          MaxMessages    \* bound on the messages one connection delivers

ASSUME ServerAssumption == /\ NoSession \notin Ids
                           /\ Numbers \subseteq Nat
                           /\ MaxMessages \in Nat

VARIABLES
    handler,    \* the await each handler stands at
    then,       \* what the handler does after that await
    link,       \* whether the connection is up
    session,    \* the handler's session (its identifier)
    closed,     \* session.closed
    buffer,     \* session.buffer
    sessions,   \* _sessions: identifier -> the connection that registered it
    messages,   \* messages received on the connection
    used,       \* history: identifiers of the sessions started
    abandoned   \* history: sessions whose finalization was cut short

sessionVars == <<session, closed, buffer, sessions, used>>
vars == <<handler, then, link, sessionVars, messages, abandoned>>

Awaits == {"unconnected", "recv", "sendError", "transcribe", "sendReply", "exited"}

Init == /\ handler = [c \in Connections |-> "unconnected"]
        /\ then = [c \in Connections |-> "loop"]
        /\ link = [c \in Connections |-> FALSE]
        /\ session = [c \in Connections |-> NoSession]
        /\ closed = [c \in Connections |-> FALSE]
        /\ buffer = [c \in Connections |-> NewBuffer]
        /\ sessions = [i \in {} |-> NoSession]
        /\ messages = [c \in Connections |-> 0]
        /\ used = {}
        /\ abandoned = {}

Registered(id, c) == [i \in DOMAIN sessions \cup {id} |-> IF i = id THEN c ELSE sessions[i]]
Without(id) == [i \in DOMAIN sessions \ {id} |-> sessions[i]]

At(c, place) == handler' = [handler EXCEPT ![c] = place]
-----------------------------------------------------------------------------
(* The connection *)

Connect(c) == /\ handler[c] = "unconnected"
              /\ At(c, "recv")
              /\ link' = [link EXCEPT ![c] = TRUE]
              /\ UNCHANGED <<then, sessionVars, messages, abandoned>>

\* The client leaves or the network fails; the handler learns at its next await.
LoseConnection(c) == /\ link[c]
                     /\ link' = [link EXCEPT ![c] = FALSE]
                     /\ UNCHANGED <<handler, then, sessionVars, messages, abandoned>>

\* Mutant: a disconnect in the middle of a session does not unregister it.
HandleCloseKeeping(c) ==
    /\ At(c, "exited")
    /\ IF session[c] # NoSession /\ ~closed[c]
       THEN /\ closed' = [closed EXCEPT ![c] = TRUE]
            /\ UNCHANGED <<sessions, abandoned>>
       ELSE /\ abandoned' = IF session[c] = NoSession THEN abandoned
                            ELSE abandoned \cup {session[c]}
            /\ UNCHANGED <<closed, sessions>>
    /\ UNCHANGED <<then, link, session, buffer, used, messages>>

\* except ConnectionClosed: a session that is still open is closed and
\* unregistered; one that finalize has already closed is left as it is.
HandleClose(c) ==
    /\ At(c, "exited")
    /\ IF session[c] # NoSession /\ ~closed[c]
       THEN /\ closed' = [closed EXCEPT ![c] = TRUE]
            /\ sessions' = Without(session[c])
            /\ UNCHANGED abandoned
       ELSE /\ abandoned' = IF session[c] = NoSession THEN abandoned
                            ELSE abandoned \cup {session[c]}
            /\ UNCHANGED <<closed, sessions>>
    /\ UNCHANGED <<then, link, session, buffer, used, messages>>

\* recv or send on a lost connection raises ConnectionClosed.
SeeClosed(c) == /\ ~link[c]
                /\ handler[c] \in {"recv", "sendError", "sendReply"}
                /\ HandleClose(c)
-----------------------------------------------------------------------------
(* _finalize_session, up to its first await *)

\* An OSError of write_debug_wav leaves through every handler and ends the
\* connection.
WriteFails(c) == /\ At(c, "exited")
                 /\ link' = [link EXCEPT ![c] = FALSE]
                 /\ abandoned' = abandoned \cup {session[c]}
                 /\ UNCHANGED then

\* Audio reconstructed, debug WAV written if there is any, transcribe awaited.
BeginFinalize(c, next) ==
    /\ \/ /\ At(c, "transcribe")
          /\ then' = [then EXCEPT ![c] = next]
          /\ UNCHANGED <<link, abandoned>>
       \/ buffer[c].total > 0 /\ WriteFails(c)
    /\ UNCHANGED sessionVars
-----------------------------------------------------------------------------
(* The receive loop *)

Receive(c) == /\ handler[c] = "recv" /\ link[c]
              /\ messages[c] < MaxMessages
              /\ messages' = [messages EXCEPT ![c] = @ + 1]

\* Every message the loop answers with an error and nothing else: text, too
\* long, undecodable, of the wrong format, state, identifier or type.
RejectMessage(c) == /\ Receive(c)
                    /\ At(c, "sendError")
                    /\ then' = [then EXCEPT ![c] = "loop"]
                    /\ UNCHANGED <<link, sessionVars, abandoned>>

\* Mutant: a second START_SESSION replaces the active session.
StartAnyTime(c, id) ==
    /\ Receive(c)
    /\ id \notin used
    /\ used' = used \cup {id}
    /\ session' = [session EXCEPT ![c] = id]
    /\ closed' = [closed EXCEPT ![c] = FALSE]
    /\ buffer' = [buffer EXCEPT ![c] = NewBuffer]
    /\ sessions' = Registered(id, c)
    /\ UNCHANGED <<handler, then, link, abandoned>>

\* START_SESSION; clients draw identifiers at random (128 bits), so an
\* identifier is not used twice.
StartSession(c, id) ==
    /\ Receive(c)
    /\ session[c] = NoSession
    /\ id \notin used
    /\ used' = used \cup {id}
    /\ session' = [session EXCEPT ![c] = id]
    /\ closed' = [closed EXCEPT ![c] = FALSE]
    /\ buffer' = [buffer EXCEPT ![c] = NewBuffer]
    /\ sessions' = Registered(id, c)
    /\ UNCHANGED <<handler, then, link, abandoned>>

\* AUDIO_CHUNK of the active session.
BufferChunk(c, seq, p) ==
    /\ Receive(c)
    /\ session[c] # NoSession
    /\ ~Overflows(buffer[c], seq, p)
    /\ buffer' = [buffer EXCEPT ![c] = AppendChunk(@, seq, p)]
    /\ UNCHANGED <<handler, then, link, session, closed, sessions, used, abandoned>>

\* Mutant: the failed session is unregistered before it is finalized.
FailChunkUnregistering(c) ==
    /\ Receive(c)
    /\ session[c] # NoSession
    /\ At(c, "sendError")
    /\ then' = [then EXCEPT ![c] = "finalize"]
    /\ sessions' = Without(session[c])
    /\ UNCHANGED <<link, session, closed, buffer, used, abandoned>>

\* Mutant: the session is finalized and the error is not sent.
FailChunkSilently(c) ==
    /\ Receive(c)
    /\ session[c] # NoSession
    /\ BeginFinalize(c, "loop")

\* An AUDIO_CHUNK that overflows the buffer, or is empty: the error is sent
\* first, then the session is finalized.
FailChunk(c) ==
    /\ Receive(c)
    /\ session[c] # NoSession
    /\ At(c, "sendError")
    /\ then' = [then EXCEPT ![c] = "finalize"]
    /\ UNCHANGED <<link, sessionVars, abandoned>>

\* END_SESSION of the active session.
EndSession(c) ==
    /\ Receive(c)
    /\ session[c] # NoSession
    /\ BeginFinalize(c, "loop")

\* Mutant: with an active session the timeout is swallowed.
TimeOutSwallowed(c) ==
    /\ handler[c] = "recv" /\ link[c]
    /\ session[c] = NoSession
    /\ At(c, "exited")
    /\ link' = [link EXCEPT ![c] = FALSE]
    /\ UNCHANGED <<then, sessionVars, messages, abandoned>>

\* Nothing received for session_timeout_s.
TimeOut(c) ==
    /\ handler[c] = "recv" /\ link[c]
    /\ IF session[c] = NoSession
       THEN /\ At(c, "exited")
            /\ link' = [link EXCEPT ![c] = FALSE]
            /\ UNCHANGED <<then, sessionVars, abandoned>>
       ELSE BeginFinalize(c, "break")
    /\ UNCHANGED messages

ErrorSent(c) ==
    /\ handler[c] = "sendError" /\ link[c]
    /\ IF then[c] = "finalize"
       THEN BeginFinalize(c, "loop")
       ELSE /\ At(c, "recv")
            /\ UNCHANGED <<then, link, sessionVars, abandoned>>
    /\ UNCHANGED messages
-----------------------------------------------------------------------------
(* _finalize_session, after the transcript *)

\* A transcript or an ASR error: the session is closed before the reply is sent.
TranscribeReturns(c) ==
    /\ handler[c] = "transcribe"
    /\ At(c, "sendReply")
    /\ closed' = [closed EXCEPT ![c] = TRUE]
    /\ UNCHANGED <<then, link, session, buffer, sessions, used, messages, abandoned>>

\* Mutant: the handler keeps the session it has finalized.
ReplySentKeeping(c) ==
    /\ handler[c] = "sendReply" /\ link[c]
    /\ sessions' = Without(session[c])
    /\ LET goesOn == then[c] = "loop"
       IN  /\ At(c, IF goesOn THEN "recv" ELSE "exited")
           /\ link' = [link EXCEPT ![c] = goesOn]
    /\ UNCHANGED <<then, session, closed, buffer, used, messages, abandoned>>

\* The reply is sent, the session unregistered, the report written (or not:
\* an OSError ends the connection), and the loop goes on or is left.
ReplySent(c) ==
    /\ handler[c] = "sendReply" /\ link[c]
    /\ sessions' = Without(session[c])
    /\ session' = [session EXCEPT ![c] = NoSession]
    /\ \E goesOn \in {then[c] = "loop", FALSE} :
           /\ At(c, IF goesOn THEN "recv" ELSE "exited")
           /\ link' = [link EXCEPT ![c] = goesOn]
    /\ UNCHANGED <<then, closed, buffer, used, messages, abandoned>>
-----------------------------------------------------------------------------
\* What a handler does once an await of its returns; the messages of the
\* client and the loss of the connection are the client's.
HandlerStep(c) == SeeClosed(c) \/ TimeOut(c) \/ ErrorSent(c)
                  \/ TranscribeReturns(c) \/ ReplySent(c)

ClientStep(c) == \/ Connect(c) \/ LoseConnection(c)
                 \/ RejectMessage(c) \/ FailChunk(c) \/ EndSession(c)
                 \/ \E id \in Ids : StartSession(c, id)
                 \/ \E seq \in Numbers, p \in Payloads : BufferChunk(c, seq, p)

Next == \E c \in Connections : HandlerStep(c) \/ ClientStep(c)

\* An await of a handler returns: recv has a timeout, a send ends or raises,
\* and transcribe is taken to end (the code has no timeout there).
Spec == /\ Init /\ [][Next]_vars
        /\ \A c \in Connections : WF_vars(HandlerStep(c))
-----------------------------------------------------------------------------
TypeOK == /\ handler \in [Connections -> Awaits]
          /\ then \in [Connections -> {"loop", "finalize", "break"}]
          /\ link \in [Connections -> BOOLEAN]
          /\ session \in [Connections -> Ids \cup {NoSession}]
          /\ closed \in [Connections -> BOOLEAN]
          /\ \A c \in Connections : buffer[c].total \in 0..MaxBytes
          /\ DOMAIN sessions \subseteq used
          /\ \A id \in DOMAIN sessions : sessions[id] \in Connections
          /\ messages \in [Connections -> 0..MaxMessages]
          /\ used \subseteq Ids /\ abandoned \subseteq used

Live(c) == handler[c] \notin {"unconnected", "exited"}

\* A session a live handler has not closed is registered under its identifier
\* as that handler's own, whatever the other connections do.
OpenIsRegistered ==
    \A c \in Connections :
        Live(c) /\ session[c] # NoSession /\ ~closed[c]
            => session[c] \in DOMAIN sessions /\ sessions[session[c]] = c

\* No session is finalized twice: the handlers never stand at an await of the
\* receive loop with a session that is closed, so no chunk reaches a closed
\* session and no session gets two transcripts.
NeverFinalizedTwice ==
    \A c \in Connections :
        /\ handler[c] \in {"recv", "sendError", "transcribe"} => ~(session[c] # NoSession /\ closed[c])
        /\ handler[c] \in {"transcribe", "sendReply"} => session[c] # NoSession

\* The registry keeps a session that no live handler works on only when its
\* finalization was cut short, by a reply that could not be sent or a failed
\* write of the debug WAV.
OrphansExplained ==
    \A id \in DOMAIN sessions :
        id \in abandoned \/ (Live(sessions[id]) /\ session[sessions[id]] = id)

\* A started session comes to an end, whatever the client does or stops doing
\* (docs/network_protocol.md:53, "Sessions time out").
SessionsEnd ==
    \A c \in Connections :
        (session[c] # NoSession) ~> (session[c] = NoSession \/ handler[c] = "exited")
-----------------------------------------------------------------------------
\* docs/architecture.md:52, "Audio buffering is bounded": the server holds the
\* audio of the sessions in progress, and no other.
RegistryIsLive == \A id \in DOMAIN sessions : Live(sessions[id])
=============================================================================
