----------------------------- MODULE VaaniSystem -----------------------------
(***************************************************************************)
(* Desktop clients (desktop/protocol_client.py) and the server, over       *)
(* WebSockets: stream_utterance against the handler of its connection.     *)
(* Each direction of a connection holds a bounded number of messages, in   *)
(* order: a send waits while it is full, and the client reads nothing      *)
(* before it has sent everything.  The server's handlers are those of      *)
(* AudioStreamServer, their messages now the clients' own.                 *)
(***************************************************************************)
EXTENDS AudioStreamServer, SequencesExt

CONSTANTS Sizes,        \* lengths of the utterances, in chunks
          Attempts,     \* attempts to connect: 1 and the backoffs
          InCapacity,   \* messages a connection holds for the server
          OutCapacity   \* messages a connection holds for the client

\* The chunks of c's utterance.
Part(c, i) == [size |-> 1, of |-> c, part |-> i]

ASSUME SystemAssumption ==
    /\ Sizes \subseteq Nat
    /\ Attempts \in Nat \ {0}
    /\ InCapacity \in Nat \ {0} /\ OutCapacity \in Nat \ {0}
    /\ Ids = Connections
    /\ \A n \in Sizes : /\ 0..(n - 1) \subseteq Numbers
                       /\ \A c \in Connections, i \in 1..n : Part(c, i) \in Payloads

VARIABLES
    client,    \* the await each stream_utterance stands at
    size,      \* chunks of the utterance
    attempts,  \* attempts to connect that failed
    sequence,  \* sequence_number, also the chunks sent
    inbox,     \* messages on their way to the server
    outbox,    \* replies on their way to the client
    due,       \* the reply the handler is about to send
    outcome,   \* what stream_utterance returned or raised
    troubled,  \* history: connections lost, timed out or with an error inside
    timedOut   \* history: connections on which the server timed out

clientVars == <<client, size, attempts, sequence, outcome>>
channelVars == <<inbox, outbox, due>>
troubleVars == <<troubled, timedOut>>
systemVars == <<vars, clientVars, channelVars, troubleVars>>

Sending == {"start", "chunk", "end"}
Places == {"connecting", "recv", "returned"} \cup Sending

Reply(type, audio) == [type |-> type, audio |-> audio]
Nothing == Reply("none", <<>>)
Error == Reply("error", <<>>)

Utterance(c) == [i \in 1..size[c] |-> Part(c, i)]

\* AudioBuffer.reconstruct: the chunks in the order of their numbers.
Nth(S, i) == CHOOSE s \in S : Cardinality({t \in S : t < s}) = i - 1
Reconstructed(b) == [i \in 1..Cardinality(DOMAIN b.chunks) |->
                        b.chunks[Nth(DOMAIN b.chunks, i)]]

SystemInit == /\ Init
              /\ client = [c \in Connections |-> "connecting"]
              /\ size \in [Connections -> Sizes]
              /\ attempts = [c \in Connections |-> 0]
              /\ sequence = [c \in Connections |-> 0]
              /\ inbox = [c \in Connections |-> <<>>]
              /\ outbox = [c \in Connections |-> <<>>]
              /\ due = [c \in Connections |-> Nothing]
              /\ outcome = [c \in Connections |-> Nothing]
              /\ troubled = {} /\ timedOut = {}

Trouble(c, noted) == /\ troubled' = IF noted THEN troubled \cup {c} ELSE troubled
                     /\ UNCHANGED timedOut

Goes(c, place) == client' = [client EXCEPT ![c] = place]

\* stream_utterance ends; its finally clause closes the connection, which the
\* server sees later.
Returns(c, result) == /\ Goes(c, "returned")
                      /\ outcome' = [outcome EXCEPT ![c] = result]
-----------------------------------------------------------------------------
(* stream_utterance *)

\* Mutant: the retries have no bound.
AttemptFailsForever(c) ==
    /\ client[c] = "connecting"
    /\ attempts' = [attempts EXCEPT ![c] = (@ + 1) % Attempts]
    /\ UNCHANGED <<vars, client, size, sequence, outcome, channelVars, troubleVars>>

\* An attempt that fails, up to the last.
AttemptFails(c) ==
    /\ client[c] = "connecting"
    /\ attempts' = [attempts EXCEPT ![c] = @ + 1]
    /\ IF attempts'[c] = Attempts THEN Returns(c, Reply("refused", <<>>))
                                  ELSE UNCHANGED <<client, outcome>>
    /\ Trouble(c, attempts'[c] = Attempts)
    /\ UNCHANGED <<vars, size, sequence, channelVars>>

AttemptSucceeds(c) == /\ client[c] = "connecting"
                      /\ Connect(c)
                      /\ Goes(c, "start")
                      /\ attempts' = [attempts EXCEPT ![c] = 0]
                      /\ UNCHANGED <<size, sequence, outcome, channelVars, troubleVars>>

Send(c, type, number, payload) ==
    /\ link[c] /\ Len(inbox[c]) < InCapacity
    /\ inbox' = [inbox EXCEPT ![c] =
                    Append(@, [type |-> type, seq |-> number, payload |-> payload])]
    /\ UNCHANGED <<vars, size, attempts, outcome, outbox, due, troubleVars>>

SendStart(c) == /\ client[c] = "start"
                /\ Send(c, "START", 0, Nothing)
                /\ Goes(c, IF size[c] > 0 THEN "chunk" ELSE "end")
                /\ UNCHANGED sequence

\* Mutants: the number stays the same; one chunk too many.
SendChunkSameNumber(c) ==
    /\ client[c] = "chunk"
    /\ sequence' = [sequence EXCEPT ![c] = @ + 1]
    /\ Send(c, "CHUNK", 0, Part(c, sequence'[c]))
    /\ Goes(c, IF sequence'[c] < size[c] THEN "chunk" ELSE "end")
SendChunkPastEnd(c) ==
    /\ client[c] = "chunk"
    /\ sequence' = [sequence EXCEPT ![c] = @ + 1]
    /\ Send(c, "CHUNK", sequence[c], Part(c, sequence'[c]))
    /\ Goes(c, IF sequence'[c] <= size[c] THEN "chunk" ELSE "end")

SendChunk(c) == /\ client[c] = "chunk"
                /\ sequence' = [sequence EXCEPT ![c] = @ + 1]
                /\ Send(c, "CHUNK", sequence[c], Part(c, sequence'[c]))
                /\ Goes(c, IF sequence'[c] < size[c] THEN "chunk" ELSE "end")

SendEnd(c) == /\ client[c] = "end"
              /\ Send(c, "END", sequence[c], Nothing)
              /\ Goes(c, "recv")
              /\ UNCHANGED sequence

\* The first reply is the answer, whatever it answers.
ReceiveAnswer(c) == /\ client[c] = "recv" /\ outbox[c] # <<>>
                    /\ Returns(c, Head(outbox[c]))
                    /\ outbox' = [outbox EXCEPT ![c] = Tail(@)]
                    /\ UNCHANGED <<vars, size, attempts, sequence, inbox, due, troubleVars>>

\* wait_for around recv.
GiveUp(c) == /\ client[c] = "recv"
             /\ Returns(c, Reply("timeout", <<>>))
             /\ Trouble(c, TRUE)
             /\ UNCHANGED <<vars, size, attempts, sequence, channelVars>>

\* ConnectionClosed, from a send or, when the replies have been read, recv.
SeeLost(c) == /\ ~link[c]
              /\ client[c] \in Sending \/ (client[c] = "recv" /\ outbox[c] = <<>>)
              /\ Returns(c, Reply("lost", <<>>))
              /\ UNCHANGED <<vars, size, attempts, sequence, channelVars, troubleVars>>

ClientMoves(c) == AttemptFails(c) \/ AttemptSucceeds(c) \/ SendStart(c) \/ SendChunk(c)
                  \/ SendEnd(c) \/ ReceiveAnswer(c) \/ GiveUp(c) \/ SeeLost(c)
-----------------------------------------------------------------------------
(* The handler of the connection *)

Owes(c, reply) == due' = [due EXCEPT ![c] = reply]

TakeMessage(c) ==
    /\ inbox[c] # <<>>
    /\ LET m == Head(inbox[c])
       IN  \/ /\ m.type = "START" /\ StartSession(c, c)
              /\ UNCHANGED due
           \/ /\ m.type = "CHUNK" /\ BufferChunk(c, m.seq, m.payload)
              /\ UNCHANGED due
           \/ /\ m.type = "CHUNK" /\ FailChunk(c) /\ Overflows(buffer[c], m.seq, m.payload)
              /\ Owes(c, Error)
           \/ /\ m.type = "END" /\ EndSession(c)
              /\ UNCHANGED due
           \/ /\ m.type # "START" /\ session[c] = NoSession /\ RejectMessage(c)
              /\ Owes(c, Error)
    /\ inbox' = [inbox EXCEPT ![c] = Tail(@)]
    /\ Trouble(c, handler'[c] = "exited")
    /\ UNCHANGED <<clientVars, outbox>>

\* The message has been delayed for longer than session_timeout_s.
ServerTimesOut(c) == /\ TimeOut(c)
                     /\ troubled' = troubled \cup {c} /\ timedOut' = timedOut \cup {c}
                     /\ UNCHANGED <<clientVars, channelVars>>

TranscriptReady(c) ==
    /\ TranscribeReturns(c)
    /\ \/ /\ Owes(c, Reply("transcript", Reconstructed(buffer[c])))
          /\ Trouble(c, FALSE)
       \/ /\ Owes(c, Error)
          /\ Trouble(c, TRUE)
    /\ UNCHANGED <<clientVars, inbox, outbox>>

\* The reply leaves; the handler goes on when the send returns.
WriteReply(c) == /\ due[c] # Nothing /\ link[c]
                 /\ Len(outbox[c]) < OutCapacity
                 /\ outbox' = [outbox EXCEPT ![c] = Append(@, due[c])]
                 /\ Owes(c, Nothing)
                 /\ UNCHANGED <<vars, clientVars, inbox, troubleVars>>

\* A file that could not be written ends the connection; that is no trouble for a
\* client that waits for the reply it was sent.
SendReturns(c) == /\ due[c] = Nothing
                  /\ ErrorSent(c) \/ ReplySent(c)
                  /\ Trouble(c, /\ handler'[c] = "exited"
                                /\ handler[c] = "sendError" \/ client[c] \in Sending)
                  /\ UNCHANGED <<clientVars, channelVars>>

ServerSeesClosed(c) == /\ SeeClosed(c)
                       /\ Owes(c, Nothing)
                       /\ UNCHANGED <<clientVars, inbox, outbox, troubleVars>>

ServerMoves(c) == TakeMessage(c) \/ ServerTimesOut(c) \/ TranscriptReady(c)
                  \/ WriteReply(c) \/ SendReturns(c) \/ ServerSeesClosed(c)
-----------------------------------------------------------------------------
\* The network fails, the keepalive gives up, or the client has closed: what was
\* on its way is lost, of the replies all after the first k.
ConnectionLost(c) ==
    /\ LoseConnection(c)
    /\ \E k \in 0..Len(outbox[c]) : outbox' = [outbox EXCEPT ![c] = SubSeq(@, 1, k)]
    /\ inbox' = [inbox EXCEPT ![c] = <<>>]
    /\ Trouble(c, client[c] # "returned")
    /\ UNCHANGED <<clientVars, due>>

\* Both peers wait for the other to read: neither answers the pings of the
\* other, and websockets closes the connection (ping_timeout).
Stuck(c) == /\ client[c] \in Sending /\ Len(inbox[c]) = InCapacity
            /\ due[c] # Nothing /\ Len(outbox[c]) = OutCapacity

Ended(c) == (client[c] = "returned" \/ Stuck(c)) /\ ConnectionLost(c)

SystemNext == \E c \in Connections : ClientMoves(c) \/ ServerMoves(c) \/ ConnectionLost(c)

\* The awaits of client and handler return: sends that find room, recv and
\* connect by their timeouts.
SystemSpec == /\ SystemInit /\ [][SystemNext]_systemVars
              /\ \A c \in Connections : /\ WF_systemVars(ClientMoves(c))
                                        /\ WF_systemVars(ServerMoves(c))
                                        /\ WF_systemVars(Ended(c))
-----------------------------------------------------------------------------
Answers == {"none", "error", "transcript", "refused", "timeout", "lost"}

SystemTypeOK ==
    /\ TypeOK
    /\ client \in [Connections -> Places]
    /\ \A c \in Connections :
        /\ size[c] \in Sizes /\ attempts[c] \in 0..Attempts /\ sequence[c] \in 0..size[c]
        /\ Len(inbox[c]) <= InCapacity /\ Len(outbox[c]) <= OutCapacity
        /\ \A r \in {due[c], outcome[c]} : r.type \in Answers
        /\ due[c] # Nothing => handler[c] \in {"sendError", "sendReply"}
        /\ outcome[c] # Nothing <=> client[c] = "returned"
    /\ timedOut \subseteq troubled

\* A transcript a client returns is of its own audio, in order and without
\* gaps, from the first chunk on; to the last chunk, unless the server timed
\* out in the middle of the session (main.py:81-84).
TranscriptIsOwn ==
    \A c \in Connections :
        outcome[c].type = "transcript"
            => /\ IsPrefix(outcome[c].audio, Utterance(c))
               /\ outcome[c].audio = Utterance(c) \/ c \in timedOut

\* When nothing fails, a client whose utterance fits the server's budget is
\* given the transcript of all of it, and one whose does not is told so: the
\* error comes before the transcript of what did fit.
AnsweredAsDue ==
    \A c \in Connections \ troubled :
        client[c] = "returned"
            => outcome[c] = IF size[c] <= MaxBytes THEN Reply("transcript", Utterance(c))
                                                  ELSE Error

\* stream_utterance returns or raises, also when client and server wait for
\* each other to read.
ClientReturns == \A c \in Connections : <>(client[c] = "returned")
=============================================================================
