---------------------------- MODULE SystemProofs ----------------------------
(***************************************************************************)
(* Theorems about VaaniSystem: clients and server, for any connections,    *)
(* utterances and budget, and channels of any capacity.                    *)
(***************************************************************************)
EXTENDS VaaniSystem, ServerProofs, FiniteSetTheorems, SequenceTheorems

\* What the channels carry.
Parts == {Part(c, i) : c \in Connections, i \in Nat}
Messages == [type : {"START", "CHUNK", "END"}, seq : Nat, payload : Parts \cup {Nothing}]
Replies == [type : Answers, audio : Seq(Parts)]

\* The types of the system's variables.
SystemTypes ==
    /\ client \in [Connections -> Places]
    /\ size \in [Connections -> Sizes]
    /\ attempts \in [Connections -> 0..Attempts]
    /\ sequence \in [Connections -> Nat]
    /\ inbox \in [Connections -> Seq(Messages)]
    /\ outbox \in [Connections -> Seq(Replies \ {Nothing})]
    /\ due \in [Connections -> Replies]
    /\ outcome \in [Connections -> Replies]
    /\ troubled \subseteq Connections /\ timedOut \subseteq troubled

\* Where stream_utterance stands, and what it has counted.
ClientAt(c) ==
    /\ sequence[c] <= size[c]
    /\ client[c] \in {"connecting", "start"} => sequence[c] = 0
    /\ client[c] = "chunk" => sequence[c] < size[c]
    /\ client[c] \in {"end", "recv"} => sequence[c] = size[c]
    /\ client[c] = "connecting" => handler[c] = "unconnected" /\ attempts[c] < Attempts
    /\ outcome[c] # Nothing <=> client[c] = "returned"

\* The messages of stream_utterance, in the order it sends them.
Stream(c, k) ==
    IF k = 1 THEN [type |-> "START", seq |-> 0, payload |-> Nothing]
    ELSE IF k = size[c] + 2 THEN [type |-> "END", seq |-> size[c], payload |-> Nothing]
    ELSE [type |-> "CHUNK", seq |-> k - 2, payload |-> Part(c, k - 1)]

Sent(c) == IF client[c] = "start" THEN 0
           ELSE IF client[c] = "recv" THEN size[c] + 2 ELSE sequence[c] + 1

\* A connection holds what has been sent and not received, in order.
Channel(c) ==
    /\ Len(inbox[c]) <= InCapacity /\ Len(outbox[c]) <= OutCapacity
    /\ messages[c] + Len(inbox[c]) <= size[c] + 2
    /\ \A i \in 1..Len(inbox[c]) : inbox[c][i] = Stream(c, messages[c] + i)
    /\ link[c] /\ client[c] \in Sending \cup {"recv"} => messages[c] + Len(inbox[c]) = Sent(c)

\* Before the connection there is nothing.
Unconnected(c) ==
    handler[c] = "unconnected" =>
        /\ client[c] \in {"connecting", "returned"}
        /\ ~link[c] /\ messages[c] = 0
        /\ inbox[c] = <<>> /\ outbox[c] = <<>> /\ due[c] = Nothing

\* The buffer of a session holds the first chunks of the utterance, and all that
\* were received while the session is being received.
Buffered(c) ==
    /\ session[c] \in {NoSession, c}
    /\ c \in used <=> messages[c] > 0
    /\ buffer[c].total <= size[c]
    /\ DOMAIN buffer[c].chunks = 0..(buffer[c].total - 1)
    /\ \A s \in DOMAIN buffer[c].chunks : buffer[c].chunks[s] = Part(c, s + 1)
    /\ messages[c] = 0 => /\ buffer[c].total = 0 /\ session[c] = NoSession
                          /\ handler[c] \in {"unconnected", "recv", "exited"}
    /\ session[c] = c /\ handler[c] = "recv" => buffer[c].total + 1 = messages[c]
    /\ handler[c] = "sendError" /\ then[c] # "finalize" => session[c] = NoSession
    /\ due[c] # Nothing => handler[c] \in {"sendError", "sendReply"}

\* What an utterance of this size is answered with when nothing fails.
Due(c) == IF size[c] <= MaxBytes THEN Reply("transcript", Utterance(c)) ELSE Error

Beginning(c, k) == [i \in 1..k |-> Part(c, i)]

\* A transcript is of the whole utterance, or of its beginning after a timeout.
Good(c, reply) ==
    reply.type = "transcript"
        => \E k \in 0..size[c] : /\ reply.audio = Beginning(c, k)
                                 /\ k = size[c] \/ c \in timedOut

Fits(c, reply) == Good(c, reply) /\ (c \in troubled \/ reply = Due(c))

\* The first reply is the right one, from the time it is decided on; of those
\* that follow (the transcript after an error, the errors after that) nothing is
\* said, because the client does not read them.
FirstReply(c) ==
    client[c] # "returned" =>
        /\ outbox[c] # <<>> => Fits(c, outbox[c][1])
        /\ link[c] /\ outbox[c] = <<>> =>
            /\ due[c] # Nothing => Fits(c, due[c])
            /\ due[c] = Nothing => handler[c] \notin {"sendError", "sendReply"}
            /\ handler[c] = "transcribe" => buffer[c].total = size[c] \/ c \in timedOut
            /\ handler[c] = "recv" => session[c] = c \/ messages[c] = 0

\* A connection that ends without trouble ends after the reply, for a client
\* that reads it.
EndsAnswered(c) ==
    ~link[c] /\ handler[c] # "unconnected" /\ c \notin troubled
        => client[c] = "returned" \/ (client[c] = "recv" /\ outbox[c] # <<>>)

Outcome(c) == client[c] = "returned" => Fits(c, outcome[c])

Conversation(c) == /\ ClientAt(c) /\ Channel(c) /\ Unconnected(c) /\ Buffered(c)
                   /\ FirstReply(c) /\ EndsAnswered(c) /\ Outcome(c)

\* The strengthening under which the invariants of the system are inductive.
SystemInv == /\ RegistryInv /\ BuffersOK /\ SystemTypes
             /\ \A c \in Connections : Conversation(c)
-----------------------------------------------------------------------------
(* A step of one conversation is no step of another *)

\* The variables of the conversation d are as they were.
Same(d) ==
    /\ client'[d] = client[d] /\ size'[d] = size[d] /\ attempts'[d] = attempts[d]
    /\ sequence'[d] = sequence[d] /\ outcome'[d] = outcome[d]
    /\ inbox'[d] = inbox[d] /\ outbox'[d] = outbox[d] /\ due'[d] = due[d]
    /\ d \in troubled' <=> d \in troubled
    /\ d \in timedOut' <=> d \in timedOut
    /\ handler'[d] = handler[d] /\ then'[d] = then[d] /\ link'[d] = link[d]
    /\ session'[d] = session[d] /\ buffer'[d] = buffer[d] /\ messages'[d] = messages[d]
    /\ d \in used' <=> d \in used

\* A reply that is right stays right: the troubles only grow.
LEMMA FitsStays == ASSUME NEW c \in Connections, NEW reply, Fits(c, reply), size'[c] = size[c],
                          c \in troubled => c \in troubled',
                          c \in timedOut => c \in timedOut'
                   PROVE  Fits(c, reply)'
<1>1. Due(c)' = Due(c)
  <2>1. Utterance(c)' = Utterance(c)
    BY DEF Utterance
  <2>2. QED
    BY <2>1 DEF Due
<1>2. Good(c, reply)'
  BY DEF Fits, Good
<1>3. QED
  BY <1>1, <1>2 DEF Fits

\* Only the conversation's own variables tell whether it is in order.
LEMMA SameConversation == ASSUME NEW d \in Connections, Conversation(d), Same(d)
                          PROVE  Conversation(d)'
<1>1. ClientAt(d)'
  BY DEF Conversation, ClientAt, Same
<1>2. Channel(d)'
  <2>1. Sent(d)' = Sent(d) /\ \A k : Stream(d, k)' = Stream(d, k)
    BY DEF Same, Sent, Stream
  <2>2. QED
    BY <2>1 DEF Conversation, Channel, Same
<1>3. Unconnected(d)'
  BY DEF Conversation, Unconnected, Same
<1>4. Buffered(d)'
  BY DEF Conversation, Buffered, Same
<1>5. \A r : Fits(d, r) => Fits(d, r)'
  BY FitsStays DEF Same
<1>6. FirstReply(d)'
  BY <1>5 DEF Conversation, FirstReply, Same
<1>7. EndsAnswered(d)'
  BY DEF Conversation, EndsAnswered, Same
<1>8. Outcome(d)'
  BY <1>5 DEF Conversation, Outcome, Same
<1>9. QED
  BY <1>1, <1>2, <1>3, <1>4, <1>6, <1>7, <1>8 DEF Conversation

\* What a step of c's client or handler has to show.
Advances(c) == /\ SystemTypes'
               /\ \A d \in Connections \ {c} : Same(d)
               /\ Conversation(c)'
               /\ [Next]_vars

LEMMA AdvancesKeeps == ASSUME SystemInv, NEW c \in Connections, Advances(c) PROVE SystemInv'
<1>1. RegistryInv' /\ BuffersOK'
  BY RegistryStep, BuffersStep DEF SystemInv, Advances
<1>2. \A d \in Connections \ {c} : Conversation(d)'
  BY SameConversation DEF SystemInv, Advances
<1>3. QED
  BY <1>1, <1>2 DEF SystemInv, Advances

LEMMA SizesAreNat == \A n \in Sizes : n \in Nat
  BY Zenon, SystemAssumption

LEMMA NotNoSession == \A c \in Connections : NoSession # c
  BY Zenon, ServerAssumption, SystemAssumption

\* The replies without audio.
LEMMA ReplyType == /\ \A type \in Answers : Reply(type, <<>>) \in Replies
                   /\ Nothing \in Replies /\ Error \in Replies \ {Nothing}
                   /\ \A type : type # "none" => Reply(type, <<>>) # Nothing
                   /\ \A type, audio : Reply(type, audio).type = type
                   /\ \A type, audio : Reply(type, audio).audio = audio
<1>1. <<>> \in Seq(Parts)
  OBVIOUS
<1>2. QED
  BY <1>1 DEF Reply, Replies, Nothing, Error, Answers
-----------------------------------------------------------------------------
(* stream_utterance *)

LEMMA AttemptFailsAdvances == ASSUME SystemInv, NEW c \in Connections, AttemptFails(c)
                              PROVE  Advances(c)
<1> DEFINE last == attempts[c] + 1 = Attempts
           refused == Reply("refused", <<>>)
<1>1. /\ client[c] = "connecting"
      /\ attempts' = [attempts EXCEPT ![c] = @ + 1]
      /\ UNCHANGED <<handler, then, link, session, closed, buffer, sessions, used, messages,
                     abandoned, size, sequence, inbox, outbox, due, timedOut>>
      /\ [Next]_vars
  BY DEF AttemptFails, Trouble, vars, sessionVars, channelVars
<1>2. /\ attempts[c] + 1 \in 0..Attempts
      /\ attempts'[c] = attempts[c] + 1
      /\ attempts' \in [Connections -> 0..Attempts]
  BY <1>1, SystemAssumption DEF SystemInv, SystemTypes, Conversation, ClientAt
<1>3. /\ client' = IF last THEN [client EXCEPT ![c] = "returned"] ELSE client
      /\ outcome' = IF last THEN [outcome EXCEPT ![c] = refused] ELSE outcome
      /\ troubled' = IF last THEN troubled \cup {c} ELSE troubled
  BY <1>2 DEF AttemptFails, Returns, Goes, Trouble
<1>4. SystemTypes'
  BY <1>1, <1>2, <1>3, ReplyType DEF SystemInv, SystemTypes, Places, Answers
<1>5. \A d \in Connections \ {c} : Same(d)
  BY <1>1, <1>3 DEF SystemInv, SystemTypes, Same
<1>6. Conversation(c)'
  <2>1. ClientAt(c) /\ Channel(c) /\ Unconnected(c) /\ Buffered(c) /\ handler[c] = "unconnected"
    BY <1>1 DEF SystemInv, Conversation, ClientAt
  <2>2. CASE last
    <3>1. client'[c] = "returned" /\ outcome'[c] = refused /\ c \in troubled'
      BY <1>3, <2>2 DEF SystemInv, SystemTypes
    <3>2. ClientAt(c)'
      BY <1>1, <2>1, <3>1, ReplyType DEF ClientAt, Sending
    <3>3. QED
      BY <1>1, <2>1, <3>1, <3>2, ReplyType
         DEF Conversation, Channel, Stream, Sending, Unconnected, Buffered, FirstReply,
             EndsAnswered, Outcome, Fits, Good
  <2>3. CASE ~last
    <3>1. UNCHANGED <<client, outcome, troubled>>
      BY <1>3, <2>3
    <3>2. ClientAt(c)'
      BY <1>1, <1>2, <2>1, <2>3, <3>1, SystemAssumption DEF ClientAt
    <3>3. QED
      BY <1>1, <2>1, <3>1, <3>2
         DEF Conversation, Channel, Stream, Sending, Unconnected, Buffered, FirstReply,
             EndsAnswered, Outcome
  <2>4. QED
    BY <2>2, <2>3
<1>7. QED
  BY <1>1, <1>4, <1>5, <1>6 DEF Advances

LEMMA AttemptSucceedsAdvances == ASSUME SystemInv, NEW c \in Connections, AttemptSucceeds(c)
                                 PROVE  Advances(c)
<1>1. /\ client[c] = "connecting"
      /\ handler' = [handler EXCEPT ![c] = "recv"]
      /\ link' = [link EXCEPT ![c] = TRUE]
      /\ client' = [client EXCEPT ![c] = "start"]
      /\ attempts' = [attempts EXCEPT ![c] = 0]
      /\ UNCHANGED <<then, session, closed, buffer, sessions, used, messages, abandoned,
                     size, sequence, outcome, inbox, outbox, due, troubled, timedOut>>
  BY DEF AttemptSucceeds, Connect, At, Goes, sessionVars, channelVars, troubleVars
<1>2. [Next]_vars
  BY DEF AttemptSucceeds, Next, ClientStep
<1>3. SystemTypes'
  BY <1>1, SystemAssumption DEF SystemInv, SystemTypes, Places, Sending
<1>4. \A d \in Connections \ {c} : Same(d)
  BY <1>1 DEF SystemInv, HandlersOK, SystemTypes, Same
<1>5. Conversation(c)'
  <2>1. Conversation(c) /\ handler[c] = "unconnected"
    BY <1>1 DEF SystemInv, Conversation, ClientAt
  <2>2. /\ client'[c] = "start" /\ handler'[c] = "recv" /\ link'[c]
    BY <1>1 DEF SystemInv, RegistryInv, HandlersOK, SystemTypes
  <2>3. ClientAt(c)'
    BY <1>1, <2>1, <2>2 DEF Conversation, ClientAt
  <2>4. Channel(c)'
    BY <1>1, <2>1, <2>2 DEF Conversation, Channel, Stream, Unconnected, Sent
  <2>5. Unconnected(c)' /\ Buffered(c)'
    BY <1>1, <2>1, <2>2, ServerAssumption, SystemAssumption
       DEF Conversation, Unconnected, Buffered
  <2>6. FirstReply(c)' /\ EndsAnswered(c)' /\ Outcome(c)'
    BY <1>1, <2>1, <2>2 DEF Conversation, Unconnected, FirstReply, EndsAnswered, Outcome
  <2>7. QED
    BY <2>3, <2>4, <2>5, <2>6 DEF Conversation
<1>6. QED
  BY <1>2, <1>3, <1>4, <1>5 DEF Advances

\* The messages of a connection after a send: the next of the stream is added.
LEMMA SendKeepsChannel ==
    ASSUME SystemInv, NEW c \in Connections, NEW type, NEW number, NEW payload,
           Send(c, type, number, payload),
           [type |-> type, seq |-> number, payload |-> payload] = Stream(c, Sent(c) + 1),
           client[c] \in Sending, client'[c] \in Sending \cup {"recv"},
           Sent(c) \in Nat, Sent(c) < size[c] + 2, Sent(c)' = Sent(c) + 1
    PROVE  Channel(c)' /\ inbox' \in [Connections -> Seq(Messages)]
<1> DEFINE m == [type |-> type, seq |-> number, payload |-> payload]
<1> DEFINE k == Len(inbox[c])
<1>1. /\ inbox' = [inbox EXCEPT ![c] = Append(inbox[c], m)] /\ link[c] /\ k < InCapacity
      /\ UNCHANGED <<size, link, outbox, messages>>
  BY DEF Send, vars
<1>2. /\ inbox[c] \in Seq(Messages) /\ messages[c] \in 0..MaxMessages /\ size[c] \in Sizes
      /\ k \in Nat
  BY LenProperties DEF SystemInv, SystemTypes, RegistryInv, HandlersOK
<1>12. messages[c] \in Nat /\ size[c] \in Nat /\ k \in Nat
  <2>1. size[c] \in Nat
    BY <1>2, SizesAreNat
  <2>2. messages[c] \in Nat
    BY <1>2, ServerAssumption
  <2>3. QED
    BY <1>2, <2>1, <2>2
<1>3. Channel(c) /\ messages[c] + k = Sent(c)
  BY <1>1 DEF SystemInv, Conversation, Channel
<1>4. m \in Messages
  <2>1. Nothing \in Parts \cup {Nothing}
    OBVIOUS
  <2>2. \A i \in Nat : Part(c, i) \in Parts
    BY DEF Parts
  <2>3. Sent(c) > 0 => Sent(c) + 1 - 2 \in Nat /\ Sent(c) \in Nat
    OBVIOUS
  <2>4. QED
    BY <1>12, <2>1, <2>2, <2>3 DEF Stream, Messages
<1>5. inbox'[c] = Append(inbox[c], m)
  BY <1>1 DEF SystemInv, SystemTypes
<1>6. inbox' \in [Connections -> Seq(Messages)]
  BY <1>1, <1>2, <1>4, AppendProperties DEF SystemInv, SystemTypes
<1>7. Len(inbox'[c]) = k + 1 /\ \A i \in 1..k : inbox'[c][i] = inbox[c][i]
  BY <1>2, <1>4, <1>5, AppendProperties
<1>8. inbox'[c][k + 1] = m
  BY <1>2, <1>4, <1>5, AppendProperties
<1>9. \A i : Stream(c, i)' = Stream(c, i)
  BY <1>1 DEF Stream
<1>10. ASSUME NEW i \in 1..Len(inbox'[c]) PROVE inbox'[c][i] = (Stream(c, messages[c] + i))'
  <2>1. (Stream(c, messages[c] + i))' = Stream(c, messages[c] + i)
    BY <1>1, <1>9
  <2>2. CASE i \in 1..k
    BY <1>3, <1>7, <2>1, <2>2 DEF Channel
  <2>3. CASE i = k + 1
    <3>1. messages[c] + i = (messages[c] + k) + 1
      BY <1>12, <2>3
    <3>2. QED
      BY <1>3, <1>8, <2>1, <2>3, <3>1
  <2>4. QED
    BY <1>12, <1>7, <2>2, <2>3
<1>11. messages[c] + (k + 1) = (messages[c] + k) + 1
  BY <1>12
<1>15. messages'[c] + Len(inbox'[c]) = Sent(c)'
  BY <1>1, <1>3, <1>7, <1>11
<1>16. Sent(c)' <= size[c] + 2
  BY <1>12
<1>13. Len(inbox'[c]) <= InCapacity
  BY <1>1, <1>7, <1>12, SystemAssumption
<1>14. QED
  BY <1>1, <1>3, <1>6, <1>10, <1>13, <1>15, <1>16 DEF Channel

\* What the sends of a client have in common.
LEMMA SendAdvances ==
    ASSUME SystemInv, NEW c \in Connections, NEW type, NEW number, NEW payload,
           Send(c, type, number, payload),
           [type |-> type, seq |-> number, payload |-> payload] = Stream(c, Sent(c) + 1),
           client[c] \in Sending, NEW place \in Sending \cup {"recv"}, Goes(c, place),
           NEW n \in Nat, sequence' = [sequence EXCEPT ![c] = n],
           Sent(c) \in Nat, Sent(c) < size[c] + 2, Sent(c)' = Sent(c) + 1,
           n <= size[c],
           place # "start", place = "chunk" => n < size[c], place \in {"end", "recv"} => n = size[c]
    PROVE  Advances(c)
<1>1. /\ client' = [client EXCEPT ![c] = place]
      /\ inbox' = [inbox EXCEPT ![c] =
                      Append(@, [type |-> type, seq |-> number, payload |-> payload])]
      /\ UNCHANGED <<handler, then, link, session, closed, buffer, sessions, used, messages,
                     abandoned, size, attempts, outcome, outbox, due, troubled, timedOut>>
      /\ link[c] /\ [Next]_vars
  BY DEF Send, Goes, vars, sessionVars, troubleVars
<1>2. client'[c] = place /\ sequence'[c] = n
  BY <1>1 DEF SystemInv, SystemTypes
<1>3. Channel(c)' /\ inbox' \in [Connections -> Seq(Messages)]
  BY <1>1, <1>2, SendKeepsChannel
<1>4. SystemTypes'
  BY <1>1, <1>3 DEF SystemInv, SystemTypes, Places, Sending
<1>5. \A d \in Connections \ {c} : Same(d)
  BY <1>1 DEF SystemInv, SystemTypes, Same
<1>6. Conversation(c)'
  <2>1. Conversation(c) /\ handler[c] # "unconnected"
    BY <1>1 DEF SystemInv, Conversation, Unconnected
  <2>2. ClientAt(c)'
    BY <1>1, <1>2, <2>1 DEF Conversation, ClientAt, Sending
  <2>3. Unconnected(c)' /\ Buffered(c)'
    BY <1>1, <2>1 DEF Conversation, Unconnected, Buffered
  <2>4. FirstReply(c)' /\ EndsAnswered(c)' /\ Outcome(c)'
    BY <1>1, <1>2, <2>1, FitsStays DEF Conversation, FirstReply, EndsAnswered, Outcome, Sending
  <2>5. QED
    BY <1>3, <2>2, <2>3, <2>4 DEF Conversation
<1>7. QED
  BY <1>1, <1>4, <1>5, <1>6 DEF Advances

LEMMA SendStartAdvances == ASSUME SystemInv, NEW c \in Connections, SendStart(c)
                           PROVE  Advances(c)
<1> DEFINE place == IF size[c] > 0 THEN "chunk" ELSE "end"
<1>1. /\ client[c] = "start" /\ Send(c, "START", 0, Nothing) /\ Goes(c, place)
      /\ UNCHANGED <<sequence, size>>
  BY DEF SendStart, Send
<1>2. /\ sequence[c] = 0 /\ size[c] \in Nat /\ sequence \in [Connections -> Nat]
      /\ client'[c] = place
  BY <1>1, SystemAssumption DEF SystemInv, Conversation, ClientAt, SystemTypes, Goes
<1>3. Sent(c) = 0 /\ Sent(c)' = 1
  BY <1>1, <1>2 DEF Sent
<1>4. sequence' = [sequence EXCEPT ![c] = 0]
  BY <1>1, <1>2
<1>5. Stream(c, Sent(c) + 1) = [type |-> "START", seq |-> 0, payload |-> Nothing]
  BY <1>3 DEF Stream
<1>6. /\ place \in Sending \cup {"recv"} /\ place # "start" /\ place # "recv" /\ 0 \in Nat
      /\ place = "chunk" => 0 < size[c]
      /\ place = "end" => 0 = size[c]
      /\ client[c] \in Sending
  BY <1>1, <1>2 DEF Sending
<1> HIDE DEF place
<1>8. /\ place \in {"end", "recv"} => 0 = size[c]
      /\ Sent(c) \in Nat /\ Sent(c) < size[c] + 2 /\ Sent(c)' = Sent(c) + 1 /\ 0 <= size[c]
  BY <1>2, <1>3, <1>6
<1>7. QED
  BY <1>1, <1>4, <1>5, <1>6, <1>8, SendAdvances

LEMMA SendChunkAdvances == ASSUME SystemInv, NEW c \in Connections, SendChunk(c)
                           PROVE  Advances(c)
<1> DEFINE n == sequence[c] + 1
           place == IF n < size[c] THEN "chunk" ELSE "end"
<1>1. /\ client[c] = "chunk" /\ sequence' = [sequence EXCEPT ![c] = @ + 1]
      /\ sequence \in [Connections -> Nat] /\ size[c] \in Nat /\ sequence[c] < size[c]
  BY SystemAssumption DEF SendChunk, SystemInv, SystemTypes, Conversation, ClientAt
<1>2. sequence'[c] = n /\ sequence' = [sequence EXCEPT ![c] = n] /\ n \in Nat /\ n <= size[c]
  BY <1>1
<1>3. Send(c, "CHUNK", sequence[c], Part(c, n)) /\ Goes(c, place) /\ UNCHANGED size
  BY <1>2 DEF SendChunk, Send
<1>4. client'[c] = place
  BY <1>3 DEF SystemInv, SystemTypes, Goes
<1>5. Sent(c) = n /\ Sent(c)' = n + 1
  BY <1>1, <1>2, <1>3, <1>4 DEF Sent
<1>6. Stream(c, Sent(c) + 1) = [type |-> "CHUNK", seq |-> sequence[c], payload |-> Part(c, n)]
  BY <1>1, <1>5 DEF Stream
<1>7. /\ place \in Sending \cup {"recv"} /\ place # "start" /\ place # "recv"
      /\ place = "chunk" => n < size[c]
      /\ place = "end" => n = size[c]
      /\ client[c] \in Sending /\ Sent(c) \in Nat /\ Sent(c) < size[c] + 2
  BY <1>1, <1>2, <1>5 DEF Sending
<1> HIDE DEF place, n
<1>8. QED
  BY <1>2, <1>3, <1>5, <1>6, <1>7, SendAdvances

LEMMA SendEndAdvances == ASSUME SystemInv, NEW c \in Connections, SendEnd(c)
                         PROVE  Advances(c)
<1>1. /\ client[c] = "end" /\ Send(c, "END", sequence[c], Nothing) /\ Goes(c, "recv")
      /\ UNCHANGED <<sequence, size>>
  BY DEF SendEnd, Send
<1>2. /\ sequence[c] = size[c] /\ size[c] \in Nat /\ sequence \in [Connections -> Nat]
      /\ client'[c] = "recv"
  BY <1>1, SystemAssumption DEF SystemInv, Conversation, ClientAt, SystemTypes, Goes
<1>3. Sent(c) = size[c] + 1 /\ Sent(c)' = size[c] + 2
  BY <1>1, <1>2 DEF Sent
<1>4. sequence' = [sequence EXCEPT ![c] = size[c]]
  BY <1>1, <1>2
<1>5. Stream(c, Sent(c) + 1) = [type |-> "END", seq |-> sequence[c], payload |-> Nothing]
  BY <1>2, <1>3 DEF Stream
<1>6. client[c] \in Sending /\ Sent(c) \in Nat /\ Sent(c) < size[c] + 2 /\ Sent(c)' = Sent(c) + 1
  BY <1>1, <1>2, <1>3 DEF Sending
<1>8. /\ "recv" \in Sending \cup {"recv"} /\ size[c] <= size[c] /\ size[c] \in Nat
  BY <1>2
<1>7. QED
  BY <1>1, <1>4, <1>5, <1>6, <1>8, SendAdvances

\* However stream_utterance returns, it is enough that its result fits.
LEMMA ReturnsAdvances ==
    ASSUME SystemInv, NEW c \in Connections, NEW result \in Replies \ {Nothing},
           Returns(c, result),
           client[c] # "connecting",
           UNCHANGED <<vars, size, attempts, sequence, inbox, due, timedOut>>,
           troubled' \in {troubled, troubled \cup {c}},
           outbox' \in {outbox, [outbox EXCEPT ![c] = Tail(@)]},
           outbox' # outbox => outbox[c] # <<>>,
           Fits(c, result)'
    PROVE  Advances(c)
<1>1. /\ client' = [client EXCEPT ![c] = "returned"]
      /\ outcome' = [outcome EXCEPT ![c] = result]
      /\ UNCHANGED <<handler, then, link, session, closed, buffer, sessions, used, messages,
                     abandoned, size, attempts, sequence, inbox, due, timedOut>>
      /\ [Next]_vars
  BY DEF Returns, Goes, vars, sessionVars
<1>2. client'[c] = "returned" /\ outcome'[c] = result
  BY <1>1 DEF SystemInv, SystemTypes
<1>3. outbox[c] \in Seq(Replies \ {Nothing}) /\ outbox'[c] \in {outbox[c], Tail(outbox[c])}
  BY DEF SystemInv, SystemTypes
<1>4. /\ outbox' \in [Connections -> Seq(Replies \ {Nothing})]
      /\ Len(outbox'[c]) <= Len(outbox[c])
      /\ outbox[c] = <<>> => outbox'[c] = <<>>
  <2>1. CASE outbox' = outbox
    BY <1>3, <2>1, LenProperties DEF SystemInv, SystemTypes
  <2>2. CASE outbox' # outbox
    <3>1. outbox[c] # <<>> /\ outbox' = [outbox EXCEPT ![c] = Tail(@)]
      BY <2>2
    <3>2. Tail(outbox[c]) \in Seq(Replies \ {Nothing}) /\ Len(Tail(outbox[c])) = Len(outbox[c]) - 1
      BY <1>3, <3>1, HeadTailProperties
    <3>3. Len(outbox[c]) \in Nat
      BY <1>3, LenProperties
    <3>4. outbox'[c] = Tail(outbox[c])
      BY <3>1 DEF SystemInv, SystemTypes
    <3>5. Len(outbox'[c]) <= Len(outbox[c])
      BY <3>2, <3>3, <3>4
    <3>6. outbox' \in [Connections -> Seq(Replies \ {Nothing})]
      <4>1. outbox \in [Connections -> Seq(Replies \ {Nothing})]
        BY DEF SystemInv, SystemTypes
      <4>2. QED
        BY <3>1, <3>2, <4>1
    <3>7. QED
      BY <3>1, <3>5, <3>6
  <2>3. QED
    BY <2>1, <2>2
<1>5. SystemTypes'
  BY <1>1, <1>4 DEF SystemInv, SystemTypes, Places
<1>6. \A d \in Connections \ {c} : Same(d)
  BY <1>1 DEF SystemInv, SystemTypes, Same
<1>7. Conversation(c)'
  <2>1. Conversation(c)
    BY DEF SystemInv
  <2>2. ClientAt(c)'
    BY <1>1, <1>2, <2>1 DEF Conversation, ClientAt, Sending
  <2>3. Channel(c)'
    <3>1. Len(outbox'[c]) <= OutCapacity
      <4>1. Len(outbox'[c]) \in Nat /\ Len(outbox[c]) \in Nat
        BY <1>3, <1>4, LenProperties
      <4>2. QED
        BY <1>4, <2>1, <4>1, SystemAssumption DEF Conversation, Channel
    <3>2. QED
      BY <1>1, <1>2, <2>1, <3>1 DEF Conversation, Channel, Stream, Sending
  <2>4. Unconnected(c)' /\ Buffered(c)'
    BY <1>1, <1>2, <1>4, <2>1 DEF Conversation, Unconnected, Buffered
  <2>5. FirstReply(c)' /\ EndsAnswered(c)' /\ Outcome(c)'
    BY <1>2 DEF FirstReply, EndsAnswered, Outcome
  <2>6. QED
    BY <2>2, <2>3, <2>4, <2>5 DEF Conversation
<1>8. QED
  BY <1>1, <1>5, <1>6, <1>7 DEF Advances

LEMMA ReceiveAnswerAdvances == ASSUME SystemInv, NEW c \in Connections, ReceiveAnswer(c)
                               PROVE  Advances(c)
<1>1. /\ client[c] = "recv" /\ outbox[c] # <<>> /\ Returns(c, Head(outbox[c]))
      /\ outbox' = [outbox EXCEPT ![c] = Tail(@)]
      /\ UNCHANGED <<vars, size, attempts, sequence, inbox, due, troubled, timedOut>>
  BY DEF ReceiveAnswer, troubleVars
<1>2. outbox[c] \in Seq(Replies \ {Nothing})
  BY DEF SystemInv, SystemTypes
<1>3. PICK answer \in Replies \ {Nothing} : answer = Head(outbox[c]) /\ answer = outbox[c][1]
  BY <1>1, <1>2, HeadTailProperties
<1>4. Fits(c, answer)
  BY <1>1, <1>3 DEF SystemInv, Conversation, FirstReply
<1>5. Fits(c, answer)'
  BY <1>1, <1>4, FitsStays
<1>6. QED
  BY <1>1, <1>3, <1>5, ReturnsAdvances

LEMMA GiveUpAdvances == ASSUME SystemInv, NEW c \in Connections, GiveUp(c)
                        PROVE  Advances(c)
<1>1. /\ client[c] = "recv" /\ Returns(c, Reply("timeout", <<>>))
      /\ troubled' = troubled \cup {c}
      /\ UNCHANGED <<vars, size, attempts, sequence, inbox, outbox, due, timedOut>>
  BY DEF GiveUp, Trouble, channelVars
<1>2. PICK result \in Replies \ {Nothing} : result = Reply("timeout", <<>>) /\ result.type = "timeout"
  BY ReplyType DEF Answers
<1>3. Fits(c, result)'
  BY <1>1, <1>2 DEF Fits, Good
<1>4. QED
  BY <1>1, <1>2, <1>3, ReturnsAdvances

\* A client that finds its connection lost before the answer has met trouble.
LEMMA SeeLostAdvances == ASSUME SystemInv, NEW c \in Connections, SeeLost(c)
                         PROVE  Advances(c)
<1>1. /\ ~link[c] /\ Returns(c, Reply("lost", <<>>))
      /\ client[c] \in Sending \/ (client[c] = "recv" /\ outbox[c] = <<>>)
      /\ UNCHANGED <<vars, size, attempts, sequence, inbox, outbox, due, troubled, timedOut>>
  BY DEF SeeLost, channelVars, troubleVars
<1>2. PICK result \in Replies \ {Nothing} : result = Reply("lost", <<>>) /\ result.type = "lost"
  BY ReplyType DEF Answers
<1>3. client[c] # "connecting" /\ c \in troubled
  BY <1>1 DEF SystemInv, Conversation, Unconnected, EndsAnswered, Sending
<1>4. Fits(c, result)'
  BY <1>1, <1>2, <1>3 DEF Fits, Good
<1>5. QED
  BY <1>1, <1>2, <1>3, <1>4, ReturnsAdvances
-----------------------------------------------------------------------------
(* The audio of a session *)

\* A buffer with the first k chunks of c's utterance is reconstructed to them
\* (AudioBuffer.reconstruct sorts the numbers).
LEMMA ReconstructedBeginning ==
    ASSUME NEW b, NEW c, NEW k \in Nat, DOMAIN b.chunks = 0..(k - 1),
           \A s \in DOMAIN b.chunks : b.chunks[s] = Part(c, s + 1)
    PROVE  Reconstructed(b) = Beginning(c, k)
<1> DEFINE S == 0..(k - 1)
<1>1. Cardinality(S) = k
  <2>1. Cardinality(S) = IF 0 > k - 1 THEN 0 ELSE (k - 1) - 0 + 1
    BY FS_Interval
  <2>2. QED
    BY <2>1
<1>2. \A s \in S : Cardinality({t \in S : t < s}) = s
  <2> SUFFICES ASSUME NEW s \in S PROVE Cardinality({t \in S : t < s}) = s
    OBVIOUS
  <2>1. {t \in S : t < s} = 0..(s - 1)
    OBVIOUS
  <2>2. s \in Nat /\ 0 \in Int /\ s - 1 \in Int
    OBVIOUS
  <2>3. Cardinality(0..(s - 1)) = IF 0 > s - 1 THEN 0 ELSE (s - 1) - 0 + 1
    BY <2>2, FS_Interval
  <2>4. Cardinality(0..(s - 1)) = s
    BY <2>2, <2>3
  <2>5. QED
    BY <2>1, <2>4
<1>3. ASSUME NEW i \in 1..k PROVE Nth(S, i) = i - 1
  <2>1. i - 1 \in S /\ Cardinality({t \in S : t < i - 1}) = i - 1
    BY <1>2
  <2>2. \A s \in S : Cardinality({t \in S : t < s}) = i - 1 => s = i - 1
    BY <1>2
  <2> HIDE DEF S
  <2>3. QED
    BY <2>1, <2>2 DEF Nth
<1>4. \A i \in 1..k : b.chunks[Nth(S, i)] = Part(c, i)
  <2> SUFFICES ASSUME NEW i \in 1..k PROVE b.chunks[Nth(S, i)] = Part(c, i)
    OBVIOUS
  <2>1. i - 1 \in DOMAIN b.chunks /\ (i - 1) + 1 = i
    OBVIOUS
  <2>2. QED
    BY <1>3, <2>1
<1> HIDE DEF S
<1>5. QED
  BY <1>1, <1>4 DEF Reconstructed, Beginning, S

\* The beginnings of an utterance are sequences of chunks.
LEMMA BeginningType == ASSUME NEW c \in Connections, NEW k \in Nat
                       PROVE  Beginning(c, k) \in Seq(Parts)
  BY DEF Beginning, Parts

\* The audio of c's session, whatever it holds.
LEMMA AudioOfSession == ASSUME SystemInv, NEW c \in Connections
                        PROVE  /\ buffer[c].total \in Nat /\ buffer[c].total <= MaxBytes
                               /\ buffer[c].total <= size[c]
                               /\ Reconstructed(buffer[c]) = Beginning(c, buffer[c].total)
                               /\ Reply("transcript", Reconstructed(buffer[c])) \in Replies \ {Nothing}
<1>1. buffer[c].total \in 0..MaxBytes
  BY DEF SystemInv, BuffersOK, Buffers
<1>2. buffer[c].total \in Nat /\ buffer[c].total <= MaxBytes
  BY <1>1, BufferAssumption
<1>3. /\ buffer[c].total <= size[c] /\ DOMAIN buffer[c].chunks = 0..(buffer[c].total - 1)
      /\ \A s \in DOMAIN buffer[c].chunks : buffer[c].chunks[s] = Part(c, s + 1)
  BY DEF SystemInv, Conversation, Buffered
<1>4. Reconstructed(buffer[c]) = Beginning(c, buffer[c].total)
  BY <1>2, <1>3, ReconstructedBeginning
<1>5. Reply("transcript", Reconstructed(buffer[c])) \in Replies \ {Nothing}
  BY <1>2, <1>4, BeginningType DEF Reply, Replies, Answers, Nothing
<1>6. QED
  BY <1>2, <1>3, <1>4, <1>5
-----------------------------------------------------------------------------
(* The handler of the connection *)

LEMMA WriteReplyAdvances == ASSUME SystemInv, NEW c \in Connections, WriteReply(c)
                            PROVE  Advances(c)
<1>1. /\ due[c] # Nothing /\ link[c] /\ Len(outbox[c]) < OutCapacity
      /\ outbox' = [outbox EXCEPT ![c] = Append(outbox[c], due[c])]
      /\ due' = [due EXCEPT ![c] = Nothing]
      /\ UNCHANGED <<handler, then, link, session, closed, buffer, sessions, used, messages,
                     abandoned, client, size, attempts, sequence, outcome, inbox, troubled,
                     timedOut>>
      /\ [Next]_vars
  BY DEF WriteReply, Owes, vars, sessionVars, clientVars, troubleVars
<1>2. due[c] \in Replies \ {Nothing} /\ outbox[c] \in Seq(Replies \ {Nothing})
  BY <1>1 DEF SystemInv, SystemTypes
<1>3. /\ Append(outbox[c], due[c]) \in Seq(Replies \ {Nothing})
      /\ Len(Append(outbox[c], due[c])) = Len(outbox[c]) + 1
      /\ \A i \in 1..Len(outbox[c]) : Append(outbox[c], due[c])[i] = outbox[c][i]
      /\ Append(outbox[c], due[c])[Len(outbox[c]) + 1] = due[c]
  BY <1>2, AppendProperties
<1>4. outbox'[c] = Append(outbox[c], due[c]) /\ due'[c] = Nothing
  BY <1>1 DEF SystemInv, SystemTypes
<1>5. SystemTypes'
  <2>1. outbox' \in [Connections -> Seq(Replies \ {Nothing})]
    <3>1. outbox \in [Connections -> Seq(Replies \ {Nothing})]
      BY DEF SystemInv, SystemTypes
    <3>2. QED
      BY <1>1, <1>3, <3>1
  <2>2. due' \in [Connections -> Replies]
    BY <1>1, ReplyType DEF SystemInv, SystemTypes
  <2>3. QED
    BY <1>1, <2>1, <2>2 DEF SystemInv, SystemTypes
<1>6. \A d \in Connections \ {c} : Same(d)
  BY <1>1 DEF SystemInv, SystemTypes, Same
<1>7. Conversation(c)'
  <2>1. Conversation(c)
    BY DEF SystemInv
  <2>2. ClientAt(c)'
    BY <1>1, <2>1 DEF Conversation, ClientAt
  <2>3. Len(outbox[c]) \in Nat
    BY <1>2, LenProperties
  <2>4. Len(outbox'[c]) <= OutCapacity /\ outbox'[c] # <<>>
    <3>1. Len(outbox'[c]) = Len(outbox[c]) + 1
      BY <1>3, <1>4
    <3>2. Len(<<>>) = 0
      OBVIOUS
    <3>3. QED
      <4>1. OutCapacity \in Nat
        BY Zenon, SystemAssumption
      <4>2. QED
        BY <1>1, <2>3, <3>1, <3>2, <4>1
  <2>5. Channel(c)'
    BY <1>1, <2>1, <2>4 DEF Conversation, Channel, Stream, Sent
  <2>6. Unconnected(c)' /\ Buffered(c)'
    BY <1>1, <1>4, <2>1 DEF Conversation, Unconnected, Buffered
  <2>7. client[c] # "returned" => Fits(c, outbox'[c][1])
    <3>1. CASE outbox[c] = <<>>
      <4>1. Len(outbox[c]) = 0
        BY <3>1
      <4>2. outbox'[c][1] = due[c]
        BY <1>3, <1>4, <4>1
      <4>3. QED
        BY <1>1, <2>1, <3>1, <4>2 DEF Conversation, FirstReply
    <3>2. CASE outbox[c] # <<>>
      <4>1. 1 \in 1..Len(outbox[c])
        BY <1>2, <3>2, EmptySeq, LenProperties
      <4>2. outbox'[c][1] = outbox[c][1]
        BY <1>3, <1>4, <4>1
      <4>3. QED
        BY <2>1, <3>2, <4>2 DEF Conversation, FirstReply
    <3>3. QED
      BY <3>1, <3>2
  <2>8. PICK first : first = outbox'[c][1]
    OBVIOUS
  <2>9. FirstReply(c)'
    BY <1>1, <2>4, <2>7, <2>8, FitsStays DEF FirstReply
  <2>10. EndsAnswered(c)' /\ Outcome(c)'
    BY <1>1, <2>1, FitsStays DEF Conversation, EndsAnswered, Outcome
  <2>11. QED
    BY <2>2, <2>5, <2>6, <2>9, <2>10 DEF Conversation
<1>8. QED
  BY <1>1, <1>5, <1>6, <1>7 DEF Advances

LEMMA ServerSeesClosedAdvances == ASSUME SystemInv, NEW c \in Connections, ServerSeesClosed(c)
                                  PROVE  Advances(c)
<1>1. /\ ~link[c] /\ handler[c] \in {"recv", "sendError", "sendReply"}
      /\ handler' = [handler EXCEPT ![c] = "exited"]
      /\ due' = [due EXCEPT ![c] = Nothing]
      /\ UNCHANGED <<then, link, session, buffer, used, messages, client, size, attempts,
                     sequence, outcome, inbox, outbox, troubled, timedOut>>
  BY DEF ServerSeesClosed, SeeClosed, HandleClose, At, Owes, clientVars, troubleVars
<1>2. [Next]_vars
  BY DEF ServerSeesClosed, Next, HandlerStep
<1>3. handler'[c] = "exited" /\ due'[c] = Nothing
  BY <1>1 DEF SystemInv, SystemTypes, RegistryInv, HandlersOK
<1>4. SystemTypes'
  BY <1>1, ReplyType DEF SystemInv, SystemTypes
<1>5. \A d \in Connections \ {c} : Same(d)
  BY <1>1 DEF SystemInv, SystemTypes, RegistryInv, HandlersOK, Same
<1>6. Conversation(c)'
  <2>1. Conversation(c)
    BY DEF SystemInv
  <2>2. ClientAt(c)'
    BY <1>1, <1>3, <2>1 DEF Conversation, ClientAt
  <2>3. Channel(c)'
    BY <1>1, <1>3, <2>1 DEF Conversation, Channel, Stream, Sent
  <2>4. Unconnected(c)' /\ Buffered(c)'
    BY <1>1, <1>3, <2>1 DEF Conversation, Unconnected, Buffered
  <2>5. FirstReply(c)' /\ EndsAnswered(c)' /\ Outcome(c)'
    BY <1>1, <1>3, <2>1, FitsStays DEF Conversation, FirstReply, EndsAnswered, Outcome
  <2>6. QED
    BY <2>2, <2>3, <2>4, <2>5 DEF Conversation
<1>7. QED
  BY <1>2, <1>4, <1>5, <1>6 DEF Advances

LEMMA ConnectionLostAdvances == ASSUME SystemInv, NEW c \in Connections, ConnectionLost(c)
                                PROVE  Advances(c)
<1>1. /\ link[c] /\ link' = [link EXCEPT ![c] = FALSE]
      /\ inbox' = [inbox EXCEPT ![c] = <<>>]
      /\ troubled' = IF client[c] # "returned" THEN troubled \cup {c} ELSE troubled
      /\ UNCHANGED <<handler, then, session, closed, buffer, sessions, used, messages, abandoned,
                     client, size, attempts, sequence, outcome, due, timedOut>>
  BY DEF ConnectionLost, LoseConnection, Trouble, sessionVars, clientVars
<1>2. PICK k \in 0..Len(outbox[c]) : outbox' = [outbox EXCEPT ![c] = SubSeq(outbox[c], 1, k)]
  BY DEF ConnectionLost
<1>3. [Next]_vars
  BY DEF ConnectionLost, Next, ClientStep
<1>4. /\ ~link'[c] /\ inbox'[c] = <<>> /\ outbox'[c] = SubSeq(outbox[c], 1, k)
      /\ outbox[c] \in Seq(Replies \ {Nothing})
  BY <1>1, <1>2 DEF SystemInv, SystemTypes, RegistryInv, HandlersOK
<1>5. Len(outbox[c]) \in Nat /\ k \in Nat /\ k <= Len(outbox[c])
  BY <1>4, LenProperties
<1>6. /\ SubSeq(outbox[c], 1, k) \in Seq(Replies \ {Nothing})
      /\ Len(SubSeq(outbox[c], 1, k)) = k
      /\ \A i \in 1..k : SubSeq(outbox[c], 1, k)[i] = outbox[c][i]
  <2>1. \A i \in 1..k : outbox[c][i] \in Replies \ {Nothing}
    BY <1>4, <1>5, ElementOfSeq
  <2>2. Len(SubSeq(outbox[c], 1, k)) = IF 1 <= k THEN k - 1 + 1 ELSE 0
    BY <1>4, <1>5, SubSeqProperties
  <2>3. \A i \in 1..k : SubSeq(outbox[c], 1, k)[i] = outbox[c][1 + i - 1]
    BY <1>4, <1>5, <2>2, SubSeqProperties
  <2>4. SubSeq(outbox[c], 1, k) \in Seq(Replies \ {Nothing})
    BY <1>4, <1>5, <2>1, SubSeqProperties
  <2>5. QED
    BY <1>5, <2>2, <2>3, <2>4
<1>7. SystemTypes'
  <2>1. outbox' \in [Connections -> Seq(Replies \ {Nothing})]
    <3>1. outbox \in [Connections -> Seq(Replies \ {Nothing})]
      BY DEF SystemInv, SystemTypes
    <3>2. QED
      BY <1>2, <1>6, <3>1
  <2>2. inbox' \in [Connections -> Seq(Messages)]
    BY <1>1 DEF SystemInv, SystemTypes
  <2>3. troubled' \subseteq Connections /\ timedOut' \subseteq troubled'
    BY <1>1 DEF SystemInv, SystemTypes
  <2>4. QED
    BY <1>1, <2>1, <2>2, <2>3 DEF SystemInv, SystemTypes
<1>8. \A d \in Connections \ {c} : Same(d)
  BY <1>1, <1>2 DEF SystemInv, SystemTypes, RegistryInv, HandlersOK, Same
<1>9. Conversation(c)'
  <2>1. Conversation(c)
    BY DEF SystemInv
  <2>2. ClientAt(c)'
    BY <1>1, <2>1 DEF Conversation, ClientAt
  <2>3. Channel(c)'
    <3>1. Len(inbox'[c]) = 0 /\ Len(outbox'[c]) <= OutCapacity
      BY <1>4, <1>5, <1>6, <2>1, SystemAssumption DEF Conversation, Channel
    <3>2. messages[c] <= size[c] + 2
      <4>1. Len(inbox[c]) \in Nat /\ messages[c] \in 0..MaxMessages /\ size[c] \in Sizes
        BY LenProperties DEF SystemInv, SystemTypes, RegistryInv, HandlersOK
      <4>2. size[c] \in Nat /\ messages[c] \in Nat
        BY <4>1, SizesAreNat, ServerAssumption
      <4>3. QED
        BY <2>1, <4>1, <4>2 DEF Conversation, Channel
    <3>3. messages'[c] + Len(inbox'[c]) <= size'[c] + 2
      <4>1. messages[c] \in 0..MaxMessages
        BY DEF SystemInv, RegistryInv, HandlersOK
      <4>2. messages[c] + 0 = messages[c]
        BY <4>1, ServerAssumption
      <4>3. QED
        BY <1>1, <3>1, <3>2, <4>2
    <3>4. InCapacity \in Nat
      BY Zenon, SystemAssumption
    <3>5. QED
      BY <1>1, <1>4, <3>1, <3>3, <3>4 DEF Channel
  <2>4. Unconnected(c)' /\ Buffered(c)'
    BY <1>1, <2>1 DEF Conversation, Unconnected, Buffered
  <2>5. FirstReply(c)'
    <3> SUFFICES ASSUME client[c] # "returned", outbox'[c] # <<>> PROVE Fits(c, outbox[c][1])'
      BY <1>1, <1>4 DEF FirstReply
    <3>1. k # 0
      BY <1>4, <1>6, EmptySeq
    <3>2. outbox'[c][1] = outbox[c][1] /\ outbox[c] # <<>>
      BY <1>4, <1>5, <1>6, <3>1
    <3>3. PICK first : first = outbox[c][1] /\ first = outbox'[c][1]
      BY <3>2
    <3>4. Fits(c, first)
      BY <2>1, <3>2, <3>3 DEF Conversation, FirstReply
    <3>5. Fits(c, first)'
      BY <1>1, <3>4, FitsStays
    <3>6. QED
      BY <3>3, <3>5
  <2>6. EndsAnswered(c)'
    BY <1>1, <2>1 DEF Conversation, EndsAnswered
  <2>7. Outcome(c)'
    BY <1>1, <2>1, FitsStays DEF Conversation, Outcome
  <2>8. QED
    BY <2>2, <2>3, <2>4, <2>5, <2>6, <2>7 DEF Conversation
<1>10. QED
  BY <1>3, <1>7, <1>8, <1>9 DEF Advances

LEMMA TranscriptReadyAdvances == ASSUME SystemInv, NEW c \in Connections, TranscriptReady(c)
                                 PROVE  Advances(c)
<1> DEFINE k == buffer[c].total
           transcript == Reply("transcript", Reconstructed(buffer[c]))
<1>1. /\ handler[c] = "transcribe" /\ handler' = [handler EXCEPT ![c] = "sendReply"]
      /\ UNCHANGED <<then, link, session, buffer, sessions, used, messages, abandoned,
                     client, size, attempts, sequence, outcome, inbox, outbox, timedOut>>
  BY DEF TranscriptReady, TranscribeReturns, At, Trouble, clientVars
<1>2. [Next]_vars
  BY DEF TranscriptReady, Next, HandlerStep
<1>3. PICK reply \in Replies \ {Nothing} :
          /\ due' = [due EXCEPT ![c] = reply]
          /\ \/ reply = transcript /\ troubled' = troubled
             \/ reply = Error /\ troubled' = troubled \cup {c}
  <2>1. transcript \in Replies \ {Nothing} /\ Error \in Replies \ {Nothing}
    BY AudioOfSession, ReplyType
  <2>2. QED
    BY <2>1 DEF TranscriptReady, Owes, Trouble
<1>4. handler'[c] = "sendReply" /\ due'[c] = reply
  BY <1>1, <1>3 DEF SystemInv, SystemTypes, RegistryInv, HandlersOK
<1>5. SystemTypes'
  BY <1>1, <1>3 DEF SystemInv, SystemTypes
<1>6. \A d \in Connections \ {c} : Same(d)
  BY <1>1, <1>3 DEF SystemInv, SystemTypes, RegistryInv, HandlersOK, Same
<1>7. Conversation(c)'
  <2>1. Conversation(c)
    BY DEF SystemInv
  <2>2. ClientAt(c)'
    BY <1>1, <1>4, <2>1 DEF Conversation, ClientAt
  <2>3. Channel(c)'
    BY <1>1, <1>4, <2>1 DEF Conversation, Channel, Stream, Sent
  <2>4. Unconnected(c)' /\ Buffered(c)'
    BY <1>1, <1>4, <2>1 DEF Conversation, Unconnected, Buffered
  <2>5. ASSUME k = size[c] \/ c \in timedOut PROVE Fits(c, reply)'
    <3>1. CASE reply = transcript
      <4>1. /\ k \in Nat /\ k <= MaxBytes /\ k <= size[c]
            /\ Reconstructed(buffer[c]) = Beginning(c, k)
        BY AudioOfSession
      <4>2. size[c] \in Nat
        BY SizesAreNat DEF SystemInv, SystemTypes
      <4>3. reply.audio = Beginning(c, k) /\ k \in 0..size[c]
        BY <3>1, <4>1, <4>2, ReplyType
      <4>4. Good(c, reply)
        BY <2>5, <4>3 DEF Good
      <4>5. k = size[c] => reply = Due(c)
        BY <3>1, <4>1 DEF Due, Utterance, Beginning
      <4>6. Fits(c, reply)
        BY <2>5, <4>4, <4>5 DEF Fits, SystemInv, SystemTypes
      <4>7. QED
        BY <1>1, <1>3, <4>6, FitsStays
    <3>2. CASE reply = Error /\ c \in troubled'
      BY <3>2, ReplyType DEF Fits, Good, Error
    <3>3. QED
      BY <1>3, <3>1, <3>2
  <2>6. FirstReply(c)'
    BY <1>1, <1>3, <1>4, <2>1, <2>5, FitsStays DEF Conversation, FirstReply
  <2>7. EndsAnswered(c)' /\ Outcome(c)'
    BY <1>1, <1>3, <2>1, FitsStays DEF Conversation, EndsAnswered, Outcome
  <2>8. QED
    BY <2>2, <2>3, <2>4, <2>6, <2>7 DEF Conversation
<1>8. QED
  BY <1>2, <1>5, <1>6, <1>7 DEF Advances

\* A finalization begins; a WAV that could not be written ends the connection.
LEMMA BeginFinalizeEffect ==
    ASSUME SystemInv, NEW c \in Connections, NEW next \in {"loop", "break"},
           BeginFinalize(c, next)
    PROVE  /\ UNCHANGED sessionVars
           /\ \A d \in Connections \ {c} :
                  handler'[d] = handler[d] /\ then'[d] = then[d] /\ link'[d] = link[d]
           /\ \/ handler'[c] = "transcribe" /\ link'[c] = link[c]
              \/ handler'[c] = "exited" /\ ~link'[c]
  BY DEF BeginFinalize, WriteFails, At, SystemInv, RegistryInv, HandlersOK

LEMMA SendReturnsAdvances == ASSUME SystemInv, NEW c \in Connections, SendReturns(c)
                             PROVE  Advances(c)
<1>1. /\ due[c] = Nothing
      /\ ErrorSent(c) \/ ReplySent(c)
      /\ troubled' = IF /\ handler'[c] = "exited"
                        /\ handler[c] = "sendError" \/ client[c] \in Sending
                     THEN troubled \cup {c} ELSE troubled
      /\ UNCHANGED <<messages, client, size, attempts, sequence, outcome, inbox, outbox, due,
                     timedOut>>
  BY DEF SendReturns, ErrorSent, ReplySent, Trouble, clientVars, channelVars
<1>2. [Next]_vars
  BY <1>1 DEF Next, HandlerStep
<1>8. link[c] /\ handler[c] \in {"sendError", "sendReply"} /\ due[c] = Nothing
  <2>1. link[c] /\ handler[c] \in {"sendError", "sendReply"}
    BY <1>1 DEF ErrorSent, ReplySent
  <2>2. QED
    BY <1>1, <2>1
<1>3. /\ UNCHANGED <<buffer, used>>
      /\ \A d \in Connections \ {c} :
             /\ handler'[d] = handler[d] /\ then'[d] = then[d] /\ link'[d] = link[d]
             /\ session'[d] = session[d]
      /\ handler'[c] \in {"transcribe", "recv"} => link'[c]
      /\ handler'[c] = "transcribe" => session'[c] = session[c]
      /\ handler'[c] = "recv" => session'[c] = NoSession
      /\ handler'[c] \in {"transcribe", "recv", "exited"}
      /\ session'[c] \in {session[c], NoSession}
  <2>1. Conversation(c)
    BY DEF SystemInv
  <2>2. CASE ErrorSent(c) /\ then[c] = "finalize"
    BY <2>2, BeginFinalizeEffect DEF ErrorSent, sessionVars
  <2>3. CASE ErrorSent(c) /\ then[c] # "finalize"
    BY <2>1, <2>3 DEF ErrorSent, sessionVars, At, Conversation, Buffered,
                      SystemInv, RegistryInv, HandlersOK
  <2>4. CASE ReplySent(c)
    <3>1. PICK goesOn \in BOOLEAN :
              /\ handler' = [handler EXCEPT ![c] = IF goesOn THEN "recv" ELSE "exited"]
              /\ link' = [link EXCEPT ![c] = goesOn]
      BY <2>4 DEF ReplySent, At
    <3>2. /\ session' = [session EXCEPT ![c] = NoSession] /\ link[c] /\ handler[c] = "sendReply"
          /\ UNCHANGED <<buffer, used, then>>
      BY <2>4 DEF ReplySent
    <3>3. /\ handler \in [Connections -> Awaits] /\ link \in [Connections -> BOOLEAN]
          /\ session \in [Connections -> Ids \cup {NoSession}]
      BY DEF SystemInv, RegistryInv, HandlersOK, SessionsOK
    <3>4. QED
      BY <3>1, <3>2, <3>3
  <2>5. QED
    BY <1>1, <2>2, <2>3, <2>4
<1>4. SystemTypes'
  BY <1>1 DEF SystemInv, SystemTypes
<1>5. \A d \in Connections \ {c} : Same(d)
  BY <1>1, <1>3 DEF Same
<1>6. Conversation(c)'
  <2>1. Conversation(c)
    BY DEF SystemInv
  <2>2. ClientAt(c)'
    BY <1>1, <1>8, <2>1 DEF Conversation, ClientAt
  <2>3. Channel(c)'
    BY <1>1, <1>3, <1>8, <2>1 DEF Conversation, Channel, Stream, Sent
  <2>4. Unconnected(c)'
    BY <1>3 DEF Unconnected
  <2>5. Buffered(c)'
    <3>1. NoSession # c
      BY NotNoSession
    <3>2. UNCHANGED <<messages, size, due, buffer, used>>
      BY <1>1, <1>3
    <3>3. /\ handler'[c] \in {"transcribe", "recv", "exited"}
          /\ session'[c] \in {session[c], NoSession}
          /\ handler'[c] = "recv" => session'[c] = NoSession
      BY <1>3
    <3>4. messages[c] # 0
      BY <1>8, <2>1 DEF Conversation, Buffered
    <3>5. QED
      BY <1>8, <2>1, <3>1, <3>2, <3>3, <3>4 DEF Conversation, Buffered
  <2>6. client[c] # "returned" => outbox[c] # <<>>
    BY <1>8, <2>1 DEF Conversation, FirstReply
  <2>7. FirstReply(c)'
    BY <1>1, <2>1, <2>6, FitsStays DEF Conversation, FirstReply
  <2>8. EndsAnswered(c)'
    <3>1. client[c] \in Sending \cup {"recv", "returned"}
      <4>1. client[c] \in Places /\ client[c] # "connecting"
        BY <1>8, <2>1 DEF SystemInv, SystemTypes, Conversation, ClientAt
      <4>2. QED
        BY <4>1 DEF Places
    <3>2. ~link'[c] => handler'[c] = "exited"
      BY <1>3
    <3>3. ASSUME ~link'[c], c \notin troubled', client[c] # "returned"
          PROVE  client[c] = "recv" /\ outbox[c] # <<>>
      BY <1>1, <2>6, <3>1, <3>2, <3>3
    <3>4. QED
      BY <1>1, <3>3 DEF EndsAnswered
  <2>9. Outcome(c)'
    BY <1>1, <2>1, FitsStays DEF Conversation, Outcome
  <2>10. QED
    BY <2>2, <2>3, <2>4, <2>5, <2>7, <2>8, <2>9 DEF Conversation
<1>7. QED
  BY <1>2, <1>4, <1>5, <1>6 DEF Advances

LEMMA ServerTimesOutAdvances == ASSUME SystemInv, NEW c \in Connections, ServerTimesOut(c)
                                PROVE  Advances(c)
<1>1. /\ TimeOut(c) /\ troubled' = troubled \cup {c} /\ timedOut' = timedOut \cup {c}
      /\ UNCHANGED <<messages, client, size, attempts, sequence, outcome, inbox, outbox, due>>
  BY DEF ServerTimesOut, TimeOut, clientVars, channelVars
<1>2. [Next]_vars
  BY <1>1 DEF Next, HandlerStep
<1>3. /\ link[c] /\ handler[c] = "recv" /\ UNCHANGED <<session, buffer, used>>
      /\ \A d \in Connections \ {c} :
             handler'[d] = handler[d] /\ then'[d] = then[d] /\ link'[d] = link[d]
      /\ handler'[c] \in {"transcribe", "exited"}
      /\ session[c] = NoSession => handler'[c] = "exited"
  BY <1>1, BeginFinalizeEffect
     DEF TimeOut, sessionVars, At, SystemInv, RegistryInv, HandlersOK
<1>4. SystemTypes'
  BY <1>1 DEF SystemInv, SystemTypes
<1>5. \A d \in Connections \ {c} : Same(d)
  BY <1>1, <1>3 DEF Same
<1>6. Conversation(c)'
  <2>1. Conversation(c)
    BY DEF SystemInv
  <2>2. ClientAt(c)'
    BY <1>1, <1>3, <2>1 DEF Conversation, ClientAt
  <2>3. Channel(c)'
    BY <1>1, <1>3, <2>1 DEF Conversation, Channel, Stream, Sent
  <2>4. Unconnected(c)'
    BY <1>3 DEF Unconnected
  <2>5. due[c] = Nothing
    BY <1>3, <2>1 DEF Conversation, Buffered
  <2>6. Buffered(c)'
    BY <1>1, <1>3, <2>1, <2>5 DEF Conversation, Buffered
  <2>7. FirstReply(c)'
    BY <1>1, <1>3, <2>1, <2>5, FitsStays DEF Conversation, FirstReply
  <2>8. EndsAnswered(c)'
    BY <1>1 DEF EndsAnswered
  <2>9. Outcome(c)'
    BY <1>1, <2>1, FitsStays DEF Conversation, Outcome
  <2>10. QED
    BY <2>2, <2>3, <2>4, <2>6, <2>7, <2>8, <2>9 DEF Conversation
<1>7. QED
  BY <1>2, <1>4, <1>5, <1>6 DEF Advances

\* A message is taken from the head of the inbox: it is the next of the stream.
LEMMA TakeMessageTakes ==
    ASSUME SystemInv, NEW c \in Connections, TakeMessage(c)
    PROVE  /\ handler[c] = "recv" /\ link[c] /\ due[c] = Nothing
           /\ messages' = [messages EXCEPT ![c] = @ + 1]
           /\ messages[c] \in Nat /\ size[c] \in Nat /\ messages[c] + 1 <= size[c] + 2
           /\ Head(inbox[c]) = Stream(c, messages[c] + 1)
           /\ inbox' \in [Connections -> Seq(Messages)]
           /\ \A d \in Connections \ {c} : inbox'[d] = inbox[d]
           /\ UNCHANGED <<client, size, attempts, sequence, outcome, outbox, timedOut>>
           /\ troubled' = IF handler'[c] = "exited" THEN troubled \cup {c} ELSE troubled
           /\ link'[c] \in {link[c], FALSE} => Channel(c)'
<1>1. /\ inbox[c] # <<>> /\ inbox' = [inbox EXCEPT ![c] = Tail(inbox[c])]
      /\ UNCHANGED <<client, size, attempts, sequence, outcome, outbox, timedOut>>
      /\ troubled' = IF handler'[c] = "exited" THEN troubled \cup {c} ELSE troubled
  BY DEF TakeMessage, Trouble, clientVars
<1>2. Receive(c)
  BY DEF TakeMessage, StartSession, BufferChunk, FailChunk, EndSession, RejectMessage
<1>3. handler[c] = "recv" /\ link[c] /\ messages' = [messages EXCEPT ![c] = @ + 1]
  BY <1>2 DEF Receive
<1>4. Conversation(c)
  BY DEF SystemInv
<1>5. due[c] = Nothing
  BY <1>3, <1>4 DEF Conversation, Buffered
<1>6. inbox \in [Connections -> Seq(Messages)] /\ inbox[c] \in Seq(Messages)
  BY DEF SystemInv, SystemTypes
<1>7. /\ Tail(inbox[c]) \in Seq(Messages) /\ Head(inbox[c]) = inbox[c][1]
      /\ Len(Tail(inbox[c])) = Len(inbox[c]) - 1
      /\ \A i \in 1..Len(Tail(inbox[c])) : Tail(inbox[c])[i] = inbox[c][i + 1]
  BY <1>1, <1>6, HeadTailProperties
<1>8. Len(inbox[c]) \in Nat \ {0}
  BY <1>1, <1>6, EmptySeq
<1>9. messages[c] \in Nat /\ size[c] \in Nat
  <2>1. messages[c] \in 0..MaxMessages /\ size[c] \in Sizes
    BY DEF SystemInv, SystemTypes, RegistryInv, HandlersOK
  <2>2. size[c] \in Nat
    BY <2>1, SizesAreNat
  <2>3. messages[c] \in Nat
    BY <2>1, ServerAssumption
  <2>4. QED
    BY <2>2, <2>3
<1>10. /\ inbox'[c] = Tail(inbox[c])
       /\ inbox' \in [Connections -> Seq(Messages)]
       /\ \A d \in Connections \ {c} : inbox'[d] = inbox[d]
  BY <1>1, <1>6, <1>7
<1>11. messages'[c] = messages[c] + 1
  BY <1>3 DEF SystemInv, RegistryInv, HandlersOK
<1>12. /\ messages[c] + Len(inbox[c]) <= size[c] + 2
       /\ \A i \in 1..Len(inbox[c]) : inbox[c][i] = Stream(c, messages[c] + i)
       /\ Len(inbox[c]) <= InCapacity /\ Len(outbox[c]) <= OutCapacity
       /\ client[c] \in Sending \cup {"recv"} => messages[c] + Len(inbox[c]) = Sent(c)
  BY <1>3, <1>4 DEF Conversation, Channel
<1>13. messages[c] + 1 <= size[c] + 2 /\ Head(inbox[c]) = Stream(c, messages[c] + 1)
  <2>1. 1 \in 1..Len(inbox[c])
    BY <1>8
  <2>2. Head(inbox[c]) = Stream(c, messages[c] + 1)
    BY <1>7, <1>12, <2>1
  <2>3. messages[c] + 1 <= size[c] + 2
    BY <1>8, <1>9, <1>12
  <2>4. QED
    BY <2>2, <2>3
<1>14. Channel(c)'
  <2>1. Len(inbox'[c]) = Len(inbox[c]) - 1
    BY <1>7, <1>10
  <2>2. Len(inbox'[c]) <= InCapacity
    <3>1. InCapacity \in Nat
      BY Zenon, SystemAssumption
    <3>2. QED
      BY <1>8, <1>12, <2>1, <3>1
  <2>3. messages'[c] + Len(inbox'[c]) = messages[c] + Len(inbox[c])
    BY <1>8, <1>9, <1>11, <2>1
  <2>4. ASSUME NEW i \in 1..Len(inbox'[c]) PROVE inbox'[c][i] = Stream(c, messages'[c] + i)
    <3>1. inbox'[c][i] = inbox[c][i + 1]
      BY <1>7, <1>10
    <3>2. i + 1 \in 1..Len(inbox[c])
      BY <1>8, <2>1
    <3>3. inbox[c][i + 1] = Stream(c, messages[c] + (i + 1))
      BY <1>12, <3>2
    <3>4. messages[c] + (i + 1) = messages'[c] + i
      BY <1>9, <1>11
    <3>5. QED
      BY <3>1, <3>3, <3>4
  <2>5. \A i : Stream(c, i)' = Stream(c, i)
    BY <1>1 DEF Stream
  <2>6. Sent(c)' = Sent(c)
    BY <1>1 DEF Sent
  <2>7. \A i \in 1..Len(inbox'[c]) : inbox'[c][i] = (Stream(c, messages[c] + i))'
    BY <1>1, <2>4 DEF Stream
  <2>8. QED
    BY <1>1, <1>12, <2>2, <2>3, <2>6, <2>7 DEF Channel
<1>15. QED
  BY <1>1, <1>3, <1>5, <1>9, <1>10, <1>13, <1>14

\* What the branches of the receive loop have in common.
LEMMA TakenAdvances ==
    ASSUME SystemInv, NEW c \in Connections, TakeMessage(c),
           [Next]_vars,
           \A d \in Connections \ {c} :
               /\ handler'[d] = handler[d] /\ then'[d] = then[d] /\ link'[d] = link[d]
               /\ session'[d] = session[d] /\ buffer'[d] = buffer[d] /\ due'[d] = due[d]
               /\ d \in used' <=> d \in used,
           due' \in [Connections -> Replies],
           handler'[c] # "unconnected",
           handler'[c] # "exited" => link'[c],
           Buffered(c)',
           client[c] # "returned" /\ outbox[c] = <<>> /\ link'[c] =>
               /\ due'[c] # Nothing => Fits(c, due'[c])
               /\ due'[c] = Nothing => handler'[c] \notin {"sendError", "sendReply"}
               /\ handler'[c] = "transcribe" => buffer'[c].total = size[c]
               /\ handler'[c] = "recv" => session'[c] = c
    PROVE  Advances(c)
<1>1. /\ handler[c] = "recv" /\ link[c]
      /\ messages' = [messages EXCEPT ![c] = @ + 1]
      /\ inbox' \in [Connections -> Seq(Messages)]
      /\ \A d \in Connections \ {c} : inbox'[d] = inbox[d]
      /\ UNCHANGED <<client, size, attempts, sequence, outcome, outbox, timedOut>>
      /\ troubled' = IF handler'[c] = "exited" THEN troubled \cup {c} ELSE troubled
      /\ link'[c] \in {link[c], FALSE} => Channel(c)'
  BY TakeMessageTakes
<1>2. SystemTypes'
  BY <1>1 DEF SystemInv, SystemTypes
<1>3. \A d \in Connections \ {c} : Same(d)
  BY <1>1 DEF Same, SystemInv, RegistryInv, HandlersOK
<1>4. Conversation(c)'
  <2>1. Conversation(c)
    BY DEF SystemInv
  <2>2. ClientAt(c)'
    BY <1>1, <2>1 DEF Conversation, ClientAt
  <2>3. Channel(c)'
    <3>1. RegistryInv'
      BY RegistryStep DEF SystemInv
    <3>2. link'[c] \in BOOLEAN /\ link[c] = TRUE
      BY <1>1, <3>1 DEF SystemInv, RegistryInv, HandlersOK
    <3>3. QED
      BY <1>1, <3>2
  <2>4. Unconnected(c)'
    BY DEF Unconnected
  <2>5. PICK reply : reply = due'[c]
    OBVIOUS
  <2>6. FirstReply(c)'
    BY <1>1, <2>1, <2>5, FitsStays DEF Conversation, FirstReply
  <2>7. EndsAnswered(c)'
    BY <1>1 DEF EndsAnswered
  <2>8. Outcome(c)'
    BY <1>1, <2>1, FitsStays DEF Conversation, Outcome
  <2>9. QED
    BY <2>2, <2>3, <2>4, <2>6, <2>7, <2>8 DEF Conversation
<1>5. QED
  BY <1>2, <1>3, <1>4 DEF Advances

\* START_SESSION: the first message, for which there is no session yet.
LEMMA StartTaken ==
    ASSUME SystemInv, NEW c \in Connections, TakeMessage(c),
           Head(inbox[c]).type = "START", StartSession(c, c), UNCHANGED due
    PROVE  Advances(c)
<1>1. /\ handler[c] = "recv" /\ link[c] /\ due[c] = Nothing
      /\ messages' = [messages EXCEPT ![c] = @ + 1]
      /\ messages[c] \in Nat /\ size[c] \in Nat
      /\ Head(inbox[c]) = Stream(c, messages[c] + 1)
      /\ UNCHANGED size
  BY TakeMessageTakes
<1>2. messages[c] = 0 /\ messages'[c] = 1
  <2>1. messages'[c] = messages[c] + 1
    BY <1>1 DEF SystemInv, RegistryInv, HandlersOK
  <2>2. messages[c] + 1 = 1
    BY <1>1 DEF Stream
  <2>3. QED
    BY <1>1, <2>1, <2>2
<1>3. /\ UNCHANGED <<handler, then, link>>
      /\ used' = used \cup {c}
      /\ session' = [session EXCEPT ![c] = c]
      /\ buffer' = [buffer EXCEPT ![c] = NewBuffer]
  BY DEF StartSession
<1>4. session'[c] = c /\ buffer'[c] = NewBuffer /\ handler'[c] = "recv" /\ due'[c] = Nothing
  BY <1>1, <1>3 DEF SystemInv, RegistryInv, SessionsOK, BuffersOK
<1>5. [Next]_vars
  BY SystemAssumption DEF Next, ClientStep
<1>6. \A d \in Connections \ {c} : session'[d] = session[d] /\ buffer'[d] = buffer[d]
                                   /\ (d \in used' <=> d \in used)
  BY <1>3 DEF SystemInv, RegistryInv, SessionsOK, BuffersOK
<1>7. Buffered(c)'
  <2>1. NewBuffer.total = 0 /\ DOMAIN NewBuffer.chunks = {}
    BY DEF NewBuffer
  <2>2. 0..(0 - 1) = {}
    OBVIOUS
  <2>3. /\ 0 <= size'[c] /\ messages'[c] # 0 /\ messages'[c] > 0 /\ c \in used'
        /\ NewBuffer.total + 1 = messages'[c]
    BY <1>1, <1>2, <1>3, <2>1
  <2>4. QED
    BY <1>4, <2>1, <2>2, <2>3 DEF Buffered
<1>8. due' \in [Connections -> Replies]
  BY DEF SystemInv, SystemTypes
<1>9. QED
  BY <1>1, <1>3, <1>4, <1>5, <1>6, <1>7, <1>8, TakenAdvances

\* A chunk is the one the buffer lacks.
LEMMA ChunkIsNext ==
    ASSUME SystemInv, NEW c \in Connections, TakeMessage(c),
           Head(inbox[c]).type = "CHUNK", session[c] # NoSession
    PROVE  /\ session[c] = c
           /\ buffer[c].total + 1 = messages[c] /\ messages[c] \in 1..size[c]
           /\ Head(inbox[c]).seq = buffer[c].total
           /\ Head(inbox[c]).payload = Part(c, messages[c])
           /\ ~IsDuplicate(buffer[c], buffer[c].total)
           /\ buffer[c].total \in Nat
<1>1. /\ handler[c] = "recv" /\ messages[c] \in Nat /\ size[c] \in Nat
      /\ messages[c] + 1 <= size[c] + 2
      /\ Head(inbox[c]) = Stream(c, messages[c] + 1)
  BY TakeMessageTakes
<1>2. /\ session[c] = c /\ buffer[c].total + 1 = messages[c]
      /\ DOMAIN buffer[c].chunks = 0..(buffer[c].total - 1)
  BY <1>1 DEF SystemInv, Conversation, Buffered
<1>3. buffer[c].total \in Nat
  BY AudioOfSession
<1>4. messages[c] + 1 # 1 /\ messages[c] + 1 # size[c] + 2
  BY <1>1 DEF Stream
<1>5. Head(inbox[c]) = [type |-> "CHUNK", seq |-> (messages[c] + 1) - 2,
                        payload |-> Part(c, (messages[c] + 1) - 1)]
  BY <1>1, <1>4 DEF Stream
<1>6. (messages[c] + 1) - 2 = buffer[c].total /\ (messages[c] + 1) - 1 = messages[c]
  BY <1>1, <1>2, <1>3
<1>7. Head(inbox[c]).seq = buffer[c].total /\ Head(inbox[c]).payload = Part(c, messages[c])
  BY <1>5, <1>6
<1>8. messages[c] \in 1..size[c]
  BY <1>1, <1>4
<1>9. ~IsDuplicate(buffer[c], buffer[c].total)
  BY <1>2, <1>3 DEF IsDuplicate
<1>10. QED
  BY <1>2, <1>3, <1>7, <1>8, <1>9

\* AUDIO_CHUNK within the budget.
LEMMA ChunkTaken ==
    ASSUME SystemInv, NEW c \in Connections, TakeMessage(c),
           Head(inbox[c]).type = "CHUNK",
           BufferChunk(c, Head(inbox[c]).seq, Head(inbox[c]).payload), UNCHANGED due
    PROVE  Advances(c)
<1> DEFINE k == buffer[c].total
           p == Part(c, messages[c])
<1>1. /\ handler[c] = "recv" /\ link[c] /\ due[c] = Nothing
      /\ messages' = [messages EXCEPT ![c] = @ + 1]
      /\ messages[c] \in Nat /\ size[c] \in Nat
      /\ UNCHANGED size
  BY TakeMessageTakes
<1>2. /\ session[c] = c /\ k + 1 = messages[c] /\ messages[c] \in 1..size[c] /\ k \in Nat
      /\ Head(inbox[c]).seq = k /\ Head(inbox[c]).payload = p
      /\ ~IsDuplicate(buffer[c], k)
  <2>1. session[c] # NoSession
    BY DEF BufferChunk
  <2>2. QED
    BY <2>1, ChunkIsNext
<1>3. BufferChunk(c, k, p)
  BY <1>2
<1>4. /\ UNCHANGED <<handler, then, link, session, used>>
      /\ buffer' = [buffer EXCEPT ![c] = AppendChunk(@, k, p)]
      /\ ~Overflows(buffer[c], k, p)
  BY <1>3 DEF BufferChunk
<1>5. [Next]_vars
  <2>1. size[c] \in Sizes
    BY DEF SystemInv, SystemTypes
  <2>2. k \in 0..(size[c] - 1)
    BY <1>1, <1>2
  <2>3. 0..(size[c] - 1) \subseteq Numbers /\ \A i \in 1..size[c] : Part(c, i) \in Payloads
    BY Zenon, <2>1, SystemAssumption
  <2>4. k \in Numbers
    BY <2>2, <2>3
  <2>5. p \in Payloads
    BY <1>2, <2>3
  <2> HIDE DEF k, p
  <2>6. QED
    BY <1>3, <2>4, <2>5 DEF Next, ClientStep
<1>6. AppendChunk(buffer[c], k, p) = Stored(buffer[c], k, p)
  BY <1>2, <1>4 DEF AppendChunk
<1>7. buffer'[c] = Stored(buffer[c], k, p) /\ messages'[c] = messages[c] + 1
  BY <1>1, <1>4, <1>6 DEF SystemInv, RegistryInv, HandlersOK, BuffersOK
<1>8. /\ buffer'[c].total = k + 1
      /\ DOMAIN buffer'[c].chunks = 0..k
      /\ \A s \in 0..k : buffer'[c].chunks[s] = Part(c, s + 1)
  <2>1. /\ DOMAIN buffer[c].chunks = 0..(k - 1)
        /\ \A s \in 0..(k - 1) : buffer[c].chunks[s] = Part(c, s + 1)
    BY DEF SystemInv, Conversation, Buffered
  <2>2. /\ buffer'[c].total = buffer[c].total + p.size
        /\ buffer'[c].chunks = [s \in DOMAIN buffer[c].chunks \cup {k} |->
                                   IF s = k THEN p ELSE buffer[c].chunks[s]]
    BY <1>7 DEF Stored, SystemInv, BuffersOK, Buffers
  <2>3. p.size = 1
    BY DEF Part
  <2>4. 0..(k - 1) \cup {k} = 0..k
    BY <1>2
  <2>5. ASSUME NEW s \in 0..k PROVE buffer'[c].chunks[s] = Part(c, s + 1)
    <3>1. CASE s = k
      <4>1. buffer'[c].chunks[s] = p
        BY <2>1, <2>2, <2>4, <3>1
      <4>2. s + 1 = messages[c]
        BY <1>2, <3>1
      <4>3. QED
        BY <4>1, <4>2
    <3>2. CASE s # k
      <4>1. s \in 0..(k - 1)
        BY <1>2, <3>2
      <4>2. buffer'[c].chunks[s] = buffer[c].chunks[s]
        BY <2>1, <2>2, <2>4, <3>2
      <4>3. QED
        BY <2>1, <4>1, <4>2
    <3>3. QED
      BY <3>1, <3>2
  <2>6. QED
    BY <2>1, <2>2, <2>3, <2>4, <2>5
<1>9. Buffered(c)'
  <2>1. Conversation(c)
    BY DEF SystemInv
  <2>2. k + 1 <= size[c] /\ (k + 1) - 1 = k /\ messages'[c] > 0 /\ k + 1 + 1 = messages'[c]
    BY <1>1, <1>2, <1>7
  <2>3. messages[c] > 0 /\ c \in used
    BY <1>2, <2>1 DEF Conversation, Buffered
  <2>4. UNCHANGED <<due, handler, then, session, used, size>>
    BY <1>1, <1>4
  <2>5. /\ buffer'[c].total <= size'[c]
        /\ DOMAIN buffer'[c].chunks = 0..(buffer'[c].total - 1)
        /\ \A s \in DOMAIN buffer'[c].chunks : buffer'[c].chunks[s] = Part(c, s + 1)
        /\ buffer'[c].total + 1 = messages'[c]
        /\ messages'[c] # 0
    BY <1>8, <2>2, <2>4
  <2>6. QED
    BY <1>1, <1>2, <2>2, <2>3, <2>4, <2>5 DEF Buffered
<1>10. due' \in [Connections -> Replies]
  BY DEF SystemInv, SystemTypes
<1>11. \A d \in Connections \ {c} : buffer'[d] = buffer[d]
  BY <1>4 DEF SystemInv, BuffersOK
<1>12. QED
  BY <1>1, <1>2, <1>4, <1>5, <1>9, <1>10, <1>11, TakenAdvances

\* AUDIO_CHUNK beyond the budget: the error is the reply that is due.
LEMMA OverflowTaken ==
    ASSUME SystemInv, NEW c \in Connections, TakeMessage(c),
           Head(inbox[c]).type = "CHUNK", FailChunk(c),
           Overflows(buffer[c], Head(inbox[c]).seq, Head(inbox[c]).payload),
           Owes(c, Error)
    PROVE  Advances(c)
<1> DEFINE k == buffer[c].total
           p == Part(c, messages[c])
<1>1. /\ handler[c] = "recv" /\ link[c]
      /\ messages' = [messages EXCEPT ![c] = @ + 1]
      /\ messages[c] \in Nat /\ size[c] \in Nat
      /\ UNCHANGED size
  BY TakeMessageTakes
<1>2. /\ session[c] = c /\ k + 1 = messages[c] /\ messages[c] \in 1..size[c] /\ k \in Nat
      /\ Head(inbox[c]).seq = k /\ Head(inbox[c]).payload = p
  <2>1. session[c] # NoSession
    BY DEF FailChunk
  <2>2. QED
    BY <2>1, ChunkIsNext
<1>3. /\ handler' = [handler EXCEPT ![c] = "sendError"]
      /\ then' = [then EXCEPT ![c] = "finalize"]
      /\ due' = [due EXCEPT ![c] = Error]
      /\ UNCHANGED <<link, session, buffer, used>>
  BY DEF FailChunk, At, Owes, sessionVars
<1>4. /\ handler'[c] = "sendError" /\ then'[c] = "finalize" /\ due'[c] = Error
      /\ messages'[c] = messages[c] + 1
      /\ due' \in [Connections -> Replies]
      /\ \A d \in Connections \ {c} :
             handler'[d] = handler[d] /\ then'[d] = then[d] /\ due'[d] = due[d]
  BY <1>1, <1>3, ReplyType DEF SystemInv, SystemTypes, RegistryInv, HandlersOK
<1>5. size[c] > MaxBytes
  <2>1. p.size = 1
    BY DEF Part
  <2>2. k + 1 > MaxBytes
    BY <1>2, <2>1 DEF Overflows
  <2>3. QED
    BY <1>1, <1>2, <2>2, BufferAssumption
<1>6. Fits(c, Error)
  <2>1. Due(c) = Error
    <3>1. ~(size[c] <= MaxBytes)
      BY <1>1, <1>5, BufferAssumption
    <3>2. QED
      BY <3>1 DEF Due
  <2>2. Good(c, Error)
    BY ReplyType DEF Good, Error
  <2>3. QED
    BY <2>1, <2>2 DEF Fits
<1>7. [Next]_vars
  BY DEF Next, ClientStep
<1>8. Buffered(c)'
  <2>1. Conversation(c)
    BY DEF SystemInv
  <2>2. messages'[c] # 0 /\ messages'[c] > 0 /\ messages[c] > 0
    BY <1>1, <1>2, <1>4
  <2>3. QED
    BY <1>1, <1>2, <1>3, <1>4, <2>1, <2>2 DEF Conversation, Buffered
<1>9. QED
  BY <1>1, <1>3, <1>4, <1>6, <1>7, <1>8, TakenAdvances, ReplyType

\* END_SESSION: the last message, after all the chunks.
LEMMA EndTaken ==
    ASSUME SystemInv, NEW c \in Connections, TakeMessage(c),
           Head(inbox[c]).type = "END", EndSession(c), UNCHANGED due
    PROVE  Advances(c)
<1>1. /\ handler[c] = "recv" /\ link[c] /\ due[c] = Nothing
      /\ messages' = [messages EXCEPT ![c] = @ + 1]
      /\ messages[c] \in Nat /\ size[c] \in Nat /\ messages[c] + 1 <= size[c] + 2
      /\ Head(inbox[c]) = Stream(c, messages[c] + 1)
      /\ UNCHANGED size
  BY TakeMessageTakes
<1>2. Conversation(c)
  BY DEF SystemInv
<1>3. session[c] = c
  BY <1>2 DEF EndSession, Conversation, Buffered
<1>4. messages[c] + 1 = size[c] + 2
  BY <1>1 DEF Stream
<1>5. buffer[c].total = size[c] /\ messages[c] > 0
  <2>1. buffer[c].total + 1 = messages[c]
    BY <1>1, <1>2, <1>3 DEF Conversation, Buffered
  <2>2. buffer[c].total \in Nat
    BY AudioOfSession
  <2>3. QED
    BY <1>1, <1>4, <2>1, <2>2
<1>6. /\ UNCHANGED <<session, buffer, used>>
      /\ \A d \in Connections \ {c} :
             handler'[d] = handler[d] /\ then'[d] = then[d] /\ link'[d] = link[d]
      /\ \/ handler'[c] = "transcribe" /\ link'[c] = link[c]
         \/ handler'[c] = "exited" /\ ~link'[c]
  BY BeginFinalizeEffect DEF EndSession, sessionVars
<1>7. messages'[c] = messages[c] + 1 /\ due' \in [Connections -> Replies]
  BY <1>1 DEF SystemInv, SystemTypes, RegistryInv, HandlersOK
<1>8. Buffered(c)'
  <2>1. messages'[c] # 0 /\ messages'[c] > 0
    BY <1>1, <1>7
  <2>2. QED
    BY <1>1, <1>2, <1>3, <1>5, <1>6, <2>1 DEF Conversation, Buffered
<1>9. [Next]_vars
  BY DEF Next, ClientStep
<1>10. QED
  BY <1>1, <1>5, <1>6, <1>7, <1>8, <1>9, TakenAdvances

\* A message for which there is no session: one was finalized early, and the
\* client has been sent an error or the transcript.
LEMMA RejectedTaken ==
    ASSUME SystemInv, NEW c \in Connections, TakeMessage(c),
           Head(inbox[c]).type # "START", session[c] = NoSession, RejectMessage(c),
           Owes(c, Error)
    PROVE  Advances(c)
<1>1. /\ handler[c] = "recv" /\ link[c] /\ due[c] = Nothing
      /\ messages' = [messages EXCEPT ![c] = @ + 1]
      /\ messages[c] \in Nat /\ size[c] \in Nat
      /\ Head(inbox[c]) = Stream(c, messages[c] + 1)
      /\ UNCHANGED size
  BY TakeMessageTakes
<1>2. Conversation(c)
  BY DEF SystemInv
<1>3. messages[c] # 0
  BY <1>1 DEF Stream
<1>4. /\ handler' = [handler EXCEPT ![c] = "sendError"]
      /\ then' = [then EXCEPT ![c] = "loop"]
      /\ due' = [due EXCEPT ![c] = Error]
      /\ UNCHANGED <<link, session, buffer, used>>
  BY DEF RejectMessage, At, Owes, sessionVars
<1>5. /\ handler'[c] = "sendError" /\ then'[c] = "loop" /\ due'[c] = Error
      /\ messages'[c] = messages[c] + 1
      /\ due' \in [Connections -> Replies]
      /\ \A d \in Connections \ {c} :
             handler'[d] = handler[d] /\ then'[d] = then[d] /\ due'[d] = due[d]
  BY <1>1, <1>4, ReplyType DEF SystemInv, SystemTypes, RegistryInv, HandlersOK
<1>6. client[c] # "returned" => outbox[c] # <<>>
  BY <1>1, <1>2, <1>3, NotNoSession DEF Conversation, FirstReply
<1>7. [Next]_vars
  BY DEF Next, ClientStep
<1>8. Buffered(c)'
  <2>1. messages'[c] # 0 /\ messages'[c] > 0 /\ messages[c] > 0
    BY <1>1, <1>3, <1>5
  <2>2. QED
    BY <1>1, <1>2, <1>4, <1>5, <2>1 DEF Conversation, Buffered
<1>9. QED
  BY <1>1, <1>4, <1>5, <1>6, <1>7, <1>8, TakenAdvances

LEMMA TakeMessageAdvances == ASSUME SystemInv, NEW c \in Connections, TakeMessage(c)
                             PROVE  Advances(c)
<1>1. \/ /\ Head(inbox[c]).type = "START" /\ StartSession(c, c) /\ UNCHANGED due
      \/ /\ Head(inbox[c]).type = "CHUNK"
         /\ BufferChunk(c, Head(inbox[c]).seq, Head(inbox[c]).payload)
         /\ UNCHANGED due
      \/ /\ Head(inbox[c]).type = "CHUNK" /\ FailChunk(c)
         /\ Overflows(buffer[c], Head(inbox[c]).seq, Head(inbox[c]).payload)
         /\ Owes(c, Error)
      \/ /\ Head(inbox[c]).type = "END" /\ EndSession(c) /\ UNCHANGED due
      \/ /\ Head(inbox[c]).type # "START" /\ session[c] = NoSession /\ RejectMessage(c)
         /\ Owes(c, Error)
  BY DEF TakeMessage
<1>2. QED
  BY <1>1, StartTaken, ChunkTaken, OverflowTaken, EndTaken, RejectedTaken
-----------------------------------------------------------------------------
(* The theorems *)

LEMMA SystemStep == SystemInv /\ [SystemNext]_systemVars => SystemInv' /\ [Next]_vars
<1> SUFFICES ASSUME SystemInv, [SystemNext]_systemVars PROVE SystemInv' /\ [Next]_vars
  OBVIOUS
<1>1. ASSUME NEW c \in Connections, ClientMoves(c) PROVE Advances(c)
  BY <1>1, AttemptFailsAdvances, AttemptSucceedsAdvances, SendStartAdvances, SendChunkAdvances,
     SendEndAdvances, ReceiveAnswerAdvances, GiveUpAdvances, SeeLostAdvances DEF ClientMoves
<1>2. ASSUME NEW c \in Connections, ServerMoves(c) PROVE Advances(c)
  BY <1>2, TakeMessageAdvances, ServerTimesOutAdvances, TranscriptReadyAdvances,
     WriteReplyAdvances, SendReturnsAdvances, ServerSeesClosedAdvances DEF ServerMoves
<1>3. ASSUME NEW c \in Connections, ConnectionLost(c) PROVE Advances(c)
  BY <1>3, ConnectionLostAdvances
<1>4. CASE SystemNext
  <2>1. PICK c \in Connections : Advances(c)
    BY <1>1, <1>2, <1>3, <1>4 DEF SystemNext
  <2>2. QED
    BY <2>1, AdvancesKeeps DEF Advances
<1>5. CASE UNCHANGED systemVars
  <2>1. UNCHANGED vars
    BY <1>5 DEF systemVars
  <2>2. RegistryInv' /\ BuffersOK'
    BY <2>1, RegistryStep, BuffersStep DEF SystemInv
  <2>3. SystemTypes'
    BY <1>5 DEF SystemInv, SystemTypes, systemVars, clientVars, channelVars, troubleVars
  <2>4. \A c \in Connections : Same(c)
    BY <1>5 DEF Same, systemVars, vars, sessionVars, clientVars, channelVars, troubleVars
  <2>5. QED
    BY <2>1, <2>2, <2>3, <2>4, SameConversation DEF SystemInv
<1>6. QED
  BY <1>4, <1>5

\* Initially no client is connected.
LEMMA SystemStart == SystemInit => SystemInv
<1> SUFFICES ASSUME SystemInit PROVE SystemInv
  OBVIOUS
<1>1. RegistryInv /\ BuffersOK
  BY RegistryInit DEF SystemInit
<1>2. SystemTypes
  <2>1. <<>> \in Seq(Messages) /\ <<>> \in Seq(Replies \ {Nothing})
    OBVIOUS
  <2>2. 0 \in 0..Attempts
    BY SystemAssumption
  <2>3. QED
    BY <2>1, <2>2, ReplyType DEF SystemInit, SystemTypes, Places
<1>3. ASSUME NEW c \in Connections PROVE Conversation(c)
  <2>1. /\ client[c] = "connecting" /\ attempts[c] = 0 /\ sequence[c] = 0
        /\ inbox[c] = <<>> /\ outbox[c] = <<>> /\ due[c] = Nothing /\ outcome[c] = Nothing
        /\ handler[c] = "unconnected" /\ ~link[c] /\ session[c] = NoSession
        /\ buffer[c] = NewBuffer /\ messages[c] = 0 /\ c \notin used
    BY DEF SystemInit, Init
  <2>2. size[c] \in Nat
    BY SizesAreNat DEF SystemInit
  <2>3. 0 < Attempts /\ 0 <= InCapacity /\ 0 <= OutCapacity
    BY SystemAssumption
  <2>4. ClientAt(c)
    BY <2>1, <2>2, <2>3 DEF ClientAt
  <2>5. Channel(c)
    BY <2>1, <2>2, <2>3 DEF Channel, Sending
  <2>6. Unconnected(c)
    BY <2>1 DEF Unconnected
  <2>7. Buffered(c)
    <3>1. NewBuffer.total = 0 /\ DOMAIN NewBuffer.chunks = {}
      BY DEF NewBuffer
    <3>2. 0..(0 - 1) = {}
      OBVIOUS
    <3>3. QED
      BY <2>1, <2>2, <3>1, <3>2, NotNoSession DEF Buffered
  <2>8. FirstReply(c) /\ EndsAnswered(c) /\ Outcome(c)
    BY <2>1 DEF FirstReply, EndsAnswered, Outcome
  <2>9. QED
    BY <2>4, <2>5, <2>6, <2>7, <2>8 DEF Conversation
<1>4. QED
  BY <1>1, <1>2, <1>3 DEF SystemInv

LEMMA SystemInvariant == SystemSpec => []SystemInv
<1>1. QED
  BY SystemStart, SystemStep, PTL DEF SystemSpec

\* Every step of the system is a step of the server, or none: to the server, the
\* clients are among the peers of AudioStreamServer, so that what is proved of
\* the server in ServerProofs holds in the system.
THEOREM ServesTheClients == SystemSpec => Init /\ [][Next]_vars
<1>1. SystemInit => Init
  BY DEF SystemInit
<1>2. QED
  BY <1>1, SystemInvariant, SystemStep, PTL DEF SystemSpec

\* The types, the capacities of the channels, and how the variables of client
\* and handler go together.
THEOREM SystemTypeCorrect == SystemSpec => []SystemTypeOK
<1>1. SystemInv => SystemTypeOK
  <2> SUFFICES ASSUME SystemInv PROVE SystemTypeOK
    OBVIOUS
  <2>1. TypeOK
    BY DEF SystemInv, RegistryInv, HandlersOK, SessionsOK, BuffersOK, Buffers, TypeOK
  <2>2. client \in [Connections -> Places] /\ timedOut \subseteq troubled
    BY DEF SystemInv, SystemTypes
  <2>3. ASSUME NEW c \in Connections
        PROVE  /\ size[c] \in Sizes /\ attempts[c] \in 0..Attempts /\ sequence[c] \in 0..size[c]
               /\ Len(inbox[c]) <= InCapacity /\ Len(outbox[c]) <= OutCapacity
               /\ \A r \in {due[c], outcome[c]} : r.type \in Answers
               /\ due[c] # Nothing => handler[c] \in {"sendError", "sendReply"}
               /\ outcome[c] # Nothing <=> client[c] = "returned"
    <3>1. size[c] \in Sizes /\ attempts[c] \in 0..Attempts /\ sequence[c] \in Nat
      BY DEF SystemInv, SystemTypes
    <3>2. sequence[c] \in 0..size[c]
      BY <3>1, SizesAreNat DEF SystemInv, Conversation, ClientAt
    <3>3. Len(inbox[c]) <= InCapacity /\ Len(outbox[c]) <= OutCapacity
      BY DEF SystemInv, Conversation, Channel
    <3>4. due[c] \in Replies /\ outcome[c] \in Replies
      BY DEF SystemInv, SystemTypes
    <3>5. \A r \in {due[c], outcome[c]} : r.type \in Answers
      BY <3>4 DEF Replies
    <3>6. due[c] # Nothing => handler[c] \in {"sendError", "sendReply"}
      BY DEF SystemInv, Conversation, Buffered
    <3>7. outcome[c] # Nothing <=> client[c] = "returned"
      BY DEF SystemInv, Conversation, ClientAt
    <3>8. QED
      BY <3>1, <3>2, <3>3, <3>5, <3>6, <3>7
  <2>4. QED
    BY <2>1, <2>2, <2>3 DEF SystemTypeOK
<1>2. QED
  BY <1>1, SystemInvariant, PTL

\* The transcript a client returns is of its own chunks, from the first on, and
\* of all of them unless the server timed out: whatever the other connections do,
\* and whatever the channels still hold.
THEOREM OwnTranscript == SystemSpec => []TranscriptIsOwn
<1>1. SystemInv => TranscriptIsOwn
  <2> SUFFICES ASSUME SystemInv, NEW c \in Connections, outcome[c].type = "transcript"
               PROVE  /\ IsPrefix(outcome[c].audio, Utterance(c))
                      /\ outcome[c].audio = Utterance(c) \/ c \in timedOut
    BY DEF TranscriptIsOwn
  <2>1. client[c] = "returned"
    BY ReplyType DEF SystemInv, Conversation, ClientAt, Nothing
  <2>2. PICK k \in 0..size[c] : /\ outcome[c].audio = Beginning(c, k)
                                /\ k = size[c] \/ c \in timedOut
    BY <2>1 DEF SystemInv, Conversation, Outcome, Fits, Good
  <2>3. size[c] \in Nat /\ k \in Nat /\ k <= size[c]
    BY SizesAreNat DEF SystemInv, SystemTypes
  <2>4. Utterance(c) = Beginning(c, size[c])
    BY DEF Utterance, Beginning
  <2>5. IsPrefix(Beginning(c, k), Beginning(c, size[c]))
    <3>1. /\ Beginning(c, k) \in Seq(Parts) /\ Beginning(c, size[c]) \in Seq(Parts)
          /\ Len(Beginning(c, k)) = k /\ Len(Beginning(c, size[c])) = size[c]
      BY <2>3, BeginningType DEF Beginning
    <3>2. SubSeq(Beginning(c, k), 1, k) = SubSeq(Beginning(c, size[c]), 1, k)
      <4>1. /\ Len(SubSeq(Beginning(c, k), 1, k)) = k
            /\ Len(SubSeq(Beginning(c, size[c]), 1, k)) = k
        BY <2>3, <3>1, SubSeqProperties
      <4>2. \A i \in 1..k : SubSeq(Beginning(c, k), 1, k)[i]
                              = SubSeq(Beginning(c, size[c]), 1, k)[i]
        BY <2>3, <3>1 DEF Beginning
      <4>3. QED
        BY <2>3, <3>1, <4>1, <4>2
    <3>3. QED
      BY <2>3, <3>1, <3>2 DEF IsPrefix
  <2>6. QED
    BY <2>2, <2>4, <2>5
<1>2. QED
  BY <1>1, SystemInvariant, PTL

\* Without trouble a client is given what its utterance is due: the transcript of
\* all of it, or the error of a budget exceeded, which comes first.
THEOREM AnsweredDuly == SystemSpec => []AnsweredAsDue
<1>1. SystemInv => AnsweredAsDue
  BY DEF SystemInv, Conversation, Outcome, Fits, Due, AnsweredAsDue
<1>2. QED
  BY <1>1, SystemInvariant, PTL
=============================================================================
