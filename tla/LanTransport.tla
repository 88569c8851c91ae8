---------------------------- MODULE LanTransport -----------------------------
(***************************************************************************)
(* components/lan_transport down to its socket calls, driven by            *)
(* StreamingTask: a message is one send for the header and one for the     *)
(* payload, an answer one recv for each.  A call on the socket may fail,   *)
(* move everything, or move less than asked and report that many bytes:    *)
(* the sockets have a timeout, and lwIP does not wait for all of a recv.   *)
(* Headers are the bytes the codecs make of them; payloads are counted.    *)
(***************************************************************************)
EXTENDS ProtocolCodec

CONSTANTS ChunkSizes,    \* payload sizes of the chunks StreamingTask sends
          MaxFrame,      \* kMaxFrameBytes
          TextCapacity,  \* out_text_capacity
          AnswerSizes,   \* payload sizes of the answers of the server
          MaxChunks,     \* bound on the chunks of a session
          ShortSends     \* whether a send may move less than asked

ASSUME TransportAssumption ==
    /\ MaxFrame \in 0..65536   \* no more than protocol.py takes
    /\ ChunkSizes \subseteq Nat \ {0}
    /\ AnswerSizes \subseteq 0..MaxPayloadBytes   \* encode_message
    /\ TextCapacity \in Nat \ {0}
    /\ MaxChunks \in Nat /\ ShortSends \in BOOLEAN
    /\ MaxChunks + 1 < Byte * (Byte * (Byte * Byte))   \* numbers do not wrap

VARIABLES
    place,      \* the call StreamingTask is about to make or is in
    socket,     \* socket_fd_ >= 0
    connected,  \* connected_
    message,    \* the message being sent: the header's fields
    reply,      \* history: the header the server answered with
    answer,     \* the header received, as decoded
    status,     \* status of the last call
    text,       \* transcript: bytes written, and where it is terminated
    parts,      \* history: the sends on this connection: what, asked, moved
    chunks      \* chunks begun on this connection, an omitted pre-roll counted

socketVars == <<socket, connected>>
answerVars == <<reply, answer>>
vars == <<place, socketVars, message, answerVars, status, text, parts, chunks>>

Types == {"START", "CHUNK", "END"}
Places == {"idle", "connect", "start", "preroll", "live", "end", "header",
           "payload", "result", "text", "hangup"}
Statuses == {"Ok", "ConnectFailed", "SendFailed", "Timeout", "ProtocolError"}

\* A session's identifier: sixteen random bytes.
SessionId == [i \in 1..16 |-> 80 - i]

\* The header SendMessage builds: the timestamp is always 0.
MessageHeader(type, seq, size) == Header(type, SessionId, seq, 0, size, 16000, 1)
NoMessage == MessageHeader("START", 0, 0)

\* The header of an answer of the server (_send_error, _finalize_session).
AnswerHeader(type, size) == Header(type, SessionId, 0, 300000000, size, 16000, 1)
NoAnswer == AnswerHeader("RESULT", 0)
NoText == [written |-> 0, end |-> 0]

Fewer(a, b) == IF a <= b THEN a ELSE b

Init == /\ place = "idle"
        /\ socket = FALSE /\ connected = FALSE
        /\ message = NoMessage
        /\ reply = Rejected /\ answer = NoAnswer
        /\ status = "Ok" /\ text = NoText
        /\ parts = <<>> /\ chunks = 0
-----------------------------------------------------------------------------
(* Connect *)

TakeRequest == /\ place = "idle"
               /\ place' = "connect"
               /\ parts' = <<>> /\ chunks' = 0
               /\ text' = NoText /\ reply' = Rejected
               /\ UNCHANGED <<socketVars, message, answer, status>>

\* One attempt: a bad address, no socket, or connect() fails and the socket is
\* closed again; the caller goes back to its queue.
Connect == /\ place = "connect"
           /\ \/ /\ socket' = TRUE /\ connected' = TRUE
                 /\ status' = "Ok" /\ place' = "start"
              \/ /\ status' = "ConnectFailed" /\ place' = "idle"
                 /\ UNCHANGED socketVars
           /\ UNCHANGED <<message, answerVars, text, parts, chunks>>
-----------------------------------------------------------------------------
(* SendMessage *)

\* StreamingTask gives up a session whose START or pre-roll failed, stops
\* streaming when a live chunk failed, and ignores what became of END.
AfterSend(type, result) ==
    /\ status' = result
    /\ place' = CASE type = "END" -> "result"
                  [] type = "START" -> IF result = "Ok" THEN "preroll" ELSE "hangup"
                  [] OTHER -> IF result = "Ok" THEN "live"
                              ELSE IF chunks' = 1 THEN "hangup" ELSE "end"

Begin(type, seq, size) ==
    /\ message' = MessageHeader(type, seq, size)
    /\ IF connected /\ kHeaderSize + size <= MaxFrame
       THEN place' = "header" /\ UNCHANGED status
       ELSE AfterSend(type, IF connected THEN "ProtocolError" ELSE "SendFailed")
    /\ UNCHANGED <<socketVars, answerVars, text, parts>>

SendStart == /\ place = "start"
             /\ UNCHANGED chunks
             /\ Begin("START", 0, 0)

SendChunk == /\ place \in {"preroll", "live"} /\ chunks < MaxChunks
             /\ chunks' = chunks + 1
             /\ \E size \in ChunkSizes : Begin("CHUNK", chunks, size)

\* No pre-roll to send; the end of the streaming loop.
SkipPreRoll == /\ place = "preroll"
               /\ place' = "live"
               /\ chunks' = 1
               /\ UNCHANGED <<socketVars, message, answerVars, status, text, parts>>

StopStreaming == /\ place = "live"
                 /\ place' = "end"
                 /\ UNCHANGED <<socketVars, message, answerVars, status, text, parts, chunks>>

SendEnd == /\ place = "end"
           /\ UNCHANGED chunks
           /\ Begin("END", chunks, 0)

\* What a send of n units may move: all of it, and less, for which one byte
\* stands, if short sends happen.
Moved(n) == IF ShortSends THEN {1, n} ELSE {n}

\* A send that moved something; a header declares the payload that follows it.
Sent(type, declared, n) ==
    \E k \in Moved(n) :
        parts' = Append(parts, [type |-> type, declared |-> declared, asked |-> n, moved |-> k])

AfterHeader == IF message.length > 0 THEN place' = "payload" /\ UNCHANGED status
                                   ELSE AfterSend(message.type, "Ok")

\* Mutant: the payload is sent although its header was not.
SendHeaderRegardless ==
    /\ place = "header"
    /\ UNCHANGED <<socketVars, message, answerVars, text, chunks>>
    /\ Sent(message.type, message.length, kHeaderSize) \/ UNCHANGED parts
    /\ AfterHeader

SendHeader ==
    /\ place = "header"
    /\ UNCHANGED <<socketVars, message, answerVars, text, chunks>>
    /\ \/ Sent(message.type, message.length, kHeaderSize) /\ AfterHeader
       \/ UNCHANGED parts /\ AfterSend(message.type, "SendFailed")

SendPayload ==
    /\ place = "payload"
    /\ UNCHANGED <<socketVars, message, answerVars, text, chunks>>
    /\ \/ Sent("payload", 0, message.length) /\ AfterSend(message.type, "Ok")
       \/ UNCHANGED parts /\ AfterSend(message.type, "SendFailed")
-----------------------------------------------------------------------------
(* ReceiveResult *)

\* What may be in front of the payload: the server's header, or the bytes of
\* something else (an HTTP error of a server that expects a handshake) or of
\* another version.
Replies == [type : {"ERROR", "RESULT"}, length : AnswerSizes]
ForeignStarts == {[EncodeMessage(NoAnswer) EXCEPT ![1] = 72],
                  [EncodeMessage(NoAnswer) EXCEPT ![5] = kProtocolVersion + 1]}

Decoded(bytes) == IF DecodeHeader(bytes) = Rejected
                  THEN /\ status' = "ProtocolError" /\ place' = "hangup"
                       /\ UNCHANGED answer
                  ELSE /\ answer' = DecodeHeader(bytes) /\ place' = "text"
                       /\ UNCHANGED status

\* The header: not all of it in time, or 44 bytes that are decoded.
ReceiveHeader ==
    /\ place = "result"
    /\ \/ /\ status' = "Timeout" /\ place' = "hangup"
          /\ UNCHANGED answerVars
       \/ \E r \in Replies :
              /\ reply' = AnswerHeader(r.type, r.length)
              /\ Decoded(EncodeMessage(reply'))
       \/ \E bytes \in ForeignStarts : Decoded(bytes) /\ UNCHANGED reply
    /\ UNCHANGED <<socketVars, message, text, parts, chunks>>

\* Mutant: the whole buffer is asked for, with no room for the terminator.
AskedTooMuch == Fewer(answer.length, TextCapacity)

Asked == Fewer(answer.length, TextCapacity - 1)

\* The payload: recv fails, or gives what it has, down to nothing at the end
\* of the connection; then the text is terminated behind it.
ReceiveText ==
    /\ place = "text"
    /\ \/ /\ Asked > 0
          /\ status' = "Timeout"
          /\ UNCHANGED text
       \/ \E k \in 0..Asked :
              /\ text' = [written |-> k, end |-> k]
              /\ status' = IF answer.type = "ERROR" THEN "ProtocolError" ELSE "Ok"
    /\ place' = "hangup"
    /\ UNCHANGED <<socketVars, message, answerVars, parts, chunks>>

\* Mutant: the descriptor is forgotten without a close.
DisconnectFlagOnly == /\ place = "hangup"
                      /\ connected' = FALSE
                      /\ UNCHANGED socket
                      /\ place' = "idle"
                      /\ UNCHANGED <<message, answerVars, status, text, parts, chunks>>

Disconnect == /\ place = "hangup"
              /\ socket' = FALSE /\ connected' = FALSE
              /\ place' = "idle"
              /\ UNCHANGED <<message, answerVars, status, text, parts, chunks>>

Next == \/ TakeRequest \/ Connect \/ SendStart \/ SendChunk \/ SkipPreRoll
        \/ StopStreaming \/ SendEnd \/ SendHeader \/ SendPayload
        \/ ReceiveHeader \/ ReceiveText \/ Disconnect

Spec == Init /\ [][Next]_vars
-----------------------------------------------------------------------------
TypeOK == /\ place \in Places
          /\ socket \in BOOLEAN /\ connected \in BOOLEAN
          /\ message.type \in Types /\ message.length \in ChunkSizes \cup {0}
          /\ reply = Rejected \/ reply.type \in {"ERROR", "RESULT"}
          /\ answer.length \in AnswerSizes \cup {0}
          /\ status \in Statuses
          /\ text.written \in 0..TextCapacity /\ text.end \in 0..(TextCapacity - 1)
          /\ \A i \in 1..Len(parts) : parts[i].moved \in 1..parts[i].asked
          /\ chunks \in 0..(MaxChunks + 1)

\* The server, with its own implementation of the header, reads every header
\* the firmware sends as what was meant, and refuses none (protocol_codec.h:1-3,
\* "byte-for-byte identical to that file").
ServerReadsHeader ==
    place = "header" => PyDecodeHeader(EncodeHeader(message)) = message

\* A call that ends Ok read the header of a transcript, and one that reports a
\* protocol error was answered an error or by something else; the device takes
\* nothing else for an answer of the server.
AnswerUnderstood ==
    /\ place = "text" => answer = reply
    /\ place = "hangup" /\ status = "Ok" => reply.type = "RESULT"
    /\ place = "hangup" /\ status = "ProtocolError" /\ connected
         => reply = Rejected \/ reply.type = "ERROR"

\* The descriptor and the flag go together, and no request finds a socket of an
\* earlier one: Connect would lose its descriptor.
SocketPaired == socket = connected /\ (place \in {"idle", "connect"} => ~socket)

Whole(i) == parts[i].moved = parts[i].asked
\* Part i + 1 is of the kind that part i announces.
Expected(i) == (parts[i + 1].type = "payload") <=> (parts[i].declared > 0)

\* Once a send has failed in the middle of a message the session says nothing
\* more, but for its END: a START or pre-roll that failed, and a chunk that
\* failed, are not followed by chunks (app_main.cpp, the error paths of
\* StreamingTask).
TornOnlyBeforeEnd ==
    \A i \in 1..(Len(parts) - 1) :
        ~Expected(i) => i = Len(parts) - 1 /\ parts[i + 1].type = "END"

\* network_protocol.md:13, "Every message has a 44-byte big-endian header": a
\* reader that follows the headers finds the next one where it looks for it.
Framed == \A i \in 1..(Len(parts) - 1) : Whole(i) /\ Expected(i)
=============================================================================
