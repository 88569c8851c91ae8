\* Utterances that fit the budget of the server, exceed it with the last chunk
\* and exceed it with chunks to follow. It ends when the handlers have exited.
SPECIFICATION SystemSpec
CONSTANTS
    MaxBytes = 1
    Payloads <- MCPayloads
    Connections = {c1, c2}
    Ids = {c1, c2}
    NoSession = NoSession
    Numbers = {0, 1, 2, 3}
    MaxMessages = 6
    Sizes = {1, 4}
    Attempts = 2
    InCapacity = 1
    OutCapacity = 2
INVARIANTS SystemTypeOK TranscriptIsOwn AnsweredAsDue
 
CHECK_DEADLOCK FALSE
