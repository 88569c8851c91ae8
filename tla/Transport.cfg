\* Sends and recvs that fail, move everything or move less than asked; answers
\* below, at and above the capacity.
SPECIFICATION Spec
CONSTANTS
    Byte = 128
    ChunkSizes = {960, 25600}
    MaxFrame = 65536
    TextCapacity = 3
    AnswerSizes = {0, 2, 3, 4}
    MaxChunks = 2
    ShortSends = TRUE
INVARIANTS TypeOK SocketPaired TornOnlyBeforeEnd ServerReadsHeader 
