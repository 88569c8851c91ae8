\* Is a message always followed by the next one?
SPECIFICATION Spec
CONSTANTS
    Byte = 128
    ChunkSizes = {960, 25600}
    MaxFrame = 65536
    TextCapacity = 3
    AnswerSizes = {0, 2, 3, 4}
    MaxChunks = 3
    ShortSends = FALSE
INVARIANT Framed
