\* Two connections and three sessions among them; the second chunk of a session
\* overflows its buffer. A run ends when the handlers have exited, so it may
\* stop. No symmetry: the run checks liveness.
SPECIFICATION Spec
CONSTANTS
    MaxBytes = 1
    Payloads <- MCPayloads
    Connections = {c1, c2}
    Ids = {i1, i2, i3}
    NoSession = NoSession
    Numbers = {0, 1}
    MaxMessages = 3
INVARIANTS TypeOK OpenIsRegistered NeverFinalizedTwice OrphansExplained
 
CHECK_DEADLOCK FALSE
