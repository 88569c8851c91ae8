\* Budget for four of the five numbers at best; retransmissions included. A
\* run ends when MaxDeliveries chunks were delivered, so it may stop.
SPECIFICATION Spec
CONSTANTS
    MaxBytes = 5
    Payloads <- MCPayloads
    Numbers = {0, 1, 2, 3, 4}
    MaxDeliveries = 6
INVARIANTS TypeOK BytesBounded MissingExact OutOfOrderExact
PROPERTIES StoredForever
CHECK_DEADLOCK FALSE
