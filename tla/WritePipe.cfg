\* Four bytes in writes of every size, and sends that take a part or all of their bytes.
CONSTANTS
    MaxBytes = 4
    MaxReady = 3
SPECIFICATION FairSpec
INVARIANTS
    AssertionsHold
    LostIsTheEnd
PROPERTIES
    HangUpIsReported
CHECK_DEADLOCK FALSE
