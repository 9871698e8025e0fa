\* A file larger than the pipe.
CONSTANTS
    MaxSize = 3
    PipeSize = 2
    ShortSplice = FALSE
SPECIFICATION Spec
INVARIANTS
    SendfileIsComplete
CHECK_DEADLOCK FALSE
