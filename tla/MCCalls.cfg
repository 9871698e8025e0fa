\* Transfers of up to five bytes through a pipe of three; every kind of request, with all
\* addresses over bytes of three values; three calls of create_unix_server on one path, one
\* of them with any arguments; every combination of arguments of create_unix_connection; one
\* child.
CONSTANTS
    MaxSize = 5
    PipeSize = 3
    ShortSplice = TRUE
    Base = 3
    SunPath = 3
    Flows = {0, 1}
    Calls = {c1, c2, c3}
    c1 = c1
    c2 = c2
    c3 = c3
    Stale = Stale
    Absent = Absent
    File = File
    Idle = Idle
SPECIFICATION FairSpec
INVARIANTS
    SentInOrder
    MemoryFollowsRequest
    AddressesArrive
    SocketsFollowCalls
    PathIsServed
    WaitpidNeverBlocks
    PidfdFollowsPoll
PROPERTIES
    ExitIsReported
    FailedMakeEnds
CHECK_DEADLOCK FALSE
