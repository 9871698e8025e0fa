\* Two operations, sendfile among them, on one file; one submission may fail
\* or take only a part.
CONSTANTS
    Entries = 2
    Files = {f1}
    f1 = f1
    Kinds = {"io", "sendfile"}
    MaxOps = 2
    MaxUserData = 4
    MaxFaults = 1
    PrepErrors = FALSE
SPECIFICATION Spec
INVARIANTS
    TypeOK
    UniqueUserData
    RequestsPinned
    PipesFollowSplices
    OnlyCancelledAreHit
    SleepsOnlyWhenFlushed
    LinkedTogether
    NothingForgotten
    ClosedIsQuiet
PROPERTIES
    ImplementsLife
