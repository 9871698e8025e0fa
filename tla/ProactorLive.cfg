\* Cancellation and close() with operations of one CQE each.
CONSTANTS
    Entries = 2
    Files = {f1}
    f1 = f1
    Kinds = {"io"}
    MaxOps = 2
    MaxUserData = 4
    MaxFaults = 0
    PrepErrors = FALSE
SPECIFICATION FairSpec
PROPERTIES
    CancelReleases
    CloseEnds
