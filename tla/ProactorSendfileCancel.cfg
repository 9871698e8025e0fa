\* A cancelled sendfile, under the fairness of ProactorLive.
CONSTANTS
    Entries = 2
    Files = {f1}
    f1 = f1
    Kinds = {"sendfile"}
    MaxOps = 1
    MaxUserData = 3
    MaxFaults = 0
    PrepErrors = FALSE
SPECIFICATION FairSpec
PROPERTY
    CancelReleases
