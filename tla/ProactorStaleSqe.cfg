\* The slot of an SQE that could not be filled.
CONSTANTS
    Entries = 2
    Files = {f1}
    f1 = f1
    Kinds = {"io"}
    MaxOps = 2
    MaxUserData = 4
    MaxFaults = 0
    PrepErrors = TRUE
SPECIFICATION Spec
INVARIANT
    UniqueUserData
