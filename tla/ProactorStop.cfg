\* Accepts and sendfiles on two sockets, which are stopped; one submission may fail or
\* take only a part, and filling an SQE may raise, and its slot then keeps its old contents.
CONSTANTS
    Entries = 2
    Files = {f1, f2}
    f1 = f1
    f2 = f2
    Kinds = {"accept", "sendfile"}
    MaxOps = 2
    MaxUserData = 3
    MaxFaults = 1
    PrepErrors = TRUE
SPECIFICATION Spec
SYMMETRY FileSymmetry
INVARIANTS
    PendingHasRequest
    ResultsAreTrue
PROPERTIES
    StoppedNeverDelivers
    StopServingIsExact
