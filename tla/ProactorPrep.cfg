\* Two operations, sendfile among them, on one file; filling an SQE may raise, and its slot
\* then keeps its old contents.
CONSTANTS
    Entries = 2
    Files = {f1}
    f1 = f1
    Kinds = {"io", "sendfile"}
    MaxOps = 2
    MaxUserData = 4
    MaxFaults = 0
    PrepErrors = TRUE
SPECIFICATION Spec
PROPERTY
    DoneIsFinal
