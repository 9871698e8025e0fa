\* Every kind of request, with all addresses over bytes of two values and paths of up to two
\* bytes: as soon as a flowinfo is not 0, its bytes come back swapped.
CONSTANTS
    Base = 2
    SunPath = 2
    Flows = {0, 1}
SPECIFICATION Spec
INVARIANT FlowinfoIsHostOrder
CHECK_DEADLOCK FALSE
