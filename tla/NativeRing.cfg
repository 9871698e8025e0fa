\* Four requests, a queue of two slots, two calls interrupted at once, one reinitialisation.
CONSTANTS
    SqEntries = 2
    MaxRequests = 4
    MaxCompletions = 2
    MaxDepth = 2
    MaxGeneration = 3
SPECIFICATION Spec
INVARIANTS
    TypeOK
    OwnsWhatKernelHas
    ReferencesAddUp
    WalkMarksTheRightOnes
    NeverBroken
    ClosedLeavesAllDone
PROPERTIES
    TerminalIsFinal
    ImplementsLife
