SPECIFICATION Spec
CONSTANTS
    BufferSize = 10
    Sizes <- MCHostileSizes
    Mimics <- MCPlain
    Segment = 4
    Faults = {FALSE}
    MaxRounds = 1
    MaxMarks = 7
    MaxSessions = 1
INVARIANT CompletionIsSafe
CHECK_DEADLOCK FALSE
