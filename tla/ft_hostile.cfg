SPECIFICATION Spec
CONSTANTS
    BufferSize = 10
    Sizes <- MCHostileSizes
    Mimics <- MCMimics
    Segment = 4
    Faults = {TRUE}
    MaxRounds = 1
    MaxMarks = 5
    MaxSessions = 1
INVARIANT OneRoundIsSafe
PROPERTY NobodyWaitsForTheDead
