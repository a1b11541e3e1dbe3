SPECIFICATION Spec
CONSTANTS
    BufferSize = 10
    Sizes <- MCSizes
    Mimics <- MCPlain
    Segment = 0
    Faults = {TRUE, FALSE}
    MaxRounds = 1
    MaxMarks = 7
    MaxSessions = 2
INVARIANTS TypeOK CompletionIsSafe NoMisread UsualTimingsSorted
PROPERTIES DeliversFile NobodyWaitsForTheDead EveryTransferCompletes EmptyFileStopsBoth
