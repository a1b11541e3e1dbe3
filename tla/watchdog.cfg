SPECIFICATION Spec
CONSTANTS
    MaxProcesses = 4
    MaxWire = 5
INVARIANTS TypeOK TimerSeesOnlyAnswers
PROPERTIES DeadHostIsNoticed LeftoversOnlyWait AbandonedPingIsNoticed
CHECK_DEADLOCK FALSE
