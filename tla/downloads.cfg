SPECIFICATION Spec
CONSTANTS
    Clients = {1, 2}
    Sites <- MCSites
    Names <- MCNames
    Extensions = {".pdf"}
    Unwritable <- MCUnwritable
    Unstatable <- MCUnstatable
    Silent <- MCSilent
    Requests <- MCRequests
    MaxKills = 1
INVARIANTS TypeOK CompleteMeansWhole
PROPERTIES TcpKeepsItsFiles EveryClientEnds
