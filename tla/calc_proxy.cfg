SPECIFICATION Spec
CONSTANTS
    sum = sum
    zeroDivision = zeroDivision
    long = long
    wide = wide
    c1 = c1
    c2 = c2
    c3 = c3
    Clients = {c1, c2, c3}
    Exprs = {sum, zeroDivision, long, wide}
    Failing = {zeroDivision}
    Constants = {}
    ExprLen <- MCExprLen
    ResultLen <- MCResultLen
    ErrorLen = 90
    Requests <- MCRequests
    Policies <- MCPolicies
    CutSets <- MCWhole
    MaxTime = 1
    MaxCrashes = 0
SYMMETRY Symmetric
INVARIANTS AnswersOwnQuestion AnswersAreRecent CacheServes
PROPERTY CacheAgesOnlyInRaces
