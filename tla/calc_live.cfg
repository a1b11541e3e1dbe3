SPECIFICATION Spec
CONSTANTS
    sum = sum
    zeroDivision = zeroDivision
    long = long
    wide = wide
    c1 = c1
    c2 = c2
    c3 = c3
    Clients = {c1, c2}
    Exprs = {sum, zeroDivision, long, wide}
    Failing = {zeroDivision}
    Constants = {}
    ExprLen <- MCExprLen
    ResultLen <- MCResultLen
    ErrorLen = 90
    Requests <- MCLongRequests
    Policies <- MCDeployed
    CutSets <- MCCut
    MaxTime = 0
    MaxCrashes = 1
INVARIANTS TypeOK AnswersOwnQuestion
PROPERTIES EveryClientEnds GoodQuestionsAreAnswered
