SPECIFICATION Spec
CONSTANTS
    Evaluate <- Calculate
    Exception <- Raised
    Text <- Stringify
    Leaves <- MCLeaves
    Operators <- MCOperators
    Names <- MCNames
    MaxDepth = 2
    Policies <- MCPolicies
    Limits = {0, 258, 65535}
    Now = 16909060
    PickleLen = 300
INVARIANTS TypeOK StepsKeepValue OneApplicationPerStep PacketsSurvive PrintsTheAnswer TextsWithOneDoubleAreRight
