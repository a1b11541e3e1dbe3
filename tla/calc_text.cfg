SPECIFICATION Spec
CONSTANTS
    Evaluate <- Calculate
    Exception <- Raised
    Text <- Stringify
    Leaves <- MCTextLeaves
    Operators <- MCTextOperators
    Names <- MCNames
    MaxDepth = 3
    Policies <- MCPolicies
    Limits = {0}
    Now = 16909060
    PickleLen = 300
INVARIANT TextsMeanTheirSteps
