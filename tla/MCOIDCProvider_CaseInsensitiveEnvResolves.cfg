CONSTANTS
    EnvValues <- MCEnvValues
    Lower <- MCLower
    Resource <- MCResource
    HexOf <- MCHexOf
    MaxCalls = 2
SPECIFICATION Spec
INVARIANT CaseInsensitiveEnvResolves
CHECK_DEADLOCK FALSE
