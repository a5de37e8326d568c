CONSTANTS
    EnvValues <- MCEnvValues
    Lower <- MCLower
    Resource <- MCResource
    HexOf <- MCHexOf
    MaxCalls = 2
SPECIFICATION Spec
INVARIANT ProviderIsUsed
CHECK_DEADLOCK FALSE
