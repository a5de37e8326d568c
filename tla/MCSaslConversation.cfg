CONSTANTS
    Usernames <- MCUsernames
    Passwords <- MCPasswords
    AccessTokens <- MCAccessTokens
SPECIFICATION Spec
INVARIANT ConvInv OneStepExchange PlainCredentialRecoverable
PROPERTY SaslRoundTripRefined
CHECK_DEADLOCK FALSE
