CONSTANTS
    Usernames <- MCUsernames
    Passwords <- MCPasswords
    AccessTokens <- MCAccessTokens
SPECIFICATION Spec
INVARIANT PlainPayloadIdentifiesClient
CHECK_DEADLOCK FALSE
