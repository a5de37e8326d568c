CONSTANTS
    c1 = c1
    c2 = c2
    NoConn = NoConn
    Conns <- MCConns
    MaxTokens = 3
SPECIFICATION Spec
PROPERTY FallbackUsesFreshToken
