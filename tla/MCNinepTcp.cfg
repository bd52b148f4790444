SPECIFICATION TcpFairSpec
CONSTANTS
    c1 = c1
    c2 = c2
    Client <- MCClient
    Stream = {1, 2}
    Listener = {"tcp", "tls"}
    MaxConns = 1
    Pieces <- MCPieces
    TooLarge <- MCTooLarge
    MaxFrame = 3
INVARIANTS
    TcpTypeOK
    StreamsFaithful
PROPERTIES
    ConnectionTornDown
    QueuedIsServed
    MessageAnswered
CHECK_DEADLOCK FALSE
