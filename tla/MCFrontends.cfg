SPECIFICATION MCSpec
CONSTANTS
    a = a
    b = b
    c = c
    NoRequest = NoRequest
    Request <- MCRequest
    Verdict <- MCVerdict
    Parent <- MCParent
    Timed = {a}
    Inline = {c}
    MinWorkers = 1
    MaxWorkers = 2
    InflateDepth = 0
    HandlerCap = 2
    RequestCap = 2
    Name = {"a", "b"}
    MaxDepth = 2
    Routed <- MCRouted
    Dirs <- MCDirs
    Size = {0}
    NoSize = NoSize
    NoPath = NoPath
    Unlinked = Unlinked
    Renames = TRUE
    MaxIno = 4
    c1 = c1
    c2 = c2
    Conn <- MCConn
    MaxConns = 1
    File = {"a", "b"}
    RootPath = "/"
    LineCap = 2
    MaxPacket <- MCMaxPacket
    MaxHandle = 2
INVARIANTS
    SingleInFlight
    NoLostReply
    HeldInodeHasPath
    PathIsPlace
    HandleMeansPath
    AckedIsSettled
PROPERTIES
    ServesSerially
    EveryRequestAnswered
    PoolRecovers
    PacketAnswered
CHECK_DEADLOCK FALSE
