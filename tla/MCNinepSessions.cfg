SPECIFICATION NinepSpec
CONSTANTS
    c1 = c1
    c2 = c2
    Conn = {c1, c2}
    Fid = {1, 2}
    FidsOf <- OwnFids
    Name = {"."}
    DotName = {"."}
    NewName = {"b"}
    MSize = {100}
    MaxDepth = 1
    WalkLen = {0, 1}
    MaxQid = 3
    SendCap = 1
INVARIANTS
    NinepTypeOK
    SessionView
    QidsAllocated
