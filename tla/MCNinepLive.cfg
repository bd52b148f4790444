SPECIFICATION NinepFairSpec
CONSTANTS
    c1 = c1
    c2 = c2
    Conn = {c1, c2}
    Fid = {1, 2}
    FidsOf <- OwnFids
    Name = {"a"}
    DotName = {}
    NewName = {}
    MSize = {}
    MaxDepth = 2
    WalkLen = {0, 2}
    MaxQid = 3
    SendCap = 1
INVARIANTS
    PathHasOneQid
    FidNamesItsQid
PROPERTY EveryMessageAnswered
