SPECIFICATION FuseSpec
CONSTANTS
    Name = {"a", "b"}
    MaxDepth = 1
    Routed <- MCFlat
    Dirs = {}
    Size = {0}
    NoSize = NoSize
    NoPath = NoPath
    Unlinked = Unlinked
    Renames = TRUE
    MaxIno = 4
INVARIANT RenameFollowed
