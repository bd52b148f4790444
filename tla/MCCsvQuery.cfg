SPECIFICATION MCSpec
CONSTANTS
    Parts = {"values"}
    Pattern <- MCPattern
    ParamSeg = {"{x}", "{y}"}
    CatchAllSeg = {"{*path}"}
    BundleName = {"read", "unlink", "all"}
    Path <- MCPath
    Op = {"lookup", "read", "unlink"}
    MaxCalls = 3
    SockPath = {s}
    Port = {h}
    Mount = {m}
    MaxConfigCalls = 3
    MaxProcesses = 2
    m1 = m1
    m2 = m2
    VM <- MCVM
    Db = {"f", "g"}
    Key = {"k"}
    Val = {"x"}
    NoVal = NoVal
    OpenApi = {"doc", "sql"}
    TxSql = {"BEGIN", "COMMIT", "ROLLBACK"}
    MaxHandle <- MCMaxHandle
    File <- MCFile
    RootPath = "/"
    Parent <- MCParent
    Text <- MCText
    Lead = {2}
    Cont = {3}
    Replacement = 9
    Payload = 2
    MaxClientCalls = 2
    EntryName <- MCEntryName
    Now <- MCNow
    MaxEntries = 3
    Numeral <- MCNumeral
    KeyOrder <- MCKeyOrder
    FieldKey <- MCFieldKey
    Element <- MCElement
INVARIANT CsvQueryIsArray
CHECK_DEADLOCK FALSE
