SPECIFICATION StoreSpec
CONSTANTS
    m1 = m1
    m2 = m2
    VM <- MCVM
    Db = {"f"}
    Key = {"k"}
    Val = {"x", "y"}
    NoVal = NoVal
    OpenApi = {"doc"}
    TxSql = {"BEGIN", "COMMIT", "ROLLBACK"}
    MaxHandle <- MCOneHandle
INVARIANT EverySetStored
CHECK_DEADLOCK FALSE
