SPECIFICATION Spec
CONSTANTS
    a = a
    b = b
    c = c
    NoRequest = NoRequest
    Request <- MCRequest
    Verdict <- MCVerdict
    Parent <- MCParent
    Timed = {a}
    Inline = {c}
    MinWorkers = 1
    MaxWorkers = 2
    InflateDepth = 0
    HandlerCap = 2
    RequestCap = 2
PROPERTY PoolInflates
CHECK_DEADLOCK FALSE
