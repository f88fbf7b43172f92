SPECIFICATION RollbackSpec
CONSTANTS
    m1 = m1
    router = router
    p1 = p1
    p2 = p2
    Mac <- MCRouter
    Self = router
    Host <- MCHost
    Name <- MCName
    Portal <- MCPortals
    Runtime <- MCMoved
    Default <- MCDefault
    MaxStop = 1
    Broken = Broken
    None = None
    Blank = Blank
    Torn = Torn
INVARIANTS TablesRestored Reapplied FailsOpen
