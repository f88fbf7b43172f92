SPECIFICATION RollbackSpec
CONSTANTS
    m1 = m1
    router = router
    p1 = p1
    p2 = p2
    Mac <- MCMac
    Self = router
    Host <- MCHost
    Name <- MCName
    Portal <- MCPortals
    Runtime = {}
    Default <- MCDefault
    MaxStop = 0
    Broken = Broken
    None = None
    Blank = Blank
    Torn = Torn
INVARIANT RestoreSucceeds
