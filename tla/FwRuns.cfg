SPECIFICATION Spec
CONSTANTS
    m1 = m1
    router = router
    p1 = p1
    p2 = p2
    h1 = h1
    Mac <- MCMac
    Self = router
    Host <- MCHost
    Name <- MCName
    Portal <- MCPortals
    Runtime <- MCRuntime
    Default <- MCDefault
    MaxStop = 1
    Broken = Broken
    None = None
INVARIANTS TypeOK AuthorizedPass GateIntact Reconciled DomainsReconciled LoginReachable
