SPECIFICATION FairSpec
CONSTANTS
    Mac = {m1, m2}
    Role = {"guest", "staff"}
    SessionTTL <- MCSessionTTL
    Sighting <- MCSighting
    Cap <- MCCap
    MissThreshold = 2
    MaxRun = 1
    IpsetFails = TRUE
    None = None
INVARIANTS TypeOK EntryBounded RunApplied
PROPERTIES NeverDropped RevokedLeaves
