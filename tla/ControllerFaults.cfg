SPECIFICATION FairSpec
CONSTANTS
    Mac = {m1}
    Request = {r1, r2}
    Op = {"login", "heartbeat", "logout", "status"}
    guest = guest
    staff = staff
    unknown = unknown
    Role <- MCRole
    SessionTTL <- MCSessionTTL
    Fault = {"unsent", "unacked"}
    MaxRetries = 1
    Leftover = {1, 2}
    Plain = Plain
    Fading = Fading
    None = None
INVARIANTS LogoutRevokes GrantWitnessed DenialWitnessed LeaseBounded ZeroTTLExplained
PROPERTY RequestsEnd
CHECK_DEADLOCK FALSE
