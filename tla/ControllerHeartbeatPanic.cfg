SPECIFICATION Spec
CONSTANTS
    Mac = {m1}
    Request = {r1, r2, r3}
    Op = {"login", "heartbeat", "logout", "status"}
    guest = guest
    staff = staff
    unknown = unknown
    Role <- MCRoleTimed
    SessionTTL <- MCSessionTTLTimed
    Fault = {}
    MaxRetries = 0
    Leftover = {}
    Plain = Plain
    Fading = Fading
    None = None
INVARIANT HeartbeatAnswered
CHECK_DEADLOCK FALSE
