SPECIFICATION Spec
CONSTANTS
    User = {u1}
    Addr = {a1}
    Request = {r1}
    Op = {"login"}
    pap = pap
    sms = sms
    default = default
    vip = vip
    Query = {None, pap, sms}
    Strategy = {pap, sms}
    Installed = {pap}
    Radius = {pap}
    Policy = {default, vip}
    Default = default
    Allowed <- MCAllowed
    Preferred <- MCPreferred
    Timeout <- MCTimeout
    Fallback = 2
    Fault = {"unsent", "late", "broken"}
    MaxRetries = 1
    MaxChanges = 4
    All = All
    Broken = Broken
    None = None
INVARIANTS GrantJustified ClosedExplained RefusedSessionExplained
CHECK_DEADLOCK FALSE
