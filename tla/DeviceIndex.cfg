SPECIFICATION Spec
CONSTANTS
    User = {u1, u2}
    Addr = {a1, a2}
    Request = {r1, r2, r3}
    Op = {"login", "byAddr", "byUser", "delete"}
    pap = pap
    sms = sms
    default = default
    vip = vip
    Query = {None}
    Strategy = {pap}
    Installed = {pap}
    Radius = {pap}
    Policy = {default}
    Default = default
    Allowed <- MCAllowedOne
    Preferred <- MCPreferredOne
    Timeout <- MCTimeoutOne
    Fallback = 2
    Fault = {"late"}
    MaxRetries = 0
    MaxChanges = 1
    All = All
    Broken = Broken
    None = None
SYMMETRY Symmetry
INVARIANTS KeysAgree LookupNotOlder
PROPERTY RegistrySpec
CHECK_DEADLOCK FALSE
