SPECIFICATION Spec
CONSTANTS
    Mac = {m1}
    Request = {r1, r2, r3}
    Op = {"login", "heartbeat", "logout", "status", "malformed"}
    Source <- MCSource
    Policy <- MCPolicy
    LoginTTL = 1
    Fault = {"unsent", "unacked"}
    None = None
SYMMETRY Symmetry
INVARIANTS GrantWitnessed CrashExplained LogoutRevokes
PROPERTY RegistrySpec
CHECK_DEADLOCK FALSE
