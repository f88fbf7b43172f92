SPECIFICATION Spec
CONSTANTS
    Proc = {p1, p2}
    Kid = {v1, v2}
    FirstKid = v1
    NextKid = v2
    EnvKey = EnvKey
    Garbled = Garbled
    Rules <- MCRules
    Invalid = Invalid
    Context <- MCContext
    MaxChanges = 3
    None = None
    Field <- MCField
    Always = Always
    NoRule = NoRule
    Default = "guest"
    Corp = Corp
    Guest = Guest
    Other = Other
SYMMETRY Symmetry
INVARIANTS RefusalExplained FirstRuleDecides
CHECK_DEADLOCK FALSE
