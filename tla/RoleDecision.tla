----------------------------- MODULE RoleDecision -----------------------------
(***************************************************************************)
(* internal/roles/decide.go: which role a login gets.  A pure function of  *)
(* the rules of the configuration and the context of the login.            *)
(*                                                                         *)
(* A rule is [name, priority, when, assign].  Names are numbers in their    *)
(* alphabetical order.  when[f] is the set of values its pattern for field  *)
(* f accepts, never the blank one (a blank string, or a list with a null,   *)
(* accepts all of them), or Always if there is no pattern or a null.        *)
(***************************************************************************)
EXTENDS Integers, Sequences, FiniteSets, SequencesExt

CONSTANTS
    Field,      \* "ssid", "auth", "ap_id", "radio_id", "mac", "ip"
    Always,
    NoRule,     \* the rule of a login that no rule matches
    Default     \* the role "guest" portalLogin passes

\* matchWhen, match
Matches(rule, ctx) ==
    \A f \in Field : rule.when[f] = Always \/ ctx[f] \in rule.when[f]

Before(a, b) ==
    \/ a.priority < b.priority
    \/ a.priority = b.priority /\ a.name < b.name

\* j comes out of the stable sort before i.
Precedes(rules, j, i) ==
    \/ Before(rules[j], rules[i])
    \/ ~Before(rules[i], rules[j]) /\ j < i

\* sort.SliceStable: every rule has its place behind those that precede it.
Place(rules, i) == 1 + Cardinality({j \in DOMAIN rules : Precedes(rules, j, i)})

Sorted(rules) ==
    [n \in DOMAIN rules |-> rules[CHOOSE i \in DOMAIN rules : Place(rules, i) = n]]

Assigned(rule) == IF rule.assign = "" THEN Default ELSE rule.assign

DecideRole(rules, ctx) ==
    LET s == Sorted(rules)
        k == SelectInSeq(s, LAMBDA rule : Matches(rule, ctx))
    IN  IF k = 0 THEN [role |-> Default, rule |-> NoRule]
        ELSE [role |-> Assigned(s[k]), rule |-> s[k]]

-----------------------------------------------------------------------------
(* The same without sorting: the matching rule that nothing else precedes,  *)
(* among equals the first of the file.                                      *)

Leading(rules, ctx) ==
    {i \in DOMAIN rules :
        /\ Matches(rules[i], ctx)
        /\ \A j \in DOMAIN rules : Matches(rules[j], ctx) =>
              \/ Before(rules[i], rules[j])
              \/ ~Before(rules[j], rules[i]) /\ i <= j}

IsDecision(d, rules, ctx) ==
    IF \A i \in DOMAIN rules : ~Matches(rules[i], ctx)
    THEN d = [role |-> Default, rule |-> NoRule]
    ELSE \E i \in Leading(rules, ctx) :
            d = [role |-> Assigned(rules[i]), rule |-> rules[i]]

=============================================================================
