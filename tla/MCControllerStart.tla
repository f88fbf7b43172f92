--------------------------- MODULE MCControllerStart ---------------------------
(* Small instances of ControllerStart for TLC.                              *)
EXTENDS ControllerStart, TLC

CONSTANTS Corp, Guest, Other

MCField == {"ssid", "auth"}

MCRule(n, p, ssid, auth, role) ==
    [name |-> n, priority |-> p, when |-> "ssid" :> ssid @@ "auth" :> auth,
     assign |-> role]

\* The shipped rules; ties in priority, the second also in name; a rule that
\* matches everything and assigns nothing before one that is more important.
Shipped == << MCRule(2, 100, {Guest}, {"portal"}, "guest"),
              MCRule(1, 10, {Corp}, {"radius"}, "staff") >>
Ties == << MCRule(2, 10, {Corp, Guest}, Always, "guest"),
           MCRule(1, 10, {Corp}, Always, "staff"),
           MCRule(1, 10, {Corp}, Always, "iot") >>
CatchAll == << MCRule(1, 20, Always, Always, ""),
               MCRule(2, 10, {Corp}, Always, "staff") >>
MCRules == {Shipped, Ties, CatchAll}

\* portalLogin passes no auth; "" is a field that is blank.
MCContext == {"ssid" :> v @@ "auth" :> "" : v \in {Corp, Guest, Other}}

\* Every list of up to three rules of a small stock, in every context.
Stock == {MCRule(n, p, w, Always, r) : n \in {1, 2}, p \in {1, 2},
              w \in {{Corp}, Always}, r \in {"staff", ""}}
ASSUME DecideRoleAssumption ==
    \A n \in 0..3 : \A rules \in [1..n -> Stock], ctx \in MCContext :
        IsDecision(DecideRole(rules, ctx), rules, ctx)

Symmetry == Permutations(Proc)
=============================================================================
