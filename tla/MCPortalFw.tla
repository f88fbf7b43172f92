------------------------------ MODULE MCPortalFw ------------------------------
(* Small instances of PortalFw for TLC.                                     *)
EXTENDS PortalFw, TLC

CONSTANTS m1, router, p1, p2, h1

MCMac == {m1, router}
MCHost == {p1, p2, h1}
MCPortals == {p1, p2}
MCName == p1 :> <<"portal">> @@ p2 :> <<"portal">>
          @@ h1 :> <<"captive", "apple", "com">>

Fetched(p, macs, ips, domains) ==
    [portal |-> p, enabled |-> TRUE, mac |-> macs, ip |-> ips, conf |-> domains]

\* The portal moves and the lists empty when bypassing is switched off; one list is
\* no array.
MCDefault == [portal |-> p2, enabled |-> FALSE, mac |-> {}, ip |-> {}, conf |-> {}]
MCRuntime == {
    Fetched(p1, {m1}, {h1}, {<<"*", "apple", "com">>, <<"google", "com">>}),
    Fetched(p1, {}, Broken, {}) }
=============================================================================
