----------------------------- MODULE MCPortalSync -----------------------------
(* Small instances of PortalSync for TLC.                                   *)
EXTENDS PortalSync, TLC

\* Sessions as short as the time of a run; the cap is longer than either.
MCSessionTTL == "guest" :> 1 @@ "staff" :> 1
MCCap == "dhcp" :> 0 @@ "arp" :> 3 @@ "fdb" :> 1

\* Clients come and go.
MCSighting == {{}, {"arp"}}
=============================================================================
