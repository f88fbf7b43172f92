--------------------------- MODULE MCPortalRollback ---------------------------
(* Small instances of PortalRollback for TLC.                              *)
EXTENDS PortalRollback, TLC

CONSTANTS m1, router, p1, p2

MCMac == {m1, router}
MCRouter == {router}
MCHost == {p1, p2}
MCPortals == {p1, p2}
MCName == p1 :> <<"portal">> @@ p2 :> <<"portal">>

MCDefault == [portal |-> p1, enabled |-> FALSE, mac |-> {}, ip |-> {}, conf |-> {}]

\* The portal moves.
MCMoved == {[MCDefault EXCEPT !.portal = p2]}
=============================================================================
