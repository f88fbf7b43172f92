-------------------------- MODULE MCPortalController --------------------------
(* Small instances of PortalController for TLC.                             *)
EXTENDS PortalController, TLC

CONSTANTS guest, staff, unknown

\* staff sessions live longer than guest ones, as in controller.yaml; unknown is
\* a role without definition.
MCRole == {guest, staff, unknown}
MCSessionTTL == guest :> 1 @@ staff :> 2 @@ unknown :> 0

MCRoleTimed == {guest, staff}
MCSessionTTLTimed == guest :> 1 @@ staff :> 2

Symmetry == Permutations(Request) \cup Permutations(Mac)
=============================================================================
