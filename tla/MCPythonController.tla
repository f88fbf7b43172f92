--------------------------- MODULE MCPythonController ---------------------------
(* Small instances of PythonController for TLC.                             *)
EXTENDS PythonController, TLC

\* A heartbeat gives more than a login.
MCSource == {"dhcp"}
MCPolicy == "dhcp" :> 2

Symmetry == Permutations(Request)
=============================================================================
