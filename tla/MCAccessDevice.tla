---------------------------- MODULE MCAccessDevice ----------------------------
(* Small instances of AccessDevice for TLC.                                 *)
EXTENDS AccessDevice, TLC

CONSTANTS pap, sms, default, vip

\* vip allows a strategy without a plugin and sets no timeout.
MCAllowed == default :> {pap} @@ vip :> {pap, sms}
MCPreferred == default :> pap @@ vip :> pap
MCTimeout == default :> 1 @@ vip :> 0

\* One policy, one strategy: for runs about the session store.
MCAllowedOne == default :> {pap}
MCPreferredOne == default :> pap
MCTimeoutOne == default :> 2

Symmetry == Permutations(Request) \cup Permutations(User) \cup Permutations(Addr)
=============================================================================
