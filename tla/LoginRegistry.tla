----------------------------- MODULE LoginRegistry -----------------------------
(***************************************************************************)
(* What a store of login sessions promises, whatever it is made of: a key  *)
(* holds only logins that were begun for that key and approved, and nobody *)
(* is told that a login succeeded before it was stored.  Sessions may end  *)
(* at any time, several at once, and an approved login may be stored after *)
(* its client was told that it failed.                                     *)
(***************************************************************************)

CONSTANTS
    Key,        \* whom or what a session belongs to
    Login,      \* the attempts of a behaviour
    None        \* no key, no login

VARIABLES
    keyOf,      \* the key a begun login is for
    approved,   \* the logins whose credentials were accepted
    stored,     \* the logins that have been stored
    holder,     \* the login whose session a key holds
    told        \* what the client of a login has been told

vars == <<keyOf, approved, stored, holder, told>>

\* trusted: the store takes the login without asking for a proof.
Begin(l, k, trusted) ==
    /\ keyOf[l] = None
    /\ keyOf' = [keyOf EXCEPT ![l] = k]
    /\ approved' = IF trusted THEN approved \cup {l} ELSE approved
    /\ UNCHANGED <<stored, holder, told>>

Approve(l) ==
    /\ keyOf[l] # None
    /\ approved' = approved \cup {l}
    /\ UNCHANGED <<keyOf, stored, holder, told>>

\* The reply of the store may be lost: the client is told "no" of a stored login.
Store(l, unheard) ==
    /\ l \in approved
    /\ stored' = stored \cup {l}
    /\ holder' = [holder EXCEPT ![keyOf[l]] = l]
    /\ IF unheard
       THEN told[l] = "nothing" /\ told' = [told EXCEPT ![l] = "no"]
       ELSE UNCHANGED told
    /\ UNCHANGED <<keyOf, approved>>

Tell(l, a) ==
    /\ keyOf[l] # None /\ told[l] = "nothing"
    /\ a = "yes" => l \in stored
    /\ told' = [told EXCEPT ![l] = a]
    /\ UNCHANGED <<keyOf, approved, stored, holder>>

\* Expiry and deletion.
End(K) ==
    /\ holder' = [k \in Key |-> IF k \in K THEN None ELSE holder[k]]
    /\ UNCHANGED <<keyOf, approved, stored, told>>

Init ==
    /\ keyOf = [l \in Login |-> None]
    /\ approved = {}
    /\ stored = {}
    /\ holder = [k \in Key |-> None]
    /\ told = [l \in Login |-> "nothing"]

Next ==
    \/ \E l \in Login, k \in Key, b \in BOOLEAN : Begin(l, k, b)
    \/ \E l \in Login : Approve(l)
    \/ \E l \in Login, b \in BOOLEAN : Store(l, b)
    \/ \E l \in Login, a \in {"yes", "no"} : Tell(l, a)
    \/ \E K \in SUBSET Key : End(K)

Spec == Init /\ [][Next]_vars

=============================================================================
