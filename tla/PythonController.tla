--------------------------- MODULE PythonController ---------------------------
(***************************************************************************)
(* The Python controller (ap-controller/app): the same session API as the  *)
(* Go one, without authentication.  FastAPI runs the handlers in threads;  *)
(* each Redis command is one action.  An exception, of Redis or of the     *)
(* handler itself, is answered 500.  A command whose result is dropped and *)
(* that changes nothing (the TTL after SETEX and after EXPIRE) is left out.*)
(*                                                                         *)
(* A session is named by the login that stored it.  stored, seen and       *)
(* before are history and guard nothing.                                   *)
(***************************************************************************)
EXTENDS Integers

CONSTANTS
    Mac, Request, Op,
    Source,     \* sources a heartbeat may name
    Policy,     \* [Source -> seconds], heartbeat.ttl_policy
    LoginTTL,   \* seconds a login gives
    Fault,      \* "unsent": not executed; "unacked": executed, no reply
    None

ASSUME NoneAssumption == None \notin Mac /\ None \notin Request
ASSUME TTLAssumption == Policy \in [Source -> Nat] /\ LoginTTL \in Nat \ {0}
ASSUME FaultAssumption == Fault \subseteq {"unsent", "unacked"}

\* "malformed": a batch_status with an entry that has no mac; its body is a dict
\* that nothing validates.
ASSUME OpAssumption == Op \subseteq {"login", "heartbeat", "logout", "status", "malformed"}

Input == [op : Op, mac : Mac, source : Source]

\* TTL rounds to seconds: 0 is a key in its last half second.
Session == [login : Request, ttl : Nat]

ASSUME RecordAssumption == None \notin Input /\ None \notin Session

VARIABLES
    store,      \* Redis
    req,        \* the request
    pc,         \* the Redis command a handler issues next, or its answer
    got,        \* the login of the session GET returned
    told,       \* the ttl TTL returned
    audit,      \* the result field of the audit line
    stored,     \* history: the logins whose SETEX was executed
    seen,       \* history: the sessions of its MAC while a request ran
    before      \* history: the logins answered when a request arrived

vars == <<store, req, pc, got, told, audit, stored, seen, before>>

Command == {"setex", "exists", "expire", "get", "ttl", "del"}
Answer == {"authorized", "denied", "error", "crashed"}
Outcome == {"ok"} \cup Fault

-----------------------------------------------------------------------------
Here(r) == store[req[r].mac]
Running(r) == pc[r] \in Command
Occupant(s) == IF s = None THEN None ELSE s.login
Is(r, op) == req[r] # None /\ req[r].op = op

Observe ==
    seen' = [q \in Request |->
                IF Running(q) THEN seen[q] \cup {store'[req[q].mac]} ELSE seen[q]]

\* A command on r's key that leaves s there, unless it is never executed.
Write(r, f, s) ==
    /\ store' = IF f = "unsent" THEN store ELSE [store EXCEPT ![req[r].mac] = s]
    /\ Observe

\* Every failure of Redis is an exception.
Goto(r, f, next) == pc' = [pc EXCEPT ![r] = IF f = "ok" THEN next ELSE "error"]

Aged(s) ==
    IF s = None \/ s.ttl = 0 THEN None ELSE [login |-> s.login, ttl |-> s.ttl - 1]

\* Where a handler begins; a malformed batch fails at once, or is first asked for
\* an entry that is in order.
First(op) ==
    CASE op = "login" -> {"setex"} [] op = "heartbeat" -> {"exists"}
      [] op = "malformed" -> {"get", "crashed"} [] OTHER -> {"get"}

Arrive(r, i) ==
    /\ req[r] = None
    /\ req' = [req EXCEPT ![r] = i]
    /\ \E c \in First(i.op) : pc' = [pc EXCEPT ![r] = c]
    /\ seen' = [seen EXCEPT ![r] = {store[i.mac]}]
    /\ before' = [before EXCEPT ![r] =
          {l \in Request : Is(l, "login") /\ req[l].mac = i.mac /\ pc[l] # "setex"}]
    /\ UNCHANGED <<store, got, told, audit, stored>>

\* Mutant of CreateSession: an exception of SETEX is swallowed.
CreateSessionAnyway(r) ==
    /\ pc[r] = "setex"
    /\ \E f \in Outcome :
        /\ Write(r, f, [login |-> r, ttl |-> LoginTTL])
        /\ stored' = IF f = "unsent" THEN stored ELSE stored \cup {r}
        /\ Goto(r, "ok", "get")
    /\ UNCHANGED <<req, got, told, audit, before>>

\* create_session
CreateSession(r) ==
    /\ pc[r] = "setex"
    /\ \E f \in Outcome :
        /\ Write(r, f, [login |-> r, ttl |-> LoginTTL])
        /\ stored' = IF f = "unsent" THEN stored ELSE stored \cup {r}
        /\ Goto(r, f, "get")
    /\ UNCHANGED <<req, got, told, audit, before>>

\* refresh_session, GET.  It returns a pair even when there is no session, and a
\* pair is true: the handler goes on to its second read.
CheckSession(r) ==
    /\ pc[r] = "exists"
    /\ \E f \in Outcome : Goto(r, f, IF Here(r) # None THEN "expire" ELSE "get")
    /\ UNCHANGED <<store, req, got, told, audit, stored, seen, before>>

\* EXPIRE by the source's ttl: an absent key stays absent, 0 deletes.
Extended(r) ==
    IF Here(r) = None \/ Policy[req[r].source] = 0 THEN None
    ELSE [login |-> Here(r).login, ttl |-> Policy[req[r].source]]

\* refresh_session, EXPIRE: whatever session is there by now.
ExtendSession(r) ==
    /\ pc[r] = "expire"
    /\ \E f \in Outcome :
        /\ Write(r, f, Extended(r))
        /\ Goto(r, f, "get")
    /\ UNCHANGED <<req, got, told, audit, stored, before>>

\* What a handler does when get_session_full has found nothing: a login passes
\* None on to build_session_resp, which fails on it; a malformed batch goes on to
\* its bad entry, whose key cannot be built.
Missing(r) == CASE req[r].op \in {"login", "malformed"} -> "crashed"
                [] req[r].op = "logout" -> "del" [] OTHER -> "denied"

\* What it does when there is a session.
Present(r) == CASE req[r].op = "malformed" -> "crashed"
                [] req[r].op = "logout" -> "del" [] OTHER -> "authorized"

\* get_session_full, GET
GetSession(r) ==
    /\ pc[r] = "get"
    /\ \E f \in Outcome : Goto(r, f, IF Here(r) # None THEN "ttl" ELSE Missing(r))
    /\ got' = [got EXCEPT ![r] = Occupant(Here(r))]
    /\ UNCHANGED <<store, req, told, audit, stored, seen, before>>

\* Mutant of ReadTTL: the key's absence is no reason to refuse.
ReadTTLAnyway(r) ==
    /\ pc[r] = "ttl"
    /\ told' = [told EXCEPT ![r] = IF Here(r) = None THEN 0 ELSE Here(r).ttl]
    /\ \E f \in Outcome : Goto(r, f, Present(r))
    /\ UNCHANGED <<store, req, got, audit, stored, seen, before>>

\* get_session_full, TTL: not positive is no session.
ReadTTL(r) ==
    /\ pc[r] = "ttl"
    /\ LET t == IF Here(r) = None THEN 0 ELSE Here(r).ttl
       IN  /\ told' = [told EXCEPT ![r] = t]
           /\ \E f \in Outcome : Goto(r, f, IF t = 0 THEN Missing(r) ELSE Present(r))
    /\ UNCHANGED <<store, req, got, audit, stored, seen, before>>

\* Mutant of DeleteSession: nothing is deleted when the read found nothing.
DeleteSessionRead(r) ==
    /\ pc[r] = "del"
    /\ \E f \in Outcome :
        /\ Write(r, f, IF told[r] = 0 THEN Here(r) ELSE None)
        /\ Goto(r, f, "denied")
        /\ audit' = [audit EXCEPT ![r] =
              IF f # "ok" THEN @ ELSE IF Here(r) # None THEN "ok" ELSE "not_found"]
    /\ UNCHANGED <<req, got, told, stored, before>>

\* delete_session: the audit line tells whether DEL found the key.
DeleteSession(r) ==
    /\ pc[r] = "del"
    /\ \E f \in Outcome :
        /\ Write(r, f, None)
        /\ Goto(r, f, "denied")
        /\ audit' = [audit EXCEPT ![r] =
              IF f # "ok" THEN @ ELSE IF Here(r) # None THEN "ok" ELSE "not_found"]
    /\ UNCHANGED <<req, got, told, stored, before>>

Handle(r) ==
    \/ CreateSession(r) \/ CheckSession(r) \/ ExtendSession(r)
    \/ GetSession(r) \/ ReadTTL(r) \/ DeleteSession(r)

Tick ==
    /\ store' = [m \in Mac |-> Aged(store[m])]
    /\ store' # store
    /\ Observe
    /\ UNCHANGED <<req, pc, got, told, audit, stored, before>>

-----------------------------------------------------------------------------
Init ==
    /\ store = [m \in Mac |-> None]
    /\ req = [r \in Request |-> None]
    /\ pc = [r \in Request |-> "new"]
    /\ got = [r \in Request |-> None]
    /\ told = [r \in Request |-> 0]
    /\ audit = [r \in Request |-> "none"]
    /\ stored = {}
    /\ seen = [r \in Request |-> {}]
    /\ before = [r \in Request |-> {}]

Next ==
    \/ \E r \in Request, i \in Input : Arrive(r, i)
    \/ \E r \in Request : Handle(r)
    \/ Tick

Spec == Init /\ [][Next]_vars

-----------------------------------------------------------------------------
TypeOK ==
    /\ store \in [Mac -> Session \cup {None}]
    /\ req \in [Request -> Input \cup {None}]
    /\ pc \in [Request -> Command \cup Answer \cup {"new"}]
    /\ got \in [Request -> Request \cup {None}]
    /\ told \in [Request -> Nat]
    /\ audit \in [Request -> {"none", "ok", "not_found"}]
    /\ stored \in SUBSET Request
    /\ seen \in [Request -> SUBSET (Session \cup {None})]
    /\ before \in [Request -> SUBSET Request]

\* An authorized answer reports a login that was stored for that client while the
\* request ran and a lifetime that key had then, of that login or, because GET and
\* TTL are two commands, of one that replaced it (get_session_full).
GrantWitnessed ==
    \A r \in Request : pc[r] = "authorized" =>
        LET live == seen[r] \ {None}
        IN  /\ told[r] > 0
            /\ \E s \in live : s.login = got[r] /\ req[s.login].mac = req[r].mac
            /\ \E s \in live : s.ttl = told[r]

\* A handler fails by itself only for a malformed batch, or in a login whose
\* session was stored and then ended, or had half a second left, while the login
\* ran: a logout in between is enough for portal_login to answer 500 after it has
\* stored the session.
CrashExplained ==
    \A r \in Request : pc[r] = "crashed" =>
        \/ Is(r, "malformed")
        \/ /\ Is(r, "login") /\ r \in stored
           /\ \E s \in seen[r] : s = None \/ s.ttl = 0

\* A logout audited ok or not_found has ended every session whose login had
\* passed SETEX when the logout arrived; none of them is there afterwards, also
\* not through a heartbeat that had read it (portal_logout, refresh_session).
LogoutRevokes ==
    \A r \in Request : audit[r] # "none" =>
        \A l \in before[r] : Occupant(Here(r)) # l

\* Logins need no approval here, so they are approved as they begin: a login is
\* told it succeeded only after its session was stored (portal_login).
KeyOf == [r \in Request |-> IF Is(r, "login") THEN req[r].mac ELSE None]
Approved == {r \in Request : Is(r, "login")}
Holder == [m \in Mac |-> Occupant(store[m])]
Told == [r \in Request |-> IF ~Is(r, "login") \/ Running(r) THEN "nothing"
                           ELSE IF pc[r] = "authorized" THEN "yes" ELSE "no"]

Registry == INSTANCE LoginRegistry WITH
    Key <- Mac, Login <- Request, keyOf <- KeyOf, approved <- Approved,
    holder <- Holder, told <- Told
RegistrySpec == Registry!Spec

=============================================================================
