--------------------------- MODULE PortalController ---------------------------
(***************************************************************************)
(* The session API of the Go controller (internal/http, internal/store):   *)
(* login, heartbeat, logout and status.  An entry of batch_status and a    *)
(* context/verify issue the commands of a status and grant on the same     *)
(* condition: they are the operation "status" too.                         *)
(*                                                                         *)
(* A handler is a goroutine that issues a few Redis commands, each atomic, *)
(* with no lock across them.  Every command is one action here, so the     *)
(* commands of concurrent requests, the expiry of keys and the failures of *)
(* Redis interleave as they do in the program.                             *)
(*                                                                         *)
(* A session is named by the login request that stored it: its role is the *)
(* role decided for that login.  A session that the Python controller left *)
(* under the same key is a bare role, which this controller cannot decode. *)
(* seen and before are history: they record what a request could have      *)
(* observed and never guard a step.                                        *)
(***************************************************************************)
EXTENDS Integers

CONSTANTS
    Mac,        \* normalised client MAC addresses
    Request,    \* the HTTP requests of a behaviour, each handled once
    Op,         \* the operations clients ask for in this instance
    Role,       \* roles DecideRole can yield
    SessionTTL, \* [Role -> seconds]; 0: the role or its profile is missing
    Fault,      \* the ways a Redis command may fail in this instance
    MaxRetries, \* attempts go-redis adds after an unacknowledged command
    Leftover,   \* the seconds a session of the Python controller may have left
    Plain,      \* stands for such a session where a login is named
    Fading,     \* seen of a key that is in its last second
    None        \* no session, no role, no request

\* A stored session: the login that wrote it, the request that last set its
\* lifetime, and the seconds it has left, the one that runs included.
Session == [login : Request \cup {Plain}, lease : Request \cup {Plain}, ttl : Nat]

\* What a handler decodes and decides: the operation, the client and, for a
\* login, the role.
Input == [op : Op, mac : Mac, role : Role \cup {None}]

ASSUME NoneAssumption ==
    None \notin Role /\ None \notin Request /\ None \notin Session /\ None \notin Input
ASSUME SightAssumption ==
    /\ Plain # Fading /\ Plain # None /\ Fading # None
    /\ Plain \notin Request /\ Fading \notin Request
ASSUME LeftoverAssumption == Leftover \subseteq Nat \ {0}
ASSUME OpAssumption == Op \subseteq {"login", "heartbeat", "logout", "status"}
ASSUME TTLAssumption == SessionTTL \in [Role -> Nat]
ASSUME RetryAssumption == MaxRetries \in Nat

\* "unsent": the command is not executed; "unacked": it is, the reply is lost.
ASSUME FaultAssumption == Fault \subseteq {"unsent", "unacked"}

VARIABLES
    store,      \* Redis: the session under each MAC's key
    req,        \* the decoded request
    pc,         \* the Redis command a handler issues next, or its answer
    checked,    \* heartbeat: the session its first read returned
    got,        \* the session the last GetSessionFull returned
    told,       \* the ttl in the answer
    audit,      \* the result field of the audit line
    tries,      \* retries already spent on the current command
    failed,     \* a command of this request reported an error
    seen,       \* history: what was under its MAC's key while it ran
    before      \* history: the logins settled when it arrived

vars == <<store, req, pc, checked, got, told, audit, tries, failed, seen, before>>

Command == {"set", "check", "expire", "del", "get", "ttl"}
Answer == {"authorized", "denied", "panicked", "aborted"}

-----------------------------------------------------------------------------
(* Redis.  A ttl counts down; 0 is a key without expiry.                    *)

\* Mutant of Aged: the counter is not stopped at the expiry.
AgedUnchecked(s) == IF s = None THEN s ELSE [s EXCEPT !.ttl = @ - 1]

\* One second passes for a key.
Aged(s) ==
    IF s = None \/ s.ttl = 0 THEN s
    ELSE IF s.ttl = 1 THEN None
    ELSE [login |-> s.login, lease |-> s.lease, ttl |-> s.ttl - 1]

\* Mutants of Stored: SET with KEEPTTL, and SET without an expiry.
StoredKeepTTL(r) ==
    LET s == store[req[r].mac]
    IN  IF s = None THEN [login |-> r, lease |-> r, ttl |-> SessionTTL[req[r].role]]
        ELSE [s EXCEPT !.login = r]
StoredForever(r) == [login |-> r, lease |-> r, ttl |-> 0]

\* SET with an expiry of SessionTTL seconds; go-redis sends none when it is 0.
Stored(r) == [login |-> r, lease |-> r, ttl |-> SessionTTL[req[r].role]]

\* The role a heartbeat works with: the one in the session it has read.
RoleOf(l) == req[l].role

\* Mutants of Expired: SET of the session that was read, EXPIRE by a delta.
ExpiredByWritingBack(s, r) ==
    [login |-> checked[r], lease |-> r, ttl |-> SessionTTL[RoleOf(checked[r])]]
ExpiredByDelta(s, r) ==
    IF s = None THEN None
    ELSE [s EXCEPT !.lease = r, !.ttl = @ + SessionTTL[RoleOf(checked[r])]]

\* EXPIRE on behalf of r.  An absent key stays absent, 0 seconds deletes it.
Expired(s, r) ==
    LET t == SessionTTL[RoleOf(checked[r])]
    IN  IF s = None \/ t = 0 THEN None
        ELSE [login |-> s.login, lease |-> r, ttl |-> t]

Occupant(s) == IF s = None THEN None ELSE s.login

\* What there is to see of a key: its session, and that its life is nearly over.
Sight(s) == {Occupant(s)} \cup (IF s # None /\ s.ttl = 1 THEN {Fading} ELSE {})

Here(r) == store[req[r].mac]

\* GET finds a session and its JSON can be decoded.
Readable(r) == Here(r) # None /\ Here(r).login # Plain

Running(r) == pc[r] \in Command
Live(l) == req[l] # None /\ Occupant(Here(l)) = l

-----------------------------------------------------------------------------
(* The steps of a handler.  f is the outcome of its Redis command.          *)

Outcome == {"ok"} \cup Fault

\* What each running request sees of its MAC's key after the step.
Observe ==
    seen' = [q \in Request |->
                IF Running(q) THEN seen[q] \cup Sight(store'[req[q].mac])
                ELSE seen[q]]

\* Leave s under r's key, unless the command was never executed.
Write(r, f, s) ==
    /\ store' = IF f = "unsent" THEN store
                ELSE [store EXCEPT ![req[r].mac] = s]
    /\ Observe

Continue(r, f, next) ==
    /\ pc' = [pc EXCEPT ![r] = next]
    /\ tries' = [tries EXCEPT ![r] = 0]
    /\ failed' = [failed EXCEPT ![r] = @ \/ f # "ok"]

\* Mutant of Retry: the attempts are not counted.
RetryForever(r, f) == f = "unacked" /\ UNCHANGED <<tries, pc, failed, audit>>

\* go-redis sends the command again: it may be executed more than once.
Retry(r, f) ==
    /\ f = "unacked" /\ tries[r] < MaxRetries
    /\ tries' = [tries EXCEPT ![r] = @ + 1]
    /\ UNCHANGED <<pc, failed, audit>>

\* The command each operation's handler issues first.
Entry == {<<"login", "set">>, <<"heartbeat", "check">>,
          <<"logout", "del">>, <<"status", "get">>}

\* A request has passed the decoding and the MAC checks of its handler.
Arrive(r, i) ==
    /\ req[r] = None
    /\ i.op = "login" <=> i.role # None
    /\ req' = [req EXCEPT ![r] = i]
    /\ \E c \in Command : <<i.op, c>> \in Entry /\ pc' = [pc EXCEPT ![r] = c]
    /\ seen' = [seen EXCEPT ![r] = Sight(store[i.mac])]
    /\ before' = [before EXCEPT ![r] =
          {l \in Request : /\ req[l] # None /\ req[l].op = "login"
                           /\ req[l].mac = i.mac /\ pc[l] # "set"}]
    /\ UNCHANGED <<store, checked, got, told, audit, tries, failed>>

\* portalLogin: the error of SetSession is dropped, the audit line says ok.
SetSession(r) ==
    /\ pc[r] = "set"
    /\ \E f \in Outcome :
        /\ Write(r, f, Stored(r))
        /\ \/ Continue(r, f, "get") /\ audit' = [audit EXCEPT ![r] = "ok"]
           \/ Retry(r, f)
    /\ UNCHANGED <<req, checked, got, told, before>>

\* portalHeartbeat: the first read decides the profile that Refresh will use.
CheckSession(r) ==
    /\ pc[r] = "check"
    /\ \E f \in Outcome :
        IF f = "ok" /\ Readable(r)
        THEN /\ checked' = [checked EXCEPT ![r] = Here(r).login]
             /\ Continue(r, f, "expire")
        ELSE /\ Continue(r, f, "denied")
             /\ UNCHANGED checked
    /\ UNCHANGED <<store, req, got, told, audit, seen, before>>

Refresh(r) ==
    /\ pc[r] = "expire"
    /\ \E f \in Outcome :
        /\ Write(r, f, Expired(Here(r), r))
        /\ \/ /\ Continue(r, f, IF f = "ok" /\ Here(r) # None
                                THEN "get" ELSE "denied")
              /\ UNCHANGED audit
           \/ Retry(r, f)
    /\ UNCHANGED <<req, checked, got, told, before>>

\* Mutant of Delete: the audit line trusts that the key is gone.
DeleteAuditedOk(r) ==
    /\ pc[r] = "del"
    /\ \E f \in Outcome :
        /\ Write(r, f, None)
        /\ Continue(r, f, "denied") /\ audit' = [audit EXCEPT ![r] = "ok"]
    /\ UNCHANGED <<req, checked, got, told, before>>

\* portalLogout: the error of Delete is dropped, the answer is always the same.
Delete(r) ==
    /\ pc[r] = "del"
    /\ \E f \in Outcome :
        /\ Write(r, f, None)
        /\ \/ /\ Continue(r, f, "denied")
              /\ audit' = [audit EXCEPT ![r] = IF f = "ok" /\ Here(r) # None
                                               THEN "ok" ELSE "not_found"]
           \/ Retry(r, f)
    /\ UNCHANGED <<req, checked, got, told, before>>

\* Mutant of GetSession: a login reports the session it built, not the stored one.
GetSessionBuilt(r) ==
    /\ pc[r] = "get"
    /\ \E f \in Outcome :
        IF f = "ok" /\ Readable(r)
        THEN /\ got' = [got EXCEPT ![r] = IF req[r].op = "login" THEN r
                                         ELSE Here(r).login]
             /\ Continue(r, f, "ttl")
        ELSE /\ Continue(r, f, IF req[r].op = "heartbeat"
                               THEN "panicked" ELSE "denied")
             /\ UNCHANGED got
    /\ UNCHANGED <<store, req, checked, told, audit, seen, before>>

\* GetSessionFull, first command.  The heartbeat dereferences the session its
\* second read returns without looking whether there is one.
GetSession(r) ==
    /\ pc[r] = "get"
    /\ \E f \in Outcome :
        IF f = "ok" /\ Readable(r)
        THEN /\ got' = [got EXCEPT ![r] = Here(r).login]
             /\ Continue(r, f, "ttl")
        ELSE /\ Continue(r, f, IF req[r].op = "heartbeat"
                               THEN "panicked" ELSE "denied")
             /\ UNCHANGED got
    /\ UNCHANGED <<store, req, checked, told, audit, seen, before>>

\* Mutant of ReadTTL: no ttl is no session, as in store.py.
ReadTTLDenyZero(r) ==
    /\ pc[r] = "ttl"
    /\ \E f \in Outcome :
        LET t == IF f = "ok" /\ Here(r) # None THEN Here(r).ttl ELSE 0
        IN  /\ told' = [told EXCEPT ![r] = t]
            /\ Continue(r, f, IF t = 0 THEN "denied" ELSE "authorized")
    /\ UNCHANGED <<store, req, checked, got, audit, seen, before>>

\* What TTL may say of a key with t seconds left, the one that runs included:
\* Redis rounds the milliseconds to the nearest second.
Rounded(t) == IF t = 0 THEN {0} ELSE {t - 1, t}

\* GetSessionFull, second command: no key, no expiry, less than half a second
\* or an error all read as 0.
ReadTTL(r) ==
    /\ pc[r] = "ttl"
    /\ \E f \in Outcome :
        /\ \E t \in IF f = "ok" /\ Here(r) # None THEN Rounded(Here(r).ttl) ELSE {0} :
              told' = [told EXCEPT ![r] = t]
        /\ Continue(r, f, "authorized")
    /\ UNCHANGED <<store, req, checked, got, audit, seen, before>>

Handle(r) ==
    \/ SetSession(r)
    \/ CheckSession(r)
    \/ Refresh(r)
    \/ Delete(r)
    \/ GetSession(r)
    \/ ReadTTL(r)

\* One second passes in Redis.
Tick ==
    /\ store' = [m \in Mac |-> Aged(store[m])]
    /\ store' # store
    /\ Observe
    /\ UNCHANGED <<req, pc, checked, got, told, audit, tries, failed, before>>

\* The controller stops: every request it was handling dies, Redis goes on.
Crash ==
    /\ \E r \in Request : Running(r)
    /\ pc' = [r \in Request |-> IF Running(r) THEN "aborted" ELSE pc[r]]
    /\ UNCHANGED <<store, req, checked, got, told, audit, tries, failed, seen, before>>

-----------------------------------------------------------------------------
Init ==
    /\ store \in [Mac -> {None} \cup
                   [login : {Plain}, lease : {Plain}, ttl : Leftover]]
    /\ req = [r \in Request |-> None]
    /\ pc = [r \in Request |-> "new"]
    /\ checked = [r \in Request |-> None]
    /\ got = [r \in Request |-> None]
    /\ told = [r \in Request |-> 0]
    /\ audit = [r \in Request |-> "none"]
    /\ tries = [r \in Request |-> 0]
    /\ failed = [r \in Request |-> FALSE]
    /\ seen = [r \in Request |-> {}]
    /\ before = [r \in Request |-> {}]

Next ==
    \/ \E r \in Request, i \in Input : Arrive(r, i)
    \/ \E r \in Request : Handle(r)
    \/ Tick
    \/ Crash

\* The Go scheduler runs every handler; the clock of Redis does not stop.
Fairness ==
    /\ \A r \in Request : WF_vars(Handle(r))
    /\ WF_vars(Tick)

Spec == Init /\ [][Next]_vars
FairSpec == Spec /\ Fairness

-----------------------------------------------------------------------------
TypeOK ==
    /\ store \in [Mac -> Session \cup {None}]
    /\ req \in [Request -> Input \cup {None}]
    /\ pc \in [Request -> Command \cup Answer \cup {"new"}]
    /\ checked \in [Request -> Request \cup {None}]
    /\ got \in [Request -> Request \cup {None}]
    /\ told \in [Request -> Nat]
    /\ audit \in [Request -> {"none", "ok", "not_found"}]
    /\ tries \in [Request -> 0..MaxRetries]
    /\ failed \in [Request -> BOOLEAN]
    /\ seen \in [Request -> SUBSET (Request \cup {None, Plain, Fading})]
    /\ before \in [Request -> SUBSET Request]

\* A session that has ended (logged out, expired or replaced) never comes back
\* once its login has gone past SetSession, whatever heartbeats that had read it
\* are still running: store.Refresh may extend a key but never create one.
EndedStaysEnded ==
    [][\A l \in Request : pc[l] # "set" /\ ~Live(l) => ~Live(l)']_vars

\* A logout whose audit line says ok has ended every session whose login was
\* settled when the logout arrived, and they stay ended (portalLogout, Delete).
LogoutRevokes ==
    \A r \in Request : req[r] # None /\ req[r].op = "logout" /\ audit[r] = "ok"
        => \A l \in before[r] : ~Live(l)

\* An answer that grants access reports a session that was stored for that very
\* client while the request ran, never one from before it or of another client.
GrantWitnessed ==
    \A r \in Request : pc[r] = "authorized" =>
        /\ got[r] \in seen[r] \cap Request
        /\ req[got[r]].op = "login" /\ req[got[r]].mac = req[r].mac

\* Unless a Redis command failed, a read or a heartbeat that is refused was
\* really without a session, or had one this controller cannot decode, at some
\* moment of the request.
DenialWitnessed ==
    \A r \in Request :
        pc[r] \in {"denied", "panicked"} /\ ~failed[r] => seen[r] \cap {None, Plain} # {}

\* The lifetime of a session is the one its role's profile gives it, unless a
\* heartbeat read an earlier session of the client and refreshed this one: the
\* read of portalHeartbeat and its Refresh are two commands.
LeaseCrossedOnlyByRace ==
    \A m \in Mac : store[m] # None =>
        LET h == store[m].lease
            l == store[m].login
        IN  h # l => /\ req[h].op = "heartbeat" /\ req[h].mac = m
                     /\ checked[h] \in seen[h]
                     /\ checked[h] # l => l \in seen[h]

\* No session of this controller outlives the ttl of the profile that set its
\* lifetime, and a key without expiry exists only for a login whose role has no
\* ttl: SET with 0 seconds keeps the key for good, EXPIRE with 0 removes it.
LeaseBounded ==
    \A m \in Mac : store[m] # None /\ store[m].login # Plain =>
        LET h == store[m].lease
            t == SessionTTL[RoleOf(IF req[h].op = "login" THEN h ELSE checked[h])]
        IN  /\ store[m].ttl <= t
            /\ store[m].ttl = 0 <=> t = 0

\* A granted answer says ttl 0, which portal-sync.sh takes for no session, only
\* if Redis failed, or while the request ran the session ended, was in its last
\* second (TTL rounds) or had no expiry.
ZeroTTLExplained ==
    \A r \in Request : pc[r] = "authorized" /\ told[r] = 0 =>
        \/ failed[r]
        \/ seen[r] \cap {None, Fading} # {}
        \/ \E l \in seen[r] \cap Request : SessionTTL[RoleOf(l)] = 0

\* Every request is answered, a heartbeat may end in a panic, or its controller
\* stops: no handler waits for another one.
RequestsEnd == \A r \in Request : Running(r) ~> ~Running(r)

-----------------------------------------------------------------------------
(* What the repository says and the code does not do.                       *)

\* main.py answers a heartbeat whose session ends under it; so does README.md
\* let the two controllers be exchanged.  The Go handler panics.
HeartbeatAnswered == \A r \in Request : pc[r] # "panicked"

=============================================================================
