----------------------------- MODULE AccessDevice -----------------------------
(***************************************************************************)
(* The access device (NAC): the login a portal server forwards to it, from *)
(* the form to the page that is shown, and the session store it keeps in   *)
(* Redis.  Every Redis command and the RADIUS exchange is one action, so   *)
(* concurrent requests, the operator's changes of flags and policies, the  *)
(* expiry of keys and failures interleave.  Save is one MULTI and atomic.  *)
(*                                                                         *)
(* A session and the address entry written with it are named by their      *)
(* login and numbered by the Save that wrote them.  failed, accepted,      *)
(* policies, flags, moved, last and cut are history and guard nothing.     *)
(***************************************************************************)
EXTENDS Integers

CONSTANTS
    User,
    Addr,       \* the texts a portal passes as user_ip
    Request,    \* logins and calls of the session store, each made once
    Op,         \* the operations of this instance
    Query,      \* values of auth_type in the URL; None: not there
    Strategy,   \* names of authentication strategies
    Installed,  \* the strategies whose plugin is linked
    Radius,     \* the strategies that ask the RADIUS server
    Policy,
    Default,    \* the policy "default" of policy.yaml, or None
    Allowed,    \* [Policy -> the strategies it allows]
    Preferred,  \* [Policy -> its default strategy, else the first allowed, or None]
    Timeout,    \* [Policy -> session timeout, 0 when it has none]
    Fallback,   \* the lifetime Save uses instead of 0
    Fault,      \* what may fail in this instance
    MaxRetries, \* attempts go-redis adds after a lost reply
    MaxChanges, \* bound on the operator's changes
    All,        \* the flag key of a strategy that is not a user's
    Broken,     \* an override that is not JSON of a policy
    None

ASSUME NoneAssumption ==
    None \notin User \cup Addr \cup Strategy \cup Policy \cup Request \cup {Broken}
ASSUME KeyAssumption == All \notin User /\ User \cap Addr = {}
ASSUME PolicyAssumption ==
    /\ Default \in Policy \cup {None} /\ Broken \notin Policy
    /\ Allowed \in [Policy -> SUBSET Strategy]
    /\ Preferred \in [Policy -> Strategy \cup {None}]
    /\ Timeout \in [Policy -> Nat] /\ Fallback \in Nat \ {0}
    /\ Installed \subseteq Strategy /\ Radius \subseteq Installed
ASSUME BoundAssumption == MaxRetries \in Nat /\ MaxChanges \in Nat

\* A Redis command is never executed, or once its sender has stopped waiting;
\* the connection between portal and device breaks.
ASSUME FaultAssumption == Fault \subseteq {"unsent", "late", "broken"}
ASSUME QueryAssumption == None \in Query /\ Query \subseteq Strategy \cup {None}
ASSUME OpAssumption == Op \subseteq {"login", "byAddr", "byUser", "delete"}

\* query: the auth_type of the URL; the one of the JSON body is never read.
Input == [op : Op, user : User, addr : Addr, query : Query]
Entry == [login : Request, no : Nat, ttl : Nat \ {0}]

ASSUME RecordAssumption == None \notin Input /\ None \notin Entry

VARIABLES
    override,   \* Redis policy:user:<user>
    flag,       \* Redis feature:auth:<strategy>, the keys that are on
    sess,       \* Redis portal:session:<user>
    index,      \* Redis portal:session:ip:<addr>
    saves,      \* number of Saves executed
    late,       \* copies of its MULTI a login has on their way to Redis
    changes,    \* changes the operator has made
    req,        \* the request
    pc,         \* what its handler does next, or its answer
    policy,     \* the policy it resolved
    chosen,     \* the strategy it chose
    via,        \* the address entry a lookup has read
    held,       \* the session a lookup or delete has read
    tries,      \* retries spent on Save
    page,       \* what the portal shows
    failed,     \* history: a Redis command of it has failed
    accepted,   \* history: its credentials were accepted
    policies,   \* history: overrides in force between the post and the decision
    flags,      \* history: values of its flag between the two reads of it
    moved,      \* history: keys of that flag changed between the two reads
    stored,     \* history: the logins a Save of which was executed
    last,       \* history: number of the last Save that wrote a key
    cut         \* history: keys a delete has removed since

redis == <<override, flag, sess, index, saves, late, changes>>
local == <<policy, chosen, via, held, tries>>
history == <<failed, accepted, policies, flags, moved, stored, last, cut>>
vars == <<redis, req, pc, local, page, history>>

Command == {"posted", "override", "flagAll", "flagUser", "auth", "save",
            "byAddr", "byUser", "read", "del"}
Answer == {"granted", "refused", "closed", "found", "absent", "deleted"}
Outcome == {"ok"} \cup (Fault \ {"broken"})

-----------------------------------------------------------------------------
Running(r) == pc[r] \in Command
Me(r) == req[r].user
Owner(e) == req[e.login].user
Is(r, op) == req[r] # None /\ req[r].op = op

Goto(r, next) == pc' = [pc EXCEPT ![r] = next]
Report(r, f) == failed' = [failed EXCEPT ![r] = @ \/ f # "ok"]

\* One second passes for a key of the store.
Aged(e) ==
    IF e = None \/ e.ttl = 1 THEN None
    ELSE [login |-> e.login, no |-> e.no, ttl |-> e.ttl - 1]

\* The browser submits the form and the portal posts it to the device; a call
\* of the session store starts at its first command.
Submit(r, i) ==
    /\ req[r] = None
    /\ i.op # "login" => i.query = None
    /\ req' = [req EXCEPT ![r] = i]
    /\ Goto(r, CASE i.op = "login" -> "posted" [] i.op = "byAddr" -> "byAddr"
                 [] i.op = "byUser" -> "byUser" [] i.op = "delete" -> "read")
    /\ page' = [page EXCEPT ![r] = IF i.op = "login" THEN "waiting" ELSE "none"]
    /\ policies' = [policies EXCEPT ![r] = {override[i.user]}]
    /\ UNCHANGED <<redis, local, failed, accepted, flags, moved, stored, last, cut>>

\* The checks of PortalAuthHandler before it resolves a policy: method, content
\* type, body, username.
Receive(r) ==
    /\ pc[r] = "posted"
    /\ Goto(r, "override") \/ Goto(r, "refused")
    /\ UNCHANGED <<redis, req, local, page, history>>

\* RedisPolicyOverride.Get: the user's policy, if it can be read and is one.
Override(r, f) ==
    IF f = "ok" /\ override[Me(r)] \in Policy THEN override[Me(r)] ELSE None

\* Mutant of Resolved: the policy of the file wins.
ResolvedDefaultFirst(r, f) ==
    IF Default # None THEN Default ELSE Override(r, f)

\* PolicyEngine.Resolve: whatever goes wrong with the override, it does not count.
Resolved(r, f) == IF Override(r, f) # None THEN Override(r, f) ELSE Default

\* The strategy the URL asks for, else the policy's own.
Choice(r, p) == IF req[r].query # None THEN req[r].query ELSE Preferred[p]

Resolve(r) ==
    /\ pc[r] = "override"
    /\ \E f \in Outcome :
        LET p == Resolved(r, f)
            s == IF p = None THEN None ELSE Choice(r, p)
        IN  /\ policy' = [policy EXCEPT ![r] = p]
            /\ chosen' = [chosen EXCEPT ![r] = s]
            /\ Goto(r, IF s = None THEN "refused" ELSE "flagAll")
            /\ Report(r, f)
    /\ UNCHANGED <<redis, req, via, held, tries, page, accepted, policies, flags,
                   moved, stored, last, cut>>

On(r) == \E k \in {All, Me(r)} : k \in flag[chosen[r]]

\* A strategy that is on must be allowed by the policy and have a plugin.
Admitted(r) ==
    IF chosen[r] \in Allowed[policy[r]] \cap Installed THEN "auth" ELSE "refused"

\* RedisFeatureFlag.Enabled, first GET.
CheckFlag(r) ==
    /\ pc[r] = "flagAll"
    /\ \E f \in Outcome :
        /\ Goto(r, IF f = "ok" /\ All \in flag[chosen[r]]
                   THEN Admitted(r) ELSE "flagUser")
        /\ Report(r, f)
    /\ flags' = [flags EXCEPT ![r] = {On(r)}]
    /\ UNCHANGED <<redis, req, local, page, accepted, policies, moved, stored, last, cut>>

\* Mutant of CheckGrant: the key of all users is asked again.
CheckGrantAll(r) ==
    /\ pc[r] = "flagUser"
    /\ \E f \in Outcome :
        /\ Goto(r, IF f = "ok" /\ All \in flag[chosen[r]]
                   THEN Admitted(r) ELSE "closed")
        /\ Report(r, f)
    /\ UNCHANGED <<redis, req, local, page, accepted, policies, flags, moved, stored, last, cut>>

\* The second GET: the user's own key.
CheckGrant(r) ==
    /\ pc[r] = "flagUser"
    /\ \E f \in Outcome :
        /\ Goto(r, IF f = "ok" /\ Me(r) \in flag[chosen[r]]
                   THEN Admitted(r) ELSE "closed")
        /\ Report(r, f)
    /\ UNCHANGED <<redis, req, local, page, accepted, policies, flags, moved, stored, last, cut>>

\* strategy.Authenticate.  The hint SelectAndBuild gets carries no token and no
\* phone, so only a strategy that asks RADIUS can accept.
Authenticate(r) ==
    /\ pc[r] = "auth"
    /\ \/ /\ chosen[r] \in Radius
          /\ accepted' = accepted \cup {r}
          /\ Goto(r, "save")
       \/ /\ Goto(r, "refused")
          /\ UNCHANGED accepted
    /\ UNCHANGED <<redis, req, local, page, failed, policies, flags, moved, stored, last, cut>>

Lifetime(r) == IF Timeout[policy[r]] = 0 THEN Fallback ELSE Timeout[policy[r]]

\* Mutant of Written: SET of the session with NX.
WrittenOnce(r) ==
    LET e == [login |-> r, no |-> saves + 1, ttl |-> Lifetime(r)]
        K == {req[r].addr} \cup {u \in {Me(r)} : sess[u] = None}
    IN  /\ saves' = e.no
        /\ sess' = [u \in User |-> IF u \in K THEN e ELSE sess[u]]
        /\ index' = [index EXCEPT ![req[r].addr] = e]
        /\ last' = [k \in User \cup Addr |-> IF k \in K THEN e.no ELSE last[k]]
        /\ cut' = cut \ K
        /\ stored' = stored \cup {r}

\* Mutant of Written: the address entry outlives its session.
WrittenLonger(r) ==
    LET e == [login |-> r, no |-> saves + 1, ttl |-> Lifetime(r)]
    IN  /\ saves' = e.no
        /\ sess' = [sess EXCEPT ![Me(r)] = e]
        /\ index' = [index EXCEPT ![req[r].addr] = [e EXCEPT !.ttl = @ + 1]]
        /\ last' = [k \in User \cup Addr |->
                       IF k \in {Me(r), req[r].addr} THEN e.no ELSE last[k]]
        /\ cut' = cut \ {Me(r), req[r].addr}
        /\ stored' = stored \cup {r}

\* The MULTI of Save: both keys, one lifetime.
Written(r) ==
    LET e == [login |-> r, no |-> saves + 1, ttl |-> Lifetime(r)]
    IN  /\ saves' = e.no
        /\ sess' = [sess EXCEPT ![Me(r)] = e]
        /\ index' = [index EXCEPT ![req[r].addr] = e]
        /\ last' = [k \in User \cup Addr |->
                       IF k \in {Me(r), req[r].addr} THEN e.no ELSE last[k]]
        /\ cut' = cut \ {Me(r), req[r].addr}
        /\ stored' = stored \cup {r}

NotWritten == UNCHANGED <<sess, index, saves, stored, last, cut>>

\* Mutant of Save: an error of the store is logged and the login granted.
SaveAnyway(r) ==
    /\ pc[r] = "save" /\ Goto(r, "granted")
    /\ \E f \in Outcome : (IF f = "ok" THEN Written(r) ELSE NotWritten) /\ Report(r, f)
    /\ UNCHANGED <<override, flag, changes, req, policy, chosen, via, held, tries, late,
                   page, accepted, policies, flags, moved>>

\* Mutant of Save: the test of the error is inverted.
SaveInverted(r) ==
    /\ pc[r] = "save"
    /\ \E f \in Outcome :
        /\ IF f = "ok" THEN Written(r) ELSE NotWritten
        /\ Goto(r, IF f = "ok" THEN "refused" ELSE "granted")
        /\ Report(r, f)
    /\ UNCHANGED <<override, flag, changes, req, policy, chosen, via, held, tries, late,
                   page, accepted, policies, flags, moved>>

\* SessionManager.Save.  go-redis may send the MULTI again, and the copy whose
\* reply was lost may still reach Redis.
Save(r) ==
    /\ pc[r] = "save"
    /\ \E f \in Outcome :
        /\ IF f = "ok" THEN Written(r) ELSE NotWritten
        /\ late' = [late EXCEPT ![r] = IF f = "late" THEN @ + 1 ELSE @]
        /\ Report(r, f)
        /\ \/ /\ Goto(r, IF f = "ok" THEN "granted" ELSE "refused")
              /\ UNCHANGED tries
           \/ /\ f # "ok" /\ tries[r] < MaxRetries
              /\ tries' = [tries EXCEPT ![r] = @ + 1]
              /\ UNCHANGED pc
    /\ UNCHANGED <<override, flag, changes, req, policy, chosen, via, held, page,
                   accepted, policies, flags, moved>>

\* Redis executes a MULTI its sender no longer waits for.
LateSave(r) ==
    /\ late[r] > 0
    /\ Written(r)
    /\ late' = [late EXCEPT ![r] = @ - 1]
    /\ UNCHANGED <<override, flag, changes, req, pc, local, page, failed, accepted,
                   policies, flags, moved>>

-----------------------------------------------------------------------------
(* The rest of the session store: exported, without a caller in this program. *)

\* GetByIP, first GET: the user an address is mapped to.
FindUser(r) ==
    /\ pc[r] = "byAddr"
    /\ \E f \in Outcome :
        /\ IF f = "ok" /\ index[req[r].addr] # None
           THEN Goto(r, "byUser") /\ via' = [via EXCEPT ![r] = index[req[r].addr]]
           ELSE Goto(r, "absent") /\ UNCHANGED via
        /\ Report(r, f)
    /\ UNCHANGED <<redis, req, policy, chosen, held, tries, page, accepted, policies,
                   flags, moved, stored, last, cut>>

Sought(r) == IF via[r] # None THEN Owner(via[r]) ELSE Me(r)

\* GetByUsername: for a user, as the second GET of GetByIP, as the first command
\* of Delete; Exists asks the same key.
FindSession(r) ==
    /\ pc[r] \in {"byUser", "read"}
    /\ \E f \in Outcome :
        /\ IF f = "ok" /\ sess[Sought(r)] # None
           THEN /\ Goto(r, IF pc[r] = "read" THEN "del" ELSE "found")
                /\ held' = [held EXCEPT ![r] = sess[Sought(r)]]
           ELSE Goto(r, "absent") /\ UNCHANGED held
        /\ Report(r, f)
    /\ UNCHANGED <<redis, req, policy, chosen, via, tries, page, accepted, policies,
                   flags, moved, stored, last, cut>>

\* The MULTI of Delete removes whatever the two keys hold by now.
Delete(r) ==
    /\ pc[r] = "del"
    /\ \E f \in Outcome :
        /\ LET a == req[held[r].login].addr
           IN  \/ /\ f # "unsent"
                  /\ sess' = [sess EXCEPT ![Me(r)] = None]
                  /\ index' = [index EXCEPT ![a] = None]
                  /\ cut' = cut \cup {Me(r), a}
               \/ f = "unsent" /\ UNCHANGED <<sess, index, cut>>
        /\ Goto(r, IF f = "ok" THEN "deleted" ELSE "refused")
        /\ Report(r, f)
    /\ UNCHANGED <<override, flag, saves, late, changes, req, local, page, accepted,
                   policies, flags, moved, stored, last>>

-----------------------------------------------------------------------------
(* The portal server, the operator and the clock.                           *)

\* handleLogin decodes the answer and renders the result or the login page.
ShowPage(r) ==
    /\ page[r] = "waiting" /\ pc[r] \in Answer
    /\ page' = [page EXCEPT ![r] = IF pc[r] = "granted" THEN "success" ELSE "failed"]
    /\ UNCHANGED <<redis, req, pc, local, history>>

\* The post or its answer is lost: "authentication service unavailable".
LosePost(r) ==
    /\ page[r] = "waiting" /\ "broken" \in Fault
    /\ page' = [page EXCEPT ![r] = "failed"]
    /\ \/ UNCHANGED pc
       \/ pc[r] = "posted" /\ Goto(r, "refused")
    /\ UNCHANGED <<redis, req, local, history>>

SetOverride(u, p) ==
    /\ changes < MaxChanges /\ changes' = changes + 1
    /\ override' = [override EXCEPT ![u] = p]
    /\ policies' = [r \in Request |->
                       IF req[r] # None /\ Me(r) = u /\ pc[r] \in {"posted", "override"}
                       THEN policies[r] \cup {p} ELSE policies[r]]
    /\ UNCHANGED <<flag, sess, index, saves, late, req, pc, local, page, failed,
                   accepted, flags, moved, stored, last, cut>>

\* k's key of strategy s is turned on or off.
SetFlag(s, k) ==
    /\ changes < MaxChanges /\ changes' = changes + 1
    /\ flag' = [flag EXCEPT ![s] = IF k \in @ THEN @ \ {k} ELSE @ \cup {k}]
    /\ moved' = [r \in Request |->
                    IF pc[r] = "flagUser" /\ chosen[r] = s THEN moved[r] \cup {k}
                    ELSE moved[r]]
    /\ flags' = [r \in Request |->
                    IF pc[r] = "flagUser" /\ chosen[r] = s
                    THEN flags[r] \cup {\E j \in {All, Me(r)} : j \in flag'[s]}
                    ELSE flags[r]]
    /\ UNCHANGED <<override, sess, index, saves, late, req, pc, local, page, failed,
                   accepted, policies, stored, last, cut>>

Tick ==
    /\ sess' = [u \in User |-> Aged(sess[u])]
    /\ index' = [a \in Addr |-> Aged(index[a])]
    /\ <<sess, index>>' # <<sess, index>>
    /\ UNCHANGED <<override, flag, saves, late, changes, req, pc, local, page, history>>

Handle(r) ==
    \/ Receive(r) \/ Resolve(r) \/ CheckFlag(r) \/ CheckGrant(r)
    \/ Authenticate(r) \/ Save(r)
    \/ FindUser(r) \/ FindSession(r) \/ Delete(r)

Init ==
    /\ override = [u \in User |-> None]
    /\ flag = [s \in Strategy |-> {}]
    /\ sess = [u \in User |-> None]
    /\ index = [a \in Addr |-> None]
    /\ saves = 0 /\ changes = 0
    /\ late = [r \in Request |-> 0]
    /\ req = [r \in Request |-> None]
    /\ pc = [r \in Request |-> "new"]
    /\ policy = [r \in Request |-> None]
    /\ chosen = [r \in Request |-> None]
    /\ via = [r \in Request |-> None]
    /\ held = [r \in Request |-> None]
    /\ tries = [r \in Request |-> 0]
    /\ page = [r \in Request |-> "none"]
    /\ failed = [r \in Request |-> FALSE]
    /\ accepted = {} /\ stored = {}
    /\ policies = [r \in Request |-> {}]
    /\ flags = [r \in Request |-> {}]
    /\ moved = [r \in Request |-> {}]
    /\ last = [k \in User \cup Addr |-> 0]
    /\ cut = {}

Next ==
    \/ \E r \in Request, i \in Input : Submit(r, i)
    \/ \E r \in Request : Handle(r) \/ LateSave(r) \/ ShowPage(r) \/ LosePost(r)
    \/ \E u \in User, p \in Policy \cup {None, Broken} : SetOverride(u, p)
    \/ \E s \in Strategy, k \in User \cup {All} : SetFlag(s, k)
    \/ Tick

Spec == Init /\ [][Next]_vars

-----------------------------------------------------------------------------
TypeOK ==
    /\ override \in [User -> Policy \cup {None, Broken}]
    /\ flag \in [Strategy -> SUBSET (User \cup {All})]
    /\ sess \in [User -> Entry \cup {None}]
    /\ index \in [Addr -> Entry \cup {None}]
    /\ saves \in Nat /\ changes \in 0..MaxChanges
    /\ late \in [Request -> Nat]
    /\ req \in [Request -> Input \cup {None}]
    /\ pc \in [Request -> Command \cup Answer \cup {"new"}]
    /\ policy \in [Request -> Policy \cup {None}]
    /\ chosen \in [Request -> Strategy \cup {None}]
    /\ via \in [Request -> Entry \cup {None}]
    /\ held \in [Request -> Entry \cup {None}]
    /\ tries \in [Request -> 0..MaxRetries]
    /\ page \in [Request -> {"none", "waiting", "success", "failed"}]
    /\ failed \in [Request -> BOOLEAN]
    /\ accepted \in SUBSET Request /\ stored \in SUBSET Request
    /\ policies \in [Request -> SUBSET (Policy \cup {None, Broken})]
    /\ flags \in [Request -> SUBSET BOOLEAN]
    /\ moved \in [Request -> SUBSET (User \cup {All})]
    /\ last \in [User \cup Addr -> Nat]
    /\ cut \in SUBSET (User \cup Addr)

\* A stored session rests on a policy that was in force, or on the default one
\* because the override was none, unreadable or not JSON; on a strategy that
\* policy allows; on a flag that was on while it was checked; and on accepted
\* credentials (SelectAndBuild, PortalAuthHandler).
GrantJustified ==
    \A u \in User : sess[u] # None =>
        LET r == sess[u].login
        IN  /\ Is(r, "login") /\ Me(r) = u /\ r \in accepted
            /\ chosen[r] \in Allowed[policy[r]]
            /\ TRUE \in flags[r]
            /\ \/ policy[r] \in policies[r]
               \/ policy[r] = Default /\ (failed[r] \/ policies[r] \cap {None, Broken} # {})

\* A login is told that its strategy is not open only if it was closed for that
\* user at some moment of the check, or a read failed, or both keys were turned
\* between the two reads of RedisFeatureFlag.Enabled: a user moved from one key
\* to the other is refused although never without a flag.
ClosedExplained ==
    \A r \in Request : pc[r] = "closed" =>
        FALSE \in flags[r] \/ failed[r] \/ {All, Me(r)} \subseteq moved[r]

\* A session whose login was refused by the device exists only if a command to
\* Redis had failed: its Save was executed, or will be, without the handler
\* learning of it.
RefusedSessionExplained ==
    \A u \in User : sess[u] # None /\ pc[sess[u].login] \notin {"save", "granted"}
        => failed[sess[u].login]

\* The two keys of a session agree, lifetime included, unless a later Save wrote
\* one of them or a delete removed it: of the user or, because Delete trusts the
\* address of the session it read, of somebody else on the same address.
KeysAgree ==
    /\ \A u \in User : sess[u] # None =>
        LET a == req[sess[u].login].addr
        IN  index[a] = sess[u] \/ last[a] > sess[u].no \/ a \in cut
    /\ \A a \in Addr : index[a] # None =>
        LET u == Owner(index[a])
        IN  sess[u] = index[a] \/ last[u] > index[a].no \/ u \in cut

\* GetByIP never answers with a session older than the address entry it followed,
\* nor with that of another user than the entry names.
LookupNotOlder ==
    \A r \in Request : pc[r] = "found" /\ via[r] # None =>
        held[r].no >= via[r].no /\ Owner(held[r]) = Owner(via[r])

\* Only a login whose credentials were accepted is ever stored, under its own
\* user and possibly after its client was told that it failed; the success page
\* is shown only for a stored login (PortalAuthHandler, handleLogin).
KeyOf == [r \in Request |-> IF Is(r, "login") THEN Me(r) ELSE None]
Holder == [u \in User |-> IF sess[u] = None THEN None ELSE sess[u].login]
Told == [r \in Request |-> IF page[r] = "success" THEN "yes"
                           ELSE IF page[r] = "failed" THEN "no" ELSE "nothing"]

Registry == INSTANCE LoginRegistry WITH
    Key <- User, Login <- Request, keyOf <- KeyOf, approved <- accepted,
    holder <- Holder, told <- Told
RegistrySpec == Registry!Spec

=============================================================================
