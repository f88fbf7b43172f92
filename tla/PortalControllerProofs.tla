------------------------ MODULE PortalControllerProofs ------------------------
(***************************************************************************)
(* What the session API of the Go controller guarantees for every set of   *)
(* clients, requests and roles, every assignment of ttls to roles and every *)
(* way Redis commands fail.                                                 *)
(*                                                                         *)
(* The argument: a handler at a given command belongs to a given operation *)
(* (Shape), so SET is the only command that makes a login's session live,  *)
(* and only while that login has not gone past it (EndedStaysEnded).  The  *)
(* rest are facts about what a request has seen, which every step that     *)
(* writes Redis preserves because it records what it leaves.               *)
(***************************************************************************)
EXTENDS PortalController, TLAPS

\* The operation a running handler performs is the one its command belongs to,
\* and only requests that arrived have a place in a handler.
Shape ==
    \A r \in Request :
        /\ req[r] = None <=> pc[r] = "new"
        /\ req[r] # None => (req[r].op = "login" <=> req[r].role # None)
        /\ pc[r] = "set" => req[r].op = "login"
        /\ pc[r] \in {"check", "expire"} => req[r].op = "heartbeat"
        /\ pc[r] = "del" => req[r].op = "logout"

\* l is a login, of client m, among the requests rq that have arrived.
LoginOf(rq, l, m) == l # None /\ rq[l] # None /\ rq[l].op = "login" /\ rq[l].mac = m

\* What is stored is the session of a login of that client, or one that the
\* Python controller left; what was read is the session of such a login.
Owned ==
    /\ \A m \in Mac : store[m] # None /\ store[m].login # Plain =>
          LoginOf(req, store[m].login, m)
    /\ \A r \in Request :
        /\ pc[r] = "new" => checked[r] = None /\ got[r] = None
        /\ checked[r] # None => LoginOf(req, checked[r], req[r].mac)
        /\ got[r] # None => LoginOf(req, got[r], req[r].mac)
        /\ pc[r] = "expire" => checked[r] # None

-----------------------------------------------------------------------------
(* Type correctness.                                                        *)

\* What there is to see of a key has its type and names its session.
LEMMA SightType ==
    ASSUME NEW s \in Session \cup {None}
    PROVE  /\ Sight(s) \subseteq Request \cup {None, Plain, Fading}
           /\ Occupant(s) \in Sight(s)
BY DEF Sight, Occupant, Session

\* What a command leaves in Redis, and what the running requests have seen of
\* it, has its type whichever way the command fails.
LEMMA WriteType ==
    ASSUME TypeOK, NEW r \in Request, NEW f, NEW s \in Session \cup {None},
           req[r] \in Input, Shape, req' = req, Write(r, f, s)
    PROVE  /\ store' \in [Mac -> Session \cup {None}]
           /\ seen' \in [Request -> SUBSET (Request \cup {None, Plain, Fading})]
<1>1. store' \in [Mac -> Session \cup {None}]
  BY DEF TypeOK, Write, Input
<1>2. ASSUME NEW q \in Request, Running(q)
      PROVE  Sight(store'[req[q].mac]) \subseteq Request \cup {None, Plain, Fading}
  <2>1. req[q] \in Input
    BY <1>2 DEF TypeOK, Shape, Running, Command
  <2>2. store'[req[q].mac] \in Session \cup {None}
    BY <1>1, <2>1 DEF Input
  <2>. QED
    BY <2>2, SightType
<1>. QED
  BY <1>1, <1>2 DEF TypeOK, Write, Observe

LEMMA ContinueType ==
    ASSUME TypeOK, NEW r \in Request, NEW f, NEW next \in Command \cup Answer,
           Continue(r, f, next)
    PROVE  /\ pc' \in [Request -> Command \cup Answer \cup {"new"}]
           /\ tries' \in [Request -> 0..MaxRetries]
           /\ failed' \in [Request -> BOOLEAN]
BY RetryAssumption DEF TypeOK, Continue

LEMMA RetryType ==
    ASSUME TypeOK, NEW r \in Request, NEW f, Retry(r, f)
    PROVE  /\ pc' \in [Request -> Command \cup Answer \cup {"new"}]
           /\ tries' \in [Request -> 0..MaxRetries]
           /\ failed' \in [Request -> BOOLEAN]
           /\ audit' = audit
BY RetryAssumption DEF TypeOK, Retry

\* Every step leaves every variable with its type; the role whose ttl a command
\* uses is always a role, which is where Shape and Owned are needed.
LEMMA TypeStep ==
    ASSUME TypeOK, Shape, Owned, [Next]_vars
    PROVE  TypeOK'
<1>1. ASSUME NEW r \in Request, NEW i \in Input, Arrive(r, i)
      PROVE  TypeOK'
  <2>1. Sight(store[i.mac]) \subseteq Request \cup {None, Plain, Fading}
    BY SightType DEF TypeOK, Input
  <2>. QED
    BY <1>1, <2>1 DEF Arrive, TypeOK
<1>2. ASSUME NEW r \in Request, SetSession(r)
      PROVE  TypeOK'
  <2>1. req[r] \in Input /\ req[r].role \in Role
    BY <1>2, NoneAssumption DEF SetSession, TypeOK, Shape, Input
  <2>2. Stored(r) \in Session
    BY <2>1, TTLAssumption DEF Stored, Session
  <2>3. PICK f \in Outcome : /\ Write(r, f, Stored(r))
                             /\ \/ Continue(r, f, "get") /\ audit' = [audit EXCEPT ![r] = "ok"]
                                \/ Retry(r, f)
    BY <1>2 DEF SetSession
  <2>4. UNCHANGED <<req, checked, got, told, before>>
    BY <1>2 DEF SetSession
  <2>5. /\ store' \in [Mac -> Session \cup {None}]
        /\ seen' \in [Request -> SUBSET (Request \cup {None, Plain, Fading})]
    BY <2>1, <2>2, <2>3, <2>4, WriteType
  <2>6. /\ pc' \in [Request -> Command \cup Answer \cup {"new"}]
        /\ tries' \in [Request -> 0..MaxRetries]
        /\ failed' \in [Request -> BOOLEAN]
    BY <2>3, ContinueType, RetryType DEF Command
  <2>7. audit' \in [Request -> {"none", "ok", "not_found"}]
    BY <2>3, RetryType DEF TypeOK
  <2>. QED
    BY <2>4, <2>5, <2>6, <2>7 DEF TypeOK
<1>3. ASSUME NEW r \in Request, CheckSession(r)
      PROVE  TypeOK'
  <2>1. req[r] \in Input
    BY <1>3 DEF CheckSession, TypeOK, Shape
  <2>2. Readable(r) => Here(r).login \in Request
    BY <2>1 DEF TypeOK, Here, Input, Session, Readable
  <2>3. PICK f \in Outcome :
          \/ /\ Readable(r)
             /\ checked' = [checked EXCEPT ![r] = Here(r).login]
             /\ Continue(r, f, "expire")
          \/ Continue(r, f, "denied") /\ UNCHANGED checked
    BY <1>3 DEF CheckSession
  <2>4. UNCHANGED <<store, req, got, told, audit, seen, before>>
    BY <1>3 DEF CheckSession
  <2>5. /\ pc' \in [Request -> Command \cup Answer \cup {"new"}]
        /\ tries' \in [Request -> 0..MaxRetries]
        /\ failed' \in [Request -> BOOLEAN]
    BY <2>3, ContinueType DEF Command, Answer
  <2>. QED
    BY <2>2, <2>3, <2>4, <2>5 DEF TypeOK
<1>4. ASSUME NEW r \in Request, Refresh(r)
      PROVE  TypeOK'
  <2>1. req[r] \in Input /\ checked[r] \in Request
    BY <1>4 DEF Refresh, TypeOK, Shape, Owned
  <2>2. req[checked[r]] \in Input /\ req[checked[r]].role \in Role
    BY <1>4, <2>1, NoneAssumption DEF Refresh, TypeOK, Shape, Owned, LoginOf, Input
  <2>3. Here(r) \in Session \cup {None}
    BY <2>1 DEF TypeOK, Here, Input
  <2>4. Expired(Here(r), r) \in Session \cup {None}
    BY <2>2, <2>3, TTLAssumption DEF Expired, RoleOf, Session
  <2>5. PICK f \in Outcome :
          /\ Write(r, f, Expired(Here(r), r))
          /\ \/ /\ Continue(r, f, IF f = "ok" /\ Here(r) # None THEN "get" ELSE "denied")
                /\ UNCHANGED audit
             \/ Retry(r, f)
    BY <1>4 DEF Refresh
  <2>6. UNCHANGED <<req, checked, got, told, before>>
    BY <1>4 DEF Refresh
  <2>7. /\ store' \in [Mac -> Session \cup {None}]
        /\ seen' \in [Request -> SUBSET (Request \cup {None, Plain, Fading})]
    BY <2>1, <2>4, <2>5, <2>6, WriteType
  <2>8. (IF f = "ok" /\ Here(r) # None THEN "get" ELSE "denied") \in Command \cup Answer
    BY DEF Command, Answer
  <2>9. /\ pc' \in [Request -> Command \cup Answer \cup {"new"}]
        /\ tries' \in [Request -> 0..MaxRetries]
        /\ failed' \in [Request -> BOOLEAN]
        /\ audit' = audit
    BY <2>5, <2>8, ContinueType, RetryType
  <2>. QED
    BY <2>6, <2>7, <2>9 DEF TypeOK
<1>5. ASSUME NEW r \in Request, Delete(r)
      PROVE  TypeOK'
  <2>1. req[r] \in Input
    BY <1>5 DEF Delete, TypeOK, Shape
  <2>2. PICK f \in Outcome :
          /\ Write(r, f, None)
          /\ \/ /\ Continue(r, f, "denied")
                /\ audit' = [audit EXCEPT ![r] = IF f = "ok" /\ Here(r) # None
                                                 THEN "ok" ELSE "not_found"]
             \/ Retry(r, f)
    BY <1>5 DEF Delete
  <2>3. UNCHANGED <<req, checked, got, told, before>>
    BY <1>5 DEF Delete
  <2>4. /\ store' \in [Mac -> Session \cup {None}]
        /\ seen' \in [Request -> SUBSET (Request \cup {None, Plain, Fading})]
    BY <2>1, <2>2, <2>3, WriteType
  <2>5. /\ pc' \in [Request -> Command \cup Answer \cup {"new"}]
        /\ tries' \in [Request -> 0..MaxRetries]
        /\ failed' \in [Request -> BOOLEAN]
    BY <2>2, ContinueType, RetryType DEF Answer
  <2>6. audit' \in [Request -> {"none", "ok", "not_found"}]
    BY <2>2, RetryType DEF TypeOK
  <2>. QED
    BY <2>3, <2>4, <2>5, <2>6 DEF TypeOK
<1>6. ASSUME NEW r \in Request, GetSession(r)
      PROVE  TypeOK'
  <2>1. req[r] \in Input
    BY <1>6 DEF GetSession, TypeOK, Shape
  <2>2. Readable(r) => Here(r).login \in Request
    BY <2>1 DEF TypeOK, Here, Input, Session, Readable
  <2>3. PICK f \in Outcome :
          \/ /\ Readable(r)
             /\ got' = [got EXCEPT ![r] = Here(r).login]
             /\ Continue(r, f, "ttl")
          \/ /\ Continue(r, f, "panicked") \/ Continue(r, f, "denied")
             /\ UNCHANGED got
    BY <1>6 DEF GetSession
  <2>4. UNCHANGED <<store, req, checked, told, audit, seen, before>>
    BY <1>6 DEF GetSession
  <2>5. /\ pc' \in [Request -> Command \cup Answer \cup {"new"}]
        /\ tries' \in [Request -> 0..MaxRetries]
        /\ failed' \in [Request -> BOOLEAN]
    BY <2>3, ContinueType DEF Command, Answer
  <2>. QED
    BY <2>2, <2>3, <2>4, <2>5 DEF TypeOK
<1>7. ASSUME NEW r \in Request, ReadTTL(r)
      PROVE  TypeOK'
  <2>1. req[r] \in Input
    BY <1>7 DEF ReadTTL, TypeOK, Shape
  <2>2. Here(r) # None => Rounded(Here(r).ttl) \subseteq Nat
    <3>1. \A n \in Nat : Rounded(n) \subseteq Nat
      BY DEF Rounded
    <3>2. Here(r) # None => Here(r).ttl \in Nat
      BY <2>1 DEF TypeOK, Here, Input, Session
    <3>. QED
      BY <3>1, <3>2
  <2>3. PICK f \in Outcome :
          /\ \E t \in Nat : told' = [told EXCEPT ![r] = t]
          /\ Continue(r, f, "authorized")
    BY <1>7, <2>2 DEF ReadTTL
  <2>4. /\ pc' \in [Request -> Command \cup Answer \cup {"new"}]
        /\ tries' \in [Request -> 0..MaxRetries]
        /\ failed' \in [Request -> BOOLEAN]
    BY <2>3, ContinueType DEF Answer
  <2>. QED
    BY <1>7, <2>2, <2>3, <2>4 DEF TypeOK, ReadTTL
<1>8. ASSUME Tick
      PROVE  TypeOK'
  <2>1. store' \in [Mac -> Session \cup {None}]
    <3>1. ASSUME NEW s \in Session, s.ttl # 0, s.ttl # 1
          PROVE  [login |-> s.login, lease |-> s.lease, ttl |-> s.ttl - 1] \in Session
      BY <3>1 DEF Session
    <3>2. \A s \in Session \cup {None} : Aged(s) \in Session \cup {None}
      BY <3>1 DEF Aged
    <3>. QED
      BY <1>8, <3>2 DEF Tick, TypeOK
  <2>2. ASSUME NEW q \in Request, Running(q)
        PROVE  Sight(store'[req[q].mac]) \subseteq Request \cup {None, Plain, Fading}
    <3>1. req[q] \in Input
      BY <2>2 DEF TypeOK, Shape, Running, Command
    <3>. QED
      BY <2>1, <3>1, SightType DEF Input
  <2>. QED
    BY <1>8, <2>1, <2>2 DEF TypeOK, Tick, Observe
<1>9. CASE Crash
  BY <1>9 DEF Crash, TypeOK, Answer
<1>10. CASE UNCHANGED vars
  BY <1>10 DEF vars, TypeOK
<1>. QED
  BY <1>1, <1>2, <1>3, <1>4, <1>5, <1>6, <1>7, <1>8, <1>9, <1>10 DEF Next, Handle

-----------------------------------------------------------------------------
(* What one step can do to the requests, to Redis and to what was seen.     *)

\* A request that has arrived stays what it is.
LEMMA RequestStays ==
    ASSUME [Next]_vars, NEW q \in Request, TypeOK, req[q] # None
    PROVE  req'[q] = req[q]
<1>1. ASSUME NEW r \in Request, NEW i \in Input, Arrive(r, i)
      PROVE  req'[q] = req[q]
  BY <1>1 DEF Arrive, TypeOK
<1>2. ASSUME NEW r \in Request, Handle(r)
      PROVE  req'[q] = req[q]
  BY <1>2 DEF Handle, SetSession, CheckSession, Refresh, Delete, GetSession, ReadTTL
<1>. QED
  BY <1>1, <1>2 DEF Next, Tick, Crash, vars

\* The value under a client's key stays, is removed, ages, is stored by a login
\* at its SET or gets a new lifetime from a heartbeat at its EXPIRE.
LEMMA StoreStep ==
    ASSUME TypeOK, Shape, [Next]_vars, NEW m \in Mac
    PROVE  \/ store'[m] \in {store[m], None, Aged(store[m])}
           \/ \E r \in Request :
                 /\ pc[r] = "set" /\ req[r].mac = m /\ store'[m] = Stored(r)
           \/ \E r \in Request :
                 /\ pc[r] = "expire" /\ req[r].mac = m
                 /\ store'[m] = Expired(store[m], r)
<1>1. ASSUME NEW r \in Request, NEW i \in Input, Arrive(r, i)
      PROVE  store'[m] = store[m]
  BY <1>1 DEF Arrive
<1>2. ASSUME NEW r \in Request, NEW f, NEW s, Write(r, f, s), store'[m] # store[m]
      PROVE  req[r].mac = m /\ store'[m] = s
  BY <1>2 DEF Write, TypeOK
<1>3. ASSUME NEW r \in Request, SetSession(r), store'[m] # store[m]
      PROVE  pc[r] = "set" /\ req[r].mac = m /\ store'[m] = Stored(r)
  BY <1>2, <1>3 DEF SetSession
<1>4. ASSUME NEW r \in Request, Refresh(r), store'[m] # store[m]
      PROVE  pc[r] = "expire" /\ req[r].mac = m /\ store'[m] = Expired(store[m], r)
  BY <1>2, <1>4 DEF Refresh, Here
<1>5. ASSUME NEW r \in Request, Delete(r), store'[m] # store[m]
      PROVE  store'[m] = None
  BY <1>2, <1>5 DEF Delete
<1>6. ASSUME NEW r \in Request, CheckSession(r) \/ GetSession(r) \/ ReadTTL(r)
      PROVE  store' = store
  BY <1>6 DEF CheckSession, GetSession, ReadTTL
<1>7. ASSUME Tick
      PROVE  store'[m] = Aged(store[m])
  BY <1>7 DEF Tick
<1>8. ASSUME Crash \/ UNCHANGED vars
      PROVE  store' = store
  BY <1>8 DEF Crash, vars
<1>. QED
  BY <1>1, <1>3, <1>4, <1>5, <1>6, <1>7, <1>8 DEF Next, Handle

\* What a request has seen is never forgotten, and a request that is running
\* after a step has seen what the step leaves under its client's key.
LEMMA SeenStep ==
    ASSUME TypeOK, Shape, [Next]_vars, NEW q \in Request, req[q] # None
    PROVE  /\ seen[q] \subseteq seen'[q]
           /\ Running(q) /\ store' # store => Sight(Here(q))' \subseteq seen'[q]
<1>1. CASE Observe
  BY <1>1, RequestStays DEF Observe, TypeOK, Sight, Occupant, Here, Running
<1>2. CASE seen'[q] = seen[q] /\ store' = store
  BY <1>2
<1>3. ASSUME NEW r \in Request, NEW i \in Input, Arrive(r, i)
      PROVE  seen'[q] = seen[q] /\ store' = store
  BY <1>3 DEF Arrive, TypeOK
<1>4. ASSUME NEW r \in Request, Handle(r)
      PROVE  Observe \/ (seen'[q] = seen[q] /\ store' = store)
  BY <1>4 DEF Handle, SetSession, CheckSession, Refresh, Delete, GetSession, ReadTTL, Write
<1>5. Tick => Observe
  BY DEF Tick
<1>6. Crash \/ UNCHANGED vars => seen'[q] = seen[q] /\ store' = store
  BY DEF Crash, vars
<1>. QED
  BY <1>1, <1>2, <1>3, <1>4, <1>5, <1>6 DEF Next

\* A request that arrives has seen what is stored.
LEMMA ArriveSees ==
    ASSUME TypeOK, Shape, [Next]_vars, NEW q \in Request, pc[q] = "new", pc'[q] # "new"
    PROVE  Sight(Here(q))' \subseteq seen'[q]
<1>1. PICK r \in Request, i \in Input : Arrive(r, i)
  <2>1. ASSUME NEW r \in Request, Handle(r)
        PROVE  pc'[q] = "new"
    BY <2>1 DEF Handle, SetSession, CheckSession, Refresh, Delete, GetSession, ReadTTL,
                Continue, Retry, TypeOK
  <2>2. Tick \/ Crash \/ UNCHANGED vars => pc'[q] = "new"
    BY DEF Tick, Crash, vars, Running, Command, TypeOK
  <2>. QED
    BY <2>1, <2>2 DEF Next
<1>2. r = q
  BY <1>1 DEF Arrive, TypeOK
<1>. QED
  BY <1>1, <1>2 DEF Arrive, TypeOK, Here, Sight, Occupant

\* The place a request's handler can move to from its command.
LEMMA PlaceStep ==
    ASSUME TypeOK, Shape, [Next]_vars, NEW q \in Request, pc'[q] # pc[q]
    PROVE  \/ /\ pc[q] = "new" /\ req'[q] \in Input
              /\ <<req'[q].op, pc'[q]>> \in Entry
              /\ req'[q].op = "login" <=> req'[q].role # None
           \/ pc[q] = "set" /\ pc'[q] = "get"
           \/ pc[q] = "check" /\ pc'[q] \in {"expire", "denied"}
           \/ pc[q] = "expire" /\ pc'[q] \in {"get", "denied"}
           \/ pc[q] = "del" /\ pc'[q] = "denied"
           \/ pc[q] = "get" /\ pc'[q] \in {"ttl", "panicked", "denied"}
           \/ pc[q] = "ttl" /\ pc'[q] = "authorized"
           \/ pc[q] \in Command /\ pc'[q] = "aborted"
<1>1. ASSUME NEW r \in Request, NEW i \in Input, Arrive(r, i)
      PROVE  /\ pc[q] = "new" /\ req'[q] \in Input
             /\ <<req'[q].op, pc'[q]>> \in Entry
             /\ req'[q].op = "login" <=> req'[q].role # None
  BY <1>1 DEF Arrive, TypeOK, Shape
<1>2. ASSUME NEW r \in Request, NEW f, NEW next,
             Continue(r, f, next) \/ Retry(r, f)
      PROVE  r = q /\ pc'[q] = next
  BY <1>2 DEF Continue, Retry, TypeOK
<1>3. ASSUME NEW r \in Request, SetSession(r)
      PROVE  pc[q] = "set" /\ pc'[q] = "get"
  BY <1>2, <1>3 DEF SetSession
<1>4. ASSUME NEW r \in Request, CheckSession(r)
      PROVE  pc[q] = "check" /\ pc'[q] \in {"expire", "denied"}
  BY <1>2, <1>4 DEF CheckSession
<1>5. ASSUME NEW r \in Request, Refresh(r)
      PROVE  pc[q] = "expire" /\ pc'[q] \in {"get", "denied"}
  BY <1>2, <1>5 DEF Refresh
<1>6. ASSUME NEW r \in Request, Delete(r)
      PROVE  pc[q] = "del" /\ pc'[q] = "denied"
  BY <1>2, <1>6 DEF Delete
<1>7. ASSUME NEW r \in Request, GetSession(r)
      PROVE  pc[q] = "get" /\ pc'[q] \in {"ttl", "panicked", "denied"}
  BY <1>2, <1>7 DEF GetSession
<1>8. ASSUME NEW r \in Request, ReadTTL(r)
      PROVE  pc[q] = "ttl" /\ pc'[q] = "authorized"
  BY <1>2, <1>8 DEF ReadTTL
<1>9. CASE Tick \/ UNCHANGED vars
  BY <1>9 DEF Tick, vars
<1>10. CASE Crash
  BY <1>10 DEF Crash, TypeOK, Running
<1>. QED
  BY <1>1, <1>3, <1>4, <1>5, <1>6, <1>7, <1>8, <1>9, <1>10 DEF Next, Handle

-----------------------------------------------------------------------------
(* A session that has ended stays ended.                                    *)

\* Only SET, and only that of the login itself, makes a login's session live.
LEMMA EndedStep ==
    ASSUME TypeOK, Shape, Owned, [Next]_vars,
           NEW l \in Request, pc[l] # "set", ~Live(l)
    PROVE  ~Live(l)'
<1>1. ASSUME NEW m \in Mac, Occupant(store[m]) # l
      PROVE  Occupant(store'[m]) # l
  <2>1. CASE store'[m] \in {store[m], None, Aged(store[m])}
    BY <1>1, <2>1, NoneAssumption DEF Aged, Occupant, TypeOK, Session
  <2>2. ASSUME NEW r \in Request, pc[r] = "set", store'[m] = Stored(r)
        PROVE  Occupant(store'[m]) # l
    BY <2>2, NoneAssumption DEF Stored, Occupant
  <2>3. ASSUME NEW r \in Request, store'[m] = Expired(store[m], r)
        PROVE  Occupant(store'[m]) # l
    BY <1>1, <2>3, NoneAssumption DEF Expired, Occupant
  <2>. QED
    BY <2>1, <2>2, <2>3, StoreStep
<1>2. CASE req[l] = None
  <2>1. \A m \in Mac : Occupant(store[m]) # l
    BY <1>2, NoneAssumption, SightAssumption DEF Owned, LoginOf, Occupant
  <2>2. \A m \in Mac : Occupant(store'[m]) # l
    BY <1>1, <2>1
  <2>3. req'[l] \in Input \cup {None}
    BY TypeStep DEF TypeOK
  <2>. QED
    BY <2>2, <2>3 DEF Live, Here, Input
<1>3. CASE req[l] # None
  <2>1. req[l].mac \in Mac /\ req'[l] = req[l]
    BY <1>3, RequestStays DEF TypeOK, Input
  <2>. QED
    BY <1>1, <1>3, <2>1 DEF Live, Here
<1>. QED
  BY <1>2, <1>3

-----------------------------------------------------------------------------
(* The rest of the inductive invariant.                                     *)

\* A request has seen what is stored while it runs, and what it has read.
Watched ==
    \A r \in Request :
        /\ Running(r) => Sight(Here(r)) \subseteq seen[r]
        /\ checked[r] # None => checked[r] \in seen[r]
        /\ got[r] # None => got[r] \in seen[r]
        /\ pc[r] \in {"ttl", "authorized"} => got[r] # None

\* The lifetime of a session was set by its own login, or by a heartbeat of the
\* same client that has gone past its first read and had seen the session.
Leased ==
    \A m \in Mac : store[m] # None =>
        LET h == store[m].lease
            l == store[m].login
        IN  \/ h = l
            \/ /\ h \in Request /\ req[h] # None
               /\ req[h].op = "heartbeat" /\ req[h].mac = m
               /\ pc[h] # "check" /\ checked[h] # None /\ l \in seen[h]

\* The logins a logout counts on are past their SET, and an audit line is only
\* written when the logout is over.
Settled ==
    \A r \in Request :
        /\ \A l \in before[r] : /\ req[l] # None /\ req[r] # None
                                /\ req[l].mac = req[r].mac /\ pc[l] # "set"
        /\ pc[r] \in {"new", "del"} => audit[r] = "none"

\* A key without expiry was set by a login whose role has no ttl: EXPIRE with 0
\* seconds deletes the key, and the Python controller sets none without expiry.
Endless ==
    \A m \in Mac : store[m] # None /\ store[m].ttl = 0 =>
        store[m].login # Plain /\ SessionTTL[RoleOf(store[m].login)] = 0

\* ZeroTTLExplained, with a session that has been stored.
ZeroTold ==
    \A r \in Request : pc[r] = "authorized" /\ told[r] = 0 =>
        \/ failed[r] \/ seen[r] \cap {None, Fading} # {}
        \/ \E l \in seen[r] \cap Request : req[l] # None /\ SessionTTL[RoleOf(l)] = 0

IInv == /\ TypeOK /\ Shape /\ Owned /\ Watched /\ Leased /\ Settled
        /\ LogoutRevokes /\ DenialWitnessed /\ LeaseBounded /\ Endless /\ ZeroTold

LEMMA InitIInv == Init => IInv
<1>. SUFFICES ASSUME Init
     PROVE  IInv
  OBVIOUS
<1>1. store \in [Mac -> Session \cup {None}]
  BY LeftoverAssumption DEF Init, Session
<1>2. \A m \in Mac : store[m] # None => /\ store[m].login = Plain /\ store[m].lease = Plain
                                         /\ store[m].ttl # 0
  BY LeftoverAssumption DEF Init
<1>3. TypeOK
  BY <1>1, RetryAssumption DEF Init, TypeOK
<1>4. Owned /\ Leased /\ LeaseBounded /\ Endless
  BY <1>2 DEF Init, Owned, Leased, LeaseBounded, Endless
<1>5. Shape /\ Watched /\ Settled /\ LogoutRevokes /\ DenialWitnessed /\ ZeroTold
  BY DEF Init, Shape, Watched, Settled, LogoutRevokes, DenialWitnessed, ZeroTold,
         Running, Command
<1>. QED
  BY <1>3, <1>4, <1>5 DEF IInv

\* A request that does not arrive in a step stays unknown.
LEMMA NewStays ==
    ASSUME TypeOK, Shape, [Next]_vars, NEW q \in Request,
           req[q] = None, pc'[q] = pc[q]
    PROVE  req'[q] = None
<1>1. pc[q] = "new"
  BY DEF Shape
<1>2. ASSUME NEW r \in Request, NEW i \in Input, Arrive(r, i)
      PROVE  req'[q] = None
  <2>1. CASE r = q
    BY <1>1, <1>2, <2>1 DEF Arrive, TypeOK, Command
  <2>2. CASE r # q
    BY <1>2, <2>2 DEF Arrive, TypeOK
  <2>. QED
    BY <2>1, <2>2
<1>3. ASSUME NEW r \in Request, Handle(r)
      PROVE  req' = req
  BY <1>3 DEF Handle, SetSession, CheckSession, Refresh, Delete, GetSession, ReadTTL
<1>. QED
  BY <1>2, <1>3 DEF Next, Tick, Crash, vars

LEMMA ShapeStep ==
    ASSUME TypeOK, Shape, [Next]_vars
    PROVE  Shape'
<1>. SUFFICES ASSUME NEW r \in Request
     PROVE  /\ req'[r] = None <=> pc'[r] = "new"
            /\ req'[r] # None => (req'[r].op = "login" <=> req'[r].role # None)
            /\ pc'[r] = "set" => req'[r].op = "login"
            /\ pc'[r] \in {"check", "expire"} => req'[r].op = "heartbeat"
            /\ pc'[r] = "del" => req'[r].op = "logout"
  BY DEF Shape
<1>1. CASE req[r] # None
  BY <1>1, RequestStays, PlaceStep, NoneAssumption DEF Shape, Entry, Command, TypeOK
<1>2. CASE req[r] = None
  <2>1. pc[r] = "new"
    BY <1>2 DEF Shape
  <2>2. CASE pc'[r] = pc[r]
    BY <1>2, <2>1, <2>2, NewStays
  <2>3. CASE pc'[r] # pc[r]
    BY <2>1, <2>3, PlaceStep, NoneAssumption DEF Entry, Command
  <2>. QED
    BY <2>2, <2>3
<1>. QED
  BY <1>1, <1>2

\* What a request reads is the session of a login of its client, and it has
\* seen it; until it arrives it has read nothing.
LEMMA ReadStep ==
    ASSUME TypeOK, Shape, Owned, [Next]_vars, NEW q \in Request
    PROVE  /\ checked'[q] # checked[q] => /\ pc[q] = "check" /\ pc'[q] = "expire"
                                         /\ Readable(q)
                                         /\ checked'[q] = Here(q).login
           /\ got'[q] # got[q] => /\ pc[q] = "get" /\ pc'[q] = "ttl"
                                 /\ Readable(q)
                                 /\ got'[q] = Here(q).login
           /\ pc[q] = "check" /\ pc'[q] = "expire" => checked'[q] = Here(q).login /\ Readable(q)
           /\ pc[q] = "get" /\ pc'[q] = "ttl" => got'[q] = Here(q).login /\ Readable(q)
<1>1. ASSUME NEW r \in Request, CheckSession(r)
      PROVE  /\ got' = got
             /\ r # q => checked'[q] = checked[q] /\ pc'[q] = pc[q]
             /\ pc[r] = "check"
             /\ \/ /\ Readable(r) /\ checked'[r] = Here(r).login
                   /\ pc'[r] = "expire"
                \/ checked' = checked /\ pc'[r] = "denied"
  BY <1>1 DEF CheckSession, Continue, TypeOK
<1>2. ASSUME NEW r \in Request, GetSession(r)
      PROVE  /\ checked' = checked
             /\ r # q => got'[q] = got[q] /\ pc'[q] = pc[q]
             /\ pc[r] = "get"
             /\ \/ /\ Readable(r) /\ got'[r] = Here(r).login
                   /\ pc'[r] = "ttl"
                \/ got' = got /\ pc'[r] \in {"panicked", "denied"}
  BY <1>2 DEF GetSession, Continue, TypeOK
<1>3. ASSUME NEW r \in Request, SetSession(r) \/ Refresh(r) \/ Delete(r) \/ ReadTTL(r)
      PROVE  /\ checked' = checked /\ got' = got
             /\ pc[q] \in {"check", "get"} => pc'[q] = pc[q]
  BY <1>3 DEF SetSession, Refresh, Delete, ReadTTL, Continue, Retry, TypeOK
<1>4. ASSUME NEW r \in Request, NEW i \in Input, Arrive(r, i)
      PROVE  /\ checked' = checked /\ got' = got
             /\ pc[q] \in {"check", "get"} => pc'[q] = pc[q]
  BY <1>4 DEF Arrive, Shape, TypeOK
<1>5. ASSUME Tick \/ Crash \/ UNCHANGED vars
      PROVE  /\ checked' = checked /\ got' = got
             /\ pc'[q] \in {pc[q], "aborted"}
  BY <1>5 DEF Tick, Crash, vars, TypeOK
<1>. QED
  BY <1>1, <1>2, <1>3, <1>4, <1>5 DEF Next, Handle

LEMMA OwnedStep ==
    ASSUME TypeOK, Shape, Owned, [Next]_vars
    PROVE  Owned'
<1>1. \A l \in Request, m \in Mac : LoginOf(req, l, m) => LoginOf(req', l, m)
  BY RequestStays DEF LoginOf
<1>2. ASSUME NEW m \in Mac, store'[m] # None, store'[m].login # Plain
      PROVE  LoginOf(req', store'[m].login, m)
  <2>1. CASE store'[m] \in {store[m], None, Aged(store[m])}
    <3>1. store[m] # None /\ store'[m].login = store[m].login
      BY <1>2, <2>1 DEF Aged
    <3>2. store[m].login \in Request
      BY <1>2, <3>1 DEF TypeOK, Session
    <3>. QED
      BY <1>1, <1>2, <3>1, <3>2 DEF Owned
  <2>2. ASSUME NEW r \in Request, pc[r] = "set", req[r].mac = m, store'[m] = Stored(r)
        PROVE  LoginOf(req', store'[m].login, m)
    <3>1. req[r] # None /\ LoginOf(req, r, m)
      BY <2>2, NoneAssumption DEF Shape, LoginOf
    <3>. QED
      BY <1>1, <2>2, <3>1 DEF Stored
  <2>3. ASSUME NEW r \in Request, store'[m] = Expired(store[m], r)
        PROVE  LoginOf(req', store'[m].login, m)
    <3>1. store[m] # None /\ store'[m].login = store[m].login
      BY <1>2, <2>3 DEF Expired
    <3>2. store[m].login \in Request
      BY <1>2, <3>1 DEF TypeOK, Session
    <3>. QED
      BY <1>1, <1>2, <3>1, <3>2 DEF Owned
  <2>. QED
    BY <2>1, <2>2, <2>3, StoreStep
<1>3. ASSUME NEW r \in Request
      PROVE  /\ pc'[r] = "new" => checked'[r] = None /\ got'[r] = None
             /\ checked'[r] # None => LoginOf(req', checked'[r], req'[r].mac)
             /\ got'[r] # None => LoginOf(req', got'[r], req'[r].mac)
             /\ pc'[r] = "expire" => checked'[r] # None
  <2>1. CASE req[r] = None
    <3>1. pc[r] = "new" /\ checked[r] = None /\ got[r] = None
      BY <2>1 DEF Shape, Owned
    <3>2. checked'[r] = None /\ got'[r] = None
      BY <3>1, ReadStep
    <3>. QED
      BY <3>1, <3>2, PlaceStep DEF Entry
  <2>2. CASE req[r] # None
    <3>1. req[r].mac \in Mac /\ req'[r] = req[r] /\ pc'[r] # "new"
      BY <2>2, RequestStays, ShapeStep DEF TypeOK, Input, Shape
    <3>2. Readable(r) => /\ Here(r).login \in Request
                         /\ LoginOf(req, Here(r).login, req[r].mac)
      BY <3>1 DEF Readable, Here, TypeOK, Session, Owned
    <3>3. checked'[r] # None => checked'[r] \in Request /\ LoginOf(req, checked'[r], req[r].mac)
      BY <3>2, ReadStep DEF Owned, TypeOK
    <3>4. got'[r] # None => got'[r] \in Request /\ LoginOf(req, got'[r], req[r].mac)
      BY <3>2, ReadStep DEF Owned, TypeOK
    <3>5. pc'[r] = "expire" => checked'[r] # None
      BY <3>2, ReadStep, PlaceStep DEF Owned, Entry, Shape, LoginOf
    <3>. QED
      BY <1>1, <3>1, <3>3, <3>4, <3>5
  <2>. QED
    BY <2>1, <2>2
<1>. QED
  BY <1>2, <1>3 DEF Owned

LEMMA WatchedStep ==
    ASSUME TypeOK, Shape, Owned, Watched, [Next]_vars
    PROVE  Watched'
<1>. SUFFICES ASSUME NEW r \in Request
     PROVE  /\ Running(r)' => Sight(Here(r))' \subseteq seen'[r]
            /\ checked'[r] # None => checked'[r] \in seen'[r]
            /\ got'[r] # None => got'[r] \in seen'[r]
            /\ pc'[r] \in {"ttl", "authorized"} => got'[r] # None
  BY DEF Watched
<1>1. CASE req[r] = None
  <2>1. pc[r] = "new" /\ checked[r] = None /\ got[r] = None
    BY <1>1 DEF Shape, Owned
  <2>2. checked'[r] = None /\ got'[r] = None /\ pc'[r] \notin {"ttl", "authorized"}
    BY <2>1, ReadStep, PlaceStep DEF Entry, Command
  <2>3. ASSUME pc'[r] # "new"
        PROVE  Sight(Here(r))' \subseteq seen'[r]
    BY <2>1, <2>3, ArriveSees
  <2>. QED
    BY <2>2, <2>3 DEF Running, Command
<1>2. CASE req[r] # None
  <2>1. req'[r] = req[r] /\ seen[r] \subseteq seen'[r]
    BY <1>2, RequestStays, SeenStep
  <2>2. Running(r)' => Running(r)
    BY <1>2, PlaceStep DEF Running, Command, Shape
  <2>3. Running(r)' => Sight(Here(r))' \subseteq seen'[r]
    <3>1. CASE store' = store
      BY <2>1, <2>2, <3>1 DEF Watched, Here, Sight, Occupant
    <3>2. CASE store' # store
      BY <1>2, <2>2, <3>2, SeenStep
    <3>. QED
      BY <3>1, <3>2
  <2>4. Readable(r) /\ Running(r) => Here(r).login \in seen[r]
    BY DEF Watched, Sight, Occupant, Readable
  <2>5. checked'[r] # None => checked'[r] \in seen'[r]
    BY <2>1, <2>4, ReadStep DEF Watched, Running, Command
  <2>6. got'[r] # None => got'[r] \in seen'[r]
    BY <2>1, <2>4, ReadStep DEF Watched, Running, Command
  <2>7. pc'[r] \in {"ttl", "authorized"} => got'[r] # None
    <3>1. Readable(r) => Here(r).login # None
      <4>1. req[r].mac \in Mac
        BY <1>2 DEF TypeOK, Input
      <4>. QED
        BY <4>1, NoneAssumption DEF Readable, Here, TypeOK, Session
    <3>2. got[r] # None => got'[r] # None
      BY <3>1, ReadStep
    <3>3. pc'[r] = "ttl" /\ pc[r] # "ttl" => got'[r] # None
      BY <1>2, <3>1, ReadStep, PlaceStep DEF Shape
    <3>4. pc'[r] = "authorized" => pc[r] \in {"ttl", "authorized"}
      BY <1>2, PlaceStep DEF Shape
    <3>. QED
      BY <3>2, <3>3, <3>4 DEF Watched
  <2>. QED
    BY <2>3, <2>5, <2>6, <2>7
<1>. QED
  BY <1>1, <1>2

LEMMA LeasedStep ==
    ASSUME TypeOK, Shape, Owned, Watched, Leased, [Next]_vars
    PROVE  Leased'
<1>. SUFFICES ASSUME NEW m \in Mac, store'[m] # None,
                     store'[m].lease # store'[m].login
     PROVE  LET h == store'[m].lease
                l == store'[m].login
            IN  /\ h \in Request /\ req'[h] # None /\ req'[h].op = "heartbeat" /\ req'[h].mac = m
                /\ pc'[h] # "check" /\ checked'[h] # None /\ l \in seen'[h]
  BY DEF Leased
<1>. DEFINE h == store'[m].lease
            l == store'[m].login
<1>1. ASSUME req[h] # None, h \in Request, req[h].op = "heartbeat", req[h].mac = m,
             pc[h] # "check", checked[h] # None, l \in seen[h]
      PROVE  /\ h \in Request /\ req'[h] # None /\ req'[h].op = "heartbeat" /\ req'[h].mac = m
             /\ pc'[h] # "check" /\ checked'[h] # None /\ l \in seen'[h]
  <2>1. req'[h] = req[h] /\ seen[h] \subseteq seen'[h]
    BY <1>1, RequestStays, SeenStep
  <2>2. pc'[h] # "check"
    BY <1>1, PlaceStep DEF Shape
  <2>3. checked'[h] = checked[h]
    BY <1>1, ReadStep
  <2>. QED
    BY <1>1, <2>1, <2>2, <2>3
<1>2. CASE store'[m] \in {store[m], None, Aged(store[m])}
  <2>1. store[m] # None /\ l = store[m].login /\ h = store[m].lease
    BY <1>2 DEF Aged
  <2>. QED
    BY <1>1, <2>1 DEF Leased
<1>3. ASSUME NEW r \in Request, store'[m] = Stored(r)
      PROVE  FALSE
  BY <1>3 DEF Stored
<1>4. ASSUME NEW r \in Request, pc[r] = "expire", req[r].mac = m,
             store'[m] = Expired(store[m], r)
      PROVE  /\ h \in Request /\ req'[h] # None /\ req'[h].op = "heartbeat" /\ req'[h].mac = m
             /\ pc'[h] # "check" /\ checked'[h] # None /\ l \in seen'[h]
  <2>1. h = r /\ store[m] # None /\ l = store[m].login
    BY <1>4 DEF Expired
  <2>2. req[r] # None /\ req[r].op = "heartbeat" /\ checked[r] # None
    BY <1>4 DEF Shape, Owned
  <2>3. l \in seen[r]
    BY <1>4, <2>1 DEF Watched, Running, Command, Here, Sight, Occupant
  <2>. QED
    BY <1>1, <1>4, <2>1, <2>2, <2>3
<1>. QED
  BY <1>2, <1>3, <1>4, StoreStep

LEMMA SettledStep ==
    ASSUME TypeOK, Shape, Settled, [Next]_vars
    PROVE  Settled'
<1>. SUFFICES ASSUME NEW r \in Request
     PROVE  /\ \A l \in before'[r] : /\ req'[l] # None /\ req'[r] # None
                                     /\ req'[l].mac = req'[r].mac /\ pc'[l] # "set"
            /\ pc'[r] \in {"new", "del"} => audit'[r] = "none"
  BY DEF Settled
<1>1. ASSUME NEW l \in Request, req[l] # None, pc[l] # "set"
      PROVE  pc'[l] # "set"
  BY <1>1, PlaceStep DEF Shape
<1>2. ASSUME NEW l \in before[r]
      PROVE  /\ req'[l] # None /\ req'[r] # None
             /\ req'[l].mac = req'[r].mac /\ pc'[l] # "set"
  <2>1. l \in Request
    BY DEF TypeOK
  <2>. QED
    BY <1>1, <2>1, RequestStays DEF Settled
<1>3. ASSUME NEW q \in Request, NEW i \in Input, Arrive(q, i), NEW l \in before'[r]
      PROVE  /\ req'[l] # None /\ req'[r] # None
             /\ req'[l].mac = req'[r].mac /\ pc'[l] # "set"
  <2>1. CASE r = q
    <3>1. /\ l \in Request /\ req[l] # None /\ req[l].mac = i.mac /\ pc[l] # "set"
      BY <1>3, <2>1 DEF Arrive, TypeOK
    <3>2. req'[r] = i
      BY <1>3, <2>1 DEF Arrive, TypeOK
    <3>. QED
      BY <1>1, <3>1, <3>2, RequestStays, NoneAssumption
  <2>2. CASE r # q
    BY <1>2, <1>3, <2>2 DEF Arrive, TypeOK
  <2>. QED
    BY <2>1, <2>2
<1>4. ASSUME NEW q \in Request, Handle(q)
      PROVE  /\ before' = before
             /\ audit'[r] # audit[r] => pc'[r] \notin {"new", "del"}
  BY <1>4 DEF Handle, SetSession, CheckSession, Refresh, Delete, GetSession, ReadTTL,
              Continue, Retry, TypeOK
<1>5. Tick \/ Crash \/ UNCHANGED vars => before' = before /\ audit' = audit
  BY DEF Tick, Crash, vars
<1>6. \A q \in Request, i \in Input : Arrive(q, i) => audit' = audit
  BY DEF Arrive
<1>7. pc'[r] \in {"new", "del"} => pc[r] \in {"new", "del"}
  BY PlaceStep
<1>8. pc'[r] \in {"new", "del"} => audit'[r] = "none"
  BY <1>4, <1>5, <1>6, <1>7 DEF Settled, Next
<1>9. ASSUME NEW l \in before'[r]
      PROVE  /\ req'[l] # None /\ req'[r] # None
             /\ req'[l].mac = req'[r].mac /\ pc'[l] # "set"
  BY <1>2, <1>3, <1>4, <1>5, <1>9 DEF Next
<1>. QED
  BY <1>8, <1>9

\* A logout is audited ok in the step that removes what is stored; after it, no
\* session it had to end can come back.
LEMMA LogoutStep ==
    ASSUME TypeOK, Shape, Owned, Settled, LogoutRevokes, [Next]_vars
    PROVE  LogoutRevokes'
<1>. SUFFICES ASSUME NEW r \in Request, req'[r] # None, req'[r].op = "logout",
                     audit'[r] = "ok", NEW l \in before'[r]
     PROVE  ~Live(l)'
  BY DEF LogoutRevokes
<1>1. CASE before'[r] = before[r] /\ audit'[r] = audit[r] /\ req'[r] = req[r]
  <2>1. l \in Request /\ pc[l] # "set" /\ ~Live(l)
    BY <1>1 DEF LogoutRevokes, Settled, TypeOK
  <2>. QED
    BY <2>1, EndedStep
<1>2. ASSUME NEW q \in Request, NEW i \in Input, Arrive(q, i)
      PROVE  before'[r] = before[r] /\ audit'[r] = audit[r] /\ req'[r] = req[r]
  <2>1. r # q
    BY <1>2 DEF Arrive, Settled, Shape
  <2>. QED
    BY <1>2, <2>1 DEF Arrive, TypeOK
<1>3. CASE Delete(r)
  <2>1. PICK f \in Outcome :
          /\ Write(r, f, None)
          /\ \/ /\ Continue(r, f, "denied")
                /\ audit' = [audit EXCEPT ![r] = IF f = "ok" /\ Here(r) # None
                                                 THEN "ok" ELSE "not_found"]
             \/ Retry(r, f)
    BY <1>3 DEF Delete
  <2>2. audit[r] = "none" /\ UNCHANGED <<req, before>>
    BY <1>3 DEF Delete, Settled
  <2>3. f = "ok"
    BY <2>1, <2>2 DEF Retry, TypeOK
  <2>4. l \in Request /\ req[l] # None /\ req[l].mac = req[r].mac /\ req[r].mac \in Mac
    BY <2>2 DEF Settled, TypeOK, Input
  <2>5. store'[req[r].mac] = None
    BY <2>1, <2>3, <2>4 DEF Write, TypeOK
  <2>. QED
    BY <2>2, <2>4, <2>5, NoneAssumption DEF Live, Here, Occupant
<1>4. ASSUME NEW q \in Request, Handle(q), ~(q = r /\ Delete(q))
      PROVE  before'[r] = before[r] /\ audit'[r] = audit[r] /\ req'[r] = req[r]
  <2>1. req' = req /\ before' = before
    BY <1>4 DEF Handle, SetSession, CheckSession, Refresh, Delete, GetSession, ReadTTL
  <2>2. pc[r] # "set"
    BY <2>1 DEF Shape
  <2>3. audit'[r] = audit[r]
    BY <1>4, <2>2 DEF Handle, SetSession, CheckSession, Refresh, Delete, GetSession,
                      ReadTTL, Retry, TypeOK
  <2>. QED
    BY <2>1, <2>3
<1>5. Tick \/ Crash \/ UNCHANGED vars =>
          before'[r] = before[r] /\ audit'[r] = audit[r] /\ req'[r] = req[r]
  BY DEF Tick, Crash, vars
<1>. QED
  BY <1>1, <1>2, <1>3, <1>4, <1>5 DEF Next, Handle

\* A handler refuses because of what it finds stored, or because of an error.
LEMMA DenialStep ==
    ASSUME TypeOK, Shape, Watched, DenialWitnessed, [Next]_vars
    PROVE  DenialWitnessed'
<1>. SUFFICES ASSUME NEW r \in Request, pc'[r] \in {"denied", "panicked"}, ~failed'[r]
     PROVE  seen'[r] \cap {None, Plain} # {}
  BY DEF DenialWitnessed
<1>0. req[r] # None
  BY PlaceStep DEF Shape, Entry
<1>1. CASE pc'[r] = pc[r] /\ failed'[r] = failed[r]
  BY <1>0, <1>1, SeenStep DEF DenialWitnessed
<1>2. ASSUME ~Readable(r), Running(r)
      PROVE  seen'[r] \cap {None, Plain} # {}
  BY <1>0, <1>2, SeenStep DEF Watched, Sight, Occupant, Readable
<1>3. ASSUME NEW f \in Outcome, NEW next, Continue(r, f, next)
      PROVE  f = "ok" /\ pc'[r] = next
  BY <1>3 DEF Continue, TypeOK
<1>4. ASSUME NEW q \in Request, NEW f, NEW next,
             Continue(q, f, next) \/ Retry(q, f), q # r
      PROVE  pc'[r] = pc[r] /\ failed'[r] = failed[r]
  BY <1>4 DEF Continue, Retry, TypeOK
<1>5. ASSUME NEW q \in Request, Handle(q)
      PROVE  \/ q = r
             \/ pc'[r] = pc[r] /\ failed'[r] = failed[r]
  BY <1>4, <1>5 DEF Handle, SetSession, CheckSession, Refresh, Delete, GetSession, ReadTTL
<1>6. ASSUME CheckSession(r) \/ GetSession(r)
      PROVE  seen'[r] \cap {None, Plain} # {}
  BY <1>2, <1>3, <1>6 DEF CheckSession, GetSession, Running, Command
<1>7. ASSUME Refresh(r)
      PROVE  seen'[r] \cap {None, Plain} # {}
  <2>1. ~ \E f \in Outcome : Retry(r, f)
    BY <1>7 DEF Retry, Refresh
  <2>. QED
    BY <1>2, <1>3, <1>7, <2>1 DEF Refresh, Running, Command, Readable
<1>8. ASSUME Delete(r)
      PROVE  seen'[r] \cap {None, Plain} # {}
  <2>1. ~ \E f \in Outcome : Retry(r, f)
    BY <1>8 DEF Retry, Delete
  <2>2. PICK f \in Outcome : Write(r, f, None) /\ Continue(r, f, "denied")
    BY <1>8, <2>1 DEF Delete
  <2>3. f = "ok" /\ req[r].mac \in Mac /\ req' = req
    BY <1>0, <1>3, <1>8, <2>2 DEF TypeOK, Input, Delete
  <2>4. store'[req[r].mac] = None
    BY <2>2, <2>3 DEF Write, TypeOK
  <2>. QED
    BY <1>8, <2>2, <2>4 DEF Delete, Write, Observe, Running, Command, Sight, Occupant, TypeOK
<1>9. ASSUME SetSession(r) \/ ReadTTL(r)
      PROVE  FALSE
  BY <1>3, <1>9 DEF SetSession, ReadTTL, Retry
<1>10. ASSUME NEW q \in Request, NEW i \in Input, Arrive(q, i)
       PROVE  pc'[r] = pc[r] /\ failed'[r] = failed[r]
  BY <1>0, <1>10 DEF Arrive, TypeOK
<1>11. Tick \/ Crash \/ UNCHANGED vars => pc'[r] = pc[r] /\ failed'[r] = failed[r]
  BY DEF Tick, Crash, vars, TypeOK
<1>. QED
  BY <1>1, <1>5, <1>6, <1>7, <1>8, <1>9, <1>10, <1>11 DEF Next, Handle

\* A lifetime only shrinks between two commands that set it.
LEMMA LeaseStep ==
    ASSUME TypeOK, Shape, Owned, Leased, LeaseBounded, [Next]_vars
    PROVE  LeaseBounded'
<1>. DEFINE Setter(rq, ch, h) == IF rq[h].op = "login" THEN h ELSE ch[h]
            TTLOf(rq, ch, h) == SessionTTL[rq[Setter(rq, ch, h)].role]
<1>. SUFFICES ASSUME NEW m \in Mac, store'[m] # None, store'[m].login # Plain
     PROVE  /\ store'[m].ttl <= TTLOf(req', checked', store'[m].lease)
            /\ store'[m].ttl = 0 <=> TTLOf(req', checked', store'[m].lease) = 0
  BY DEF LeaseBounded, RoleOf
<1>1. ASSUME NEW h \in Request, req[h] # None,
             req[h].op # "login" =>
                pc[h] # "check" /\ checked[h] # None /\ LoginOf(req, checked[h], req[h].mac)
      PROVE  TTLOf(req', checked', h) = TTLOf(req, checked, h)
  <2>1. req'[h] = req[h]
    BY <1>1, RequestStays
  <2>2. CASE req[h].op = "login"
    BY <2>1, <2>2
  <2>3. CASE req[h].op # "login"
    <3>1. checked'[h] = checked[h] /\ checked[h] \in Request
      BY <1>1, <2>3, ReadStep DEF TypeOK
    <3>2. req'[checked[h]] = req[checked[h]]
      BY <1>1, <2>3, <3>1, RequestStays DEF LoginOf
    <3>. QED
      BY <2>1, <3>1, <3>2
  <2>. QED
    BY <2>2, <2>3
<1>2. ASSUME store[m] # None, store[m].login # Plain
      PROVE  LET h == store[m].lease
             IN  /\ h \in Request /\ req[h] # None
                 /\ req[h].op # "login" =>
                       pc[h] # "check" /\ checked[h] # None /\ LoginOf(req, checked[h], req[h].mac)
  <2>1. store[m] \in Session /\ LoginOf(req, store[m].login, m)
    BY <1>2 DEF TypeOK, Owned
  <2>2. CASE store[m].lease = store[m].login
    BY <1>2, <2>1, <2>2 DEF Session, LoginOf
  <2>3. CASE store[m].lease # store[m].login
    BY <1>2, <2>3 DEF Leased, Owned
  <2>. QED
    BY <2>2, <2>3
<1>3. store'[m] \in Session
  BY TypeStep DEF TypeOK
<1>4. CASE store'[m] = store[m] \/ store'[m] = Aged(store[m])
  <2>1. /\ store[m] # None /\ store[m] \in Session /\ store'[m].lease = store[m].lease
        /\ store[m].login # Plain
        /\ store'[m].ttl = store[m].ttl
            \/ (store[m].ttl > 1 /\ store'[m].ttl = store[m].ttl - 1)
    <3>1. store[m] # None /\ store[m] \in Session
      BY <1>4 DEF Aged, TypeOK
    <3>2. CASE store'[m] = store[m]
      BY <3>1, <3>2
    <3>3. CASE store'[m] = Aged(store[m]) /\ store'[m] # store[m]
      <4>1. /\ store[m].ttl # 0 /\ store[m].ttl # 1 /\ store[m].ttl \in Nat
            /\ store'[m] = [login |-> store[m].login, lease |-> store[m].lease,
                            ttl |-> store[m].ttl - 1]
        BY <3>1, <3>3 DEF Aged, Session
      <4>2. /\ store'[m].login = store[m].login /\ store'[m].lease = store[m].lease
            /\ store'[m].ttl = store[m].ttl - 1
        BY <4>1
      <4>. QED
        BY <3>1, <4>1, <4>2
    <3>. QED
      BY <1>4, <3>2, <3>3
  <2>2. TTLOf(req', checked', store'[m].lease) = TTLOf(req, checked, store[m].lease)
    BY <1>1, <1>2, <2>1
  <2>3. /\ store[m].ttl <= TTLOf(req, checked, store[m].lease)
        /\ store[m].ttl = 0 <=> TTLOf(req, checked, store[m].lease) = 0
    BY <2>1 DEF LeaseBounded, RoleOf
  <2>4. TTLOf(req, checked, store[m].lease) \in Nat
    <3>1. PICK s \in Request : /\ s = Setter(req, checked, store[m].lease)
                              /\ req[s] # None /\ req[s].op = "login"
      BY <1>2, <2>1 DEF LoginOf, TypeOK
    <3>2. req[s].role \in Role
      BY <3>1, NoneAssumption DEF TypeOK, Input, Shape
    <3>. QED
      BY <3>1, <3>2, TTLAssumption
  <2>. QED
    BY <2>1, <2>2, <2>3, <2>4 DEF Session
<1>5. ASSUME NEW r \in Request, pc[r] = "set", store'[m] = Stored(r)
      PROVE  store'[m].ttl = TTLOf(req', checked', store'[m].lease)
  <2>1. req[r] # None /\ req[r].op = "login"
    BY <1>5 DEF Shape
  <2>2. store'[m].lease = r /\ store'[m].ttl = SessionTTL[req[r].role]
    BY <1>5 DEF Stored
  <2>. QED
    BY <1>1, <2>1, <2>2
<1>6. ASSUME NEW r \in Request, pc[r] = "expire", store'[m] = Expired(store[m], r)
      PROVE  store'[m].ttl = TTLOf(req', checked', store'[m].lease)
  <2>1. /\ req[r] # None /\ req[r].op = "heartbeat"
        /\ checked[r] # None /\ LoginOf(req, checked[r], req[r].mac)
    BY <1>6 DEF Shape, Owned
  <2>2. store'[m].lease = r /\ store'[m].ttl = SessionTTL[req[checked[r]].role]
    BY <1>6 DEF Expired, RoleOf
  <2>. QED
    BY <1>1, <1>6, <2>1, <2>2
<1>. QED
  BY <1>3, <1>4, <1>5, <1>6, StoreStep DEF Session

LEMMA EndlessStep ==
    ASSUME TypeOK, Shape, Owned, Endless, [Next]_vars
    PROVE  Endless'
<1>. SUFFICES ASSUME NEW m \in Mac, store'[m] # None, store'[m].ttl = 0
     PROVE  store'[m].login # Plain /\ SessionTTL[req'[store'[m].login].role] = 0
  BY DEF Endless, RoleOf
<1>1. CASE store'[m] = store[m] \/ store'[m] = Aged(store[m])
  <2>1. store[m] # None /\ store[m] \in Session
    BY <1>1 DEF Aged, TypeOK
  <2>2. store'[m] = store[m]
    BY <1>1, <2>1 DEF Aged, Session
  <2>3. store[m].login \in Request /\ req[store[m].login] # None
    BY <2>1, <2>2 DEF Session, Owned, LoginOf, Endless
  <2>. QED
    BY <2>1, <2>2, <2>3, RequestStays DEF Endless, RoleOf
<1>2. ASSUME NEW r \in Request, pc[r] = "set", store'[m] = Stored(r)
      PROVE  store'[m].login # Plain /\ SessionTTL[req'[store'[m].login].role] = 0
  <2>1. req[r] # None /\ store'[m].login = r /\ store'[m].ttl = SessionTTL[req[r].role]
    BY <1>2, NoneAssumption DEF Shape, Stored
  <2>. QED
    BY <2>1, RequestStays, SightAssumption
<1>3. ASSUME NEW r \in Request, store'[m] = Expired(store[m], r)
      PROVE  FALSE
  BY <1>3 DEF Expired
<1>. QED
  BY <1>1, <1>2, <1>3, StoreStep

\* The second read of GetSessionFull is the only one that tells a ttl.
LEMMA ToldStep ==
    ASSUME TypeOK, Shape, [Next]_vars, NEW r \in Request, pc'[r] = "authorized"
    PROVE  \/ pc[r] = "authorized" /\ told'[r] = told[r] /\ (failed[r] => failed'[r])
           \/ ReadTTL(r)
<1>1. ASSUME NEW q \in Request, NEW i \in Input, Arrive(q, i)
      PROVE  pc[r] = "authorized" /\ told' = told /\ failed' = failed
  BY <1>1 DEF Arrive, Entry, TypeOK
<1>2. ASSUME NEW q \in Request, ReadTTL(q), q # r
      PROVE  pc[r] = "authorized" /\ told'[r] = told[r] /\ failed'[r] = failed[r]
  BY <1>2 DEF ReadTTL, Continue, TypeOK
<1>3. ASSUME NEW q \in Request,
             SetSession(q) \/ CheckSession(q) \/ Refresh(q) \/ Delete(q) \/ GetSession(q)
      PROVE  pc[r] = "authorized" /\ told' = told /\ (failed[r] => failed'[r])
  BY <1>3 DEF SetSession, CheckSession, Refresh, Delete, GetSession, Continue, Retry, TypeOK
<1>4. CASE Tick \/ Crash \/ UNCHANGED vars
  BY <1>4 DEF Tick, Crash, vars, TypeOK
<1>. QED
  BY <1>1, <1>2, <1>3, <1>4 DEF Next, Handle

LEMMA ZeroStep ==
    ASSUME TypeOK, Shape, Owned, Watched, Endless, ZeroTold, [Next]_vars
    PROVE  ZeroTold'
<1>. DEFINE Zero(l) == l # None /\ req'[l] # None /\ SessionTTL[req'[l].role] = 0
<1>. SUFFICES ASSUME NEW r \in Request, pc'[r] = "authorized", told'[r] = 0
     PROVE  \/ failed'[r] \/ seen'[r] \cap {None, Fading} # {}
            \/ \E l \in seen'[r] \cap Request : Zero(l)
  BY DEF ZeroTold, RoleOf
<1>0. req[r] # None
  BY ToldStep DEF Shape, ReadTTL
<1>1. seen[r] \subseteq seen'[r]
  BY <1>0, SeenStep
<1>2. ASSUME NEW l \in Request, req[l] # None, SessionTTL[RoleOf(l)] = 0
      PROVE  Zero(l)
  BY <1>2, RequestStays, NoneAssumption DEF RoleOf
<1>3. CASE pc[r] = "authorized" /\ told'[r] = told[r] /\ (failed[r] => failed'[r])
  <2>1. \/ failed[r] \/ seen[r] \cap {None, Fading} # {}
        \/ \E l \in seen[r] \cap Request : req[l] # None /\ SessionTTL[RoleOf(l)] = 0
    BY <1>3 DEF ZeroTold
  <2>. HIDE DEF Zero
  <2>. QED
    BY <1>1, <1>2, <1>3, <2>1
<1>4. CASE ReadTTL(r)
  <2>1. PICK f \in Outcome :
          \E t \in IF f = "ok" /\ Here(r) # None THEN Rounded(Here(r).ttl) ELSE {0} :
             /\ told' = [told EXCEPT ![r] = t]
             /\ Continue(r, f, "authorized")
    BY <1>4 DEF ReadTTL
  <2>2. failed'[r] = (failed[r] \/ f # "ok")
    BY <2>1 DEF Continue, TypeOK
  <2>3. Sight(Here(r)) \subseteq seen[r]
    BY <1>4 DEF ReadTTL, Watched, Running, Command
  <2>4. CASE f # "ok"
    BY <2>2, <2>4
  <2>5. CASE Here(r) = None
    BY <1>1, <2>3, <2>5 DEF Sight, Occupant
  <2>6. CASE f = "ok" /\ Here(r) # None
    <3>1. 0 \in Rounded(Here(r).ttl)
      BY <2>1, <2>6 DEF TypeOK
    <3>2. req[r].mac \in Mac
      BY <1>0 DEF TypeOK, Input
    <3>3. Here(r) \in Session
      BY <2>6, <3>2 DEF Here, TypeOK
    <3>4. Here(r).ttl \in {0, 1}
      BY <3>1, <3>3 DEF Rounded, Session
    <3>5. CASE Here(r).ttl = 1
      BY <1>1, <2>3, <2>6, <3>5 DEF Sight
    <3>6. CASE Here(r).ttl = 0
      <4>1. Here(r).login # Plain /\ SessionTTL[RoleOf(Here(r).login)] = 0
        BY <2>6, <3>2, <3>6 DEF Endless, Here
      <4>2. Here(r).login \in Request /\ req[Here(r).login] # None
        BY <2>6, <3>2, <3>3, <4>1 DEF Here, Session, Owned, LoginOf
      <4>3. Zero(Here(r).login)
        BY <1>2, <4>1, <4>2
      <4>4. Here(r).login \in seen'[r] \cap Request
        BY <1>1, <2>3, <2>6, <4>2 DEF Sight, Occupant
      <4>. HIDE DEF Zero
      <4>. QED
        BY <4>3, <4>4
    <3>. QED
      BY <3>4, <3>5, <3>6
  <2>. QED
    BY <2>4, <2>5, <2>6
<1>. QED
  BY <1>3, <1>4, ToldStep

-----------------------------------------------------------------------------
(* The invariant and the theorems.                                          *)

LEMMA NextIInv == IInv /\ [Next]_vars => IInv'
BY TypeStep, ShapeStep, OwnedStep, WatchedStep, LeasedStep, SettledStep,
   LogoutStep, DenialStep, LeaseStep, EndlessStep, ZeroStep
DEF IInv

\* The inductive invariant holds in every reachable state.
THEOREM Inductive == Spec => []IInv
BY InitIInv, NextIInv, PTL DEF Spec

\* Every variable keeps its type, for any clients, requests, roles and faults.
THEOREM TypeCorrect == Spec => []TypeOK
<1>1. IInv => TypeOK
  BY DEF IInv
<1>. QED
  BY Inductive, <1>1, PTL

\* A session that has ended never comes back once its login has gone past
\* SetSession: no heartbeat, retry or failure of Redis revives it.
THEOREM SessionsStayEnded == Spec => EndedStaysEnded
<1>1. IInv /\ [Next]_vars =>
        [\A l \in Request : pc[l] # "set" /\ ~Live(l) => ~Live(l)']_vars
  BY EndedStep DEF IInv
<1>. QED
  BY Inductive, <1>1, PTL DEF Spec, EndedStaysEnded

\* A logout audited ok has ended every session whose login was settled when it
\* arrived, even if Redis commands fail or are sent twice (portalLogout).
THEOREM LogoutEndsSessions == Spec => []LogoutRevokes
<1>1. IInv => LogoutRevokes
  BY DEF IInv
<1>. QED
  BY Inductive, <1>1, PTL

\* An answer that grants access reports a session of that client that was
\* stored while the request ran (portalLogin, portalHeartbeat, portalStatus).
THEOREM GrantsAreWitnessed == Spec => []GrantWitnessed
<1>1. IInv => GrantWitnessed
  BY DEF IInv, TypeOK, GrantWitnessed, Watched, Owned, LoginOf
<1>. QED
  BY Inductive, <1>1, PTL

\* A client is refused without a failure of Redis only if it had no session, or
\* one of the Python controller, at some moment of the request.
THEOREM DenialsAreWitnessed == Spec => []DenialWitnessed
<1>1. IInv => DenialWitnessed
  BY DEF IInv
<1>. QED
  BY Inductive, <1>1, PTL

\* A session has the lifetime of another role only through a heartbeat that had
\* read an earlier session and saw it replaced before its Refresh.
THEOREM LeasesCrossOnlyByRace == Spec => []LeaseCrossedOnlyByRace
<1>1. IInv => LeaseCrossedOnlyByRace
  <2>. SUFFICES ASSUME IInv, NEW m \in Mac, store[m] # None,
                       store[m].lease # store[m].login
       PROVE  LET h == store[m].lease
                  l == store[m].login
              IN  /\ req[h].op = "heartbeat" /\ req[h].mac = m
                  /\ checked[h] \in seen[h]
                  /\ checked[h] # l => l \in seen[h]
    BY DEF LeaseCrossedOnlyByRace
  <2>1. store[m].lease \in Request
    BY DEF IInv, Leased
  <2>. QED
    BY <2>1 DEF IInv, Leased, Watched
<1>. QED
  BY Inductive, <1>1, PTL

\* No session of this controller outlives the ttl of the profile that set its
\* lifetime, and only a role without a ttl yields a session without an end.
THEOREM LeasesAreBounded == Spec => []LeaseBounded
<1>1. IInv => LeaseBounded
  BY DEF IInv
<1>. QED
  BY Inductive, <1>1, PTL

\* A granted answer says ttl 0, which the sync script takes for no session, only if
\* Redis failed, or while the request ran the session ended, was in its last
\* second or had no expiry (GetSessionFull, with the rounding of TTL).
THEOREM ZeroTTLsAreExplained == Spec => []ZeroTTLExplained
<1>1. IInv => ZeroTTLExplained
  BY DEF IInv, ZeroTold, ZeroTTLExplained
<1>. QED
  BY Inductive, <1>1, PTL
=============================================================================
