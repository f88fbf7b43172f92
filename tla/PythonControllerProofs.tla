------------------------ MODULE PythonControllerProofs ------------------------
(***************************************************************************)
(* Proofs about PythonController: its answers and audit lines mean what    *)
(* they say, and it implements LoginRegistry, for any clients, requests,   *)
(* lifetimes and faults.                                                   *)
(***************************************************************************)
EXTENDS PythonController, TLAPS

\* What a request under way has seen includes what is stored now.
Observed == \A r \in Request : Running(r) => Here(r) \in seen[r]

\* A request that has not arrived has left no trace.
Untouched ==
    \A r \in Request : req[r] = None <=> pc[r] = "new"

Traceless ==
    \A r \in Request : req[r] = None =>
        audit[r] = "none" /\ before[r] = {} /\ seen[r] = {}

\* A stored session is that of a login of its client that has passed SETEX.
Begun(l, m) == Is(l, "login") /\ req[l].mac = m /\ l \in stored

StoreNamed ==
    \A m \in Mac, l \in Request : Occupant(store[m]) = l => Begun(l, m)

SeenNamed ==
    \A r, l \in Request, m \in Mac :
        req[r] # None /\ req[r].mac = m /\ (\E s \in seen[r] : Occupant(s) = l)
            => Begun(l, m)

\* Which commands belong to which operation.
Steps ==
    \A r \in Request :
        /\ pc[r] = "setex" => Is(r, "login")
        /\ pc[r] \in {"exists", "expire"} => Is(r, "heartbeat")
        /\ pc[r] = "del" => Is(r, "logout")
        /\ pc[r] \in {"get", "ttl", "authorized"} /\ Is(r, "login") => r \in stored

\* What GET has found was there while the request ran.
Found ==
    \A r \in Request : pc[r] \in {"ttl", "authorized"} =>
        \E s \in seen[r] \ {None} : s.login = got[r]

Counted ==
    \A r \in Request : pc[r] = "authorized" =>
        told[r] > 0 /\ \E s \in seen[r] \ {None} : s.ttl = told[r]

\* A login that was over when a request arrived does not store again.
Past ==
    \A r \in Request : \A l \in before[r] :
        Is(l, "login") /\ pc[l] # "setex"

Inv ==
    /\ TypeOK /\ Observed /\ Untouched /\ Traceless /\ StoreNamed /\ SeenNamed
    /\ Steps /\ Found /\ Counted /\ CrashExplained /\ Past /\ LogoutRevokes

USE NoneAssumption, TTLAssumption, FaultAssumption, OpAssumption, RecordAssumption

LEMMA InitInv == Init => Inv
BY DEF Init, Inv, TypeOK, Observed, Untouched, Traceless, StoreNamed, SeenNamed, Steps,
       Found, Counted, CrashExplained, Past, LogoutRevokes, Running, Command, Answer,
       Occupant, Begun

LEMMA AgedType == ASSUME NEW s \in Session \cup {None} PROVE Aged(s) \in Session \cup {None}
BY DEF Aged, Session

\* A request under way has a client.
LEMMA Arrived ==
    ASSUME TypeOK, Untouched, NEW r \in Request, Running(r)
    PROVE  /\ req[r] \in Input /\ req[r].mac \in Mac /\ req[r].source \in Source
           /\ Here(r) \in Session \cup {None}
<1>1. req[r] # None
  BY DEF Untouched, Running, Command
<1>2. req[r] \in Input
  BY <1>1 DEF TypeOK
<1>3. req[r].mac \in Mac /\ req[r].source \in Source
  BY <1>2 DEF Input
<1>. QED  BY <1>2, <1>3 DEF TypeOK, Here

LEMMA GotoType ==
    ASSUME TypeOK, NEW r \in Request, NEW f, NEW next \in Command \cup Answer, Goto(r, f, next)
    PROVE  pc' \in [Request -> Command \cup Answer \cup {"new"}]
BY DEF TypeOK, Goto, Answer

LEMMA ObserveType ==
    ASSUME TypeOK, Untouched, Observe, store' \in [Mac -> Session \cup {None}]
    PROVE  seen' \in [Request -> SUBSET (Session \cup {None})]
<1>1. ASSUME NEW q \in Request, Running(q) PROVE store'[req[q].mac] \in Session \cup {None}
  BY <1>1, Arrived
<1>2. ASSUME NEW q \in Request PROVE seen[q] \in SUBSET (Session \cup {None})
  BY DEF TypeOK
<1>. QED  BY <1>1, <1>2 DEF Observe

LEMMA WriteType ==
    ASSUME TypeOK, Untouched, NEW r \in Request, NEW f, NEW s \in Session \cup {None},
           Write(r, f, s)
    PROVE  /\ store' \in [Mac -> Session \cup {None}]
           /\ seen' \in [Request -> SUBSET (Session \cup {None})]
<1>1. store' \in [Mac -> Session \cup {None}]
  BY DEF TypeOK, Write
<1>. QED  BY <1>1, ObserveType DEF Write

LEMMA ExtendedType ==
    ASSUME TypeOK, Untouched, NEW r \in Request, Running(r)
    PROVE  Extended(r) \in Session \cup {None}
BY Arrived DEF Extended, Session

LEMMA MissingType ==
    ASSUME NEW r
    PROVE  Missing(r) \in Command \cup Answer /\ Present(r) \in Command \cup Answer
BY DEF Missing, Present, Command, Answer

LEMMA TypeStep == ASSUME TypeOK, Untouched, [Next]_vars PROVE TypeOK'
<1>1. ASSUME NEW r \in Request, NEW i \in Input, Arrive(r, i) PROVE TypeOK'
  <2>1. \A c \in First(i.op) : c \in Command \cup Answer
    BY DEF First, Command, Answer
  <2>. QED  BY <1>1, <2>1 DEF TypeOK, Arrive, Input
<1>2. ASSUME NEW r \in Request, CreateSession(r) PROVE TypeOK'
  <2>. Running(r)
    BY <1>2 DEF CreateSession, Running, Command
  <2>1. PICK f \in Outcome : /\ Write(r, f, [login |-> r, ttl |-> LoginTTL])
                             /\ Goto(r, f, "get") /\ stored' \in {stored, stored \cup {r}}
    BY <1>2 DEF CreateSession
  <2>2. [login |-> r, ttl |-> LoginTTL] \in Session
    BY DEF Session
  <2>3. pc' \in [Request -> Command \cup Answer \cup {"new"}]
    BY <2>1, GotoType DEF Command
  <2>. QED  BY <1>2, <2>1, <2>2, <2>3, WriteType DEF CreateSession, TypeOK
<1>3. ASSUME NEW r \in Request, CheckSession(r) PROVE TypeOK'
  BY <1>3, GotoType DEF CheckSession, TypeOK, Command
<1>4. ASSUME NEW r \in Request, ExtendSession(r) PROVE TypeOK'
  <2>. Running(r)
    BY <1>4 DEF ExtendSession, Running, Command
  <2>1. PICK f \in Outcome : Write(r, f, Extended(r)) /\ Goto(r, f, "get")
    BY <1>4 DEF ExtendSession
  <2>2. pc' \in [Request -> Command \cup Answer \cup {"new"}]
    BY <2>1, GotoType DEF Command
  <2>. QED  BY <1>4, <2>1, <2>2, WriteType, ExtendedType DEF ExtendSession, TypeOK
<1>5. ASSUME NEW r \in Request, GetSession(r) PROVE TypeOK'
  <2>1. Occupant(Here(r)) \in Request \cup {None}
    <3>. Running(r)
      BY <1>5 DEF GetSession, Running, Command
    <3>. QED  BY Arrived DEF Occupant, Session
  <2>2. pc' \in [Request -> Command \cup Answer \cup {"new"}]
    BY <1>5, GotoType, MissingType DEF GetSession, Command
  <2>. QED  BY <1>5, <2>1, <2>2 DEF GetSession, TypeOK
<1>6. ASSUME NEW r \in Request, ReadTTL(r) PROVE TypeOK'
  <2>. DEFINE t == IF Here(r) = None THEN 0 ELSE Here(r).ttl
  <2>1. t \in Nat
    <3>. Running(r)
      BY <1>6 DEF ReadTTL, Running, Command
    <3>. QED  BY Arrived DEF Session
  <2>2. pc' \in [Request -> Command \cup Answer \cup {"new"}]
    <3>1. PICK f \in Outcome : Goto(r, f, IF t = 0 THEN Missing(r) ELSE Present(r))
      BY <1>6 DEF ReadTTL
    <3>. QED  BY <3>1, GotoType, MissingType DEF Command, Answer
  <2>. QED  BY <1>6, <2>1, <2>2 DEF ReadTTL, TypeOK
<1>7. ASSUME NEW r \in Request, DeleteSession(r) PROVE TypeOK'
  <2>. Running(r)
    BY <1>7 DEF DeleteSession, Running, Command
  <2>1. PICK f \in Outcome :
            /\ Write(r, f, None) /\ Goto(r, f, "denied")
            /\ audit' = [audit EXCEPT ![r] =
                 IF f # "ok" THEN @ ELSE IF Here(r) # None THEN "ok" ELSE "not_found"]
    BY <1>7 DEF DeleteSession
  <2>2. pc' \in [Request -> Command \cup Answer \cup {"new"}]
    BY <2>1, GotoType DEF Answer
  <2>3. audit' \in [Request -> {"none", "ok", "not_found"}]
    BY <2>1 DEF TypeOK
  <2>. QED  BY <1>7, <2>1, <2>2, <2>3, WriteType DEF DeleteSession, TypeOK
<1>8. CASE Tick
  <2>1. store' \in [Mac -> Session \cup {None}]
    BY <1>8, AgedType DEF Tick, TypeOK
  <2>. QED  BY <1>8, <2>1, ObserveType DEF Tick, TypeOK
<1>9. CASE UNCHANGED vars
  BY <1>9 DEF vars, TypeOK
<1>. QED  BY <1>1, <1>2, <1>3, <1>4, <1>5, <1>6, <1>7, <1>8, <1>9 DEF Next, Handle

-----------------------------------------------------------------------------
(* What a step does to the parts of the state.                              *)

Later == (Command \ {"setex"}) \cup Answer

LEMMA GotoFlow ==
    ASSUME NEW r, NEW f, NEW next \in Later, Goto(r, f, next)
    PROVE  \E n \in Later : pc' = [pc EXCEPT ![r] = n]
BY DEF Goto, Later, Answer

\* A handler moves its own request on, and never back to SETEX.
LEMMA Flow ==
    ASSUME NEW r \in Request, Handle(r)
    PROVE  /\ Running(r) /\ req' = req /\ before' = before /\ stored \subseteq stored'
           /\ \E n \in Later : pc' = [pc EXCEPT ![r] = n]
           /\ audit' = audit \/ \E a : audit' = [audit EXCEPT ![r] = a]
<1>1. CASE CreateSession(r)
  <2>1. \E n \in Later : pc' = [pc EXCEPT ![r] = n]
    BY <1>1, GotoFlow DEF CreateSession, Later, Command
  <2>. QED  BY <1>1, <2>1 DEF CreateSession, Running, Command
<1>2. CASE CheckSession(r)
  <2>1. \E n \in Later : pc' = [pc EXCEPT ![r] = n]
    BY <1>2, GotoFlow DEF CheckSession, Later, Command
  <2>. QED  BY <1>2, <2>1 DEF CheckSession, Running, Command
<1>3. CASE ExtendSession(r)
  <2>1. \E n \in Later : pc' = [pc EXCEPT ![r] = n]
    BY <1>3, GotoFlow DEF ExtendSession, Later, Command
  <2>. QED  BY <1>3, <2>1 DEF ExtendSession, Running, Command
<1>4. CASE GetSession(r)
  <2>1. \E n \in Later : pc' = [pc EXCEPT ![r] = n]
    BY <1>4, GotoFlow DEF GetSession, Missing, Later, Command, Answer
  <2>. QED  BY <1>4, <2>1 DEF GetSession, Running, Command
<1>5. CASE ReadTTL(r)
  <2>1. \E n \in Later : pc' = [pc EXCEPT ![r] = n]
    BY <1>5, GotoFlow DEF ReadTTL, Missing, Present, Later, Command, Answer
  <2>. QED  BY <1>5, <2>1 DEF ReadTTL, Running, Command
<1>6. CASE DeleteSession(r)
  <2>1. \E n \in Later : pc' = [pc EXCEPT ![r] = n]
    BY <1>6, GotoFlow DEF DeleteSession, Later, Answer
  <2>2. \E a : audit' = [audit EXCEPT ![r] = a]
    BY <1>6 DEF DeleteSession
  <2>. QED  BY <1>6, <2>1, <2>2 DEF DeleteSession, Running, Command
<1>. QED  BY <1>1, <1>2, <1>3, <1>4, <1>5, <1>6 DEF Handle

\* A request keeps its input once it has arrived, and its past.
LEMMA Kept ==
    ASSUME TypeOK, Untouched, [Next]_vars, NEW r \in Request, req[r] # None
    PROVE  /\ req'[r] = req[r] /\ before'[r] = before[r]
           /\ pc'[r] # "new" /\ (pc[r] # "setex" => pc'[r] # "setex")
           /\ (Running(r)' => Running(r))
           /\ stored \subseteq stored'
<1>0. pc[r] # "new"
  BY DEF Untouched
<1>1. ASSUME NEW q \in Request, NEW i \in Input, Arrive(q, i)
      PROVE  /\ req'[r] = req[r] /\ before'[r] = before[r] /\ pc'[r] = pc[r]
             /\ stored' = stored
  BY <1>1 DEF Arrive, TypeOK
<1>2. ASSUME NEW q \in Request, Handle(q)
      PROVE  /\ req'[r] = req[r] /\ before'[r] = before[r]
             /\ pc'[r] # "new" /\ (pc[r] # "setex" => pc'[r] # "setex")
             /\ (Running(r)' => Running(r))
             /\ stored \subseteq stored'
  BY <1>0, <1>2, Flow DEF Later, Command, Answer, Running, TypeOK
<1>. QED
  BY <1>0, <1>1, <1>2 DEF Next, vars, Tick, Running

LEMMA Arrives ==
    ASSUME TypeOK, Untouched, [Next]_vars, NEW r \in Request, req[r] = None
    PROVE  \/ /\ req'[r] = None /\ pc'[r] = "new" /\ seen'[r] = seen[r]
              /\ before'[r] = before[r] /\ audit'[r] = audit[r]
           \/ \E i \in Input : Arrive(r, i)
<1>0. pc[r] = "new" /\ ~Running(r)
  BY DEF Untouched, Running, Command
<1>1. ASSUME NEW q \in Request, NEW i \in Input, Arrive(q, i), q # r
      PROVE  /\ req'[r] = None /\ pc'[r] = "new" /\ seen'[r] = seen[r]
             /\ before'[r] = before[r] /\ audit'[r] = audit[r]
  BY <1>0, <1>1 DEF Arrive, TypeOK
<1>2. Observe => seen'[r] = seen[r]
  BY <1>0 DEF Observe
<1>3. ASSUME NEW q \in Request, Handle(q)
      PROVE  /\ req'[r] = None /\ pc'[r] = "new" /\ seen'[r] = seen[r]
             /\ before'[r] = before[r] /\ audit'[r] = audit[r]
  <2>1. q # r
    BY <1>0, <1>3, Flow
  <2>2. seen'[r] = seen[r]
    BY <1>2, <1>3 DEF Handle, CreateSession, CheckSession, ExtendSession, GetSession,
       ReadTTL, DeleteSession, Write
  <2>3. audit'[r] = audit[r]
    BY <1>3, <2>1, Flow DEF TypeOK
  <2>. QED  BY <1>0, <1>3, <2>1, <2>2, <2>3, Flow DEF TypeOK
<1>. QED
  BY <1>0, <1>1, <1>2, <1>3 DEF Next, vars, Tick

\* EXPIRE, DEL and the clock leave the session that is there, or none.
LEMMA Losing ==
    ASSUME TypeOK, Untouched, NEW m \in Mac,
           Tick \/ \E r \in Request : ExtendSession(r) \/ DeleteSession(r)
    PROVE  Occupant(store'[m]) \in {None, Occupant(store[m])}
<1>1. store[m] \in Session \cup {None}
  BY DEF TypeOK
<1>2. ASSUME NEW r \in Request, ExtendSession(r)
      PROVE  Occupant(store'[m]) \in {None, Occupant(store[m])}
  <2>1. Running(r)
    BY <1>2 DEF ExtendSession, Running, Command
  <2>2. PICK f \in Outcome : Write(r, f, Extended(r))
    BY <1>2 DEF ExtendSession
  <2>3. Occupant(Extended(r)) \in {None, Occupant(Here(r))}
    <3>1. CASE Here(r) = None \/ Policy[req[r].source] = 0
      BY <3>1 DEF Extended, Occupant
    <3>2. CASE Here(r) # None /\ Policy[req[r].source] # 0
      <4>1. Extended(r) = [login |-> Here(r).login, ttl |-> Policy[req[r].source]]
        BY <3>2 DEF Extended
      <4>2. Extended(r) # None
        BY <2>1, <3>2, <4>1, Arrived DEF Session
      <4>. QED  BY <3>2, <4>1, <4>2 DEF Occupant
    <3>. QED  BY <3>1, <3>2
  <2>4. store'[m] = store[m] \/ (store'[m] = Extended(r) /\ Here(r) = store[m])
    <3>1. m # req[r].mac => store'[m] = store[m]
      BY <2>2 DEF Write, TypeOK
    <3>2. m = req[r].mac => store' = store \/ store'[m] = Extended(r)
      BY <2>2 DEF Write, TypeOK
    <3>. QED  BY <3>1, <3>2 DEF Here
  <2>. QED  BY <2>3, <2>4
<1>3. ASSUME NEW r \in Request, DeleteSession(r)
      PROVE  store'[m] = store[m] \/ store'[m] = None
  <2>1. PICK f \in Outcome : Write(r, f, None)
    BY <1>3 DEF DeleteSession
  <2>. QED  BY <2>1 DEF Write, TypeOK
<1>4. CASE Tick
  <2>1. store'[m] = Aged(store[m])
    BY <1>4 DEF Tick
  <2>2. Occupant(Aged(store[m])) \in {None, Occupant(store[m])}
    BY <1>1 DEF Aged, Occupant
  <2>. QED  BY <2>1, <2>2
<1>5. store'[m] = None => Occupant(store'[m]) = None
  BY DEF Occupant
<1>. QED  BY <1>2, <1>3, <1>4, <1>5

\* What a step leaves under a key: nothing, the session that was there, or that
\* of a login at SETEX.
LEMMA StoreStep ==
    ASSUME TypeOK, Untouched, Steps, [Next]_vars, NEW m \in Mac
    PROVE  \/ Occupant(store'[m]) \in {None, Occupant(store[m])}
           \/ \E r \in Request : /\ pc[r] = "setex" /\ Is(r, "login") /\ req[r].mac = m
                                 /\ Occupant(store'[m]) = r /\ r \in stored'
<1>1. ASSUME NEW r \in Request, CreateSession(r)
      PROVE  \/ store'[m] = store[m]
             \/ /\ pc[r] = "setex" /\ Is(r, "login") /\ req[r].mac = m
                /\ Occupant(store'[m]) = r /\ r \in stored'
  <2>1. pc[r] = "setex" /\ Is(r, "login")
    BY <1>1 DEF CreateSession, Steps
  <2>2. Occupant([login |-> r, ttl |-> LoginTTL]) = r
    BY DEF Session, Occupant
  <2>3. PICK f \in Outcome : /\ Write(r, f, [login |-> r, ttl |-> LoginTTL])
                             /\ stored' = IF f = "unsent" THEN stored ELSE stored \cup {r}
    BY <1>1 DEF CreateSession
  <2>. QED  BY <2>1, <2>2, <2>3 DEF Write, TypeOK
<1>2. CASE store' = store
  BY <1>2
<1>. QED
  BY <1>1, <1>2, Losing
  DEF Next, Handle, vars, Arrive, CheckSession, GetSession, ReadTTL

\* What a step adds to what a request has seen.
LEMMA SeenStep ==
    ASSUME TypeOK, Untouched, Observed, [Next]_vars, NEW r \in Request, req[r] # None
    PROVE  /\ seen[r] \subseteq seen'[r]
           /\ seen'[r] \subseteq seen[r] \cup {store'[req[r].mac]}
           /\ Running(r) => store'[req[r].mac] \in seen'[r]
<1>0. seen[r] \in SUBSET (Session \cup {None})
  BY DEF TypeOK
<1>1. CASE Observe
  BY <1>1 DEF Observe
<1>2. ASSUME NEW q \in Request, NEW i \in Input, Arrive(q, i)
      PROVE  store' = store /\ seen'[r] = seen[r]
  BY <1>2 DEF Arrive, TypeOK
<1>3. CASE store' = store /\ seen'[r] = seen[r]
  BY <1>3 DEF Observed, Here
<1>. QED
  BY <1>1, <1>2, <1>3 DEF Next, Handle, vars, CreateSession, CheckSession, ExtendSession,
     GetSession, ReadTTL, DeleteSession, Tick, Write

-----------------------------------------------------------------------------
(* The invariant is kept.                                                   *)

LEMMA BegunStays ==
    ASSUME TypeOK, Untouched, [Next]_vars, NEW m, NEW l \in Request, Begun(l, m)
    PROVE  Begun(l, m)'
BY Kept DEF Begun, Is

LEMMA StoreNamedStep ==
    ASSUME TypeOK, Untouched, Steps, StoreNamed, [Next]_vars PROVE StoreNamed'
<1>. SUFFICES ASSUME NEW m \in Mac, NEW l \in Request, Occupant(store'[m]) = l
              PROVE  Begun(l, m)'
  BY DEF StoreNamed
<1>1. CASE l = Occupant(store[m])
  BY <1>1, BegunStays DEF StoreNamed
<1>2. CASE pc[l] = "setex" /\ Is(l, "login") /\ req[l].mac = m /\ l \in stored'
  BY <1>2, Kept DEF Begun, Is
<1>. QED  BY <1>1, <1>2, StoreStep

LEMMA SeenNamedStep ==
    ASSUME TypeOK, Untouched, Traceless, Steps, Observed, StoreNamed, SeenNamed, [Next]_vars
    PROVE  SeenNamed'
<1>. SUFFICES ASSUME NEW r \in Request, NEW l \in Request, NEW m \in Mac,
                     req'[r] # None, req'[r].mac = m,
                     \E s \in seen'[r] : Occupant(s) = l
              PROVE  Begun(l, m)'
  BY DEF SeenNamed
<1>0. StoreNamed'
  BY StoreNamedStep
<1>1. CASE req[r] # None
  <2>1. req[r].mac = m
    BY <1>1, Kept
  <2>2. CASE \E s \in seen[r] : Occupant(s) = l
    BY <1>1, <2>1, <2>2, BegunStays DEF SeenNamed
  <2>3. CASE Occupant(store'[m]) = l
    BY <1>0, <2>3 DEF StoreNamed
  <2>. QED  BY <1>1, <2>1, <2>2, <2>3, SeenStep
<1>2. ASSUME NEW i \in Input, Arrive(r, i) PROVE Begun(l, m)'
  <2>1. req'[r] = i /\ seen'[r] = {store'[i.mac]}
    BY <1>2 DEF Arrive, TypeOK
  <2>2. Occupant(store'[m]) = l
    BY <2>1
  <2>. QED  BY <1>0, <2>2 DEF StoreNamed
<1>. QED  BY <1>1, <1>2, Arrives

LEMMA TracesStep ==
    ASSUME TypeOK, Untouched, Traceless, Observed, [Next]_vars
    PROVE  Untouched' /\ Traceless' /\ Observed'
<1>1. ASSUME NEW r \in Request
      PROVE  /\ req'[r] = None <=> pc'[r] = "new"
             /\ req'[r] = None => audit'[r] = "none" /\ before'[r] = {} /\ seen'[r] = {}
             /\ Running(r)' => Here(r)' \in seen'[r]
  <2>1. CASE req[r] # None
    <3>1. req'[r] = req[r] /\ pc'[r] # "new" /\ (Running(r)' => Running(r))
      BY <2>1, Kept
    <3>2. Running(r) => store'[req[r].mac] \in seen'[r]
      BY <2>1, SeenStep
    <3>. QED  BY <2>1, <3>1, <3>2 DEF Here
  <2>2. ASSUME NEW i \in Input, req[r] = None, Arrive(r, i)
        PROVE  req'[r] = i /\ pc'[r] # "new" /\ Here(r)' \in seen'[r]
    BY <2>2 DEF Arrive, TypeOK, First, Here
  <2>3. CASE /\ req[r] = None /\ req'[r] = None /\ pc'[r] = "new" /\ seen'[r] = seen[r]
             /\ before'[r] = before[r] /\ audit'[r] = audit[r]
    BY <2>3 DEF Traceless, Running, Command
  <2>. QED  BY <2>1, <2>2, <2>3, Arrives
<1>. QED  BY <1>1 DEF Untouched, Traceless, Observed

LEMMA PastStep ==
    ASSUME TypeOK, Untouched, Past, [Next]_vars PROVE Past'
<1>. SUFFICES ASSUME NEW r \in Request, NEW l \in before'[r], l \in Request
              PROVE  Is(l, "login")' /\ pc'[l] # "setex"
  <2>1. TypeOK'
    BY TypeStep
  <2>. QED  BY <2>1 DEF Past, TypeOK
<1>1. CASE l \in before[r]
  BY <1>1, Kept DEF Past, Is
<1>2. ASSUME NEW i \in Input, Arrive(r, i) PROVE Is(l, "login")' /\ pc'[l] # "setex"
  <2>1. Is(l, "login") /\ pc[l] # "setex"
    BY <1>2 DEF Arrive, TypeOK
  <2>. QED  BY <2>1, Kept DEF Is
<1>. QED  BY <1>1, <1>2, Kept, Arrives

\* A step moves the program counter of the request that arrives or is handled only.
LEMMA Frame ==
    ASSUME TypeOK, [Next]_vars, NEW r \in Request
    PROVE  \/ pc'[r] = pc[r] /\ got'[r] = got[r] /\ told'[r] = told[r] /\ audit'[r] = audit[r]
           \/ \E i \in Input : Arrive(r, i)
           \/ Handle(r)
<1>1. ASSUME NEW q \in Request, NEW i \in Input, Arrive(q, i), q # r
      PROVE  pc'[r] = pc[r] /\ got'[r] = got[r] /\ told'[r] = told[r] /\ audit'[r] = audit[r]
  BY <1>1 DEF Arrive, TypeOK
<1>2. ASSUME NEW q \in Request, Handle(q), q # r
      PROVE  pc'[r] = pc[r] /\ got'[r] = got[r] /\ told'[r] = told[r] /\ audit'[r] = audit[r]
  <2>1. pc'[r] = pc[r] /\ audit'[r] = audit[r]
    BY <1>2, Flow DEF TypeOK
  <2>2. got'[r] = got[r] /\ told'[r] = told[r]
    BY <1>2 DEF Handle, CreateSession, CheckSession, ExtendSession, GetSession, ReadTTL,
       DeleteSession, TypeOK
  <2>. QED  BY <2>1, <2>2
<1>. QED  BY <1>1, <1>2 DEF Next, vars, Tick

LEMMA FirstFacts ==
    ASSUME NEW i, NEW c \in First(i.op)
    PROVE  /\ c \in {"setex", "exists", "get", "crashed"}
           /\ c = "setex" <=> i.op = "login"
           /\ c = "exists" <=> i.op = "heartbeat"
           /\ c = "crashed" => i.op = "malformed"
BY DEF First

LEMMA MissingFacts ==
    ASSUME NEW r
    PROVE  /\ Missing(r) \in {"crashed", "del", "denied"}
           /\ Missing(r) = "crashed" <=> req[r].op \in {"login", "malformed"}
           /\ Missing(r) = "del" <=> req[r].op = "logout"
BY DEF Missing

LEMMA PresentFacts ==
    ASSUME NEW r
    PROVE  /\ Present(r) \in {"crashed", "del", "authorized"}
           /\ Present(r) = "crashed" <=> req[r].op = "malformed"
           /\ Present(r) = "del" <=> req[r].op = "logout"
BY DEF Present

LEMMA StepsStep ==
    ASSUME TypeOK, Untouched, Steps, [Next]_vars PROVE Steps'
<1>. SUFFICES ASSUME NEW r \in Request
     PROVE  /\ pc'[r] = "setex" => Is(r, "login")'
            /\ pc'[r] \in {"exists", "expire"} => Is(r, "heartbeat")'
            /\ pc'[r] = "del" => Is(r, "logout")'
            /\ pc'[r] \in {"get", "ttl", "authorized"} /\ Is(r, "login")' => r \in stored'
  BY DEF Steps
<1>. DEFINE Right(p, s) == /\ p = "setex" => Is(r, "login")
                           /\ p \in {"exists", "expire"} => Is(r, "heartbeat")
                           /\ p = "del" => Is(r, "logout")
                           /\ p \in {"get", "ttl", "authorized"} /\ Is(r, "login") => r \in s
<1>0. Right(pc[r], stored)
  BY DEF Steps
<1>1. ASSUME NEW i \in Input, Arrive(r, i)
      PROVE  /\ pc'[r] = "setex" => Is(r, "login")'
             /\ pc'[r] \in {"exists", "expire"} => Is(r, "heartbeat")'
             /\ pc'[r] = "del" => Is(r, "logout")'
             /\ pc'[r] \in {"get", "ttl", "authorized"} /\ Is(r, "login")' => r \in stored'
  <2>1. req'[r] = i /\ pc'[r] \in First(i.op) /\ i # None
    BY <1>1 DEF Arrive, TypeOK
  <2>2. ASSUME NEW c \in First(i.op)
        PROVE  /\ c = "setex" <=> i.op = "login"
               /\ c = "exists" <=> i.op = "heartbeat"
               /\ c \in {"setex", "exists", "get", "crashed"}
    BY FirstFacts
  <2>. QED  BY <2>1, <2>2 DEF Is
<1>2. ASSUME Handle(r) PROVE Right(pc'[r], stored')
  <2>1. CASE CreateSession(r)
    <3>1. pc[r] = "setex" /\ Is(r, "login")
      BY <1>0, <2>1 DEF CreateSession
    <3>2. PICK f \in Outcome : /\ Goto(r, f, "get")
                               /\ stored' = IF f = "unsent" THEN stored ELSE stored \cup {r}
      BY <2>1 DEF CreateSession
    <3>3. pc'[r] \in {"get", "error"} /\ (pc'[r] = "get" => r \in stored')
      BY <3>2 DEF Goto, TypeOK
    <3>. QED  BY <3>1, <3>3
  <2>2. CASE CheckSession(r)
    <3>1. pc'[r] \in {"expire", "get", "error"} /\ Is(r, "heartbeat")
      BY <1>0, <2>2 DEF CheckSession, Goto, TypeOK
    <3>. QED  BY <3>1 DEF Is
  <2>3. CASE ExtendSession(r)
    <3>1. pc'[r] \in {"get", "error"} /\ Is(r, "heartbeat")
      BY <1>0, <2>3 DEF ExtendSession, Goto, TypeOK
    <3>. QED  BY <3>1 DEF Is
  <2>4. CASE GetSession(r)
    <3>1. pc[r] = "get" /\ stored' = stored /\ pc'[r] \in {"ttl", "error", Missing(r)}
      BY <2>4 DEF GetSession, Goto, TypeOK
    <3>2. Missing(r) = "del" => Is(r, "logout")
      BY <3>1, MissingFacts DEF Is, Untouched
    <3>. QED  BY <1>0, <3>1, <3>2, MissingFacts
  <2>5. CASE ReadTTL(r)
    <3>1. pc[r] = "ttl" /\ stored' = stored
      BY <2>5 DEF ReadTTL
    <3>2. pc'[r] \in {"error", Missing(r), Present(r)}
      BY <2>5 DEF ReadTTL, Goto, TypeOK
    <3>3. (Missing(r) = "del" \/ Present(r) = "del") => Is(r, "logout")
      BY <3>1, MissingFacts, PresentFacts DEF Is, Untouched
    <3>. QED  BY <1>0, <3>1, <3>2, <3>3, MissingFacts, PresentFacts
  <2>6. CASE DeleteSession(r)
    <3>1. pc'[r] \in {"denied", "error"}
      BY <2>6 DEF DeleteSession, Goto, TypeOK
    <3>. QED  BY <3>1
  <2>. QED  BY <1>2, <2>1, <2>2, <2>3, <2>4, <2>5, <2>6 DEF Handle
<1>3. ASSUME Handle(r) PROVE req' = req
  BY <1>3, Flow
<1>4. CASE req[r] # None /\ pc'[r] = pc[r]
  BY <1>0, <1>4, Kept DEF Is
<1>5. CASE req[r] = None /\ pc'[r] = pc[r]
  BY <1>5 DEF Untouched
<1>. QED  BY <1>1, <1>2, <1>3, <1>4, <1>5, Frame DEF Is

LEMMA FoundStep ==
    ASSUME TypeOK, Untouched, Observed, Found, [Next]_vars PROVE Found'
<1>. SUFFICES ASSUME NEW r \in Request, pc'[r] \in {"ttl", "authorized"}
              PROVE  \E s \in seen'[r] \ {None} : s.login = got'[r]
  BY DEF Found
<1>1. CASE pc[r] \in {"ttl", "authorized"} /\ got'[r] = got[r]
  <2>1. req[r] # None
    BY <1>1 DEF Untouched
  <2>. QED  BY <1>1, <2>1, SeenStep DEF Found
<1>2. ASSUME NEW i \in Input, Arrive(r, i) PROVE FALSE
  <2>1. pc'[r] \in First(i.op)
    BY <1>2 DEF Arrive, TypeOK
  <2>. QED  BY <2>1, FirstFacts
<1>3. CASE GetSession(r)
  <2>1. pc[r] = "get" /\ seen' = seen /\ got'[r] = Occupant(Here(r))
    BY <1>3 DEF GetSession, TypeOK
  <2>2. pc'[r] \in {IF Here(r) # None THEN "ttl" ELSE Missing(r), "error"}
    BY <1>3 DEF GetSession, Goto, TypeOK
  <2>3. Here(r) # None
    BY <2>2, MissingFacts
  <2>4. Here(r) \in seen[r]
    BY <2>1 DEF Observed, Running, Command
  <2>. QED  BY <2>1, <2>3, <2>4 DEF Occupant
<1>4. CASE ReadTTL(r)
  <2>1. pc[r] = "ttl" /\ got'[r] = got[r]
    BY <1>4 DEF ReadTTL
  <2>. QED  BY <1>1, <2>1
<1>5. CASE CreateSession(r) \/ CheckSession(r) \/ ExtendSession(r) \/ DeleteSession(r)
  BY <1>5 DEF CreateSession, CheckSession, ExtendSession, DeleteSession, Goto, TypeOK
<1>. QED  BY <1>1, <1>2, <1>3, <1>4, <1>5, Frame DEF Handle

LEMMA CountedStep ==
    ASSUME TypeOK, Untouched, Observed, Counted, [Next]_vars PROVE Counted'
<1>. SUFFICES ASSUME NEW r \in Request, pc'[r] = "authorized"
              PROVE  told'[r] > 0 /\ \E s \in seen'[r] \ {None} : s.ttl = told'[r]
  BY DEF Counted
<1>1. CASE pc[r] = "authorized" /\ told'[r] = told[r]
  <2>1. req[r] # None
    BY <1>1 DEF Untouched
  <2>. QED  BY <1>1, <2>1, SeenStep DEF Counted
<1>2. ASSUME NEW i \in Input, Arrive(r, i) PROVE FALSE
  <2>1. pc'[r] \in First(i.op)
    BY <1>2 DEF Arrive, TypeOK
  <2>. QED  BY <2>1, FirstFacts
<1>3. CASE ReadTTL(r)
  <2>. DEFINE t == IF Here(r) = None THEN 0 ELSE Here(r).ttl
  <2>1. pc[r] = "ttl" /\ seen' = seen /\ told'[r] = t
    BY <1>3 DEF ReadTTL, TypeOK
  <2>2. pc'[r] \in {IF t = 0 THEN Missing(r) ELSE Present(r), "error"}
    BY <1>3 DEF ReadTTL, Goto, TypeOK
  <2>3. t # 0
    BY <2>2, MissingFacts
  <2>4. Running(r)
    BY <2>1 DEF Running, Command
  <2>5. Here(r) # None /\ t = Here(r).ttl /\ Here(r) \in seen[r]
    BY <2>3, <2>4 DEF Observed
  <2>6. t \in Nat
    BY <2>4, <2>5, Arrived DEF Session
  <2>. HIDE DEF t
  <2>. QED  BY <2>1, <2>3, <2>5, <2>6
<1>4. CASE \/ CreateSession(r) \/ CheckSession(r) \/ ExtendSession(r)
           \/ GetSession(r) \/ DeleteSession(r)
  BY <1>4, MissingFacts
  DEF CreateSession, CheckSession, ExtendSession, GetSession, DeleteSession, Goto, TypeOK
<1>. QED  BY <1>1, <1>2, <1>3, <1>4, Frame DEF Handle

LEMMA CrashStep ==
    ASSUME TypeOK, Untouched, Observed, Steps, CrashExplained, [Next]_vars
    PROVE  CrashExplained'
<1>. SUFFICES ASSUME NEW r \in Request, pc'[r] = "crashed"
              PROVE  \/ Is(r, "malformed")'
                     \/ /\ Is(r, "login")' /\ r \in stored'
                        /\ \E s \in seen'[r] : s = None \/ s.ttl = 0
  BY DEF CrashExplained
<1>1. CASE pc[r] = "crashed"
  <2>1. req[r] # None
    BY <1>1 DEF Untouched
  <2>. QED  BY <1>1, <2>1, SeenStep, Kept DEF CrashExplained, Is
<1>2. ASSUME NEW i \in Input, Arrive(r, i) PROVE Is(r, "malformed")'
  <2>1. req'[r] = i /\ "crashed" \in First(i.op) /\ i # None
    BY <1>2 DEF Arrive, TypeOK
  <2>. QED  BY <2>1, FirstFacts DEF Is
<1>3. CASE GetSession(r)
  <2>1. pc[r] = "get" /\ req' = req /\ seen' = seen /\ stored' = stored
    BY <1>3 DEF GetSession
  <2>2. pc'[r] \in {IF Here(r) # None THEN "ttl" ELSE Missing(r), "error"}
    BY <1>3 DEF GetSession, Goto, TypeOK
  <2>3. Here(r) = None /\ Missing(r) = "crashed"
    BY <2>2
  <2>4. Is(r, "login") \/ Is(r, "malformed")
    BY <2>1, <2>3, MissingFacts DEF Is, Untouched
  <2>5. Here(r) \in seen[r]
    BY <2>1 DEF Observed, Running, Command
  <2>. QED  BY <2>1, <2>3, <2>4, <2>5 DEF Steps, Is
<1>4. CASE ReadTTL(r)
  <2>. DEFINE t == IF Here(r) = None THEN 0 ELSE Here(r).ttl
  <2>1. pc[r] = "ttl" /\ req' = req /\ seen' = seen /\ stored' = stored
    BY <1>4 DEF ReadTTL
  <2>2. pc'[r] \in {IF t = 0 THEN Missing(r) ELSE Present(r), "error"}
    BY <1>4 DEF ReadTTL, Goto, TypeOK
  <2>3. Is(r, "malformed") \/ (t = 0 /\ Missing(r) = "crashed")
    BY <2>1, <2>2, PresentFacts DEF Is, Untouched
  <2>4. Is(r, "login") \/ Is(r, "malformed")
    BY <2>1, <2>3, MissingFacts DEF Is, Untouched
  <2>5. Here(r) \in seen[r]
    BY <2>1 DEF Observed, Running, Command
  <2>6. Is(r, "malformed") \/ Here(r) = None \/ Here(r).ttl = 0
    BY <2>3
  <2>. QED  BY <2>1, <2>4, <2>5, <2>6 DEF Steps, Is
<1>5. CASE \/ CreateSession(r) \/ CheckSession(r) \/ ExtendSession(r) \/ DeleteSession(r)
  BY <1>5 DEF CreateSession, CheckSession, ExtendSession, DeleteSession, Goto, TypeOK
<1>. QED  BY <1>1, <1>2, <1>3, <1>4, <1>5, Frame DEF Handle

LEMMA LogoutStep ==
    ASSUME TypeOK, Untouched, Traceless, Steps, Past, LogoutRevokes, [Next]_vars
    PROVE  LogoutRevokes'
<1>. SUFFICES ASSUME NEW r \in Request, audit'[r] # "none", NEW l, l \in before'[r]
              PROVE  Occupant(store'[req'[r].mac]) # l
  BY DEF LogoutRevokes, Here
<1>0. TypeOK' /\ Past'
  BY TypeStep, PastStep
<1>1. l \in Request
  BY <1>0 DEF TypeOK
<1>2. CASE audit[r] # "none"
  <2>1. req[r] # None
    BY <1>2 DEF Traceless
  <2>2. req'[r] = req[r] /\ l \in before[r]
    BY <2>1, Kept
  <2>3. Occupant(store[req[r].mac]) # l
    BY <1>2, <2>2 DEF LogoutRevokes, Here
  <2>4. req[r].mac \in Mac
    BY <2>1 DEF TypeOK, Input
  <2>5. pc[l] # "setex"
    BY <2>2 DEF Past
  <2>. QED  BY <1>1, <2>2, <2>3, <2>4, <2>5, StoreStep
<1>3. CASE audit[r] = "none"
  <2>1. ASSUME NEW i \in Input, Arrive(r, i) PROVE FALSE
    BY <1>3, <2>1 DEF Arrive
  <2>2. DeleteSession(r)
    BY <1>3, <2>1, Frame
    DEF Handle, CreateSession, CheckSession, ExtendSession, GetSession, ReadTTL
  <2>3. PICK f \in Outcome :
            /\ Write(r, f, None)
            /\ audit' = [audit EXCEPT ![r] =
                 IF f # "ok" THEN @ ELSE IF Here(r) # None THEN "ok" ELSE "not_found"]
    BY <2>2 DEF DeleteSession
  <2>4. f = "ok"
    BY <1>3, <2>3 DEF TypeOK
  <2>5. Running(r)
    BY <2>2 DEF DeleteSession, Running, Command
  <2>6. req[r].mac \in Mac
    BY <2>5, Arrived
  <2>7. req' = req /\ store'[req[r].mac] = None
    BY <2>2, <2>3, <2>4, <2>6 DEF DeleteSession, Write, TypeOK
  <2>. QED  BY <1>1, <2>7 DEF Occupant
<1>. QED  BY <1>2, <1>3

LEMMA InvStep == Inv /\ [Next]_vars => Inv'
<1>. SUFFICES ASSUME Inv, [Next]_vars PROVE Inv'
  OBVIOUS
<1>. USE DEF Inv
<1>1. TypeOK' /\ Untouched' /\ Traceless' /\ Observed'
  BY TypeStep, TracesStep
<1>2. StoreNamed' /\ SeenNamed'
  BY StoreNamedStep, SeenNamedStep
<1>3. Steps' /\ Found' /\ Counted'
  BY StepsStep, FoundStep, CountedStep
<1>4. CrashExplained' /\ Past' /\ LogoutRevokes'
  BY CrashStep, PastStep, LogoutStep
<1>. QED  BY <1>1, <1>2, <1>3, <1>4

LEMMA Invariance == Spec => []Inv
<1>1. Inv /\ [Next]_vars => Inv'
  BY InvStep
<1>. QED  BY <1>1, InitInv, PTL DEF Spec

-----------------------------------------------------------------------------
\* The controller's variables keep their types, whatever Redis loses.
THEOREM TypeCorrect == Spec => []TypeOK
<1>1. Inv => TypeOK
  BY DEF Inv
<1>. QED  BY <1>1, Invariance, PTL

\* An authorized answer names a login of that client and a lifetime that were
\* stored while the request ran (get_session_full).
THEOREM GrantsAreWitnessed == Spec => []GrantWitnessed
<1>1. Inv => GrantWitnessed
  <2>. SUFFICES ASSUME Inv, NEW r \in Request, pc[r] = "authorized"
                PROVE  /\ told[r] > 0
                       /\ \E s \in seen[r] \ {None} :
                             s.login = got[r] /\ req[s.login].mac = req[r].mac
                       /\ \E s \in seen[r] \ {None} : s.ttl = told[r]
    BY DEF GrantWitnessed
  <2>1. req[r] \in Input /\ req[r] # None
    BY DEF Inv, TypeOK, Untouched
  <2>2. PICK s \in seen[r] \ {None} : s.login = got[r]
    BY DEF Inv, Found
  <2>3. s \in Session /\ s.login \in Request /\ Occupant(s) = s.login
    BY <2>2 DEF Inv, TypeOK, Session, Occupant
  <2>4. Begun(s.login, req[r].mac)
    BY <2>1, <2>2, <2>3 DEF Inv, SeenNamed, Input
  <2>. QED  BY <2>2, <2>4 DEF Inv, Counted, Begun
<1>. QED  BY <1>1, Invariance, PTL

\* A handler that fails by itself serves a batch with an entry that has no mac, or
\* is a login whose own stored session was gone, or in its last half second, while
\* it ran (batch_status, portal_login).
THEOREM CrashesAreExplained == Spec => []CrashExplained
<1>1. Inv => CrashExplained
  BY DEF Inv
<1>. QED  BY <1>1, Invariance, PTL

\* A logout that is audited has ended all sessions stored before it for good
\* (portal_logout).
THEOREM LogoutEndsSessions == Spec => []LogoutRevokes
<1>1. Inv => LogoutRevokes
  BY DEF Inv
<1>. QED  BY <1>1, Invariance, PTL

-----------------------------------------------------------------------------
(* The controller implements LoginRegistry.                                 *)

LEMMA RegistryInit == Init => Registry!Init
BY DEF Init, Registry!Init, KeyOf, Approved, Holder, Told, Occupant, Is

\* A handler changes nobody's key and approves nobody.
LEMMA SameInputs ==
    ASSUME req' = req PROVE KeyOf' = KeyOf /\ Approved' = Approved
BY DEF KeyOf, Approved, Is

\* What the client of a login is told when its handler goes on to n.
Heard(r, n) == IF ~Is(r, "login") \/ n \in Command THEN "nothing"
               ELSE IF n = "authorized" THEN "yes" ELSE "no"

LEMMA ToldStep ==
    ASSUME TypeOK, NEW r \in Request, req' = req, NEW n, pc' = [pc EXCEPT ![r] = n]
    PROVE  Told' = [Told EXCEPT ![r] = Heard(r, n)]
BY DEF TypeOK, Told, Heard, Running, Is

LEMMA Untold ==
    ASSUME NEW r \in Request, Running(r)
    PROVE  Told \in [Request -> {"nothing", "yes", "no"}] /\ Told[r] = "nothing"
BY DEF Told

LEMMA SameTold ==
    ASSUME TypeOK, NEW r \in Request, Running(r), req' = req, NEW n,
           pc' = [pc EXCEPT ![r] = n], Heard(r, n) = "nothing"
    PROVE  Told' = Told
<1>1. Told' = [Told EXCEPT ![r] = "nothing"]
  BY ToldStep
<1>. QED  BY <1>1, Untold

\* A login that arrives begins.
LEMMA ArriveRefines ==
    ASSUME TypeOK, Untouched, NEW r \in Request, NEW i \in Input, Arrive(r, i)
    PROVE  [Registry!Next]_Registry!vars
<1>1. /\ req[r] = None /\ req' = [req EXCEPT ![r] = i] /\ i # None /\ i.mac \in Mac
      /\ store' = store /\ stored' = stored
  BY DEF Arrive, Input
<1>2. PICK c \in First(i.op) : pc' = [pc EXCEPT ![r] = c]
  BY DEF Arrive
<1>a. i.op = "login" => c \in Command
  BY FirstFacts DEF Command
<1>3. Told' = Told
  BY <1>1, <1>2, <1>a DEF TypeOK, Told, Is, Running
<1>4. Holder' = Holder
  BY <1>1 DEF Holder
<1>5. CASE i.op = "login"
  <2>1. KeyOf[r] = None
    BY <1>1 DEF KeyOf, Is
  <2>2. KeyOf' = [KeyOf EXCEPT ![r] = i.mac]
    BY <1>1, <1>5 DEF TypeOK, KeyOf, Is
  <2>3. Approved' = Approved \cup {r}
    BY <1>1, <1>5 DEF TypeOK, Approved, Is
  <2>4. Registry!Begin(r, i.mac, TRUE)
    BY <1>1, <1>3, <1>4, <2>1, <2>2, <2>3 DEF Registry!Begin
  <2>. QED  BY <1>1, <2>4 DEF Registry!Next
<1>6. CASE i.op # "login"
  <2>1. KeyOf' = KeyOf /\ Approved' = Approved
    BY <1>1, <1>6 DEF TypeOK, KeyOf, Approved, Is
  <2>. QED  BY <1>1, <1>3, <1>4, <2>1 DEF Registry!vars
<1>. QED  BY <1>5, <1>6

\* The client of a login under way is told.
LEMMA Tells ==
    ASSUME TypeOK, Steps, NEW r \in Request, Running(r), Is(r, "login"), req' = req,
           store' = store, stored' = stored, NEW n, n \notin Command,
           pc' = [pc EXCEPT ![r] = n], n = "authorized" => r \in stored
    PROVE  Registry!Next
<1>1. KeyOf' = KeyOf /\ Approved' = Approved
  BY SameInputs
<1>2. Holder' = Holder
  BY DEF Holder
<1>3. KeyOf[r] # None
  BY DEF KeyOf, Is, TypeOK, Input
<1>4. Heard(r, n) \in {"yes", "no"} /\ (Heard(r, n) = "yes" => r \in stored)
  BY DEF Heard
<1>5. Told' = [Told EXCEPT ![r] = Heard(r, n)] /\ Told[r] = "nothing"
  BY ToldStep, Untold
<1>6. Registry!Tell(r, Heard(r, n))
  BY <1>1, <1>2, <1>3, <1>4, <1>5 DEF Registry!Tell
<1>. QED  BY <1>4, <1>6 DEF Registry!Next

LEMMA Stutters ==
    ASSUME TypeOK, NEW r \in Request, Running(r), req' = req, store' = store,
           stored' = stored, NEW n, pc' = [pc EXCEPT ![r] = n], Heard(r, n) = "nothing"
    PROVE  UNCHANGED Registry!vars
<1>1. KeyOf' = KeyOf /\ Approved' = Approved
  BY SameInputs
<1>2. Holder' = Holder
  BY DEF Holder
<1>. QED  BY <1>1, <1>2, SameTold DEF Registry!vars

\* SETEX stores the login, also when its client is told that it failed.
LEMMA CreateRefines ==
    ASSUME TypeOK, Untouched, Steps, NEW r \in Request, CreateSession(r)
    PROVE  [Registry!Next]_Registry!vars
<1>. DEFINE s == [login |-> r, ttl |-> LoginTTL]
<1>1. Running(r) /\ Is(r, "login") /\ req' = req
  BY DEF CreateSession, Steps, Running, Command
<1>2. PICK f \in Outcome : /\ Write(r, f, s) /\ Goto(r, f, "get")
                           /\ stored' = IF f = "unsent" THEN stored ELSE stored \cup {r}
  BY DEF CreateSession
<1>3. CASE f = "unsent"
  <2>1. store' = store /\ stored' = stored /\ pc' = [pc EXCEPT ![r] = "error"]
    BY <1>2, <1>3 DEF Write, Goto
  <2>. QED  BY <1>1, <2>1, Tells DEF Command
<1>4. CASE f # "unsent"
  <2>1. KeyOf' = KeyOf /\ Approved' = Approved
    BY <1>1, SameInputs
  <2>2. r \in Approved /\ KeyOf[r] = req[r].mac /\ req[r].mac \in Mac
    BY <1>1, Arrived DEF Approved, KeyOf
  <2>3. store' = [store EXCEPT ![req[r].mac] = s] /\ stored' = stored \cup {r}
    BY <1>2, <1>4 DEF Write
  <2>4. Occupant(s) = r
    BY DEF Occupant, Session
  <2>5. Holder' = [Holder EXCEPT ![KeyOf[r]] = r]
    <3>. HIDE DEF s
    <3>. QED  BY <2>2, <2>3, <2>4 DEF Holder, TypeOK
  <2>6. CASE f = "ok"
    <3>1. pc' = [pc EXCEPT ![r] = "get"]
      BY <1>2, <2>6 DEF Goto
    <3>2. Told' = Told
      BY <1>1, <3>1, SameTold DEF Heard, Command
    <3>3. Registry!Store(r, FALSE)
      BY <2>1, <2>2, <2>3, <2>5, <3>2 DEF Registry!Store
    <3>. QED  BY <3>3 DEF Registry!Next
  <2>7. CASE f # "ok"
    <3>1. pc' = [pc EXCEPT ![r] = "error"]
      BY <1>2, <2>7 DEF Goto
    <3>2. Told' = [Told EXCEPT ![r] = "no"] /\ Told[r] = "nothing"
      <4>1. Heard(r, "error") = "no"
        BY <1>1 DEF Heard, Command
      <4>2. Told' = [Told EXCEPT ![r] = Heard(r, "error")]
        BY <1>1, <3>1, ToldStep
      <4>. QED  BY <1>1, <4>1, <4>2, Untold
    <3>3. Registry!Store(r, TRUE)
      BY <2>1, <2>2, <2>3, <2>5, <3>2 DEF Registry!Store
    <3>. QED  BY <3>3 DEF Registry!Next
  <2>. QED  BY <2>6, <2>7
<1>. QED  BY <1>3, <1>4

\* A key that loses its session, or any number of keys.
LEMMA Ends ==
    ASSUME req' = req, stored' = stored, Told' = Told,
           \A m \in Mac : Occupant(store'[m]) \in {None, Occupant(store[m])}
    PROVE  Registry!Next
<1>. DEFINE K == {m \in Mac : Occupant(store'[m]) = None}
<1>1. KeyOf' = KeyOf /\ Approved' = Approved
  BY SameInputs
<1>2. Holder' = [m \in Mac |-> IF m \in K THEN None ELSE Holder[m]]
  BY DEF Holder
<1>3. Registry!End(K)
  BY <1>1, <1>2 DEF Registry!End
<1>4. K \in SUBSET Mac
  OBVIOUS
<1>. HIDE DEF K
<1>. QED  BY <1>3, <1>4 DEF Registry!Next

\* EXPIRE and DEL take sessions away, for requests that are no logins.
LEMMA WriteRefines ==
    ASSUME TypeOK, Untouched, Steps, NEW r \in Request,
           ExtendSession(r) \/ DeleteSession(r)
    PROVE  [Registry!Next]_Registry!vars
<1>1. Running(r) /\ ~Is(r, "login") /\ req' = req /\ stored' = stored
  BY DEF ExtendSession, DeleteSession, Steps, Running, Command, Is
<1>2. \E n : pc' = [pc EXCEPT ![r] = n]
  BY Flow DEF Handle
<1>3. Told' = Told
  BY <1>1, <1>2, SameTold DEF Heard
<1>4. ASSUME NEW m \in Mac PROVE Occupant(store'[m]) \in {None, Occupant(store[m])}
  BY Losing
<1>. QED  BY <1>1, <1>3, <1>4, Ends

\* The first read of a heartbeat tells nobody anything; the reads of a login end
\* in "yes" only for a login that is stored.
LEMMA ReadRefines ==
    ASSUME TypeOK, Untouched, Steps, NEW r \in Request,
           CheckSession(r) \/ GetSession(r) \/ ReadTTL(r)
    PROVE  [Registry!Next]_Registry!vars
<1>1. Running(r) /\ req' = req /\ store' = store /\ stored' = stored
  BY DEF CheckSession, GetSession, ReadTTL, Running, Command
<1>2. PICK n : pc' = [pc EXCEPT ![r] = n]
  BY Flow DEF Handle
<1>3. CASE Heard(r, n) = "nothing"
  BY <1>1, <1>2, <1>3, Stutters
<1>4. CASE Heard(r, n) # "nothing"
  <2>1. Is(r, "login") /\ n \notin Command
    BY <1>4 DEF Heard
  <2>2. n = "authorized" => r \in stored
    <3>1. pc[r] \in {"get", "ttl"} \/ CheckSession(r)
      BY DEF GetSession, ReadTTL
    <3>2. ~CheckSession(r)
      BY <2>1 DEF CheckSession, Steps, Is
    <3>. QED  BY <2>1, <3>1, <3>2 DEF Steps
  <2>. QED  BY <1>1, <1>2, <2>1, <2>2, Tells
<1>. QED  BY <1>3, <1>4

LEMMA TickRefines ==
    ASSUME TypeOK, Untouched, Tick PROVE Registry!Next
<1>1. req' = req /\ stored' = stored /\ pc' = pc
  BY DEF Tick
<1>2. Told' = Told
  BY <1>1 DEF Told, Is, Running
<1>3. ASSUME NEW m \in Mac PROVE Occupant(store'[m]) \in {None, Occupant(store[m])}
  BY Losing
<1>. QED  BY <1>1, <1>2, <1>3, Ends

LEMMA RegistryStep == Inv /\ [Next]_vars => [Registry!Next]_Registry!vars
<1>. SUFFICES ASSUME Inv, [Next]_vars PROVE [Registry!Next]_Registry!vars
  OBVIOUS
<1>0. TypeOK /\ Untouched /\ Steps
  BY DEF Inv
<1>1. ASSUME NEW r \in Request, NEW i \in Input, Arrive(r, i)
      PROVE  [Registry!Next]_Registry!vars
  BY <1>0, <1>1, ArriveRefines
<1>2. ASSUME NEW r \in Request, Handle(r) PROVE [Registry!Next]_Registry!vars
  BY <1>0, <1>2, CreateRefines, WriteRefines, ReadRefines DEF Handle
<1>3. CASE Tick
  BY <1>0, <1>3, TickRefines
<1>4. CASE UNCHANGED vars
  BY <1>4 DEF vars, Registry!vars, KeyOf, Approved, Holder, Told, Is, Running
<1>. QED  BY <1>1, <1>2, <1>3, <1>4 DEF Next

\* The controller keeps what a registry of logins promises: nobody is told that a
\* login succeeded that was not stored, no key holds another client's login
\* (portal_login, create_session), whatever Redis loses.
THEOREM ImplementsRegistry == Spec => RegistrySpec
<1>1. Init => Registry!Init
  BY RegistryInit
<1>2. Inv /\ [Next]_vars => [Registry!Next]_Registry!vars
  BY RegistryStep
<1>. QED  BY <1>1, <1>2, Invariance, PTL DEF Spec, RegistrySpec, Registry!Spec

=============================================================================
