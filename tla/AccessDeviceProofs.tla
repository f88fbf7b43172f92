-------------------------- MODULE AccessDeviceProofs --------------------------
(***************************************************************************)
(* Proofs about AccessDevice: what a stored session rests on, and that the *)
(* device implements LoginRegistry, for any users, policies and faults.    *)
(***************************************************************************)
EXTENDS AccessDevice, TLAPS

\* A call that has not been made has left no trace.
Untouched ==
    \A r \in Request :
        /\ req[r] = None <=> pc[r] = "new"
        /\ req[r] = None => page[r] = "none"

\* What a login has to go through before its credentials are accepted.
Early == {"posted", "override", "flagAll", "flagUser", "auth"}

\* Where a login stands: its policy and strategy are known from the first look at
\* the flag on, and only accepted logins are saved.
StageOf(r) ==
    /\ pc[r] \in Early \cup {"save", "granted"} \/ page[r] # "none" \/ r \in accepted
         => Is(r, "login")
    /\ pc[r] \in Early \cup {"new"} => r \notin accepted
    /\ pc[r] \in {"flagAll", "flagUser", "auth"} \/ r \in accepted
         => policy[r] \in Policy /\ chosen[r] \in Strategy
    /\ pc[r] = "save" \/ late[r] > 0 => r \in accepted
    /\ pc[r] = "granted" => r \in stored

Stages == \A r \in Request : StageOf(r)

\* An entry is that of an accepted login.
Sound(e) == Is(e.login, "login") /\ e.login \in accepted

Named ==
    /\ \A u \in User : sess[u] # None => Sound(sess[u]) /\ Owner(sess[u]) = u
    /\ \A a \in Addr : index[a] # None => Sound(index[a]) /\ req[index[a].login].addr = a
    /\ \A r \in Request : (via[r] # None => Sound(via[r])) /\ (held[r] # None => Sound(held[r]))
    /\ \A r \in Request : pc[r] \in {"del", "found"} => held[r] # None

\* The policy a login goes by, as GrantJustified says it.
PolicyGiven(r) ==
    \/ policy[r] \in policies[r]
    \/ policy[r] = Default /\ (failed[r] \/ policies[r] \cap {None, Broken} # {})

\* What a login rests on by the time it is accepted, and how it gets there.
RestsOn(r) ==
    /\ pc[r] \in {"posted", "override"} => override[Me(r)] \in policies[r]
    /\ pc[r] \in {"flagAll", "flagUser", "auth"} \/ r \in accepted => PolicyGiven(r)
    /\ pc[r] = "flagUser" /\ On(r) => TRUE \in flags[r]
    /\ pc[r] = "auth" \/ r \in accepted =>
          chosen[r] \in Allowed[policy[r]] /\ TRUE \in flags[r]

Rested == \A r \in Request : RestsOn(r)

\* An accepted login is being saved, granted, or has seen a failure.
Failing == \A r \in accepted : pc[r] \in {"save", "granted"} \/ failed[r]

\* What is in the store, or was read from it, was written by a Save that happened.
Numbered ==
    /\ \A u \in User : sess[u] # None => sess[u].no <= saves
    /\ \A a \in Addr : index[a] # None => index[a].no <= saves
    /\ \A r \in Request : via[r] # None => via[r].no <= saves

\* No session of a user is older than an address entry of that user.
NotOlder(e) == sess[Owner(e)] # None => sess[Owner(e)].no >= e.no

Ordered ==
    /\ \A a \in Addr : index[a] # None => NotOlder(index[a])
    /\ \A r \in Request : via[r] # None => NotOlder(via[r])

\* Between the two reads of the flag, if nothing has failed and it was on all the
\* time: the first key was off and the second on, unless they were turned since.
ClosingOf(r) ==
    pc[r] = "flagUser" =>
        \/ FALSE \in flags[r] \/ failed[r]
        \/ /\ On(r)
           /\ All \in flag[chosen[r]] => All \in moved[r]
           /\ Me(r) \notin flag[chosen[r]] => Me(r) \in moved[r]

Closing == \A r \in Request : ClosingOf(r)

Inv ==
    /\ TypeOK /\ Untouched /\ Stages /\ Named /\ Rested /\ Failing
    /\ Numbered /\ Ordered /\ LookupNotOlder /\ KeysAgree
    /\ Closing /\ ClosedExplained

USE NoneAssumption, KeyAssumption, PolicyAssumption, BoundAssumption, FaultAssumption,
    QueryAssumption, OpAssumption, RecordAssumption

-----------------------------------------------------------------------------
(* Types.                                                                   *)

LEMMA AgedType == ASSUME NEW e \in Entry \cup {None} PROVE Aged(e) \in Entry \cup {None}
BY DEF Aged, Entry

\* A call under way has a user and an address.
LEMMA Called ==
    ASSUME TypeOK, Untouched, NEW r \in Request, pc[r] # "new"
    PROVE  /\ req[r] \in Input /\ req[r] # None
           /\ Me(r) \in User /\ req[r].addr \in Addr /\ req[r].query \in Query
<1>1. req[r] \in Input /\ req[r] # None
  BY DEF TypeOK, Untouched
<1>. QED  BY <1>1 DEF Input, Me

LEMMA EntryFacts ==
    ASSUME TypeOK, Untouched, Stages, NEW r \in Request, r \in accepted
    PROVE  /\ [login |-> r, no |-> saves + 1, ttl |-> Lifetime(r)] \in Entry
           /\ req[r] # None /\ Me(r) \in User /\ req[r].addr \in Addr
<1>1. Is(r, "login") /\ policy[r] \in Policy
  BY DEF Stages, StageOf
<1>2. Lifetime(r) \in Nat \ {0}
  BY <1>1 DEF Lifetime
<1>3. req[r] # None /\ pc[r] # "new"
  BY <1>1 DEF Is, Untouched
<1>4. saves + 1 \in Nat
  BY DEF TypeOK
<1>. QED  BY <1>2, <1>3, <1>4, Called DEF Entry

LEMMA WrittenType ==
    ASSUME TypeOK, Untouched, Stages, NEW r \in Request, r \in accepted, Written(r)
    PROVE  /\ sess' \in [User -> Entry \cup {None}]
           /\ index' \in [Addr -> Entry \cup {None}]
           /\ saves' \in Nat /\ stored' \in SUBSET Request
           /\ last' \in [User \cup Addr -> Nat]
           /\ cut' \in SUBSET (User \cup Addr)
<1>. DEFINE e == [login |-> r, no |-> saves + 1, ttl |-> Lifetime(r)]
<1>1. e \in Entry /\ e.no = saves + 1 /\ saves + 1 \in Nat
  BY EntryFacts DEF TypeOK
<1>2. /\ saves' = e.no /\ sess' = [sess EXCEPT ![Me(r)] = e]
      /\ index' = [index EXCEPT ![req[r].addr] = e]
      /\ last' = [k \in User \cup Addr |-> IF k \in {Me(r), req[r].addr} THEN e.no ELSE last[k]]
      /\ cut' = cut \ {Me(r), req[r].addr} /\ stored' = stored \cup {r}
  BY DEF Written
<1>. HIDE DEF e
<1>. QED  BY <1>1, <1>2 DEF TypeOK

LEMMA GotoType ==
    ASSUME TypeOK, NEW r \in Request, NEW n \in Command \cup Answer, Goto(r, n)
    PROVE  pc' \in [Request -> Command \cup Answer \cup {"new"}]
BY DEF TypeOK, Goto

LEMMA ReportType ==
    ASSUME TypeOK, NEW r \in Request, NEW f, Report(r, f)
    PROVE  failed' \in [Request -> BOOLEAN]
BY DEF TypeOK, Report

LEMMA SubmitType ==
    ASSUME TypeOK, NEW r \in Request, NEW i \in Input, Submit(r, i) PROVE TypeOK'
<1>1. i.op \in {"login", "byAddr", "byUser", "delete"} /\ i.user \in User
  BY DEF Input
<1>2. pc' \in [Request -> Command \cup Answer \cup {"new"}]
  <2>1. \E n \in Command : pc' = [pc EXCEPT ![r] = n]
    BY <1>1 DEF Submit, Goto, Command
  <2>. QED  BY <2>1 DEF TypeOK
<1>3. policies' \in [Request -> SUBSET (Policy \cup {None, Broken})]
  BY <1>1 DEF Submit, TypeOK
<1>4. page' \in [Request -> {"none", "waiting", "success", "failed"}]
  BY DEF Submit, TypeOK
<1>. QED  BY <1>2, <1>3, <1>4 DEF Submit, TypeOK, redis, local

\* The outcome f of the override's GET, and the strategy it leads to.
StrategyOf(r, f) == IF Resolved(r, f) = None THEN None ELSE Choice(r, Resolved(r, f))

ResolvedAs(r, f, s) ==
    /\ policy' = [policy EXCEPT ![r] = Resolved(r, f)]
    /\ chosen' = [chosen EXCEPT ![r] = s]
    /\ Goto(r, IF s = None THEN "refused" ELSE "flagAll")
    /\ Report(r, f)

LEMMA ResolveFacts ==
    ASSUME NEW r, Resolve(r) PROVE \E f \in Outcome : ResolvedAs(r, f, StrategyOf(r, f))
BY DEF Resolve, ResolvedAs, StrategyOf

LEMMA ResolveType ==
    ASSUME TypeOK, Untouched, NEW r \in Request, Resolve(r) PROVE TypeOK'
<1>1. pc[r] # "new"
  BY DEF Resolve
<1>2. PICK f \in Outcome : ResolvedAs(r, f, StrategyOf(r, f))
  BY ResolveFacts
<1>3. Resolved(r, f) \in Policy \cup {None}
  BY DEF Resolved, Override
<1>4. StrategyOf(r, f) \in Strategy \cup {None}
  BY <1>1, <1>3, Called DEF StrategyOf, Choice
<1>5. policy' \in [Request -> Policy \cup {None}] /\ chosen' \in [Request -> Strategy \cup {None}]
  BY <1>2, <1>3, <1>4 DEF ResolvedAs, TypeOK
<1>6. pc' \in [Request -> Command \cup Answer \cup {"new"}] /\ failed' \in [Request -> BOOLEAN]
  BY <1>2, GotoType, ReportType DEF ResolvedAs, Command, Answer
<1>. QED  BY <1>5, <1>6 DEF Resolve, TypeOK, redis

LEMMA FlagType ==
    ASSUME TypeOK, NEW r \in Request, CheckFlag(r) \/ CheckGrant(r) PROVE TypeOK'
<1>1. pc' \in [Request -> Command \cup Answer \cup {"new"}] /\ failed' \in [Request -> BOOLEAN]
  BY GotoType, ReportType DEF CheckFlag, CheckGrant, Admitted, Command, Answer
<1>2. flags' \in [Request -> SUBSET BOOLEAN]
  <2>1. On(r) \in BOOLEAN
    BY DEF On
  <2>2. flags' = [flags EXCEPT ![r] = {On(r)}] \/ flags' = flags
    BY DEF CheckFlag, CheckGrant
  <2>. QED  BY <2>1, <2>2 DEF TypeOK
<1>. QED  BY <1>1, <1>2 DEF CheckFlag, CheckGrant, TypeOK, redis, local

LEMMA SaveType ==
    ASSUME TypeOK, Untouched, Stages, NEW r \in Request, Save(r) PROVE TypeOK'
<1>1. r \in accepted
  BY DEF Save, Stages, StageOf
<1>2. PICK f \in Outcome :
        /\ IF f = "ok" THEN Written(r) ELSE NotWritten
        /\ late' = [late EXCEPT ![r] = IF f = "late" THEN @ + 1 ELSE @]
        /\ Report(r, f)
        /\ \/ /\ Goto(r, IF f = "ok" THEN "granted" ELSE "refused")
              /\ UNCHANGED tries
           \/ /\ f # "ok" /\ tries[r] < MaxRetries
              /\ tries' = [tries EXCEPT ![r] = @ + 1]
              /\ UNCHANGED pc
  BY DEF Save
<1>3. /\ sess' \in [User -> Entry \cup {None}]
      /\ index' \in [Addr -> Entry \cup {None}]
      /\ saves' \in Nat /\ stored' \in SUBSET Request
      /\ last' \in [User \cup Addr -> Nat]
      /\ cut' \in SUBSET (User \cup Addr)
  BY <1>1, <1>2, WrittenType DEF NotWritten, TypeOK
<1>4. late' \in [Request -> Nat] /\ failed' \in [Request -> BOOLEAN]
  BY <1>2, ReportType DEF TypeOK
<1>5. pc' \in [Request -> Command \cup Answer \cup {"new"}]
  BY <1>2, GotoType DEF Answer, TypeOK
<1>6. tries' \in [Request -> 0..MaxRetries]
  BY <1>2 DEF TypeOK
<1>. QED  BY <1>3, <1>4, <1>5, <1>6 DEF Save, TypeOK

LEMMA LateSaveType ==
    ASSUME TypeOK, Untouched, Stages, NEW r \in Request, LateSave(r) PROVE TypeOK'
<1>1. r \in accepted
  BY DEF LateSave, Stages, StageOf
<1>2. late' \in [Request -> Nat]
  BY DEF LateSave, TypeOK
<1>3. Written(r)
  BY DEF LateSave
<1>. QED  BY <1>1, <1>2, <1>3, WrittenType DEF LateSave, TypeOK, local

LEMMA SoughtType ==
    ASSUME TypeOK, Named, NEW r \in Request, Me(r) \in User PROVE Sought(r) \in User
<1>1. CASE via[r] = None
  BY <1>1 DEF Sought
<1>2. CASE via[r] # None
  <2>1. via[r].login \in Request /\ Is(via[r].login, "login")
    BY <1>2 DEF TypeOK, Entry, Named, Sound
  <2>. QED  BY <1>2, <2>1 DEF Sought, Owner, Is, TypeOK, Input
<1>. QED  BY <1>1, <1>2

LEMMA LookupType ==
    ASSUME TypeOK, Untouched, Stages, Named, NEW r \in Request, FindUser(r) \/ FindSession(r)
    PROVE  TypeOK'
<1>1. pc' \in [Request -> Command \cup Answer \cup {"new"}] /\ failed' \in [Request -> BOOLEAN]
  BY GotoType, ReportType DEF FindUser, FindSession, Command, Answer
<1>2. req[r].addr \in Addr /\ Me(r) \in User
  BY Called DEF FindUser, FindSession
<1>3. Sought(r) \in User
  BY <1>2, SoughtType
<1>4. via' \in [Request -> Entry \cup {None}]
  BY <1>2 DEF FindUser, FindSession, TypeOK
<1>5. held' \in [Request -> Entry \cup {None}]
  BY <1>3 DEF FindUser, FindSession, TypeOK
<1>. QED  BY <1>1, <1>4, <1>5 DEF FindUser, FindSession, TypeOK, redis

LEMMA DeleteType ==
    ASSUME TypeOK, Untouched, Named, NEW r \in Request, Delete(r) PROVE TypeOK'
<1>1. Me(r) \in User
  BY Called DEF Delete
<1>2. req[held[r].login].addr \in Addr
  <2>1. held[r] # None /\ Sound(held[r])
    BY DEF Delete, Named
  <2>2. held[r].login \in Request
    BY <2>1 DEF TypeOK, Entry
  <2>. QED  BY <2>1, <2>2 DEF Sound, Is, TypeOK, Input
<1>3. pc' \in [Request -> Command \cup Answer \cup {"new"}] /\ failed' \in [Request -> BOOLEAN]
  BY GotoType, ReportType DEF Delete, Answer
<1>4. /\ sess' \in [User -> Entry \cup {None}] /\ index' \in [Addr -> Entry \cup {None}]
      /\ cut' \in SUBSET (User \cup Addr)
  BY <1>1, <1>2 DEF Delete, TypeOK
<1>. QED  BY <1>3, <1>4 DEF Delete, TypeOK, local

LEMMA TypeStep ==
    ASSUME TypeOK, Untouched, Stages, Named, [Next]_vars PROVE TypeOK'
<1>1. ASSUME NEW r \in Request, Receive(r) PROVE TypeOK'
  BY <1>1, GotoType DEF Receive, TypeOK, Command, Answer, redis, local, history
<1>2. ASSUME NEW r \in Request, Authenticate(r) PROVE TypeOK'
  <2>1. pc' \in [Request -> Command \cup Answer \cup {"new"}]
    BY <1>2, GotoType DEF Authenticate, Command, Answer
  <2>. QED  BY <1>2, <2>1 DEF Authenticate, TypeOK, redis, local
<1>3. ASSUME NEW r \in Request, ShowPage(r) PROVE TypeOK'
  BY <1>3 DEF ShowPage, TypeOK, redis, local, history
<1>4. ASSUME NEW r \in Request, LosePost(r) PROVE TypeOK'
  <2>1. pc' \in [Request -> Command \cup Answer \cup {"new"}]
    BY <1>4, GotoType DEF LosePost, Answer, TypeOK
  <2>. QED  BY <1>4, <2>1 DEF LosePost, TypeOK, redis, local, history
<1>5. ASSUME NEW u \in User, NEW p \in Policy \cup {None, Broken}, SetOverride(u, p) PROVE TypeOK'
  <2>1. override' \in [User -> Policy \cup {None, Broken}]
    BY <1>5 DEF SetOverride, TypeOK
  <2>2. policies' \in [Request -> SUBSET (Policy \cup {None, Broken})]
    BY <1>5 DEF SetOverride, TypeOK
  <2>. QED  BY <1>5, <2>1, <2>2 DEF SetOverride, TypeOK, local
<1>6. ASSUME NEW s \in Strategy, NEW k \in User \cup {All}, SetFlag(s, k) PROVE TypeOK'
  <2>1. flag' \in [Strategy -> SUBSET (User \cup {All})]
    BY <1>6 DEF SetFlag, TypeOK
  <2>2. moved' \in [Request -> SUBSET (User \cup {All})]
    BY <1>6 DEF SetFlag, TypeOK
  <2>3. flags' \in [Request -> SUBSET BOOLEAN]
    <3>. DEFINE b(r) == \E j \in {All, Me(r)} : j \in flag'[s]
    <3>1. \A r \in Request : b(r) \in BOOLEAN
      OBVIOUS
    <3>2. flags' = [r \in Request |-> IF pc[r] = "flagUser" /\ chosen[r] = s
                                       THEN flags[r] \cup {b(r)} ELSE flags[r]]
      BY <1>6 DEF SetFlag
    <3>. HIDE DEF b
    <3>. QED  BY <3>1, <3>2 DEF TypeOK
  <2>4. changes' \in 0..MaxChanges
    BY <1>6 DEF SetFlag, TypeOK
  <2>5. UNCHANGED <<override, sess, index, saves, late, req, pc, local, page, failed,
                    accepted, policies, stored, last, cut>>
    BY <1>6 DEF SetFlag
  <2>. QED  BY <2>1, <2>2, <2>3, <2>4, <2>5 DEF TypeOK, local
<1>7. CASE Tick
  <2>1. sess' \in [User -> Entry \cup {None}] /\ index' \in [Addr -> Entry \cup {None}]
    BY <1>7, AgedType DEF Tick, TypeOK
  <2>. QED  BY <1>7, <2>1 DEF Tick, TypeOK, local, history
<1>8. CASE UNCHANGED vars
  BY <1>8 DEF vars, redis, local, history, TypeOK
<1>. QED
  BY <1>1, <1>2, <1>3, <1>4, <1>5, <1>6, <1>7, <1>8, SubmitType, ResolveType, FlagType,
     SaveType, LateSaveType, LookupType, DeleteType DEF Next, Handle

-----------------------------------------------------------------------------
(* What a step does to the parts of the state.                              *)

\* What a handler changes of other requests, and of what is common.
LEMMA HandleFacts ==
    ASSUME TypeOK, NEW q \in Request, Handle(q)
    PROVE  /\ req' = req /\ page' = page /\ policies' = policies
           /\ override' = override /\ flag' = flag
           /\ pc[q] \in Command /\ pc'[q] \in (Command \cup Answer) \ {"posted"}
           /\ stored \subseteq stored' /\ accepted \subseteq accepted'
           /\ late'[q] > 0 => late[q] > 0 \/ pc[q] = "save"
           /\ \A r \in Request \ {q} :
                 /\ pc'[r] = pc[r] /\ policy'[r] = policy[r] /\ chosen'[r] = chosen[r]
                 /\ via'[r] = via[r] /\ held'[r] = held[r] /\ late'[r] = late[r]
                 /\ failed'[r] = failed[r] /\ flags'[r] = flags[r]
                 /\ r \in accepted' => r \in accepted
<1>. USE DEF TypeOK, Goto, Command, Answer, Report
<1>1. CASE Receive(q)
  BY <1>1 DEF Receive, redis, local, history
<1>2. CASE Resolve(q)
  <2>1. PICK f \in Outcome : ResolvedAs(q, f, StrategyOf(q, f))
    BY <1>2, ResolveFacts
  <2>. QED  BY <1>2, <2>1 DEF ResolvedAs, Resolve, redis
<1>3. CASE CheckFlag(q) \/ CheckGrant(q)
  <2>1. PICK f \in Outcome : \E n :
          n \in {"auth", "refused", "flagUser", "closed"} /\ Goto(q, n) /\ Report(q, f)
    BY <1>3 DEF CheckFlag, CheckGrant, Admitted
  <2>2. \E b : flags' \in {flags, [flags EXCEPT ![q] = b]}
    <3>. DEFINE w == {On(q)}
    <3>1. flags' = flags \/ flags' = [flags EXCEPT ![q] = w]
      BY <1>3 DEF CheckFlag, CheckGrant
    <3>. HIDE DEF w
    <3>. QED  BY <3>1
  <2>3. /\ pc[q] \in {"flagAll", "flagUser"}
        /\ UNCHANGED <<redis, req, local, page, accepted, policies, stored>>
    BY <1>3 DEF CheckFlag, CheckGrant
  <2>. QED  BY <2>1, <2>2, <2>3 DEF redis, local
<1>4. CASE Authenticate(q)
  BY <1>4 DEF Authenticate, redis, local
<1>5. CASE Save(q)
  BY <1>5 DEF Save, Written, NotWritten
<1>6. CASE FindUser(q)
  BY <1>6 DEF FindUser, redis
<1>7. CASE FindSession(q)
  BY <1>7 DEF FindSession, redis
<1>8. CASE Delete(q)
  BY <1>8 DEF Delete, local
<1>. QED  BY <1>1, <1>2, <1>3, <1>4, <1>5, <1>6, <1>7, <1>8 DEF Handle

\* What a step leaves as it is that neither makes nor handles r, nor loses its post.
Still(r) ==
    /\ pc'[r] = pc[r] /\ policy'[r] = policy[r] /\ chosen'[r] = chosen[r]
    /\ via'[r] = via[r] /\ held'[r] = held[r] /\ failed'[r] = failed[r]
    /\ req'[r] = req[r]
    /\ page'[r] # "none" => page[r] # "none"
    /\ late'[r] > 0 => late[r] > 0
    /\ policies[r] \subseteq policies'[r] /\ flags[r] \subseteq flags'[r]
    /\ r \in accepted' => r \in accepted

LEMMA Frame ==
    ASSUME TypeOK, [Next]_vars, NEW r \in Request
    PROVE  \/ Still(r)
           \/ \E i \in Input : Submit(r, i)
           \/ Handle(r)
           \/ LosePost(r)
<1>. USE DEF Still
<1>1. ASSUME NEW q \in Request, NEW i \in Input, Submit(q, i), q # r PROVE Still(r)
  BY <1>1 DEF Submit, Goto, TypeOK, redis, local
<1>2. ASSUME NEW q \in Request, Handle(q), q # r PROVE Still(r)
  BY <1>2, HandleFacts DEF TypeOK
<1>3. ASSUME NEW q \in Request, LateSave(q) PROVE Still(r)
  BY <1>3 DEF LateSave, Written, TypeOK, local
<1>4. ASSUME NEW q \in Request, ShowPage(q) PROVE Still(r)
  BY <1>4 DEF ShowPage, TypeOK, redis, local, history
<1>5. ASSUME NEW q \in Request, LosePost(q), q # r PROVE Still(r)
  BY <1>5 DEF LosePost, Goto, TypeOK, redis, local, history
<1>6. ASSUME NEW u \in User, NEW p \in Policy \cup {None, Broken}, SetOverride(u, p)
      PROVE  Still(r)
  BY <1>6 DEF SetOverride, TypeOK, local
<1>7. ASSUME NEW s \in Strategy, NEW k \in User \cup {All}, SetFlag(s, k) PROVE Still(r)
  <2>1. flags[r] \subseteq flags'[r]
    <3>. DEFINE b == \E j \in {All, Me(r)} : j \in flag'[s]
    <3>1. flags'[r] = IF pc[r] = "flagUser" /\ chosen[r] = s
                      THEN flags[r] \cup {b} ELSE flags[r]
      BY <1>7 DEF SetFlag
    <3>. HIDE DEF b
    <3>. QED  BY <3>1
  <2>2. UNCHANGED <<late, req, pc, local, page, failed, accepted, policies>>
    BY <1>7 DEF SetFlag
  <2>. QED  BY <2>1, <2>2 DEF local
<1>8. CASE Tick \/ UNCHANGED vars
  BY <1>8 DEF Tick, vars, redis, local, history
<1>. QED  BY <1>1, <1>2, <1>3, <1>4, <1>5, <1>6, <1>7, <1>8 DEF Next

\* Calls keep their input; logins stay accepted and stored.
LEMMA Kept ==
    ASSUME TypeOK, [Next]_vars
    PROVE  /\ \A r \in Request : req[r] # None => req'[r] = req[r]
           /\ accepted \subseteq accepted' /\ stored \subseteq stored'
<1>1. ASSUME NEW q \in Request, NEW i \in Input, Submit(q, i)
      PROVE  /\ \A r \in Request : req[r] # None => req'[r] = req[r]
             /\ accepted' = accepted /\ stored' = stored
  BY <1>1 DEF Submit, TypeOK
<1>2. ASSUME NEW q \in Request, LateSave(q)
      PROVE  req' = req /\ accepted' = accepted /\ stored \subseteq stored'
  BY <1>2 DEF LateSave, Written
<1>3. ASSUME NEW q \in Request, ShowPage(q) \/ LosePost(q)
      PROVE  req' = req /\ accepted' = accepted /\ stored' = stored
  BY <1>3 DEF ShowPage, LosePost, history
<1>4. ASSUME NEW u \in User, NEW p \in Policy \cup {None, Broken}, SetOverride(u, p)
      PROVE  req' = req /\ accepted' = accepted /\ stored' = stored
  BY <1>4 DEF SetOverride
<1>5. ASSUME NEW s \in Strategy, NEW k \in User \cup {All}, SetFlag(s, k)
      PROVE  req' = req /\ accepted' = accepted /\ stored' = stored
  BY <1>5 DEF SetFlag
<1>6. CASE Tick \/ UNCHANGED vars
  BY <1>6 DEF Tick, vars, history
<1>. QED  BY <1>1, <1>2, <1>3, <1>4, <1>5, <1>6, HandleFacts DEF Next

-----------------------------------------------------------------------------
(* The invariant is kept.                                                   *)

LEMMA UntouchedStep ==
    ASSUME TypeOK, Untouched, Stages, [Next]_vars PROVE Untouched'
<1>. SUFFICES ASSUME NEW r \in Request
              PROVE  /\ req'[r] = None <=> pc'[r] = "new"
                     /\ req'[r] = None => page'[r] = "none"
  BY DEF Untouched
<1>1. CASE Still(r)
  BY <1>1 DEF Still, Untouched
<1>2. ASSUME NEW i \in Input, Submit(r, i) PROVE req'[r] = i /\ pc'[r] # "new"
  BY <1>2 DEF Submit, Goto, TypeOK, Input
<1>3. CASE Handle(r)
  BY <1>3, HandleFacts DEF Untouched, Command, Answer
<1>4. CASE LosePost(r)
  <2>1. page[r] = "waiting" /\ req' = req
    BY <1>4 DEF LosePost
  <2>2. pc'[r] = pc[r] \/ (pc[r] = "posted" /\ pc'[r] = "refused")
    BY <1>4 DEF LosePost, Goto, TypeOK
  <2>. QED  BY <2>1, <2>2 DEF Untouched
<1>. QED  BY <1>1, <1>2, <1>3, <1>4, Frame

LEMMA StagesStep ==
    ASSUME TypeOK, Untouched, Stages, [Next]_vars PROVE Stages'
<1>. SUFFICES ASSUME NEW r \in Request PROVE StageOf(r)'
  BY DEF Stages
<1>0. StageOf(r)
  BY DEF Stages
<1>1. CASE Still(r)
  BY <1>0, <1>1, Kept DEF Still, StageOf, Is
<1>2. ASSUME NEW i \in Input, Submit(r, i) PROVE StageOf(r)'
  <2>1. /\ req'[r] = i /\ pc[r] = "new" /\ late'[r] = late[r] /\ late[r] \in Nat
        /\ pc'[r] \in {"posted", "byAddr", "byUser", "read"}
        /\ pc'[r] = "posted" <=> i.op = "login"
        /\ page'[r] # "none" <=> i.op = "login"
        /\ accepted' = accepted /\ i # None
    BY <1>2 DEF Submit, Goto, TypeOK, Input, redis, Untouched
  <2>2. r \notin accepted /\ ~(late[r] > 0)
    BY <1>0, <2>1 DEF StageOf
  <2>. QED  BY <2>1, <2>2 DEF StageOf, Is, Early
<1>3. CASE LosePost(r)
  <2>1. page[r] = "waiting" /\ UNCHANGED <<redis, req, local, history>>
    BY <1>3 DEF LosePost
  <2>2. pc'[r] = pc[r] \/ pc'[r] = "refused"
    BY <1>3 DEF LosePost, Goto, TypeOK
  <2>. QED  BY <1>0, <2>1, <2>2 DEF StageOf, Is, Early, redis, local, history
<1>4. CASE Handle(r)
  <2>0. req' = req /\ page' = page /\ stored \subseteq stored'
    BY <1>4, HandleFacts
  <2>1. CASE Receive(r)
    <3>1. /\ pc[r] = "posted" /\ pc'[r] \in {"override", "refused"}
          /\ UNCHANGED <<redis, local, history>>
      BY <2>1 DEF Receive, Goto, TypeOK
    <3>. QED  BY <1>0, <2>0, <3>1 DEF StageOf, Is, Early, redis, local, history
  <2>2. CASE Resolve(r)
    <3>1. PICK f \in Outcome : ResolvedAs(r, f, StrategyOf(r, f))
      BY <2>2, ResolveFacts
    <3>2. pc[r] = "override" /\ accepted' = accepted /\ late' = late
      BY <2>2 DEF Resolve, redis
    <3>3. /\ pc'[r] = IF StrategyOf(r, f) = None THEN "refused" ELSE "flagAll"
          /\ policy'[r] = Resolved(r, f) /\ chosen'[r] = StrategyOf(r, f)
      BY <3>1 DEF ResolvedAs, Goto, TypeOK
    <3>4. TypeOK'
      BY <2>2, ResolveType
    <3>5. StrategyOf(r, f) # None => Resolved(r, f) # None
      BY DEF StrategyOf
    <3>6. pc'[r] = "flagAll" => policy'[r] \in Policy /\ chosen'[r] \in Strategy
      BY <3>3, <3>4, <3>5 DEF TypeOK
    <3>. QED  BY <1>0, <2>0, <3>2, <3>3, <3>6 DEF StageOf, Is, Early
  <2>3. CASE CheckFlag(r) \/ CheckGrant(r)
    <3>1. /\ pc[r] \in {"flagAll", "flagUser"} /\ UNCHANGED <<redis, local, accepted>>
          /\ pc'[r] \in {"auth", "refused", "flagUser", "closed"}
      BY <2>3 DEF CheckFlag, CheckGrant, Admitted, Goto, TypeOK
    <3>. QED  BY <1>0, <2>0, <3>1 DEF StageOf, Is, Early, redis, local
  <2>4. CASE Authenticate(r)
    <3>1. /\ pc[r] = "auth" /\ UNCHANGED <<redis, local>>
          /\ \/ pc'[r] = "save" /\ accepted' = accepted \cup {r}
             \/ pc'[r] = "refused" /\ accepted' = accepted
      BY <2>4 DEF Authenticate, Goto, TypeOK
    <3>. QED  BY <1>0, <2>0, <3>1 DEF StageOf, Is, Early, redis, local
  <2>5. CASE Save(r)
    <3>1. pc[r] = "save" /\ UNCHANGED <<policy, chosen, accepted>>
      BY <2>5 DEF Save
    <3>2. \/ pc'[r] = "granted" /\ r \in stored'
          \/ pc'[r] \in {"refused", "save"}
      BY <2>5 DEF Save, Written, Goto, TypeOK
    <3>. QED  BY <1>0, <2>0, <3>1, <3>2 DEF StageOf, Is, Early
  <2>6. CASE FindUser(r) \/ FindSession(r) \/ Delete(r)
    <3>1. /\ pc[r] \in {"byAddr", "byUser", "read", "del"}
          /\ UNCHANGED <<late, policy, chosen, accepted>>
          /\ pc'[r] \in {"byUser", "del", "found", "absent", "deleted", "refused"}
      BY <2>6 DEF FindUser, FindSession, Delete, Goto, TypeOK, redis, local
    <3>. QED  BY <1>0, <2>0, <3>1 DEF StageOf, Is, Early
  <2>. QED  BY <1>4, <2>1, <2>2, <2>3, <2>4, <2>5, <2>6 DEF Handle
<1>. QED  BY <1>1, <1>2, <1>3, <1>4, Frame

\* What a step leaves in the store: nothing, the entry that was there, or that of
\* an accepted login of this user and this address.
LEMMA StoreStep ==
    ASSUME TypeOK, Untouched, Stages, [Next]_vars
    PROVE  /\ \A u \in User : sess'[u] # None =>
                \/ sess[u] # None /\ sess'[u].login = sess[u].login
                \/ \E r \in accepted : sess'[u].login = r /\ Me(r) = u
           /\ \A a \in Addr : index'[a] # None =>
                \/ index[a] # None /\ index'[a].login = index[a].login
                \/ \E r \in accepted : index'[a].login = r /\ req[r].addr = a
<1>. DEFINE Good == /\ \A u \in User : sess'[u] # None =>
                         \/ sess[u] # None /\ sess'[u].login = sess[u].login
                         \/ \E r \in accepted : sess'[u].login = r /\ Me(r) = u
                    /\ \A a \in Addr : index'[a] # None =>
                         \/ index[a] # None /\ index'[a].login = index[a].login
                         \/ \E r \in accepted : index'[a].login = r /\ req[r].addr = a
<1>1. ASSUME NEW r \in Request, r \in accepted, Written(r) PROVE Good
  <2>. DEFINE e == [login |-> r, no |-> saves + 1, ttl |-> Lifetime(r)]
  <2>1. e.login = r
    OBVIOUS
  <2>2. sess' = [sess EXCEPT ![Me(r)] = e] /\ index' = [index EXCEPT ![req[r].addr] = e]
    BY <1>1 DEF Written
  <2>. HIDE DEF e
  <2>3. \A u \in User : sess'[u] = IF u = Me(r) THEN e ELSE sess[u]
    BY <2>2 DEF TypeOK
  <2>4. \A a \in Addr : index'[a] = IF a = req[r].addr THEN e ELSE index[a]
    BY <2>2 DEF TypeOK
  <2>. QED  BY <1>1, <2>1, <2>3, <2>4
<1>2. ASSUME NEW r \in Request, Save(r) PROVE Good
  <2>1. r \in accepted
    BY <1>2 DEF Save, Stages, StageOf
  <2>2. Written(r) \/ (sess' = sess /\ index' = index)
    BY <1>2 DEF Save, NotWritten
  <2>. QED  BY <1>1, <2>1, <2>2
<1>3. ASSUME NEW r \in Request, LateSave(r) PROVE Good
  <2>1. r \in accepted /\ Written(r)
    BY <1>3 DEF LateSave, Stages, StageOf
  <2>. QED  BY <1>1, <2>1
<1>4. ASSUME NEW r \in Request, Delete(r) PROVE Good
  <2>1. \A u \in User : sess'[u] \in {None, sess[u]}
    BY <1>4 DEF Delete, TypeOK
  <2>2. \A a \in Addr : index'[a] \in {None, index[a]}
    BY <1>4 DEF Delete, TypeOK
  <2>. QED  BY <2>1, <2>2
<1>5. ASSUME Tick PROVE Good
  <2>1. ASSUME NEW e PROVE Aged(e) # None => e # None /\ Aged(e).login = e.login
    BY DEF Aged
  <2>2. /\ \A u \in User : sess'[u] = Aged(sess[u])
        /\ \A a \in Addr : index'[a] = Aged(index[a])
    BY <1>5 DEF Tick
  <2>. QED  BY <2>1, <2>2
<1>6. ASSUME sess' = sess, index' = index PROVE Good
  BY <1>6
<1>7. ASSUME NEW r \in Request,
             \/ Receive(r) \/ Resolve(r) \/ CheckFlag(r) \/ CheckGrant(r) \/ Authenticate(r)
             \/ FindUser(r) \/ FindSession(r) \/ ShowPage(r) \/ LosePost(r)
      PROVE  sess' = sess /\ index' = index
  BY <1>7 DEF Receive, Resolve, CheckFlag, CheckGrant, Authenticate, FindUser, FindSession,
     ShowPage, LosePost, redis
<1>8. ASSUME NEW u \in User, NEW p \in Policy \cup {None, Broken}, SetOverride(u, p)
      PROVE  sess' = sess /\ index' = index
  BY <1>8 DEF SetOverride
<1>9. ASSUME NEW s \in Strategy, NEW k \in User \cup {All}, SetFlag(s, k)
      PROVE  sess' = sess /\ index' = index
  BY <1>9 DEF SetFlag
<1>10. ASSUME NEW r \in Request, NEW i \in Input, Submit(r, i)
       PROVE  sess' = sess /\ index' = index
  BY <1>10 DEF Submit, redis
<1>11. ASSUME UNCHANGED vars PROVE Good
  BY <1>6, <1>11 DEF vars, redis
<1>. HIDE DEF Good
<1>12. Good
  BY <1>2, <1>3, <1>4, <1>5, <1>6, <1>7, <1>8, <1>9, <1>10, <1>11 DEF Next, Handle
<1>. QED  BY <1>12 DEF Good

\* A lookup keeps what it has read, or takes what is in the store.
LEMMA LookupStep ==
    ASSUME TypeOK, Untouched, Named, NEW r \in Request, Handle(r)
    PROVE  /\ via'[r] = via[r] \/ \E a \in Addr : via'[r] = index[a]
           /\ held'[r] = held[r] \/ \E u \in User : held'[r] = sess[u]
           /\ pc'[r] \in {"del", "found"} => held'[r] # None
<1>0. req[r].addr \in Addr /\ Me(r) \in User
  BY HandleFacts, Called DEF Command
<1>1. CASE FindUser(r)
  BY <1>0, <1>1 DEF FindUser, Goto, TypeOK
<1>2. CASE FindSession(r)
  <2>1. Sought(r) \in User
    BY <1>0, SoughtType
  <2>. QED  BY <1>2, <2>1 DEF FindSession, Goto, TypeOK
<1>3. CASE Receive(r) \/ CheckFlag(r) \/ CheckGrant(r) \/ Authenticate(r)
  <2>1. via' = via /\ held' = held
    BY <1>3 DEF Receive, CheckFlag, CheckGrant, Authenticate, local
  <2>2. pc'[r] \notin {"del", "found"}
    BY <1>3 DEF Receive, CheckFlag, CheckGrant, Authenticate, Admitted, Goto, TypeOK
  <2>. QED  BY <2>1, <2>2
<1>4. CASE Resolve(r)
  <2>1. PICK f \in Outcome : ResolvedAs(r, f, StrategyOf(r, f))
    BY <1>4, ResolveFacts
  <2>2. pc'[r] \notin {"del", "found"}
    BY <2>1 DEF ResolvedAs, Goto, TypeOK
  <2>. QED  BY <1>4, <2>2 DEF Resolve
<1>5. CASE Save(r) \/ Delete(r)
  BY <1>5 DEF Save, Delete, Goto, TypeOK, local
<1>. QED  BY <1>1, <1>2, <1>3, <1>4, <1>5 DEF Handle

LEMMA SoundStays ==
    ASSUME TypeOK, [Next]_vars, NEW l, l \in accepted, Is(l, "login")
    PROVE  l \in accepted' /\ Is(l, "login")' /\ req'[l] = req[l]
<1>1. l \in Request /\ req[l] # None
  BY DEF TypeOK, Is
<1>. QED  BY <1>1, Kept DEF Is

LEMMA NamedStep ==
    ASSUME TypeOK, Untouched, Stages, Named, [Next]_vars PROVE Named'
<1>1. ASSUME NEW u \in User, sess'[u] # None
      PROVE  \E l \in Request : /\ l = sess'[u].login /\ l \in accepted' /\ Is(l, "login")'
                                /\ req'[l].user = u
  <2>1. CASE sess[u] # None /\ sess'[u].login = sess[u].login
    <3>1. Sound(sess[u]) /\ Owner(sess[u]) = u /\ sess[u].login \in Request
      BY <2>1 DEF Named, TypeOK, Entry
    <3>. QED  BY <2>1, <3>1, SoundStays DEF Sound, Owner
  <2>2. ASSUME NEW r \in accepted, sess'[u].login = r, Me(r) = u
        PROVE  /\ r = sess'[u].login /\ r \in accepted' /\ Is(r, "login")'
               /\ req'[r].user = u /\ r \in Request
    <3>1. r \in Request /\ Is(r, "login")
      BY DEF TypeOK, Stages, StageOf
    <3>. QED  BY <2>2, <3>1, SoundStays DEF Me
  <2>. QED  BY <1>1, <2>1, <2>2, StoreStep
<1>2. ASSUME NEW a \in Addr, index'[a] # None
      PROVE  \E l \in Request : /\ l = index'[a].login /\ l \in accepted' /\ Is(l, "login")'
                                /\ req'[l].addr = a
  <2>1. CASE index[a] # None /\ index'[a].login = index[a].login
    <3>1. Sound(index[a]) /\ req[index[a].login].addr = a /\ index[a].login \in Request
      BY <2>1 DEF Named, TypeOK, Entry
    <3>. QED  BY <2>1, <3>1, SoundStays DEF Sound
  <2>2. ASSUME NEW r \in accepted, index'[a].login = r, req[r].addr = a
        PROVE  /\ r = index'[a].login /\ r \in accepted' /\ Is(r, "login")'
               /\ req'[r].addr = a /\ r \in Request
    <3>1. r \in Request /\ Is(r, "login")
      BY DEF TypeOK, Stages, StageOf
    <3>. QED  BY <2>2, <3>1, SoundStays
  <2>. QED  BY <1>2, <2>1, <2>2, StoreStep
<1>3. ASSUME NEW e, e = None \/ Sound(e) PROVE e # None => Sound(e)'
  BY <1>3, SoundStays DEF Sound
<1>4. ASSUME NEW r \in Request
      PROVE  /\ via'[r] = None \/ Sound(via'[r])
             /\ held'[r] = None \/ Sound(held'[r])
             /\ pc'[r] \in {"del", "found"} => held'[r] # None
  <2>0. via[r] = None \/ Sound(via[r])
    BY DEF Named
  <2>1. held[r] = None \/ Sound(held[r])
    BY DEF Named
  <2>2. CASE Still(r)
    BY <2>0, <2>1, <2>2 DEF Still, Named
  <2>3. ASSUME NEW i \in Input, Submit(r, i)
        PROVE  via' = via /\ held' = held /\ pc'[r] \notin {"del", "found"}
    BY <2>3 DEF Submit, local, Goto, TypeOK, Input
  <2>4. CASE LosePost(r)
    <3>1. via' = via /\ held' = held
      BY <2>4 DEF LosePost, local
    <3>2. pc'[r] = pc[r] \/ pc'[r] = "refused"
      BY <2>4 DEF LosePost, Goto, TypeOK
    <3>. QED  BY <2>0, <2>1, <3>1, <3>2 DEF Named
  <2>5. CASE Handle(r)
    <3>1. via'[r] = None \/ Sound(via'[r])
      BY <2>0, <2>5, LookupStep DEF Named
    <3>2. held'[r] = None \/ Sound(held'[r])
      BY <2>1, <2>5, LookupStep DEF Named
    <3>. QED  BY <2>5, <3>1, <3>2, LookupStep
  <2>. QED  BY <2>0, <2>1, <2>2, <2>3, <2>4, <2>5, Frame
<1>. QED  BY <1>1, <1>2, <1>3, <1>4 DEF Named, Sound, Owner

\* An override changes only under the eyes of the logins that will ask for it.
LEMMA OverrideStep ==
    ASSUME TypeOK, Untouched, [Next]_vars, NEW r \in Request, Still(r),
           pc[r] \in {"posted", "override"}, override[Me(r)] \in policies[r]
    PROVE  override'[Me(r)] \in policies'[r]
<1>1. req[r] # None /\ Me(r) \in User
  BY Called
<1>2. policies[r] \subseteq policies'[r]
  BY DEF Still
<1>3. ASSUME NEW u \in User, NEW p \in Policy \cup {None, Broken}, SetOverride(u, p)
      PROVE  override'[Me(r)] \in policies'[r]
  BY <1>1, <1>3 DEF SetOverride, TypeOK
<1>4. CASE override' = override
  BY <1>2, <1>4
<1>5. ASSUME NEW s \in Strategy, NEW k \in User \cup {All}, SetFlag(s, k)
      PROVE  override' = override
  BY <1>5 DEF SetFlag
<1>6. ASSUME NEW q \in Request, LateSave(q) \/ ShowPage(q) \/ LosePost(q)
      PROVE  override' = override
  BY <1>6 DEF LateSave, ShowPage, LosePost, redis
<1>7. ASSUME NEW q \in Request, NEW i \in Input, Submit(q, i) PROVE override' = override
  BY <1>7 DEF Submit, redis
<1>8. CASE Tick \/ UNCHANGED vars
  BY <1>4, <1>8 DEF Tick, vars, redis
<1>. QED  BY <1>3, <1>4, <1>5, <1>6, <1>7, <1>8, HandleFacts DEF Next

\* So does a flag.
LEMMA FlagStep ==
    ASSUME TypeOK, [Next]_vars, NEW r \in Request, Still(r), pc[r] = "flagUser",
           On(r) => TRUE \in flags[r], On(r)'
    PROVE  TRUE \in flags'[r]
<1>1. flags[r] \subseteq flags'[r] /\ chosen'[r] = chosen[r] /\ req'[r] = req[r]
  BY DEF Still
<1>2. flag'[chosen[r]] = flag[chosen[r]] => TRUE \in flags'[r]
  BY <1>1 DEF On, Me
<1>3. ASSUME NEW s \in Strategy, NEW k \in User \cup {All}, SetFlag(s, k)
      PROVE  TRUE \in flags'[r]
  <2>1. CASE chosen[r] # s
    <3>1. flag'[chosen[r]] = flag[chosen[r]]
      BY <1>3, <2>1 DEF SetFlag, TypeOK
    <3>. QED  BY <1>2, <3>1
  <2>2. CASE chosen[r] = s
    <3>. DEFINE b == \E j \in {All, Me(r)} : j \in flag'[s]
    <3>1. b = TRUE
      BY <1>1, <2>2 DEF On, Me
    <3>2. flags'[r] = flags[r] \cup {b}
      BY <1>3, <2>2 DEF SetFlag
    <3>. HIDE DEF b
    <3>. QED  BY <3>1, <3>2
  <2>. QED  BY <2>1, <2>2
<1>4. ASSUME NEW u \in User, NEW p \in Policy \cup {None, Broken}, SetOverride(u, p)
      PROVE  flag' = flag
  BY <1>4 DEF SetOverride
<1>5. ASSUME NEW q \in Request, LateSave(q) \/ ShowPage(q) \/ LosePost(q)
      PROVE  flag' = flag
  BY <1>5 DEF LateSave, ShowPage, LosePost, redis
<1>6. ASSUME NEW q \in Request, NEW i \in Input, Submit(q, i) PROVE flag' = flag
  BY <1>6 DEF Submit, redis
<1>7. CASE Tick \/ UNCHANGED vars
  BY <1>2, <1>7 DEF Tick, vars, redis
<1>. QED  BY <1>2, <1>3, <1>4, <1>5, <1>6, <1>7, HandleFacts DEF Next

LEMMA RestedStep ==
    ASSUME TypeOK, Untouched, Stages, Rested, [Next]_vars PROVE Rested'
<1>. SUFFICES ASSUME NEW r \in Request PROVE RestsOn(r)'
  BY DEF Rested
<1>0. RestsOn(r) /\ StageOf(r)
  BY DEF Rested, Stages
<1>1. CASE Still(r)
  <2>1. PolicyGiven(r) => PolicyGiven(r)'
    BY <1>1 DEF Still, PolicyGiven
  <2>2. pc[r] \in {"posted", "override"} => override'[Me(r)] \in policies'[r]
    BY <1>0, <1>1, OverrideStep DEF RestsOn
  <2>3. pc[r] = "flagUser" /\ On(r)' => TRUE \in flags'[r]
    BY <1>0, <1>1, FlagStep DEF RestsOn
  <2>. QED  BY <1>0, <1>1, <2>1, <2>2, <2>3 DEF RestsOn, Still, Me
<1>2. ASSUME NEW i \in Input, Submit(r, i) PROVE RestsOn(r)'
  <2>1. /\ pc[r] = "new" /\ req'[r] = i /\ policies'[r] = {override[i.user]}
        /\ pc'[r] \in {"posted", "byAddr", "byUser", "read"}
        /\ override' = override /\ accepted' = accepted
    BY <1>2 DEF Submit, Goto, TypeOK, Input, redis, Untouched
  <2>2. r \notin accepted
    BY <1>0, <2>1 DEF StageOf
  <2>. QED  BY <2>1, <2>2 DEF RestsOn, Me
<1>3. CASE LosePost(r)
  <2>1. UNCHANGED <<redis, req, local, history>>
    BY <1>3 DEF LosePost
  <2>2. pc'[r] = pc[r] \/ pc'[r] = "refused"
    BY <1>3 DEF LosePost, Goto, TypeOK
  <2>. QED  BY <1>0, <2>1, <2>2 DEF RestsOn, PolicyGiven, On, Me, redis, local, history
<1>4. CASE Handle(r)
  <2>0. /\ req' = req /\ policies' = policies /\ override' = override /\ flag' = flag
        /\ Me(r)' = Me(r)
    BY <1>4, HandleFacts DEF Me
  <2>1. CASE Receive(r)
    <3>1. /\ pc[r] = "posted" /\ pc'[r] \in {"override", "refused"}
          /\ UNCHANGED <<redis, local, history>>
      BY <2>1 DEF Receive, Goto, TypeOK
    <3>. QED  BY <1>0, <2>0, <3>1 DEF RestsOn, PolicyGiven, On, Me, redis, local, history
  <2>2. CASE Resolve(r)
    <3>1. PICK f \in Outcome : ResolvedAs(r, f, StrategyOf(r, f))
      BY <2>2, ResolveFacts
    <3>2. pc[r] = "override" /\ accepted' = accepted /\ flags' = flags
      BY <2>2 DEF Resolve
    <3>3. /\ pc'[r] \in {"refused", "flagAll"} /\ policy'[r] = Resolved(r, f)
          /\ f # "ok" => failed'[r]
      BY <3>1 DEF ResolvedAs, Goto, Report, TypeOK
    <3>4. r \notin accepted
      BY <1>0, <3>2 DEF StageOf, Early
    <3>5. override[Me(r)] \in policies[r] /\ override[Me(r)] \in Policy \cup {None, Broken}
      BY <1>0, <3>2, Called DEF RestsOn, TypeOK
    <3>6. PolicyGiven(r)'
      BY <2>0, <3>3, <3>5 DEF PolicyGiven, Resolved, Override
    <3>. QED  BY <2>0, <3>2, <3>3, <3>4, <3>6 DEF RestsOn
  <2>3. CASE CheckFlag(r) \/ CheckGrant(r)
    <3>1. /\ pc[r] \in {"flagAll", "flagUser"} /\ UNCHANGED <<redis, local, accepted>>
          /\ pc'[r] \in {"auth", "refused", "flagUser", "closed"}
      BY <2>3 DEF CheckFlag, CheckGrant, Admitted, Goto, TypeOK
    <3>2. r \notin accepted /\ PolicyGiven(r)
      BY <1>0, <3>1 DEF StageOf, RestsOn, Early
    <3>3. failed[r] => failed'[r]
      BY <2>3 DEF CheckFlag, CheckGrant, Report, TypeOK
    <3>4. PolicyGiven(r)'
      BY <2>0, <3>1, <3>2, <3>3 DEF PolicyGiven, local
    <3>5. pc'[r] = "auth" => chosen[r] \in Allowed[policy[r]] /\ On(r)
      BY <2>3 DEF CheckFlag, CheckGrant, Admitted, On, Goto, TypeOK
    <3>6. On(r) => TRUE \in flags'[r]
      <4>1. CASE CheckGrant(r)
        BY <1>0, <4>1 DEF CheckGrant, RestsOn
      <4>2. CASE CheckFlag(r)
        <5>. DEFINE w == On(r)
        <5>1. flags'[r] = {w}
          BY <4>2 DEF CheckFlag, TypeOK
        <5>2. On(r) => w = TRUE
          BY DEF On
        <5>. HIDE DEF w
        <5>. QED  BY <5>1, <5>2
      <4>. QED  BY <2>3, <4>1, <4>2
    <3>7. On(r)' => On(r)
      BY <2>0, <3>1 DEF On, local
    <3>. QED  BY <2>0, <3>1, <3>2, <3>4, <3>5, <3>6, <3>7 DEF RestsOn, local
  <2>4. CASE Authenticate(r)
    <3>1. /\ pc[r] = "auth" /\ pc'[r] \in {"save", "refused"}
          /\ UNCHANGED <<redis, local, failed, flags>>
          /\ accepted' \in {accepted, accepted \cup {r}}
      BY <2>4 DEF Authenticate, Goto, TypeOK
    <3>. QED  BY <1>0, <2>0, <3>1 DEF RestsOn, PolicyGiven, local
  <2>5. CASE Save(r)
    <3>1. /\ pc[r] = "save" /\ pc'[r] \in {"save", "granted", "refused"}
          /\ UNCHANGED <<policy, chosen, accepted, flags>> /\ (failed[r] => failed'[r])
      BY <2>5 DEF Save, Goto, Report, TypeOK
    <3>. QED  BY <1>0, <2>0, <3>1 DEF RestsOn, PolicyGiven
  <2>6. CASE FindUser(r) \/ FindSession(r) \/ Delete(r)
    <3>1. /\ pc'[r] \in {"byUser", "del", "found", "absent", "deleted", "refused"}
          /\ UNCHANGED <<policy, chosen, accepted, flags>> /\ (failed[r] => failed'[r])
      BY <2>6 DEF FindUser, FindSession, Delete, Goto, Report, TypeOK, local
    <3>. QED  BY <1>0, <2>0, <3>1 DEF RestsOn, PolicyGiven
  <2>. QED  BY <1>4, <2>1, <2>2, <2>3, <2>4, <2>5, <2>6 DEF Handle
<1>. QED  BY <1>1, <1>2, <1>3, <1>4, Frame

LEMMA FailingStep ==
    ASSUME TypeOK, Untouched, Stages, Named, Failing, [Next]_vars PROVE Failing'
<1>0. TypeOK'
  BY TypeStep
<1>. SUFFICES ASSUME NEW r \in Request, r \in accepted'
              PROVE  pc'[r] \in {"save", "granted"} \/ failed'[r]
  BY <1>0 DEF Failing, TypeOK
<1>1. CASE Still(r)
  BY <1>1 DEF Still, Failing
<1>2. ASSUME NEW i \in Input, Submit(r, i) PROVE FALSE
  <2>1. pc[r] = "new" /\ accepted' = accepted
    BY <1>2 DEF Submit, Untouched
  <2>. QED  BY <2>1 DEF Stages, StageOf
<1>3. CASE LosePost(r)
  <2>1. accepted' = accepted /\ failed' = failed
    BY <1>3 DEF LosePost, history
  <2>2. pc'[r] = pc[r] \/ pc[r] = "posted"
    BY <1>3 DEF LosePost
  <2>. QED  BY <2>1, <2>2 DEF Failing, Stages, StageOf, Early
<1>4. CASE Handle(r)
  <2>1. CASE Authenticate(r)
    <3>1. pc[r] = "auth" /\ (pc'[r] = "save" \/ accepted' = accepted)
      BY <2>1 DEF Authenticate, Goto, TypeOK
    <3>. QED  BY <3>1 DEF Stages, StageOf, Early
  <2>2. CASE Save(r)
    BY <2>2 DEF Save, Goto, Report, TypeOK
  <2>3. CASE Receive(r) \/ Resolve(r) \/ CheckFlag(r) \/ CheckGrant(r)
    <3>1. pc[r] \in Early /\ accepted' = accepted
      BY <2>3 DEF Receive, Resolve, CheckFlag, CheckGrant, Early, history
    <3>. QED  BY <3>1 DEF Stages, StageOf
  <2>4. CASE FindUser(r) \/ FindSession(r) \/ Delete(r)
    <3>1. /\ pc[r] \in {"byAddr", "byUser", "read", "del"} /\ accepted' = accepted
          /\ failed[r] => failed'[r]
      BY <2>4 DEF FindUser, FindSession, Delete, Report, TypeOK
    <3>. QED  BY <3>1 DEF Failing
  <2>. QED  BY <1>4, <2>1, <2>2, <2>3, <2>4 DEF Handle
<1>. QED  BY <1>1, <1>2, <1>3, <1>4, Frame

\* Who touches the store: a Save, a delete and the clock; a lookup only reads it.
LEMMA StoreMoves ==
    ASSUME TypeOK, Untouched, Stages, Named, [Next]_vars
    PROVE  \/ \E r \in accepted : Written(r) /\ req' = req /\ via' = via
           \/ Tick
           \/ \E r \in Request : Delete(r)
           \/ /\ UNCHANGED <<sess, index, saves, last, cut>>
              /\ \A r \in Request : via'[r] = via[r] \/ \E a \in Addr : via'[r] = index[a]
<1>. DEFINE Quiet == /\ UNCHANGED <<sess, index, saves, last, cut>>
                     /\ \A r \in Request : via'[r] = via[r] \/ \E a \in Addr : via'[r] = index[a]
            Writes == \E r \in accepted : Written(r) /\ req' = req /\ via' = via
<1>1. ASSUME NEW r \in Request, Save(r) PROVE Writes \/ Quiet
  <2>1. r \in accepted
    BY <1>1 DEF Save, Stages, StageOf
  <2>2. req' = req /\ via' = via
    BY <1>1 DEF Save
  <2>3. Written(r) \/ UNCHANGED <<sess, index, saves, last, cut>>
    BY <1>1 DEF Save, NotWritten
  <2>. QED  BY <2>1, <2>2, <2>3
<1>2. ASSUME NEW r \in Request, LateSave(r) PROVE Writes
  BY <1>2 DEF LateSave, Stages, StageOf, local
<1>3. ASSUME NEW r \in Request, FindUser(r) \/ FindSession(r) PROVE Quiet
  <2>1. UNCHANGED <<sess, index, saves, last, cut>>
    BY <1>3 DEF FindUser, FindSession, redis
  <2>2. \A q \in Request \ {r} : via'[q] = via[q]
    BY <1>3, HandleFacts DEF Handle
  <2>. QED  BY <1>3, <2>1, <2>2, LookupStep DEF Handle
<1>4. ASSUME NEW r \in Request,
             \/ Receive(r) \/ Resolve(r) \/ CheckFlag(r) \/ CheckGrant(r) \/ Authenticate(r)
             \/ ShowPage(r) \/ LosePost(r)
      PROVE  Quiet
  BY <1>4 DEF Receive, Resolve, CheckFlag, CheckGrant, Authenticate, ShowPage, LosePost,
     redis, local, history
<1>5. ASSUME NEW u \in User, NEW p \in Policy \cup {None, Broken}, SetOverride(u, p) PROVE Quiet
  BY <1>5 DEF SetOverride, local
<1>6. ASSUME NEW s \in Strategy, NEW k \in User \cup {All}, SetFlag(s, k) PROVE Quiet
  BY <1>6 DEF SetFlag, local
<1>7. ASSUME NEW r \in Request, NEW i \in Input, Submit(r, i) PROVE Quiet
  BY <1>7 DEF Submit, redis, local
<1>8. ASSUME UNCHANGED vars PROVE Quiet
  BY <1>8 DEF vars, redis, local, history
<1>. HIDE DEF Quiet, Writes
<1>9. Writes \/ Quiet \/ Tick \/ \E r \in Request : Delete(r)
  BY <1>1, <1>2, <1>3, <1>4, <1>5, <1>6, <1>7, <1>8 DEF Next, Handle
<1>. QED  BY <1>9 DEF Writes, Quiet

\* What a Save leaves under each key.
LEMMA WrittenFacts ==
    ASSUME TypeOK, Untouched, Stages, NEW r \in accepted, Written(r)
    PROVE  \E e \in Entry :
              /\ e.login = r /\ e.no = saves + 1 /\ e # None /\ saves' = saves + 1
              /\ Me(r) \in User /\ req[r].addr \in Addr
              /\ \A u \in User : sess'[u] = IF u = Me(r) THEN e ELSE sess[u]
              /\ \A a \in Addr : index'[a] = IF a = req[r].addr THEN e ELSE index[a]
              /\ \A k \in User \cup Addr :
                    last'[k] = IF k \in {Me(r), req[r].addr} THEN saves + 1 ELSE last[k]
              /\ cut' = cut \ {Me(r), req[r].addr}
<1>. DEFINE e == [login |-> r, no |-> saves + 1, ttl |-> Lifetime(r)]
<1>0. r \in Request
  BY DEF TypeOK
<1>1. e \in Entry /\ Me(r) \in User /\ req[r].addr \in Addr
  BY <1>0, EntryFacts
<1>2. e.login = r /\ e.no = saves + 1
  OBVIOUS
<1>3. /\ saves' = e.no /\ sess' = [sess EXCEPT ![Me(r)] = e]
      /\ index' = [index EXCEPT ![req[r].addr] = e]
      /\ last' = [k \in User \cup Addr |-> IF k \in {Me(r), req[r].addr} THEN e.no ELSE last[k]]
      /\ cut' = cut \ {Me(r), req[r].addr}
  BY DEF Written
<1>. HIDE DEF e
<1>4. \A u \in User : sess'[u] = IF u = Me(r) THEN e ELSE sess[u]
  BY <1>3 DEF TypeOK
<1>5. \A a \in Addr : index'[a] = IF a = req[r].addr THEN e ELSE index[a]
  BY <1>3 DEF TypeOK
<1>6. e # None
  BY <1>1
<1>. QED  BY <1>1, <1>2, <1>3, <1>4, <1>5, <1>6

\* What a delete and the clock leave.
LEMMA AgedFacts ==
    ASSUME NEW e PROVE Aged(e) # None => e # None /\ Aged(e).login = e.login /\ Aged(e).no = e.no
BY DEF Aged

LEMMA TickFacts ==
    ASSUME Tick
    PROVE  /\ \A u \in User : sess'[u] = Aged(sess[u])
           /\ \A a \in Addr : index'[a] = Aged(index[a])
           /\ UNCHANGED <<req, saves, via, last, cut>>
BY DEF Tick, local, history

LEMMA DeleteFacts ==
    ASSUME TypeOK, Untouched, Named, NEW r \in Request, Delete(r)
    PROVE  /\ UNCHANGED <<req, saves, via, last>>
           /\ \/ UNCHANGED <<sess, index, cut>>
              \/ \E a \in Addr :
                    /\ Me(r) \in User
                    /\ \A u \in User : sess'[u] = IF u = Me(r) THEN None ELSE sess[u]
                    /\ \A b \in Addr : index'[b] = IF b = a THEN None ELSE index[b]
                    /\ cut' = cut \cup {Me(r), a}
<1>1. UNCHANGED <<req, saves, via, last>>
  BY DEF Delete, local
<1>2. Me(r) \in User
  BY Called DEF Delete
<1>3. req[held[r].login].addr \in Addr
  <2>1. held[r] # None /\ Sound(held[r])
    BY DEF Delete, Named
  <2>2. held[r].login \in Request
    BY <2>1 DEF TypeOK, Entry
  <2>. QED  BY <2>1, <2>2 DEF Sound, Is, TypeOK, Input
<1>4. \/ UNCHANGED <<sess, index, cut>>
      \/ /\ sess' = [sess EXCEPT ![Me(r)] = None]
         /\ index' = [index EXCEPT ![req[held[r].login].addr] = None]
         /\ cut' = cut \cup {Me(r), req[held[r].login].addr}
  BY DEF Delete
<1>. QED  BY <1>1, <1>2, <1>3, <1>4 DEF TypeOK

\* The entries of the state, and to whom they belong.
LEMMA EntryOf ==
    ASSUME TypeOK, Named
    PROVE  /\ \A u \in User : sess[u] # None =>
                 sess[u].no \in Nat /\ Is(sess[u].login, "login") /\ Owner(sess[u]) = u
                 /\ sess[u].login \in accepted /\ req[sess[u].login].addr \in Addr
           /\ \A a \in Addr : index[a] # None =>
                 index[a].no \in Nat /\ Is(index[a].login, "login") /\ Owner(index[a]) \in User
                 /\ index[a].login \in accepted /\ req[index[a].login].addr = a
           /\ \A r \in Request : via[r] # None =>
                 via[r].no \in Nat /\ Is(via[r].login, "login") /\ Owner(via[r]) \in User
                 /\ via[r].login \in accepted
BY DEF TypeOK, Entry, Named, Sound, Owner, Is, Input

LEMMA NumberedStep ==
    ASSUME TypeOK, Untouched, Stages, Named, Numbered, [Next]_vars PROVE Numbered'
<1>0. /\ saves \in Nat
      /\ \A u \in User : sess[u] # None => sess[u].no \in Nat
      /\ \A a \in Addr : index[a] # None => index[a].no \in Nat
      /\ \A r \in Request : via[r] # None => via[r].no \in Nat
  BY EntryOf DEF TypeOK
<1>1. ASSUME NEW r \in accepted, Written(r), via' = via PROVE Numbered'
  <2>1. PICK e \in Entry :
          /\ e.no = saves + 1 /\ saves' = saves + 1
          /\ \A u \in User : sess'[u] = IF u = Me(r) THEN e ELSE sess[u]
          /\ \A a \in Addr : index'[a] = IF a = req[r].addr THEN e ELSE index[a]
    BY <1>1, WrittenFacts
  <2>. QED  BY <1>0, <1>1, <2>1 DEF Numbered
<1>2. CASE Tick
  BY <1>2, TickFacts, AgedFacts DEF Numbered
<1>3. ASSUME NEW r \in Request, Delete(r) PROVE Numbered'
  <2>1. /\ saves' = saves /\ via' = via
        /\ \A u \in User : sess'[u] \in {None, sess[u]}
        /\ \A a \in Addr : index'[a] \in {None, index[a]}
    BY <1>3, DeleteFacts
  <2>. QED  BY <2>1 DEF Numbered
<1>4. CASE /\ UNCHANGED <<sess, index, saves, last, cut>>
           /\ \A r \in Request : via'[r] = via[r] \/ \E a \in Addr : via'[r] = index[a]
  BY <1>4 DEF Numbered
<1>. QED  BY <1>1, <1>2, <1>3, <1>4, StoreMoves

\* An entry keeps its owner.
LEMMA OwnerStays ==
    ASSUME TypeOK, [Next]_vars, NEW e, e.login \in accepted, Is(e.login, "login")
    PROVE  Owner(e)' = Owner(e)
BY SoundStays DEF Owner

\* An entry that is not newer than its owner's session stays so.
LEMMA NotOlderStays ==
    ASSUME TypeOK, Untouched, Stages, Named, Numbered, [Next]_vars,
           NEW e, e.login \in accepted, Is(e.login, "login"), Owner(e) \in User,
           e.no \in Nat, e.no <= saves, NotOlder(e)
    PROVE  sess'[Owner(e)] # None => sess'[Owner(e)].no >= e.no
<1>. DEFINE u == Owner(e)
<1>0. saves \in Nat
  BY DEF TypeOK
<1>1. ASSUME NEW r \in accepted, Written(r) PROVE sess'[u] # None => sess'[u].no >= e.no
  <2>1. PICK f \in Entry :
          /\ f.no = saves + 1
          /\ \A v \in User : sess'[v] = IF v = Me(r) THEN f ELSE sess[v]
    BY <1>1, WrittenFacts
  <2>. QED  BY <1>0, <2>1 DEF NotOlder
<1>2. CASE Tick
  BY <1>2, TickFacts, AgedFacts DEF NotOlder
<1>3. ASSUME NEW r \in Request, Delete(r) PROVE sess'[u] # None => sess'[u].no >= e.no
  <2>1. \A v \in User : sess'[v] \in {None, sess[v]}
    BY <1>3, DeleteFacts
  <2>. QED  BY <2>1 DEF NotOlder
<1>4. CASE sess' = sess
  BY <1>4 DEF NotOlder
<1>. QED  BY <1>1, <1>2, <1>3, <1>4, StoreMoves

\* An address entry that is there after a step was there, or a Save wrote it with
\* the session of its owner.
LEMMA IndexStep ==
    ASSUME TypeOK, Untouched, Stages, Named, [Next]_vars, NEW a \in Addr, index'[a] # None
    PROVE  \/ index[a] # None /\ index'[a].login = index[a].login /\ index'[a].no = index[a].no
           \/ \E r \in accepted :
                 /\ Me(r) \in User /\ req' = req /\ index'[a].login = r
                 /\ sess'[Me(r)] = index'[a]
<1>1. ASSUME NEW r \in accepted, Written(r), req' = req
      PROVE  \/ index'[a] = index[a]
             \/ /\ Me(r) \in User /\ index'[a].login = r /\ sess'[Me(r)] = index'[a]
  BY <1>1, WrittenFacts
<1>2. CASE Tick
  BY <1>2, TickFacts, AgedFacts
<1>3. ASSUME NEW r \in Request, Delete(r) PROVE index'[a] = index[a]
  BY <1>3, DeleteFacts
<1>4. CASE index' = index
  BY <1>4
<1>. QED  BY <1>1, <1>2, <1>3, <1>4, StoreMoves

LEMMA ViaStep ==
    ASSUME TypeOK, Untouched, Stages, Named, [Next]_vars, NEW r \in Request
    PROVE  via'[r] = via[r] \/ \E a \in Addr : via'[r] = index[a]
BY StoreMoves, TickFacts, DeleteFacts

LEMMA OrderedStep ==
    ASSUME TypeOK, Untouched, Stages, Named, Numbered, Ordered, [Next]_vars PROVE Ordered'
<1>. DEFINE U(f) == req'[f.login].user
            Fine(f) == sess'[U(f)] # None => sess'[U(f)].no >= f.no
<1>0. TypeOK'
  BY TypeStep
<1>1. ASSUME NEW e, e.login \in accepted, Is(e.login, "login"), Owner(e) \in User,
             e.no \in Nat, e.no <= saves, NotOlder(e),
             NEW f, f.login = e.login, f.no = e.no
      PROVE  Fine(f)
  <2>1. sess'[Owner(e)] # None => sess'[Owner(e)].no >= e.no
    BY <1>1, NotOlderStays
  <2>2. U(f) = Owner(e)
    BY <1>1, SoundStays DEF Owner
  <2>. HIDE DEF U
  <2>. QED  BY <1>1, <2>1, <2>2
<1>2. ASSUME NEW a \in Addr, index[a] # None, NEW f,
             f.login = index[a].login, f.no = index[a].no
      PROVE  Fine(f)
  <2>. HIDE DEF Fine
  <2>. QED  BY <1>1, <1>2, EntryOf DEF Numbered, Ordered
<1>3. ASSUME NEW a \in Addr, index'[a] # None PROVE Fine(index'[a])
  <2>1. CASE index[a] # None /\ index'[a].login = index[a].login /\ index'[a].no = index[a].no
    <3>. HIDE DEF Fine
    <3>. QED  BY <1>2, <2>1
  <2>2. ASSUME NEW r \in accepted, Me(r) \in User, req' = req, index'[a].login = r,
               sess'[Me(r)] = index'[a]
        PROVE  Fine(index'[a])
    <3>1. U(index'[a]) = Me(r)
      BY <2>2 DEF Me
    <3>2. index'[a].no \in Nat
      BY <1>0, <1>3 DEF TypeOK, Entry
    <3>. HIDE DEF U
    <3>. QED  BY <2>2, <3>1, <3>2
  <2>. HIDE DEF Fine
  <2>. QED  BY <1>3, <2>1, <2>2, IndexStep
<1>4. ASSUME NEW r \in Request, via'[r] # None PROVE Fine(via'[r])
  <2>1. CASE via'[r] = via[r]
    <3>. HIDE DEF Fine
    <3>. QED  BY <1>1, <1>4, <2>1, EntryOf DEF Numbered, Ordered
  <2>2. CASE \E a \in Addr : via'[r] = index[a]
    <3>. HIDE DEF Fine
    <3>. QED  BY <1>2, <1>4, <2>2
  <2>. QED  BY <2>1, <2>2, ViaStep
<1>. QED  BY <1>3, <1>4 DEF Ordered, NotOlder, Owner

\* Only FindSession answers with a session.
LEMMA EndsElsewhere ==
    ASSUME TypeOK, NEW r \in Request, Handle(r), ~FindSession(r) PROVE pc'[r] # "found"
<1>1. CASE Receive(r) \/ CheckFlag(r) \/ CheckGrant(r) \/ Authenticate(r)
  BY <1>1 DEF Receive, CheckFlag, CheckGrant, Authenticate, Admitted, Goto, TypeOK
<1>2. CASE Resolve(r)
  BY <1>2, ResolveFacts DEF ResolvedAs, Goto, TypeOK
<1>3. CASE Save(r) \/ FindUser(r) \/ Delete(r)
  BY <1>3 DEF Save, FindUser, Delete, Goto, TypeOK
<1>. QED  BY <1>1, <1>2, <1>3 DEF Handle

\* A lookup finds the session its entry led to.
LEMMA FoundStep ==
    ASSUME TypeOK, Untouched, Stages, Named, Ordered, LookupNotOlder, [Next]_vars
    PROVE  LookupNotOlder'
<1>. SUFFICES ASSUME NEW r \in Request, pc'[r] = "found", via'[r] # None
              PROVE  /\ held'[r].no >= via'[r].no
                     /\ req'[held'[r].login].user = req'[via'[r].login].user
  BY DEF LookupNotOlder, Owner
<1>1. CASE FindSession(r)
  <2>1. via' = via /\ req' = req
    BY <1>1 DEF FindSession, redis
  <2>2. held'[r] = sess[Sought(r)] /\ sess[Sought(r)] # None
    BY <1>1 DEF FindSession, Goto, TypeOK
  <2>3. Sought(r) = Owner(via[r]) /\ Owner(via[r]) \in User
    BY <2>1, EntryOf DEF Sought
  <2>4. Owner(sess[Sought(r)]) = Sought(r)
    BY <2>2, <2>3, EntryOf
  <2>. QED  BY <2>1, <2>2, <2>3, <2>4 DEF Ordered, NotOlder, Owner
<1>2. ASSUME pc[r] = "found", via'[r] = via[r], held'[r] = held[r]
      PROVE  /\ held'[r].no >= via'[r].no
             /\ req'[held'[r].login].user = req'[via'[r].login].user
  <2>1. held[r].no >= via[r].no /\ Owner(held[r]) = Owner(via[r])
    BY <1>2 DEF LookupNotOlder
  <2>2. Sound(via[r]) /\ Sound(held[r])
    BY <1>2 DEF Named
  <2>3. req'[via[r].login] = req[via[r].login] /\ req'[held[r].login] = req[held[r].login]
    BY <2>2, SoundStays DEF Sound
  <2>. QED  BY <1>2, <2>1, <2>3 DEF Owner
<1>3. CASE Still(r)
  BY <1>2, <1>3 DEF Still
<1>4. ASSUME NEW i \in Input, Submit(r, i) PROVE FALSE
  BY <1>4 DEF Submit, Goto, TypeOK, Input
<1>5. CASE LosePost(r)
  BY <1>2, <1>5 DEF LosePost, Goto, TypeOK, local
<1>6. CASE Handle(r) /\ ~FindSession(r)
  <2>1. pc'[r] # "found"
    BY <1>6, EndsElsewhere
  <2>. QED  BY <2>1
<1>. QED  BY <1>1, <1>3, <1>4, <1>5, <1>6, Frame

\* The two keys of a session agree after a step, or the history says why not.
LEMMA AgreeStep ==
    ASSUME TypeOK, Untouched, Stages, Named, Numbered, KeysAgree, [Next]_vars
    PROVE  KeysAgree'
<1>0. saves \in Nat /\ last \in [User \cup Addr -> Nat]
  BY DEF TypeOK
<1>. DEFINE Here(u) == req[sess[u].login].addr
            Next1(u) == req'[sess'[u].login].addr
            Next2(a) == req'[index'[a].login].user
            Good1(u) == \/ index'[Next1(u)] = sess'[u] \/ last'[Next1(u)] > sess'[u].no
                        \/ Next1(u) \in cut'
            Good2(a) == \/ sess'[Next2(a)] = index'[a] \/ last'[Next2(a)] > index'[a].no
                        \/ Next2(a) \in cut'
<1>1. ASSUME NEW u \in User, sess[u] # None
      PROVE  /\ Here(u) \in Addr /\ sess[u].no \in Nat /\ sess[u].no <= saves
             /\ index[Here(u)] = sess[u] \/ last[Here(u)] > sess[u].no \/ Here(u) \in cut
             /\ req'[sess[u].login] = req[sess[u].login]
  BY <1>1, EntryOf, SoundStays DEF Numbered, KeysAgree
<1>2. ASSUME NEW a \in Addr, index[a] # None
      PROVE  /\ Owner(index[a]) \in User /\ index[a].no \in Nat /\ index[a].no <= saves
             /\ \/ sess[Owner(index[a])] = index[a] \/ last[Owner(index[a])] > index[a].no
                \/ Owner(index[a]) \in cut
             /\ req'[index[a].login] = req[index[a].login]
  BY <1>2, EntryOf, SoundStays DEF Numbered, KeysAgree
<1>3. ASSUME NEW u \in User, sess'[u] # None PROVE Good1(u)
  <2>1. ASSUME NEW r \in accepted, Written(r), req' = req PROVE Good1(u)
    <3>1. PICK e \in Entry :
            /\ e.login = r /\ e.no = saves + 1 /\ Me(r) \in User /\ req[r].addr \in Addr
            /\ \A v \in User : sess'[v] = IF v = Me(r) THEN e ELSE sess[v]
            /\ \A a \in Addr : index'[a] = IF a = req[r].addr THEN e ELSE index[a]
            /\ \A k \in User \cup Addr :
                  last'[k] = IF k \in {Me(r), req[r].addr} THEN saves + 1 ELSE last[k]
            /\ cut' = cut \ {Me(r), req[r].addr}
      BY <2>1, WrittenFacts
    <3>2. CASE u = Me(r)
      BY <2>1, <3>1, <3>2
    <3>3. CASE u # Me(r)
      <4>1. sess'[u] = sess[u] /\ Next1(u) = Here(u)
        BY <2>1, <3>1, <3>3
      <4>2. Here(u) # Me(r)
        BY <1>1, <1>3, <3>1, <4>1
      <4>. QED  BY <1>0, <1>1, <1>3, <3>1, <4>1, <4>2
    <3>. QED  BY <3>2, <3>3
  <2>2. CASE Tick
    <3>1. sess'[u] = Aged(sess[u]) /\ sess[u] # None
      BY <1>3, <2>2, TickFacts, AgedFacts
    <3>2. Next1(u) = Here(u) /\ Here(u) \in Addr /\ sess'[u].no = sess[u].no
      BY <1>1, <1>3, <3>1, AgedFacts
    <3>. QED  BY <1>1, <2>2, <3>1, <3>2, TickFacts
  <2>3. ASSUME NEW r \in Request, Delete(r) PROVE Good1(u)
    <3>1. sess'[u] = sess[u] /\ sess[u] # None /\ Next1(u) = Here(u) /\ Here(u) \in Addr
      BY <1>1, <1>3, <2>3, DeleteFacts
    <3>2. last' = last /\ cut \subseteq cut'
          /\ (index'[Here(u)] = index[Here(u)] \/ Here(u) \in cut')
      BY <2>3, <3>1, DeleteFacts
    <3>. QED  BY <1>1, <3>1, <3>2
  <2>4. CASE UNCHANGED <<sess, index, saves, last, cut>>
    <3>1. sess[u] # None /\ Next1(u) = Here(u)
      BY <1>1, <1>3, <2>4
    <3>. QED  BY <1>1, <2>4, <3>1
  <2>. HIDE DEF Good1
  <2>. QED  BY <2>1, <2>2, <2>3, <2>4, StoreMoves
<1>4. ASSUME NEW a \in Addr, index'[a] # None PROVE Good2(a)
  <2>1. ASSUME NEW r \in accepted, Written(r), req' = req PROVE Good2(a)
    <3>1. PICK e \in Entry :
            /\ e.login = r /\ e.no = saves + 1 /\ Me(r) \in User /\ req[r].addr \in Addr
            /\ \A v \in User : sess'[v] = IF v = Me(r) THEN e ELSE sess[v]
            /\ \A b \in Addr : index'[b] = IF b = req[r].addr THEN e ELSE index[b]
            /\ \A k \in User \cup Addr :
                  last'[k] = IF k \in {Me(r), req[r].addr} THEN saves + 1 ELSE last[k]
            /\ cut' = cut \ {Me(r), req[r].addr}
      BY <2>1, WrittenFacts
    <3>2. CASE a = req[r].addr
      <4>1. Next2(a) = Me(r)
        BY <2>1, <3>1, <3>2 DEF Me
      <4>. QED  BY <3>1, <3>2, <4>1
    <3>3. CASE a # req[r].addr
      <4>1. index'[a] = index[a] /\ Next2(a) = Owner(index[a])
        BY <2>1, <3>1, <3>3 DEF Owner
      <4>2. Owner(index[a]) # req[r].addr
        BY <1>2, <1>4, <3>1, <4>1
      <4>. QED  BY <1>0, <1>2, <1>4, <3>1, <4>1, <4>2
    <3>. QED  BY <3>2, <3>3
  <2>2. CASE Tick
    <3>1. index'[a] = Aged(index[a]) /\ index[a] # None
      BY <1>4, <2>2, TickFacts, AgedFacts
    <3>2. /\ Next2(a) = Owner(index[a]) /\ Owner(index[a]) \in User
          /\ index'[a].no = index[a].no
      BY <1>2, <1>4, <3>1, AgedFacts DEF Owner
    <3>. QED  BY <1>2, <2>2, <3>1, <3>2, TickFacts
  <2>3. ASSUME NEW r \in Request, Delete(r) PROVE Good2(a)
    <3>1. /\ index'[a] = index[a] /\ index[a] # None
          /\ Next2(a) = Owner(index[a]) /\ Owner(index[a]) \in User
      BY <1>2, <1>4, <2>3, DeleteFacts DEF Owner
    <3>2. last' = last /\ cut \subseteq cut'
          /\ (sess'[Owner(index[a])] = sess[Owner(index[a])] \/ Owner(index[a]) \in cut')
      BY <2>3, <3>1, DeleteFacts
    <3>. QED  BY <1>2, <3>1, <3>2
  <2>4. CASE UNCHANGED <<sess, index, saves, last, cut>>
    <3>1. index[a] # None /\ Next2(a) = Owner(index[a])
      BY <1>2, <1>4, <2>4 DEF Owner
    <3>. QED  BY <1>2, <2>4, <3>1
  <2>. HIDE DEF Good2
  <2>. QED  BY <2>1, <2>2, <2>3, <2>4, StoreMoves
<1>. QED  BY <1>3, <1>4 DEF KeysAgree, Owner

\* The history of turned keys grows.
LEMMA MovedGrows ==
    ASSUME TypeOK, [Next]_vars, NEW r \in Request PROVE moved[r] \subseteq moved'[r]
<1>1. ASSUME NEW s \in Strategy, NEW k \in User \cup {All}, SetFlag(s, k)
      PROVE  moved[r] \subseteq moved'[r]
  BY <1>1 DEF SetFlag
<1>2. ASSUME NEW u \in User, NEW p \in Policy \cup {None, Broken}, SetOverride(u, p)
      PROVE  moved' = moved
  BY <1>2 DEF SetOverride
<1>3. ASSUME NEW q \in Request, LateSave(q) \/ ShowPage(q) \/ LosePost(q)
      PROVE  moved' = moved
  BY <1>3 DEF LateSave, ShowPage, LosePost, history
<1>4. ASSUME NEW q \in Request, NEW i \in Input, Submit(q, i) PROVE moved' = moved
  BY <1>4 DEF Submit
<1>5. ASSUME NEW q \in Request, Handle(q) PROVE moved' = moved
  BY <1>5 DEF Handle, Receive, Resolve, CheckFlag, CheckGrant, Authenticate, Save, FindUser,
     FindSession, Delete, history
<1>6. CASE Tick \/ UNCHANGED vars
  BY <1>6 DEF Tick, vars, history
<1>. QED  BY <1>1, <1>2, <1>3, <1>4, <1>5, <1>6 DEF Next

\* A flag does not change between the two reads of it, or one key is turned and the
\* history says so.
LEMMA TurnedStep ==
    ASSUME TypeOK, [Next]_vars, NEW r \in Request, Still(r), pc[r] = "flagUser"
    PROVE  \/ flag'[chosen[r]] = flag[chosen[r]]
           \/ \E k \in User \cup {All} :
                 /\ \A j : j # k => (j \in flag'[chosen[r]] <=> j \in flag[chosen[r]])
                 /\ k \in moved'[r]
                 /\ ~On(r)' => FALSE \in flags'[r]
<1>0. chosen'[r] = chosen[r] /\ req'[r] = req[r]
  BY DEF Still
<1>1. ASSUME NEW s \in Strategy, NEW k \in User \cup {All}, SetFlag(s, k), chosen[r] = s
      PROVE  /\ \A j : j # k => (j \in flag'[chosen[r]] <=> j \in flag[chosen[r]])
             /\ k \in moved'[r]
             /\ ~On(r)' => FALSE \in flags'[r]
  <2>. DEFINE b == \E j \in {All, Me(r)} : j \in flag'[s]
  <2>1. flag'[s] = IF k \in flag[s] THEN flag[s] \ {k} ELSE flag[s] \cup {k}
    BY <1>1 DEF SetFlag, TypeOK
  <2>2. k \in moved'[r]
    BY <1>1 DEF SetFlag
  <2>3. flags'[r] = flags[r] \cup {b}
    BY <1>1 DEF SetFlag
  <2>4. ~On(r)' => b = FALSE
    BY <1>0, <1>1 DEF On, Me
  <2>5. \A j : j # k => (j \in flag'[chosen[r]] <=> j \in flag[chosen[r]])
    BY <1>1, <2>1
  <2>6. b = FALSE => FALSE \in flags'[r]
    <3>. HIDE DEF b
    <3>. QED  BY <2>3
  <2>. QED  BY <2>2, <2>4, <2>5, <2>6
<1>2. ASSUME NEW s \in Strategy, NEW k \in User \cup {All}, SetFlag(s, k), chosen[r] # s
      PROVE  flag'[chosen[r]] = flag[chosen[r]]
  BY <1>2 DEF SetFlag, TypeOK
<1>3. ASSUME NEW u \in User, NEW p \in Policy \cup {None, Broken}, SetOverride(u, p)
      PROVE  flag' = flag
  BY <1>3 DEF SetOverride
<1>4. ASSUME NEW q \in Request, LateSave(q) \/ ShowPage(q) \/ LosePost(q)
      PROVE  flag' = flag
  BY <1>4 DEF LateSave, ShowPage, LosePost, redis
<1>5. ASSUME NEW q \in Request, NEW i \in Input, Submit(q, i) PROVE flag' = flag
  BY <1>5 DEF Submit, redis
<1>6. CASE Tick \/ UNCHANGED vars
  BY <1>6 DEF Tick, vars, redis
<1>. QED  BY <1>1, <1>2, <1>3, <1>4, <1>5, <1>6, HandleFacts DEF Next

\* Where a handler goes from the two reads of the flag.
LEMMA FlagReads ==
    ASSUME TypeOK, NEW r \in Request, Handle(r)
    PROVE  /\ pc'[r] = "flagUser" => CheckFlag(r)
           /\ pc'[r] = "closed" => CheckGrant(r)
<1>1. CASE Receive(r) \/ Authenticate(r)
  BY <1>1 DEF Receive, Authenticate, Goto, TypeOK
<1>2. CASE Resolve(r)
  BY <1>2, ResolveFacts DEF ResolvedAs, Goto, TypeOK
<1>3. CASE CheckFlag(r)
  BY <1>3 DEF CheckFlag, Admitted, Goto, TypeOK
<1>4. CASE CheckGrant(r)
  BY <1>4 DEF CheckGrant, Admitted, Goto, TypeOK
<1>5. CASE Save(r) \/ FindUser(r) \/ FindSession(r) \/ Delete(r)
  BY <1>5 DEF Save, FindUser, FindSession, Delete, Goto, TypeOK
<1>. QED  BY <1>1, <1>2, <1>3, <1>4, <1>5 DEF Handle

LEMMA ClosingStep ==
    ASSUME TypeOK, Untouched, Closing, [Next]_vars PROVE Closing'
<1>. SUFFICES ASSUME NEW r \in Request, pc'[r] = "flagUser" PROVE ClosingOf(r)'
  BY DEF Closing, ClosingOf
<1>1. CASE Still(r)
  <2>1. /\ pc[r] = "flagUser" /\ failed'[r] = failed[r] /\ flags[r] \subseteq flags'[r]
        /\ chosen'[r] = chosen[r] /\ req'[r] = req[r] /\ moved[r] \subseteq moved'[r]
    BY <1>1, MovedGrows DEF Still
  <2>2. ClosingOf(r)
    BY DEF Closing
  <2>3. CASE flag'[chosen[r]] = flag[chosen[r]]
    BY <2>1, <2>2, <2>3 DEF ClosingOf, On, Me
  <2>4. ASSUME NEW k \in User \cup {All},
               \A j : j # k => (j \in flag'[chosen[r]] <=> j \in flag[chosen[r]]),
               k \in moved'[r], ~On(r)' => FALSE \in flags'[r]
        PROVE  ClosingOf(r)'
    <3>1. CASE ~On(r)'
      BY <2>4, <3>1 DEF ClosingOf
    <3>2. CASE On(r)'
      BY <2>1, <2>2, <2>4, <3>2 DEF ClosingOf, On, Me
    <3>. QED  BY <3>1, <3>2
  <2>. QED  BY <1>1, <2>1, <2>3, <2>4, TurnedStep
<1>2. ASSUME NEW i \in Input, Submit(r, i) PROVE FALSE
  BY <1>2 DEF Submit, Goto, TypeOK, Input
<1>3. CASE LosePost(r)
  <2>1. pc' = pc /\ UNCHANGED <<flag, failed, flags, chosen, req, moved>>
    BY <1>3 DEF LosePost, Goto, TypeOK, redis, local, history
  <2>. QED  BY <2>1 DEF Closing, ClosingOf, On, Me
<1>4. CASE Handle(r)
  <2>1. CheckFlag(r)
    BY <1>4, FlagReads
  <2>2. PICK f \in Outcome :
          /\ f # "ok" \/ All \notin flag[chosen[r]]
          /\ failed'[r] = (failed[r] \/ f # "ok")
    BY <2>1 DEF CheckFlag, Admitted, Goto, Report, TypeOK
  <2>3. UNCHANGED <<flag, chosen, req, moved>>
    BY <2>1 DEF CheckFlag, redis, local
  <2>4. ~On(r) => FALSE \in flags'[r]
    <3>. DEFINE b == On(r)
    <3>1. flags'[r] = {b} /\ (~On(r) => b = FALSE)
      BY <2>1 DEF CheckFlag, TypeOK, On
    <3>. HIDE DEF b
    <3>. QED  BY <3>1
  <2>. QED  BY <2>2, <2>3, <2>4 DEF ClosingOf, On, Me
<1>. QED  BY <1>1, <1>2, <1>3, <1>4, Frame

LEMMA ClosedStep ==
    ASSUME TypeOK, Untouched, Closing, ClosedExplained, [Next]_vars PROVE ClosedExplained'
<1>. SUFFICES ASSUME NEW r \in Request, pc'[r] = "closed"
              PROVE  FALSE \in flags'[r] \/ failed'[r] \/ {All, Me(r)'} \subseteq moved'[r]
  BY DEF ClosedExplained
<1>0. moved[r] \subseteq moved'[r]
  BY MovedGrows
<1>1. CASE Still(r)
  <2>1. /\ pc[r] = "closed" /\ failed'[r] = failed[r] /\ flags[r] \subseteq flags'[r]
        /\ Me(r)' = Me(r)
    BY <1>1 DEF Still, Me
  <2>. QED  BY <1>0, <2>1 DEF ClosedExplained
<1>2. ASSUME NEW i \in Input, Submit(r, i) PROVE FALSE
  BY <1>2 DEF Submit, Goto, TypeOK, Input
<1>3. CASE LosePost(r)
  <2>1. pc' = pc /\ UNCHANGED <<failed, flags, req, moved>>
    BY <1>3 DEF LosePost, Goto, TypeOK, redis, local, history
  <2>. QED  BY <2>1 DEF ClosedExplained, Me
<1>4. CASE Handle(r)
  <2>1. CheckGrant(r)
    BY <1>4, FlagReads
  <2>2. PICK f \in Outcome :
          /\ f # "ok" \/ Me(r) \notin flag[chosen[r]]
          /\ failed'[r] = (failed[r] \/ f # "ok")
    BY <2>1 DEF CheckGrant, Admitted, Goto, Report, TypeOK
  <2>3. pc[r] = "flagUser" /\ UNCHANGED <<req, flags, moved>>
    BY <2>1 DEF CheckGrant
  <2>. QED  BY <2>2, <2>3 DEF Closing, ClosingOf, On, Me
<1>. QED  BY <1>1, <1>2, <1>3, <1>4, Frame

LEMMA InitInv == Init => Inv
<1>1. Init => TypeOK /\ Untouched /\ Stages /\ Named /\ Rested /\ Failing
  BY DEF Init, TypeOK, Untouched, Stages, StageOf, Named, Rested, RestsOn, Failing, Early
<1>2. Init => Numbered /\ Ordered /\ LookupNotOlder /\ KeysAgree
  BY DEF Init, Numbered, Ordered, LookupNotOlder, KeysAgree
<1>3. Init => Closing /\ ClosedExplained
  BY DEF Init, Closing, ClosingOf, ClosedExplained
<1>. QED  BY <1>1, <1>2, <1>3 DEF Inv

LEMMA InvStep == Inv /\ [Next]_vars => Inv'
<1>. SUFFICES ASSUME Inv, [Next]_vars PROVE Inv'
  OBVIOUS
<1>1. /\ TypeOK /\ Untouched /\ Stages /\ Named /\ Rested /\ Failing
      /\ Numbered /\ Ordered /\ LookupNotOlder /\ KeysAgree
      /\ Closing /\ ClosedExplained
  BY DEF Inv
<1>2. TypeOK' /\ Untouched' /\ Stages'
  BY <1>1, TypeStep, UntouchedStep, StagesStep
<1>3. Named' /\ Rested' /\ Failing'
  BY <1>1, NamedStep, RestedStep, FailingStep
<1>4. Numbered' /\ Ordered' /\ LookupNotOlder' /\ KeysAgree'
  BY <1>1, NumberedStep, OrderedStep, FoundStep, AgreeStep
<1>5. Closing' /\ ClosedExplained'
  BY <1>1, ClosingStep, ClosedStep
<1>. QED  BY <1>2, <1>3, <1>4, <1>5 DEF Inv

LEMMA Invariance == Spec => []Inv
<1>. QED  BY InitInv, InvStep, PTL DEF Spec

-----------------------------------------------------------------------------
\* The device's variables keep their types, whatever fails.
THEOREM TypeCorrect == Spec => []TypeOK
<1>1. Inv => TypeOK
  BY DEF Inv
<1>. QED  BY <1>1, Invariance, PTL

\* A stored session rests on accepted credentials, on a strategy its policy allows,
\* on a flag that was on while it was checked and on a policy that was in force, or
\* on the default one for lack of an override (SelectAndBuild, PortalAuthHandler).
THEOREM GrantsAreJustified == Spec => []GrantJustified
<1>1. Inv => GrantJustified
  <2>. SUFFICES ASSUME Inv, NEW u \in User, sess[u] # None, NEW r, r = sess[u].login
                PROVE  /\ Is(r, "login") /\ Me(r) = u /\ r \in accepted
                       /\ chosen[r] \in Allowed[policy[r]] /\ TRUE \in flags[r]
                       /\ PolicyGiven(r)
    BY DEF GrantJustified, PolicyGiven
  <2>1. Is(r, "login") /\ Me(r) = u /\ r \in accepted
    BY DEF Inv, Named, Sound, Owner, Me
  <2>2. RestsOn(r)
    BY <2>1 DEF Inv, Rested, TypeOK
  <2>. QED  BY <2>1, <2>2 DEF RestsOn
<1>. QED  BY <1>1, Invariance, PTL

\* A session whose login was refused exists only if a command to Redis had failed
\* (SessionManager.Save).
THEOREM RefusedSessionsAreExplained == Spec => []RefusedSessionExplained
<1>1. Inv => RefusedSessionExplained
  BY DEF Inv, RefusedSessionExplained, Named, Sound, Failing
<1>. QED  BY <1>1, Invariance, PTL

\* A login is told that its strategy is not open only if it was closed at some
\* moment of the check, a read failed, or both keys were turned between the two
\* reads (RedisFeatureFlag.Enabled).
THEOREM ClosuresAreExplained == Spec => []ClosedExplained
<1>1. Inv => ClosedExplained
  BY DEF Inv
<1>. QED  BY <1>1, Invariance, PTL

\* The two keys of a session agree unless a later Save wrote one of them or a
\* delete removed it (SessionManager.Save, Delete).
THEOREM KeysStayInAgreement == Spec => []KeysAgree
<1>1. Inv => KeysAgree
  BY DEF Inv
<1>. QED  BY <1>1, Invariance, PTL

\* A lookup by address never answers with a session older than the entry it
\* followed, nor with another user's (SessionManager.GetByIP).
THEOREM LookupsAreNotOlder == Spec => []LookupNotOlder
<1>1. Inv => LookupNotOlder
  BY DEF Inv
<1>. QED  BY <1>1, Invariance, PTL

-----------------------------------------------------------------------------
(* The device implements LoginRegistry.                                     *)

LEMMA RegistryInit == Init => Registry!Init
BY DEF Init, Registry!Init, KeyOf, Holder, Told, Is

LEMMA SameKeys == ASSUME req' = req PROVE KeyOf' = KeyOf
BY DEF KeyOf, Is, Me

\* A login that is submitted begins; another call is none of the registry's.
LEMMA SubmitRefines ==
    ASSUME TypeOK, Untouched, NEW r \in Request, NEW i \in Input, Submit(r, i)
    PROVE  [Registry!Next]_Registry!vars
<1>1. /\ req[r] = None /\ req' = [req EXCEPT ![r] = i] /\ i # None /\ i.user \in User
      /\ page' = [page EXCEPT ![r] = IF i.op = "login" THEN "waiting" ELSE "none"]
      /\ sess' = sess /\ accepted' = accepted /\ stored' = stored
  BY DEF Submit, Input, redis
<1>2. page[r] = "none"
  BY <1>1 DEF Untouched
<1>3. Told' = Told
  BY <1>1, <1>2 DEF TypeOK, Told
<1>4. Holder' = Holder
  BY <1>1 DEF Holder
<1>5. CASE i.op = "login"
  <2>1. KeyOf[r] = None
    BY <1>1 DEF KeyOf, Is
  <2>2. KeyOf' = [KeyOf EXCEPT ![r] = i.user]
    BY <1>1, <1>5 DEF TypeOK, KeyOf, Is, Me
  <2>3. Registry!Begin(r, i.user, FALSE)
    BY <1>1, <1>3, <1>4, <2>1, <2>2 DEF Registry!Begin
  <2>. QED  BY <1>1, <2>3 DEF Registry!Next
<1>6. CASE i.op # "login"
  <2>1. KeyOf' = KeyOf
    BY <1>1, <1>6 DEF TypeOK, KeyOf, Is, Me
  <2>. QED  BY <1>1, <1>3, <1>4, <2>1 DEF Registry!vars
<1>. QED  BY <1>5, <1>6

\* The key of a login.
LEMMA LoginKey ==
    ASSUME TypeOK, NEW r \in Request, Is(r, "login")
    PROVE  KeyOf[r] = Me(r) /\ KeyOf[r] \in User /\ KeyOf[r] # None
BY DEF TypeOK, KeyOf, Is, Me, Input

\* A strategy that accepts approves the login.
LEMMA AuthenticateRefines ==
    ASSUME TypeOK, Stages, NEW r \in Request, Authenticate(r)
    PROVE  [Registry!Next]_Registry!vars
<1>1. /\ req' = req /\ page' = page /\ sess' = sess /\ stored' = stored
      /\ pc[r] = "auth" /\ accepted' \in {accepted, accepted \cup {r}}
  BY DEF Authenticate, redis
<1>2. KeyOf' = KeyOf /\ Told' = Told /\ Holder' = Holder
  BY <1>1, SameKeys DEF Told, Holder
<1>3. KeyOf[r] # None
  BY <1>1, LoginKey DEF Stages, StageOf, Early
<1>4. CASE accepted' = accepted
  BY <1>1, <1>2, <1>4 DEF Registry!vars
<1>5. CASE accepted' = accepted \cup {r}
  <2>1. Registry!Approve(r)
    BY <1>1, <1>2, <1>3, <1>5 DEF Registry!Approve
  <2>. QED  BY <2>1 DEF Registry!Next
<1>. QED  BY <1>1, <1>4, <1>5

\* The MULTI of Save stores the login, whenever Redis executes it.
LEMMA WrittenRefines ==
    ASSUME TypeOK, Stages, NEW r \in Request, r \in accepted, Written(r),
           req' = req, page' = page, accepted' = accepted
    PROVE  Registry!Next
<1>. DEFINE e == [login |-> r, no |-> saves + 1, ttl |-> Lifetime(r)]
<1>1. KeyOf[r] = Me(r) /\ Me(r) \in User
  BY LoginKey DEF Stages, StageOf
<1>2. e.login = r /\ e # None
  <2>1. e \in Entry
    <3>1. Is(r, "login") /\ policy[r] \in Policy
      BY DEF Stages, StageOf
    <3>2. Lifetime(r) \in Nat \ {0} /\ saves + 1 \in Nat
      BY <3>1 DEF Lifetime, TypeOK
    <3>. QED  BY <3>2 DEF Entry
  <2>. QED  BY <2>1
<1>3. sess' = [sess EXCEPT ![Me(r)] = e] /\ stored' = stored \cup {r}
  BY DEF Written
<1>. HIDE DEF e
<1>4. Holder' = [Holder EXCEPT ![Me(r)] = r]
  BY <1>1, <1>2, <1>3 DEF Holder, TypeOK
<1>5. KeyOf' = KeyOf /\ Told' = Told
  BY SameKeys DEF Told
<1>6. Registry!Store(r, FALSE)
  BY <1>1, <1>3, <1>4, <1>5 DEF Registry!Store
<1>. QED  BY <1>6 DEF Registry!Next

LEMMA SaveRefines ==
    ASSUME TypeOK, Stages, NEW r \in Request, Save(r) \/ LateSave(r)
    PROVE  [Registry!Next]_Registry!vars
<1>1. r \in accepted
  BY DEF Save, LateSave, Stages, StageOf
<1>2. req' = req /\ page' = page /\ accepted' = accepted
  BY DEF Save, LateSave
<1>3. Written(r) \/ (sess' = sess /\ stored' = stored)
  BY DEF Save, LateSave, NotWritten
<1>4. CASE Written(r)
  BY <1>1, <1>2, <1>4, WrittenRefines
<1>5. CASE sess' = sess /\ stored' = stored
  BY <1>2, <1>5, SameKeys DEF Told, Holder, Registry!vars
<1>. QED  BY <1>3, <1>4, <1>5

\* Delete and the clock take sessions away.
LEMMA Ends ==
    ASSUME TypeOK, req' = req, page' = page, accepted' = accepted, stored' = stored,
           \A u \in User : sess'[u] = None \/
               (sess[u] # None /\ sess'[u] # None /\ sess'[u].login = sess[u].login)
    PROVE  Registry!Next
<1>. DEFINE K == {u \in User : sess'[u] = None}
<1>1. KeyOf' = KeyOf /\ Told' = Told
  BY SameKeys DEF Told
<1>2. Holder' = [u \in User |-> IF u \in K THEN None ELSE Holder[u]]
  BY DEF Holder
<1>3. Registry!End(K)
  BY <1>1, <1>2 DEF Registry!End
<1>4. K \in SUBSET User
  OBVIOUS
<1>. HIDE DEF K
<1>. QED  BY <1>3, <1>4 DEF Registry!Next

LEMMA DeleteRefines ==
    ASSUME TypeOK, NEW r \in Request, Delete(r) PROVE [Registry!Next]_Registry!vars
<1>1. req' = req /\ page' = page /\ accepted' = accepted /\ stored' = stored
  BY DEF Delete
<1>2. \/ sess' = sess
      \/ \A u \in User : sess'[u] \in {None, sess[u]}
  BY DEF Delete, TypeOK
<1>3. CASE sess' = sess
  BY <1>1, <1>3, SameKeys DEF Told, Holder, Registry!vars
<1>4. CASE \A u \in User : sess'[u] \in {None, sess[u]}
  <2>1. \A u \in User : sess'[u] = None \/
            (sess[u] # None /\ sess'[u] # None /\ sess'[u].login = sess[u].login)
    BY <1>4
  <2>2. Registry!Next
    BY <1>1, <2>1, Ends
  <2>. QED  BY <2>2
<1>. QED  BY <1>2, <1>3, <1>4

LEMMA TickRefines == ASSUME TypeOK, Tick PROVE Registry!Next
<1>1. req' = req /\ page' = page /\ accepted' = accepted /\ stored' = stored
  BY DEF Tick, history
<1>2. ASSUME NEW e PROVE Aged(e) # None => e # None /\ Aged(e).login = e.login
  BY DEF Aged
<1>3. \A u \in User : sess'[u] = Aged(sess[u])
  BY DEF Tick
<1>4. \A u \in User : sess'[u] = None \/
          (sess[u] # None /\ sess'[u] # None /\ sess'[u].login = sess[u].login)
  BY <1>2, <1>3
<1>. QED  BY <1>1, <1>4, Ends

\* The portal tells the client what became of its login, once.
LEMMA PageRefines ==
    ASSUME TypeOK, Stages, NEW r \in Request, ShowPage(r) \/ LosePost(r)
    PROVE  [Registry!Next]_Registry!vars
<1>1. /\ req' = req /\ sess' = sess /\ accepted' = accepted /\ stored' = stored
      /\ page[r] = "waiting"
  BY DEF ShowPage, LosePost, redis, history
<1>2. KeyOf' = KeyOf /\ Holder' = Holder
  BY <1>1, SameKeys DEF Holder
<1>3. KeyOf[r] # None /\ Told[r] = "nothing"
  BY <1>1, LoginKey DEF Stages, StageOf, Told
<1>4. PICK b \in {"yes", "no"} :
          Told' = [Told EXCEPT ![r] = b] /\ (b = "yes" => pc[r] = "granted")
  <2>1. CASE ShowPage(r) /\ pc[r] = "granted"
    <3>1. page' = [page EXCEPT ![r] = "success"]
      BY <2>1 DEF ShowPage
    <3>2. Told' = [Told EXCEPT ![r] = "yes"]
      BY <3>1 DEF TypeOK, Told
    <3>. QED  BY <2>1, <3>2
  <2>2. CASE ~(ShowPage(r) /\ pc[r] = "granted")
    <3>1. page' = [page EXCEPT ![r] = "failed"]
      BY <2>2 DEF ShowPage, LosePost
    <3>2. Told' = [Told EXCEPT ![r] = "no"]
      BY <3>1 DEF TypeOK, Told
    <3>. QED  BY <3>2
  <2>. QED  BY <2>1, <2>2
<1>5. b = "yes" => r \in stored
  BY <1>4 DEF Stages, StageOf
<1>6. Registry!Tell(r, b)
  BY <1>1, <1>2, <1>3, <1>4, <1>5 DEF Registry!Tell
<1>. QED  BY <1>6 DEF Registry!Next

LEMMA RegistryStep == Inv /\ [Next]_vars => [Registry!Next]_Registry!vars
<1>. SUFFICES ASSUME Inv, [Next]_vars PROVE [Registry!Next]_Registry!vars
  OBVIOUS
<1>0. TypeOK /\ Untouched /\ Stages
  BY DEF Inv
<1>. DEFINE Same == req' = req /\ sess' = sess /\ page' = page
                    /\ accepted' = accepted /\ stored' = stored
<1>1. ASSUME Same PROVE UNCHANGED Registry!vars
  BY <1>1, SameKeys DEF Told, Holder, Registry!vars
<1>2. ASSUME NEW r \in Request, Handle(r) PROVE [Registry!Next]_Registry!vars
  <2>1. ASSUME \/ Receive(r) \/ Resolve(r) \/ CheckFlag(r) \/ CheckGrant(r)
               \/ FindUser(r) \/ FindSession(r)
        PROVE  Same
    BY <2>1 DEF Receive, Resolve, CheckFlag, CheckGrant, FindUser, FindSession, redis, history
  <2>. QED
    BY <1>0, <1>1, <1>2, <2>1, AuthenticateRefines, SaveRefines, DeleteRefines DEF Handle
<1>3. ASSUME NEW u \in User, NEW p \in Policy \cup {None, Broken}, SetOverride(u, p)
      PROVE  Same
  BY <1>3 DEF SetOverride
<1>4. ASSUME NEW s \in Strategy, NEW k \in User \cup {All}, SetFlag(s, k) PROVE Same
  BY <1>4 DEF SetFlag
<1>5. ASSUME UNCHANGED vars PROVE Same
  BY <1>5 DEF vars, redis, history
<1>. HIDE DEF Same
<1>. QED
  BY <1>0, <1>1, <1>2, <1>3, <1>4, <1>5, SubmitRefines, SaveRefines, PageRefines, TickRefines
  DEF Next

\* The device keeps what a registry of logins promises: only accepted logins are
\* stored, under their own user, and the success page is shown for stored logins
\* only (PortalAuthHandler, SessionManager, handleLogin), whatever fails.
THEOREM ImplementsRegistry == Spec => RegistrySpec
<1>1. Init => Registry!Init
  BY RegistryInit
<1>2. Inv /\ [Next]_vars => [Registry!Next]_Registry!vars
  BY RegistryStep
<1>. QED  BY <1>1, <1>2, Invariance, PTL DEF Spec, RegistrySpec, Registry!Spec

=============================================================================
