--------------------------- MODULE PortalSyncProofs ---------------------------
(***************************************************************************)
(* What portal-sync.sh guarantees for any clients, roles, ttls, caps and     *)
(* thresholds.                                                             *)
(*                                                                         *)
(* The argument: an answer that is not applied yet has aged by the seconds  *)
(* of the run at most (Pending); between the two commands for a client that *)
(* is allowed, its new entry is there (Added); and a client whose two       *)
(* commands are done has the entries the answer asks for (Applied).         *)
(***************************************************************************)
EXTENDS PortalSync, TLAPS

\* Only clients the run is about are answered for, and all of them are before
\* anything is applied.
Answered ==
    /\ \A m \in Mac : pc # "idle" /\ answer[m] # None => Active(m)
    /\ pc = "applying" =>
          \A m \in Mac :
             /\ job[m] # "none" =>
                   /\ misses[m] # None
                   /\ Active(m) => answer[m] # None
             /\ answer[m] # None => answer[m].ttl # None
    /\ pc = "idle" /\ ended \in {"ok", "lost"} =>
          \A m \in Mac : answer[m] # None => answer[m].ttl # None

\* An answer is younger than the run.
Pending ==
    \A m \in Mac : pc # "idle" /\ answer[m] # None /\ answer[m].ttl # None =>
        answer[m].ttl <= due[m] + late

\* The new entry of a client that is about to lose its old one.
Added ==
    \A m \in Mac \ skipped : pc = "applying" /\ job[m] = "second" /\ Allowed(m) =>
        Timeout(m) <= entry[Target(m)][m] + late

AppliedTo(m) ==
    /\ Offline(m) => ~Admitted(m)
    /\ answer[m] # None =>
          IF Allowed(m) THEN entry[Other(Target(m))][m] = 0 ELSE ~Admitted(m)

Applied ==
    /\ pc = "applying" =>
          \A m \in Mac \ skipped :
             /\ job[m] = "none" => AppliedTo(m)
             /\ job[m] = "second" /\ ~Allowed(m) => entry["guest"][m] = 0
    /\ pc = "idle" /\ ended \in {"ok", "lost"} => \A m \in Mac \ skipped : AppliedTo(m)

IInv == TypeOK /\ Answered /\ Pending /\ Added /\ Applied /\ EntryBounded

-----------------------------------------------------------------------------
LEMMA PutEffect ==
    ASSUME TypeOK, NEW s \in AllowSet, NEW m \in Mac, NEW t \in Nat, Put(s, m, t)
    PROVE  /\ entry' \in [AllowSet -> [Mac -> Nat]]
           /\ entry'[s][m] = t
           /\ \A u \in AllowSet, n \in Mac : u # s \/ n # m => entry'[u][n] = entry[u][n]
BY DEF TypeOK, Put

\* What an answer that is applied looks like.
LEMMA AnswerType ==
    ASSUME IInv, NEW m \in Mac, pc = "applying", job[m] # "none"
    PROVE  /\ misses[m] \in Nat /\ CapOf(m) \in Nat
           /\ ~Offline(m) => /\ answer[m] # None /\ answer[m].ttl \in Nat
                             /\ Timeout(m) \in Nat /\ Timeout(m) <= answer[m].ttl
                             /\ Allowed(m) => Timeout(m) > 0
<1>1. misses[m] \in Nat
  BY BoundAssumption DEF IInv, Answered, TypeOK
<1>2. CapOf(m) \in Nat
  BY SourceAssumption DEF IInv, TypeOK, CapOf, Source
<1>3. ASSUME ~Offline(m) PROVE answer[m] # None /\ answer[m].ttl \in Nat
  <2>1. Active(m)
    BY <1>1, <1>3, BoundAssumption, NoneAssumption DEF Active, Offline
  <2>2. answer[m] # None /\ answer[m].ttl # None
    BY <2>1 DEF IInv, Answered
  <2>3. answer[m] \in Reply
    BY <2>2 DEF IInv, TypeOK
  <2>. QED
    BY <2>2, <2>3 DEF Reply
<1>. QED
  BY <1>1, <1>2, <1>3 DEF Timeout, Allowed

LEMMA InitIInv == Init => IInv
BY BoundAssumption
DEF Init, IInv, TypeOK, Answered, Pending, Added, Applied, EntryBounded, AllowSet

LEMMA EnvironmentStep ==
    ASSUME IInv, session' \in [Mac -> Session \cup {None}],
           UNCHANGED <<entry, misses, pc, source, answer, job, ended, late, due, skipped>>
    PROVE  IInv'
BY DEF IInv, TypeOK, Answered, Pending, Added, Applied, AppliedTo, EntryBounded, Active,
       Offline, Allowed, Timeout, CapOf, Target, Admitted

LEMMA SessionsTyped ==
    ASSUME TypeOK, NEW m \in Mac
    PROVE  /\ \A r \in Role : Lease(m, r) => session' \in [Mac -> Session \cup {None}]
           /\ Logout(m) => session' \in [Mac -> Session \cup {None}]
           /\ Aged(session[m]) \in Session \cup {None}
<1>1. \A r \in Role : [role |-> r, ttl |-> SessionTTL[r]] \in Session
  BY TTLAssumption DEF Session
<1>2. Aged(session[m]) \in Session \cup {None}
  BY DEF TypeOK, Session, Aged
<1>. QED
  BY <1>1, <1>2 DEF TypeOK, Lease, Logout

LEMMA TickStep ==
    ASSUME IInv, Tick
    PROVE  IInv'
<1>1. /\ UNCHANGED <<misses, pc, source, answer, job, ended, skipped>>
      /\ late \in Nat /\ late' = (IF pc = "idle" THEN late ELSE late + 1)
      /\ late' \in 0..MaxRun
  BY BoundAssumption DEF Tick, IInv, TypeOK
<1>2. /\ \A m \in Mac : due[m] \in Nat /\ due'[m] = Less(due[m])
      /\ \A s \in AllowSet, m \in Mac :
            entry[s][m] \in Nat /\ entry'[s][m] = Less(entry[s][m])
  BY DEF Tick, IInv, TypeOK
<1>3. TypeOK'
  <2>1. session' \in [Mac -> Session \cup {None}]
    <3>1. \A m \in Mac : Aged(session[m]) \in Session \cup {None}
      BY SessionsTyped DEF IInv
    <3>. QED
      BY <3>1 DEF Tick
  <2>2. /\ due' \in [Mac -> Nat]
        /\ entry' \in [AllowSet -> [Mac -> Nat]]
    <3>1. \A n \in Nat : Less(n) \in Nat
      BY DEF Less
    <3>2. \A s \in AllowSet : [m \in Mac |-> Less(entry[s][m])] \in [Mac -> Nat]
      BY <1>2, <3>1
    <3>3. due' = [m \in Mac |-> Less(due[m])]
      BY DEF Tick
    <3>4. entry' = [s \in AllowSet |-> [m \in Mac |-> Less(entry[s][m])]]
      BY DEF Tick
    <3>. QED
      BY <1>2, <3>1, <3>2, <3>3, <3>4
  <2>. QED
    BY <2>1, <2>2, <1>1 DEF IInv, TypeOK
<1>4. Answered'
  BY <1>1 DEF IInv, Answered, Active
<1>5. EntryBounded'
  BY <1>2, BoundAssumption DEF IInv, EntryBounded, Less
<1>6. Pending'
  <2>. SUFFICES ASSUME NEW m \in Mac, pc # "idle", answer[m] # None, answer[m].ttl # None
       PROVE  answer[m].ttl <= due'[m] + late'
    BY <1>1 DEF Pending
  <2>1. answer[m].ttl \in Nat
    BY DEF IInv, TypeOK, Reply
  <2>. QED
    BY <2>1, <1>1, <1>2 DEF IInv, Pending, Less
<1>7. Added'
  <2>. SUFFICES ASSUME NEW m \in Mac \ skipped, pc = "applying", job[m] = "second",
                      Allowed(m)
       PROVE  Timeout(m) <= entry'[Target(m)][m] + late'
    BY <1>1 DEF Added, Allowed, Offline, Timeout, CapOf, Target
  <2>1. Timeout(m) \in Nat
    BY AnswerType DEF Allowed
  <2>2. Target(m) \in AllowSet
    BY DEF Target, AllowSet
  <2>. QED
    BY <2>1, <2>2, <1>1, <1>2 DEF IInv, Added, Less
<1>8. Applied'
  <2>1. \A s \in AllowSet, m \in Mac : entry[s][m] = 0 => entry'[s][m] = 0
    BY <1>2 DEF Less
  <2>2. \A m \in Mac : ~Admitted(m) => ~Admitted(m)'
    BY <1>2, <2>1 DEF Admitted
  <2>3. \A m \in Mac : AppliedTo(m) => AppliedTo(m)'
    BY <1>1, <2>1, <2>2 DEF AppliedTo, Offline, Allowed, Target, Other, AllowSet
  <2>. QED
    BY <1>1, <2>1, <2>3 DEF IInv, Applied, Allowed, Offline, AllowSet
<1>. QED
  BY <1>3, <1>4, <1>5, <1>6, <1>7, <1>8 DEF IInv

LEMMA CollectStep ==
    ASSUME IInv, NEW seen \in [Mac -> Sighting], Collect(seen)
    PROVE  IInv'
<1>1. /\ UNCHANGED <<session, entry, job, due>> /\ pc = "idle" /\ skipped' = {}
      /\ answer' = [m \in Mac |-> None]
      /\ late' = 0
      /\ (pc' = "asking" /\ UNCHANGED ended) \/ (pc' = "idle" /\ ended' = "died")
  BY DEF Collect
<1>2. source' \in [Mac -> Source \cup {None}]
  BY DEF Collect, Best, Source
<1>3. misses' \in [Mac -> 0..MissThreshold \cup {None}]
  <2>1. \A m \in Mac : misses[m] \in 0..MissThreshold \cup {None}
    BY DEF IInv, TypeOK
  <2>2. ASSUME NEW n \in 0..MissThreshold \cup {None}, NEW src
        PROVE  Counted(n, src) \in 0..MissThreshold \cup {None}
    BY BoundAssumption DEF Counted
  <2>. QED
    BY <2>1, <2>2 DEF Collect
<1>4. TypeOK'
  BY <1>1, <1>2, <1>3, BoundAssumption DEF IInv, TypeOK
<1>5. Answered' /\ Pending' /\ Added' /\ Applied' /\ EntryBounded'
  BY <1>1 DEF IInv, Answered, Pending, Added, Applied, EntryBounded
<1>. QED
  BY <1>4, <1>5 DEF IInv

LEMMA AskRoleStep ==
    ASSUME IInv, NEW m \in Mac, AskRole(m)
    PROVE  IInv'
<1>. DEFINE a == IF session[m] = None THEN [role |-> None, ttl |-> 0]
                 ELSE [role |-> session[m].role, ttl |-> None]
<1>1. /\ UNCHANGED <<session, entry, misses, pc, source, job, ended, late, due, skipped>>
      /\ pc = "asking" /\ Active(m) /\ answer' = [answer EXCEPT ![m] = a]
  BY DEF AskRole
<1>2. a \in Reply /\ a.ttl \in {0, None}
  BY DEF IInv, TypeOK, Session, Reply
<1>3. /\ answer' \in [Mac -> Reply \cup {None}]
      /\ answer'[m] = a
      /\ \A n \in Mac \ {m} : answer'[n] = answer[n]
  BY <1>1, <1>2 DEF IInv, TypeOK
<1>4. TypeOK'
  BY <1>1, <1>3 DEF IInv, TypeOK
<1>5. Answered' /\ Added' /\ Applied' /\ EntryBounded'
  BY <1>1, <1>3 DEF IInv, Answered, Added, Applied, EntryBounded, Active
<1>6. Pending'
  BY <1>1, <1>2, <1>3 DEF IInv, TypeOK, Pending
<1>. QED
  BY <1>4, <1>5, <1>6 DEF IInv

LEMMA AskTTLStep ==
    ASSUME IInv, NEW m \in Mac, AskTTL(m)
    PROVE  IInv'
<1>0. ASSUME session[m] # None
      PROVE  Rounded(session[m].ttl) \subseteq Nat
  <2>1. session[m].ttl \in Nat
    BY <1>0 DEF IInv, TypeOK, Session
  <2>2. \A n \in Nat : Rounded(n) \subseteq Nat
    BY DEF Rounded
  <2>. QED
    BY <2>1, <2>2
<1>t. PICK t \in Nat :
        /\ answer' = [answer EXCEPT ![m] = [role |-> answer[m].role, ttl |-> t]]
        /\ due' = [due EXCEPT ![m] = IF t > due[m] THEN t ELSE due[m]]
  BY <1>0 DEF AskTTL
<1>. DEFINE a == [role |-> answer[m].role, ttl |-> t]
<1>1. /\ UNCHANGED <<session, entry, misses, pc, source, job, ended, late, skipped>>
      /\ pc = "asking" /\ answer[m] # None /\ answer' = [answer EXCEPT ![m] = a]
      /\ due' = [due EXCEPT ![m] = IF t > due[m] THEN t ELSE due[m]]
  BY <1>t DEF AskTTL, Half
<1>2. t \in Nat /\ a \in Reply /\ a.ttl = t
  BY <1>1 DEF IInv, TypeOK, Session, Reply
<1>3. /\ answer' \in [Mac -> Reply \cup {None}]
      /\ answer'[m] = a
      /\ \A n \in Mac \ {m} : answer'[n] = answer[n]
  BY <1>1, <1>2 DEF IInv, TypeOK
<1>4. /\ due' \in [Mac -> Nat] /\ due'[m] >= t
      /\ \A n \in Mac : due'[n] >= due[n]
  BY <1>1, <1>2 DEF IInv, TypeOK
<1>5. TypeOK'
  BY <1>1, <1>3, <1>4 DEF IInv, TypeOK
<1>6. Answered' /\ Added' /\ Applied'
  BY <1>1, <1>3 DEF IInv, Answered, Added, Applied, Active
<1>7. EntryBounded'
  BY <1>1, <1>4, BoundAssumption DEF IInv, TypeOK, EntryBounded
<1>8. Pending'
  <2>. SUFFICES ASSUME NEW n \in Mac, answer'[n] # None, answer'[n].ttl # None
       PROVE  answer'[n].ttl <= due'[n] + late
    BY <1>1 DEF Pending
  <2>1. late \in Nat /\ due[n] \in Nat /\ due'[n] \in Nat
    BY <1>4, BoundAssumption DEF IInv, TypeOK
  <2>2. CASE n = m
    BY <2>1, <2>2, <1>2, <1>3, <1>4
  <2>3. CASE n # m
    <3>1. answer[n].ttl \in Nat /\ answer[n].ttl <= due[n] + late
      BY <2>3, <1>1, <1>3 DEF IInv, TypeOK, Reply, Pending
    <3>. QED
      BY <2>1, <2>3, <3>1, <1>3, <1>4
  <2>. QED
    BY <2>2, <2>3
<1>. QED
  BY <1>5, <1>6, <1>7, <1>8 DEF IInv

LEMMA RespondStep ==
    ASSUME IInv, Respond
    PROVE  IInv'
<1>1. /\ UNCHANGED <<session, entry, misses, source, answer, late, due, skipped>>
      /\ pc = "asking" /\ pc' = "applying" /\ ended' = "ok"
      /\ \A m \in Mac : Active(m) => answer[m] # None /\ ~Half(m)
      /\ \A m \in Mac : job'[m] = IF misses[m] = None THEN "none" ELSE "first"
      /\ job' \in [Mac -> {"none", "first"}]
  BY DEF Respond
<1>2. TypeOK'
  BY <1>1 DEF IInv, TypeOK
<1>3. Answered'
  BY <1>1 DEF IInv, Answered, Active, Half
<1>4. Pending' /\ Added' /\ EntryBounded'
  BY <1>1 DEF IInv, Pending, Added, EntryBounded
<1>5. Applied'
  BY <1>1 DEF IInv, Answered, Applied, AppliedTo, Offline, Active
<1>. QED
  BY <1>2, <1>3, <1>4, <1>5 DEF IInv

LEMMA LoseStep ==
    ASSUME IInv, Lose
    PROVE  IInv'
<1>1. /\ UNCHANGED <<session, entry, misses, source, late, due, skipped>>
      /\ pc = "asking" /\ pc' = "applying" /\ ended' = "lost"
      /\ answer' = [m \in Mac |-> None]
      /\ \A m \in Mac : job'[m] = IF Offline(m) THEN "first" ELSE "none"
      /\ job' \in [Mac -> {"none", "first"}]
  BY DEF Lose
<1>2. TypeOK'
  BY <1>1 DEF IInv, TypeOK
<1>3. Answered'
  BY <1>1, BoundAssumption DEF IInv, TypeOK, Answered, Active, Offline
<1>4. Pending' /\ Added' /\ EntryBounded'
  BY <1>1 DEF IInv, Pending, Added, EntryBounded
<1>5. Applied'
  BY <1>1 DEF Applied, AppliedTo, Offline
<1>. QED
  BY <1>2, <1>3, <1>4, <1>5 DEF IInv

\* The two commands for a client that is allowed go to two different sets.
LEMMA TargetSets ==
    ASSUME NEW m
    PROVE  /\ Target(m) \in AllowSet /\ Other(Target(m)) \in AllowSet
           /\ AllowSet = {Target(m), Other(Target(m))} /\ Target(m) # Other(Target(m))
BY DEF Target, Other, AllowSet

\* A command that fails leaves the entries alone, and its client is no longer
\* one the run promises anything for.
LEMMA SkipStep ==
    ASSUME IInv, NEW m \in Mac, First(m) \/ Second(m), Skip(m)
    PROVE  IInv'
<1>1. /\ UNCHANGED <<session, entry, misses, pc, source, answer, ended, late, due>>
      /\ pc = "applying" /\ job[m] # "none"
      /\ skipped' = skipped \cup {m}
      /\ job' \in [Mac -> {"none", "first", "second"}]
      /\ \A n \in Mac \ {m} : job'[n] = job[n]
  BY DEF First, Second, Skip, IInv, TypeOK
<1>2. TypeOK'
  BY <1>1 DEF IInv, TypeOK
<1>3. Answered' /\ Pending' /\ EntryBounded'
  BY <1>1 DEF IInv, Answered, Pending, EntryBounded, Active
<1>4. Added'
  BY <1>1 DEF IInv, Added, Allowed, Offline, Timeout, CapOf, Target
<1>5. \A n \in Mac : AppliedTo(n) => AppliedTo(n)'
  BY <1>1 DEF AppliedTo, Admitted, Offline, Allowed, Target
<1>6. Applied'
  BY <1>1, <1>5 DEF IInv, Applied, Allowed, Offline
<1>. QED
  BY <1>2, <1>3, <1>4, <1>6 DEF IInv

LEMMA FirstStep ==
    ASSUME IInv, NEW m \in Mac, First(m)
    PROVE  IInv'
<1>1. /\ UNCHANGED <<session, misses, pc, source, answer, ended, late, due>>
      /\ pc = "applying" /\ job[m] = "first"
      /\ job' = [job EXCEPT ![m] = "second"]
  BY DEF First
<1>2. /\ ~Offline(m) => /\ answer[m] # None /\ answer[m].ttl \in Nat
                        /\ Timeout(m) \in Nat /\ Timeout(m) <= answer[m].ttl
      /\ Allowed(m) => ~Offline(m)
  BY <1>1, AnswerType DEF Allowed
<1>. SUFFICES ASSUME ~Skip(m) PROVE IInv'
  BY SkipStep DEF First
<1>3. PICK s \in AllowSet, t \in Nat :
        /\ Put(s, m, t) /\ UNCHANGED skipped
        /\ Allowed(m) => s = Target(m) /\ t = Timeout(m)
        /\ ~Allowed(m) => s = "guest" /\ t = 0
  BY <1>2, TargetSets DEF First, AllowSet
<1>4. /\ entry' \in [AllowSet -> [Mac -> Nat]]
      /\ entry'[s][m] = t
      /\ \A u \in AllowSet, n \in Mac : u # s \/ n # m => entry'[u][n] = entry[u][n]
  BY <1>3, PutEffect DEF IInv
<1>5. /\ job' \in [Mac -> {"none", "first", "second"}] /\ job'[m] = "second"
      /\ \A n \in Mac \ {m} : job'[n] = job[n]
  BY <1>1 DEF IInv, TypeOK
<1>6. TypeOK'
  BY <1>1, <1>3, <1>4, <1>5 DEF IInv, TypeOK
<1>7. Answered' /\ Pending'
  BY <1>1, <1>5 DEF IInv, Answered, Pending, Active
<1>8. EntryBounded'
  <2>1. late \in 0..MaxRun /\ due[m] \in Nat /\ t \in Nat
    BY DEF IInv, TypeOK
  <2>2. t <= due[m] + MaxRun
    <3>1. CASE Allowed(m)
      <4>1. answer[m].ttl <= due[m] + late
        BY <3>1, <1>1, <1>2, NoneAssumption DEF IInv, Pending
      <4>. QED
        BY <3>1, <4>1, <2>1, <1>2, <1>3, BoundAssumption
    <3>2. CASE ~Allowed(m)
      BY <3>2, <2>1, <1>3, BoundAssumption
    <3>. QED
      BY <3>1, <3>2
  <2>. QED
    BY <2>2, <1>1, <1>4 DEF IInv, EntryBounded
<1>9. Added'
  <2>1. Allowed(m) => Timeout(m) <= entry'[Target(m)][m] + late
    BY <1>2, <1>3, <1>4, BoundAssumption DEF IInv, TypeOK
  <2>2. \A n \in Mac \ {m} : entry'[Target(n)][n] = entry[Target(n)][n]
    BY <1>4, TargetSets
  <2>. QED
    BY <2>1, <2>2, <1>1, <1>3, <1>5
    DEF IInv, Added, Allowed, Offline, Timeout, CapOf, Target
<1>10. Applied'
  <2>1. \A n \in Mac \ {m}, u \in AllowSet : entry'[u][n] = entry[u][n]
    BY <1>4
  <2>2. \A n \in Mac \ {m} : AppliedTo(n) => AppliedTo(n)'
    BY <2>1, <1>1, TargetSets DEF AppliedTo, Admitted, Offline, Allowed, Target, Other, AllowSet
  <2>3. ~Allowed(m) => entry'["guest"][m] = 0
    BY <1>3, <1>4
  <2>. QED
    BY <2>1, <2>2, <2>3, <1>1, <1>3, <1>5 DEF IInv, Applied, Allowed, Offline, AllowSet
<1>. QED
  BY <1>6, <1>7, <1>8, <1>9, <1>10 DEF IInv

LEMMA SecondStep ==
    ASSUME IInv, NEW m \in Mac, Second(m)
    PROVE  IInv'
<1>1. /\ UNCHANGED <<session, misses, pc, source, answer, ended, late, due>>
      /\ pc = "applying" /\ job[m] = "second"
      /\ job' = [job EXCEPT ![m] = "none"]
  BY DEF Second
<1>. SUFFICES ASSUME ~Skip(m) PROVE IInv'
  BY SkipStep DEF Second
<1>2. PICK s \in AllowSet :
        /\ Put(s, m, 0) /\ UNCHANGED skipped
        /\ Allowed(m) => s = Other(Target(m))
        /\ ~Allowed(m) => s = "staff"
  BY TargetSets DEF Second, AllowSet
<1>3. /\ entry' \in [AllowSet -> [Mac -> Nat]]
      /\ entry'[s][m] = 0
      /\ \A u \in AllowSet, n \in Mac : u # s \/ n # m => entry'[u][n] = entry[u][n]
  BY <1>2, PutEffect DEF IInv
<1>4. /\ job' \in [Mac -> {"none", "first", "second"}] /\ job'[m] = "none"
      /\ \A n \in Mac \ {m} : job'[n] = job[n]
  BY <1>1 DEF IInv, TypeOK
<1>5. TypeOK'
  BY <1>1, <1>2, <1>3, <1>4 DEF IInv, TypeOK
<1>6. Answered' /\ Pending'
  BY <1>1, <1>4 DEF IInv, Answered, Pending, Active
<1>7. EntryBounded'
  BY <1>1, <1>3, BoundAssumption DEF IInv, TypeOK, EntryBounded
<1>8. Added'
  <2>1. \A n \in Mac \ {m} : entry'[Target(n)][n] = entry[Target(n)][n]
    BY <1>3, TargetSets
  <2>. QED
    BY <2>1, <1>1, <1>2, <1>4 DEF IInv, Added, Allowed, Offline, Timeout, CapOf, Target
<1>9. Applied'
  <2>1. \A n \in Mac \ {m}, u \in AllowSet : entry'[u][n] = entry[u][n]
    BY <1>3
  <2>2. \A n \in Mac \ {m} : AppliedTo(n) => AppliedTo(n)'
    BY <2>1, <1>1, TargetSets DEF AppliedTo, Admitted, Offline, Allowed, Target, Other, AllowSet
  <2>3. Allowed(m) => entry'[Other(Target(m))][m] = 0
    BY <1>2, <1>3
  <2>4. ~Allowed(m) /\ m \notin skipped => \A u \in AllowSet : entry'[u][m] = 0
    BY <1>1, <1>2, <1>3 DEF IInv, Applied, AllowSet
  <2>5. m \notin skipped => AppliedTo(m)'
    BY <2>3, <2>4, <1>1 DEF AppliedTo, Admitted, Offline, Allowed, Target, Other
  <2>. QED
    BY <2>1, <2>2, <2>5, <1>1, <1>2, <1>4 DEF IInv, Applied, Allowed, Offline, AllowSet
<1>. QED
  BY <1>5, <1>6, <1>7, <1>8, <1>9 DEF IInv

LEMMA FinishStep ==
    ASSUME IInv, Finish
    PROVE  IInv'
<1>1. /\ UNCHANGED <<session, entry, misses, source, answer, job, ended, late, due, skipped>>
      /\ pc = "applying" /\ pc' = "idle" /\ \A m \in Mac : job[m] = "none"
  BY DEF Finish
<1>2. TypeOK' /\ Answered' /\ Pending' /\ Added' /\ EntryBounded'
  BY <1>1 DEF IInv, TypeOK, Answered, Pending, Added, EntryBounded
<1>3. \A m \in Mac \ skipped : AppliedTo(m)'
  BY <1>1 DEF IInv, Applied, AppliedTo, Admitted, Offline, Allowed, Target
<1>4. Applied'
  BY <1>1, <1>3 DEF Applied
<1>. QED
  BY <1>2, <1>4 DEF IInv

LEMMA KillStep ==
    ASSUME IInv, Kill
    PROVE  IInv'
<1>1. /\ UNCHANGED <<session, entry, misses, source, answer, late, due, skipped>>
      /\ pc' = "idle" /\ ended' = "killed" /\ job' = [m \in Mac |-> "none"]
  BY DEF Kill
<1>. QED
  BY <1>1 DEF IInv, TypeOK, Answered, Pending, Added, Applied, EntryBounded

LEMMA NextIInv ==
    ASSUME IInv, [Next]_vars
    PROVE  IInv'
<1>1. CASE UNCHANGED vars
  <2>1. session' \in [Mac -> Session \cup {None}]
    BY <1>1 DEF vars, IInv, TypeOK
  <2>. QED
    BY <2>1, <1>1, EnvironmentStep DEF vars
<1>2. ASSUME NEW m \in Mac, NEW r \in Role, Lease(m, r) PROVE IInv'
  <2>1. session' \in [Mac -> Session \cup {None}]
    BY <1>2, SessionsTyped DEF IInv
  <2>. QED
    BY <2>1, <1>2, EnvironmentStep DEF Lease
<1>3. ASSUME NEW m \in Mac, Logout(m) PROVE IInv'
  <2>1. session' \in [Mac -> Session \cup {None}]
    BY <1>3, SessionsTyped DEF IInv
  <2>. QED
    BY <2>1, <1>3, EnvironmentStep DEF Logout
<1>4. CASE Tick
  BY <1>4, TickStep
<1>5. ASSUME NEW seen \in [Mac -> Sighting], Collect(seen) PROVE IInv'
  BY <1>5, CollectStep
<1>6. CASE Advance
  BY <1>6, AskRoleStep, AskTTLStep, FirstStep, SecondStep, RespondStep, LoseStep, FinishStep
  DEF Advance
<1>7. CASE Kill
  BY <1>7, KillStep
<1>. QED
  BY <1>1, <1>2, <1>3, <1>4, <1>5, <1>6, <1>7 DEF Next

\* The invariant is inductive and so holds of every behaviour.
THEOREM Inductive == Spec => []IInv
BY InitIInv, NextIInv, PTL DEF Spec

\* The script keeps every variable in its type.
THEOREM TypeCorrect == Spec => []TypeOK
<1>1. IInv => TypeOK
  BY DEF IInv
<1>. QED
  BY <1>1, Inductive, PTL

\* No entry that portal-sync.sh adds outlasts the answers by more than a run.
THEOREM EntriesAreBounded == Spec => []EntryBounded
<1>1. IInv => EntryBounded
  BY DEF IInv
<1>. QED
  BY <1>1, Inductive, PTL

\* A run that reaches its end has applied what it learnt.
THEOREM RunsAreApplied == Spec => []RunApplied
<1>1. IInv => RunApplied
  BY DEF IInv, Applied, AppliedTo, RunApplied
<1>. QED
  BY <1>1, Inductive, PTL

\* A step that takes the last entry of a client is a deletion the run decided on
\* or the end of the entry's time.
LEMMA NoDropStep ==
    ASSUME IInv, [Next]_vars, NEW m \in Mac, Admitted(m), ~Admitted(m)'
    PROVE  \/ job' = job /\ \A s \in AllowSet : entry[s][m] <= 1
           \/ pc = "applying" /\ (~Allowed(m) \/ Timeout(m) <= late \/ m \in skipped)
<1>1. PICK s \in AllowSet : entry[s][m] > 0
  BY DEF Admitted
<1>2. /\ \A u \in AllowSet : entry[u][m] \in Nat
      /\ IInv' /\ \A u \in AllowSet : entry'[u][m] \in Nat
  BY NextIInv DEF IInv, TypeOK
<1>3. \A u \in AllowSet : entry'[u][m] = 0
  BY <1>2 DEF Admitted
<1>4. entry' # entry
  BY <1>1, <1>3
<1>5. Tick \/ \E n \in Mac : First(n) \/ Second(n)
  BY <1>4 DEF Next, Advance, vars, Lease, Logout, Collect, AskRole, AskTTL, Respond, Lose,
              Finish, Kill
<1>6. CASE Tick
  <2>1. job' = job /\ \A u \in AllowSet : entry'[u][m] = Less(entry[u][m])
    BY <1>6 DEF Tick
  <2>. QED
    BY <2>1, <1>2, <1>3 DEF Less
<1>7. ASSUME NEW n \in Mac, First(n)
      PROVE  pc = "applying" /\ ~Allowed(m)
  <2>1. PICK u \in AllowSet, t \in Nat :
          /\ Put(u, n, t)
          /\ Allowed(n) => t > 0
    BY <1>4, <1>7, AnswerType, TargetSets DEF First, Skip, AllowSet, Allowed
  <2>2. /\ entry'[u][n] = t
        /\ \A v \in AllowSet, k \in Mac : v # u \/ k # n => entry'[v][k] = entry[v][k]
    BY <2>1, PutEffect DEF IInv
  <2>3. n = m /\ t = 0
    BY <2>2, <1>1, <1>3
  <2>. QED
    BY <2>1, <2>3, <1>7 DEF First
<1>8. ASSUME NEW n \in Mac, Second(n)
      PROVE  pc = "applying" /\ (~Allowed(m) \/ Timeout(m) <= late \/ m \in skipped)
  <2>1. PICK u \in AllowSet : Put(u, n, 0) /\ (Allowed(n) => u = Other(Target(n)))
    BY <1>4, <1>8, TargetSets DEF Second, Skip, AllowSet
  <2>2. \A v \in AllowSet, k \in Mac : v # u \/ k # n => entry'[v][k] = entry[v][k]
    BY <2>1, PutEffect DEF IInv
  <2>3. n = m /\ pc = "applying" /\ job[m] = "second"
    BY <2>2, <1>1, <1>3, <1>8 DEF Second
  <2>4. SUFFICES ASSUME Allowed(m), m \notin skipped
        PROVE  Timeout(m) <= late
    BY <2>3
  <2>5. entry[Target(m)][m] = 0
    BY <2>1, <2>2, <2>3, <2>4, <1>3, TargetSets
  <2>6. Timeout(m) \in Nat /\ late \in Nat
    BY <2>3, <2>4, AnswerType, BoundAssumption DEF IInv, TypeOK, Allowed
  <2>. QED
    BY <2>3, <2>4, <2>5, <2>6 DEF IInv, Added
<1>. QED
  BY <1>5, <1>6, <1>7, <1>8

\* A run of portal-sync.sh never shuts out a client it means to let through.
THEOREM ClientsAreNotDropped == Spec => NeverDropped
<1>1. IInv /\ [Next]_vars =>
        [\A m \in Mac : Admitted(m) /\ ~Admitted(m)' =>
            \/ job' = job /\ \A s \in AllowSet : entry[s][m] <= 1
            \/ pc = "applying" /\ (~Allowed(m) \/ Timeout(m) <= late \/ m \in skipped)]_vars
  BY NoDropStep
<1>. QED
  BY <1>1, Inductive, PTL DEF Spec, NeverDropped

=============================================================================
