-------------------------- MODULE RequestGuardProofs --------------------------
(***************************************************************************)
(* The middleware lets at most one delivery of a message through, for any   *)
(* number of messages and deliveries and any bounds that satisfy            *)
(* WindowAssumption.                                                        *)
(*                                                                         *)
(* The argument: a nonce that was claimed was claimed no earlier than       *)
(* stamp - MaxFuture, so it is remembered until stamp - MaxFuture +         *)
(* NonceTTL.  Whoever looks at it passed the timestamp check no later than  *)
(* stamp + MaxPast and looks within MaxDelay of that, which is earlier.     *)
(* Hence a claimed nonce is never seen absent and its owner never changes.  *)
(***************************************************************************)
EXTENDS RequestGuard, TLAPS

\* Every delivery under way carries a message that was signed.
Carries ==
    \A d \in Delivery : pc[d] # "new" =>
        carried[d] \in Message /\ stamp[carried[d]] # None

Timely == {"nonce", "accepted", "headerless", "replayed"}

\* A delivery that reached the nonce was fresh when its timestamp was checked,
\* and one that is about to look at the nonce has not been delayed for long.
InWindow ==
    \A d \in Delivery : pc[d] \in Timely =>
        /\ checkedAt[d] \in (stamp[carried[d]] - MaxFuture)..(stamp[carried[d]] + MaxPast)
        /\ checkedAt[d] <= now
        /\ pc[d] = "nonce" => now <= checkedAt[d] + MaxDelay

\* A claimed nonce outlives the freshness of its message.
Outlives ==
    \A m \in Message : owner[m] # None =>
        /\ stamp[m] # None /\ carried[owner[m]] = m /\ pc[owner[m]] \in Timely
        /\ stamp[m] - MaxFuture + NonceTTL <= nonce[m]

\* Only the delivery that claimed the nonce went through.
OwnerPassed == \A d \in Delivery : Passed(d) => owner[carried[d]] = d

\* A nonce without an owner was never set; a delivery still at the nonce check
\* that owns its nonce is one whose SETNX took effect but was not acknowledged.
Owned ==
    /\ \A m \in Message : owner[m] = None => nonce[m] = 0
    /\ \A d \in Delivery : pc[d] = "nonce" /\ owner[carried[d]] = d => failed[d]

IInv == /\ TypeOK /\ Carries /\ InWindow /\ Outlives /\ OwnerPassed /\ Owned /\ ReplayIsReal

\* The heart of the argument: whoever looks at a claimed nonce finds it.
LEMMA ClaimedIsPresent ==
    ASSUME IInv, NEW d \in Delivery, pc[d] = "nonce", owner[carried[d]] # None
    PROVE  ~Absent(carried[d])
<1>. DEFINE m == carried[d]
<1>1. m \in Message /\ stamp[m] \in Nat /\ nonce[m] \in Nat /\ now \in Nat /\ checkedAt[d] \in Nat
  BY DEF IInv, Carries, TypeOK
<1>2. now <= checkedAt[d] + MaxDelay /\ checkedAt[d] <= stamp[m] + MaxPast
  BY <1>1, BoundAssumption DEF IInv, InWindow, Timely
<1>3. stamp[m] - MaxFuture + NonceTTL <= nonce[m]
  BY <1>1 DEF IInv, Outlives
<1>. QED
  BY <1>1, <1>2, <1>3, BoundAssumption, WindowAssumption DEF Absent

LEMMA InitIInv == Init => IInv
BY BoundAssumption, NoneAssumption
DEF Init, IInv, TypeOK, Carries, InWindow, Outlives, OwnerPassed, Owned, ReplayIsReal,
    Passed, Timely, Check

LEMMA SignStep ==
    ASSUME IInv, NEW m \in Message, NEW t \in 0..Horizon, Sign(m, t)
    PROVE  IInv'
<1>1. TypeOK'
  BY BoundAssumption DEF Sign, IInv, TypeOK
<1>2. \A k \in Message : stamp[k] # None => stamp'[k] = stamp[k]
  BY DEF Sign, IInv, TypeOK
<1>3. \A d \in Delivery : pc[d] # "new" => stamp'[carried[d]] = stamp[carried[d]]
  BY <1>2 DEF IInv, Carries
<1>4. Carries' /\ InWindow'
  BY <1>2, <1>3 DEF Sign, IInv, Carries, InWindow, Timely
<1>5. Outlives' /\ OwnerPassed' /\ Owned' /\ ReplayIsReal'
  BY <1>2 DEF Sign, IInv, TypeOK, Carries, Outlives, OwnerPassed, Owned, ReplayIsReal, Passed, Timely
<1>. QED
  BY <1>1, <1>4, <1>5 DEF IInv

LEMMA DeliverStep ==
    ASSUME IInv, NEW d \in Delivery, NEW m \in Message,
           NEW signed \in BOOLEAN, NEW mac \in BOOLEAN, Deliver(d, m, signed, mac)
    PROVE  IInv'
<1>1. TypeOK'
  BY DEF Deliver, IInv, TypeOK, Check, Refused
<1>2. /\ pc[d] = "new" /\ pc'[d] \in {"timestamp", "unsigned"}
      /\ \A e \in Delivery \ {d} : pc'[e] = pc[e] /\ carried'[e] = carried[e]
      /\ carried'[d] = m /\ stamp[m] # None
  BY DEF Deliver, IInv, TypeOK
<1>3. Carries' /\ InWindow'
  BY <1>2 DEF Deliver, IInv, Carries, InWindow, Timely
<1>4. \A k \in Message : owner[k] # None => owner[k] \in Delivery \ {d}
  BY <1>2 DEF IInv, TypeOK, Outlives, Timely
<1>5. Outlives' /\ OwnerPassed' /\ Owned' /\ ReplayIsReal'
  BY <1>2, <1>4 DEF Deliver, IInv, TypeOK, Carries, Outlives, OwnerPassed, Owned, ReplayIsReal, Passed, Timely
<1>. QED
  BY <1>1, <1>3, <1>5 DEF IInv

LEMMA CheckTimestampStep ==
    ASSUME IInv, NEW d \in Delivery, CheckTimestamp(d)
    PROVE  IInv'
<1>1. TypeOK'
  BY DEF CheckTimestamp, IInv, TypeOK, Check, Refused
<1>2. /\ pc[d] = "timestamp" /\ pc'[d] \in {"nonce", "stale"}
      /\ pc'[d] = "nonce" => Fresh(stamp[carried[d]])
      /\ checkedAt'[d] = now
      /\ \A e \in Delivery \ {d} : pc'[e] = pc[e] /\ checkedAt'[e] = checkedAt[e]
  BY DEF CheckTimestamp, IInv, TypeOK
<1>3. carried[d] \in Message /\ stamp[carried[d]] \in Nat
  BY <1>2 DEF IInv, Carries, TypeOK
<1>4. Carries'
  BY <1>2 DEF CheckTimestamp, IInv, Carries
<1>5. InWindow'
  BY <1>2, <1>3, BoundAssumption
  DEF CheckTimestamp, IInv, TypeOK, InWindow, Timely, Fresh
<1>6. \A k \in Message : owner[k] # None => owner[k] \in Delivery \ {d}
  BY <1>2 DEF IInv, TypeOK, Outlives, Timely
<1>7. Outlives' /\ OwnerPassed' /\ ReplayIsReal'
  BY <1>2, <1>6 DEF CheckTimestamp, IInv, TypeOK, Outlives, OwnerPassed, ReplayIsReal, Passed, Timely
<1>8. owner[carried[d]] # d
  BY <1>3, <1>6, NoneAssumption
<1>9. Owned'
  BY <1>2, <1>8 DEF CheckTimestamp, IInv, TypeOK, Owned
<1>. QED
  BY <1>1, <1>4, <1>5, <1>7, <1>9 DEF IInv

LEMMA CheckNonceStep ==
    ASSUME IInv, NEW d \in Delivery, CheckNonce(d)
    PROVE  IInv'
<1>. DEFINE m == carried[d]
<1>1. PICK f \in {"ok"} \cup Fault : Claim(d, f)
  BY DEF CheckNonce
<1>2. /\ pc[d] = "nonce" /\ UNCHANGED <<now, stamp, carried, header, checkedAt>>
      /\ m \in Message /\ stamp[m] \in Nat /\ now \in Nat /\ nonce[m] \in Nat
  BY DEF CheckNonce, IInv, TypeOK, Carries
<1>3. TypeOK'
  BY <1>1, <1>2, BoundAssumption DEF Claim, IInv, TypeOK, Remembered, Check, Refused
<1>4. /\ \A e \in Delivery \ {d} : pc'[e] = pc[e] /\ failed'[e] = failed[e]
      /\ \A k \in Message \ {m} : nonce'[k] = nonce[k] /\ owner'[k] = owner[k]
      /\ pc'[d] \in Timely
  BY <1>1, <1>2 DEF Claim, IInv, TypeOK, Timely
<1>5. owner[m] # None => nonce'[m] = nonce[m] /\ owner'[m] = owner[m]
  BY <1>1, <1>2, ClaimedIsPresent DEF Claim, IInv, TypeOK
<1>6. \A k \in Message : owner[k] # None => owner'[k] = owner[k] /\ nonce'[k] = nonce[k]
  BY <1>4, <1>5
<1>7. owner'[m] # owner[m] =>
        owner[m] = None /\ owner'[m] = d /\ nonce'[m] = now + NonceTTL
  BY <1>1, <1>2, <1>5 DEF Claim, IInv, TypeOK, Remembered
<1>8. Carries' /\ InWindow'
  BY <1>2, <1>4 DEF IInv, Carries, InWindow, Timely
<1>9. Outlives'
  <2>1. stamp[m] - MaxFuture <= now
    BY <1>2, BoundAssumption DEF IInv, InWindow, Timely, TypeOK
  <2>2. SUFFICES ASSUME NEW k \in Message, owner'[k] # None
        PROVE  /\ stamp[k] # None /\ carried[owner'[k]] = k /\ pc'[owner'[k]] \in Timely
               /\ stamp[k] - MaxFuture + NonceTTL <= nonce'[k]
    BY <1>2 DEF Outlives
  <2>3. CASE owner[k] # None
    <3>1. owner'[k] = owner[k] /\ nonce'[k] = nonce[k] /\ owner[k] \in Delivery
      BY <2>3, <1>6 DEF IInv, TypeOK
    <3>. QED
      BY <2>3, <3>1, <1>4 DEF IInv, Outlives
  <2>4. CASE owner[k] = None
    <3>1. k = m /\ owner'[m] = d /\ nonce'[m] = now + NonceTTL
      BY <2>2, <2>4, <1>4, <1>7
    <3>. QED
      BY <3>1, <2>1, <1>2, <1>4, BoundAssumption, NoneAssumption
  <2>. QED
    BY <2>3, <2>4
<1>10. \A e \in Delivery \ {d} :
         pc[e] # "new" => carried[e] \in Message /\ carried'[e] = carried[e]
  BY <1>2 DEF IInv, Carries
<1>11. OwnerPassed'
  <2>1. Passed(d)' => owner'[m] = d
    BY <1>1, <1>2, <1>4 DEF Claim, IInv, TypeOK, Passed
  <2>2. ASSUME NEW e \in Delivery \ {d}, Passed(e)'
        PROVE  owner'[carried[e]] = e
    <3>1. Passed(e) /\ pc[e] # "new"
      BY <2>2, <1>4 DEF Passed
    <3>2. owner[carried[e]] = e /\ carried[e] \in Message
      BY <3>1, <1>10 DEF IInv, OwnerPassed
    <3>. QED
      BY <3>2, <1>6, NoneAssumption
  <2>. QED
    BY <2>1, <2>2, <1>2 DEF OwnerPassed
<1>12. Owned'
  <2>1. \A k \in Message : owner'[k] = None => nonce'[k] = 0
    BY <1>1, <1>2, <1>4, <1>6, NoneAssumption DEF Claim, IInv, TypeOK, Owned
  <2>2. pc'[d] = "nonce" => failed'[d]
    BY <1>1, <1>2 DEF Claim, IInv, TypeOK
  <2>3. ASSUME NEW e \in Delivery \ {d}, pc'[e] = "nonce", owner'[carried[e]] = e
        PROVE  failed'[e]
    <3>1. pc[e] = "nonce" /\ carried[e] \in Message
      BY <2>3, <1>4, <1>10
    <3>2. owner[carried[e]] = e
      BY <2>3, <3>1, <1>4, <1>7
    <3>. QED
      BY <3>1, <3>2, <1>4 DEF IInv, Owned
  <2>. QED
    BY <2>1, <2>2, <2>3, <1>2 DEF Owned
<1>13. ReplayIsReal'
  <2>1. pc'[d] = "replayed" /\ ~failed'[d] => f = "ok" /\ ~Absent(m) /\ ~failed[d]
    BY <1>1, <1>2 DEF Claim, IInv, TypeOK
  <2>2. ~Absent(m) => owner[m] # None
    BY <1>2 DEF IInv, Owned, Absent
  <2>3. pc'[d] = "replayed" /\ ~failed'[d] => owner'[m] \notin {None, d}
    BY <2>1, <2>2, <1>2, <1>5 DEF IInv, Owned
  <2>4. ASSUME NEW e \in Delivery \ {d}, pc'[e] = "replayed", ~failed'[e]
        PROVE  owner'[carried[e]] \notin {None, e}
    <3>1. pc[e] = "replayed" /\ ~failed[e] /\ carried[e] \in Message
      BY <2>4, <1>4, <1>10
    <3>. QED
      BY <3>1, <1>6 DEF IInv, ReplayIsReal
  <2>. QED
    BY <2>3, <2>4, <1>2 DEF ReplayIsReal
<1>. QED
  BY <1>3, <1>8, <1>9, <1>11, <1>12, <1>13 DEF IInv

LEMMA TickStep ==
    ASSUME IInv, Tick
    PROVE  IInv'
<1>1. /\ now \in Nat /\ now' = now + 1
      /\ \A d \in Delivery : pc[d] = "nonce" => now < checkedAt[d] + MaxDelay
      /\ UNCHANGED <<stamp, nonce, carried, header, pc, checkedAt, tries, failed, owner>>
  BY DEF Tick, IInv, TypeOK
<1>2. TypeOK' /\ Carries' /\ Outlives' /\ OwnerPassed' /\ Owned' /\ ReplayIsReal'
  BY <1>1 DEF IInv, TypeOK, Carries, Outlives, OwnerPassed, Owned, ReplayIsReal, Passed
<1>3. InWindow'
  BY <1>1, BoundAssumption DEF IInv, TypeOK, InWindow
<1>. QED
  BY <1>2, <1>3 DEF IInv

LEMMA NextIInv ==
    ASSUME IInv, [Next]_vars
    PROVE  IInv'
<1>1. CASE UNCHANGED vars
  BY <1>1 DEF vars, IInv, TypeOK, Carries, InWindow, Outlives, OwnerPassed, Owned,
              ReplayIsReal, Passed
<1>2. ASSUME NEW m \in Message, NEW t \in 0..Horizon, Sign(m, t) PROVE IInv'
  BY <1>2, SignStep
<1>3. ASSUME NEW d \in Delivery, NEW m \in Message, NEW signed \in BOOLEAN,
             NEW mac \in BOOLEAN, Deliver(d, m, signed, mac)
      PROVE  IInv'
  BY <1>3, DeliverStep
<1>4. ASSUME NEW d \in Delivery, CheckTimestamp(d) PROVE IInv'
  BY <1>4, CheckTimestampStep
<1>5. ASSUME NEW d \in Delivery, CheckNonce(d) PROVE IInv'
  BY <1>5, CheckNonceStep
<1>6. CASE Tick
  BY <1>6, TickStep
<1>. QED
  BY <1>1, <1>2, <1>3, <1>4, <1>5, <1>6 DEF Next

\* The invariant is inductive and so holds of every behaviour.
THEOREM Inductive == Spec => []IInv
BY InitIInv, NextIInv, PTL DEF Spec

\* Every variable of the middleware keeps its type, whatever fails.
THEOREM TypeCorrect == Spec => []TypeOK
<1>1. IInv => TypeOK
  BY DEF IInv
<1>. QED
  BY <1>1, Inductive, PTL

\* The nonce check of ValidateNonce lets at most one delivery of a message
\* through, for any numbers that satisfy WindowAssumption.
THEOREM NoDoubleHandling == Spec => []HandledAtMostOnce
<1>1. IInv => HandledAtMostOnce
  BY DEF IInv, OwnerPassed, HandledAtMostOnce
<1>. QED
  BY <1>1, Inductive, PTL

\* A refusal as a replay is another delivery's claim or a failed SETNX.
THEOREM ReplaysAreReal == Spec => []ReplayIsReal
<1>1. IInv => ReplayIsReal
  BY DEF IInv
<1>. QED
  BY <1>1, Inductive, PTL

\* Because the signature and the timestamp are checked before SETNX, nothing but
\* a verified and fresh delivery ever uses up a nonce.
THEOREM ClaimsAreFresh == Spec => []OnlyFreshClaims
<1>1. IInv => OnlyFreshClaims
  <2>. SUFFICES ASSUME IInv, NEW m \in Message, owner[m] # None
       PROVE  /\ carried[owner[m]] = m
              /\ pc[owner[m]] \in Timely
              /\ checkedAt[owner[m]] \in (stamp[m] - MaxFuture)..(stamp[m] + MaxPast)
    BY DEF OnlyFreshClaims, Timely
  <2>1. owner[m] \in Delivery /\ carried[owner[m]] = m /\ pc[owner[m]] \in Timely
    BY DEF IInv, TypeOK, Outlives
  <2>. QED
    BY <2>1 DEF IInv, InWindow
<1>. QED
  BY <1>1, Inductive, PTL

=============================================================================
