----------------------------- MODULE RequestGuard -----------------------------
(***************************************************************************)
(* PortalAuthMiddleware (internal/security): what stands between a signed   *)
(* request and the handlers of the Go controller.                          *)
(*                                                                         *)
(* The sender signs a message once, with a timestamp and a fresh nonce; the *)
(* network may deliver it any number of times, late and concurrently.  Each *)
(* delivery verifies the signature, compares the timestamp with the clock,  *)
(* claims the nonce in Redis with SETNX and an expiry, and looks at the     *)
(* client MAC header, in this order.  The clock is read and the nonce is    *)
(* claimed at different moments: that is what makes the expiry delicate.    *)
(***************************************************************************)
EXTENDS Integers

CONSTANTS
    Message,    \* signed messages, each with its own nonce
    Delivery,   \* HTTP requests that carry them
    MaxPast,    \* maxSkewSeconds, the age a timestamp may have
    MaxFuture,  \* how far ahead of the clock a timestamp may be
    NonceTTL,   \* how long Redis remembers a nonce
    MaxDelay,   \* longest time between the timestamp check and the last SETNX
    MaxRetries, \* attempts go-redis adds after an unacknowledged SETNX
    Fault,      \* the ways a Redis command may fail in this instance
    Horizon,    \* bound of the clock
    None

ASSUME BoundAssumption ==
    /\ MaxPast \in Nat /\ MaxFuture \in Nat /\ MaxDelay \in Nat
    /\ NonceTTL \in Nat /\ MaxRetries \in Nat /\ Horizon \in Nat
ASSUME FaultAssumption == Fault \subseteq {"unsent", "unacked"}
ASSUME NoneAssumption == None \notin Nat /\ None \notin Delivery /\ None \notin Message

\* A nonce is remembered longer than its message can be fresh anywhere in a
\* handler: 600 s against 300 s + 60 s and the time-outs of one Redis command.
ASSUME WindowAssumption == MaxPast + MaxFuture + MaxDelay < NonceTTL

VARIABLES
    now,        \* the clock, in seconds
    stamp,      \* the timestamp a message was signed with
    nonce,      \* Redis: when the key of a message's nonce expires, 0: no key
    carried,    \* the message a delivery carries
    header,     \* whether the delivery has the X-Client-MAC header
    pc,         \* the check a delivery does next, or how it ended
    checkedAt,  \* when its timestamp was checked
    tries,      \* retries spent on SETNX
    failed,     \* a SETNX of this delivery was lost or unacknowledged
    owner       \* history: the delivery whose SETNX last set the nonce

vars == <<now, stamp, nonce, carried, header, pc, checkedAt, tries, failed, owner>>

Check == {"timestamp", "nonce"}
Refused == {"unsigned", "stale", "replayed", "headerless"}

-----------------------------------------------------------------------------
\* The sender's clock may be off: any timestamp within the horizon.
Sign(m, t) ==
    /\ stamp[m] = None
    /\ stamp' = [stamp EXCEPT ![m] = t]
    /\ UNCHANGED <<now, nonce, carried, header, pc, checkedAt, tries, failed, owner>>

\* VerifyPortalSignature: a request altered on the way does not verify.
Deliver(d, m, signed, mac) ==
    /\ pc[d] = "new" /\ stamp[m] # None
    /\ carried' = [carried EXCEPT ![d] = m]
    /\ header' = [header EXCEPT ![d] = mac]
    /\ pc' = [pc EXCEPT ![d] = IF signed THEN "timestamp" ELSE "unsigned"]
    /\ UNCHANGED <<now, stamp, nonce, checkedAt, tries, failed, owner>>

\* Mutant of Fresh: the two bounds swapped.
FreshSwapped(t) == t >= now - MaxFuture /\ t <= now + MaxPast

\* ValidateTimestamp.
Fresh(t) == t >= now - MaxPast /\ t <= now + MaxFuture

CheckTimestamp(d) ==
    /\ pc[d] = "timestamp"
    /\ pc' = [pc EXCEPT ![d] = IF Fresh(stamp[carried[d]]) THEN "nonce" ELSE "stale"]
    /\ checkedAt' = [checkedAt EXCEPT ![d] = now]
    /\ UNCHANGED <<now, stamp, nonce, carried, header, tries, failed, owner>>

Absent(m) == nonce[m] <= now

\* Mutant of Remembered: a nonce is kept only as long as a timestamp may be old.
RememberedSkew == now + MaxPast

Remembered == now + NonceTTL

\* Mutant of Claim: the answer of SETNX read the wrong way round.
ClaimInverted(d, f) ==
    /\ nonce' = [nonce EXCEPT ![carried[d]] =
                    IF f # "unsent" /\ Absent(carried[d]) THEN Remembered ELSE @]
    /\ owner' = [owner EXCEPT ![carried[d]] =
                    IF f # "unsent" /\ Absent(carried[d]) THEN d ELSE @]
    /\ failed' = [failed EXCEPT ![d] = @ \/ f # "ok"]
    /\ pc' = [pc EXCEPT ![d] = IF f # "ok" \/ Absent(carried[d]) THEN "replayed"
                               ELSE IF header[d] THEN "accepted" ELSE "headerless"]
    /\ UNCHANGED tries

\* Mutant of Claim: one retry too many.
ClaimOneMore(d, f) ==
    /\ f = "unacked" /\ tries[d] <= MaxRetries
    /\ tries' = [tries EXCEPT ![d] = @ + 1]
    /\ UNCHANGED <<nonce, owner, failed, pc>>

\* ValidateNonce and the header check behind it: SETNX either claims the nonce
\* or finds it claimed; an error counts as a replay.
Claim(d, f) ==
    /\ nonce' = [nonce EXCEPT ![carried[d]] =
                    IF f # "unsent" /\ Absent(carried[d]) THEN Remembered ELSE @]
    /\ owner' = [owner EXCEPT ![carried[d]] =
                    IF f # "unsent" /\ Absent(carried[d]) THEN d ELSE @]
    /\ failed' = [failed EXCEPT ![d] = @ \/ f # "ok"]
    /\ \/ /\ pc' = [pc EXCEPT ![d] = IF f # "ok" \/ ~Absent(carried[d]) THEN "replayed"
                                     ELSE IF header[d] THEN "accepted" ELSE "headerless"]
          /\ UNCHANGED tries
       \/ /\ f = "unacked" /\ tries[d] < MaxRetries
          /\ tries' = [tries EXCEPT ![d] = @ + 1]
          /\ UNCHANGED pc

CheckNonce(d) ==
    /\ pc[d] = "nonce"
    /\ \E f \in {"ok"} \cup Fault : Claim(d, f)
    /\ UNCHANGED <<now, stamp, carried, header, checkedAt>>

\* A second passes.  go-redis gives up within MaxDelay of the timestamp check.
Tick ==
    /\ now < Horizon
    /\ \A d \in Delivery : pc[d] = "nonce" => now < checkedAt[d] + MaxDelay
    /\ now' = now + 1
    /\ UNCHANGED <<stamp, nonce, carried, header, pc, checkedAt, tries, failed, owner>>

Init ==
    /\ now = 0
    /\ stamp = [m \in Message |-> None]
    /\ nonce = [m \in Message |-> 0]
    /\ carried = [d \in Delivery |-> None]
    /\ header = [d \in Delivery |-> FALSE]
    /\ pc = [d \in Delivery |-> "new"]
    /\ checkedAt = [d \in Delivery |-> 0]
    /\ tries = [d \in Delivery |-> 0]
    /\ failed = [d \in Delivery |-> FALSE]
    /\ owner = [m \in Message |-> None]

Next ==
    \/ \E m \in Message, t \in 0..Horizon : Sign(m, t)
    \/ \E d \in Delivery, m \in Message, signed \in BOOLEAN, mac \in BOOLEAN :
          Deliver(d, m, signed, mac)
    \/ \E d \in Delivery : CheckTimestamp(d) \/ CheckNonce(d)
    \/ Tick

Spec == Init /\ [][Next]_vars

-----------------------------------------------------------------------------
TypeOK ==
    /\ now \in Nat
    /\ stamp \in [Message -> Nat \cup {None}]
    /\ nonce \in [Message -> Nat]
    /\ carried \in [Delivery -> Message \cup {None}]
    /\ header \in [Delivery -> BOOLEAN]
    /\ pc \in [Delivery -> Check \cup Refused \cup {"new", "accepted"}]
    /\ checkedAt \in [Delivery -> Nat]
    /\ tries \in [Delivery -> 0..MaxRetries]
    /\ failed \in [Delivery -> BOOLEAN]
    /\ owner \in [Message -> Delivery \cup {None}]

\* A delivery that went through the nonce check.
Passed(d) == pc[d] \in {"accepted", "headerless"}

\* Of all the deliveries of a message, however late and however concurrent, at
\* most one gets through the nonce check and so at most one reaches a handler.
HandledAtMostOnce ==
    \A d, e \in Delivery : Passed(d) /\ Passed(e) /\ carried[d] = carried[e] => d = e

\* A delivery is refused as a replay only when another delivery of the message
\* has claimed the nonce, or when its own SETNX was lost or unacknowledged.
ReplayIsReal ==
    \A d \in Delivery : pc[d] = "replayed" /\ ~failed[d] =>
        owner[carried[d]] \notin {None, d}

\* A nonce is claimed only by a delivery that verified and was fresh, so a
\* forged or stale one cannot use up the nonce of a request still to come.
OnlyFreshClaims ==
    \A m \in Message : owner[m] # None =>
        /\ carried[owner[m]] = m
        /\ pc[owner[m]] \in {"nonce", "accepted", "headerless", "replayed"}
        /\ checkedAt[owner[m]] \in (stamp[m] - MaxFuture)..(stamp[m] + MaxPast)

=============================================================================
