------------------------------ MODULE PortalSync ------------------------------
(***************************************************************************)
(* data-plane/tools/portal-sync.sh: how the sessions of the controller      *)
(* become entries of the router's allow sets, which the firewall matches.   *)
(*                                                                         *)
(* A run of the script counts the runs that did not see a client, asks the  *)
(* controller about the clients that are not offline, and applies what it   *)
(* learnt with ipset commands, one at a time.  Sessions change and time     *)
(* passes while it does; the answer may be lost; the script may be killed.  *)
(* The clients and the controller are the environment.                     *)
(***************************************************************************)
EXTENDS Integers

CONSTANTS
    Mac,            \* client MAC addresses
    Role,           \* roles of sessions, "staff" among them
    SessionTTL,     \* [Role -> seconds], 0: the session does not expire
    Sighting,       \* the sets of sources a client may be seen in
    Cap,            \* TTL_MAX_*: the ttl a source allows, 0: any
    MissThreshold,  \* runs that may miss a client before it is offline
    MaxRun,         \* the seconds a run may take
    IpsetFails,     \* whether an ipset command may fail
    None

Source == {"dhcp", "arp", "fdb"}
AllowSet == {"guest", "staff"}

ASSUME NoneAssumption == None \notin Role /\ None \notin Source /\ None \notin Nat
ASSUME TTLAssumption == SessionTTL \in [Role -> Nat]
ASSUME SourceAssumption == Sighting \subseteq SUBSET Source /\ Cap \in [Source -> Nat]
ASSUME BoundAssumption == MissThreshold \in Nat \ {0} /\ MaxRun \in Nat
ASSUME FaultAssumption == IpsetFails \in BOOLEAN

VARIABLES
    session,    \* the controller: a client's session, or None
    entry,      \* the allow sets: the seconds an entry has left, 0: no entry
    misses,     \* STATE_FILE: the runs in a row that missed a client, or None
    pc,         \* what the script does
    source,     \* MAC_SRC_FILE: the source a client was seen in, or None
    answer,     \* the controller's answer about a client, or None
    job,        \* the ipset command that is next for a client
    ended,      \* how the last run ended
    late,       \* the seconds this run has taken
    due,        \* history: the most any answer still entitles a client to
    skipped     \* history: the clients a command of this run failed for

vars == <<session, entry, misses, pc, source, answer, job, ended, late, due, skipped>>

-----------------------------------------------------------------------------
(* The environment: the controller's sessions and the clock.                *)

\* Login or heartbeat: the session is there with its full ttl.
Lease(m, r) ==
    /\ session' = [session EXCEPT ![m] = [role |-> r, ttl |-> SessionTTL[r]]]
    /\ UNCHANGED <<entry, misses, pc, source, answer, job, ended, late, due, skipped>>

Logout(m) ==
    /\ session[m] # None
    /\ session' = [session EXCEPT ![m] = None]
    /\ UNCHANGED <<entry, misses, pc, source, answer, job, ended, late, due, skipped>>

Aged(s) ==
    IF s = None \/ s.ttl = 0 THEN s
    ELSE IF s.ttl = 1 THEN None
    ELSE [role |-> s.role, ttl |-> s.ttl - 1]

Less(n) == IF n = 0 THEN 0 ELSE n - 1

\* A second passes for sessions, entries and the run under way.
Tick ==
    /\ pc # "idle" => late < MaxRun
    /\ session' = [m \in Mac |-> Aged(session[m])]
    /\ entry' = [s \in AllowSet |-> [m \in Mac |-> Less(entry[s][m])]]
    /\ due' = [m \in Mac |-> Less(due[m])]
    /\ late' = IF pc = "idle" THEN late ELSE late + 1
    /\ UNCHANGED <<misses, pc, source, answer, job, ended, skipped>>

-----------------------------------------------------------------------------
(* A run of the script.                                                     *)

\* A client in several tables counts for the best of them.
Best(seen) ==
    IF "dhcp" \in seen THEN "dhcp"
    ELSE IF "arp" \in seen THEN "arp"
    ELSE IF "fdb" \in seen THEN "fdb"
    ELSE None

Active(m) == misses[m] # None /\ misses[m] < MissThreshold
Offline(m) == misses[m] # None /\ misses[m] >= MissThreshold

\* Mutant of Counted: a client that is offline is counted on.
CountedUnbounded(n, src) ==
    IF src # None THEN 0 ELSE IF n = None \/ n > MissThreshold THEN n ELSE n + 1

\* The new miss count.  Counts beyond the threshold are not told apart, and a
\* client is never forgotten.
Counted(n, src) ==
    IF src # None THEN 0
    ELSE IF n = None \/ n = MissThreshold THEN n
    ELSE n + 1

\* Mutant of Collect: the answers of the last run are kept.
CollectKeeping(seen) ==
    /\ pc = "idle"
    /\ source' = [m \in Mac |-> Best(seen[m])]
    /\ misses' = [m \in Mac |-> Counted(misses[m], Best(seen[m]))]
    /\ late' = 0 /\ skipped' = {}
    /\ \/ pc' = "asking" /\ UNCHANGED ended
       \/ (\A m \in Mac : ~Active(m)') /\ pc' = "idle" /\ ended' = "died"
    /\ UNCHANGED <<session, entry, answer, job, due>>

\* Collect the clients, replace the state file.  awk creates ACTIVE_FILE only if
\* it has a line for it; without it the redirection of the next loop fails.  It
\* depends on the shell whether "set -e" then ends the script or the run goes on
\* with an empty list.
Collect(seen) ==
    /\ pc = "idle"
    /\ source' = [m \in Mac |-> Best(seen[m])]
    /\ misses' = [m \in Mac |-> Counted(misses[m], Best(seen[m]))]
    /\ answer' = [m \in Mac |-> None]
    /\ late' = 0 /\ skipped' = {}
    /\ \/ pc' = "asking" /\ UNCHANGED ended
       \/ (\A m \in Mac : ~Active(m)') /\ pc' = "idle" /\ ended' = "died"
    /\ UNCHANGED <<session, entry, job, due>>

\* batch_status reads a session with GET, then its ttl; each entry in turn.
Half(m) == answer[m] # None /\ answer[m].ttl = None

AskRole(m) ==
    /\ pc = "asking" /\ Active(m) /\ answer[m] = None
    /\ \A n \in Mac : ~Half(n)
    /\ answer' = [answer EXCEPT ![m] =
                     IF session[m] = None THEN [role |-> None, ttl |-> 0]
                     ELSE [role |-> session[m].role, ttl |-> None]]
    /\ UNCHANGED <<session, entry, misses, pc, source, job, ended, late, due, skipped>>

\* TTL rounds to the nearest second.
Rounded(t) == IF t = 0 THEN {0} ELSE {t - 1, t}

\* No key, no expiry and less than half a second all read as 0.
AskTTL(m) ==
    /\ pc = "asking" /\ Half(m)
    /\ \E t \in IF session[m] = None THEN {0} ELSE Rounded(session[m].ttl) :
          /\ answer' = [answer EXCEPT ![m] = [role |-> answer[m].role, ttl |-> t]]
          /\ due' = [due EXCEPT ![m] = IF t > @ THEN t ELSE @]
    /\ UNCHANGED <<session, entry, misses, pc, source, job, ended, late, skipped>>

\* Mutant of Respond: only what was answered for is worked on.
RespondActive ==
    /\ pc = "asking"
    /\ \A m \in Mac : Active(m) => answer[m] # None /\ ~Half(m)
    /\ pc' = "applying"
    /\ job' = [m \in Mac |-> IF Active(m) THEN "first" ELSE "none"]
    /\ ended' = "ok"
    /\ UNCHANGED <<session, entry, misses, source, answer, late, due, skipped>>

\* The answer is complete and arrives: the offline clients are worked on as well
\* as those it is about.
Respond ==
    /\ pc = "asking"
    /\ \A m \in Mac : Active(m) => answer[m] # None /\ ~Half(m)
    /\ pc' = "applying"
    /\ job' = [m \in Mac |-> IF misses[m] = None THEN "none" ELSE "first"]
    /\ ended' = "ok"
    /\ UNCHANGED <<session, entry, misses, source, answer, late, due, skipped>>

\* curl fails or times out: only the offline clients are worked on.
Lose ==
    /\ pc = "asking"
    /\ pc' = "applying"
    /\ answer' = [m \in Mac |-> None]
    /\ job' = [m \in Mac |-> IF Offline(m) THEN "first" ELSE "none"]
    /\ ended' = "lost"
    /\ UNCHANGED <<session, entry, misses, source, late, due, skipped>>

\* An answer without a ttl, or with ttl 0, is none.
Allowed(m) == ~Offline(m) /\ answer[m].ttl > 0

\* An active client that this run did not see counts as seen in ARP.
CapOf(m) == Cap[IF source[m] = None THEN "arp" ELSE source[m]]

\* Mutant of Timeout: the cap is what every entry gets.
TimeoutAlwaysCap(m) == IF CapOf(m) > 0 THEN CapOf(m) ELSE answer[m].ttl

Timeout(m) ==
    IF CapOf(m) > 0 /\ answer[m].ttl > CapOf(m) THEN CapOf(m) ELSE answer[m].ttl

\* No controller names an ipset where the script looks for it: the role decides.
Target(m) == IF answer[m].role = "staff" THEN "staff" ELSE "guest"
Other(s) == IF s = "staff" THEN "guest" ELSE "staff"

\* Set the timeout of m in s, 0: delete it.
Put(s, m, t) == entry' = [entry EXCEPT ![s] = [@ EXCEPT ![m] = t]]

\* Whatever goes wrong with a command, the script goes on ("|| true").
Skip(m) ==
    /\ IpsetFails
    /\ skipped' = skipped \cup {m}
    /\ UNCHANGED entry

\* Mutant of First: the entry of an earlier role goes first, the new one waits.
FirstDeletes(m) ==
    /\ pc = "applying" /\ job[m] = "first"
    /\ \A n \in Mac : job[n] # "second"
    /\ IF Allowed(m)
       THEN IF entry[Other(Target(m))][m] > 0 THEN Put(Other(Target(m)), m, 0)
            ELSE Put(Target(m), m, Timeout(m))
       ELSE Put("guest", m, 0)
    /\ job' = [job EXCEPT ![m] = "second"]
    /\ UNCHANGED <<session, misses, pc, source, answer, ended, late, due, skipped>>

\* The first command for a client: add it to its set, or delete it from guest.
First(m) ==
    /\ pc = "applying" /\ job[m] = "first"
    /\ \A n \in Mac : job[n] # "second"
    /\ \/ /\ IF Allowed(m) THEN Put(Target(m), m, Timeout(m)) ELSE Put("guest", m, 0)
          /\ UNCHANGED skipped
       \/ Skip(m)
    /\ job' = [job EXCEPT ![m] = "second"]
    /\ UNCHANGED <<session, misses, pc, source, answer, ended, late, due>>

\* The second command: delete it from the other set, or from staff.
Second(m) ==
    /\ pc = "applying" /\ job[m] = "second"
    /\ \/ /\ IF Allowed(m) THEN Put(Other(Target(m)), m, 0) ELSE Put("staff", m, 0)
          /\ UNCHANGED skipped
       \/ Skip(m)
    /\ job' = [job EXCEPT ![m] = "none"]
    /\ UNCHANGED <<session, misses, pc, source, answer, ended, late, due>>

\* The heartbeat that follows goes to a path no controller serves.
Finish ==
    /\ pc = "applying" /\ \A m \in Mac : job[m] = "none"
    /\ pc' = "idle"
    /\ UNCHANGED <<session, entry, misses, source, answer, job, ended, late, due, skipped>>

\* The script is killed; what it wrote stays.
Kill ==
    /\ pc # "idle"
    /\ pc' = "idle"
    /\ ended' = "killed"
    /\ job' = [m \in Mac |-> "none"]
    /\ UNCHANGED <<session, entry, misses, source, answer, late, due, skipped>>

-----------------------------------------------------------------------------
Init ==
    /\ session = [m \in Mac |-> None]
    /\ entry = [s \in AllowSet |-> [m \in Mac |-> 0]]
    /\ misses = [m \in Mac |-> None]
    /\ pc = "idle"
    /\ source = [m \in Mac |-> None]
    /\ answer = [m \in Mac |-> None]
    /\ job = [m \in Mac |-> "none"]
    /\ ended = "none"
    /\ late = 0
    /\ due = [m \in Mac |-> 0]
    /\ skipped = {}

Advance ==
    \/ \E m \in Mac : AskRole(m) \/ AskTTL(m) \/ First(m) \/ Second(m)
    \/ Respond
    \/ Lose
    \/ Finish

Next ==
    \/ \E m \in Mac, r \in Role : Lease(m, r)
    \/ \E m \in Mac : Logout(m)
    \/ Tick
    \/ \E seen \in [Mac -> Sighting] : Collect(seen)
    \/ Advance
    \/ Kill

\* A run that was started goes on until it ends or is killed; time passes.
Fairness == WF_vars(Advance) /\ WF_vars(Tick)

Spec == Init /\ [][Next]_vars
FairSpec == Spec /\ Fairness

-----------------------------------------------------------------------------
Session == [role : Role, ttl : Nat]
Reply == [role : Role \cup {None}, ttl : Nat \cup {None}]

TypeOK ==
    /\ session \in [Mac -> Session \cup {None}]
    /\ entry \in [AllowSet -> [Mac -> Nat]]
    /\ misses \in [Mac -> 0..MissThreshold \cup {None}]
    /\ pc \in {"idle", "asking", "applying"}
    /\ source \in [Mac -> Source \cup {None}]
    /\ answer \in [Mac -> Reply \cup {None}]
    /\ job \in [Mac -> {"none", "first", "second"}]
    /\ ended \in {"none", "died", "ok", "lost", "killed"}
    /\ late \in 0..MaxRun
    /\ due \in [Mac -> Nat]
    /\ skipped \in SUBSET Mac

Admitted(m) == \E s \in AllowSet : entry[s][m] > 0

\* An entry outlasts what the controller's answers entitle the client to by no
\* more than the time a run takes, however old the answer is when it is applied.
EntryBounded == \A s \in AllowSet, m \in Mac : entry[s][m] <= due[m] + MaxRun

\* A run never shuts out a client it does not find offline or unauthorized, not
\* even between two commands while the client changes from one set to the other,
\* unless its entries expire, the timeout it was to get is already over, or the
\* command that was to add it failed: then the next one still takes its old entry.
NeverDropped ==
    [][\A m \in Mac : Admitted(m) /\ ~Admitted(m)' =>
          \/ job' = job /\ \A s \in AllowSet : entry[s][m] <= 1
          \/ pc = "applying" /\ (~Allowed(m) \/ Timeout(m) <= late \/ m \in skipped)]_vars

\* After a run that went to its end, no client it found offline or unauthorized
\* has an entry and every other client that was answered for is in one set only,
\* the clients excepted that an ipset command failed for.
RunApplied ==
    pc = "idle" /\ ended \in {"ok", "lost"} =>
        \A m \in Mac \ skipped :
            /\ Offline(m) => ~Admitted(m)
            /\ answer[m] # None =>
                  IF Allowed(m) THEN entry[Other(Target(m))][m] = 0 ELSE ~Admitted(m)

\* A client whose session has ended for good loses its entries for good, even if
\* the controller never answers again.
RevokedLeaves ==
    \A m \in Mac : <>[](session[m] = None) => <>[](~Admitted(m))

=============================================================================
