# Verification of the enterprise AP captive portal

TLA+ models of the captive portal in this repository, TLC runs that check them
on small instances, and TLAPS proofs of the properties that matter most, for
every value of the constants. Every definition is translated from the source;
`PROJECT.json` maps it to the lines it stands for and lists the components,
runs, mutants, hazards, findings and theorems.

## The system

| Part | Source | State it keeps | Operations |
| --- | --- | --- | --- |
| Go controller, session API | `control-plane/ap-controller-go/internal/http`, `store` | one Redis key per client MAC: a session (role, profile, attributes) with a ttl | login, heartbeat, logout, status, batch_status, context/verify |
| Go controller, request authentication | `internal/security`, `scripts/init-portal-hmac-secret.sh` | one Redis key per nonce; the HMAC keys, read once at start | the middleware: signature, timestamp, nonce, client MAC header; loading and rotating keys |
| Go controller, role decision | `internal/roles` | none (rules of `controller.yaml`) | `DecideRole` |
| Go controller, the rest | `internal/config`, `policy`, `audit`, `security/jwt_issuer.go` | configuration read at start | answer the runtime policy, write audit lines, issue tokens |
| Python controller | `control-plane/ap-controller` | the same Redis keys, as plain role strings | the same API, without authentication |
| Data plane, sync | `data-plane/tools/portal-sync.sh` | `STATE_FILE` (misses per client), the allow ipsets | one run: collect, count, ask, apply |
| Data plane, firewall | `portal-agent.sh`, `portal-fw.sh`, `portal-backup.sh`, `portal-restore.sh` | ipsets, iptables chains, runtime env, backup directory | fetch the runtime, build sets and chains, save, restore |
| Access device (NAC) | `control-plane/captive-portal/access_device` | Redis: feature flags, policy overrides, a session per user, an entry per address | one login: resolve policy, choose strategy, RADIUS, save session; look up and delete sessions |
| Portal servers | `portal-server`, `portal-server-go`, `portal-server-cpp` | the C++ server: tokens in memory | serve the login page, forward the form, create/validate/revoke tokens |
| RADIUS stack, web pages, images | `radius`, `freeradius*`, Dockerfiles, html | | configuration and third-party programs, not modelled |

How they interact. A client logs in through a portal server, which calls
`/portal/login` of a controller; the controller decides a role and stores a
session in Redis with the ttl of the role's profile. Heartbeats extend it,
logouts delete it. On the router, `portal-agent.sh` fetches the policy and calls
`portal-fw.sh`, which installs the gate: only MACs in the allow and bypass sets
are forwarded. `portal-sync.sh` asks the controller about the clients it sees
and turns sessions into entries of the allow sets, each with a timeout. All
processes share state only through Redis, ipsets and files; nothing holds a lock
across two commands.

### What is hard, and what makes each part correct

* **Session API.** Every handler issues several Redis commands with no lock and
  drops most errors; keys expire by themselves; go-redis sends a command again
  when the reply is lost. It is correct if an ended session stays ended, a
  logout that is audited as done is done, grants and refusals reflect what was
  stored during the request, and lifetimes follow the profiles.
* **Request authentication.** The clock, the timestamp window and the expiry of
  nonces are read at different moments. It is correct if no message is handled
  twice, and no honest request is refused for a nonce nobody else used.
* **Sync.** Answers are old when they are applied; a run may die anywhere. It
  is correct if entries do not outlast sessions by more than a run and clients
  that are authorized are never shut out in passing.
* **Firewall.** A chain is flushed and rebuilt while traffic passes, a failing
  command ends the script. It is correct if the gate neither opens for
  unauthorized clients nor closes for the others.
* **Access device.** Flags and overrides are read from Redis before the RADIUS
  exchange and used after it; a session is two keys; a write that is reported as
  failed may still happen. It is correct if a session rests on a policy, a flag
  and credentials that were good when they were looked at, and if the two keys
  say the same unless somebody else wrote one of them.
* **Python controller.** The same races as in the Go controller, without its
  checks for what they lead to. It is correct if what it answers was stored
  while the request ran, and if a logout ends sessions.
* **Start of a controller.** Keys and rules are read once; files change while
  signers and verifiers of different ages talk to each other.

## Modules

| Module | Models | Checked by | Proved in |
| --- | --- | --- | --- |
| `PortalController` | the session API | `controller_races`, `controller_faults`, `controller_heartbeat_panic` through `MCPortalController` | `PortalControllerProofs` |
| `RequestGuard` | the middleware | `guard` through `MCRequestGuard` | `RequestGuardProofs` |
| `RoleDecision` | `DecideRole` as a function, and its meaning without sorting | `controller_start` through `MCControllerStart` | `ControllerStartProofs` |
| `ControllerStart` | the start of a controller, its keys and rules, key rotation; extends `RoleDecision` | `controller_start` through `MCControllerStart` | `ControllerStartProofs` |
| `PortalSync` | `portal-sync.sh` | `sync_runs` through `MCPortalSync` | `PortalSyncProofs` |
| `PortalFw` | `portal-agent.sh` and `portal-fw.sh` | `fw_runs` through `MCPortalFw` | `PortalFwProofs` |
| `PortalRollback` | `portal-backup.sh` and `portal-restore.sh`, extends `PortalFw` | `fw_rollback`, `fw_restore_succeeds` through `MCPortalRollback` | `PortalRollbackProofs` |
| `AccessDevice` | a login at the NAC, its session store, the Go portal server's form | `device_logins`, `device_index` through `MCAccessDevice` | `AccessDeviceProofs` |
| `PythonController` | the session API in Python | `python_sessions` through `MCPythonController` | `PythonControllerProofs` |
| `LoginRegistry` | abstract: what any store of login sessions promises | implemented by `AccessDevice` and `PythonController` (`RegistrySpec`) | `AccessDeviceProofs`, `PythonControllerProofs` |

Each MC module gives its specification small sets; the `.cfg` of a run chooses
among them.

### PortalController

One action per Redis command of a handler: `SetSession`, `CheckSession` (the
heartbeat's first read), `Refresh` (EXPIRE), `Delete`, `GetSession` and
`ReadTTL` (the GET and the TTL of `GetSessionFull`). `pc` is the command that a
handler issues next, or the answer it gave. The first read of a heartbeat also
issues a TTL whose result it ignores; that command is left out. `Arrive` stands
for the decoding and the MAC check; requests that fail them change nothing.
A session is named by the login request that stored it, which is how the
properties speak of "the session a handler read". Faults are per command:
`unsent` (not executed, an error reported) and `unacked` (executed, no reply):
go-redis then sends the command again up to `MaxRetries` times, also after it
took effect. `Crash` ends all requests under way; the controller keeps nothing
in memory, so a restart is the arrival of new requests. `seen` and `before` are
history variables and guard nothing.

Redis answers TTL in seconds, rounded to the nearest one: a key with t seconds
left, the one that runs included, is said to have t or t - 1 (`Rounded`), and one
in its last half second 0. A store may hold sessions that the Python controller
wrote (`Plain`): bare strings, which `json.Unmarshal` refuses, so that
`GetSessionFull` fails without a Redis failure (`Readable`), while EXPIRE and DEL
work on them.

Bounds: two clients and three requests without faults (`controller_races`), one
client and two requests with faults, retries and crashes (`controller_faults`):
the races are between requests of one client, a third request is what comes
between two others, and two clients suffice to see that keys are independent.
The faults double the states per command, which leaves room for two requests
only; the theorems cover any number, with faults. TTLs of one and two seconds
distinguish the roles in `controller_races`; `controller_faults` adds a role that
has none (SET without expiry, EXPIRE 0), and a session of the
Python controller may be there at the start. The system stops when all
requests of a behaviour are handled, so deadlock is not checked.

Fairness: handlers are goroutines (weak fairness per request) and Redis's clock
runs (weak fairness of `Tick`). Arrivals and crashes are never forced.

### RequestGuard

A message is signed once and delivered any number of times; a delivery passes
the checks in the code's order. `MaxDelay` bounds the time between the timestamp
check and the last SETNX: go-redis's dial, read and retry limits. The bounds
keep the relation of the code's numbers: 300 + 60 + `MaxDelay` < 600 is
`WindowAssumption`; the instance has 2 + 1 + 1 < 5, two deliveries and a clock up
to 8, long enough for a nonce to be claimed, expire and be claimed again. The
system stops at the horizon, so deadlock is not checked. No fairness: all
properties are safety.

### PortalSync

A run is `Collect` (sources, miss counts, state file; without an active client it
ends there, or goes on with an empty list: awk has not made the file that the next
loop reads, and what a failed redirection does under `set -e` depends on the
shell), `AskRole` and `AskTTL`
per active client (the controller's GET and TTL), `Respond` or `Lose`, then two
ipset commands per client (`First`, `Second`), then `Finish`. The TTL it is told is rounded, as above. `Kill` ends it
anywhere. The controller is the environment: sessions are leased, logged out and
lapse at any time. Only one run is under way at a time: nothing in the
repository starts two. `MaxRun` bounds the seconds of a run (the time limits of
curl). Every ipset command may fail (`IpsetFails`); the script ignores that and
counts the client as done, so a client whose command failed is in `skipped`
(history) until the next run, and the properties promise it nothing but that
nobody else suffers. The sets are there (`portal-fw.sh` creates them; the `ipset
create` of this script lacks the argument of `timeout`). The controllers serve
only the legacy batch path (where the script asks when the first one fails), the batch heartbeat is served by none, and the Go
controller refuses the unsigned query, which is `Lose`.

Bounds: two clients, so that a run that is about one of them removes the other
that is offline; a threshold of 2 misses, sessions and runs of at most a second,
which is where an answer becomes stale, and a cap above the session's ttl. A cap
below it, and that a run which fails for one client serves any number of others,
is in the theorems only. Fairness: a run that was started goes on, time passes; no run
is ever forced to start and no answer to arrive: `RevokedLeaves`, that the entry
of a client whose session ended for good leaves the sets for good, rests on the
timeouts of entries.

### PortalFw

`portal-fw.sh` is a list of commands under `set -e`: `Script` is that list, `pc`
the next command, and each kind of command is an action. The rules of a chain
are appended one by one, so packets meet every half-built chain. `Stopped` is
what netfilter does with a packet: the first rule that hits decides. `set` holds
the ipsets, `conf` and `loaded` the domains of dnsmasq's file and those that it
works with. What the script ignores may fail silently (`partial`): adding the
router's address, flushing, adding an entry, reloading dnsmasq. What it does not
ignore ends it (`Stop`, like a signal). `Start` is a whole run of
`portal-agent.sh` up to the call of `portal-fw.sh`; a failed fetch changes
nothing. Between any two commands `portal-sync.sh` changes the allow sets
(`Admit`, `Expel`) and adds the router (`SyncSelf`), and dnsmasq adds answers to
the DNS set (`Resolve`).

A domain is a sequence of labels, because `normalize_domain` works on labels; a
list is a set. `Normalized` is what the shell does, the cut that its comment does not
mean included. `built` is history: the portal whose rules a chain holds
completely, or `None`.

Assumed: one script runs at a time (nothing in the repository starts two),
ipsets support timeouts, PREROUTING already has a rule when the HTTP hook is
inserted at position 2, and all environment names have their defaults.

Bounds: one client and the router, two portals and one other destination, one
run that is stopped. The runtimes move the portal, switch bypassing off, name a
list that is no array and domains with and without a wildcard. One client is
enough, since rules treat clients separately; one stop, since a second run that
is stopped starts from a state of the same kind. No fairness: all properties are
safety.

### PortalRollback

`Steps` lists the commands of the two scripts, `rpc` is the next one. A backup
writes one file after another; the redirection empties a file before
`iptables-save` or `ipset save` runs and the script ignores what becomes of them,
so that a file may stay empty (`Blank`), end within a table (`Torn`) or hold a
part of the sets. A restore needs nothing but the backup directory (`dir`).
Its cleanup commands end in `2>/dev/null || true`: each of `Unhook`, `Delete` and
`Destroyed` may fail silently (`Lapse`), and `failed` keeps which did (history).
What comes after them ends the restore when it fails. A table is loaded as a
whole or not at all, as `iptables-restore` does. A set that a rule names cannot
be destroyed, and rules that name a set that is missing cannot be loaded: this is
what makes `portal-restore.sh` fail, since it keeps the HTTP chain (and with it
four of the five sets), destroys the DNS set, and loads the tables before the
sets. The copy of the runtime env is not modelled: `Start` reads any runtime.

Bounds: `MaxStop` is 1: in a behaviour of `fw_rollback` one script is killed, or
one command of `portal-fw.sh` or a backup fails, or one restore fails in any part
of its cleanup (the lock of iptables is held while several of its commands run).
The portal moves, between a backup and its restore too. The router is the only
member of the sets: `portal-fw.sh` flushes it out of the bypass set, so that it
meets the gate as any client that is not exempt does; theorems cover the others.
`fw_restore_succeeds` has no failure at all. No fairness: all properties are
safety.

### AccessDevice

A login is `Submit` (the portal server posts the form), `Receive` (the checks of
`PortalAuthHandler`), `Resolve` (the override of the policy), `CheckFlag` and
`CheckGrant` (the two GETs of one feature flag), `Authenticate` (RADIUS), `Save`
(a MULTI that writes the session and the address entry) and `ShowPage`; the
connection between portal and device may break at any time (`LosePost`), and
the device then goes on. `FindUser` and `FindSession` are `GetByIP`,
`GetByUsername`, `Exists` and the read of `Delete`, `Delete` its MULTI: exported
operations of the session store that nothing in this program calls yet.
Meanwhile an operator changes flags and overrides, and keys expire. A Redis
command fails without effect (`unsent`) or is executed after its sender gave up
(`late`, `LateSave`); go-redis retries. A session and its address entry are
named by their login and numbered by the `Save` that wrote them, which is how
the properties tell an old entry from a new one.

`KeyAssumption` says that no user name is an address: the keys
`portal:session:<user>` and `portal:session:ip:<addr>` collide for a user named
`ip:<addr>`. `Receive` may refuse any request; `SelectAndBuild` passes neither
token nor phone, so that only the strategies that ask RADIUS ever accept.

`Registry` maps a login to `LoginRegistry`: it begins when it is submitted, is
approved when RADIUS accepts, stored by a `Save` however late, and told "yes" by
the success page.

Bounds: `device_logins` has one login, since what it rests on (flags, override,
faults, retries) is read for one user, with two strategies, two policies and
four changes by the operator; `device_index` has two users on two addresses and
three calls, the least in which a delete removes an entry that a third call
wrote. Requests of a behaviour end, so deadlock is not checked. No fairness.

### PythonController

One action per Redis command, as in `PortalController`; handlers are threads.
`CheckSession` and `ExtendSession` are the GET and EXPIRE of `refresh_session`,
`GetSession` and `ReadTTL` those of `get_session_full`. There are no retries:
redis-py is used with its default. `refresh_session` returns a pair, which is
true even when it says that there is no session, so the handler's `not_found`
branch is unreachable, and the model goes on to the second read. A login that
does not find its own session when it reads it back fails (`crashed`), and so
does a batch_status with an entry that has no mac (`malformed`): it takes an
unvalidated dict, and `_key` calls `lower` on None. Entries before that one are
asked for first.
`Registry` maps it to `LoginRegistry` with logins that are approved as they
begin, for this controller asks nobody.

Bounds: one client, three requests, a login's ttl of 1 and a heartbeat's of 2:
sessions of different clients are different keys. Requests end, so deadlock is
not checked. No fairness.

### LoginRegistry

What both stores promise: a key holds only logins begun for that key and
approved, and nobody is told that a login succeeded before it was stored. It
allows what the two programs really do: sessions end at any time, and an
approved login may be stored after its client was told "no".

### RoleDecision and ControllerStart

`DecideRole` sorts the rules by priority and name, stably, and takes the first
that matches; a pattern is the set of values it accepts. `Sorted` is what
`sort.SliceStable` promises: the place of a rule is one more than the number of
rules that precede it, by priority, by name, or in the file. `IsDecision` says the
same without sorting. The assumption `DecideRoleAssumption` of
`MCControllerStart`, which TLC evaluates, compares the two on every list of up to
three rules of a stock with ties in priority and name, in every context; the
theorem `RolesAreDecidedByOrder` does so for every list.

`ControllerStart` is what surrounds it: `Start` reads the configuration and the
key files of that moment and exits without a key of the current kid, or if any key
file is not base64 (`SpoilSecret`, `KeySet` is `LoadPortalHMACKeySet`), `CreateSecret`, `FillSecret` and `AbortSecret` are the
redirection and openssl of `init-portal-hmac-secret.sh`, which leaves an empty
key when it is killed in between, and an operator removes keys, names the
current one and edits the rules. `Sign` and `Verify` are two processes that may
have started at different times. Bounds: two processes, two key identifiers,
three changes: make the second key, name it, remove the first. Only a start may
be impossible, so deadlock is not checked.

## What the runs show

The passing runs check the properties named in `PROJECT.json`; each has a mutant
of the code that the run refutes.

| Run | Question |
| --- | --- |
| `controller_races` | how do logins, heartbeats, logouts, reads and expiry interleave |
| `controller_faults` | what do answers, lifetimes and audit lines mean when Redis or the controller fails, with a role that has no ttl and sessions of the Python controller; does every request end |
| `guard` | what passes the middleware when a message is delivered twice, late, in parallel |
| `sync_runs` | what is in the allow sets of two clients while sessions change, clients go offline, answers are lost, ipset fails and runs are killed; does a client whose session ended leave them |
| `fw_runs` | what does the gate do to packets while it is rebuilt, and after runs that were stopped |
| `fw_rollback` | what do restores leave behind when their commands fail and the portal has moved, and does `portal-fw.sh` repair it |
| `device_logins` | what do sessions and refusals of the access device rest on while flags and policies change and Redis fails |
| `device_index` | how do the two keys of a session drift apart; does the device implement the registry |
| `python_sessions` | what do answers and audit lines of the Python controller mean; does it implement the registry |
| `controller_start` | which messages are refused during a key rotation; which rule decides a login |

Two runs end in a violation and show where code and repository disagree:

* `controller_heartbeat_panic`: the heartbeat handler panics when its session is
  deleted between Refresh and its second read.
* `fw_restore_succeeds`: `portal-restore.sh` removes the gate and then fails to
  load a backup that is complete, although no command of its cleanup fails.

Other disagreements are plain in the code and need no run. The models do as the
code does.

* Data plane. `reconcile_ipset` flushes before it validates the list (its comment
  says "validating JSON upfront"). `portal-fw.sh` flushes the router's own
  address right after adding it. `normalize_domain` cuts the first label off any
  domain, where its comment means a leading `*.` only: `google.com`, an example of
  that comment, becomes `com` and gets no rule, `captive.apple.com` becomes
  `apple.com` (as `docs/captive-portal.md` has it; `docs/data-plane.md` keeps the
  name). `DomainsReconciled` therefore promises a rule to wildcards only.
  Between the flush of the DNS set and the reload of dnsmasq, answers under the
  old rules get into the set and stay. Depending on the shell, `portal-sync.sh`
  ends before the offline removals when no client is active: entries then lapse
  by their timeouts, which is what `RevokedLeaves` shows.
* Go controller. A login whose SET failed is answered `authorized` if an older
  session is there; `GrantWitnessed` says what such an answer still means. A
  session in its last half second is granted with ttl 0, which `portal-sync.sh`
  takes for a refusal (`ZeroTTLExplained`). A session lives as long as heartbeats
  renew it; nothing bounds it as a whole. A
  heartbeat of a session whose role has gone from the configuration does EXPIRE 0.
  Both rules of the shipped `controller.yaml` ask for `auth`, a field that
  `portalLogin` never passes, so every login gets the default role. The policy
  checksum leaves out the data-plane section although `policy/model.go:30` says
  "sha256 of runtime payload". `docker-compose.yml:144` mounts a file whose key
  identifier is `secret`, not the current `v1`.
* Python controller. It reads `session`, `heartbeat` and `audit` of
  `controller.yaml`, which the shipped file does not have. A logout between
  SETEX and the read-back turns a login that was stored into an answer 500;
  `CrashExplained` says that nothing else does, but for a batch_status with an
  entry that has no mac.
* Access device. After a login from another address the old address entry stays
  until it expires; the portal server passes `RemoteAddr` with the port, so every
  connection is another address. `KeysAgree` says when the two keys may differ.
  The bootstrap script of Redis switches PAP on at each start, whatever the
  operator chose.

## What is proved

For any constants that satisfy the modules' assumptions, from an inductive
invariant checked step by step:

* `PortalControllerProofs`: the type invariant and `EndedStaysEnded`,
  `LogoutRevokes`, `GrantWitnessed`, `DenialWitnessed`,
  `LeaseCrossedOnlyByRace`, `LeaseBounded`, `ZeroTTLExplained`. The strengthening
  says what each program counter has observed (for instance that a refresh under
  way has read a session that is in `seen`), that a key without expiry holds a
  session whose role has no ttl, and that a key with one second left has been seen
  `Fading` by every request under way.
* `RequestGuardProofs`: `HandledAtMostOnce`, `ReplayIsReal`, `OnlyFreshClaims`.
  The key lemma `ClaimedIsPresent`: whoever looks at a claimed nonce finds it,
  because a claim is remembered until at least stamp - MaxFuture + NonceTTL and
  nobody looks after stamp + MaxPast + MaxDelay.
* `PortalSyncProofs`: `EntryBounded`, `RunApplied`, `NeverDropped`. The
  strengthening bounds the age of an answer by the run's, and says that the new
  entry of a client is there before the old one is deleted.
* `PortalFwProofs`: the type invariant, `AuthorizedPass`, `GateIntact`. Every
  chain is at all times a prefix of the rules for some portal, and the rules begin
  with the exemptions, so a prefix stops no client in an allow set. A chain whose
  portal is in `built` holds all its rules and is hooked: the script hooks a
  chain before it empties it, and only the last rule sets `built`.
  `Reconciled`, `DomainsReconciled` and `LoginReachable` need an invariant that
  follows the commands (`Follows`, `ChainsFollow`): what holds once command n of
  this run is done, or of the last run if it went to its end. Between the flush
  of a set and its filling only the router can get in; dnsmasq's file is empty
  from its clearing to its writing, and what is written are the normalized domains,
  each a suffix of the domain it comes from (`NormalizedSuffix`); both chains and the masquerading are for the
  portal of the runtime from the command that completes them on.
* `PortalRollbackProofs`: `TablesRestored`, `FailsOpen`, `Reapplied`, and once
  more the invariant of `PortalFw`, now for a router that is backed up and
  restored (`GateSurvivesRestores`). The strengthening says that the scripts take
  turns, that whatever a whole backup file holds was once a state of the gate, that
  from its cleanup until its table is back the chain of forwarding is unhooked or
  empty, or both commands have failed (and that this stays so when the load fails),
  and that a table that was loaded is what its file says. A `portal-fw.sh` that went to its end since the last restore has left
  what `ChainsFollow` says.
* `ControllerStartProofs`: the type invariant, `RefusalExplained`,
  `FirstRuleDecides` and `RolesAreDecidedByOrder`. A file is stamped with the
  number of its changes, and equal stamps mean equal contents, among the files,
  all running processes and the message: hence a key that differs at signer and
  verifier has changed between their starts. For the sorting, precedence is a
  strict total order of the positions, so a rule that precedes another has the
  smaller place; places are therefore a bijection (a finite set has no injection
  into a smaller one) and the first match of the sorted list is the matching rule
  that no other precedes. No induction over the list is needed.
* `PythonControllerProofs`: the type invariant, `GrantWitnessed`, `CrashExplained`,
  `LogoutRevokes` and the refinement `RegistrySpec`. The strengthening says which
  command belongs to which operation (so that only a login whose SETEX was
  executed goes on to read its session back), that a request under way has seen
  what is stored now, and that what is stored or was seen is the session of a
  login of the same client. A logout ends sessions because a login that had
  passed SETEX when it arrived never writes again, and EXPIRE and DEL leave a
  key its session or none. For the refinement every action is one lemma: an
  arriving login begins, SETEX stores it (with or without its client hearing of
  it), the reads tell it, and EXPIRE, DEL and the clock end sessions.
* `AccessDeviceProofs`: the type invariant, `GrantJustified`,
  `RefusedSessionExplained`, `ClosedExplained`, `KeysAgree`, `LookupNotOlder` and
  the refinement `RegistrySpec`. The strengthening
  says what each handler has established by the command it is at: from the first
  look at the flag on it goes by a policy that was in force or by the default
  one, a flag it finds on is among those that held while it looked, and only an
  accepted login has a Save under way or a copy of its MULTI on its way to
  Redis. Every entry, in the store or in the hands of a lookup, is therefore
  that of an accepted login for that user and that address. For the two keys of
  a session it adds that entries are numbered by the saves that wrote them, and
  that no user's session is older than an address entry of that user; for a closed
  flag, that between the two reads the first key was off and the second is on
  only if it was turned since. In the refinement
  both `Save` and a late MULTI are `Store`, `Authenticate` is `Approve`, the
  portal's page is `Tell`, and `Delete` and the clock are `End`; every other
  action leaves the registry as it is.

Every invariant and every safety action property of a run is proved. Only
model-checked are the liveness properties `RequestsEnd` and `RevokedLeaves`:
fairness and ENABLED are outside the prover. The two properties of the runs
that end in a violation are false and have no theorem. The type
invariants of `AccessDevice`, `PythonController` and `ControllerStart` are proved
and no part of a run.

What the proofs assume of the constants is in the named assumptions of the
modules, which TLC evaluates on every run: that the sets of names, hosts and
keys are disjoint from the markers used beside them (`NameAssumption`,
`KeyAssumption`, ...), that times are numbers, and the relation of the
middleware's windows. `RulesAssumption` says that rules are lists with integer
priorities and ordered names.

## Plan

What is left, in this order.

1. `PortalController` against an abstract registry. `LoginRegistry` as it stands
   is not what it implements: a login whose SET failed may be told "authorized"
   on an older session. The registry would have to let a client be told yes on any
   session of its key that was stored while the request ran, which is what
   `GrantWitnessed` says.
2. `NetworkAccess`: a client has access only between a grant and the end of its
   lease plus a delay; a module that composes the controller's sessions,
   `PortalSync` and the gate of `PortalFw` would implement it. `EntryBounded` and
   `GateIntact` are its two halves; the state space of the composition is out of
   TLC's reach at bounds where both halves are interesting, so it is one for the
   prover.

## Not modelled, and why

* The runtime policy document, audit lines, JWT and canonical string formats:
  pure functions of their input or formatting; the models take their results as
  members of small sets.
* `access_device/app/portal_server.go` (every line is commented out),
  `startAccounting` (nobody calls it), a device without a Redis client (never
  built).
* The C++ portal server keeps tokens in one map behind one mutex, each operation
  under the lock, and loses them when it stops. The Python portal server and the
  static pages forward a form; the Go controller refuses its unsigned request.
* RADIUS servers and their images: third-party programs and configuration.
* `portal-dnsmasq-ipset-selftest.sh`: a diagnosis that changes nothing lasting.
* A SET of a session that Redis executes after the client library gave up on it
  (`AccessDevice` has such late commands). Nonces and sessions share the prefix
  `session:` in Redis; the models keep them apart, and no MAC is of the form of a
  nonce's key.
* Two runs of a data-plane script at once: nothing in the repository starts
  them, and nothing would prevent an operator from doing so.
