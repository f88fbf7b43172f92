------------------------------- MODULE PortalFw -------------------------------
(***************************************************************************)
(* data-plane/tools/portal-agent.sh and portal-fw.sh: how the router turns  *)
(* the runtime it fetched into ipsets, dnsmasq rules and iptables chains.   *)
(*                                                                         *)
(* portal-fw.sh is one list of commands under "set -e".  Packets pass, the  *)
(* sync script works on the allow sets and dnsmasq on the DNS set between   *)
(* any two of them, and the script may end at any of them.                  *)
(***************************************************************************)
EXTENDS Naturals, Sequences

CONSTANTS
    Mac,        \* the MAC addresses of clients and the router
    Self,       \* the router's own MAC address
    Host,       \* destinations, portals among them
    Name,       \* [Host -> domain names], a name is a sequence of labels
    Portal,     \* hosts that may be configured as the portal
    Runtime,    \* the runtimes that may be fetched
    Default,    \* what the script assumes without a runtime
    MaxStop,    \* how often the script is killed or a command fails
    Broken,     \* a list that is not a JSON array
    None

AllowSet == {"guest", "staff"}
SetName == AllowSet \cup {"mac", "ip", "dns"}
Chain == {"http", "dns", "fwd"}
Port == {"http", "https", "dns", "other"}
Packet == [mac : Mac, dst : Host, port : Port]

ASSUME NameAssumption ==
    /\ Self \in Mac /\ Portal \subseteq Host
    /\ None \notin Portal /\ "pass" \notin Portal /\ "reject" \notin Portal
    /\ \A members \in SUBSET (Mac \cup Host) : members # None
ASSUME RuntimeAssumption ==
    \A r \in Runtime \cup {Default} :
        /\ r.portal \in Portal /\ r.enabled \in BOOLEAN
        /\ r.mac = Broken \/ r.mac \subseteq Mac
        /\ r.ip = Broken \/ r.ip \subseteq Host
        /\ r.conf = Broken \/ r.conf \subseteq Seq(STRING) \ {<<>>}
ASSUME StopAssumption == MaxStop \in Nat

VARIABLES
    env,        \* the runtime that the last run read from RUNTIME_ENV
    pc,         \* the next command of portal-fw.sh, 0: it does not run
    set,        \* the members of an ipset, None: there is no such set
    conf,       \* DNSMASQ_IPSET_CONF: the domains it names
    loaded,     \* the domains dnsmasq works with
    hooked,     \* the chains that packets are sent through
    chain,      \* the rules of a chain
    snat,       \* the portals whose traffic is masqueraded
    ended,      \* how the last run ended
    partial,    \* history: a flush or a listed entry of this run failed silently
    built,      \* history: the portal a chain was completed for, None: it is not complete
    stops       \* the number of stops so far

vars == <<env, pc, set, conf, loaded, hooked, chain, snat, ended, partial, built, stops>>

Members(s) == IF set[s] = None THEN {} ELSE set[s]

-----------------------------------------------------------------------------
(* Rules.                                                                   *)

Rule(by, of, to) == [by |-> by, of |-> of, to |-> to]

\* Every chain lets clients in the allow sets, bypassed clients and bypassed
\* destinations through first.
Exemptions ==
    << Rule("src", "guest", "pass"), Rule("src", "staff", "pass"),
       Rule("src", "mac", "pass"), Rule("dst", "ip", "pass") >>

\* Mutant of Rules: the portal has no rule in the forwarding chain.
RulesNoPortal(c, p) ==
    Exemptions \o
    IF c = "http" THEN << Rule("port", "http", p), Rule("any", None, "pass") >>
    ELSE IF c = "dns" THEN << Rule("dst", "dns", "pass"), Rule("port", "dns", p),
                              Rule("any", None, "pass") >>
    ELSE << Rule("port", "https", "reject"), Rule("any", None, "reject") >>

\* Mutant of Rules: a redirection comes before the exemptions.
RulesRedirectFirst(c, p) ==
    IF c = "http" THEN << Rule("port", "http", p) >> \o Exemptions
    ELSE IF c = "dns" THEN << Rule("port", "dns", p) >> \o Exemptions
    ELSE Exemptions \o << Rule("host", p, "pass"), Rule("any", None, "reject") >>

\* Mutant of Rules: the DNS chain has no rule for the DNS set.
RulesNoDNS(c, p) ==
    Exemptions \o
    IF c = "http" THEN << Rule("port", "http", p), Rule("any", None, "pass") >>
    ELSE IF c = "dns" THEN << Rule("port", "dns", p), Rule("any", None, "pass") >>
    ELSE << Rule("host", p, "pass"), Rule("port", "https", "reject"),
            Rule("any", None, "reject") >>

\* The chain c for portal p.  UDP and TCP rules of the DNS chain are one rule.
Rules(c, p) ==
    Exemptions \o
    IF c = "http" THEN << Rule("port", "http", p), Rule("any", None, "pass") >>
    ELSE IF c = "dns" THEN << Rule("dst", "dns", "pass"), Rule("port", "dns", p),
                              Rule("any", None, "pass") >>
    ELSE << Rule("host", p, "pass"), Rule("port", "https", "reject"),
            Rule("any", None, "reject") >>

Hit(r, q) ==
    \/ r.by = "src" /\ q.mac \in Members(r.of)
    \/ r.by = "dst" /\ q.dst \in Members(r.of)
    \/ r.by = "host" /\ q.dst = r.of
    \/ r.by = "port" /\ q.port = r.of
    \/ r.by = "any"

\* The first rule of s that hits q leads to one of to.
Leads(s, q, to) ==
    \E i \in DOMAIN s :
        /\ s[i].to \in to /\ Hit(s[i], q)
        /\ \A j \in 1..(i - 1) : ~Hit(s[j], q)

Verdict == Portal \cup {"reject"}

\* q is redirected or rejected in c; what no rule hits goes on.
Stopped(c, q) == c \in hooked /\ Leads(chain[c], q, Verdict)

-----------------------------------------------------------------------------
(* Domains.                                                                 *)

\* "${d#*.}": the asterisk is a wildcard, so the first label goes, whatever it is.
Cut(d) == IF Len(d) > 1 THEN Tail(d) ELSE d

\* Then a leading dot goes.  A name without a dot is dropped.
Normalized(d) == IF Cut(d)[1] = "" THEN Cut(Cut(d)) ELSE Cut(d)
Domains(l) == {n \in {Normalized(d) : d \in l} : Len(n) > 1}

Suffix(d, n) == \E k \in 1..Len(n) : d = SubSeq(n, k, Len(n))

-----------------------------------------------------------------------------
(* The script.                                                              *)

Cmd(op, on) == [op |-> op, on |-> on]

Script == <<
    Cmd("ensure", "guest"), Cmd("ensure", "staff"), Cmd("ensure", "mac"),
    Cmd("ensure", "ip"), Cmd("ensure", "dns"), Cmd("self", "mac"),
    Cmd("flush", "mac"), Cmd("fill", "mac"), Cmd("flush", "ip"), Cmd("fill", "ip"),
    Cmd("flush", "dns"), Cmd("clear", "conf"), Cmd("reflush", "dns"),
    Cmd("fill", "conf"), Cmd("reload", "conf"),
    Cmd("hook", "http"), Cmd("empty", "http"), Cmd("append", "http"), Cmd("snat", "http"),
    Cmd("hook", "dns"), Cmd("empty", "dns"), Cmd("append", "dns"),
    Cmd("hook", "fwd"), Cmd("empty", "fwd"), Cmd("append", "fwd") >>

Doing(op, on) == pc > 0 /\ Script[pc] = Cmd(op, on)

Go ==
    /\ pc' = IF pc = Len(Script) THEN 0 ELSE pc + 1
    /\ ended' = IF pc = Len(Script) THEN "done" ELSE ended
    /\ UNCHANGED <<env, stops>>

Listed(l) == IF env.enabled THEN env[l] ELSE {}

\* portal-agent.sh fetches r, writes RUNTIME_ENV and runs portal-fw.sh, or
\* somebody runs portal-fw.sh on what is there.  A fetch that fails changes nothing.
Start(r) ==
    /\ pc = 0
    /\ env' = r
    /\ pc' = 1
    /\ ended' = "none"
    /\ partial' = FALSE
    /\ UNCHANGED <<set, conf, loaded, hooked, chain, snat, built, stops>>

Ensure(s) ==
    /\ Doing("ensure", s)
    /\ set' = [set EXCEPT ![s] = Members(s)]
    /\ Go
    /\ UNCHANGED <<conf, loaded, hooked, chain, snat, partial, built>>

\* The address may be unreadable, the command may fail: both are ignored.
AddSelf ==
    /\ Doing("self", "mac")
    /\ \E added \in SUBSET {Self} :
          set' = [set EXCEPT !["mac"] = Members("mac") \cup added]
    /\ Go
    /\ UNCHANGED <<conf, loaded, hooked, chain, snat, partial, built>>

\* Mutant of Flush: what is in the set stays.
FlushNothing(s) ==
    /\ Doing("flush", s) \/ Doing("reflush", s)
    /\ UNCHANGED <<set, partial>>
    /\ Go
    /\ UNCHANGED <<conf, loaded, hooked, chain, snat, built>>

\* A flush that fails is ignored.  The DNS set is flushed again if bypassing is
\* enabled.
Flush(s) ==
    /\ Doing("flush", s) \/ Doing("reflush", s)
    /\ IF Doing("reflush", s) /\ ~env.enabled THEN UNCHANGED <<set, partial>>
       ELSE \/ set' = [set EXCEPT ![s] = {}] /\ UNCHANGED partial
            \/ UNCHANGED set /\ partial' = TRUE
    /\ Go
    /\ UNCHANGED <<conf, loaded, hooked, chain, snat, built>>

\* Mutant of Fill: both lists go to the set of MAC addresses.
FillSwapped(s) ==
    /\ Doing("fill", s) /\ Listed(s) # Broken
    /\ \E added \in SUBSET Listed(s) :
          /\ set' = [set EXCEPT !["mac"] = Members("mac") \cup added]
          /\ partial' = (partial \/ added # Listed(s))
    /\ Go
    /\ UNCHANGED <<conf, loaded, hooked, chain, snat, built>>

\* An entry that cannot be added is left out.
Fill(s) ==
    /\ Doing("fill", s) /\ Listed(s) # Broken
    /\ \E added \in SUBSET Listed(s) :
          /\ set' = [set EXCEPT ![s] = Members(s) \cup added]
          /\ partial' = (partial \/ added # Listed(s))
    /\ Go
    /\ UNCHANGED <<conf, loaded, hooked, chain, snat, built>>

\* Mutant of Clear: the file is not truncated.
ClearNothing ==
    /\ Doing("clear", "conf")
    /\ UNCHANGED conf
    /\ Go
    /\ UNCHANGED <<set, loaded, hooked, chain, snat, partial, built>>

Clear ==
    /\ Doing("clear", "conf")
    /\ conf' = {}
    /\ Go
    /\ UNCHANGED <<set, loaded, hooked, chain, snat, partial, built>>

FillConf ==
    /\ Doing("fill", "conf") /\ Listed("conf") # Broken
    /\ conf' = conf \cup Domains(Listed("conf"))
    /\ Go
    /\ UNCHANGED <<set, loaded, hooked, chain, snat, partial, built>>

\* If dnsmasq neither reloads nor restarts, that is logged only.
Reload ==
    /\ Doing("reload", "conf")
    /\ loaded' \in {conf, loaded}
    /\ Go
    /\ UNCHANGED <<set, conf, hooked, chain, snat, partial, built>>

\* A chain that was not there is empty.
Hook(c) ==
    /\ Doing("hook", c)
    /\ hooked' = hooked \cup {c}
    /\ Go
    /\ UNCHANGED <<set, conf, loaded, chain, snat, partial, built>>

Empty(c) ==
    /\ Doing("empty", c)
    /\ chain' = [chain EXCEPT ![c] = <<>>]
    /\ built' = [built EXCEPT ![c] = None]
    /\ Go
    /\ UNCHANGED <<set, conf, loaded, hooked, snat, partial>>

AppendRule(c) ==
    /\ Doing("append", c)
    /\ LET rules == Rules(c, env.portal)
           n == Len(chain[c]) + 1
       IN  /\ chain' = [chain EXCEPT ![c] = Append(@, rules[n])]
           /\ IF n < Len(rules) THEN UNCHANGED <<env, pc, ended, stops, built>>
              ELSE Go /\ built' = [built EXCEPT ![c] = env.portal]
    /\ UNCHANGED <<set, conf, loaded, hooked, snat, partial>>

\* Mutant of Masquerade: a rule of any portal will do.
MasqueradeOnce ==
    /\ Doing("snat", "http")
    /\ snat' = IF snat = {} THEN {env.portal} ELSE snat
    /\ Go
    /\ UNCHANGED <<set, conf, loaded, hooked, chain, partial, built>>

Masquerade ==
    /\ Doing("snat", "http")
    /\ snat' = snat \cup {env.portal}
    /\ Go
    /\ UNCHANGED <<set, conf, loaded, hooked, chain, partial, built>>

End ==
    /\ pc' = 0
    /\ ended' = "stopped"
    /\ UNCHANGED <<env, set, conf, loaded, hooked, chain, snat, partial, built>>

\* A list that is no array ends the script.
Reject ==
    /\ \E l \in {"mac", "ip", "conf"} : Doing("fill", l) /\ Listed(l) = Broken
    /\ End
    /\ UNCHANGED stops

\* The script is killed, or a command fails and "set -e" ends it.
Stop ==
    /\ pc > 0 /\ stops < MaxStop
    /\ End
    /\ stops' = stops + 1

-----------------------------------------------------------------------------
(* The environment.                                                         *)

Changes(s, members) ==
    /\ set[s] # None
    /\ set' = [set EXCEPT ![s] = members]
    /\ UNCHANGED <<env, pc, conf, loaded, hooked, chain, snat, ended, partial, built, stops>>

\* portal-sync.sh lets a client in, and always adds the router.
Admit(m, s) == m \notin Members(s) /\ Changes(s, Members(s) \cup {m})
SyncSelf == Self \notin Members("mac") /\ Changes("mac", Members("mac") \cup {Self})

\* portal-sync.sh removes a client, or its entry expires.
Expel(m, s) == m \in Members(s) /\ Changes(s, Members(s) \ {m})

\* dnsmasq answers for a host and adds it, if a rule it works with says so.
Resolve(h) ==
    /\ h \notin Members("dns")
    /\ \E d \in loaded : Suffix(d, Name[h])
    /\ Changes("dns", Members("dns") \cup {h})

-----------------------------------------------------------------------------
Init ==
    /\ env = Default
    /\ pc = 0
    /\ set = [s \in SetName |-> None]
    /\ conf = {} /\ loaded = {}
    /\ hooked = {}
    /\ chain = [c \in Chain |-> <<>>]
    /\ snat = {}
    /\ ended = "none"
    /\ partial = FALSE
    /\ built = [c \in Chain |-> None]
    /\ stops = 0

Command ==
    \/ \E s \in SetName : Ensure(s) \/ Flush(s) \/ Fill(s)
    \/ AddSelf \/ Clear \/ FillConf \/ Reload \/ Masquerade \/ Reject
    \/ \E c \in Chain : Hook(c) \/ Empty(c) \/ AppendRule(c)

Environment ==
    \/ \E m \in Mac \ {Self}, s \in AllowSet : Admit(m, s) \/ Expel(m, s)
    \/ SyncSelf
    \/ \E h \in Host : Resolve(h)

Next ==
    \/ \E r \in Runtime \cup {Default} : Start(r)
    \/ Command
    \/ Stop
    \/ Environment

Spec == Init /\ [][Next]_vars

-----------------------------------------------------------------------------
TypeOK ==
    /\ env \in Runtime \cup {Default}
    /\ pc \in 0..Len(Script)
    /\ set \in [SetName -> {None} \cup SUBSET (Mac \cup Host)]
    /\ \A s \in AllowSet \cup {"mac"} : set[s] = None \/ set[s] \subseteq Mac
    /\ \A s \in {"ip", "dns"} : set[s] = None \/ set[s] \subseteq Host
    /\ hooked \subseteq Chain
    /\ DOMAIN chain = Chain
    /\ \A c \in Chain : \E p \in Portal : \E n \in 0..Len(Rules(c, p)) :
           chain[c] = SubSeq(Rules(c, p), 1, n)
    /\ snat \subseteq Portal
    /\ ended \in {"none", "done", "stopped"}
    /\ partial \in BOOLEAN
    /\ built \in [Chain -> Portal \cup {None}]
    /\ stops \in 0..MaxStop

Authorized(q) == \E s \in AllowSet : q.mac \in Members(s)
Exempt(q) == Authorized(q) \/ q.mac \in Members("mac") \/ q.dst \in Members("ip")

\* A client in an allow set is never redirected or rejected, while the chains are
\* rebuilt as little as after a run that did not get to its end.
AuthorizedPass ==
    \A q \in Packet : Authorized(q) => \A c \in Chain : ~Stopped(c, q)

\* From the command that completes a chain to the one that empties it again, in a
\* later run, however the runs in between ended: the chain stops exactly what is
\* neither exempt nor on its way to the portal.
GateIntact ==
    \A c \in Chain : built[c] # None =>
        \A q \in Packet :
            Stopped(c, q) <=>
                /\ ~Exempt(q)
                /\ c = "http" => q.port = "http"
                /\ c = "dns" => q.port = "dns" /\ q.dst \notin Members("dns")
                /\ c = "fwd" => q.dst # built[c]

\* After a run that went to its end, the bypass sets are what the runtime says,
\* whatever earlier runs left there, unless an ipset command failed silently.  The
\* router itself may have been added by portal-sync.sh.
Reconciled ==
    pc = 0 /\ ended = "done" /\ ~partial =>
        /\ set["mac"] \ {Self} = Listed("mac") \ {Self}
        /\ set["ip"] = Listed("ip")

\* After a run that went to its end, every rule in dnsmasq's file covers a domain
\* of this runtime, so none is left of an earlier one, and every wildcard of the
\* runtime has its rule (normalize_domain).  Of a domain without a wildcard it says
\* nothing more: the code takes its first label away, against its own comment.
DomainsReconciled ==
    pc = 0 /\ ended = "done" =>
        /\ \A n \in conf : \E d \in Listed("conf") : Suffix(n, d)
        /\ \A d \in Listed("conf") :
              d[1] = "*" /\ Len(d) > 2 /\ d[2] # "" => Tail(d) \in conf

\* After a run that went to its end, under the runtime it applied, HTTP of a client
\* that is not exempt is redirected to a portal that the forwarding chain lets it
\* reach and whose answers come back.
LoginReachable ==
    pc = 0 /\ ended = "done" =>
        \A q \in Packet : q.port = "http" /\ ~Exempt(q) =>
            \E p \in snat :
                /\ "http" \in hooked /\ Leads(chain["http"], q, {p})
                /\ ~Stopped("fwd", [q EXCEPT !.dst = p, !.port = "other"])

=============================================================================
