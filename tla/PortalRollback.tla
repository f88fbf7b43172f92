---------------------------- MODULE PortalRollback ----------------------------
(***************************************************************************)
(* data-plane/tools/portal-backup.sh and portal-restore.sh, on the router   *)
(* that PortalFw describes.  One of the scripts runs at a time; any of them *)
(* may be killed between two commands.  portal-backup.sh and the cleanup of *)
(* portal-restore.sh ignore every command that fails ("|| true").           *)
(***************************************************************************)
EXTENDS PortalFw

CONSTANTS
    Blank,      \* an empty file
    Torn        \* a file that ends within a table

VARIABLES
    dir,        \* BACKUP_DIR is there
    file,       \* what iptables.nat, iptables.filter, ipset.save hold, or None
    rpc,        \* the next command of the two scripts, 0: neither runs
    failed,     \* history: the cleanup commands of this restore that failed silently
    outcome     \* how the last restore ended; "none" since portal-fw.sh ran

rvars == <<dir, file, rpc, failed, outcome>>
allvars == <<vars, rvars>>

NatChain == {"http", "dns"}
Table == {"nat", "filter"}
InTable(t) == IF t = "nat" THEN NatChain ELSE {"fwd"}

\* A table as iptables-save writes it.  "complete" is history.
Saved(t) == [hooked |-> hooked \cap InTable(t),
             chain |-> [c \in InTable(t) |-> chain[c]],
             snat |-> IF t = "nat" THEN snat ELSE {},
             complete |-> [c \in InTable(t) |-> built[c]]]

\* iptables-save wrote the file to its end.
Whole(t) == file[t] \notin {None, Blank, Torn}

Names(s) == {s[i].of : i \in {k \in DOMAIN s : s[k].by \in {"src", "dst"}}}

\* A set that a rule names cannot be destroyed.
Used(s) == \E c \in Chain : s \in Names(chain[c])

-----------------------------------------------------------------------------
(* portal-backup.sh and portal-restore.sh, command by command.              *)

\* Mutant of Steps: the filter table is loaded before the nat table.
StepsFilterFirst == <<
    Cmd("save", "nat"), Cmd("save", "filter"), Cmd("save", "ipset"), Cmd("end", "backup"),
    Cmd("unhook", "dns"), Cmd("unhook", "fwd"), Cmd("delete", "dns"), Cmd("delete", "fwd"),
    Cmd("destroy", "ipset"), Cmd("load", "filter"), Cmd("load", "nat"), Cmd("load", "ipset") >>

Steps == <<
    Cmd("save", "nat"), Cmd("save", "filter"), Cmd("save", "ipset"), Cmd("end", "backup"),
    Cmd("unhook", "dns"), Cmd("unhook", "fwd"), Cmd("delete", "dns"), Cmd("delete", "fwd"),
    Cmd("destroy", "ipset"), Cmd("load", "nat"), Cmd("load", "filter"), Cmd("load", "ipset") >>

RestoreStart == 5

At(op, on) == rpc > 0 /\ Steps[rpc] = Cmd(op, on)
Step == rpc' = rpc + 1 /\ UNCHANGED outcome
Halt(how) == rpc' = 0 /\ outcome' = how

\* A command fails: MaxStop bounds these failures and the kills together.  Where one
\* cleanup command has failed, the lock of iptables held, any others may.
Fails == stops < MaxStop /\ stops' = stops + 1
Lapse ==
    /\ IF failed = {} THEN Fails ELSE UNCHANGED stops
    /\ failed' = failed \cup {Steps[rpc]}
Works == UNCHANGED <<stops, failed>>
firewall == <<env, pc, set, conf, loaded, hooked, chain, snat, ended, partial, built>>

\* A backup makes the directory; a restore asks for no more than that.
Begin ==
    /\ pc = 0 /\ rpc = 0
    /\ \/ rpc' = 1 /\ dir' = TRUE /\ UNCHANGED <<outcome, failed>>
       \/ dir /\ rpc' = RestoreStart /\ outcome' = "running" /\ failed' = {} /\ UNCHANGED dir
    /\ UNCHANGED <<vars, file>>

\* The redirection empties the file before iptables-save runs.
Save(t) ==
    /\ At("save", t)
    /\ \/ file' = [file EXCEPT ![t] = Saved(t)] /\ UNCHANGED stops
       \/ \E rest \in {Blank, Torn} : file' = [file EXCEPT ![t] = rest] /\ Fails
    /\ Step
    /\ UNCHANGED <<firewall, dir, failed>>

\* If the file is not whole, it ends anywhere in what "ipset save" would have written.
SaveSets ==
    /\ At("save", "ipset")
    /\ \E whole \in BOOLEAN :
          /\ file' = [file EXCEPT !["ipset"] = [whole |-> whole, set |-> set]]
          /\ IF whole THEN UNCHANGED stops ELSE Fails
    /\ Step
    /\ UNCHANGED <<firewall, dir, failed>>

EndBackup ==
    /\ At("end", "backup")
    /\ Halt(outcome)
    /\ UNCHANGED <<vars, dir, file, failed>>

Unhook(c) ==
    /\ At("unhook", c)
    /\ \/ /\ hooked' = hooked \ {c}
          /\ built' = [built EXCEPT ![c] = None]
          /\ Works
       \/ c \in hooked /\ Lapse /\ UNCHANGED <<hooked, built>>
    /\ Step
    /\ UNCHANGED <<env, pc, set, conf, loaded, chain, snat, ended, partial, dir, file>>

\* "iptables -F" and "-X": a chain that is empty but still hooked cannot be deleted,
\* and one that is not empty neither.
Delete(c) ==
    /\ At("delete", c)
    /\ \/ /\ chain' = [chain EXCEPT ![c] = <<>>]
          /\ built' = [built EXCEPT ![c] = None]
          /\ Works
       \/ chain[c] # <<>> /\ Lapse /\ UNCHANGED <<chain, built>>
    /\ Step
    /\ UNCHANGED <<env, pc, set, conf, loaded, hooked, snat, ended, partial, dir, file>>

\* Destroy the sets that can be destroyed, one by one.
Destroyable(s) == set[s] # None /\ ~Used(s)
Destroy(s) ==
    /\ At("destroy", "ipset") /\ Destroyable(s)
    /\ set' = [set EXCEPT ![s] = None]
    /\ UNCHANGED <<env, pc, conf, loaded, hooked, chain, snat, ended, partial, built, stops, rvars>>

\* "ipset list" may name no set, "ipset destroy" may fail.
Destroyed ==
    /\ At("destroy", "ipset")
    /\ IF \E s \in SetName : Destroyable(s) THEN Lapse ELSE Works
    /\ Step
    /\ UNCHANGED <<firewall, dir, file>>

\* Mutant of Load: the rules of the backup come on top of those that are there.
LoadNoFlush(t) ==
    /\ At("load", t) /\ Whole(t)
    /\ hooked' = hooked \cup file[t].hooked
    /\ chain' = [c \in Chain |-> IF c \in InTable(t) THEN chain[c] \o file[t].chain[c] ELSE chain[c]]
    /\ snat' = IF t = "nat" THEN snat \cup file[t].snat ELSE snat
    /\ built' = [c \in Chain |-> IF c \in InTable(t) THEN file[t].complete[c] ELSE built[c]]
    /\ Step
    /\ UNCHANGED <<env, pc, set, conf, loaded, ended, partial, stops, dir, file, failed>>

Failure == [nat |-> "failed_nat", filter |-> "failed_filter"]

\* The rules of a whole file that name a set that is not there.
Dangling(t) == \E c \in InTable(t) : \E s \in Names(file[t].chain[c]) : set[s] = None

\* A table is replaced as a whole or not at all; an empty file has nothing to load.
Load(t) ==
    /\ At("load", t)
    /\ \/ file[t] \in {None, Blank} /\ Step /\ UNCHANGED <<hooked, chain, snat, built>>
       \/ /\ file[t] = Torn \/ (Whole(t) /\ Dangling(t))
          /\ Halt(Failure[t]) /\ UNCHANGED <<hooked, chain, snat, built>>
       \/ /\ Whole(t) /\ ~Dangling(t)
          /\ hooked' = (hooked \ InTable(t)) \cup file[t].hooked
          /\ chain' = [c \in Chain |-> IF c \in InTable(t) THEN file[t].chain[c] ELSE chain[c]]
          /\ snat' = IF t = "nat" THEN file[t].snat ELSE snat
          /\ built' = [c \in Chain |-> IF c \in InTable(t) THEN file[t].complete[c] ELSE built[c]]
          /\ Step
    /\ UNCHANGED <<env, pc, set, conf, loaded, ended, partial, stops, dir, file, failed>>

\* The sets of ipset.save in got, and those entries of the set last that are in part.
Creates(got, last, part) ==
    set' = [s \in SetName |-> IF s \in got THEN file["ipset"].set[s]
                               ELSE IF s = last THEN part ELSE set[s]]

\* "ipset restore" creates the sets in the order of the file and stops at the first
\* that is there already, or at a line that the end of the file has cut.
LoadSets ==
    /\ At("load", "ipset")
    /\ IF file["ipset"] = None THEN UNCHANGED set /\ Halt("restored")
       ELSE LET saved == {s \in SetName : file["ipset"].set[s] # None}
                free == {s \in saved : set[s] = None}
            IN  IF file["ipset"].whole /\ free = saved
                THEN Creates(saved, None, {}) /\ Halt("restored")
                ELSE \E got \in SUBSET free :
                     \/ Creates(got, None, {}) /\ Halt("failed_ipset")
                     \/ ~file["ipset"].whole /\ Creates(got, None, {}) /\ Halt("restored")
                     \/ /\ ~file["ipset"].whole
                        /\ \E last \in free \ got : \E part \in SUBSET file["ipset"].set[last] :
                              Creates(got, last, part)
                        /\ \E how \in {"restored", "failed_ipset"} : Halt(how)
    /\ UNCHANGED <<env, pc, conf, loaded, hooked, chain, snat, ended, partial, built, stops,
                   dir, file, failed>>

\* A script is killed, or iptables-restore fails by itself and ends the restore.
Interrupt ==
    /\ rpc > 0 /\ Fails
    /\ \/ Halt("killed")
       \/ \E t \in Table : At("load", t) /\ file[t] # None /\ Halt(Failure[t])
    /\ UNCHANGED <<firewall, dir, file, failed>>

-----------------------------------------------------------------------------
RollbackInit ==
    /\ Init
    /\ dir = FALSE
    /\ file = [t \in Table \cup {"ipset"} |-> None]
    /\ rpc = 0
    /\ failed = {}
    /\ outcome = "none"

Firewall ==
    \/ /\ rpc = 0
       /\ \E r \in Runtime \cup {Default} : Start(r)
       /\ outcome' = "none" /\ failed' = {} /\ UNCHANGED <<dir, file, rpc>>
    \/ (Command \/ Stop \/ Environment) /\ UNCHANGED rvars

Rollback ==
    \/ Begin \/ SaveSets \/ EndBackup \/ Destroyed \/ LoadSets \/ Interrupt
    \/ \E t \in Table : Save(t) \/ Load(t)
    \/ \E c \in {"dns", "fwd"} : Unhook(c) \/ Delete(c)
    \/ \E s \in SetName : Destroy(s)

RollbackSpec == RollbackInit /\ [][Firewall \/ Rollback]_allvars

-----------------------------------------------------------------------------
\* A restore that says it is done has brought back the chains of every whole file of
\* the backup, those it did not clean up included.
TablesRestored == outcome = "restored" => \A t \in Table : Whole(t) => Saved(t) = file[t]

\* A restore that fails while it loads iptables leaves nobody rejected, authorized or
\* not, unless it could neither unhook nor empty the forwarding chain.
FailsOpen ==
    outcome \in {"failed_nat", "failed_filter"} =>
        \A q \in Packet : Stopped("fwd", q) =>
            {Cmd("unhook", "fwd"), Cmd("delete", "fwd")} \subseteq failed

\* Whatever a restore left behind, a run of portal-fw.sh that goes to its end makes
\* the login reachable again.
Reapplied == outcome = "none" => LoginReachable

-----------------------------------------------------------------------------
(* What the repository says and the code does not do.                       *)

\* "Restores iptables (nat/filter) + ipset from backup" (portal-restore.sh): a
\* restore from a complete backup does not fail, if all its cleanup commands work.
RestoreSucceeds ==
    outcome \in {"failed_nat", "failed_filter", "failed_ipset"} =>
        \/ failed # {}
        \/ ~Whole("nat") \/ ~Whole("filter")
        \/ file["ipset"] = None \/ ~file["ipset"].whole

=============================================================================
