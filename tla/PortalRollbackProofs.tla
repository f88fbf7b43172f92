------------------------- MODULE PortalRollbackProofs -------------------------
(***************************************************************************)
(* Proofs about PortalRollback for every set of clients, hosts and runtimes *)
(* and any number of backups and restores, killed anywhere.                 *)
(***************************************************************************)
EXTENDS PortalRollback, PortalFwProofs

\* What a backup of a table holds.
TableOK(t, f) ==
    /\ f = [hooked |-> f.hooked, chain |-> f.chain, snat |-> f.snat, complete |-> f.complete]
    /\ f.hooked \subseteq InTable(t)
    /\ f.chain = [c \in InTable(t) |-> f.chain[c]]
    /\ \A c \in InTable(t) : \E p \in Portal : \E n \in 0..Len(Rules(c, p)) :
          f.chain[c] = SubSeq(Rules(c, p), 1, n)
    /\ f.snat \subseteq Portal
    /\ t = "filter" => f.snat = {}
    /\ f.complete \in [InTable(t) -> Portal \cup {None}]
    /\ \A c \in InTable(t) : f.complete[c] # None =>
          c \in f.hooked /\ f.chain[c] = Rules(c, f.complete[c])

SetsOK(v) ==
    /\ v \in [SetName -> {None} \cup SUBSET (Mac \cup Host)]
    /\ \A s \in AllowSet \cup {"mac"} : v[s] = None \/ v[s] \subseteq Mac
    /\ \A s \in {"ip", "dns"} : v[s] = None \/ v[s] \subseteq Host

FileOK ==
    /\ DOMAIN file = Table \cup {"ipset"}
    /\ file = [t \in DOMAIN file |-> file[t]]
    /\ \A t \in Table : Whole(t) => TableOK(t, file[t])
    /\ file["ipset"] # None => SetsOK(file["ipset"].set)

\* portal-fw.sh and the two scripts take turns; portal-fw.sh begins with a clean slate.
Turns ==
    /\ rpc \in 0..12
    /\ rpc > 0 => pc = 0
    /\ pc > 0 => outcome = "none"
    /\ rpc > 4 <=> outcome = "running"

\* The forwarding chain can reject nothing, or the cleanup could not help it.
Open ==
    \/ "fwd" \notin hooked \/ chain["fwd"] = <<>>
    \/ {Cmd("unhook", "fwd"), Cmd("delete", "fwd")} \subseteq failed

\* From the cleanup of the forwarding chain until its table is back.
Cleared ==
    /\ rpc \in {7, 8} => "fwd" \notin hooked \/ Cmd("unhook", "fwd") \in failed
    /\ rpc \in 9..11 \/ outcome \in {"failed_nat", "failed_filter"} => Open

\* A table is what its backup says, if there is a whole one.
Restored(t) == Whole(t) => Saved(t) = file[t]

Reloaded ==
    /\ rpc \in {11, 12} \/ outcome = "restored" => Restored("nat")
    /\ rpc = 12 \/ outcome = "restored" => Restored("filter")

Returned == outcome = "none" => ChainsFollow

RInv == IInv /\ FileOK /\ Turns /\ Cleared /\ Reloaded /\ Returned

-----------------------------------------------------------------------------
LEMMA StepPlaces ==
    ASSUME Turns
    PROVE  /\ At("save", "nat") => rpc = 1
           /\ At("save", "filter") => rpc = 2
           /\ At("save", "ipset") => rpc = 3
           /\ At("end", "backup") => rpc = 4
           /\ At("unhook", "dns") => rpc = 5
           /\ At("unhook", "fwd") => rpc = 6
           /\ At("delete", "dns") => rpc = 7
           /\ At("delete", "fwd") => rpc = 8
           /\ At("destroy", "ipset") => rpc = 9
           /\ At("load", "nat") => rpc = 10
           /\ At("load", "filter") => rpc = 11
           /\ At("load", "ipset") => rpc = 12
<1>1. ASSUME NEW i \in 1..12
      PROVE  /\ Steps[i] = Cmd("save", "nat") => i = 1
             /\ Steps[i] = Cmd("save", "filter") => i = 2
             /\ Steps[i] = Cmd("save", "ipset") => i = 3
             /\ Steps[i] = Cmd("end", "backup") => i = 4
             /\ Steps[i] = Cmd("unhook", "dns") => i = 5
             /\ Steps[i] = Cmd("unhook", "fwd") => i = 6
             /\ Steps[i] = Cmd("delete", "dns") => i = 7
             /\ Steps[i] = Cmd("delete", "fwd") => i = 8
             /\ Steps[i] = Cmd("destroy", "ipset") => i = 9
             /\ Steps[i] = Cmd("load", "nat") => i = 10
             /\ Steps[i] = Cmd("load", "filter") => i = 11
             /\ Steps[i] = Cmd("load", "ipset") => i = 12
  BY <1>1 DEF Steps, Cmd
<1>2. rpc > 0 => rpc \in 1..12
  BY DEF Turns
<1>. QED
  BY <1>1, <1>2 DEF At

\* Where no command of portal-fw.sh runs, the tables and sets may change as a whole.
LEMMA RouterStep ==
    ASSUME IInv, pc = 0, UNCHANGED <<env, pc, ended, partial>>,
           SetOK', ChainOK', hooked' \subseteq Chain, snat' \subseteq Portal,
           built' \in [Chain -> Portal \cup {None}], stops' \in 0..MaxStop,
           \A c \in Chain : built'[c] # None => c \in hooked' /\ chain'[c] = Rules(c, built'[c])
    PROVE  IInv'
<1>1. TypeOK'
  BY DEF IInv, TypeOK, SetOK, ChainOK
<1>2. \A c \in Chain : ~Doing("empty", c)' /\ ~Doing("append", c)'
  BY DEF Doing
<1>. QED
  BY <1>1, <1>2 DEF IInv

LEMMA InitRInv == RollbackInit => RInv
<1>. SUFFICES ASSUME RollbackInit PROVE RInv
  OBVIOUS
<1>1. IInv /\ ChainsFollow
  BY InitIInv, InitFollows DEF RollbackInit
<1>2. FileOK
  BY DEF RollbackInit, FileOK, Table, Whole
<1>3. Turns /\ Cleared /\ Reloaded
  BY DEF RollbackInit, Init, Turns, Cleared, Reloaded
<1>. QED
  BY <1>1, <1>2, <1>3 DEF RInv, Returned

\* What a backup says of a table depends on its rules only.
LEMMA SavedSame ==
    ASSUME UNCHANGED <<hooked, chain, snat, built>>
    PROVE  \A t : Saved(t)' = Saved(t)
BY DEF Saved

-----------------------------------------------------------------------------
(* portal-fw.sh and the environment.                                        *)

LEMMA FirewallStep ==
    ASSUME RInv, Firewall
    PROVE  RInv'
<1>1. IInv'
  <2>1. Next
    BY DEF Firewall, Next
  <2>. QED
    BY <2>1, NextIInv DEF RInv
<1>2. FileOK'
  BY DEF Firewall, rvars, RInv, FileOK, Whole
<1>3. CASE rpc = 0 /\ \E r \in Runtime \cup {Default} : Start(r) /\ outcome' = "none" /\ UNCHANGED <<file, rpc>>
  <2>1. pc' = 1 /\ outcome' = "none" /\ rpc' = 0
    BY <1>3 DEF Start
  <2>2. Turns' /\ Cleared' /\ Reloaded'
    BY <2>1 DEF Turns, Cleared, Reloaded
  <2>3. ChainsFollow'
    BY <2>1, NotPast DEF ChainsFollow
  <2>. QED
    BY <1>1, <1>2, <2>2, <2>3 DEF RInv, Returned
<1>4. CASE (Command \/ Stop) /\ UNCHANGED rvars
  <2>1. pc > 0
    BY <1>4 DEF Stop, Command, Ensure, Flush, Fill, AddSelf, Clear, FillConf, Reload,
                Masquerade, Reject, Hook, Empty, AppendRule, Doing
  <2>2. outcome = "none" /\ rpc = 0 /\ outcome' = "none" /\ rpc' = 0
    BY <1>4, <2>1 DEF RInv, Turns, rvars
  <2>3. Turns' /\ Cleared' /\ Reloaded'
    BY <2>2 DEF Turns, Cleared, Reloaded
  <2>4. ChainsFollow'
    <3>1. ChainsFollow /\ TypeOK
      BY <2>2 DEF RInv, Returned, IInv
    <3>2. CASE Command
      BY <3>1, <3>2, ChainsFollowStep
    <3>3. CASE Stop
      <4>1. pc' = 0 /\ ended' = "stopped"
        BY <3>3 DEF Stop, End
      <4>. QED
        BY <4>1, NotPast DEF ChainsFollow
    <3>. QED
      BY <1>4, <3>2, <3>3
  <2>. QED
    BY <1>1, <1>2, <2>3, <2>4 DEF RInv, Returned
<1>5. CASE Environment /\ UNCHANGED rvars
  <2>1. UNCHANGED <<env, pc, ended, hooked, chain, snat, built>>
    BY <1>5 DEF Environment, Admit, Expel, SyncSelf, Resolve, Changes
  <2>2. UNCHANGED <<file, rpc, outcome, failed>>
    BY <1>5 DEF rvars
  <2>3. Turns' /\ Cleared'
    BY <2>1, <2>2 DEF RInv, Turns, Cleared, Open
  <2>4. Reloaded'
    BY <2>1, <2>2, SavedSame DEF RInv, Reloaded, Restored, Whole
  <2>5. Returned'
    BY <2>1, <2>2 DEF RInv, Returned, ChainsFollow, Past
  <2>. QED
    BY <1>1, <1>2, <2>3, <2>4, <2>5 DEF RInv
<1>. QED
  BY <1>3, <1>4, <1>5 DEF Firewall

-----------------------------------------------------------------------------
(* portal-backup.sh.                                                        *)

LEMMA StopsType ==
    ASSUME RInv, Fails \/ Lapse \/ Works \/ UNCHANGED stops
    PROVE  stops' \in 0..MaxStop
BY StopAssumption DEF RInv, IInv, TypeOK, Fails, Lapse, Works

\* A step of a script that leaves the router as it is.
LEMMA StillRouter ==
    ASSUME RInv, \/ UNCHANGED vars
                 \/ rpc > 0 /\ UNCHANGED firewall /\ stops' \in 0..MaxStop
    PROVE  /\ IInv'
           /\ \A t : Saved(t)' = Saved(t)
           /\ outcome' = "none" /\ outcome = "none" => Returned'
<1>1. UNCHANGED <<env, pc, set, hooked, chain, snat, ended, partial, built>>
  BY DEF vars, firewall
<1>2. IInv'
  <2>1. CASE UNCHANGED vars
    BY <2>1, NextIInv DEF RInv
  <2>2. CASE rpc > 0 /\ UNCHANGED firewall /\ stops' \in 0..MaxStop
    <3>1. pc = 0 /\ SetOK' /\ ChainOK' /\ hooked' \subseteq Chain /\ snat' \subseteq Portal
      BY <1>1, <2>2, TypeParts DEF RInv, Turns, IInv, TypeOK, SetOK, ChainOK
    <3>2. built' \in [Chain -> Portal \cup {None}]
      BY <1>1 DEF RInv, IInv, TypeOK
    <3>3. \A c \in Chain : built'[c] # None => c \in hooked' /\ chain'[c] = Rules(c, built'[c])
      BY <1>1 DEF RInv, IInv
    <3>. QED
      BY <1>1, <2>2, <3>1, <3>2, <3>3, RouterStep DEF RInv
  <2>. QED
    BY <2>1, <2>2
<1>3. \A t : Saved(t)' = Saved(t)
  BY <1>1, SavedSame
<1>4. ASSUME outcome' = "none", outcome = "none"
      PROVE  Returned'
  BY <1>1, <1>4 DEF RInv, Returned, ChainsFollow, Past
<1>. QED
  BY <1>2, <1>3, <1>4

LEMMA BeginStep ==
    ASSUME RInv, Begin
    PROVE  RInv'
<1>1. IInv' /\ (outcome' = "none" /\ outcome = "none" => Returned')
      /\ \A t : Saved(t)' = Saved(t)
  BY StillRouter DEF Begin
<1>2. pc = 0 /\ pc' = 0 /\ rpc = 0 /\ UNCHANGED <<hooked, chain, file>>
  BY DEF Begin, vars
<1>3. \/ rpc' = 1 /\ outcome' = outcome /\ failed' = failed
      \/ rpc' = 5 /\ outcome' = "running"
  BY DEF Begin, RestoreStart
<1>4. Turns'
  BY <1>2, <1>3 DEF RInv, Turns
<1>5. Cleared'
  BY <1>2, <1>3 DEF RInv, Cleared, Open
<1>6. Reloaded'
  <2>1. rpc' \notin {11, 12} /\ (outcome' = "restored" => outcome = "restored")
    BY <1>3
  <2>2. \A t : Restored(t)' <=> Restored(t)
    BY <1>1, <1>2 DEF Restored, Whole
  <2>. QED
    BY <2>1, <2>2 DEF RInv, Reloaded
<1>7. FileOK'
  BY <1>2 DEF RInv, FileOK, Whole
<1>8. Returned'
  BY <1>1, <1>3 DEF Returned
<1>. QED
  BY <1>1, <1>4, <1>5, <1>6, <1>7, <1>8 DEF RInv

LEMMA SavedOK ==
    ASSUME IInv, NEW t \in Table
    PROVE  TableOK(t, Saved(t))
<1>1. InTable(t) \subseteq Chain
  BY DEF InTable, NatChain, Chain
<1>2. ChainOK /\ TypeOK
  BY TypeParts DEF IInv
<1>3. /\ Saved(t).hooked = hooked \cap InTable(t)
      /\ Saved(t).chain = [c \in InTable(t) |-> chain[c]]
      /\ Saved(t).snat = IF t = "nat" THEN snat ELSE {}
      /\ Saved(t).complete = [c \in InTable(t) |-> built[c]]
      /\ Saved(t) = [hooked |-> Saved(t).hooked, chain |-> Saved(t).chain,
                     snat |-> Saved(t).snat, complete |-> Saved(t).complete]
  BY DEF Saved
<1>4. /\ \A c \in InTable(t) : Saved(t).chain[c] = chain[c]
      /\ \A c \in InTable(t) : Saved(t).complete[c] = built[c]
  BY <1>3
<1>5. Saved(t).hooked \subseteq InTable(t)
  BY <1>3
<1>6. Saved(t).chain = [c \in InTable(t) |-> Saved(t).chain[c]]
  BY <1>3
<1>7. \A c \in InTable(t) : \E p \in Portal : \E n \in 0..Len(Rules(c, p)) :
         Saved(t).chain[c] = SubSeq(Rules(c, p), 1, n)
  BY <1>1, <1>2, <1>4 DEF ChainOK
<1>8. Saved(t).snat \subseteq Portal /\ (t = "filter" => Saved(t).snat = {})
  BY <1>2, <1>3 DEF TypeOK
<1>9. Saved(t).complete \in [InTable(t) -> Portal \cup {None}]
  BY <1>1, <1>2, <1>3 DEF TypeOK
<1>10. \A c \in InTable(t) : Saved(t).complete[c] # None =>
          c \in Saved(t).hooked /\ Saved(t).chain[c] = Rules(c, Saved(t).complete[c])
  BY <1>1, <1>3, <1>4 DEF IInv
<1>. QED
  BY <1>3, <1>5, <1>6, <1>7, <1>8, <1>9, <1>10 DEF TableOK

LEMMA SaveStep ==
    ASSUME RInv, NEW t \in Table, Save(t)
    PROVE  RInv'
<1>1. rpc > 0 /\ UNCHANGED firewall /\ stops' \in 0..MaxStop
  BY StopsType DEF Save, At
<1>2. IInv' /\ (outcome' = "none" /\ outcome = "none" => Returned')
      /\ \A k : Saved(k)' = Saved(k)
  BY <1>1, StillRouter
<1>3. /\ UNCHANGED <<hooked, chain, pc, outcome, failed>>
      /\ rpc' = rpc + 1 /\ rpc \in {1, 2}
  BY StepPlaces DEF RInv, Save, Step, firewall, Table
<1>4. /\ DOMAIN file' = Table \cup {"ipset"}
      /\ file' = [k \in DOMAIN file' |-> file'[k]]
      /\ file'[t] \in {Saved(t), Blank, Torn}
      /\ \A k \in DOMAIN file : k # t => file'[k] = file[k]
      /\ t # "ipset"
  BY DEF RInv, FileOK, Save, Table
<1>5. FileOK'
  <2>1. \A k \in Table : Whole(k)' => TableOK(k, file'[k])
    BY <1>4, SavedOK DEF RInv, FileOK, Whole
  <2>2. file'["ipset"] # None => SetsOK(file'["ipset"].set)
    BY <1>4 DEF RInv, FileOK
  <2>. QED
    BY <1>4, <2>1, <2>2 DEF FileOK, TableOK, SetsOK
<1>6. Turns' /\ Cleared'
  BY <1>3 DEF RInv, Turns, Cleared, Open
<1>7. Reloaded'
  <2>1. ASSUME NEW k \in Table, outcome = "restored", Restored(k)
        PROVE  Restored(k)'
    BY <1>2, <1>4, <2>1 DEF Restored, Whole, RInv, FileOK
  <2>2. "nat" \in Table /\ "filter" \in Table
    BY DEF Table
  <2>. QED
    BY <1>3, <2>1, <2>2 DEF RInv, Reloaded
<1>8. Returned'
  BY <1>2, <1>3 DEF Returned
<1>. QED
  BY <1>2, <1>5, <1>6, <1>7, <1>8 DEF RInv

LEMMA SaveSetsStep ==
    ASSUME RInv, SaveSets
    PROVE  RInv'
<1>1. rpc > 0 /\ UNCHANGED firewall /\ stops' \in 0..MaxStop
  BY StopsType DEF SaveSets, At
<1>2. IInv' /\ (outcome' = "none" /\ outcome = "none" => Returned')
      /\ \A k : Saved(k)' = Saved(k)
  BY <1>1, StillRouter
<1>3. UNCHANGED <<hooked, chain, pc, outcome, failed>> /\ rpc' = 4 /\ rpc = 3
  BY StepPlaces DEF RInv, SaveSets, Step, firewall
<1>4. /\ DOMAIN file' = Table \cup {"ipset"}
      /\ file' = [k \in DOMAIN file' |-> file'[k]]
      /\ file'["ipset"].set = set /\ \A k \in Table : file'[k] = file[k]
  <2>1. PICK whole \in BOOLEAN :
          file' = [file EXCEPT !["ipset"] = [whole |-> whole, set |-> set]]
    BY DEF SaveSets
  <2>2. DOMAIN file = Table \cup {"ipset"} /\ "ipset" \notin Table
    BY DEF RInv, FileOK, Table
  <2>3. file'["ipset"] = [whole |-> whole, set |-> set]
    BY <2>1, <2>2
  <2>. QED
    BY <2>1, <2>2, <2>3
<1>5. FileOK'
  <2>1. SetsOK(set)
    BY TypeParts DEF RInv, IInv, SetOK, SetsOK
  <2>2. SetsOK(file'["ipset"].set) /\ \A k \in Table : Whole(k)' => TableOK(k, file'[k])
    BY <1>4, <2>1 DEF RInv, FileOK, Whole
  <2>. QED
    BY <1>4, <2>2 DEF FileOK, TableOK, SetsOK
<1>6. Turns' /\ Cleared'
  BY <1>3 DEF RInv, Turns, Cleared, Open
<1>7. Reloaded'
  BY <1>2, <1>3, <1>4 DEF RInv, Reloaded, Restored, Whole, Table
<1>8. Returned'
  BY <1>2, <1>3 DEF Returned
<1>. QED
  BY <1>2, <1>5, <1>6, <1>7, <1>8 DEF RInv

LEMMA EndBackupStep ==
    ASSUME RInv, EndBackup
    PROVE  RInv'
<1>1. IInv' /\ (outcome' = "none" /\ outcome = "none" => Returned')
      /\ \A k : Saved(k)' = Saved(k)
  BY StillRouter DEF EndBackup
<1>2. UNCHANGED <<hooked, chain, pc, outcome, file, failed>> /\ rpc' = 0 /\ rpc = 4
  BY StepPlaces DEF RInv, EndBackup, Halt, vars
<1>3. FileOK' /\ Turns' /\ Cleared'
  BY <1>2 DEF RInv, FileOK, Whole, Turns, Cleared, Open
<1>4. Reloaded'
  BY <1>1, <1>2 DEF RInv, Reloaded, Restored, Whole
<1>5. Returned'
  BY <1>1, <1>2 DEF Returned
<1>. QED
  BY <1>1, <1>3, <1>4, <1>5 DEF RInv
-----------------------------------------------------------------------------
(* portal-restore.sh.                                                       *)

\* A step of a restore leaves the files alone; nothing says that the login is reachable.
LEMMA RestoreStep ==
    ASSUME RInv, IInv', UNCHANGED <<file, pc>>, outcome' # "none"
    PROVE  FileOK' /\ Returned'
<1>1. FileOK'
  BY DEF RInv, FileOK, Whole
<1>2. Returned'
  BY DEF Returned
<1>. QED
  BY <1>1, <1>2

\* A step that changes sets only.
LEMMA SetsStep ==
    ASSUME RInv, pc = 0, SetOK', stops' \in 0..MaxStop,
           UNCHANGED <<env, pc, hooked, chain, snat, ended, partial, built>>
    PROVE  IInv' /\ \A t : Saved(t)' = Saved(t)
<1>1. ChainOK' /\ hooked' \subseteq Chain /\ snat' \subseteq Portal
  BY TypeParts DEF RInv, IInv, TypeOK, ChainOK
<1>2. built' \in [Chain -> Portal \cup {None}]
  BY DEF RInv, IInv, TypeOK
<1>3. IInv'
  BY <1>1, <1>2, RouterStep DEF RInv, IInv
<1>. QED
  BY <1>3, SavedSame

LEMMA UnhookStep ==
    ASSUME RInv, NEW c \in {"dns", "fwd"}, Unhook(c)
    PROVE  RInv'
<1>1. /\ (rpc = 5 /\ c = "dns") \/ (rpc = 6 /\ c = "fwd")
      /\ rpc' = rpc + 1 /\ outcome = "running" /\ outcome' = "running" /\ pc = 0 /\ pc' = 0
  BY StepPlaces DEF RInv, Turns, Unhook, Step
<1>2. c \in Chain /\ UNCHANGED <<file, chain, set, snat, env, ended, partial>>
  BY DEF Unhook, Chain
<1>3. stops' \in 0..MaxStop
  BY StopsType DEF Unhook
<1>4. /\ hooked' \subseteq hooked
      /\ \A k \in Chain : k # c => (k \in hooked' <=> k \in hooked) /\ built'[k] = built[k]
      /\ \/ c \notin hooked' /\ built'[c] = None
         \/ hooked' = hooked /\ built' = built /\ failed' = failed \cup {Cmd("unhook", c)}
      /\ built' \in [Chain -> Portal \cup {None}]
  BY <1>2 DEF Unhook, Lapse, At, RInv, IInv, TypeOK
<1>5. SetOK' /\ ChainOK' /\ snat' \subseteq Portal /\ hooked' \subseteq Chain
  BY <1>2, <1>4, TypeParts DEF RInv, IInv, TypeOK, SetOK, ChainOK
<1>6. IInv'
  <2>1. \A k \in Chain : built'[k] # None => k \in hooked' /\ chain'[k] = Rules(k, built'[k])
    BY <1>2, <1>4 DEF RInv, IInv
  <2>. QED
    BY <1>1, <1>2, <1>3, <1>4, <1>5, <2>1, RouterStep DEF RInv
<1>7. Turns' /\ Reloaded'
  BY <1>1 DEF Turns, Reloaded
<1>8. Cleared'
  BY <1>1, <1>4 DEF Cleared
<1>. QED
  BY <1>1, <1>2, <1>6, <1>7, <1>8, RestoreStep DEF RInv

LEMMA DeleteStep ==
    ASSUME RInv, NEW c \in {"dns", "fwd"}, Delete(c)
    PROVE  RInv'
<1>1. /\ (rpc = 7 /\ c = "dns") \/ (rpc = 8 /\ c = "fwd")
      /\ rpc' = rpc + 1 /\ outcome = "running" /\ outcome' = "running" /\ pc = 0 /\ pc' = 0
  BY StepPlaces DEF RInv, Turns, Delete, Step
<1>2. c \in Chain /\ UNCHANGED <<file, hooked, set, snat, env, ended, partial>>
  BY DEF Delete, Chain
<1>3. stops' \in 0..MaxStop
  BY StopsType DEF Delete
<1>4. /\ DOMAIN chain' = Chain /\ failed \subseteq failed'
      /\ \A k \in Chain : k # c => chain'[k] = chain[k] /\ built'[k] = built[k]
      /\ \/ chain'[c] = <<>> /\ built'[c] = None
         \/ chain' = chain /\ built' = built /\ failed' = failed \cup {Cmd("delete", c)}
      /\ built' \in [Chain -> Portal \cup {None}]
  BY <1>2, TypeParts DEF Delete, Lapse, Works, At, RInv, IInv, TypeOK, ChainOK
<1>5. ChainOK'
  <2>1. ASSUME NEW k \in Chain
        PROVE  \E p \in Portal : \E n \in 0..Len(Rules(k, p)) : chain'[k] = SubSeq(Rules(k, p), 1, n)
    <3>1. CASE chain'[k] = <<>>
      <4>1. PICK p \in Portal : TRUE
        BY RuntimeAssumption
      <4>2. Len(Rules(k, p)) \in Nat /\ <<>> = SubSeq(Rules(k, p), 1, 0)
        BY RulesFacts, RulesSeq
      <4>3. 0 \in 0..Len(Rules(k, p))
        BY <4>2
      <4>. QED
        BY <3>1, <4>2, <4>3
    <3>2. CASE chain'[k] = chain[k]
      BY <3>2, TypeParts DEF RInv, IInv, ChainOK
    <3>. QED
      BY <1>4, <3>1, <3>2
  <2>. QED
    BY <1>4, <2>1 DEF ChainOK
<1>6. /\ SetOK' /\ snat' \subseteq Portal /\ hooked' \subseteq Chain
  BY <1>2, TypeParts DEF RInv, IInv, TypeOK, SetOK
<1>7. IInv'
  <2>1. \A k \in Chain : built'[k] # None => k \in hooked' /\ chain'[k] = Rules(k, built'[k])
    BY <1>2, <1>4 DEF RInv, IInv
  <2>. QED
    BY <1>1, <1>2, <1>3, <1>4, <1>5, <1>6, <2>1, RouterStep DEF RInv
<1>8. Turns' /\ Reloaded'
  BY <1>1 DEF Turns, Reloaded
<1>9. Cleared'
  <2>1. "fwd" \notin hooked \/ Cmd("unhook", "fwd") \in failed
    BY <1>1 DEF RInv, Cleared
  <2>2. c = "fwd" => Open'
    BY <1>2, <1>4, <2>1 DEF Open
  <2>. QED
    BY <1>1, <1>2, <1>4, <2>1, <2>2 DEF Cleared
<1>. QED
  BY <1>1, <1>2, <1>7, <1>8, <1>9, RestoreStep DEF RInv

LEMMA DestroyStep ==
    ASSUME RInv, NEW s \in SetName, Destroy(s)
    PROVE  RInv'
<1>1. rpc = 9 /\ outcome = "running" /\ pc = 0
  BY StepPlaces DEF RInv, Turns, Destroy
<1>2. UNCHANGED <<file, rpc, failed, outcome, env, pc, hooked, chain, snat, ended, partial, built, stops>>
  BY DEF Destroy, rvars
<1>3. SetOK'
  <2>1. set' = [set EXCEPT ![s] = None] /\ SetOK
    BY TypeParts DEF Destroy, RInv, IInv
  <2>2. \A k \in SetName : set'[k] = None \/ set'[k] = set[k]
    BY <2>1 DEF SetOK
  <2>3. set' \in [SetName -> {None} \cup SUBSET (Mac \cup Host)]
    BY <2>1 DEF SetOK
  <2>. QED
    BY <2>1, <2>2, <2>3 DEF SetOK, SetName
<1>4. IInv'
  BY <1>1, <1>2, <1>3, SetsStep DEF RInv, IInv, TypeOK
<1>5. Turns' /\ Cleared' /\ Reloaded'
  BY <1>1, <1>2 DEF RInv, Turns, Cleared, Open, Reloaded
<1>. QED
  BY <1>1, <1>2, <1>4, <1>5, RestoreStep DEF RInv

LEMMA DestroyedStep ==
    ASSUME RInv, Destroyed
    PROVE  RInv'
<1>1. /\ rpc = 9 /\ rpc' = 10 /\ outcome = "running" /\ outcome' = "running"
      /\ UNCHANGED firewall
  BY StepPlaces DEF RInv, Turns, Destroyed, Step
<1>2. pc' = pc /\ UNCHANGED <<file, hooked, chain>> /\ failed \subseteq failed'
  BY DEF Destroyed, firewall, Lapse, Works
<1>3. IInv'
  <2>1. stops' \in 0..MaxStop
    BY StopsType DEF Destroyed
  <2>. QED
    BY <1>1, <2>1, StillRouter
<1>4. Turns' /\ Reloaded'
  BY <1>1, <1>2 DEF RInv, Turns, Reloaded
<1>5. Cleared'
  BY <1>1, <1>2 DEF RInv, Cleared, Open
<1>. QED
  BY <1>1, <1>2, <1>3, <1>4, <1>5, RestoreStep DEF RInv

LEMMA LoadSetsStep ==
    ASSUME RInv, LoadSets
    PROVE  RInv'
<1>1. rpc = 12 /\ rpc' = 0 /\ outcome = "running" /\ pc = 0 /\ outcome' \in {"restored", "failed_ipset"}
  BY StepPlaces DEF RInv, Turns, LoadSets, Halt
<1>2. UNCHANGED <<file, env, pc, hooked, chain, snat, ended, partial, built, stops>>
  BY DEF LoadSets
<1>3. SetOK'
  <2>1. CASE UNCHANGED set
    BY <2>1, TypeParts DEF RInv, IInv, SetOK
  <2>2. ASSUME file["ipset"] # None, NEW got, NEW last, NEW part, Creates(got, last, part),
               part = {} \/ (last \in SetName /\ part \subseteq file["ipset"].set[last]
                              /\ file["ipset"].set[last] # None)
        PROVE  SetOK'
    <3>. DEFINE v == file["ipset"].set
    <3>1. SetsOK(v) /\ SetOK
      BY <2>2, TypeParts DEF RInv, FileOK, IInv
    <3>. HIDE DEF v
    <3>2. set' = [s \in SetName |-> IF s \in got THEN v[s] ELSE IF s = last THEN part ELSE set[s]]
      BY <2>2 DEF Creates, v
    <3>3. part = {} \/ (last \in SetName /\ part \subseteq v[last] /\ v[last] # None)
      BY <2>2 DEF v
    <3>4. \A s \in SetName :
             \/ set'[s] = v[s]
             \/ set'[s] = set[s]
             \/ set'[s] = {}
             \/ v[s] # None /\ set'[s] \subseteq v[s]
      <4>. TAKE s \in SetName
      <4>1. set'[s] = IF s \in got THEN v[s] ELSE IF s = last THEN part ELSE set[s]
        BY <3>2
      <4>2. CASE s = last /\ s \notin got
        <5>1. set'[s] = part
          BY <4>1, <4>2
        <5>. QED
          BY <3>3, <4>2, <5>1
      <4>3. CASE s \in got
        <5>1. set'[s] = v[s]
          BY <4>1, <4>3, Zenon
        <5>. QED
          BY <5>1
      <4>4. CASE s \notin got /\ s # last
        <5>1. set'[s] = set[s]
          BY <4>1, <4>4, Zenon
        <5>. QED
          BY <5>1
      <4>. QED
        BY <4>2, <4>3, <4>4
    <3>5. \A s \in SetName : set'[s] = None \/ set'[s] \in SUBSET (Mac \cup Host)
      BY <3>1, <3>4 DEF SetsOK, SetOK
    <3>6. \A s \in AllowSet \cup {"mac"} : set'[s] = None \/ set'[s] \subseteq Mac
      BY <3>1, <3>4 DEF SetOK, SetsOK, SetName
    <3>7. \A s \in {"ip", "dns"} : set'[s] = None \/ set'[s] \subseteq Host
      BY <3>1, <3>4 DEF SetOK, SetsOK, SetName
    <3>8. set' \in [SetName -> {None} \cup SUBSET (Mac \cup Host)]
      BY <3>2, <3>5
    <3>. QED
      BY <3>6, <3>7, <3>8 DEF SetOK
  <2>3. \/ UNCHANGED set
        \/ /\ file["ipset"] # None
           /\ \E got, last, part :
                 /\ Creates(got, last, part)
                 /\ part = {} \/ (last \in SetName /\ part \subseteq file["ipset"].set[last]
                                    /\ file["ipset"].set[last] # None)
    BY DEF LoadSets
  <2>. QED
    BY <2>1, <2>2, <2>3
<1>4. IInv' /\ \A t : Saved(t)' = Saved(t)
  BY <1>1, <1>2, <1>3, SetsStep DEF RInv, IInv, TypeOK
<1>5. Turns' /\ Cleared'
  BY <1>1, <1>2 DEF Turns, Cleared
<1>6. Reloaded'
  BY <1>1, <1>2, <1>4 DEF RInv, Reloaded, Restored, Whole
<1>. QED
  BY <1>1, <1>2, <1>4, <1>5, <1>6, RestoreStep DEF RInv

LEMMA InterruptStep ==
    ASSUME RInv, Interrupt
    PROVE  RInv'
<1>1. /\ rpc > 0 /\ rpc' = 0 /\ pc = 0
      /\ \/ outcome' = "killed"
         \/ outcome' \in {"failed_nat", "failed_filter"} /\ rpc \in {10, 11}
  <2>1. \A t \in Table : At("load", t) => rpc \in {10, 11}
    BY StepPlaces DEF RInv, Table
  <2>2. \A t \in Table : Failure[t] \in {"failed_nat", "failed_filter"}
    BY DEF Table, Failure
  <2>. QED
    BY <2>1, <2>2 DEF RInv, Turns, Interrupt, Halt
<1>2. UNCHANGED <<file, pc, hooked, chain, failed>> /\ UNCHANGED firewall
  BY DEF Interrupt, firewall
<1>3. IInv'
  <2>1. stops' \in 0..MaxStop
    BY StopsType DEF Interrupt
  <2>. QED
    BY <1>1, <1>2, <2>1, StillRouter
<1>4. Turns' /\ Reloaded'
  BY <1>1, <1>2 DEF Turns, Reloaded
<1>5. Cleared'
  BY <1>1, <1>2 DEF RInv, Cleared, Open
<1>. QED
  BY <1>1, <1>2, <1>3, <1>4, <1>5, RestoreStep DEF RInv

\* Loading the backup f of table t.
Loads(t, f) ==
    /\ hooked' = (hooked \ InTable(t)) \cup f.hooked
    /\ chain' = [c \in Chain |-> IF c \in InTable(t) THEN f.chain[c] ELSE chain[c]]
    /\ snat' = IF t = "nat" THEN f.snat ELSE snat
    /\ built' = [c \in Chain |-> IF c \in InTable(t) THEN f.complete[c] ELSE built[c]]

LEMMA LoadsRouter ==
    ASSUME RInv, pc = 0, NEW t \in Table, NEW f, TableOK(t, f), Loads(t, f),
           UNCHANGED <<env, pc, set, ended, partial, stops>>
    PROVE  IInv'
<1>1. InTable(t) \subseteq Chain
  BY DEF InTable, NatChain, Chain, Table
<1>2. ChainOK /\ SetOK /\ TypeOK
  BY TypeParts DEF RInv, IInv
<1>3. SetOK' /\ stops' \in 0..MaxStop
  BY <1>2 DEF SetOK, TypeOK
<1>4. hooked' \subseteq Chain /\ snat' \subseteq Portal
  BY <1>1, <1>2 DEF Loads, TableOK, TypeOK
<1>5. /\ \A c \in Chain : chain'[c] = IF c \in InTable(t) THEN f.chain[c] ELSE chain[c]
      /\ \A c \in Chain : built'[c] = IF c \in InTable(t) THEN f.complete[c] ELSE built[c]
      /\ DOMAIN chain' = Chain
  BY DEF Loads
<1>6. built' \in [Chain -> Portal \cup {None}]
  BY <1>2 DEF Loads, TableOK, TypeOK
<1>7. ChainOK'
  <2>1. ASSUME NEW c \in Chain
        PROVE  \E p \in Portal : \E n \in 0..Len(Rules(c, p)) : chain'[c] = SubSeq(Rules(c, p), 1, n)
    <3>1. CASE c \in InTable(t)
      <4>1. \E p \in Portal : \E n \in 0..Len(Rules(c, p)) : f.chain[c] = SubSeq(Rules(c, p), 1, n)
        BY <3>1 DEF TableOK
      <4>2. chain'[c] = f.chain[c]
        BY <1>5, <3>1
      <4>. QED
        BY <4>1, <4>2
    <3>2. CASE c \notin InTable(t)
      BY <1>2, <1>5, <3>2 DEF ChainOK
    <3>. QED
      BY <3>1, <3>2
  <2>. QED
    BY <1>5, <2>1 DEF ChainOK
<1>8. ASSUME NEW c \in Chain, built'[c] # None
      PROVE  c \in hooked' /\ chain'[c] = Rules(c, built'[c])
  <2>1. CASE c \in InTable(t)
    <3>1. c \in f.hooked /\ f.chain[c] = Rules(c, f.complete[c])
      BY <1>5, <1>8, <2>1 DEF TableOK
    <3>. QED
      BY <1>5, <2>1, <3>1 DEF Loads
  <2>2. CASE c \notin InTable(t)
    <3>1. c \in hooked /\ chain[c] = Rules(c, built[c])
      BY <1>5, <1>8, <2>2 DEF RInv, IInv
    <3>. QED
      BY <1>5, <2>2, <3>1 DEF Loads
  <2>. QED
    BY <2>1, <2>2
<1>. QED
  BY <1>3, <1>4, <1>6, <1>7, <1>8, RouterStep DEF RInv

LEMMA LoadsBack ==
    ASSUME NEW t \in Table, NEW f, TableOK(t, f), Loads(t, f)
    PROVE  Saved(t)' = f
<1>1. InTable(t) \subseteq Chain
  BY DEF InTable, NatChain, Chain, Table
<1>2. hooked' \cap InTable(t) = f.hooked
  BY DEF Loads, TableOK
<1>3. [c \in InTable(t) |-> chain'[c]] = f.chain
  <2>1. \A c \in InTable(t) : chain'[c] = f.chain[c]
    BY <1>1 DEF Loads
  <2>2. [c \in InTable(t) |-> chain'[c]] = [c \in InTable(t) |-> f.chain[c]]
    BY <2>1
  <2>. QED
    BY <2>2 DEF TableOK
<1>4. [c \in InTable(t) |-> built'[c]] = f.complete
  <2>1. \A c \in InTable(t) : built'[c] = f.complete[c]
    BY <1>1 DEF Loads
  <2>. QED
    BY <2>1 DEF TableOK
<1>5. (IF t = "nat" THEN snat' ELSE {}) = f.snat
  BY DEF Loads, TableOK, Table
<1>6. Saved(t)' = [hooked |-> hooked' \cap InTable(t),
                   chain |-> [c \in InTable(t) |-> chain'[c]],
                   snat |-> IF t = "nat" THEN snat' ELSE {},
                   complete |-> [c \in InTable(t) |-> built'[c]]]
  BY DEF Saved
<1>7. Saved(t)' = [hooked |-> f.hooked, chain |-> f.chain, snat |-> f.snat, complete |-> f.complete]
  BY <1>2, <1>3, <1>4, <1>5, <1>6
<1>. QED
  BY <1>7 DEF TableOK

\* The filter table is loaded on top of a nat table that stays.
LEMMA LoadsBeside ==
    ASSUME NEW f, TableOK("filter", f), Loads("filter", f)
    PROVE  Saved("nat")' = Saved("nat")
<1>1. InTable("nat") = {"http", "dns"} /\ InTable("filter") = {"fwd"}
  BY DEF InTable, NatChain
<1>2. hooked' \cap InTable("nat") = hooked \cap InTable("nat")
  BY <1>1 DEF Loads, TableOK
<1>3. \A c \in InTable("nat") : chain'[c] = chain[c] /\ built'[c] = built[c]
  BY <1>1 DEF Loads, Chain
<1>4. snat' = snat
  BY DEF Loads
<1>. QED
  BY <1>2, <1>3, <1>4 DEF Saved

LEMMA LoadStep ==
    ASSUME RInv, NEW t \in Table, Load(t)
    PROVE  RInv'
<1>1. /\ (rpc = 10 /\ t = "nat") \/ (rpc = 11 /\ t = "filter")
      /\ outcome = "running" /\ pc = 0
  BY StepPlaces DEF RInv, Turns, Load, Table
<1>2. UNCHANGED <<file, failed, env, pc, set, ended, partial, stops>>
  BY DEF Load
<1>3. SetOK' /\ stops' \in 0..MaxStop
  BY <1>2, TypeParts DEF RInv, IInv, SetOK, TypeOK
<1>4. Open
  BY <1>1 DEF RInv, Cleared
<1>5. CASE file[t] \in {None, Blank} /\ Step /\ UNCHANGED <<hooked, chain, snat, built>>
  <2>1. UNCHANGED <<hooked, chain, snat, built>> /\ rpc' = rpc + 1 /\ outcome' = outcome
    BY <1>5 DEF Step
  <2>2. IInv' /\ \A k : Saved(k)' = Saved(k)
    BY <1>1, <1>2, <1>3, <2>1, SetsStep
  <2>3. Turns' /\ Cleared'
    BY <1>1, <1>2, <1>4, <2>1 DEF RInv, Turns, Cleared, Open
  <2>4. Reloaded'
    <3>1. Restored(t)'
      BY <1>2, <1>5 DEF Restored, Whole
    <3>2. Restored("nat") => Restored("nat")'
      BY <1>2, <2>2 DEF Restored, Whole
    <3>. QED
      BY <1>1, <2>1, <3>1, <3>2 DEF RInv, Reloaded
  <2>. QED
    BY <1>1, <1>2, <2>1, <2>2, <2>3, <2>4, RestoreStep DEF RInv
<1>6. CASE UNCHANGED <<hooked, chain, snat, built>> /\ rpc' = 0 /\ outcome' \in {"failed_nat", "failed_filter"}
  <2>1. IInv'
    BY <1>1, <1>2, <1>3, <1>6, SetsStep
  <2>2. Turns' /\ Reloaded'
    BY <1>1, <1>2, <1>6 DEF Turns, Reloaded
  <2>3. Cleared'
    BY <1>2, <1>4, <1>6 DEF Cleared, Open
  <2>. QED
    BY <1>2, <1>6, <2>1, <2>2, <2>3, RestoreStep DEF RInv
<1>7. CASE Whole(t) /\ Loads(t, file[t]) /\ rpc' = rpc + 1 /\ outcome' = outcome
  <2>. DEFINE f == file[t]
  <2>1. TableOK(t, f)
    BY <1>7 DEF RInv, FileOK
  <2>. HIDE DEF f
  <2>2. Loads(t, f) /\ f = file[t]
    BY <1>7 DEF f
  <2>3. IInv'
    BY <1>1, <1>2, <2>1, <2>2, LoadsRouter
  <2>4. Saved(t)' = f
    BY <2>1, <2>2, LoadsBack
  <2>5. t = "filter" => Saved("nat")' = Saved("nat")
    BY <2>1, <2>2, LoadsBeside
  <2>6. Turns'
    BY <1>1, <1>2, <1>7 DEF RInv, Turns
  <2>7. Cleared'
    <3>1. ASSUME t = "nat"
          PROVE  Open'
      <4>1. "fwd" \notin InTable(t) /\ "fwd" \in Chain
        BY <3>1 DEF InTable, NatChain, Chain
      <4>2. "fwd" \notin f.hooked
        BY <2>1, <4>1 DEF TableOK
      <4>3. chain'["fwd"] = chain["fwd"] /\ ("fwd" \in hooked' => "fwd" \in hooked)
        BY <2>2, <4>1, <4>2 DEF Loads
      <4>. QED
        BY <1>2, <1>4, <4>3 DEF Open
    <3>. QED
      BY <1>1, <1>7, <3>1 DEF Cleared
  <2>8. Reloaded'
    <3>1. Restored(t)'
      BY <1>2, <2>2, <2>4 DEF Restored, Whole
    <3>2. t = "filter" /\ Restored("nat") => Restored("nat")'
      BY <1>2, <2>5 DEF Restored, Whole
    <3>. QED
      BY <1>1, <1>7, <3>1, <3>2 DEF RInv, Reloaded
  <2>. QED
    BY <1>1, <1>2, <1>7, <2>3, <2>6, <2>7, <2>8, RestoreStep DEF RInv
<1>. QED
  <2>1. Failure[t] \in {"failed_nat", "failed_filter"}
    BY DEF Table, Failure
  <2>. QED
    BY <1>5, <1>6, <1>7, <2>1 DEF Load, Loads, Step, Halt

-----------------------------------------------------------------------------
LEMMA NextRInv ==
    ASSUME RInv, [Firewall \/ Rollback]_allvars
    PROVE  RInv'
<1>1. CASE Firewall
  BY <1>1, FirewallStep
<1>2. CASE Rollback
  BY <1>2, BeginStep, SaveSetsStep, EndBackupStep, DestroyedStep, LoadSetsStep, InterruptStep,
     SaveStep, LoadStep, UnhookStep, DeleteStep, DestroyStep DEF Rollback
<1>3. CASE UNCHANGED allvars
  <2>1. UNCHANGED vars /\ UNCHANGED <<file, rpc, failed, outcome>>
    BY <1>3 DEF allvars, rvars
  <2>2. IInv' /\ \A t : Saved(t)' = Saved(t)
    BY <2>1, StillRouter
  <2>3. FileOK' /\ Turns' /\ Cleared' /\ Returned'
    BY <2>1 DEF vars, RInv, FileOK, Whole, Turns, Cleared, Open, Returned, ChainsFollow, Past
  <2>4. Reloaded'
    BY <2>1, <2>2 DEF RInv, Reloaded, Restored, Whole
  <2>. QED
    BY <2>2, <2>3, <2>4 DEF RInv
<1>. QED
  BY <1>1, <1>2, <1>3

\* What the scripts rely on holds whatever runs, and wherever it is killed.
THEOREM RollbackInductive == RollbackSpec => []RInv
BY InitRInv, NextRInv, PTL DEF RollbackSpec

\* A restore that says it is done has brought back the chains of the backup, however
\* the backups, restores and runs before it ended.
THEOREM RestoresTables == RollbackSpec => []TablesRestored
<1>1. RInv => TablesRestored
  BY DEF RInv, Reloaded, Restored, TablesRestored, Table
<1>. QED
  BY <1>1, RollbackInductive, PTL

\* A restore that fails while it loads iptables leaves nobody rejected, unless it
\* could neither unhook nor empty the forwarding chain.
THEOREM FailedRestoresOpen == RollbackSpec => []FailsOpen
<1>1. RInv => FailsOpen
  <2>1. \A q, to : ~Leads(<<>>, q, to)
    BY DEF Leads
  <2>. QED
    BY <2>1 DEF RInv, Cleared, Open, FailsOpen, Stopped
<1>. QED
  BY <1>1, RollbackInductive, PTL

\* A run of portal-fw.sh that goes to its end makes the login reachable again,
\* whatever the restores before it left behind.
THEOREM RunsReapply == RollbackSpec => []Reapplied
<1>1. RInv => Reapplied
  BY ReachableAtTheEnd DEF RInv, Returned, Reapplied
<1>. QED
  BY <1>1, RollbackInductive, PTL

\* The gate of portal-fw.sh keeps its promises on a router that is backed up and
\* restored: authorized clients pass and a complete chain stops what it should.
THEOREM GateSurvivesRestores == RollbackSpec => [](TypeOK /\ AuthorizedPass /\ GateIntact)
<1>1. IInv => TypeOK /\ AuthorizedPass /\ GateIntact
  BY GatePasses, GateStops DEF IInv
<1>. QED
  BY <1>1, RollbackInductive, PTL DEF RInv

=============================================================================
