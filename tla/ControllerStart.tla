---------------------------- MODULE ControllerStart ----------------------------
(***************************************************************************)
(* What a controller reads once, when it starts, and keeps while the files  *)
(* change: the rules of controller.yaml and the HMAC keys of /run/secrets.  *)
(* Several controllers, or one and its peers that sign, start and stop      *)
(* while init-portal-hmac-secret.sh makes keys and an operator edits the    *)
(* configuration, picks the current key and removes old ones.  Signatures   *)
(* are abstract: a message verifies under the key that signed it.           *)
(*                                                                         *)
(* stamp, and the stamps and rules kept with a message or decision, are     *)
(* history and guard nothing.                                               *)
(***************************************************************************)
EXTENDS RoleDecision

CONSTANTS
    Proc,       \* processes that load the keys
    Kid,        \* key identifiers; FirstKid is the script's CURRENT_KID
    FirstKid, NextKid,
    EnvKey,     \* PORTAL_HMAC_SECRET: the key in the environment
    Garbled,    \* a key file that is not base64
    Rules,      \* lists of rules the file may hold; Invalid: it does not load
    Invalid,
    Context,    \* contexts of logins
    MaxChanges, \* bound on changes of the files and the environment
    None

ASSUME KidAssumption == {FirstKid, NextKid} \subseteq Kid /\ FirstKid # NextKid
ASSUME NoneAssumption == None \notin Kid \cup Rules \cup Nat
ASSUME KeyAssumption == EnvKey \notin Nat \cup {None} /\ Garbled \notin Nat \cup {None, EnvKey}
ASSUME RulesAssumption ==
    \A rules \in Rules :
        /\ rules \in Seq({rules[i] : i \in DOMAIN rules})
        /\ \A i \in DOMAIN rules : rules[i].priority \in Int /\ rules[i].name \in Int
ASSUME BoundAssumption == MaxChanges \in Nat /\ Invalid \notin Rules

\* Keys are numbered as they are made; 0 is the empty key of an empty file.
Key == Nat \cup {EnvKey}

VARIABLES
    file,       \* the secret of a kid, None: no such file (or a directory)
    script,     \* the kid whose file the script has created and not filled
    made,       \* the number of keys made
    current,    \* PORTAL_HMAC_CURRENT_KID for the next start
    config,     \* controller.yaml
    proc,       \* what a running process holds, or None
    message,    \* the last signed message, or None
    verdict,    \* what a verifier said of it, or None
    decision,   \* the last login's decision, or None
    changes,    \* changes made so far
    stamp       \* history: how often the file of a kid has changed

vars == <<file, script, made, current, config, proc, message, verdict, decision,
          changes, stamp>>

-----------------------------------------------------------------------------
Running(p) == proc[p] # None
Change == changes < MaxChanges /\ changes' = changes + 1

PutFile(k, s) ==
    /\ file' = [file EXCEPT ![k] = s]
    /\ stamp' = [stamp EXCEPT ![k] = @ + 1]

\* init and rotate: the redirection creates the file, empty.  CURRENT_KID is a
\* constant of the script: it can rotate once.
CreateSecret(k) ==
    /\ Change /\ script = None
    /\ k \in {FirstKid, NextKid} /\ file[k] = None
    /\ PutFile(k, 0)
    /\ script' = k
    /\ UNCHANGED <<made, current, config, proc, message, verdict, decision>>

\* openssl has answered.
FillSecret(k) ==
    /\ script = k
    /\ PutFile(k, made + 1)
    /\ made' = made + 1
    /\ script' = None
    /\ UNCHANGED <<current, config, proc, message, verdict, decision, changes>>

\* openssl fails or the script is killed: the empty file stays, and the next run
\* takes it for a secret.
AbortSecret ==
    /\ script # None
    /\ script' = None
    /\ UNCHANGED <<file, made, current, config, proc, message, verdict, decision,
                   changes, stamp>>

\* The operator removes a key, names the current one, edits the configuration.
RemoveSecret(k) ==
    /\ Change /\ file[k] # None /\ script # k
    /\ PutFile(k, None)
    /\ UNCHANGED <<script, made, current, config, proc, message, verdict, decision>>

\* A copy cut short, an editor: what is left is not base64.
SpoilSecret(k) ==
    /\ Change /\ file[k] \notin {None, Garbled} /\ script # k
    /\ PutFile(k, Garbled)
    /\ UNCHANGED <<script, made, current, config, proc, message, verdict, decision>>

SetKid(k) ==
    /\ Change /\ current' = k
    /\ UNCHANGED <<file, script, made, config, proc, message, verdict, decision, stamp>>

Edit(c) ==
    /\ Change /\ config' = c
    /\ UNCHANGED <<file, script, made, current, proc, message, verdict, decision, stamp>>

\* Mutant of KeySet: only the current key is loaded.
KeySetCurrent ==
    IF \E k \in Kid : file[k] # None
    THEN [k \in Kid |-> IF k = current THEN file[k] ELSE None]
    ELSE [k \in Kid |-> IF k = current THEN EnvKey ELSE None]

\* LoadPortalHMACKeySet: the files, or without any the key of the environment
\* under the current kid.
KeySet ==
    IF \E k \in Kid : file[k] # None THEN file
    ELSE [k \in Kid |-> IF k = current THEN EnvKey ELSE None]

\* main: without a configuration, or a key of the current kid, or with a key file of
\* any kid that does not decode, it exits.
Start(p) ==
    /\ ~Running(p)
    /\ config # Invalid
    /\ \A k \in Kid : file[k] # Garbled
    /\ KeySet[current] # None
    /\ proc' = [proc EXCEPT ![p] =
          [keys |-> KeySet, kid |-> current, rules |-> config, stamp |-> stamp]]
    /\ UNCHANGED <<file, script, made, current, config, message, verdict, decision,
                   changes, stamp>>

Stop(p) ==
    /\ Running(p)
    /\ proc' = [proc EXCEPT ![p] = None]
    /\ UNCHANGED <<file, script, made, current, config, message, verdict, decision,
                   changes, stamp>>

\* SignPortalRequest; the sender may leave the kid out of the headers.
Sign(p, named) ==
    /\ Running(p)
    /\ LET k == proc[p].kid
       IN  message' = [kid |-> IF named THEN k ELSE None, signedBy |-> k,
                       key |-> proc[p].keys[k], stamp |-> proc[p].stamp[k]]
    /\ verdict' = None
    /\ UNCHANGED <<file, script, made, current, config, proc, decision, changes, stamp>>

\* VerifyPortalSignature: no kid is the verifier's own.
KeyFor(p) == IF message.kid = None THEN proc[p].kid ELSE message.kid

Verify(p) ==
    /\ Running(p) /\ message # None /\ verdict = None
    /\ LET k == KeyFor(p)
       IN  verdict' = [accepted |-> proc[p].keys[k] = message.key, kid |-> k,
                       stamp |-> proc[p].stamp[k]]
    /\ UNCHANGED <<file, script, made, current, config, proc, message, decision,
                   changes, stamp>>

\* Mutant of Login: the rules are read again from the file.
LoginByFile(p, ctx) ==
    /\ Running(p) /\ config # Invalid
    /\ decision' = [made |-> DecideRole(config, ctx),
                    rules |-> proc[p].rules, ctx |-> ctx]
    /\ UNCHANGED <<file, script, made, current, config, proc, message, verdict,
                   changes, stamp>>

\* portalLogin decides by the rules its process has loaded.
Login(p, ctx) ==
    /\ Running(p)
    /\ decision' = [made |-> DecideRole(proc[p].rules, ctx),
                    rules |-> proc[p].rules, ctx |-> ctx]
    /\ UNCHANGED <<file, script, made, current, config, proc, message, verdict,
                   changes, stamp>>

\* The first secret may have been made long ago.
Init ==
    /\ made \in {0, 1}
    /\ file = [k \in Kid |-> IF made = 1 /\ k = FirstKid THEN 1 ELSE None]
    /\ script = None
    /\ current = FirstKid
    /\ config \in Rules
    /\ proc = [p \in Proc |-> None]
    /\ message = None /\ verdict = None /\ decision = None
    /\ changes = 0
    /\ stamp = [k \in Kid |-> 0]

Next ==
    \/ \E k \in Kid : CreateSecret(k) \/ FillSecret(k) \/ RemoveSecret(k) \/ SpoilSecret(k)
    \/ \E k \in Kid : SetKid(k)
    \/ AbortSecret
    \/ \E c \in Rules \cup {Invalid} : Edit(c)
    \/ \E p \in Proc : Start(p) \/ Stop(p) \/ Verify(p)
    \/ \E p \in Proc, b \in BOOLEAN : Sign(p, b)
    \/ \E p \in Proc, ctx \in Context : Login(p, ctx)

Spec == Init /\ [][Next]_vars

-----------------------------------------------------------------------------
\* Message and verdict are records that only the properties look into.
TypeOK ==
    /\ file \in [Kid -> Nat \cup {None, Garbled}]
    /\ script \in Kid \cup {None} /\ made \in Nat
    /\ current \in Kid
    /\ config \in Rules \cup {Invalid}
    /\ \A p \in Proc : Running(p) =>
        /\ proc[p].keys \in [Kid -> Key \cup {None}]
        /\ proc[p].kid \in Kid /\ proc[p].keys[proc[p].kid] # None
        /\ proc[p].rules \in Rules /\ proc[p].stamp \in [Kid -> Nat]
    /\ changes \in 0..MaxChanges
    /\ stamp \in [Kid -> Nat]

\* Honest messages get through a rotation: one is refused only if its key's file
\* was made, filled or removed between the starts of signer and verifier, or it
\* was signed with the key of the environment, which gives way to any file, or it
\* names no key and the two have different current ones.
RefusalExplained ==
    message # None /\ verdict # None /\ ~verdict.accepted =>
        \/ message.kid # None /\ message.stamp # verdict.stamp
        \/ message.key = EnvKey
        \/ message.kid = None /\ (message.signedBy # verdict.kid
                                  \/ message.stamp # verdict.stamp)

\* The rule that decides a login is the first that matches in the configuration
\* its controller has loaded, by priority, name and place (DecideRole), however
\* the file has changed since.
FirstRuleDecides ==
    decision # None => IsDecision(decision.made, decision.rules, decision.ctx)

=============================================================================
