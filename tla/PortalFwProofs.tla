---------------------------- MODULE PortalFwProofs ----------------------------
(***************************************************************************)
(* Proofs about PortalFw for every set of clients, hosts and runtimes and   *)
(* any number of runs, stopped anywhere.                                    *)
(***************************************************************************)
EXTENDS PortalFw, TLAPS

\* The commands of a chain follow each other.
LEMMA ScriptOrder ==
    ASSUME NEW i \in 1..Len(Script), NEW c \in Chain
    PROVE  /\ Script[i] = Cmd("empty", c) => i > 1 /\ Script[i - 1] = Cmd("hook", c)
           /\ Script[i] = Cmd("append", c) => i > 1 /\ Script[i - 1] = Cmd("empty", c)
BY DEF Script, Chain, Cmd

LEMMA ScriptLength == Len(Script) = 25
BY DEF Script

LEMMA RulesFacts ==
    ASSUME NEW c \in Chain, NEW p \in Portal
    PROVE  /\ Len(Rules(c, p)) \in {6, 7}
           /\ Rules(c, p)[1] = Rule("src", "guest", "pass")
           /\ Rules(c, p)[2] = Rule("src", "staff", "pass")
           /\ Rules(c, p)[3] = Rule("src", "mac", "pass")
           /\ Rules(c, p)[4] = Rule("dst", "ip", "pass")
BY DEF Rules, Exemptions, Chain, Rule

Elements(c, p) == {Rules(c, p)[i] : i \in 1..Len(Rules(c, p))}

LEMMA RulesSeq ==
    ASSUME NEW c \in Chain, NEW p \in Portal
    PROVE  Rules(c, p) \in Seq(Elements(c, p))
<1>1. PICK T : Rules(c, p) \in Seq(T)
  <2>. DEFINE E == {Rule("src", "guest", "pass"), Rule("src", "staff", "pass"),
                    Rule("src", "mac", "pass"), Rule("dst", "ip", "pass"),
                    Rule("port", "http", p), Rule("any", None, "pass"),
                    Rule("dst", "dns", "pass"), Rule("port", "dns", p),
                    Rule("host", p, "pass"), Rule("port", "https", "reject"),
                    Rule("any", None, "reject")}
  <2>1. Exemptions \in Seq(E)
    BY DEF Exemptions
  <2>2. /\ << Rule("port", "http", p), Rule("any", None, "pass") >> \in Seq(E)
        /\ << Rule("dst", "dns", "pass"), Rule("port", "dns", p),
              Rule("any", None, "pass") >> \in Seq(E)
        /\ << Rule("host", p, "pass"), Rule("port", "https", "reject"),
              Rule("any", None, "reject") >> \in Seq(E)
    OBVIOUS
  <2>. QED
    BY <2>1, <2>2 DEF Rules
<1>. QED
  BY <1>1 DEF Elements

\* What a chain is while its rules are appended.
Prefix(s, c, p, n) == s = SubSeq(Rules(c, p), 1, n)

LEMMA PrefixFacts ==
    ASSUME NEW c \in Chain, NEW p \in Portal, NEW n \in 0..Len(Rules(c, p)),
           NEW s, Prefix(s, c, p, n)
    PROVE  /\ Len(s) = n
           /\ \A i \in DOMAIN s : i \in 1..n /\ s[i] = Rules(c, p)[i]
           /\ n < Len(Rules(c, p)) => Prefix(Append(s, Rules(c, p)[n + 1]), c, p, n + 1)
           /\ n = Len(Rules(c, p)) => s = Rules(c, p)
BY RulesSeq, RulesFacts DEF Prefix

IInv ==
    /\ TypeOK
    /\ \A c \in Chain : Doing("empty", c) \/ Doing("append", c) => c \in hooked
    /\ \A c \in Chain : Doing("append", c) =>
          /\ built[c] = None
          /\ \E n \in 0..Len(Rules(c, env.portal)) :
                n < Len(Rules(c, env.portal)) /\ Prefix(chain[c], c, env.portal, n)
    /\ \A c \in Chain : built[c] # None => c \in hooked /\ chain[c] = Rules(c, built[c])

-----------------------------------------------------------------------------
LEMMA InitIInv == Init => IInv
<1>. SUFFICES ASSUME Init PROVE IInv
  OBVIOUS
<1>1. TypeOK
  <2>1. \A c \in Chain : \E p \in Portal : \E n \in 0..Len(Rules(c, p)) :
           chain[c] = SubSeq(Rules(c, p), 1, n)
    <3>. TAKE c \in Chain
    <3>1. PICK p : p = Default.portal
      OBVIOUS
    <3>2. p \in Portal
      BY <3>1, RuntimeAssumption
    <3>3. Len(Rules(c, p)) \in Nat /\ chain[c] = SubSeq(Rules(c, p), 1, 0)
      BY <3>2, RulesFacts, RulesSeq DEF Init
    <3>. QED
      BY <3>2, <3>3
  <2>2. set \in [SetName -> {None} \cup SUBSET (Mac \cup Host)]
    BY DEF Init
  <2>3. /\ \A s \in AllowSet \cup {"mac"} : set[s] = None
        /\ \A s \in {"ip", "dns"} : set[s] = None
    BY DEF Init, AllowSet, SetName
  <2>4. built \in [Chain -> Portal \cup {None}]
    BY DEF Init
  <2>5. pc \in 0..Len(Script) /\ stops \in 0..MaxStop
    BY ScriptLength, StopAssumption DEF Init
  <2>. QED
    BY <2>1, <2>2, <2>3, <2>4, <2>5 DEF Init, TypeOK
<1>2. \A c \in Chain : ~Doing("empty", c) /\ ~Doing("append", c)
  BY DEF Init, Doing
<1>. QED
  BY <1>1, <1>2 DEF Init, IInv

-----------------------------------------------------------------------------
(* Types of the parts.                                                      *)

SetOK ==
    /\ set \in [SetName -> {None} \cup SUBSET (Mac \cup Host)]
    /\ \A s \in AllowSet \cup {"mac"} : set[s] = None \/ set[s] \subseteq Mac
    /\ \A s \in {"ip", "dns"} : set[s] = None \/ set[s] \subseteq Host

ChainOK ==
    /\ DOMAIN chain = Chain
    /\ \A c \in Chain : \E p \in Portal : \E n \in 0..Len(Rules(c, p)) :
           chain[c] = SubSeq(Rules(c, p), 1, n)

\* Setting s to v, a set of what s holds.
LEMMA SetStep ==
    ASSUME SetOK, NEW s \in SetName, NEW v,
           s \in AllowSet \cup {"mac"} => v \subseteq Mac,
           s \in {"ip", "dns"} => v \subseteq Host,
           set' = [set EXCEPT ![s] = v]
    PROVE  SetOK'
<1>1. v \in SUBSET (Mac \cup Host)
  BY DEF SetName
<1>2. set' \in [SetName -> {None} \cup SUBSET (Mac \cup Host)]
  BY <1>1 DEF SetOK
<1>3. \A k \in SetName : set'[k] = IF k = s THEN v ELSE set[k]
  BY DEF SetOK
<1>. QED
  BY <1>2, <1>3 DEF SetOK, SetName

LEMMA MembersType ==
    ASSUME SetOK
    PROVE  /\ \A s \in AllowSet \cup {"mac"} : Members(s) \subseteq Mac
           /\ \A s \in {"ip", "dns"} : Members(s) \subseteq Host
BY DEF SetOK, Members

LEMMA ListedType ==
    ASSUME TypeOK
    PROVE  /\ Listed("mac") = Broken \/ Listed("mac") \subseteq Mac
           /\ Listed("ip") = Broken \/ Listed("ip") \subseteq Host
BY RuntimeAssumption DEF TypeOK, Listed

LEMMA DomainNames ==
    ASSUME TypeOK, Listed("conf") # Broken, NEW d \in Listed("conf")
    PROVE  d \in Seq(STRING) \ {<<>>}
BY RuntimeAssumption DEF TypeOK, Listed

\* Only "mac", "ip" and "dns" are flushed, only "mac" and "ip" are filled.
LEMMA ScriptSets ==
    ASSUME TypeOK, NEW s \in SetName
    PROVE  /\ Doing("flush", s) \/ Doing("reflush", s) => s \in {"mac", "ip", "dns"}
           /\ Doing("fill", s) => s \in {"mac", "ip"}
<1>1. ASSUME NEW i \in 1..Len(Script)
      PROVE  /\ Script[i] = Cmd("flush", s) => s \in {"mac", "ip", "dns"}
             /\ Script[i] = Cmd("reflush", s) => s \in {"mac", "ip", "dns"}
             /\ Script[i] = Cmd("fill", s) => s \in {"mac", "ip"}
  BY DEF Script, Cmd, SetName, AllowSet
<1>. QED
  BY <1>1 DEF Doing, TypeOK

LEMMA GoFacts ==
    ASSUME TypeOK, pc > 0, Go
    PROVE  /\ env' = env /\ stops' = stops /\ pc' \in 0..Len(Script)
           /\ ended' \in {"none", "done", "stopped"}
           /\ \A c \in Chain : Doing("empty", c)' => Doing("hook", c)
           /\ \A c \in Chain : Doing("append", c)' => Doing("empty", c)
<1>1. env' = env /\ stops' = stops /\ pc' \in 0..Len(Script)
  BY ScriptLength DEF TypeOK, Go
<1>2. ended' \in {"none", "done", "stopped"}
  BY DEF TypeOK, Go
<1>3. ASSUME pc' > 0
      PROVE  pc' \in 1..Len(Script) /\ pc' - 1 = pc
  BY <1>3, ScriptLength DEF TypeOK, Go
<1>4. ASSUME NEW c \in Chain
      PROVE  /\ Doing("empty", c)' => Doing("hook", c)
             /\ Doing("append", c)' => Doing("empty", c)
  BY <1>3, ScriptOrder DEF Doing, Cmd
<1>. QED
  BY <1>1, <1>2, <1>4

\* A command that is no hook and empties or appends to no chain.
LEMMA QuietStep ==
    ASSUME IInv, UNCHANGED <<hooked, chain, built, snat>>, SetOK', partial' \in BOOLEAN,
           Go, pc > 0,
           \A c \in Chain : ~Doing("hook", c) /\ ~Doing("empty", c)
    PROVE  IInv'
<1>1. TypeOK'
  BY GoFacts DEF IInv, TypeOK, SetOK
<1>2. \A c \in Chain : ~Doing("empty", c)' /\ ~Doing("append", c)'
  BY GoFacts DEF IInv
<1>. QED
  BY <1>1, <1>2 DEF IInv

LEMMA TypeParts == TypeOK => SetOK /\ ChainOK
BY DEF TypeOK, SetOK, ChainOK

\* The commands that work on sets and on dnsmasq's rules, and Masquerade, are quiet.
LEMMA Quiet ==
    ASSUME TypeOK,
           \/ \E s \in SetName : Doing("ensure", s) \/ Doing("flush", s)
                                 \/ Doing("reflush", s) \/ Doing("fill", s)
           \/ Doing("self", "mac") \/ Doing("clear", "conf") \/ Doing("fill", "conf")
           \/ Doing("reload", "conf") \/ Doing("snat", "http")
    PROVE  pc > 0 /\ \A c \in Chain : ~Doing("hook", c) /\ ~Doing("empty", c)
<1>1. pc > 0
  BY DEF Doing
<1>2. Script[pc].op \in {"ensure", "flush", "reflush", "fill", "self", "clear", "reload", "snat"}
  <2>1. \A o, l : Doing(o, l) => Script[pc].op = o
    BY DEF Doing, Cmd
  <2>. QED
    BY <2>1
<1>3. \A c \in Chain : /\ Doing("hook", c) => Script[pc].op = "hook"
                       /\ Doing("empty", c) => Script[pc].op = "empty"
  BY DEF Doing, Cmd
<1>. QED
  BY <1>1, <1>2, <1>3

-----------------------------------------------------------------------------
(* One step of each action.                                                 *)

LEMMA CommandOnSets ==
    ASSUME IInv, NEW s \in SetName, Ensure(s) \/ Flush(s) \/ Fill(s)
    PROVE  IInv'
<1>1. TypeOK /\ SetOK
  BY TypeParts DEF IInv
<1>2. CASE Ensure(s)
  <2>1. SetOK'
    BY <1>1, <1>2, SetStep, MembersType DEF Ensure
  <2>. QED
    BY <1>1, <1>2, <2>1, Quiet, QuietStep DEF Ensure, TypeOK
<1>3. CASE Flush(s)
  <2>1. SetOK'
    <3>1. CASE set' = [set EXCEPT ![s] = {}]
      BY <1>1, <3>1, SetStep
    <3>2. CASE UNCHANGED set
      BY <1>1, <3>2 DEF SetOK
    <3>. QED
      BY <1>3, <3>1, <3>2 DEF Flush
  <2>2. partial' \in BOOLEAN
    BY <1>1, <1>3 DEF Flush, TypeOK
  <2>. QED
    BY <1>1, <1>3, <2>1, <2>2, Quiet, QuietStep DEF Flush
<1>4. CASE Fill(s)
  <2>1. s \in {"mac", "ip"}
    BY <1>1, <1>4, ScriptSets DEF Fill
  <2>2. PICK added \in SUBSET Listed(s) :
          /\ set' = [set EXCEPT ![s] = Members(s) \cup added]
          /\ partial' = (partial \/ added # Listed(s))
    BY <1>4 DEF Fill
  <2>3. SetOK'
    <3>1. CASE s = "mac"
      <4>1. added \subseteq Mac /\ Members(s) \subseteq Mac
        BY <1>1, <1>4, <2>2, <3>1, ListedType, MembersType DEF Fill
      <4>. QED
        BY <1>1, <2>2, <3>1, <4>1, SetStep
    <3>2. CASE s = "ip"
      <4>1. added \subseteq Host /\ Members(s) \subseteq Host
        BY <1>1, <1>4, <2>2, <3>2, ListedType, MembersType DEF Fill
      <4>. QED
        BY <1>1, <2>2, <3>2, <4>1, SetStep DEF AllowSet
    <3>. QED
      BY <2>1, <3>1, <3>2
  <2>4. partial' \in BOOLEAN
    BY <1>1, <2>2 DEF TypeOK
  <2>. QED
    BY <1>1, <1>4, <2>3, <2>4, Quiet, QuietStep DEF Fill
<1>. QED
  BY <1>2, <1>3, <1>4

LEMMA EndStep ==
    ASSUME IInv, End, stops' \in 0..MaxStop
    PROVE  IInv'
<1>1. TypeOK'
  BY ScriptLength DEF End, IInv, TypeOK
<1>2. \A c \in Chain : ~Doing("empty", c)' /\ ~Doing("append", c)'
  BY DEF End, Doing
<1>. QED
  BY <1>1, <1>2 DEF End, IInv

LEMMA OtherCommands ==
    ASSUME IInv, AddSelf \/ Clear \/ FillConf \/ Reload \/ Masquerade \/ Reject
    PROVE  IInv'
<1>1. TypeOK /\ SetOK
  BY TypeParts DEF IInv
<1>2. CASE AddSelf
  <2>1. PICK added \in SUBSET {Self} :
          set' = [set EXCEPT !["mac"] = Members("mac") \cup added]
    BY <1>2 DEF AddSelf
  <2>2. Members("mac") \cup added \subseteq Mac
    BY <1>1, MembersType, NameAssumption
  <2>3. SetOK'
    BY <1>1, <2>1, <2>2, SetStep DEF SetName
  <2>4. partial' \in BOOLEAN
    BY <1>1, <1>2 DEF AddSelf, TypeOK
  <2>. QED
    BY <1>1, <1>2, <2>3, <2>4, Quiet, QuietStep DEF AddSelf
<1>3. ASSUME Clear \/ FillConf \/ Reload
      PROVE  IInv'
  <2>1. SetOK' /\ partial' \in BOOLEAN
    BY <1>1, <1>3 DEF Clear, FillConf, Reload, SetOK, TypeOK
  <2>. QED
    BY <1>1, <1>3, <2>1, Quiet, QuietStep DEF Clear, FillConf, Reload
<1>4. CASE Masquerade
  <2>1. pc > 0 /\ \A c \in Chain : ~Doing("hook", c) /\ ~Doing("empty", c)
    BY <1>1, <1>4, Quiet DEF Masquerade
  <2>2. \A c \in Chain : ~Doing("empty", c)' /\ ~Doing("append", c)'
    BY <1>1, <1>4, <2>1, GoFacts DEF Masquerade
  <2>3. snat' \subseteq Portal
    BY <1>1, <1>4, RuntimeAssumption DEF Masquerade, TypeOK
  <2>4. TypeOK'
    BY <1>1, <1>4, <2>1, <2>3, GoFacts DEF Masquerade, TypeOK
  <2>. QED
    BY <1>4, <2>2, <2>4 DEF Masquerade, IInv
<1>5. CASE Reject
  BY <1>1, <1>5, EndStep DEF Reject, TypeOK
<1>. QED
  BY <1>2, <1>3, <1>4, <1>5

LEMMA HookStep ==
    ASSUME IInv, NEW c \in Chain, Hook(c)
    PROVE  IInv'
<1>1. TypeOK /\ pc > 0
  BY DEF IInv, Hook, Doing
<1>2. TypeOK'
  BY <1>1, GoFacts DEF Hook, TypeOK
<1>3. \A k \in Chain : ~Doing("append", k)' /\ (Doing("empty", k)' => k = c)
  <2>1. \A k \in Chain : ~Doing("empty", k) /\ (Doing("hook", k) => k = c)
    BY DEF Hook, Doing, Cmd
  <2>. QED
    BY <1>1, <2>1, GoFacts DEF Hook
<1>. QED
  BY <1>2, <1>3 DEF IInv, Hook

LEMMA EmptyStep ==
    ASSUME IInv, NEW c \in Chain, Empty(c)
    PROVE  IInv'
<1>1. TypeOK /\ ChainOK /\ pc > 0 /\ c \in hooked /\ env.portal \in Portal
  BY TypeParts, RuntimeAssumption DEF IInv, Empty, Doing, TypeOK
<1>2. \A k \in Chain : ~Doing("empty", k)' /\ (Doing("append", k)' => k = c)
  <2>1. \A k \in Chain : ~Doing("hook", k) /\ (Doing("empty", k) => k = c)
    BY DEF Empty, Doing, Cmd
  <2>. QED
    BY <1>1, <2>1, GoFacts DEF Empty
<1>3. /\ chain'[c] = <<>> /\ built'[c] = None
      /\ \A k \in Chain : k # c => chain'[k] = chain[k] /\ built'[k] = built[k]
      /\ DOMAIN chain' = Chain /\ built' \in [Chain -> Portal \cup {None}]
  BY <1>1 DEF Empty, ChainOK, TypeOK
<1>4. \A p \in Portal : Len(Rules(c, p)) \in Nat \ {0} /\ <<>> = SubSeq(Rules(c, p), 1, 0)
  BY RulesFacts, RulesSeq
<1>5. ChainOK'
  <2>1. ASSUME NEW k \in Chain
        PROVE  \E p \in Portal : \E n \in 0..Len(Rules(k, p)) :
                  chain'[k] = SubSeq(Rules(k, p), 1, n)
    <3>1. CASE k = c
      <4>1. 0 \in 0..Len(Rules(k, env.portal))
        BY <1>1, <1>4, <3>1
      <4>. QED
        BY <1>1, <1>3, <1>4, <3>1, <4>1
    <3>. QED
      BY <1>1, <1>3, <3>1 DEF ChainOK
  <2>. QED
    BY <1>3, <2>1 DEF ChainOK
<1>6. TypeOK'
  BY <1>1, <1>3, <1>5, GoFacts DEF Empty, TypeOK, ChainOK
<1>7. env' = env
  BY DEF Empty, Go
<1>. QED
  BY <1>1, <1>2, <1>3, <1>4, <1>6, <1>7 DEF IInv, Prefix, Empty

LEMMA AppendStep ==
    ASSUME IInv, NEW c \in Chain, AppendRule(c)
    PROVE  IInv'
<1>. DEFINE rules == Rules(c, env.portal)
<1>1. /\ TypeOK /\ ChainOK /\ pc > 0 /\ c \in hooked /\ Doing("append", c)
      /\ env.portal \in Portal
  BY TypeParts, RuntimeAssumption DEF IInv, AppendRule, Doing, TypeOK
<1>2. PICK n \in 0..Len(rules) : n < Len(rules) /\ Prefix(chain[c], c, env.portal, n)
  BY <1>1 DEF IInv
<1>3. Len(rules) \in Nat
  BY <1>1, RulesFacts
<1>4. Len(chain[c]) = n /\ Prefix(Append(chain[c], rules[n + 1]), c, env.portal, n + 1)
  BY <1>1, <1>2, PrefixFacts
<1>5. /\ chain'[c] = Append(chain[c], rules[n + 1])
      /\ \A k \in Chain : k # c => chain'[k] = chain[k]
      /\ DOMAIN chain' = Chain
  BY <1>1, <1>4 DEF AppendRule, ChainOK
<1>6. n + 1 \in 0..Len(rules) /\ Prefix(chain'[c], c, env.portal, n + 1)
  BY <1>2, <1>3, <1>4, <1>5
<1>7. ChainOK'
  <2>1. ASSUME NEW k \in Chain
        PROVE  \E p \in Portal : \E i \in 0..Len(Rules(k, p)) :
                  chain'[k] = SubSeq(Rules(k, p), 1, i)
    <3>1. CASE k = c
      BY <1>1, <1>6, <3>1 DEF Prefix
    <3>. QED
      BY <1>1, <1>5, <3>1 DEF ChainOK
  <2>. QED
    BY <1>5, <2>1 DEF ChainOK
<1>8. \A k \in Chain : k # c => ~Doing("append", k) /\ ~Doing("empty", k) /\ ~Doing("hook", k)
  BY <1>1 DEF Doing, Cmd
<1>9. ~Doing("empty", c) /\ ~Doing("hook", c)
  BY <1>1 DEF Doing, Cmd
<1>10. built[c] = None
  BY <1>1 DEF IInv
<1>11. CASE n + 1 < Len(rules)
  <2>1. UNCHANGED <<env, pc, ended, stops, built, set, conf, loaded, hooked, snat, partial>>
    BY <1>4, <1>11 DEF AppendRule
  <2>2. TypeOK'
    BY <1>1, <1>7, <2>1 DEF TypeOK, ChainOK
  <2>3. \A k \in Chain : ~Doing("empty", k)' /\ (Doing("append", k)' => k = c)
    BY <1>8, <1>9, <2>1 DEF Doing
  <2>. QED
    BY <1>1, <1>5, <1>6, <1>10, <1>11, <2>1, <2>2, <2>3 DEF IInv
<1>12. CASE n + 1 = Len(rules)
  <2>1. Go /\ built' = [built EXCEPT ![c] = env.portal]
        /\ UNCHANGED <<set, conf, loaded, hooked, snat, partial>>
    BY <1>3, <1>4, <1>12 DEF AppendRule
  <2>2. \A k \in Chain : ~Doing("empty", k)' /\ ~Doing("append", k)'
    BY <1>1, <1>8, <1>9, <2>1, GoFacts
  <2>3. /\ built' \in [Chain -> Portal \cup {None}]
        /\ built'[c] = env.portal /\ \A k \in Chain : k # c => built'[k] = built[k]
    BY <1>1, <2>1 DEF TypeOK
  <2>4. TypeOK'
    BY <1>1, <1>7, <2>1, <2>3, GoFacts DEF TypeOK, ChainOK
  <2>5. chain'[c] = Rules(c, env.portal)
    BY <1>1, <1>6, <1>12, PrefixFacts
  <2>. QED
    BY <1>1, <1>5, <2>1, <2>2, <2>3, <2>4, <2>5 DEF IInv
<1>. QED
  BY <1>2, <1>3, <1>11, <1>12

LEMMA ChangesStep ==
    ASSUME IInv, NEW s \in SetName, NEW v, Changes(s, v),
           s \in AllowSet \cup {"mac"} => v \subseteq Mac,
           s \in {"ip", "dns"} => v \subseteq Host
    PROVE  IInv'
<1>1. SetOK'
  BY TypeParts, SetStep DEF Changes, IInv
<1>2. TypeOK'
  BY <1>1 DEF Changes, IInv, TypeOK, SetOK
<1>. QED
  BY <1>2 DEF Changes, IInv, Doing

LEMMA EnvironmentStep ==
    ASSUME IInv, Environment
    PROVE  IInv'
<1>1. SetOK
  BY TypeParts DEF IInv
<1>2. ASSUME NEW m \in Mac \ {Self}, NEW s \in AllowSet, Admit(m, s) \/ Expel(m, s)
      PROVE  IInv'
  <2>1. Members(s) \cup {m} \subseteq Mac /\ Members(s) \ {m} \subseteq Mac
    BY <1>1, MembersType
  <2>2. s \in SetName /\ s \notin {"ip", "dns"}
    BY DEF SetName, AllowSet
  <2>. QED
    BY <1>2, <2>1, <2>2, ChangesStep DEF Admit, Expel
<1>3. CASE SyncSelf
  <2>1. Members("mac") \cup {Self} \subseteq Mac
    BY <1>1, MembersType, NameAssumption
  <2>2. "mac" \in SetName
    BY DEF SetName
  <2>. QED
    BY <1>3, <2>1, <2>2, ChangesStep DEF SyncSelf
<1>4. ASSUME NEW h \in Host, Resolve(h)
      PROVE  IInv'
  <2>1. Members("dns") \cup {h} \subseteq Host
    BY <1>1, MembersType
  <2>2. "dns" \in SetName /\ "dns" \notin AllowSet
    BY DEF SetName, AllowSet
  <2>. QED
    BY <1>4, <2>1, <2>2, ChangesStep DEF Resolve
<1>. QED
  BY <1>2, <1>3, <1>4 DEF Environment

LEMMA NextIInv ==
    ASSUME IInv, [Next]_vars
    PROVE  IInv'
<1>1. ASSUME NEW r \in Runtime \cup {Default}, Start(r)
      PROVE  IInv'
  <2>1. pc' = 1 /\ 1 \in 0..Len(Script)
    BY <1>1, ScriptLength DEF Start
  <2>2. TypeOK'
    BY <1>1, <2>1 DEF Start, IInv, TypeOK
  <2>3. Script[1] = Cmd("ensure", "guest")
    BY DEF Script
  <2>4. \A c \in Chain : ~Doing("empty", c)' /\ ~Doing("append", c)'
    BY <2>1, <2>3 DEF Doing, Cmd
  <2>. QED
    BY <1>1, <2>2, <2>4 DEF Start, IInv
<1>2. CASE Command
  BY <1>2, CommandOnSets, OtherCommands, HookStep, EmptyStep, AppendStep DEF Command
<1>3. CASE Stop
  <2>1. stops' \in 0..MaxStop
    BY <1>3, StopAssumption DEF Stop, IInv, TypeOK
  <2>. QED
    BY <1>3, <2>1, EndStep DEF Stop
<1>4. CASE Environment
  BY <1>4, EnvironmentStep
<1>5. CASE UNCHANGED vars
  BY <1>5 DEF vars, IInv, TypeOK, Doing
<1>. QED
  BY <1>1, <1>2, <1>3, <1>4, <1>5 DEF Next

\* A chain is complete or a prefix of its rules, and whoever it is complete for.
THEOREM Inductive == Spec => []IInv
BY InitIInv, NextIInv, PTL DEF Spec

\* Every reachable state of the router and the script is well typed.
THEOREM TypeCorrect == Spec => []TypeOK
<1>1. IInv => TypeOK
  BY DEF IInv
<1>. QED
  BY <1>1, Inductive, PTL

-----------------------------------------------------------------------------
(* What chains do to packets.                                               *)

LEMMA Verdicts == "pass" \notin Verdict /\ None \notin Portal
BY NameAssumption DEF Verdict

\* Whoever hits the first or the second rule of a chain passes it.
LEMMA PrefixPasses ==
    ASSUME NEW c \in Chain, NEW p \in Portal, NEW n \in 0..Len(Rules(c, p)),
           NEW s, Prefix(s, c, p, n), NEW q \in Packet, Authorized(q)
    PROVE  ~Leads(s, q, Verdict)
<1>. SUFFICES ASSUME Leads(s, q, Verdict) PROVE FALSE
  OBVIOUS
<1>1. PICK i \in DOMAIN s :
        Hit(s[i], q) /\ s[i].to \in Verdict /\ \A j \in 1..(i - 1) : ~Hit(s[j], q)
  BY DEF Leads
<1>2. Len(Rules(c, p)) \in Nat /\ n \in Nat
  BY RulesFacts
<1>3. i \in 1..n /\ s[i] = Rules(c, p)[i]
  BY <1>1, PrefixFacts
<1>4. \A j \in 1..n : s[j] = Rules(c, p)[j]
  BY RulesSeq, <1>2 DEF Prefix
<1>5. Rules(c, p)[1] = Rule("src", "guest", "pass") /\ Rules(c, p)[2] = Rule("src", "staff", "pass")
  BY RulesFacts
<1>6. i > 2
  BY <1>1, <1>2, <1>3, <1>5, Verdicts DEF Rule
<1>7. ~Hit(s[1], q) /\ ~Hit(s[2], q)
  BY <1>1, <1>2, <1>3, <1>6
<1>8. ~(q.mac \in Members("guest")) /\ ~(q.mac \in Members("staff"))
  BY <1>2, <1>3, <1>4, <1>5, <1>6, <1>7 DEF Hit, Rule
<1>. QED
  BY <1>8 DEF Authorized, AllowSet

LEMMA GatePasses == IInv => AuthorizedPass
<1>. SUFFICES ASSUME IInv, NEW c \in Chain, NEW q \in Packet, Authorized(q)
              PROVE  ~Leads(chain[c], q, Verdict)
  BY DEF AuthorizedPass, Stopped
<1>1. PICK p \in Portal : \E n \in 0..Len(Rules(c, p)) : Prefix(chain[c], c, p, n)
  BY TypeParts DEF IInv, ChainOK, Prefix
<1>2. PICK n \in 0..Len(Rules(c, p)) : Prefix(chain[c], c, p, n)
  BY <1>1
<1>. QED
  BY <1>2, PrefixPasses

\* While portal-fw.sh rebuilds the chains and wherever it stops, no client in an
\* allow set is redirected or rejected.
THEOREM AuthorizedAlwaysPass == Spec => []AuthorizedPass
BY GatePasses, Inductive, PTL

\* What the rules behind the exemptions say.
LEMMA RulesTail ==
    ASSUME NEW c \in Chain, NEW p \in Portal
    PROVE  /\ c = "http" => /\ Len(Rules(c, p)) = 6
                            /\ Rules(c, p)[5] = Rule("port", "http", p)
                            /\ Rules(c, p)[6] = Rule("any", None, "pass")
           /\ c = "dns" => /\ Len(Rules(c, p)) = 7
                           /\ Rules(c, p)[5] = Rule("dst", "dns", "pass")
                           /\ Rules(c, p)[6] = Rule("port", "dns", p)
                           /\ Rules(c, p)[7] = Rule("any", None, "pass")
           /\ c = "fwd" => /\ Len(Rules(c, p)) = 7
                           /\ Rules(c, p)[5] = Rule("host", p, "pass")
                           /\ Rules(c, p)[6] = Rule("port", "https", "reject")
                           /\ Rules(c, p)[7] = Rule("any", None, "reject")
BY DEF Rules, Exemptions, Rule

LEMMA ExemptHits ==
    ASSUME NEW c \in Chain, NEW p \in Portal, NEW q \in Packet
    PROVE  Exempt(q) <=> \E j \in 1..4 : Hit(Rules(c, p)[j], q)
<1>1. /\ Hit(Rules(c, p)[1], q) <=> q.mac \in Members("guest")
      /\ Hit(Rules(c, p)[2], q) <=> q.mac \in Members("staff")
      /\ Hit(Rules(c, p)[3], q) <=> q.mac \in Members("mac")
      /\ Hit(Rules(c, p)[4], q) <=> q.dst \in Members("ip")
  BY RulesFacts DEF Hit, Rule
<1>. QED
  BY <1>1 DEF Exempt, Authorized, AllowSet

\* A complete chain stops what its exemptions do not let through and its tail
\* redirects or rejects.
LEMMA FullChain ==
    ASSUME NEW c \in Chain, NEW p \in Portal, NEW q \in Packet
    PROVE  Leads(Rules(c, p), q, Verdict) <=>
              /\ ~Exempt(q)
              /\ c = "http" => q.port = "http"
              /\ c = "dns" => q.port = "dns" /\ q.dst \notin Members("dns")
              /\ c = "fwd" => q.dst # p
<1>. DEFINE R == Rules(c, p)
            Tailed == /\ c = "http" => q.port = "http"
                      /\ c = "dns" => q.port = "dns" /\ q.dst \notin Members("dns")
                      /\ c = "fwd" => q.dst # p
<1>1. DOMAIN R = 1..Len(R) /\ Len(R) \in {6, 7}
  BY RulesSeq, RulesFacts
<1>2. \A j \in 1..4 : R[j].to = "pass"
  BY RulesFacts DEF Rule
<1>3. ASSUME c = "http"
      PROVE  Len(R) = 6 /\ R[5] = Rule("port", "http", p) /\ R[6] = Rule("any", None, "pass")
  BY <1>3, RulesTail
<1>4. ASSUME c = "dns"
      PROVE  /\ Len(R) = 7 /\ R[5] = Rule("dst", "dns", "pass")
             /\ R[6] = Rule("port", "dns", p) /\ R[7] = Rule("any", None, "pass")
  BY <1>4, RulesTail
<1>5. ASSUME c = "fwd"
      PROVE  /\ Len(R) = 7 /\ R[5] = Rule("host", p, "pass")
             /\ R[6] = Rule("port", "https", "reject") /\ R[7] = Rule("any", None, "reject")
  BY <1>5, RulesTail
<1>6. ASSUME Leads(R, q, Verdict)
      PROVE  ~Exempt(q) /\ Tailed
  <2>1. PICK i \in DOMAIN R : Hit(R[i], q) /\ R[i].to \in Verdict /\ \A j \in 1..(i - 1) : ~Hit(R[j], q)
    BY <1>6 DEF Leads
  <2>2. i \in 5..Len(R)
    BY <1>1, <1>2, <2>1, Verdicts
  <2>3. ~Exempt(q)
    BY <2>1, <2>2, <1>1, ExemptHits
  <2>4. Tailed
    <3>1. CASE c = "http"
      <4>1. i = 5
        BY <1>1, <1>3, <2>1, <2>2, <3>1, Verdicts DEF Rule
      <4>. QED
        BY <1>3, <2>1, <3>1, <4>1 DEF Hit, Rule
    <3>2. CASE c = "dns"
      <4>1. i = 6
        BY <1>1, <2>1, <2>2, <3>2, <1>4, Verdicts DEF Rule
      <4>2. ~Hit(R[5], q)
        BY <2>1, <4>1
      <4>. QED
        BY <2>1, <3>2, <4>1, <4>2, <1>4 DEF Hit, Rule
    <3>3. CASE c = "fwd"
      <4>1. i > 5
        BY <1>1, <2>1, <2>2, <3>3, <1>5, Verdicts DEF Rule
      <4>2. ~Hit(R[5], q)
        BY <1>1, <2>1, <2>2, <4>1
      <4>. QED
        BY <3>3, <4>2, <1>5 DEF Hit, Rule
    <3>. QED
      BY <3>1, <3>2, <3>3 DEF Chain
  <2>. QED
    BY <2>3, <2>4
<1>7. ASSUME ~Exempt(q), Tailed
      PROVE  Leads(R, q, Verdict)
  <2>1. \A j \in 1..4 : ~Hit(R[j], q)
    BY <1>7, ExemptHits
  <2>2. CASE c = "http"
    <3>1. Hit(R[5], q) /\ R[5].to = p
      BY <1>7, <2>2, <1>3 DEF Hit, Rule
    <3>2. 5 \in DOMAIN R /\ p \in Verdict
      BY <1>1, <1>3, <2>2 DEF Verdict
    <3>. QED
      BY <2>1, <3>1, <3>2 DEF Leads
  <2>3. CASE c = "dns"
    <3>1. ~Hit(R[5], q) /\ Hit(R[6], q) /\ R[6].to = p
      BY <1>7, <2>3, <1>4 DEF Hit, Rule
    <3>2. 6 \in DOMAIN R /\ p \in Verdict
      BY <1>1, <1>4, <2>3 DEF Verdict
    <3>. QED
      BY <2>1, <3>1, <3>2 DEF Leads
  <2>4. CASE c = "fwd"
    <3>1. ~Hit(R[5], q) /\ Hit(R[7], q) /\ R[6].to = "reject" /\ R[7].to = "reject"
      BY <1>7, <2>4, <1>5 DEF Hit, Rule
    <3>2. 6 \in DOMAIN R /\ 7 \in DOMAIN R /\ "reject" \in Verdict
      BY <1>1, <2>4, <1>5 DEF Verdict
    <3>3. CASE Hit(R[6], q)
      BY <2>1, <3>1, <3>2, <3>3 DEF Leads
    <3>4. CASE ~Hit(R[6], q)
      BY <2>1, <3>1, <3>2, <3>4 DEF Leads
    <3>. QED
      BY <3>3, <3>4
  <2>. QED
    BY <2>2, <2>3, <2>4 DEF Chain
<1>. QED
  BY <1>6, <1>7

LEMMA GateStops == IInv => GateIntact
<1>. SUFFICES ASSUME IInv, NEW c \in Chain, built[c] # None, NEW q \in Packet
              PROVE  Stopped(c, q) <=>
                        /\ ~Exempt(q)
                        /\ c = "http" => q.port = "http"
                        /\ c = "dns" => q.port = "dns" /\ q.dst \notin Members("dns")
                        /\ c = "fwd" => q.dst # built[c]
  BY DEF GateIntact
<1>1. c \in hooked /\ chain[c] = Rules(c, built[c]) /\ built[c] \in Portal
  BY DEF IInv, TypeOK
<1>. QED
  BY <1>1, FullChain DEF Stopped

\* Between the command that completes a chain and the one that empties it, however
\* portal-fw.sh ended, the chain stops exactly what it is meant to stop.
THEOREM GateStaysIntact == Spec => []GateIntact
BY GateStops, Inductive, PTL

-----------------------------------------------------------------------------
(* What the commands leave behind them.                                     *)

\* Command n of this run is done, or of the last one if it went to its end.
Past(n) == pc > n \/ (pc = 0 /\ ended = "done")

\* Between "flush" and "fill" only the router can get into the set; from then on
\* the set is the list of the runtime.
MacFollows ==
    /\ Past(3) => set["mac"] # None
    /\ pc = 8 /\ ~partial => set["mac"] \subseteq {Self}
    /\ Past(8) /\ ~partial => set["mac"] \ {Self} = Listed("mac") \ {Self}

IPFollows ==
    /\ Past(4) => set["ip"] # None
    /\ pc = 10 /\ ~partial => set["ip"] = {}
    /\ Past(10) /\ ~partial => set["ip"] = Listed("ip")

ConfFollows ==
    /\ pc \in {13, 14} => conf = {}
    /\ Past(14) => conf = Domains(Listed("conf")) /\ Listed("conf") # Broken

\* Both chains are for the portal of the runtime, and its answers come back.
ChainsFollow ==
    /\ Past(18) => built["http"] = env.portal
    /\ Past(19) => env.portal \in snat
    /\ Past(25) => built["fwd"] = env.portal

\* Where the commands are.
LEMMA ScriptPlaces ==
    ASSUME NEW i \in 1..Len(Script), NEW s \in SetName, NEW c \in Chain
    PROVE  /\ Script[i] = Cmd("ensure", s) =>
                 i < 6 /\ (i = 3 <=> s = "mac") /\ (i = 4 <=> s = "ip")
           /\ Script[i] = Cmd("self", "mac") => i = 6
           /\ Script[i] = Cmd("flush", s) =>
                 (i = 7 /\ s = "mac") \/ (i = 9 /\ s = "ip") \/ (i = 11 /\ s = "dns")
           /\ Script[i] = Cmd("reflush", s) => i = 13 /\ s = "dns"
           /\ Script[i] = Cmd("fill", s) => (i = 8 /\ s = "mac") \/ (i = 10 /\ s = "ip")
           /\ Script[i] = Cmd("clear", "conf") => i = 12
           /\ Script[i] = Cmd("fill", "conf") => i = 14
           /\ Script[i] = Cmd("reload", "conf") => i = 15
           /\ Script[i] = Cmd("hook", c) => i \in {16, 20, 23}
           /\ Script[i] = Cmd("empty", c) =>
                 (i = 17 /\ c = "http") \/ (i = 21 /\ c = "dns") \/ (i = 24 /\ c = "fwd")
           /\ Script[i] = Cmd("append", c) =>
                 (i = 18 /\ c = "http") \/ (i = 22 /\ c = "dns") \/ (i = 25 /\ c = "fwd")
           /\ Script[i] = Cmd("snat", "http") => i = 19
BY DEF Script, Cmd, SetName, AllowSet, Chain

LEMMA Places ==
    ASSUME TypeOK, NEW s \in SetName, NEW c \in Chain
    PROVE  /\ Doing("ensure", s) => pc < 6 /\ (pc = 3 <=> s = "mac") /\ (pc = 4 <=> s = "ip")
           /\ Doing("self", "mac") => pc = 6
           /\ Doing("flush", s) =>
                 (pc = 7 /\ s = "mac") \/ (pc = 9 /\ s = "ip") \/ (pc = 11 /\ s = "dns")
           /\ Doing("reflush", s) => pc = 13 /\ s = "dns"
           /\ Doing("fill", s) => (pc = 8 /\ s = "mac") \/ (pc = 10 /\ s = "ip")
           /\ Doing("clear", "conf") => pc = 12
           /\ Doing("fill", "conf") => pc = 14
           /\ Doing("reload", "conf") => pc = 15
           /\ Doing("hook", c) => pc \in {16, 20, 23}
           /\ Doing("empty", c) =>
                 (pc = 17 /\ c = "http") \/ (pc = 21 /\ c = "dns") \/ (pc = 24 /\ c = "fwd")
           /\ Doing("append", c) =>
                 (pc = 18 /\ c = "http") \/ (pc = 22 /\ c = "dns") \/ (pc = 25 /\ c = "fwd")
           /\ Doing("snat", "http") => pc = 19
BY ScriptPlaces DEF Doing, TypeOK

\* A command that is done was done before or is the one that was next.
LEMMA GoPast ==
    ASSUME TypeOK, pc > 0, Go
    PROVE  /\ \A n \in 1..25 : Past(n)' => Past(n) \/ pc = n
           /\ \A n \in 2..25 : pc' = n => pc = n - 1
           /\ env' = env
BY ScriptLength DEF TypeOK, Go, Past

\* What a command does to the sets that Reconciled is about.
MacWork ==
    /\ pc \notin {3, 6, 7, 8} => set'["mac"] = set["mac"]
    /\ pc \in {3, 6, 7, 8} => set'["mac"] # None
    /\ pc = 7 => partial' \/ set'["mac"] = {}
    /\ pc = 8 => partial' \/ set'["mac"] = set["mac"] \cup Listed("mac")
    /\ partial => partial'

IPWork ==
    /\ pc \notin {4, 9, 10} => set'["ip"] = set["ip"]
    /\ pc \in {4, 9, 10} => set'["ip"] # None
    /\ pc = 9 => partial' \/ set'["ip"] = {}
    /\ pc = 10 => partial' \/ set'["ip"] = set["ip"] \cup Listed("ip")
    /\ partial => partial'

ConfWork ==
    /\ pc \notin {12, 14} => conf' = conf
    /\ pc = 12 => conf' = {}
    /\ pc = 14 => conf' = conf \cup Domains(Listed("conf")) /\ Listed("conf") # Broken

LEMMA MacStep ==
    ASSUME TypeOK, MacFollows, pc > 0, Go, MacWork
    PROVE  MacFollows'
<1>1. Listed("mac")' = Listed("mac")
  BY GoPast DEF Listed
<1>2. set'["mac"] # None \/ ~Past(3)'
  <2>1. Past(3)' => Past(3) \/ pc = 3
    BY GoPast
  <2>. QED
    BY <2>1 DEF MacFollows, MacWork
<1>3. ASSUME pc' = 8, ~partial'
      PROVE  set'["mac"] \subseteq {Self}
  BY <1>3, GoPast DEF MacWork
<1>4. ASSUME Past(8)', ~partial'
      PROVE  set'["mac"] \ {Self} = Listed("mac") \ {Self}
  <2>1. CASE pc = 8
    <3>1. set["mac"] \subseteq {Self} /\ set'["mac"] = set["mac"] \cup Listed("mac")
      BY <1>4, <2>1 DEF MacFollows, MacWork
    <3>. QED
      BY <3>1
  <2>2. CASE pc # 8
    <3>1. Past(8)
      BY <1>4, <2>2, GoPast
    <3>2. pc > 8
      BY <3>1 DEF Past, TypeOK
    <3>. QED
      BY <1>4, <3>1, <3>2 DEF MacFollows, MacWork, TypeOK
  <2>. QED
    BY <2>1, <2>2
<1>. QED
  BY <1>1, <1>2, <1>3, <1>4 DEF MacFollows

LEMMA IPStep ==
    ASSUME TypeOK, IPFollows, pc > 0, Go, IPWork
    PROVE  IPFollows'
<1>1. Listed("ip")' = Listed("ip")
  BY GoPast DEF Listed
<1>2. set'["ip"] # None \/ ~Past(4)'
  <2>1. Past(4)' => Past(4) \/ pc = 4
    BY GoPast
  <2>. QED
    BY <2>1 DEF IPFollows, IPWork
<1>3. ASSUME pc' = 10, ~partial'
      PROVE  set'["ip"] = {}
  BY <1>3, GoPast DEF IPWork
<1>4. ASSUME Past(10)', ~partial'
      PROVE  set'["ip"] = Listed("ip")
  <2>1. CASE pc = 10
    BY <1>4, <2>1 DEF IPFollows, IPWork
  <2>2. CASE pc # 10
    <3>1. Past(10)
      BY <1>4, <2>2, GoPast
    <3>2. pc > 10
      BY <3>1 DEF Past, TypeOK
    <3>. QED
      BY <1>4, <3>1, <3>2 DEF IPFollows, IPWork, TypeOK
  <2>. QED
    BY <2>1, <2>2
<1>. QED
  BY <1>1, <1>2, <1>3, <1>4 DEF IPFollows

LEMMA ConfStep ==
    ASSUME TypeOK, ConfFollows, pc > 0, Go, ConfWork
    PROVE  ConfFollows'
<1>1. Listed("conf")' = Listed("conf")
  BY GoPast DEF Listed
<1>2. ASSUME pc' \in {13, 14}
      PROVE  conf' = {}
  BY <1>2, GoPast DEF ConfFollows, ConfWork
<1>3. ASSUME Past(14)'
      PROVE  conf' = Domains(Listed("conf")) /\ Listed("conf") # Broken
  <2>1. CASE pc = 14
    BY <2>1 DEF ConfFollows, ConfWork
  <2>2. CASE pc # 14
    <3>1. Past(14)
      BY <1>3, <2>2, GoPast
    <3>2. pc > 14
      BY <3>1 DEF Past, TypeOK
    <3>. QED
      BY <3>1, <3>2 DEF ConfFollows, ConfWork, TypeOK
  <2>. QED
    BY <2>1, <2>2
<1>. QED
  BY <1>1, <1>2, <1>3 DEF ConfFollows

LEMMA NotNone ==
    ASSUME NEW v, v \subseteq Mac \/ v \subseteq Host
    PROVE  v # None
<1>1. v \in SUBSET (Mac \cup Host)
  OBVIOUS
<1>. QED
  BY <1>1, NameAssumption

LEMMA EnsureWork ==
    ASSUME TypeOK, NEW s \in SetName, Ensure(s)
    PROVE  pc > 0 /\ Go /\ MacWork /\ IPWork /\ ConfWork
<1>1. Members("mac") # None /\ Members("ip") # None
  <2>1. Members("mac") \subseteq Mac /\ Members("ip") \subseteq Host
    BY TypeParts, MembersType
  <2>. QED
    BY <2>1, NotNone
<1>2. pc > 0 /\ Go /\ set' = [set EXCEPT ![s] = Members(s)] /\ UNCHANGED <<conf, partial>>
  BY DEF Ensure, Doing
<1>3. pc < 6 /\ (pc = 3 <=> s = "mac") /\ (pc = 4 <=> s = "ip")
  BY Places DEF Ensure, Chain
<1>4. \A k \in SetName : set'[k] = IF k = s THEN Members(s) ELSE set[k]
  BY <1>2 DEF TypeOK
<1>5. "mac" \in SetName /\ "ip" \in SetName
  BY DEF SetName
<1>6. pc \in Nat
  BY ScriptLength DEF TypeOK
<1>7. MacWork
  BY <1>1, <1>2, <1>3, <1>4, <1>5, <1>6 DEF MacWork
<1>8. IPWork
  BY <1>1, <1>2, <1>3, <1>4, <1>5, <1>6 DEF IPWork
<1>9. ConfWork
  BY <1>2, <1>3, <1>6 DEF ConfWork
<1>. QED
  BY <1>2, <1>7, <1>8, <1>9

LEMMA FlushWork ==
    ASSUME TypeOK, MacFollows, IPFollows, NEW s \in SetName, Flush(s)
    PROVE  pc > 0 /\ Go /\ MacWork /\ IPWork /\ ConfWork
<1>1. pc > 0 /\ Go /\ conf' = conf /\ pc \in Nat
  BY ScriptLength DEF Flush, Doing, TypeOK
<1>2. (pc = 7 /\ s = "mac") \/ (pc = 9 /\ s = "ip") \/ (pc \in {11, 13} /\ s = "dns")
  <2>1. /\ Doing("flush", s) =>
              (pc = 7 /\ s = "mac") \/ (pc = 9 /\ s = "ip") \/ (pc = 11 /\ s = "dns")
        /\ Doing("reflush", s) => pc = 13 /\ s = "dns"
    BY Places DEF Chain
  <2>. QED
    BY <2>1 DEF Flush
<1>3. /\ partial => partial'
      /\ \/ set' = [set EXCEPT ![s] = {}]
         \/ set' = set /\ (partial' \/ s = "dns")
  <2>1. Doing("reflush", s) => s = "dns"
    BY Places DEF Chain
  <2>. QED
    BY <2>1 DEF Flush
<1>4. {} # None
  BY NotNone
<1>5. /\ "mac" \in SetName /\ "ip" \in SetName
      /\ pc > 3 => set["mac"] # None
      /\ pc > 4 => set["ip"] # None
  BY DEF SetName, MacFollows, IPFollows, Past
<1>6. /\ \A k \in SetName : k # s => set'[k] = set[k]
      /\ \/ set'[s] = {}
         \/ set' = set /\ (partial' \/ s = "dns")
  BY <1>3 DEF TypeOK
<1>7. MacWork
  BY <1>1, <1>2, <1>3, <1>4, <1>5, <1>6 DEF MacWork
<1>8. IPWork
  BY <1>1, <1>2, <1>3, <1>4, <1>5, <1>6 DEF IPWork
<1>9. ConfWork
  BY <1>1, <1>2 DEF ConfWork
<1>. QED
  BY <1>1, <1>7, <1>8, <1>9

LEMMA FillWork ==
    ASSUME TypeOK, MacFollows, IPFollows, NEW s \in SetName, Fill(s)
    PROVE  pc > 0 /\ Go /\ MacWork /\ IPWork /\ ConfWork
<1>1. pc > 0 /\ Go /\ conf' = conf /\ pc \in Nat
  BY ScriptLength DEF Fill, Doing, TypeOK
<1>2. (pc = 8 /\ s = "mac") \/ (pc = 10 /\ s = "ip")
  BY Places DEF Fill, Chain
<1>3. PICK added \in SUBSET Listed(s) :
        /\ set' = [set EXCEPT ![s] = Members(s) \cup added]
        /\ partial' = (partial \/ added # Listed(s))
  BY DEF Fill
<1>4. /\ "mac" \in SetName /\ "ip" \in SetName
      /\ set["mac"] # None /\ set["ip"] # None
  BY <1>1, <1>2 DEF SetName, MacFollows, IPFollows, Past
<1>5. /\ \A k \in SetName : k # s => set'[k] = set[k]
      /\ set'[s] = set[s] \cup added
  BY <1>2, <1>3, <1>4 DEF TypeOK, Members
<1>6. set'[s] # None
  <2>1. CASE s = "mac"
    <3>1. Members(s) \cup added \subseteq Mac
      BY <1>3, <2>1, TypeParts, MembersType, ListedType DEF Fill
    <3>. QED
      BY <1>4, <1>5, <2>1, <3>1, NotNone DEF Members
  <2>2. CASE s = "ip"
    <3>1. Members(s) \cup added \subseteq Host
      BY <1>3, <2>2, TypeParts, MembersType, ListedType DEF Fill
    <3>. QED
      BY <1>4, <1>5, <2>2, <3>1, NotNone DEF Members
  <2>. QED
    BY <1>2, <2>1, <2>2
<1>7. (partial => partial') /\ (partial' \/ added = Listed(s))
  BY <1>3
<1>8. MacWork
  BY <1>1, <1>2, <1>4, <1>5, <1>6, <1>7 DEF MacWork
<1>9. IPWork
  BY <1>1, <1>2, <1>4, <1>5, <1>6, <1>7 DEF IPWork
<1>10. ConfWork
  BY <1>1, <1>2 DEF ConfWork
<1>. QED
  BY <1>1, <1>8, <1>9, <1>10

LEMMA AddSelfWork ==
    ASSUME TypeOK, AddSelf
    PROVE  pc > 0 /\ Go /\ MacWork /\ IPWork /\ ConfWork
<1>1. pc = 6 /\ Go /\ conf' = conf /\ partial' = partial
  BY Places DEF AddSelf, SetName, Chain
<1>2. PICK added \in SUBSET {Self} : set' = [set EXCEPT !["mac"] = Members("mac") \cup added]
  BY DEF AddSelf
<1>3. Members("mac") \cup added # None
  <2>1. Members("mac") \cup added \subseteq Mac
    BY TypeParts, MembersType, NameAssumption
  <2>. QED
    BY <2>1, NotNone
<1>4. set'["mac"] = Members("mac") \cup added /\ set'["ip"] = set["ip"]
  BY <1>2 DEF TypeOK, SetName
<1>. QED
  BY <1>1, <1>3, <1>4 DEF MacWork, IPWork, ConfWork

LEMMA ConfCommands ==
    ASSUME TypeOK, Clear \/ FillConf \/ Reload \/ Masquerade
    PROVE  pc > 0 /\ Go /\ MacWork /\ IPWork /\ ConfWork
<1>1. /\ Doing("clear", "conf") => pc = 12
      /\ Doing("fill", "conf") => pc = 14
      /\ Doing("reload", "conf") => pc = 15
      /\ Doing("snat", "http") => pc = 19
  BY Places DEF SetName, Chain
<1>2. UNCHANGED <<set, partial>> /\ Go
  BY DEF Clear, FillConf, Reload, Masquerade
<1>3. \/ pc = 12 /\ conf' = {}
      \/ /\ pc = 14 /\ Listed("conf") # Broken
         /\ conf' = conf \cup Domains(Listed("conf"))
      \/ pc \in {15, 19} /\ conf' = conf
  BY <1>1 DEF Clear, FillConf, Reload, Masquerade
<1>. QED
  BY <1>2, <1>3 DEF MacWork, IPWork, ConfWork

\* A command of a chain leaves the sets and dnsmasq's rules alone; an append that
\* does not complete the chain leaves the script where it is.
LEMMA ChainCommands ==
    ASSUME TypeOK, NEW c \in Chain, Hook(c) \/ Empty(c) \/ AppendRule(c)
    PROVE  /\ UNCHANGED <<set, conf, partial>>
           /\ \/ pc > 0 /\ Go /\ MacWork /\ IPWork /\ ConfWork
              \/ AppendRule(c) /\ UNCHANGED <<env, pc, ended, built, snat>>
<1>1. pc > 15
  <2>1. "mac" \in SetName
    BY DEF SetName
  <2>2. Doing("hook", c) \/ Doing("empty", c) \/ Doing("append", c)
    BY DEF Hook, Empty, AppendRule
  <2>. QED
    BY <2>1, <2>2, Places
<1>2. UNCHANGED <<set, conf, partial>>
  BY DEF Hook, Empty, AppendRule
<1>3. pc > 0 /\ MacWork /\ IPWork /\ ConfWork
  BY <1>1, <1>2 DEF MacWork, IPWork, ConfWork, TypeOK
<1>4. Go \/ (AppendRule(c) /\ UNCHANGED <<env, pc, ended, built, snat>>)
  BY DEF Hook, Empty, AppendRule
<1>. QED
  BY <1>2, <1>3, <1>4

\* What a command does to the chains and the portals LoginReachable is about.
ChainWork ==
    /\ pc \notin {17, 18} => built'["http"] = built["http"]
    /\ pc \notin {24, 25} => built'["fwd"] = built["fwd"]
    /\ pc = 18 => built'["http"] = env.portal
    /\ pc = 25 => built'["fwd"] = env.portal
    /\ snat \subseteq snat'
    /\ pc = 19 => env.portal \in snat'

LEMMA ChainsStep ==
    ASSUME TypeOK, ChainsFollow, pc > 0, Go, ChainWork
    PROVE  ChainsFollow'
<1>1. /\ Past(18)' => Past(18) \/ pc = 18
      /\ Past(19)' => Past(19) \/ pc = 19
      /\ Past(25)' => Past(25) \/ pc = 25
      /\ env' = env
  BY GoPast
<1>2. /\ Past(18) => pc > 18
      /\ Past(19) => pc > 19
      /\ ~Past(25)
  BY ScriptLength DEF Past, TypeOK
<1>3. Past(18)' => built'["http"] = env.portal
  BY <1>1, <1>2 DEF ChainsFollow, ChainWork, TypeOK
<1>4. Past(19)' => env.portal \in snat'
  BY <1>1, <1>2 DEF ChainsFollow, ChainWork, TypeOK
<1>5. Past(25)' => built'["fwd"] = env.portal
  BY <1>1, <1>2 DEF ChainWork
<1>. QED
  BY <1>1, <1>3, <1>4, <1>5 DEF ChainsFollow

LEMMA SetChainWork ==
    ASSUME TypeOK, NEW s \in SetName,
           \/ Ensure(s) \/ Flush(s) \/ Fill(s)
           \/ AddSelf \/ Clear \/ FillConf \/ Reload \/ Masquerade
    PROVE  pc > 0 /\ Go /\ ChainWork
<1>1. "http" \in Chain
  BY DEF Chain
<1>2. \/ Doing("ensure", s) \/ Doing("flush", s) \/ Doing("reflush", s) \/ Doing("fill", s)
      \/ Doing("self", "mac") \/ Doing("clear", "conf") \/ Doing("fill", "conf")
      \/ Doing("reload", "conf") \/ Doing("snat", "http")
  BY DEF Ensure, Flush, Fill, AddSelf, Clear, FillConf, Reload, Masquerade
<1>3. pc < 20 /\ pc \notin {17, 18}
  <2>1. pc \in Nat
    BY ScriptLength DEF TypeOK
  <2>. QED
    BY <1>1, <1>2, <2>1, Places
<1>4. pc > 0 /\ Go /\ built' = built
  BY <1>2 DEF Ensure, Flush, Fill, AddSelf, Clear, FillConf, Reload, Masquerade, Doing
<1>5. snat' = snat \/ Masquerade
  BY DEF Ensure, Flush, Fill, AddSelf, Clear, FillConf, Reload
<1>6. pc = 19 => Masquerade
  <2>1. ASSUME pc = 19
        PROVE  /\ ~Doing("self", "mac") /\ ~Doing("clear", "conf")
               /\ ~Doing("fill", "conf") /\ ~Doing("reload", "conf")
               /\ ~Doing("ensure", s) /\ ~Doing("flush", s) /\ ~Doing("reflush", s)
               /\ ~Doing("fill", s)
    BY <1>1, <2>1, Places
  <2>. QED
    BY <2>1 DEF Ensure, Flush, Fill, AddSelf, Clear, FillConf, Reload
<1>7. snat \subseteq snat' /\ (pc = 19 => env.portal \in snat')
  BY <1>5, <1>6 DEF Masquerade
<1>. QED
  BY <1>3, <1>4, <1>7 DEF ChainWork

LEMMA ChainChainWork ==
    ASSUME TypeOK, NEW c \in Chain, Hook(c) \/ Empty(c) \/ AppendRule(c)
    PROVE  \/ pc > 0 /\ Go /\ ChainWork
           \/ UNCHANGED <<env, pc, ended, built, snat>>
<1>1. "mac" \in SetName
  BY DEF SetName
<1>2. built \in [Chain -> Portal \cup {None}] /\ "http" \in Chain /\ "fwd" \in Chain
  BY DEF TypeOK, Chain
<1>3. CASE Hook(c)
  <2>1. pc \in {16, 20, 23}
    BY <1>1, <1>3, Places DEF Hook
  <2>. QED
    BY <1>3, <2>1 DEF Hook, ChainWork
<1>4. CASE Empty(c)
  <2>1. (pc = 17 /\ c = "http") \/ (pc = 21 /\ c = "dns") \/ (pc = 24 /\ c = "fwd")
    BY <1>1, <1>4, Places DEF Empty
  <2>2. Go /\ snat' = snat /\ built' = [built EXCEPT ![c] = None]
    BY <1>4 DEF Empty
  <2>. QED
    BY <1>2, <2>1, <2>2 DEF ChainWork
<1>5. CASE AppendRule(c)
  <2>1. (pc = 18 /\ c = "http") \/ (pc = 22 /\ c = "dns") \/ (pc = 25 /\ c = "fwd")
    BY <1>1, <1>5, Places DEF AppendRule
  <2>2. /\ snat' = snat
        /\ \/ UNCHANGED <<env, pc, ended, built, snat>>
           \/ Go /\ built' = [built EXCEPT ![c] = env.portal]
    BY <1>5 DEF AppendRule
  <2>. QED
    BY <1>2, <2>1, <2>2 DEF ChainWork
<1>. QED
  BY <1>3, <1>4, <1>5

-----------------------------------------------------------------------------
Follows == MacFollows /\ IPFollows /\ ConfFollows

LEMMA NotPast ==
    ASSUME pc' \in {0, 1}, pc' = 0 => ended' # "done"
    PROVE  \A n \in 1..25 : ~Past(n)'
BY DEF Past

LEMMA CommandFollows ==
    ASSUME TypeOK, Follows, Command
    PROVE  Follows'
<1>1. ASSUME pc > 0, Go, MacWork, IPWork, ConfWork
      PROVE  Follows'
  BY <1>1, MacStep, IPStep, ConfStep DEF Follows
<1>2. ASSUME NEW s \in SetName, Ensure(s) \/ Flush(s) \/ Fill(s)
      PROVE  Follows'
  BY <1>1, <1>2, EnsureWork, FlushWork, FillWork DEF Follows
<1>3. CASE AddSelf \/ Clear \/ FillConf \/ Reload \/ Masquerade
  BY <1>1, <1>3, AddSelfWork, ConfCommands
<1>4. CASE Reject
  <2>1. pc' = 0 /\ ended' = "stopped"
    BY <1>4 DEF Reject, End
  <2>2. \A n \in 1..25 : ~Past(n)'
    BY <2>1, NotPast
  <2>. QED
    BY <2>1, <2>2 DEF Follows, MacFollows, IPFollows, ConfFollows
<1>5. ASSUME NEW c \in Chain, Hook(c) \/ Empty(c) \/ AppendRule(c)
      PROVE  Follows'
  <2>1. CASE pc > 0 /\ Go /\ MacWork /\ IPWork /\ ConfWork
    BY <1>1, <2>1
  <2>2. CASE UNCHANGED <<env, pc, ended, built, snat>>
    <3>1. UNCHANGED <<set, conf, partial>>
      BY <1>5, ChainCommands
    <3>. QED
      BY <2>2, <3>1 DEF Follows, MacFollows, IPFollows, ConfFollows, Past, Listed
  <2>. QED
    BY <1>5, <2>1, <2>2, ChainCommands
<1>. QED
  BY <1>2, <1>3, <1>4, <1>5 DEF Command

LEMMA EnvironmentFollows ==
    ASSUME TypeOK, Follows, Environment
    PROVE  Follows'
<1>1. UNCHANGED <<env, pc, conf, ended, partial>>
  BY DEF Environment, Admit, Expel, SyncSelf, Resolve, Changes
<1>2. /\ set'["ip"] = set["ip"]
      /\ \/ set'["mac"] = set["mac"]
         \/ /\ set["mac"] # None /\ set'["mac"] # None
            /\ set'["mac"] = set["mac"] \cup {Self}
  <2>1. "mac" \in SetName /\ "ip" \in SetName /\ set \in [SetName -> {None} \cup SUBSET (Mac \cup Host)]
    BY DEF SetName, TypeOK
  <2>2. ASSUME NEW s \in SetName, NEW v, Changes(s, v), s \notin {"mac", "ip"}
        PROVE  set'["ip"] = set["ip"] /\ set'["mac"] = set["mac"]
    BY <2>1, <2>2 DEF Changes
  <2>3. ASSUME NEW m \in Mac \ {Self}, NEW s \in AllowSet, Admit(m, s) \/ Expel(m, s)
        PROVE  set'["ip"] = set["ip"] /\ set'["mac"] = set["mac"]
    <3>1. s \in SetName /\ s \notin {"mac", "ip"}
      BY DEF SetName, AllowSet
    <3>. QED
      BY <2>2, <2>3, <3>1 DEF Admit, Expel
  <2>4. ASSUME NEW h \in Host, Resolve(h)
        PROVE  set'["ip"] = set["ip"] /\ set'["mac"] = set["mac"]
    <3>1. "dns" \in SetName
      BY DEF SetName
    <3>. QED
      BY <2>2, <2>4, <3>1 DEF Resolve
  <2>5. CASE SyncSelf
    <3>1. Members("mac") \cup {Self} \subseteq Mac
      BY TypeParts, MembersType, NameAssumption
    <3>2. Members("mac") \cup {Self} # None
      BY <3>1, NotNone
    <3>3. set["mac"] # None /\ set' = [set EXCEPT !["mac"] = Members("mac") \cup {Self}]
      BY <2>5 DEF SyncSelf, Changes
    <3>. QED
      BY <2>1, <3>2, <3>3 DEF Members
  <2>. QED
    BY <2>3, <2>4, <2>5 DEF Environment
<1>3. /\ \A n : Past(n)' <=> Past(n)
      /\ Listed("mac")' = Listed("mac") /\ Listed("ip")' = Listed("ip")
      /\ Listed("conf")' = Listed("conf")
  BY <1>1 DEF Past, Listed
<1>4. MacFollows'
  <2>1. Past(3)' => set'["mac"] # None
    BY <1>2, <1>3 DEF Follows, MacFollows
  <2>2. ASSUME pc' = 8, ~partial'
        PROVE  set'["mac"] \subseteq {Self}
    BY <1>1, <1>2, <2>2 DEF Follows, MacFollows
  <2>3. ASSUME Past(8)', ~partial'
        PROVE  set'["mac"] \ {Self} = Listed("mac")' \ {Self}
    <3>1. set["mac"] \ {Self} = Listed("mac") \ {Self}
      BY <1>1, <1>3, <2>3 DEF Follows, MacFollows
    <3>. QED
      BY <1>2, <1>3, <3>1
  <2>. QED
    BY <2>1, <2>2, <2>3 DEF MacFollows
<1>5. IPFollows' /\ ConfFollows'
  BY <1>1, <1>2, <1>3 DEF Follows, IPFollows, ConfFollows
<1>. QED
  BY <1>4, <1>5 DEF Follows

LEMMA ChainsFollowStep ==
    ASSUME TypeOK, ChainsFollow, Command \/ Environment
    PROVE  ChainsFollow'
<1>1. ASSUME NEW s \in SetName,
             \/ Ensure(s) \/ Flush(s) \/ Fill(s)
             \/ AddSelf \/ Clear \/ FillConf \/ Reload \/ Masquerade
      PROVE  ChainsFollow'
  BY <1>1, SetChainWork, ChainsStep
<1>2. CASE AddSelf \/ Clear \/ FillConf \/ Reload \/ Masquerade
  <2>1. "mac" \in SetName
    BY DEF SetName
  <2>. QED
    BY <1>1, <1>2, <2>1
<1>3. CASE Reject
  <2>1. pc' = 0 /\ ended' = "stopped"
    BY <1>3 DEF Reject, End
  <2>. QED
    BY <2>1, NotPast DEF ChainsFollow
<1>4. ASSUME UNCHANGED <<env, pc, ended, built, snat>>
      PROVE  ChainsFollow'
  BY <1>4 DEF ChainsFollow, Past
<1>5. ASSUME NEW c \in Chain, Hook(c) \/ Empty(c) \/ AppendRule(c)
      PROVE  ChainsFollow'
  BY <1>4, <1>5, ChainChainWork, ChainsStep
<1>6. CASE Environment
  <2>1. UNCHANGED <<env, pc, ended, built, snat>>
    BY <1>6 DEF Environment, Admit, Expel, SyncSelf, Resolve, Changes
  <2>. QED
    BY <1>4, <2>1
<1>. QED
  BY <1>1, <1>2, <1>3, <1>5, <1>6 DEF Command

LEMMA EndFollows ==
    ASSUME Follows, ChainsFollow, \/ \E r : Start(r)
                                  \/ End
                                  \/ UNCHANGED vars
    PROVE  Follows' /\ ChainsFollow'
<1>1. CASE UNCHANGED vars
  BY <1>1 DEF vars, Follows, MacFollows, IPFollows, ConfFollows, ChainsFollow, Past, Listed
<1>2. CASE (\E r : Start(r)) \/ End
  <2>1. pc' \in {0, 1} /\ (pc' = 0 => ended' # "done")
    BY <1>2 DEF Start, End
  <2>2. \A n \in 1..25 : ~Past(n)'
    BY <2>1, NotPast
  <2>. QED
    BY <2>1, <2>2 DEF Follows, MacFollows, IPFollows, ConfFollows, ChainsFollow
<1>. QED
  BY <1>1, <1>2

LEMMA NextFollows ==
    ASSUME IInv, Follows, ChainsFollow, [Next]_vars
    PROVE  Follows' /\ ChainsFollow'
<1>1. TypeOK
  BY DEF IInv
<1>2. CASE Command \/ Environment
  BY <1>1, <1>2, CommandFollows, EnvironmentFollows, ChainsFollowStep
<1>3. CASE Stop \/ (\E r \in Runtime \cup {Default} : Start(r)) \/ UNCHANGED vars
  BY <1>3, EndFollows DEF Stop
<1>. QED
  BY <1>2, <1>3 DEF Next

LEMMA InitFollows == Init => Follows /\ ChainsFollow
<1>. SUFFICES ASSUME Init PROVE Follows /\ ChainsFollow
  OBVIOUS
<1>1. pc = 0 /\ ended = "none"
  BY DEF Init
<1>2. \A n \in 1..25 : ~Past(n)
  BY <1>1 DEF Past
<1>. QED
  BY <1>1, <1>2 DEF Follows, MacFollows, IPFollows, ConfFollows, ChainsFollow

\* What the commands of a run have done stays done until the next run.
THEOREM EveryCommandFollows == Spec => [](IInv /\ Follows /\ ChainsFollow)
<1>1. Init => IInv /\ Follows /\ ChainsFollow
  BY InitIInv, InitFollows
<1>2. IInv /\ Follows /\ ChainsFollow /\ [Next]_vars => (IInv /\ Follows /\ ChainsFollow)'
  BY NextIInv, NextFollows
<1>. QED
  BY <1>1, <1>2, PTL DEF Spec

\* After a run of portal-fw.sh that went to its end, the bypass sets are what the
\* runtime says, but for the router, unless an ipset command failed silently.
THEOREM RunsReconcile == Spec => []Reconciled
<1>1. Follows => Reconciled
  BY DEF Follows, MacFollows, IPFollows, Past, Reconciled
<1>. QED
  BY <1>1, EveryCommandFollows, PTL

LEMMA Lengths ==
    \A k \in Nat : /\ k > 0 => k = 1 \/ k = 2 \/ k > 2
                   /\ k = 2 \/ k > 2 => k > 1
                   /\ k > 2 => k - 1 > 1
OBVIOUS

\* What normalize_domain makes of a name.
LEMMA NormalizedCases ==
    ASSUME NEW d \in Seq(STRING) \ {<<>>}
    PROVE  /\ Len(d) = 1 => Normalized(d) = d
           /\ Len(d) > 1 /\ d[2] # "" => Normalized(d) = Tail(d)
           /\ Len(d) = 2 => Normalized(d) = Tail(d)
           /\ Len(d) > 2 /\ d[2] = "" => Normalized(d) = Tail(Tail(d))
<1>1. d \in Seq(STRING) /\ Len(d) \in Nat /\ Len(d) > 0
  OBVIOUS
<1>2. ASSUME Len(d) = 1
      PROVE  Normalized(d) = d
  <2>1. Cut(d) = d
    BY <1>2 DEF Cut
  <2>. QED
    BY <2>1 DEF Normalized
<1>3. ASSUME Len(d) > 1
      PROVE  /\ Cut(d) = Tail(d)
             /\ Normalized(d) = IF d[2] = "" THEN Cut(Tail(d)) ELSE Tail(d)
  <2>1. Cut(d) = Tail(d) /\ Tail(d)[1] = d[2]
    BY <1>1, <1>3 DEF Cut
  <2>. QED
    BY <2>1 DEF Normalized
<1>4. ASSUME Len(d) > 1
      PROVE  Cut(Tail(d)) = IF Len(d) > 2 THEN Tail(Tail(d)) ELSE Tail(d)
  <2>1. Len(Tail(d)) = Len(d) - 1
    BY <1>1, <1>4
  <2>2. Len(Tail(d)) > 1 <=> Len(d) > 2
    BY <1>1, <2>1
  <2>. QED
    BY <2>2 DEF Cut
<1>5. ASSUME Len(d) > 1, d[2] # ""
      PROVE  Normalized(d) = Tail(d)
  BY <1>3, <1>5
<1>6. ASSUME Len(d) = 2
      PROVE  Normalized(d) = Tail(d)
  <2>1. Len(d) > 1 /\ ~(Len(d) > 2)
    BY <1>6
  <2>. QED
    BY <1>3, <1>4, <2>1
<1>7. ASSUME Len(d) > 2, d[2] = ""
      PROVE  Normalized(d) = Tail(Tail(d))
  <2>1. Len(d) > 1
    BY <1>1, <1>7, Lengths, Zenon
  <2>. QED
    BY <1>3, <1>4, <1>7, <2>1
<1>. QED
  BY <1>2, <1>5, <1>6, <1>7

\* It is the end of the name.
LEMMA NormalizedSuffix ==
    ASSUME NEW d \in Seq(STRING) \ {<<>>}
    PROVE  Suffix(Normalized(d), d)
<1>1. d \in Seq(STRING) /\ Len(d) \in Nat /\ Len(d) > 0
  OBVIOUS
<1>2. CASE Len(d) = 1
  <2>1. d = SubSeq(d, 1, Len(d)) /\ 1 \in 1..Len(d)
    BY <1>1
  <2>. QED
    BY <1>2, <2>1, NormalizedCases DEF Suffix
<1>3. CASE Len(d) > 1 /\ Normalized(d) = Tail(d)
  <2>1. Tail(d) = SubSeq(d, 2, Len(d)) /\ 2 \in 1..Len(d)
    BY <1>1, <1>3
  <2>. QED
    BY <1>3, <2>1 DEF Suffix
<1>4. CASE Len(d) > 2 /\ Normalized(d) = Tail(Tail(d))
  <2>1. Tail(Tail(d)) = SubSeq(d, 3, Len(d)) /\ 3 \in 1..Len(d)
    BY <1>1, <1>4
  <2>. QED
    BY <1>4, <2>1 DEF Suffix
<1>5. Len(d) = 1 \/ Len(d) = 2 \/ Len(d) > 2
  BY <1>1, Lengths, Zenon
<1>6. Len(d) = 2 \/ Len(d) > 2 => Len(d) > 1
  BY <1>1, Lengths, Zenon
<1>7. Len(d) > 2 => Normalized(d) = Tail(d) \/ Normalized(d) = Tail(Tail(d))
  BY <1>6, NormalizedCases, Zenon
<1>8. Len(d) = 2 => Normalized(d) = Tail(d)
  BY NormalizedCases, Zenon
<1>. QED
  BY <1>2, <1>3, <1>4, <1>5, <1>6, <1>7, <1>8, Zenon

\* After such a run every rule in dnsmasq's file covers a domain of this runtime, and
\* every wildcard of the runtime has its rule (normalize_domain).
THEOREM RunsReconcileDomains == Spec => []DomainsReconciled
<1>1. IInv /\ Follows => DomainsReconciled
  <2>. SUFFICES ASSUME IInv, Follows, pc = 0, ended = "done"
       PROVE  /\ \A n \in conf : \E d \in Listed("conf") : Suffix(n, d)
              /\ \A d \in Listed("conf") :
                    d[1] = "*" /\ Len(d) > 2 /\ d[2] # "" => Tail(d) \in conf
    BY DEF DomainsReconciled
  <2>1. conf = Domains(Listed("conf")) /\ Listed("conf") # Broken
    BY DEF Follows, ConfFollows, Past
  <2>2. ASSUME NEW d \in Listed("conf")
        PROVE  d \in Seq(STRING) \ {<<>>}
    BY <2>1, <2>2, DomainNames DEF IInv
  <2>. QED
    <3>1. \A n \in conf : \E d \in Listed("conf") : Suffix(n, d)
      BY <2>1, <2>2, NormalizedSuffix DEF Domains
    <3>2. ASSUME NEW d \in Listed("conf"), d[1] = "*", Len(d) > 2, d[2] # ""
          PROVE  Tail(d) \in conf
      <4>1. Len(d) > 1 /\ Len(Tail(d)) > 1
        <5>1. d \in Seq(STRING) \ {<<>>}
          BY <2>2, Zenon
        <5>2. Len(d) \in Nat /\ Len(Tail(d)) = Len(d) - 1
          BY <5>1
        <5>. QED
          BY <3>2, <5>2, Lengths
      <4>2. Normalized(d) = Tail(d)
        BY <2>2, <3>2, <4>1, NormalizedCases
      <4>. QED
        BY <2>1, <4>1, <4>2 DEF Domains
    <3>. QED
      BY <3>1, <3>2
<1>. QED
  BY <1>1, EveryCommandFollows, Inductive, PTL

\* A complete HTTP chain redirects what is not exempt to its portal.
LEMMA RedirectedTo ==
    ASSUME NEW p \in Portal, NEW q \in Packet, q.port = "http", ~Exempt(q)
    PROVE  Leads(Rules("http", p), q, {p})
<1>. DEFINE R == Rules("http", p)
<1>1. "http" \in Chain
  BY DEF Chain
<1>2. \A j \in 1..4 : ~Hit(R[j], q)
  BY <1>1, ExemptHits
<1>3. Len(R) = 6 /\ R[5] = Rule("port", "http", p)
  BY <1>1, RulesTail
<1>4. 5 \in DOMAIN R
  BY <1>1, <1>3, RulesSeq
<1>5. Hit(R[5], q) /\ R[5].to \in {p}
  BY <1>3 DEF Hit, Rule
<1>. QED
  BY <1>2, <1>4, <1>5 DEF Leads

LEMMA ReachableAtTheEnd ==
    ASSUME IInv, ChainsFollow
    PROVE  LoginReachable
<1>. SUFFICES ASSUME pc = 0, ended = "done", NEW q \in Packet, q.port = "http", ~Exempt(q)
              PROVE  \E p \in snat :
                        /\ "http" \in hooked /\ Leads(chain["http"], q, {p})
                        /\ ~Stopped("fwd", [q EXCEPT !.dst = p, !.port = "other"])
  BY DEF LoginReachable
<1>. DEFINE p == env.portal
            reply == [q EXCEPT !.dst = p, !.port = "other"]
<1>1. p \in Portal /\ p \in Host /\ p # None
  BY RuntimeAssumption, NameAssumption DEF IInv, TypeOK
<1>2. built["http"] = p /\ built["fwd"] = p /\ p \in snat
  BY DEF ChainsFollow, Past
<1>3. "http" \in Chain /\ "fwd" \in Chain
  BY DEF Chain
<1>4. /\ "http" \in hooked /\ chain["http"] = Rules("http", p)
      /\ "fwd" \in hooked /\ chain["fwd"] = Rules("fwd", p)
  BY <1>1, <1>2, <1>3 DEF IInv
<1>5. Leads(chain["http"], q, {p})
  BY <1>1, <1>4, RedirectedTo
<1>6. reply \in Packet /\ reply.dst = p
  BY <1>1 DEF Packet, Port
<1>. HIDE DEF reply
<1>7. ~Stopped("fwd", reply)
  <2>1. ~Leads(Rules("fwd", p), reply, Verdict)
    BY <1>1, <1>3, <1>6, FullChain
  <2>. QED
    BY <1>4, <2>1 DEF Stopped
<1>. QED
  BY <1>2, <1>4, <1>5, <1>7 DEF reply

\* After a run that went to its end, whatever happened in earlier ones, the HTTP of a
\* client that is not exempt is redirected to a portal it can reach.
THEOREM LoginStaysReachable == Spec => []LoginReachable
<1>1. IInv /\ ChainsFollow => LoginReachable
  BY ReachableAtTheEnd
<1>. QED
  BY <1>1, EveryCommandFollows, PTL

=============================================================================
