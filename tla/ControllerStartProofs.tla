------------------------- MODULE ControllerStartProofs -------------------------
(***************************************************************************)
(* Proofs about RoleDecision for every list of rules, and about             *)
(* ControllerStart for any number of processes, keys and changes.           *)
(***************************************************************************)
EXTENDS ControllerStart, FiniteSetTheorems, WellFoundedInduction, TLAPS

\* Lists of rules with comparable priorities and names.
IsRules(rules) ==
    /\ rules \in Seq({rules[i] : i \in DOMAIN rules})
    /\ \A i \in DOMAIN rules : rules[i].priority \in Int /\ rules[i].name \in Int

-----------------------------------------------------------------------------
(* The stable sort.                                                         *)

\* Precedes is a strict total order of the places in the file.
LEMMA PrecedesOrder ==
    ASSUME NEW rules, IsRules(rules),
           NEW i \in DOMAIN rules, NEW j \in DOMAIN rules, NEW k \in DOMAIN rules
    PROVE  /\ ~Precedes(rules, i, i)
           /\ Precedes(rules, i, j) /\ Precedes(rules, j, k) => Precedes(rules, i, k)
           /\ i # j => Precedes(rules, i, j) \/ Precedes(rules, j, i)
<1>1. i \in Int /\ j \in Int /\ k \in Int
  <2>1. Len(rules) \in Nat /\ DOMAIN rules = 1..Len(rules)
    BY DEF IsRules
  <2>. QED
    BY <2>1
<1>2. /\ rules[i].priority \in Int /\ rules[j].priority \in Int /\ rules[k].priority \in Int
      /\ rules[i].name \in Int /\ rules[j].name \in Int /\ rules[k].name \in Int
  BY DEF IsRules
<1>. QED
  BY <1>1, <1>2 DEF Precedes, Before

LEMMA PlaceOrder ==
    ASSUME NEW rules, IsRules(rules)
    PROVE  /\ IsFiniteSet(DOMAIN rules)
           /\ Cardinality(DOMAIN rules) = Len(rules)
           /\ \A i \in DOMAIN rules : Place(rules, i) \in 1..Len(rules)
           /\ \A i, j \in DOMAIN rules : Precedes(rules, i, j) => Place(rules, i) < Place(rules, j)
<1>. DEFINE D == DOMAIN rules
            Behind(i) == {j \in D : Precedes(rules, j, i)}
<1>1. Len(rules) \in Nat /\ D = 1..Len(rules)
  BY DEF IsRules
<1>2. IsFiniteSet(D) /\ Cardinality(D) = Len(rules)
  <2>. DEFINE n == Len(rules)
  <2>1. n \in Int /\ 1 \in Int
    BY <1>1
  <2>. HIDE DEF n
  <2>2. IsFiniteSet(1..n) /\ Cardinality(1..n) = IF 1 > n THEN 0 ELSE n - 1 + 1
    BY <2>1, FS_Interval
  <2>. QED
    BY <1>1, <2>1, <2>2 DEF n
<1>3. ASSUME NEW i \in D
      PROVE  /\ IsFiniteSet(Behind(i)) /\ Cardinality(Behind(i)) \in Nat
             /\ Cardinality(Behind(i)) < Len(rules)
  <2>1. Behind(i) \in SUBSET (D \ {i})
    BY PrecedesOrder
  <2>2. IsFiniteSet(D \ {i}) /\ Cardinality(D \ {i}) = Len(rules) - 1
    BY <1>2, FS_RemoveElement
  <2>3. IsFiniteSet(Behind(i)) /\ Cardinality(Behind(i)) <= Cardinality(D \ {i})
    BY <2>1, <2>2, FS_Subset
  <2>4. Cardinality(Behind(i)) \in Nat
    BY <2>3, FS_CardinalityType
  <2>. QED
    BY <1>1, <2>2, <2>3, <2>4
<1>4. \A i \in D : Place(rules, i) \in 1..Len(rules)
  BY <1>1, <1>3 DEF Place
<1>5. ASSUME NEW i \in D, NEW j \in D, Precedes(rules, i, j)
      PROVE  Place(rules, i) < Place(rules, j)
  <2>1. Behind(i) \in SUBSET Behind(j)
    BY <1>5, PrecedesOrder
  <2>2. i \in Behind(j) /\ i \notin Behind(i)
    BY <1>5, PrecedesOrder
  <2>3. Cardinality(Behind(i)) <= Cardinality(Behind(j)) /\ Cardinality(Behind(i)) # Cardinality(Behind(j))
    BY <1>3, <2>1, <2>2, FS_Subset
  <2>. QED
    BY <1>3, <2>3 DEF Place
<1>. QED
  BY <1>2, <1>4, <1>5

\* Every place is taken, by one rule.
LEMMA PlacesTaken ==
    ASSUME NEW rules, IsRules(rules)
    PROVE  /\ \A i, j \in DOMAIN rules : Place(rules, i) = Place(rules, j) => i = j
           /\ \A n \in DOMAIN rules : \E i \in DOMAIN rules : Place(rules, i) = n
<1>. DEFINE D == DOMAIN rules
            f == [i \in D |-> Place(rules, i)]
<1>1. ASSUME NEW i \in D, NEW j \in D, Place(rules, i) = Place(rules, j)
      PROVE  i = j
  <2>1. Place(rules, i) \in Int /\ Place(rules, j) \in Int
    BY PlaceOrder DEF IsRules
  <2>2. ~Precedes(rules, i, j) /\ ~Precedes(rules, j, i)
    BY <1>1, <2>1, PlaceOrder
  <2>. QED
    BY <2>2, PrecedesOrder
<1>2. Len(rules) \in Nat /\ D = 1..Len(rules)
  BY DEF IsRules
<1>3. f \in Injection(D, D)
  <2>1. f \in [D -> D]
    BY <1>2, PlaceOrder
  <2>2. \A i, j \in D : f[i] = f[j] => i = j
    BY <1>1
  <2>. QED
    BY <2>1, <2>2 DEF Injection, IsInjective
<1>4. f \in Surjection(D, D)
  BY <1>3, PlaceOrder, FS_Injection
<1>5. \A n \in D : \E i \in D : f[i] = n
  BY <1>4 DEF Surjection
<1>. QED
  BY <1>1, <1>5

At(rules, n) == CHOOSE i \in DOMAIN rules : Place(rules, i) = n

LEMMA SortedFacts ==
    ASSUME NEW rules, IsRules(rules)
    PROVE  /\ DOMAIN Sorted(rules) = DOMAIN rules
           /\ Len(Sorted(rules)) = Len(rules)
           /\ \A i \in DOMAIN rules : Sorted(rules)[Place(rules, i)] = rules[i]
           /\ \A n \in DOMAIN rules : /\ At(rules, n) \in DOMAIN rules
                                      /\ Place(rules, At(rules, n)) = n
                                      /\ Sorted(rules)[n] = rules[At(rules, n)]
<1>1. Len(rules) \in Nat /\ DOMAIN rules = 1..Len(rules)
  BY DEF IsRules
<1>2. Sorted(rules) = [n \in DOMAIN rules |-> rules[At(rules, n)]]
  BY DEF Sorted, At
<1>3. DOMAIN Sorted(rules) = 1..Len(rules)
  BY <1>1, <1>2
<1>4. Len(Sorted(rules)) = Len(rules)
  <2>1. Sorted(rules) \in Seq({At(rules, n) : n \in DOMAIN rules} \cup {rules[At(rules, n)] : n \in DOMAIN rules})
    BY <1>1, <1>2
  <2>. QED
    BY <1>1, <1>3, <2>1
<1>5. ASSUME NEW n \in DOMAIN rules
      PROVE  At(rules, n) \in DOMAIN rules /\ Place(rules, At(rules, n)) = n
  <2>1. \E i \in DOMAIN rules : Place(rules, i) = n
    BY PlacesTaken
  <2>. QED
    BY <2>1 DEF At
<1>6. ASSUME NEW i \in DOMAIN rules
      PROVE  Sorted(rules)[Place(rules, i)] = rules[i]
  <2>1. Place(rules, i) \in DOMAIN rules
    BY <1>1, PlaceOrder
  <2>2. At(rules, Place(rules, i)) = i
    BY <1>5, <2>1, PlacesTaken
  <2>. QED
    BY <1>2, <2>1, <2>2
<1>. QED
  BY <1>1, <1>2, <1>3, <1>4, <1>5, <1>6
-----------------------------------------------------------------------------
(* DecideRole.                                                              *)

LEMMA SmallestNumber ==
    ASSUME NEW S \in SUBSET Nat, S # {}
    PROVE  Min(S) \in S /\ \A n \in S : Min(S) <= n
<1>1. PICK m \in S : \A n \in S : ~ (<<n, m>> \in OpToRel(<, Nat))
  BY NatLessThanWellFounded, WFMin
<1>2. \A n \in S : m <= n
  <2>1. ASSUME NEW n \in S, n < m
        PROVE  FALSE
    <3>1. <<n, m>> \in OpToRel(<, Nat)
      BY <2>1 DEF OpToRel
    <3>. QED
      BY <1>1, <3>1
  <2>. QED
    BY <2>1
<1>. QED
  BY <1>2 DEF Min

\* The first rule of the sorted list that matches is one that no matching rule of
\* the file comes before.
LEMMA DecidesByOrder ==
    ASSUME NEW rules, IsRules(rules), NEW ctx
    PROVE  IsDecision(DecideRole(rules, ctx), rules, ctx)
<1>. DEFINE s == Sorted(rules)
            I == {n \in 1..Len(s) : Matches(s[n], ctx)}
            k == IF I # {} THEN Min(I) ELSE 0
<1>1. DecideRole(rules, ctx) = IF k = 0 THEN [role |-> Default, rule |-> NoRule]
                               ELSE [role |-> Assigned(s[k]), rule |-> s[k]]
  BY DEF DecideRole, SelectInSeq
<1>2. Len(rules) \in Nat /\ DOMAIN rules = 1..Len(rules)
  BY DEF IsRules
<1>3. \A i \in DOMAIN rules : Matches(rules[i], ctx) => Place(rules, i) \in I
  BY <1>2, SortedFacts, PlaceOrder
<1>4. CASE \A i \in DOMAIN rules : ~Matches(rules[i], ctx)
  <2>1. I = {}
    BY <1>2, <1>4, SortedFacts
  <2>. QED
    BY <1>1, <1>4, <2>1 DEF IsDecision
<1>5. CASE \E i \in DOMAIN rules : Matches(rules[i], ctx)
  <2>1. I \in SUBSET Nat /\ I # {}
    BY <1>2, <1>3, <1>5, SortedFacts
  <2>2. k \in I /\ \A n \in I : k <= n
    BY <2>1, SmallestNumber
  <2>. HIDE DEF k
  <2>3. k \in DOMAIN rules /\ k # 0 /\ Matches(s[k], ctx)
    <3>1. Len(s) = Len(rules)
      BY SortedFacts
    <3>. HIDE DEF s
    <3>. QED
      BY <1>2, <2>2, <3>1
  <2>. DEFINE i == At(rules, k)
  <2>4. i \in DOMAIN rules /\ Place(rules, i) = k /\ s[k] = rules[i]
    BY <2>3, SortedFacts
  <2>. HIDE DEF i, s
  <2>5. i \in Leading(rules, ctx)
    <3>1. ASSUME NEW j \in DOMAIN rules, Matches(rules[j], ctx)
          PROVE  \/ Before(rules[i], rules[j])
                 \/ ~Before(rules[j], rules[i]) /\ i <= j
      <4>1. Place(rules, i) <= Place(rules, j) /\ Place(rules, i) \in Int /\ Place(rules, j) \in Int
        BY <1>2, <1>3, <2>2, <2>4, <3>1, PlaceOrder DEF k, s
      <4>2. ~Precedes(rules, j, i)
        BY <2>4, <4>1, PlaceOrder
      <4>3. i = j \/ Precedes(rules, i, j)
        BY <2>4, <4>2, PrecedesOrder
      <4>4. ~Before(rules[i], rules[i]) /\ i \in Int /\ j \in Int
        <5>1. rules[i].priority \in Int /\ rules[i].name \in Int
          BY <2>4 DEF IsRules
        <5>. QED
          BY <1>2, <2>4, <5>1 DEF Before
      <4>. QED
        BY <4>3, <4>4 DEF Precedes
    <3>. QED
      BY <2>3, <2>4, <3>1 DEF Leading
  <2>6. DecideRole(rules, ctx) = [role |-> Assigned(rules[i]), rule |-> rules[i]]
    BY <1>1, <2>3, <2>4
  <2>. QED
    BY <1>5, <2>5, <2>6 DEF IsDecision
<1>. QED
  BY <1>4, <1>5

-----------------------------------------------------------------------------
(* Keys.                                                                    *)

\* What a process found in the file of a kid: a key of the environment is none.
FileOf(p, k) == IF proc[p].keys[k] = EnvKey THEN None ELSE proc[p].keys[k]

\* A process that started after the last change of a file has what is in it.
Loaded ==
    \A p \in Proc : Running(p) => \A k \in Kid :
        /\ proc[p].stamp[k] <= stamp[k]
        /\ proc[p].stamp[k] = stamp[k] => FileOf(p, k) = file[k]

\* Processes that started between the same changes of a file have the same of it.
SameFiles ==
    \A p, q \in Proc : Running(p) /\ Running(q) => \A k \in Kid :
        proc[p].stamp[k] = proc[q].stamp[k] => FileOf(p, k) = FileOf(q, k)

\* A message carries the key its signer found in the file, or the environment's.
SignedByFile ==
    message # None =>
        /\ message.signedBy \in Kid /\ message.kid \in {None, message.signedBy}
        /\ message.key # None
        /\ message.key # EnvKey =>
              /\ message.stamp <= stamp[message.signedBy]
              /\ message.stamp = stamp[message.signedBy] => file[message.signedBy] = message.key
              /\ \A p \in Proc : Running(p) /\ proc[p].stamp[message.signedBy] = message.stamp =>
                    FileOf(p, message.signedBy) = message.key

\* A message's stamp is a number.
Stamped == message # None => message.stamp \in Nat

Keys == Loaded /\ SameFiles /\ SignedByFile /\ Stamped

KInv ==
    /\ TypeOK
    /\ proc = [p \in Proc |-> proc[p]]
    /\ Keys
    /\ RefusalExplained
    /\ FirstRuleDecides

LEMMA InitKInv == Init => KInv
<1>. SUFFICES ASSUME Init PROVE KInv
  OBVIOUS
<1>1. \A p \in Proc : ~Running(p)
  BY DEF Init, Running
<1>2. FirstKid \in Kid
  BY KidAssumption
<1>3. TypeOK
  <2>1. file \in [Kid -> Nat \cup {None, Garbled}] /\ stamp \in [Kid -> Nat]
    BY DEF Init
  <2>2. changes \in 0..MaxChanges
    BY BoundAssumption DEF Init
  <2>. QED
    BY <1>1, <1>2, <2>1, <2>2 DEF Init, TypeOK
<1>4. Keys
  BY <1>1 DEF Init, Keys, Loaded, SameFiles, SignedByFile, Stamped
<1>5. RefusalExplained /\ FirstRuleDecides /\ proc = [p \in Proc |-> proc[p]]
  BY DEF Init, RefusalExplained, FirstRuleDecides
<1>. QED
  BY <1>3, <1>4, <1>5 DEF KInv

\* A file changes; nobody reads it.
LEMMA PutFileStep ==
    ASSUME KInv, NEW k \in Kid, NEW v \in Nat \cup {None, Garbled}, PutFile(k, v),
           UNCHANGED <<proc, message>>
    PROVE  /\ file' \in [Kid -> Nat \cup {None, Garbled}] /\ stamp' \in [Kid -> Nat]
           /\ Keys'
<1>1. /\ file \in [Kid -> Nat \cup {None, Garbled}] /\ stamp \in [Kid -> Nat]
      /\ \A p \in Proc : Running(p) => proc[p].stamp \in [Kid -> Nat]
  BY DEF KInv, TypeOK
<1>2. file' \in [Kid -> Nat \cup {None, Garbled}] /\ stamp' \in [Kid -> Nat]
  BY <1>1 DEF PutFile
<1>3. /\ stamp'[k] = stamp[k] + 1
      /\ \A j \in Kid : j # k => stamp'[j] = stamp[j] /\ file'[j] = file[j]
  BY <1>1 DEF PutFile
<1>4. /\ \A p : Running(p)' <=> Running(p)
      /\ \A p, j : FileOf(p, j)' = FileOf(p, j)
  BY DEF Running, FileOf
<1>5. Loaded'
  <2>1. ASSUME NEW p \in Proc, Running(p), NEW j \in Kid
        PROVE  /\ proc[p].stamp[j] <= stamp'[j]
               /\ proc[p].stamp[j] = stamp'[j] => FileOf(p, j) = file'[j]
    <3>1. /\ proc[p].stamp[j] \in Nat /\ stamp[j] \in Nat
          /\ proc[p].stamp[j] <= stamp[j]
          /\ proc[p].stamp[j] = stamp[j] => FileOf(p, j) = file[j]
      BY <1>1, <2>1 DEF KInv, Keys, Loaded
    <3>. QED
      BY <1>3, <3>1
  <2>. QED
    BY <1>4, <2>1 DEF Loaded
<1>6. SameFiles'
  BY <1>4 DEF KInv, Keys, SameFiles
<1>7. SignedByFile' /\ Stamped'
  <2>1. Stamped'
    BY DEF KInv, Keys, Stamped
  <2>2. ASSUME message # None
        PROVE  /\ message.signedBy \in Kid /\ message.kid \in {None, message.signedBy}
               /\ message.key # None
    BY <2>2 DEF KInv, Keys, SignedByFile
  <2>3. ASSUME message # None, message.key # EnvKey
        PROVE  /\ message.stamp <= stamp'[message.signedBy]
               /\ message.stamp = stamp'[message.signedBy] => file'[message.signedBy] = message.key
               /\ \A p \in Proc : Running(p) /\ proc[p].stamp[message.signedBy] = message.stamp =>
                     FileOf(p, message.signedBy) = message.key
    <3>. DEFINE j == message.signedBy
    <3>1. j \in Kid /\ message.stamp \in Nat /\ stamp[j] \in Nat
      BY <1>1, <2>3 DEF KInv, Keys, SignedByFile, Stamped
    <3>2. /\ message.stamp <= stamp[j]
          /\ message.stamp = stamp[j] => file[j] = message.key
          /\ \A p \in Proc : Running(p) /\ proc[p].stamp[j] = message.stamp => FileOf(p, j) = message.key
      BY <2>3 DEF KInv, Keys, SignedByFile
    <3>. QED
      BY <1>3, <3>1, <3>2
  <2>4. SignedByFile'
    BY <1>4, <2>2, <2>3 DEF SignedByFile
  <2>. QED
    BY <2>1, <2>4
<1>. QED
  BY <1>2, <1>5, <1>6, <1>7 DEF Keys

LEMMA FileActions ==
    ASSUME KInv, NEW k \in Kid, CreateSecret(k) \/ FillSecret(k) \/ RemoveSecret(k) \/ SpoilSecret(k)
    PROVE  KInv'
<1>1. PICK v \in Nat \cup {None, Garbled} : PutFile(k, v)
  BY DEF CreateSecret, FillSecret, RemoveSecret, SpoilSecret, KInv, TypeOK
<1>2. UNCHANGED <<current, config, proc, message, verdict, decision>>
  BY DEF CreateSecret, FillSecret, RemoveSecret, SpoilSecret
<1>3. /\ file' \in [Kid -> Nat \cup {None, Garbled}] /\ stamp' \in [Kid -> Nat]
      /\ Keys'
  BY <1>1, <1>2, PutFileStep
<1>4. script' \in Kid \cup {None} /\ made' \in Nat /\ changes' \in 0..MaxChanges
  BY BoundAssumption DEF CreateSecret, FillSecret, RemoveSecret, SpoilSecret, Change, KInv, TypeOK
<1>5. TypeOK'
  BY <1>2, <1>3, <1>4 DEF KInv, TypeOK, Running
<1>6. RefusalExplained' /\ FirstRuleDecides'
  BY <1>2 DEF KInv, RefusalExplained, FirstRuleDecides
<1>. QED
  BY <1>2, <1>3, <1>5, <1>6 DEF KInv

\* Steps that no process, message or file takes part in.
LEMMA OtherActions ==
    ASSUME KInv, \/ AbortSecret
                 \/ \E k \in Kid : SetKid(k)
                 \/ \E c \in Rules \cup {Invalid} : Edit(c)
                 \/ UNCHANGED vars
    PROVE  KInv'
<1>1. UNCHANGED <<file, made, proc, message, verdict, decision, stamp>>
  BY DEF AbortSecret, SetKid, Edit, vars
<1>2. /\ script' \in Kid \cup {None} /\ changes' \in 0..MaxChanges
      /\ current' \in Kid /\ config' \in Rules \cup {Invalid}
  BY BoundAssumption DEF AbortSecret, SetKid, Edit, vars, Change, KInv, TypeOK
<1>3. TypeOK'
  BY <1>1, <1>2 DEF KInv, TypeOK, Running
<1>4. Keys'
  BY <1>1 DEF KInv, Keys, Loaded, SameFiles, SignedByFile, Stamped, FileOf, Running
<1>5. RefusalExplained' /\ FirstRuleDecides'
  BY <1>1 DEF KInv, RefusalExplained, FirstRuleDecides
<1>. QED
  BY <1>1, <1>3, <1>4, <1>5 DEF KInv

LEMMA KeySetFacts ==
    ASSUME TypeOK, \A k \in Kid : file[k] # Garbled
    PROVE  /\ KeySet \in [Kid -> Key \cup {None}]
           /\ \A k \in Kid : (IF KeySet[k] = EnvKey THEN None ELSE KeySet[k]) = file[k]
<1>1. file \in [Kid -> Nat \cup {None, Garbled}]
  BY DEF TypeOK
<1>2. CASE \E k \in Kid : file[k] # None
  <2>1. KeySet = file
    BY <1>2 DEF KeySet
  <2>2. \A k \in Kid : file[k] # EnvKey
    BY <1>1, KeyAssumption
  <2>. QED
    BY <1>1, <2>1, <2>2 DEF Key
<1>3. CASE \A k \in Kid : file[k] = None
  <2>1. KeySet = [k \in Kid |-> IF k = current THEN EnvKey ELSE None]
    BY <1>3 DEF KeySet
  <2>. QED
    BY <1>3, <2>1 DEF Key
<1>. QED
  BY <1>2, <1>3

LEMMA StartStep ==
    ASSUME KInv, NEW p \in Proc, Start(p)
    PROVE  KInv'
<1>. DEFINE own == [keys |-> KeySet, kid |-> current, rules |-> config, stamp |-> stamp]
<1>1. UNCHANGED <<file, script, made, current, config, message, verdict, decision, changes, stamp>>
  BY DEF Start
<1>2. /\ proc'[p] = own
      /\ \A q \in Proc : q # p => proc'[q] = proc[q]
      /\ proc' = [q \in Proc |-> proc'[q]]
  BY DEF Start, KInv
<1>3. TypeOK /\ (\A k \in Kid : file[k] # Garbled) /\ KeySet[current] # None /\ config \in Rules /\ current \in Kid
      /\ stamp \in [Kid -> Nat]
  BY DEF Start, KInv, TypeOK
<1>4. /\ own.keys \in [Kid -> Key \cup {None}] /\ own.stamp = stamp
      /\ own.kid \in Kid /\ own.keys[own.kid] # None /\ own.rules \in Rules
      /\ \A k \in Kid : (IF own.keys[k] = EnvKey THEN None ELSE own.keys[k]) = file[k]
  BY <1>3, KeySetFacts
<1>. HIDE DEF own
<1>5. TypeOK'
  <2>1. ASSUME NEW q \in Proc, Running(q)'
        PROVE  /\ proc'[q].keys \in [Kid -> Key \cup {None}]
               /\ proc'[q].kid \in Kid /\ proc'[q].keys[proc'[q].kid] # None
               /\ proc'[q].rules \in Rules /\ proc'[q].stamp \in [Kid -> Nat]
    <3>1. CASE q = p
      BY <1>2, <1>3, <1>4, <3>1
    <3>2. CASE q # p
      BY <1>2, <1>3, <2>1, <3>2 DEF TypeOK, Running
    <3>. QED
      BY <3>1, <3>2
  <2>. QED
    BY <1>1, <1>3, <2>1 DEF TypeOK
<1>6. /\ \A k \in Kid : FileOf(p, k)' = file[k]
      /\ \A q \in Proc : q # p => (Running(q)' <=> Running(q))
      /\ \A q \in Proc, k \in Kid : q # p => FileOf(q, k)' = FileOf(q, k)
  BY <1>2, <1>4 DEF FileOf, Running
<1>7. \A q \in Proc : q # p /\ Running(q)' => \A k \in Kid :
         /\ proc'[q].stamp[k] <= stamp[k]
         /\ proc'[q].stamp[k] = stamp[k] => FileOf(q, k)' = file[k]
  BY <1>2, <1>6 DEF KInv, Keys, Loaded
<1>8. Loaded'
  BY <1>1, <1>2, <1>3, <1>4, <1>6, <1>7 DEF Loaded
<1>9. SameFiles'
  <2>1. ASSUME NEW q \in Proc, NEW r \in Proc, q # p, r # p, Running(q)', Running(r)', NEW k \in Kid,
               proc'[q].stamp[k] = proc'[r].stamp[k]
        PROVE  FileOf(q, k)' = FileOf(r, k)'
    BY <1>2, <1>6, <2>1 DEF KInv, Keys, SameFiles
  <2>2. ASSUME NEW q \in Proc, Running(q)', NEW k \in Kid, proc'[q].stamp[k] = proc'[p].stamp[k]
        PROVE  FileOf(q, k)' = FileOf(p, k)'
    BY <1>2, <1>4, <1>6, <1>7, <2>2
  <2>. QED
    BY <2>1, <2>2 DEF SameFiles
<1>10. SignedByFile'
  <2>1. ASSUME message # None, message.key # EnvKey, NEW q \in Proc, Running(q)',
               NEW j \in Kid, j = message.signedBy, proc'[q].stamp[j] = message.stamp
        PROVE  FileOf(q, j)' = message.key
    <3>1. message.stamp = stamp[j] => file[j] = message.key
      BY <2>1 DEF KInv, Keys, SignedByFile
    <3>2. CASE q = p
      <4>1. message.stamp = stamp[j]
        BY <1>2, <1>4, <2>1, <3>2
      <4>. QED
        BY <1>6, <2>1, <3>1, <3>2, <4>1
    <3>3. CASE q # p
      <4>1. Running(q) /\ proc[q].stamp[j] = message.stamp
        BY <1>2, <1>6, <2>1, <3>3
      <4>2. FileOf(q, j) = message.key
        BY <2>1, <4>1 DEF KInv, Keys, SignedByFile
      <4>. QED
        BY <1>6, <3>3, <4>2
    <3>. QED
      BY <3>2, <3>3
  <2>2. message # None => message.signedBy \in Kid
    BY DEF KInv, Keys, SignedByFile
  <2>3. ASSUME message # None, message.key # EnvKey, NEW q \in Proc, Running(q)',
               proc'[q].stamp[message.signedBy] = message.stamp
        PROVE  FileOf(q, message.signedBy)' = message.key
    BY <1>1, <2>1, <2>2, <2>3
  <2>. QED
    BY <1>1, <2>3 DEF KInv, Keys, SignedByFile
<1>11. Stamped' /\ RefusalExplained' /\ FirstRuleDecides'
  BY <1>1 DEF KInv, Keys, Stamped, RefusalExplained, FirstRuleDecides
<1>. QED
  BY <1>2, <1>5, <1>8, <1>9, <1>10, <1>11 DEF KInv, Keys

LEMMA StopStep ==
    ASSUME KInv, NEW p \in Proc, Stop(p)
    PROVE  KInv'
<1>1. UNCHANGED <<file, script, made, current, config, message, verdict, decision, changes, stamp>>
  BY DEF Stop
<1>2. /\ \A q \in Proc : Running(q)' => q # p /\ Running(q) /\ proc'[q] = proc[q]
      /\ proc' = [q \in Proc |-> proc'[q]]
  BY DEF Stop, KInv, Running
<1>3. TypeOK'
  BY <1>1, <1>2 DEF KInv, TypeOK
<1>4. \A q \in Proc, k \in Kid : Running(q)' => FileOf(q, k)' = FileOf(q, k)
  BY <1>2 DEF FileOf
<1>5. Loaded'
  BY <1>1, <1>2, <1>4 DEF KInv, Keys, Loaded
<1>6. SameFiles'
  BY <1>2, <1>4 DEF KInv, Keys, SameFiles
<1>7. SignedByFile' /\ Stamped'
  BY <1>1, <1>2, <1>4 DEF KInv, Keys, SignedByFile, Stamped
<1>8. RefusalExplained' /\ FirstRuleDecides'
  BY <1>1 DEF KInv, RefusalExplained, FirstRuleDecides
<1>. QED
  BY <1>2, <1>3, <1>5, <1>6, <1>7, <1>8 DEF KInv, Keys

LEMMA SignStep ==
    ASSUME KInv, NEW p \in Proc, NEW named \in BOOLEAN, Sign(p, named)
    PROVE  KInv'
<1>1. UNCHANGED <<file, script, made, current, config, proc, decision, changes, stamp>> /\ verdict' = None
  BY DEF Sign
<1>. DEFINE k == proc[p].kid
<1>2. /\ message'.kid \in {None, k} /\ message'.signedBy = k
      /\ message'.key = proc[p].keys[k] /\ message'.stamp = proc[p].stamp[k]
  BY DEF Sign
<1>3. Running(p) /\ k \in Kid /\ proc[p].keys[k] # None /\ proc[p].stamp[k] \in Nat
  BY DEF Sign, KInv, TypeOK
<1>. HIDE DEF k
<1>4. TypeOK'
  BY <1>1 DEF KInv, TypeOK, Running
<1>5. Loaded' /\ SameFiles'
  BY <1>1 DEF KInv, Keys, Loaded, SameFiles, Running, FileOf
<1>6. Stamped'
  BY <1>2, <1>3 DEF Stamped
<1>7. SignedByFile'
  <2>1. ASSUME message'.key # EnvKey
        PROVE  /\ message'.stamp <= stamp[k]
               /\ message'.stamp = stamp[k] => file[k] = message'.key
               /\ \A q \in Proc : Running(q) /\ proc[q].stamp[k] = message'.stamp =>
                     FileOf(q, k) = message'.key
    <3>1. FileOf(p, k) = message'.key
      BY <1>2, <2>1 DEF FileOf
    <3>2. /\ proc[p].stamp[k] <= stamp[k]
          /\ proc[p].stamp[k] = stamp[k] => FileOf(p, k) = file[k]
      BY <1>3 DEF KInv, Keys, Loaded
    <3>3. \A q \in Proc : Running(q) /\ proc[q].stamp[k] = proc[p].stamp[k] => FileOf(q, k) = FileOf(p, k)
      BY <1>3 DEF KInv, Keys, SameFiles
    <3>. QED
      BY <1>2, <3>1, <3>2, <3>3
  <2>2. \A q, j : FileOf(q, j)' = FileOf(q, j)
    BY <1>1 DEF FileOf
  <2>. QED
    BY <1>1, <1>2, <1>3, <2>1, <2>2 DEF SignedByFile, Running
<1>8. RefusalExplained' /\ FirstRuleDecides'
  BY <1>1 DEF KInv, RefusalExplained, FirstRuleDecides
<1>. QED
  BY <1>1, <1>4, <1>5, <1>6, <1>7, <1>8 DEF KInv, Keys

LEMMA VerifyStep ==
    ASSUME KInv, NEW p \in Proc, Verify(p)
    PROVE  KInv'
<1>1. UNCHANGED <<file, script, made, current, config, proc, message, decision, changes, stamp>>
  BY DEF Verify
<1>. DEFINE k == KeyFor(p)
<1>2. /\ Running(p) /\ message # None
      /\ verdict'.accepted = (proc[p].keys[k] = message.key)
      /\ verdict'.kid = k /\ verdict'.stamp = proc[p].stamp[k]
  BY DEF Verify
<1>3. k = IF message.kid = None THEN proc[p].kid ELSE message.kid
  BY DEF KeyFor
<1>. HIDE DEF k
<1>4. /\ message.kid \in {None, message.signedBy} /\ message.signedBy \in Kid /\ message.key # None
      /\ message.key # EnvKey => \A q \in Proc :
            Running(q) /\ proc[q].stamp[message.signedBy] = message.stamp =>
               FileOf(q, message.signedBy) = message.key
  BY <1>2 DEF KInv, Keys, SignedByFile
<1>5. ASSUME message.key # EnvKey, message.signedBy = k, message.stamp = proc[p].stamp[k]
      PROVE  verdict'.accepted
  <2>1. FileOf(p, k) = message.key
    BY <1>2, <1>4, <1>5
  <2>2. proc[p].keys[k] = message.key
    BY <1>4, <2>1 DEF FileOf
  <2>. QED
    BY <1>2, <2>2
<1>6. RefusalExplained'
  <2>1. ASSUME ~verdict'.accepted
        PROVE  \/ message.kid # None /\ message.stamp # verdict'.stamp
               \/ message.key = EnvKey
               \/ message.kid = None /\ (message.signedBy # verdict'.kid \/ message.stamp # verdict'.stamp)
    <3>1. message.key = EnvKey \/ message.signedBy # k \/ message.stamp # proc[p].stamp[k]
      BY <1>5, <2>1
    <3>. QED
      BY <1>2, <1>3, <1>4, <3>1
  <2>. QED
    BY <1>1, <2>1 DEF RefusalExplained
<1>7. TypeOK' /\ FirstRuleDecides'
  BY <1>1 DEF KInv, TypeOK, Running, FirstRuleDecides
<1>8. Keys'
  BY <1>1 DEF KInv, Keys, Loaded, SameFiles, SignedByFile, Stamped, FileOf, Running
<1>. QED
  BY <1>1, <1>6, <1>7, <1>8 DEF KInv

LEMMA LoginStep ==
    ASSUME KInv, NEW p \in Proc, NEW ctx \in Context, Login(p, ctx)
    PROVE  KInv'
<1>1. UNCHANGED <<file, script, made, current, config, proc, message, verdict, changes, stamp>>
  BY DEF Login
<1>. DEFINE rules == proc[p].rules
<1>2. rules \in Rules
  BY DEF Login, KInv, TypeOK
<1>3. decision'.made = DecideRole(rules, ctx) /\ decision'.rules = rules /\ decision'.ctx = ctx
  BY DEF Login
<1>. HIDE DEF rules
<1>4. IsRules(rules)
  BY <1>2, RulesAssumption DEF IsRules
<1>5. FirstRuleDecides'
  <2>1. IsDecision(decision'.made, decision'.rules, decision'.ctx)
    BY <1>3, <1>4, DecidesByOrder
  <2>. QED
    BY <2>1 DEF FirstRuleDecides
<1>6. TypeOK' /\ RefusalExplained'
  BY <1>1 DEF KInv, TypeOK, Running, RefusalExplained
<1>7. Keys'
  BY <1>1 DEF KInv, Keys, Loaded, SameFiles, SignedByFile, Stamped, FileOf, Running
<1>. QED
  BY <1>1, <1>5, <1>6, <1>7 DEF KInv

LEMMA NextKInv ==
    ASSUME KInv, [Next]_vars
    PROVE  KInv'
BY FileActions, OtherActions, StartStep, StopStep, SignStep, VerifyStep, LoginStep DEF Next

\* What is true of keys, messages and decisions stays true while files change and
\* processes start and stop.
THEOREM KeysInductive == Spec => []KInv
BY InitKInv, NextKInv, PTL DEF Spec

\* Every reachable state of the files, the processes and the script is well typed.
THEOREM TypeCorrect == Spec => []TypeOK
<1>1. KInv => TypeOK
  BY DEF KInv
<1>. QED
  BY <1>1, KeysInductive, PTL

\* Whoever starts when, a message is refused only for a key that changed in between,
\* for the key of the environment, or for two current keys and no key named.
THEOREM RefusalsAreExplained == Spec => []RefusalExplained
<1>1. KInv => RefusalExplained
  BY DEF KInv
<1>. QED
  BY <1>1, KeysInductive, PTL

\* DecideRole picks the rule that no matching rule comes before, of every list of
\* rules with any priorities and names.
THEOREM RolesAreDecidedByOrder ==
    \A rules, ctx : IsRules(rules) => IsDecision(DecideRole(rules, ctx), rules, ctx)
BY DecidesByOrder

\* Every login is decided by the first matching rule of the configuration its
\* controller has loaded.
THEOREM LoginsFollowLoadedRules == Spec => []FirstRuleDecides
<1>1. KInv => FirstRuleDecides
  BY DEF KInv
<1>. QED
  BY <1>1, KeysInductive, PTL

=============================================================================
