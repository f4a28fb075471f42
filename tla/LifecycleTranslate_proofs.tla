--------------------- MODULE LifecycleTranslate_proofs --------------------
(***************************************************************************)
(* Theorems about LifecycleTranslate, for any documents, prefixes, objects *)
(* and days: what the translated rules do stays within the filters, plain  *)
(* rules keep their meaning, and a document that was read can be put back. *)
(***************************************************************************)
EXTENDS LifecycleTranslate, TLAPS

(* A rule that says no more than ShowRule can show. *)
Sayable(g) ==
  /\ g \in StoredRule
  /\ AtMostOne(g.prefixes) /\ 0 \notin g.age /\ 0 \notin g.newer
  /\ g.archived => g.action = "Delete" /\ g.age = {} /\ g.before = {}
  /\ ~g.archived => g.newer = {}
  /\ g.action = "Abort" => g.prefixes = {} /\ g.before = {} /\ g.age # {} /\ AtMostOne(g.age)

(* The rules in force are the translation of the document in force. *)
Faithful ==
  meant # Unknown =>
    /\ stored = TranslateS3ToGCSLifecycle(meant)
    /\ \A rule \in Enabled(meant) : Supported(rule)
    /\ \A g \in stored : Sayable(g)

LInv == TypeOK /\ Faithful

-----------------------------------------------------------------------------
LEMMA GCSRuleType ==
  ASSUME NEW action \in Actions, NEW prefixes \in SUBSET Prefixes, NEW age \in SUBSET Nat,
         NEW before \in SUBSET Nat, NEW archived \in BOOLEAN, NEW newer \in SUBSET Nat
  PROVE  GCSRule(action, prefixes, age, before, archived, newer) \in StoredRule
<1>1. Sent(age) \in SUBSET Nat /\ Sent(newer) \in SUBSET Nat
  BY DEF Sent
<1> QED BY <1>1 DEF GCSRule, StoredRule

(* What a supported rule is translated to has only conditions that GCS has.*)
LEMMA TranslatedIsStored ==
  ASSUME NEW rule, WellFormed(rule), Supported(rule), NEW g \in TranslateRule(rule),
         HasCondition(g)
  PROVE  Sayable(g)
<1>1. /\ rule.expire \subseteq [days : SUBSET Nat, date : SUBSET Dates, marker : BOOLEAN]
      /\ rule.moves \subseteq [days : SUBSET Nat, date : SUBSET Dates, class : S3Classes]
      /\ rule.noncurrent \subseteq [days : SUBSET Nat] /\ rule.abort \subseteq Nat
      /\ MatchesPrefix(rule) \in SUBSET Prefixes /\ AtMostOne(MatchesPrefix(rule))
  BY DEF WellFormed, S3Rule, MatchesPrefix
<1>2. \A x \in rule.expire \cup rule.moves : x.date \in SUBSET Nat
  BY <1>1 DEF Supported, Dates
<1>3. 0 \notin Sent(g.age) /\ Sent({}) = {} /\ AtMostOne({})
  BY DEF Sent, AtMostOne
<1>4. CASE \E e \in rule.expire :
             g = GCSRule("Delete", MatchesPrefix(rule), e.days, e.date, FALSE, {})
  <2>1. PICK e \in rule.expire :
          g = GCSRule("Delete", MatchesPrefix(rule), e.days, e.date, FALSE, {})
    BY <1>4
  <2>2. g \in StoredRule
    BY <2>1, <1>1, <1>2, GCSRuleType DEF Actions
  <2>3. /\ g.action = "Delete" /\ ~g.archived /\ g.newer = {}
        /\ g.prefixes = MatchesPrefix(rule) /\ 0 \notin g.age
    BY <2>1, <1>3 DEF GCSRule, Sent
  <2> QED BY <2>2, <2>3, <1>1 DEF Sayable
<1>5. CASE \E m \in rule.moves :
             g = GCSRule(mapStorageClass[m.class], MatchesPrefix(rule), m.days, m.date, FALSE, {})
  <2>1. PICK m \in rule.moves :
          g = GCSRule(mapStorageClass[m.class], MatchesPrefix(rule), m.days, m.date, FALSE, {})
    BY <1>5
  <2>2. mapStorageClass[m.class] \in GCSClasses
    BY <1>1, <2>1 DEF mapStorageClass, S3Classes, GCSClasses
  <2>3. g \in StoredRule
    BY <2>1, <2>2, <1>1, <1>2, GCSRuleType DEF Actions
  <2>4. /\ g.action \in GCSClasses /\ ~g.archived /\ g.newer = {}
        /\ g.prefixes = MatchesPrefix(rule) /\ 0 \notin g.age
    BY <2>1, <2>2, <1>3 DEF GCSRule, Sent
  <2> QED BY <2>3, <2>4, <1>1 DEF Sayable, GCSClasses
<1>6. CASE \E n \in rule.noncurrent :
             g = GCSRule("Delete", MatchesPrefix(rule), {}, {}, TRUE, n.days)
  <2>1. PICK n \in rule.noncurrent :
          g = GCSRule("Delete", MatchesPrefix(rule), {}, {}, TRUE, n.days)
    BY <1>6
  <2>2. g \in StoredRule
    BY <2>1, <1>1, GCSRuleType DEF Actions
  <2>3. /\ g.action = "Delete" /\ g.archived /\ g.age = {} /\ g.before = {}
        /\ g.prefixes = MatchesPrefix(rule) /\ 0 \notin g.newer
    BY <2>1, <1>3 DEF GCSRule, Sent
  <2> QED BY <2>2, <2>3, <1>1 DEF Sayable
<1>7. CASE \E d \in rule.abort : g = GCSRule("Abort", {}, {d}, {}, FALSE, {})
  <2>1. PICK d \in rule.abort : g = GCSRule("Abort", {}, {d}, {}, FALSE, {})
    BY <1>7
  <2>2. g \in StoredRule
    BY <2>1, <1>1, GCSRuleType DEF Actions
  <2>3. /\ g.action = "Abort" /\ ~g.archived /\ g.newer = {} /\ g.prefixes = {}
        /\ g.before = {} /\ 0 \notin g.age /\ AtMostOne(g.age)
    BY <2>1, <1>3 DEF GCSRule, Sent, AtMostOne
  <2>4. g.age # {}
    BY <2>3 DEF HasCondition
  <2> QED BY <2>2, <2>3, <2>4, <1>3 DEF Sayable
<1> QED BY <1>4, <1>5, <1>6, <1>7 DEF TranslateRule

LEMMA TranslationIsStored ==
  ASSUME NEW doc, \A rule \in doc : WellFormed(rule), \A rule \in Enabled(doc) : Supported(rule),
         NEW g \in TranslateS3ToGCSLifecycle(doc), HasCondition(g)
  PROVE  Sayable(g)
BY TranslatedIsStored DEF TranslateS3ToGCSLifecycle, Enabled

(* GET never shows what PUT would refuse. *)
LEMMA ShownIsWellFormed ==
  ASSUME NEW g \in StoredRule
  PROVE  WellFormed(ShowRule(g)) /\ Supported(ShowRule(g))
<1>1. FirstOf(g.prefixes) \in SUBSET Prefixes /\ AtMostOne(FirstOf(g.prefixes) \cup {})
  BY DEF FirstOf, AtMostOne, StoredRule
<1>2. /\ g.age \in SUBSET Nat /\ g.before \in SUBSET Nat /\ g.newer \in SUBSET Nat
      /\ g.before \in SUBSET Dates /\ BadDate \notin g.before
  BY DateAssumption DEF StoredRule, Dates
<1>3. g.action \in GCSClasses => reverseMapStorageClass[g.action] \in S3Classes
  BY DEF GCSClasses, S3Classes, reverseMapStorageClass
<1>4. ShowRule(g) \in S3Rule
  <2>1. ShowRule(g).expire
          \in SUBSET [days : SUBSET Nat, date : SUBSET Dates, marker : BOOLEAN]
    BY <1>2 DEF ShowRule
  <2>2. ShowRule(g).moves
          \in SUBSET [days : SUBSET Nat, date : SUBSET Dates, class : S3Classes]
    BY <1>2, <1>3 DEF ShowRule
  <2>3. ShowRule(g).noncurrent \in SUBSET [days : SUBSET Nat] /\ ShowRule(g).abort \in SUBSET Nat
    BY <1>2 DEF ShowRule
  <2> QED BY <1>1, <2>1, <2>2, <2>3 DEF ShowRule, S3Rule
<1>5. Supported(ShowRule(g))
  BY <1>2 DEF Supported, ShowRule
<1> QED BY <1>1, <1>4, <1>5 DEF WellFormed, ShowRule

-----------------------------------------------------------------------------
LEMMA FirstOfOne ==
  ASSUME NEW S, AtMostOne(S)
  PROVE  FirstOf(S) = S
BY DEF AtMostOne, FirstOf

LEMMA SentPositive ==
  ASSUME NEW S \in SUBSET Nat, 0 \notin S
  PROVE  Sent(S) = S
<1>1. \A n \in S : n \in Nat /\ n # 0
  OBVIOUS
<1>2. \A n \in S : n > 0
  BY <1>1
<1> QED BY <1>2 DEF Sent

(* Showing a rule and translating what was shown gives back the rule. *)
LEMMA ShowThenTranslate ==
  ASSUME NEW g, Sayable(g)
  PROVE  TranslateRule(ShowRule(g)) = {g}
<1>1. /\ g = [action |-> g.action, prefixes |-> g.prefixes, age |-> g.age, before |-> g.before,
              archived |-> g.archived, newer |-> g.newer]
      /\ g.action \in Actions /\ g.archived \in BOOLEAN
      /\ Sent(g.age) = g.age /\ Sent(g.newer) = g.newer /\ Sent({}) = {}
  BY SentPositive DEF Sayable, StoredRule, Sent
<1>2. MatchesPrefix(ShowRule(g)) = g.prefixes
  BY FirstOfOne DEF MatchesPrefix, ShowRule, Sayable
<1>3. CASE g.action = "Delete" /\ ~g.archived
  <2>1. /\ ShowRule(g).expire = {[days |-> g.age, date |-> g.before, marker |-> FALSE]}
        /\ ShowRule(g).moves = {} /\ ShowRule(g).noncurrent = {} /\ ShowRule(g).abort = {}
    BY <1>3 DEF ShowRule, GCSClasses
  <2>2. GCSRule("Delete", g.prefixes, g.age, g.before, FALSE, {}) = g
    BY <1>1, <1>3 DEF GCSRule, Sayable
  <2> DEFINE e1 == [days |-> g.age, date |-> g.before, marker |-> FALSE]
  <2>3. ShowRule(g).expire = {e1} /\ e1.days = g.age /\ e1.date = g.before
    BY <2>1
  <2> HIDE DEF e1
  <2>4. {GCSRule("Delete", g.prefixes, e.days, e.date, FALSE, {}) : e \in ShowRule(g).expire} = {g}
    BY <2>2, <2>3
  <2> QED BY <2>1, <2>4, <1>2 DEF TranslateRule
<1>4. CASE g.action = "Delete" /\ g.archived
  <2>1. /\ ShowRule(g).noncurrent = {[days |-> g.newer]}
        /\ ShowRule(g).moves = {} /\ ShowRule(g).expire = {} /\ ShowRule(g).abort = {}
    BY <1>4 DEF ShowRule, GCSClasses
  <2>2. GCSRule("Delete", g.prefixes, {}, {}, TRUE, g.newer) = g
    BY <1>1, <1>4 DEF GCSRule, Sayable
  <2> DEFINE n1 == [days |-> g.newer]
  <2>3. ShowRule(g).noncurrent = {n1} /\ n1.days = g.newer
    BY <2>1
  <2> HIDE DEF n1
  <2>4. \A n \in ShowRule(g).noncurrent : GCSRule("Delete", g.prefixes, {}, {}, TRUE, n.days) = g
    BY <2>2, <2>3
  <2>5. {GCSRule("Delete", g.prefixes, {}, {}, TRUE, n.days) : n \in ShowRule(g).noncurrent} = {g}
    <3>1. n1 \in ShowRule(g).noncurrent
      BY <2>3
    <3> QED BY ONLY <3>1, <2>4, Zenon
  <2> QED BY <2>1, <2>5, <1>2 DEF TranslateRule
<1>5. CASE g.action \in GCSClasses
  <2>1. /\ ShowRule(g).moves = {[days |-> g.age, date |-> g.before,
                                 class |-> reverseMapStorageClass[g.action]]}
        /\ ShowRule(g).noncurrent = {} /\ ShowRule(g).expire = {} /\ ShowRule(g).abort = {}
    BY <1>5 DEF ShowRule, GCSClasses
  <2>2. mapStorageClass[reverseMapStorageClass[g.action]] = g.action
    BY <1>5 DEF mapStorageClass, reverseMapStorageClass, GCSClasses
  <2>3. GCSRule(g.action, g.prefixes, g.age, g.before, FALSE, {}) = g
    BY <1>1, <1>5 DEF GCSRule, Sayable, GCSClasses
  <2> DEFINE m1 == [days |-> g.age, date |-> g.before,
                    class |-> reverseMapStorageClass[g.action]]
  <2>4. /\ ShowRule(g).moves = {m1} /\ m1.days = g.age /\ m1.date = g.before
        /\ mapStorageClass[m1.class] = g.action
    BY <2>1, <2>2
  <2> HIDE DEF m1
  <2>5. {GCSRule(mapStorageClass[m.class], g.prefixes, m.days, m.date, FALSE, {}) :
           m \in ShowRule(g).moves} = {g}
    BY <2>3, <2>4
  <2> QED BY <2>1, <2>5, <1>2 DEF TranslateRule
<1>6. CASE g.action = "Abort"
  <2>1. /\ ShowRule(g).abort = g.age
        /\ ShowRule(g).noncurrent = {} /\ ShowRule(g).expire = {} /\ ShowRule(g).moves = {}
    BY <1>6 DEF ShowRule, GCSClasses
  <2>2. PICK d \in g.age : g.age = {d}
    BY <1>6 DEF Sayable, AtMostOne
  <2>3. GCSRule("Abort", {}, {d}, {}, FALSE, {}) = g
    BY <1>1, <1>6, <2>2 DEF GCSRule, Sayable
  <2> QED BY <2>1, <2>2, <2>3 DEF TranslateRule
<1> QED BY <1>1, <1>3, <1>4, <1>5, <1>6 DEF Actions

LEMMA ShownTranslates ==
  ASSUME NEW rules, \A g \in rules : Sayable(g)
  PROVE  TranslateS3ToGCSLifecycle(TranslateGCSToS3Lifecycle(rules)) = rules
<1>1. Enabled(TranslateGCSToS3Lifecycle(rules)) = {ShowRule(g) : g \in rules}
  BY DEF Enabled, TranslateGCSToS3Lifecycle, ShowRule
<1>2. UNION {TranslateRule(rule) : rule \in {ShowRule(g) : g \in rules}} = rules
  BY ShowThenTranslate
<1> QED BY <1>1, <1>2 DEF TranslateS3ToGCSLifecycle

-----------------------------------------------------------------------------
LEMMA InitIsL == Init => LInv
BY ForeignAssumption DEF Init, LInv, TypeOK, Faithful

LEMMA PutKeepsL ==
  ASSUME LInv, NEW doc, \A rule \in doc : WellFormed(rule), Put(doc)
  PROVE  LInv'
<1>1. \A g \in TranslateS3ToGCSLifecycle(doc) : Sayable(g)
  BY TranslationIsStored DEF Put
<1>2. stored' = TranslateS3ToGCSLifecycle(doc) /\ meant' = doc /\ shown' = shown
  BY DEF Put
<1>3. TypeOK'
  BY <1>1, <1>2 DEF LInv, TypeOK, Sayable
<1>4. Faithful'
  BY <1>1, <1>2 DEF Faithful, Put
<1> QED BY <1>3, <1>4 DEF LInv

LEMMA GetKeepsL ==
  ASSUME LInv, Get
  PROVE  LInv'
<1>1. \A rule \in TranslateGCSToS3Lifecycle(stored) : WellFormed(rule)
  BY ShownIsWellFormed DEF LInv, TypeOK, TranslateGCSToS3Lifecycle
<1>2. TypeOK'
  BY <1>1 DEF LInv, TypeOK, Get
<1>3. Faithful'
  BY DEF LInv, Faithful, Get
<1> QED BY <1>2, <1>3 DEF LInv

LEMMA DeleteKeepsL ==
  ASSUME LInv, Delete
  PROVE  LInv'
<1>1. TranslateS3ToGCSLifecycle({}) = {}
  BY DEF TranslateS3ToGCSLifecycle, Enabled
<1>2. TypeOK'
  BY DEF LInv, TypeOK, Delete
<1>3. Faithful'
  BY <1>1 DEF Faithful, Delete, Enabled
<1> QED BY <1>2, <1>3 DEF LInv

LEMMA AdministerKeepsL ==
  ASSUME LInv, NEW rules \in Foreign, Administer(rules)
  PROVE  LInv'
BY ForeignAssumption DEF LInv, TypeOK, Faithful, Administer

LEMMA NextKeepsL == LInv /\ [Next]_vars => LInv'
<1> SUFFICES ASSUME LInv, [Next]_vars PROVE LInv'
  OBVIOUS
<1>1. CASE Get
  BY <1>1, GetKeepsL
<1>2. CASE PutBack
  BY <1>2, PutKeepsL DEF PutBack, LInv, TypeOK
<1>3. CASE Delete
  BY <1>3, DeleteKeepsL
<1>4. CASE \E doc \in Documents : Put(doc)
  BY <1>4, PutKeepsL, DocumentAssumption
<1>5. CASE \E rules \in Foreign : Administer(rules)
  BY <1>5, AdministerKeepsL
<1>6. CASE UNCHANGED vars
  BY <1>6 DEF LInv, TypeOK, Faithful, vars
<1> QED BY <1>1, <1>2, <1>3, <1>4, <1>5, <1>6 DEF Next

(* Whatever document is in force, its own translation is what GCS has. *)
THEOREM LifecycleInvariant == Spec => []LInv
BY InitIsL, NextKeepsL, PTL DEF Spec

(* A translated document, and one that is shown, has the form that the     *)
(* other side expects: no date that does not parse reaches GCS, and no     *)
(* filter with two prefixes or with tags reaches a client.                 *)
THEOREM LifecycleTypes == Spec => []TypeOK
<1>1. LInv => TypeOK
  BY DEF LInv
<1> QED BY <1>1, LifecycleInvariant, PTL

(* What was put through the proxy can be read and put back unchanged.      *)
THEOREM GetThenPut == Spec => []GetThenPutKeeps
<1>1. LInv => GetThenPutKeeps
  <2> SUFFICES ASSUME LInv, meant # Unknown
               PROVE  /\ TranslateS3ToGCSLifecycle(TranslateGCSToS3Lifecycle(stored)) = stored
                      /\ \A rule \in TranslateGCSToS3Lifecycle(stored) : Supported(rule)
    BY DEF GetThenPutKeeps
  <2>1. \A g \in stored : Sayable(g) /\ g \in StoredRule
    BY DEF LInv, Faithful, Sayable
  <2> QED BY <2>1, ShownTranslates, ShownIsWellFormed DEF TranslateGCSToS3Lifecycle
<1> QED BY <1>1, LifecycleInvariant, PTL

-----------------------------------------------------------------------------
(* Where a GCS rule comes from.                                            *)
LEMMA Origin ==
  ASSUME NEW rule, WellFormed(rule), NEW g \in TranslateRule(rule), g.action # "Abort"
  PROVE  g.prefixes = MatchesPrefix(rule) /\ g.action \in Elements(rule)
<1>1. CASE \E e \in rule.expire :
             g = GCSRule("Delete", MatchesPrefix(rule), e.days, e.date, FALSE, {})
  BY <1>1 DEF GCSRule, Elements
<1>2. CASE \E m \in rule.moves :
             g = GCSRule(mapStorageClass[m.class], MatchesPrefix(rule), m.days, m.date, FALSE, {})
  BY <1>2 DEF GCSRule, Elements
<1>3. CASE \E n \in rule.noncurrent :
             g = GCSRule("Delete", MatchesPrefix(rule), {}, {}, TRUE, n.days)
  BY <1>3 DEF GCSRule, Elements
<1>4. CASE \E d \in rule.abort : g = GCSRule("Abort", {}, {d}, {}, FALSE, {})
  BY <1>4 DEF GCSRule
<1> QED BY <1>1, <1>2, <1>3, <1>4 DEF TranslateRule

(* One prefix at most, so that one of them is all of them.                 *)
LEMMA PrefixCovers ==
  ASSUME NEW rule, WellFormed(rule), NEW o
  PROVE  (MatchesPrefix(rule) = {} \/ MatchesPrefix(rule) \cap o.under # {})
           <=> rule.prefix \cup rule.andPrefix \subseteq o.under
BY DEF WellFormed, AtMostOne, MatchesPrefix

(* No object version is deleted or moved outside of the filters.           *)
THEOREM WithinFilter == Spec => []ActsWithinFilter
<1>1. LInv => ActsWithinFilter
  <2> SUFFICES ASSUME LInv, meant # Unknown, NEW o \in Objects, ~o.upload,
                      NEW day \in Since(o), NEW does \in GCSDoes(o, day)
               PROVE  \E rule \in meant : Covers(rule, o) /\ does \in Elements(rule)
    BY DEF ActsWithinFilter
  <2>1. PICK g \in stored : does = g.action /\ GCSMatches(g, o, day)
    BY DEF GCSDoes
  <2>2. PICK rule \in Enabled(meant) : g \in TranslateRule(rule)
    BY <2>1 DEF LInv, Faithful, TranslateS3ToGCSLifecycle
  <2>3. rule \in meant /\ rule.enabled /\ WellFormed(rule) /\ Supported(rule)
    BY <2>2 DEF LInv, TypeOK, Faithful, Enabled
  <2>4. g.action # "Abort" /\ (g.prefixes = {} \/ g.prefixes \cap o.under # {})
    BY <2>1 DEF GCSMatches
  <2>5. g.prefixes = MatchesPrefix(rule) /\ does \in Elements(rule)
    BY <2>1, <2>2, <2>3, <2>4, Origin
  <2>6. Covers(rule, o)
    BY <2>3, <2>4, <2>5, PrefixCovers DEF Covers, Supported
  <2> QED BY <2>3, <2>5, <2>6
<1> QED BY <1>1, LifecycleInvariant, PTL

-----------------------------------------------------------------------------
(* An age of zero days is not sent, and is no condition either.            *)
LEMMA SentAges ==
  ASSUME NEW S \in SUBSET Nat, NEW o \in Objects, NEW day \in Since(o)
  PROVE  (\A d \in Sent(S) : Age(o, day) >= d) <=> \A d \in S : Age(o, day) >= d
<1>1. o.created \in Nat /\ day \in Nat /\ o.created <= day
  BY ObjectAssumption DEF Since
<1>2. Age(o, day) \in Nat
  BY <1>1 DEF Age
<1>3. \A d \in S : d \in Nat /\ (d > 0 \/ d = 0)
  OBVIOUS
<1> QED BY <1>2, <1>3 DEF Sent

Reaches(prefixes, o) == prefixes = {} \/ prefixes \cap o.under # {}
Past(ages, o, day) == \A d \in ages : Age(o, day) >= d

LEMMA MatchesPlainly ==
  ASSUME NEW action, NEW prefixes, NEW age \in SUBSET Nat, NEW o \in Objects, NEW day \in Since(o)
  PROVE  GCSMatches(GCSRule(action, prefixes, age, {}, FALSE, {}), o, day)
           <=> (action = "Abort" <=> o.upload) /\ Reaches(prefixes, o) /\ Past(age, o, day)
<1> DEFINE g == GCSRule(action, prefixes, age, {}, FALSE, {})
<1>1. /\ g.action = action /\ g.prefixes = prefixes /\ g.age = Sent(age) /\ g.before = {}
      /\ g.archived = FALSE /\ g.newer = {}
  BY DEF GCSRule, Sent
<1> HIDE DEF g
<1>2. GCSMatches(g, o, day)
        <=> (action = "Abort" <=> o.upload) /\ Reaches(prefixes, o) /\ Past(Sent(age), o, day)
  BY <1>1, ObjectAssumption DEF GCSMatches, Reaches, Past
<1> QED BY <1>2, SentAges DEF g, Past

(* What GCS does by the translation of one rule. *)
Doing(rule, o, day) == {g.action : g \in {h \in TranslateRule(rule) : GCSMatches(h, o, day)}}

LEMMA PlainRule ==
  ASSUME NEW rule, WellFormed(rule), Supported(rule), Plain(rule), rule.enabled,
         NEW o \in Objects, o.live \/ o.upload, o.upload \in BOOLEAN, NEW day \in Since(o)
  PROVE  Doing(rule, o, day) = S3DoesByAge(rule, o, day)
<1> DEFINE covers == rule.prefix \cup rule.andPrefix \subseteq o.under
           reaches == Reaches(MatchesPrefix(rule), o)
           expiring(e) == GCSRule("Delete", MatchesPrefix(rule), e.days, e.date, FALSE, {})
           moving(m) == GCSRule(mapStorageClass[m.class], MatchesPrefix(rule), m.days, m.date,
                                FALSE, {})
           aborting(d) == GCSRule("Abort", {}, {d}, {}, FALSE, {})
<1>1. /\ rule.expire \subseteq [days : SUBSET Nat, date : SUBSET Dates, marker : BOOLEAN]
      /\ rule.moves \subseteq [days : SUBSET Nat, date : SUBSET Dates, class : S3Classes]
      /\ rule.noncurrent \subseteq [days : SUBSET Nat] /\ rule.abort \subseteq Nat
  BY DEF WellFormed, S3Rule
<1>2. Covers(rule, o) <=> covers
  BY DEF Covers, Supported
<1>3. covers <=> reaches
  BY PrefixCovers DEF Reaches
<1>4. \A e \in rule.expire :
        /\ expiring(e).action = "Delete"
        /\ GCSMatches(expiring(e), o, day) <=> ~o.upload /\ reaches /\ Due(e.days, o, day)
  <2> SUFFICES ASSUME NEW e \in rule.expire
               PROVE  /\ expiring(e).action = "Delete"
                      /\ GCSMatches(expiring(e), o, day)
                           <=> ~o.upload /\ reaches /\ Due(e.days, o, day)
    OBVIOUS
  <2>1. e.days \in SUBSET Nat /\ e.days # {} /\ e.date = {}
    BY <1>1 DEF Plain
  <2>2. expiring(e).action = "Delete"
    BY DEF GCSRule
  <2> DEFINE g == GCSRule("Delete", MatchesPrefix(rule), e.days, {}, FALSE, {})
  <2>3. GCSMatches(g, o, day) <=> ~o.upload /\ reaches /\ Past(e.days, o, day)
    <3>1. GCSMatches(g, o, day)
            <=> ("Delete" = "Abort" <=> o.upload) /\ reaches /\ Past(e.days, o, day)
      BY <2>1, MatchesPlainly
    <3> QED BY <3>1
  <2>4. expiring(e) = g
    BY <2>1
  <2> HIDE DEF g
  <2> QED BY <2>1, <2>2, <2>3, <2>4 DEF Due, Past
<1>5. \A m \in rule.moves :
        /\ moving(m).action = mapStorageClass[m.class]
        /\ GCSMatches(moving(m), o, day) <=> ~o.upload /\ reaches /\ Due(m.days, o, day)
  <2> SUFFICES ASSUME NEW m \in rule.moves
               PROVE  /\ moving(m).action = mapStorageClass[m.class]
                      /\ GCSMatches(moving(m), o, day)
                           <=> ~o.upload /\ reaches /\ Due(m.days, o, day)
    OBVIOUS
  <2>1. m.days \in SUBSET Nat /\ m.days # {} /\ m.date = {}
    BY <1>1 DEF Plain
  <2>2. moving(m).action = mapStorageClass[m.class]
    BY DEF GCSRule
  <2>3. mapStorageClass[m.class] # "Abort"
    BY <1>1 DEF mapStorageClass, S3Classes
  <2> DEFINE class == mapStorageClass[m.class]
             g == GCSRule(class, MatchesPrefix(rule), m.days, {}, FALSE, {})
  <2>4. GCSMatches(g, o, day) <=> ~o.upload /\ reaches /\ Past(m.days, o, day)
    <3> HIDE DEF class
    <3>1. GCSMatches(g, o, day)
            <=> (class = "Abort" <=> o.upload) /\ reaches /\ Past(m.days, o, day)
      BY <2>1, MatchesPlainly
    <3> QED BY <3>1, <2>3 DEF class
  <2>5. moving(m) = g
    BY <2>1
  <2> HIDE DEF g
  <2> QED BY <2>1, <2>2, <2>4, <2>5 DEF Due, Past
<1>6. \A d \in rule.abort :
        /\ aborting(d).action = "Abort" /\ covers
        /\ GCSMatches(aborting(d), o, day) <=> o.upload /\ Age(o, day) >= d
  <2> SUFFICES ASSUME NEW d \in rule.abort
               PROVE  /\ aborting(d).action = "Abort" /\ covers
                      /\ GCSMatches(aborting(d), o, day) <=> o.upload /\ Age(o, day) >= d
    OBVIOUS
  <2>1. {d} \in SUBSET Nat
    BY <1>1
  <2>2. aborting(d).action = "Abort"
    BY DEF GCSRule
  <2>3. covers
    BY DEF Plain
  <2>4. GCSMatches(aborting(d), o, day) <=> o.upload /\ Age(o, day) >= d
    BY <2>1, MatchesPlainly DEF Reaches, Past
  <2> QED BY <2>2, <2>3, <2>4
<1>7. \A n \in rule.noncurrent :
        ~GCSMatches(GCSRule("Delete", MatchesPrefix(rule), {}, {}, TRUE, n.days), o, day)
  BY DEF GCSMatches, GCSRule
<1> HIDE DEF covers, reaches, expiring, moving, aborting
<1>8. TranslateRule(rule)
        = {expiring(e) : e \in rule.expire} \cup {moving(m) : m \in rule.moves}
          \cup {GCSRule("Delete", MatchesPrefix(rule), {}, {}, TRUE, n.days) : n \in rule.noncurrent}
          \cup {aborting(d) : d \in rule.abort}
  BY DEF TranslateRule, expiring, moving, aborting
<1>9. CASE o.upload
  <2>1. Doing(rule, o, day) = {"Abort" : d \in {d \in rule.abort : Age(o, day) >= d}}
    BY <1>4, <1>5, <1>6, <1>7, <1>8, <1>9 DEF Doing
  <2>2. covers \/ rule.abort = {}
    BY <1>6
  <2> QED BY <2>1, <2>2, <1>2, <1>9 DEF S3DoesByAge
<1>10. CASE ~o.upload
  <2>1. {h \in TranslateRule(rule) : GCSMatches(h, o, day)}
          = {expiring(e) : e \in {e \in rule.expire : reaches /\ Due(e.days, o, day)}}
            \cup {moving(m) : m \in {m \in rule.moves : reaches /\ Due(m.days, o, day)}}
    BY <1>4, <1>5, <1>6, <1>7, <1>8, <1>10
  <2>2. Doing(rule, o, day)
          = {"Delete" : e \in {e \in rule.expire : reaches /\ Due(e.days, o, day)}}
            \cup {mapStorageClass[m.class] :
                    m \in {m \in rule.moves : reaches /\ Due(m.days, o, day)}}
    BY <1>4, <1>5, <2>1 DEF Doing
  <2> QED BY <2>2, <1>2, <1>3, <1>10 DEF S3DoesByAge
<1> QED BY <1>9, <1>10

(* Plain rules are carried out by GCS exactly as by S3.                    *)
THEOREM PlainMeansTheSame == Spec => []PlainRulesMeanTheSame
<1>1. LInv => PlainRulesMeanTheSame
  <2> SUFFICES ASSUME LInv, meant # Unknown, \A rule \in Enabled(meant) : Plain(rule),
                      NEW o \in Objects, o.live \/ o.upload, NEW day \in Since(o)
               PROVE  GCSDoes(o, day) = UNION {S3DoesByAge(rule, o, day) : rule \in meant}
    BY DEF PlainRulesMeanTheSame
  <2>1. \A rule \in Enabled(meant) : Doing(rule, o, day) = S3DoesByAge(rule, o, day)
    BY PlainRule, ObjectAssumption DEF LInv, TypeOK, Faithful, Enabled
  <2>2. GCSDoes(o, day) = UNION {Doing(rule, o, day) : rule \in Enabled(meant)}
    BY DEF LInv, Faithful, TranslateS3ToGCSLifecycle, GCSDoes, Doing
  <2>3. \A rule \in meant : rule \notin Enabled(meant) => S3DoesByAge(rule, o, day) = {}
    BY DEF Enabled, S3DoesByAge, Covers
  <2>4. Enabled(meant) \subseteq meant
    BY DEF Enabled
  <2> QED BY <2>1, <2>2, <2>3, <2>4
<1> QED BY <1>1, LifecycleInvariant, PTL

=============================================================================
