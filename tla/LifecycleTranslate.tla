------------------------ MODULE LifecycleTranslate ------------------------
(***************************************************************************)
(* What the rules of PUT, GET and DELETE ?lifecycle mean. PUT translates   *)
(* an S3 document to GCS rules, GET translates the GCS rules back, and GCS *)
(* acts on objects by its own rules ever after. BucketConfig models how    *)
(* these calls go wrong; here they succeed, and the subject is which       *)
(* objects the translated rules reach, and when.                           *)
(*                                                                         *)
(* A document is a set of rules: neither side attaches a meaning to their  *)
(* order or to their IDs. An element that may be missing, a pointer in the *)
(* code, is a set with at most one member. A prefix is a model value, and  *)
(* an object knows which prefixes its key begins with.                     *)
(***************************************************************************)
EXTENDS Integers

CONSTANTS
  Documents,  \* the S3 documents that clients PUT: sets of rules
  Prefixes,   \* the prefixes that filters name
  Foreign,    \* the sets of GCS rules that others give the bucket
  Objects,    \* object versions and unfinished uploads, in this bucket
  Days,       \* the days considered
  BadDate,    \* a date that does not parse
  Unknown     \* the rules in force were not put through the proxy

S3Classes == {"STANDARD", "STANDARD_IA", "ONEZONE_IA", "INTELLIGENT_TIERING", "GLACIER",
              "GLACIER_IR", "DEEP_ARCHIVE"}
GCSClasses == {"STANDARD", "NEARLINE", "COLDLINE", "ARCHIVE"}

(* Numbers of days are never negative, S3 has no other. Transitions of     *)
(* noncurrent versions are parsed and never looked at again, so they are   *)
(* left out. The prefix of the rule itself (legacy) is not even parsed.    *)
Dates == Nat \cup {BadDate}
S3Rule ==
  [enabled : BOOLEAN, legacy : SUBSET Prefixes, prefix : SUBSET Prefixes,
   andPrefix : SUBSET Prefixes, narrow : {"no", "filter", "and"},
   expire : SUBSET [days : SUBSET Nat, date : SUBSET Dates, marker : BOOLEAN],
   moves : SUBSET [days : SUBSET Nat, date : SUBSET Dates, class : S3Classes],
   noncurrent : SUBSET [days : SUBSET Nat], abort : SUBSET Nat]

Actions == {"Delete", "Abort"} \cup GCSClasses
StoredRule ==
  [action : Actions, prefixes : SUBSET Prefixes, age : SUBSET Nat, before : SUBSET Nat,
   archived : BOOLEAN, newer : SUBSET Nat]

(* A Filter has a prefix of its own or one in And: S3 has no filter with   *)
(* two, while the prefixes of a GCS rule are a choice between them.        *)
AtMostOne(S) == \A x, y \in S : x = y
WellFormed(rule) == rule \in S3Rule /\ AtMostOne(rule.prefix \cup rule.andPrefix)

ASSUME DocumentAssumption == \A doc \in Documents : \A rule \in doc : WellFormed(rule)
ASSUME ForeignAssumption == \A rules \in Foreign : rules \subseteq StoredRule
ASSUME ObjectAssumption ==
  Days \subseteq Nat /\ \A o \in Objects : o.created \in Nat /\ o.upload \in BOOLEAN
ASSUME DateAssumption == BadDate \notin Nat

(* Operators named Mut... are plausible bugs in the definition that        *)
(* follows them; nothing uses them.                                        *)

VARIABLES
  meant,   \* history: the document whose PUT succeeded last
  stored,  \* the bucket's lifecycle rules in GCS
  shown    \* the document a client was shown last

vars == <<meant, stored, shown>>

Init == meant = Unknown /\ stored \in Foreign /\ shown = {}

-----------------------------------------------------------------------------
(* S3 to GCS: TranslateS3ToGCSLifecycle.                                   *)

mapStorageClass ==
  [STANDARD |-> "STANDARD", STANDARD_IA |-> "NEARLINE", ONEZONE_IA |-> "NEARLINE",
   INTELLIGENT_TIERING |-> "STANDARD", GLACIER |-> "COLDLINE", GLACIER_IR |-> "COLDLINE",
   DEEP_ARCHIVE |-> "ARCHIVE"]

(* narrow: the filter also asks for tags or sizes, in itself or in And. *)
MutSupported(rule) == rule.narrow = "no"
Supported(rule) ==
  /\ rule.narrow = "no"
  /\ \A x \in rule.expire \cup rule.moves : BadDate \notin x.date

(* applySDKFilter *)
MutMatchesPrefix(rule) == rule.prefix
MatchesPrefix(rule) == rule.prefix \cup rule.andPrefix

(* The storage SDK sends AgeInDays and NumNewerVersions only if positive. *)
Sent(numbers) == {n \in numbers : n > 0}

GCSRule(action, prefixes, age, before, archived, newer) ==
  [action |-> action, prefixes |-> prefixes, age |-> Sent(age), before |-> before,
   archived |-> archived, newer |-> Sent(newer)]

MutTranslateRule(rule) ==
  {GCSRule("Delete", MatchesPrefix(rule), e.days, {}, FALSE, {}) : e \in rule.expire}
  \cup {GCSRule(mapStorageClass[m.class], MatchesPrefix(rule), {}, m.date, FALSE, {}) :
          m \in rule.moves}
  \cup {GCSRule("Delete", MatchesPrefix(rule), {}, {}, TRUE, n.days) : n \in rule.noncurrent}
  \cup {GCSRule("Abort", {}, {d}, {}, FALSE, {}) : d \in rule.abort}
TranslateRule(rule) ==
  {GCSRule("Delete", MatchesPrefix(rule), e.days, e.date, FALSE, {}) : e \in rule.expire}
  \cup {GCSRule(mapStorageClass[m.class], MatchesPrefix(rule), m.days, m.date, FALSE, {}) :
          m \in rule.moves}
  \cup {GCSRule("Delete", MatchesPrefix(rule), {}, {}, TRUE, n.days) : n \in rule.noncurrent}
  \cup {GCSRule("Abort", {}, {d}, {}, FALSE, {}) : d \in rule.abort}

Enabled(doc) == {rule \in doc : rule.enabled}
TranslateS3ToGCSLifecycle(doc) == UNION {TranslateRule(rule) : rule \in Enabled(doc)}

-----------------------------------------------------------------------------
(* GCS to S3: TranslateGCSToS3Lifecycle.                                   *)

MutReverseMapStorageClass ==
  [STANDARD |-> "STANDARD", NEARLINE |-> "STANDARD_IA", COLDLINE |-> "DEEP_ARCHIVE",
   ARCHIVE |-> "DEEP_ARCHIVE"]
reverseMapStorageClass ==
  [STANDARD |-> "STANDARD", NEARLINE |-> "STANDARD_IA", COLDLINE |-> "GLACIER",
   ARCHIVE |-> "DEEP_ARCHIVE"]

(* Only the first prefix is shown. Which one comes first is arbitrary. *)
FirstOf(prefixes) ==
  IF prefixes = {} THEN {} ELSE {CHOOSE p \in prefixes : TRUE}

ShowRule(g) ==
  [enabled |-> TRUE, legacy |-> {}, prefix |-> FirstOf(g.prefixes), andPrefix |-> {},
   narrow |-> "no",
   expire |-> IF g.action = "Delete" /\ ~g.archived
              THEN {[days |-> g.age, date |-> g.before, marker |-> FALSE]} ELSE {},
   moves |-> IF g.action \in GCSClasses
             THEN {[days |-> g.age, date |-> g.before,
                    class |-> reverseMapStorageClass[g.action]]} ELSE {},
   noncurrent |-> IF g.action = "Delete" /\ g.archived THEN {[days |-> g.newer]} ELSE {},
   abort |-> IF g.action = "Abort" THEN g.age ELSE {}]

TranslateGCSToS3Lifecycle(rules) == {ShowRule(g) : g \in rules}

-----------------------------------------------------------------------------
(* The requests. One that is refused, by the translation or by GCS, leaves *)
(* everything as it was and is not a step.                                 *)

(* GCS refuses a rule without a condition. *)
HasCondition(g) == g.archived \/ \E S \in {g.prefixes, g.age, g.before, g.newer} : S # {}

(* handlePutLifecycle *)
Put(doc) ==
  /\ \A rule \in Enabled(doc) : Supported(rule)
  /\ \A g \in TranslateS3ToGCSLifecycle(doc) : HasCondition(g)
  /\ meant' = doc
  /\ stored' = TranslateS3ToGCSLifecycle(doc)
  /\ UNCHANGED shown

(* handleGetLifecycle; without rules the answer is 404. *)
Get ==
  /\ shown' = TranslateGCSToS3Lifecycle(stored)
  /\ UNCHANGED <<meant, stored>>

(* A client PUTs the document it was shown, perhaps long ago. *)
PutBack == shown # {} /\ Put(shown)

(* handleDeleteLifecycle *)
Delete == meant' = {} /\ stored' = {} /\ UNCHANGED shown

(* Someone else sets the bucket's rules. *)
Administer(rules) == meant' = Unknown /\ stored' = rules /\ UNCHANGED shown

Next ==
  \/ Get \/ PutBack \/ Delete
  \/ \E doc \in Documents : Put(doc)
  \/ \E rules \in Foreign : Administer(rules)

Spec == Init /\ [][Next]_vars

-----------------------------------------------------------------------------
(* What rules do to an object, on a day. Both are the services' own        *)
(* semantics, of which the code knows nothing but the names.               *)

Age(o, day) == day - o.created
Since(o) == {day \in Days : o.created <= day}

GCSMatches(g, o, day) ==
  /\ (g.action = "Abort") = o.upload
  /\ g.prefixes = {} \/ g.prefixes \cap o.under # {}
  /\ \A d \in g.age : Age(o, day) >= d
  /\ \A d \in g.before : o.created < d
  /\ g.archived => ~o.live
  /\ \A n \in g.newer : o.newer >= n
GCSDoes(o, day) == {g.action : g \in {h \in stored : GCSMatches(h, o, day)}}

(* The Filter of an enabled rule covers the object. *)
Covers(rule, o) ==
  /\ rule.enabled
  /\ rule.prefix \cup rule.andPrefix \subseteq o.under
  /\ rule.narrow = "no" \/ o.narrow

(* What the elements of a rule have done to objects, to all there are. *)
Elements(rule) ==
  {"Delete" : e \in rule.expire \cup rule.noncurrent}
    \cup {mapStorageClass[m.class] : m \in rule.moves}

(* What S3 takes a rule to order, at one time or another: an expiration    *)
(* or a transition is for the current version, unless the expiration is    *)
(* for delete markers only.                                                *)
Orders(rule, o) ==
  IF o.upload THEN {"Abort" : d \in rule.abort}
  ELSE IF ~o.live THEN {"Delete" : n \in rule.noncurrent}
  ELSE {"Delete" : e \in {e \in rule.expire : ~e.marker}}
         \cup {mapStorageClass[m.class] : m \in rule.moves}

(* S3 expires and moves current versions by age, and aborts uploads. *)
Due(days, o, day) == days # {} /\ \A d \in days : Age(o, day) >= d
S3DoesByAge(rule, o, day) ==
  IF ~Covers(rule, o) THEN {}
  ELSE IF o.upload THEN {"Abort" : d \in {d \in rule.abort : Age(o, day) >= d}}
  ELSE {"Delete" : e \in {e \in rule.expire : Due(e.days, o, day)}}
         \cup {mapStorageClass[m.class] : m \in {m \in rule.moves : Due(m.days, o, day)}}

-----------------------------------------------------------------------------
(* Properties.                                                             *)

TypeOK ==
  /\ stored \subseteq StoredRule
  /\ meant # Unknown => \A rule \in meant : WellFormed(rule)
  /\ \A rule \in shown : WellFormed(rule)

(* gcs_lifecycle.go:184-200, 273-284 (solutions.md:60): no object version  *)
(* is deleted or moved on any day unless the Filter of an enabled rule of  *)
(* the client's document covers it, tags and sizes included, and that rule *)
(* deletes or moves to that class. Uploads are the next property but two.  *)
ActsWithinFilter ==
  meant # Unknown =>
    \A o \in Objects : ~o.upload =>
      \A day \in Since(o) : \A does \in GCSDoes(o, day) :
        \E rule \in meant : Covers(rule, o) /\ does \in Elements(rule)

(* A rule says nothing but what GCS can express: no prefix of the rule     *)
(* itself, ages instead of dates and delete markers, and no prefix for     *)
(* uploads.                                                                *)
Plain(rule) ==
  /\ rule.legacy = {}
  /\ \A x \in rule.expire \cup rule.moves : x.days # {} /\ x.date = {}
  /\ rule.abort # {} => rule.prefix \cup rule.andPrefix = {}

(* gcs_lifecycle.go:202-268: for a document of plain rules, on every day   *)
(* GCS does to every current version and every upload what S3 would do:    *)
(* not a day early, nothing more, and nothing less.                        *)
PlainRulesMeanTheSame ==
  meant # Unknown /\ (\A rule \in Enabled(meant) : Plain(rule)) =>
    \A o \in Objects : o.live \/ o.upload =>
      \A day \in Since(o) :
        GCSDoes(o, day) = UNION {S3DoesByAge(rule, o, day) : rule \in meant}

(* gcs_lifecycle.go:286-351: what GET shows of rules that were put through *)
(* the proxy can be put back, and changes nothing: each prefix, age, date, *)
(* class and version count survives both translations, and nothing in it   *)
(* is refused. (Rules that others set can have more to say than GET shows.)*)
GetThenPutKeeps ==
  meant # Unknown =>
    LET again == TranslateGCSToS3Lifecycle(stored)
    IN  /\ TranslateS3ToGCSLifecycle(again) = stored
        /\ \A rule \in again : Supported(rule)

(* solutions.md:60: filters that cannot be translated are rejected "to     *)
(* prevent scope broadening". Whatever GCS does, a rule that covers it     *)
(* orders. A rule that aborts uploads under a prefix loses the prefix      *)
(* (gcs_lifecycle.go:258-267). Other documents break it too: an expiration *)
(* of delete markers, a rule's own prefix, noncurrent versions.            *)
NoScopeBroadening ==
  meant # Unknown =>
    \A o \in Objects : \A day \in Since(o) : \A does \in GCSDoes(o, day) :
      \E rule \in meant :
        Covers(rule, o) /\ rule.legacy \subseteq o.under /\ does \in Orders(rule, o)
=============================================================================
