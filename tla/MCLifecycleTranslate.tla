----------------------- MODULE MCLifecycleTranslate -----------------------
(***************************************************************************)
(* Values for model-checking LifecycleTranslate: one rule of every kind    *)
(* that the translation tells apart, alone or with one other in a          *)
(* document.                                                               *)
(***************************************************************************)
EXTENDS LifecycleTranslate, FiniteSets

CONSTANTS a, b

MCRule(enabled, prefix, andPrefix, narrow, expire, moves, noncurrent, abort) ==
  [enabled |-> enabled, legacy |-> {}, prefix |-> prefix, andPrefix |-> andPrefix,
   narrow |-> narrow, expire |-> expire, moves |-> moves, noncurrent |-> noncurrent,
   abort |-> abort]

MCExpire(days, date, marker) == {[days |-> days, date |-> date, marker |-> marker]}
MCMove(days, date, class) == [days |-> days, date |-> date, class |-> class]

MCExpiring(enabled, prefix, andPrefix, narrow, days) ==
  MCRule(enabled, prefix, andPrefix, narrow, MCExpire(days, {}, FALSE), {}, {}, {})

MCAbortUnderPrefix == MCRule(TRUE, {a}, {}, "no", {}, {}, {}, {1})

(* The form before Filter: a prefix of the rule itself. *)
MCLegacy == [MCExpiring(TRUE, {}, {}, "no", {1}) EXCEPT !.legacy = {a}]

MCRules ==
  {MCExpiring(TRUE, {a}, {}, "no", {2}),
   MCExpiring(TRUE, {}, {b}, "no", {1}),
   MCExpiring(TRUE, {}, {}, "filter", {1}),
   MCExpiring(TRUE, {}, {a}, "and", {1}),
   MCExpiring(FALSE, {}, {b}, "and", {1}),
   MCExpiring(TRUE, {a}, {}, "no", {0}),
   MCExpiring(TRUE, {}, {}, "no", {0}),
   MCRule(TRUE, {}, {}, "no", MCExpire({}, {2}, FALSE), {}, {}, {}),
   MCRule(TRUE, {a}, {}, "no", MCExpire({}, {BadDate}, FALSE), {}, {}, {}),
   MCRule(TRUE, {a}, {}, "no", MCExpire({}, {}, TRUE), {}, {}, {}),
   MCRule(TRUE, {b}, {}, "no", {}, {MCMove({1}, {}, "STANDARD_IA"), MCMove({3}, {}, "GLACIER")},
          {}, {}),
   MCRule(TRUE, {}, {}, "no", {}, {MCMove({}, {3}, "DEEP_ARCHIVE")}, {}, {}),
   MCRule(TRUE, {a}, {}, "no", MCExpire({3}, {}, FALSE),
          {MCMove({2}, {}, "INTELLIGENT_TIERING")}, {[days |-> {2}]}, {}),
   MCRule(TRUE, {}, {}, "no", {}, {}, {[days |-> {}]}, {2}),
   MCLegacy, MCAbortUnderPrefix}

MCDocuments == {doc \in SUBSET MCRules : Cardinality(doc) <= 2}
MCAbortDocuments == {{}, {MCAbortUnderPrefix}}

(* A prefix alone, and a rule for two prefixes, of which GET shows one. *)
MCForeign ==
  {{}, {GCSRule("Delete", {a, b}, {2}, {}, FALSE, {})},
   {GCSRule("ARCHIVE", {b}, {1}, {3}, FALSE, {1})}}

MCObject(under, narrow, created, upload, live, newer) ==
  [under |-> under, narrow |-> narrow, created |-> created, upload |-> upload, live |-> live,
   newer |-> newer]

(* No key begins with both prefixes, or b begins with a. *)
MCObjects ==
  {MCObject(under, narrow, created, FALSE, TRUE, 0) :
     under \in {{}, {a}, {b}, {a, b}}, narrow \in BOOLEAN, created \in {0, 2}}
  \cup {MCObject(under, FALSE, 0, FALSE, FALSE, newer) : under \in {{}, {a}}, newer \in {1, 2}}
  \cup {MCObject(under, FALSE, 1, TRUE, FALSE, 0) : under \in {{}, {a}}}

MCDays == 0..4
=============================================================================
