SPECIFICATION Spec
CONSTANTS
  a = a
  b = b
  Prefixes = {a, b}
  BadDate = BadDate
  Unknown = Unknown
  Documents <- MCDocuments
  Foreign <- MCForeign
  Objects <- MCObjects
  Days <- MCDays
INVARIANTS TypeOK ActsWithinFilter PlainRulesMeanTheSame GetThenPutKeeps
