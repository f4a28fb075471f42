SPECIFICATION Spec
CONSTANTS
  a = a
  b = b
  Prefixes = {a, b}
  BadDate = BadDate
  Unknown = Unknown
  Documents <- MCAbortDocuments
  Foreign <- MCForeign
  Objects <- MCObjects
  Days <- MCDays
INVARIANTS NoScopeBroadening
