SPECIFICATION Spec
CONSTANTS
  a = a
  b = b
  v = v
  delete = delete
  gone = gone
  r1 = r1
  r2 = r2
  Requests = {r1, r2}
  Keys = {a, b}
  Values = {v}
  Delete = delete
  OverwriteTags <- MCUntagged
  MaxGen = 2
  MaxMeta = 2
  MaxOld = 0
  Gone = gone
PROPERTIES PutReplacesTagSet
CHECK_DEADLOCK FALSE
