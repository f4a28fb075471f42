SPECIFICATION Spec
CONSTANTS
  r1 = r1
  r2 = r2
  v1 = v1
  nothing = nothing
  empty = empty
  blank = blank
  unsupported = unsupported
  keep = keep
  refused = refused
  Requests = {r1}
  Subs = {"logging"}
  Values = {v1}
  Nothing = nothing
  Empty = empty
  Blank = blank
  Unsupported = unsupported
  Keep = keep
  Refused = refused
CHECK_DEADLOCK FALSE
PROPERTIES EmptyStatusDisables
