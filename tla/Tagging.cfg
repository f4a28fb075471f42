SPECIFICATION Spec
CONSTANTS
  a = a
  b = b
  v = v
  delete = delete
  gone = gone
  r1 = r1
  r2 = r2
  Requests = {r1, r2}
  Keys = {a, b}
  Values = {v}
  Delete = delete
  OverwriteTags <- MCAnyTags
  MaxGen = 2
  MaxMeta = 2
  MaxOld = 1
  Gone = gone
INVARIANTS TypeOK SameMetaSameTags RetryIsIdempotent AnswersAreHonest
PROPERTIES ExactOnSameObject ImplementsRegister
CHECK_DEADLOCK FALSE
SYMMETRY MCSymmetry
