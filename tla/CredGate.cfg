SPECIFICATION GSpec
CONSTANTS
  k1 = k1
  k2 = k2
  s1 = s1
  s2 = s2
  blank = blank
  torn = torn
  nokey = nokey
  c1 = c1
  c2 = c2
  AccessKeys = {k1, k2}
  Secrets = {s1, s2}
  Blank = blank
  Garbage = {torn}
  Objects <- MCObjects
  InlinePayload <- MCGrown
  LegacyKey = k1
  LegacySecret = s2
  Envs <- MCEnvs
  MaxPublish = 2
  QueueCap = 1
  Clients = {c1, c2}
  NoKey = nokey
INVARIANTS GTypeOK NoEmptyAnswer SignedWithOwnPair NoFallback
PROPERTIES ImplementsAuthority
