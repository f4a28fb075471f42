SPECIFICATION Spec
CONSTANTS
  k1 = k1
  k2 = k2
  s1 = s1
  s2 = s2
  blank = blank
  torn = torn
  AccessKeys = {k1, k2}
  Secrets = {s1, s2}
  Blank = blank
  Garbage = {torn}
  Objects <- MCObjectsAll
  InlinePayload <- MCGrown
  LegacyKey = k1
  LegacySecret = s2
  Envs <- MCEnvs
  MaxPublish = 3
  QueueCap = 2
INVARIANTS TypeOK FromOneVersion LiveIsGated NoLostWakeup
PROPERTIES NeverEmptied NeverGoesBack Converges StopEndsWatcher
