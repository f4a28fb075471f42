SPECIFICATION Spec
CONSTANTS
  NoBucket = "-"
  Shapes <- MCShapes
  FlagSets <- MCFlagSets
CHECK_DEADLOCK FALSE
INVARIANTS TypeOK DisabledIsUnreachable MeetsAddressed OnlyGCSClasses CountedAsDone LoggedAsDone
