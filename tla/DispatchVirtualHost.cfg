SPECIFICATION Spec
CONSTANTS
  NoBucket = "-"
  Shapes <- MCVirtualHosted
  FlagSets <- MCFlagSets
CHECK_DEADLOCK FALSE
INVARIANTS VirtualHostedMeets
