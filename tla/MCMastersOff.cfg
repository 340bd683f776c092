SPECIFICATION Spec
CONSTANTS
  Configurations <- MCConfigurations
  Packets <- MCPackets
INVARIANT OverriddenHaveNoEffect
CHECK_DEADLOCK FALSE
