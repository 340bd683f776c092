SPECIFICATION Spec
CONSTANTS
  Configurations <- MCConfigurations
  Packets <- MCPackets
INVARIANTS
  SectionsReadCollected
  CollectedIsRead
CHECK_DEADLOCK FALSE
