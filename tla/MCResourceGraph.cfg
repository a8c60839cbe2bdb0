CONSTANTS
  NoName = "-"
  Blueprints <- MCBlueprints
  Settings <- MCSettings
CHECK_DEADLOCK FALSE
SPECIFICATION Spec
INVARIANTS TypeOK OneHome ContainersPlanned
PROPERTIES ImplementsDeclaredTree
