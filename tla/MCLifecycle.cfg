\* Every class, with at most two fields that are declared or have drifted: the
\* one an update pops and one that waits.
SPECIFICATION Spec
CONSTANTS
  Classes <- AllClasses
  MaxTouched = 2
INVARIANTS TypeOK PlansCleanly NoDriftMissed
PROPERTIES CreatedMatches UpdateSettles Settles
