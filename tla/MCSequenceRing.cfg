SPECIFICATION Spec
CONSTANTS
  Value = {v1, v2, v3}
  Junk = junk
  Capacities = {1, 2, 3, 5}
INVARIANT RingWellFormed
PROPERTY KeepsNewest
