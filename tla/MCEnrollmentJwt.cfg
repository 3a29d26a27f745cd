SPECIFICATION Spec
CONSTANTS
  Calls = {c1, c2}
  Tokens = {t1, t2}
  Hosts = {h1}
  None = None
  MaxFaults = 0
SYMMETRY Symmetry
INVARIANTS OldJwtStops
CHECK_DEADLOCK FALSE
