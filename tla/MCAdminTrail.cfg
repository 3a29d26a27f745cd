SPECIFICATION AdminSpec
CONSTANTS
  Users = {u1, u2}
  AdminReqs = {r1, r2, r3}
  Menu <- MCMenu
  MaxFaults = 1
CHECK_DEADLOCK FALSE
SYMMETRY Symmetry
PROPERTIES
  TrailAppendOnly
