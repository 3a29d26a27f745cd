SPECIFICATION MCPagesSpec
CONSTANTS
  Parts = {"device", "form", "list", "limiter", "admin"}
  Entries = {e1, e2, e3, e4}
  PageSize = 2
  MaxStamp = 4
  MaxWrites = 2
  d1 = d1
  d2 = d2
  t1 = t1
  t2 = t2
  r1 = r1
  r2 = r2
  k1 = k1
  k2 = k2
  None = None
  Nil = Nil
  Devices = {d1, d2}
  Toggles = {t1, t2}
  Reqs = {r1, r2}
  MaxEvents = 2
  Jobs = {r1, r2, j3}
  Platforms = {"windows", "linux"}
  Fields = {"name", "role"}
  MaxChanges = 1
  Keys = {k1, k2}
  Limit <- MCLimit
  Window <- MCWindow
  Second = 2
  GcPeriod = 2
  MaxTime = 7
  Users = {u1, u2}
  AdminReqs = {r1, r2}
  Menu <- MCMenu
  MaxFaults = 1
SYMMETRY MCPagesSymmetry
CHECK_DEADLOCK FALSE
INVARIANTS
  SlidingLimit
  RetryAfterHonoured
  ButtonsReturn
  ShownIsHeld
  WalkSeesAll
  AdminRemains
  TrailFollows
PROPERTIES
  SavesOnlyTouched
  ActsOnItsDevice
