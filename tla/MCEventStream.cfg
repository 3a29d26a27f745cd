SPECIFICATION Spec
CONSTANTS
  Tabs = {t1}
  Streams = {s1, s2}
  NoStream = NoStream
  Reqs = {r1, r2}
  Elsewhere = Elsewhere
  MaxRetryDelay = 3
  MaxFaults = 1
CHECK_DEADLOCK FALSE
INVARIANTS
  ShowsLastChange
PROPERTIES
  Reconnects
