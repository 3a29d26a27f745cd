SPECIFICATION MCSpec
CONSTANTS
  Calls = {c1, c2, c3}
  Tokens = {t1, t2}
  Hosts = {h1, h2}
  Windows = {h2}
  None = None
  MaxFaults = 1
SYMMETRY Symmetry
INVARIANTS AgentStays TokenNotWasted AnswerIsEarned OneDeviceInSequence DeletionStands OneUseInSequence
PROPERTIES CompleteMeansInstalled
CHECK_DEADLOCK FALSE
