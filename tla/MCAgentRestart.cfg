SPECIFICATION AliveSpec
CONSTANTS
  FlagSets <- MCFewFlagSets
  Threshold = 2
  MaxCrashes = 1
  MaxFaults = 0
PROPERTIES
  SelfRecovers
