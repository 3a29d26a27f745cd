SPECIFICATION AliveSpec
CONSTANTS
  FlagSets <- MCFlagSets
  Threshold = 2
  MaxCrashes = 1
  MaxFaults = 1
INVARIANTS
  WatchdogBound
  EffectsRemembered
  ReportsBeforeCut
PROPERTIES
  LiftsOnlyWhenJustified
  RecoversUninterrupted
  LiftReachesMachine
  ContainmentReturns
