SPECIFICATION SlicesSpec
CONSTANTS
  Configs <- MCConfigs
  StartSymbols = {"work", "work_done"}
  EndSymbols = {"done", "work_done"}
  FilterEvents <- MCEvents
  MaxSeen = 5
CHECK_DEADLOCK FALSE
INVARIANTS PassesExactlyTheRegions CountsCompleteRegions WarnsExactlyWhenEmpty
