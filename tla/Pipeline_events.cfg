\* Two threads take turns in one slot, and the string ids run out; without a
\* filter and with slices.
SPECIFICATION RegionsSpec
CONSTANTS
  Threads <- MCThreads
  Symbols <- MCSymbols
  Untraced <- untraced
  Unknown <- unknown
  Branches <- MCBranches
  Samples <- MCSamples
  FirstTime = 10
  TimeSteps <- MCOrdered
  TimeModulus = 1000
  MaxEvents = 4
  Strings <- MCStrings
  EmptyString <- MCEmpty
  Effective <- MCEffective
  PidName <- MCPidName
  TidName <- MCTidName
  ProcessLabel <- process
  MaxStringId = 6
  MaxThreadSlots = 1
  CounterModulus = 2
  Configs <- MCConfigs
  StartSymbols <- MCStart
  EndSymbols <- MCEnd
  Category <- trace
  Declarations <- MCDeclarations
CHECK_DEADLOCK FALSE
INVARIANTS EventsKeepTheirThread EventsKeepTheirNames NamesAreShortened
  WarnedOutputIsEmpty OutputIsOfTheRegions
