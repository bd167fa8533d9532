\* A call of a function in an anonymous namespace.
SPECIFICATION RegionsSpec
CONSTANTS
  Threads <- MCThreads
  Symbols <- MCSymbols
  Untraced <- untraced
  Unknown <- unknown
  Branches <- MCAnonymousCall
  Samples <- MCSamples
  FirstTime = 10
  TimeSteps <- MCOrdered
  TimeModulus = 1000
  MaxEvents = 2
  Strings <- MCStrings
  EmptyString <- MCEmpty
  Effective <- MCEffective
  PidName <- MCPidName
  TidName <- MCTidName
  ProcessLabel <- process
  MaxStringId = 6
  MaxThreadSlots = 1
  CounterModulus = 2
  Configs <- MCNoFilter
  StartSymbols <- MCStart
  EndSymbols <- MCEnd
  Category <- trace
  Declarations <- MCDeclarations
CHECK_DEADLOCK FALSE
INVARIANT SymbolsHaveNames
