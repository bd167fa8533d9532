\* The same with the interrupts that perf prints as "int".
SPECIFICATION ContextSpec
CONSTANTS
  f = f  g = g  untraced = untraced  unknown = unknown
  Threads = {t1}
  Symbols <- MCSymbols
  Untraced = untraced
  Unknown = unknown
  Branches = {}
  Samples = {}
  Entries = {"Interrupt"}
  Programs <- MCPrograms
  FirstTime = 10
  TimeSteps <- MCOrdered
  TimeModulus = 1000
  MaxEvents = 5
CHECK_DEADLOCK FALSE
INVARIANT FramesMatchProgram
