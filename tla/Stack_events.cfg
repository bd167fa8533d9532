\* One thread, every kind of event, input that steps back once: to the first
\* event, or to a time before it, which the mapped times wrap.
SPECIFICATION Spec
CONSTANTS
  f = f  g = g  untraced = untraced  unknown = unknown
  Threads = {t1}
  Symbols <- MCSymbols
  Untraced = untraced
  Unknown = unknown
  Branches <- MCBranches
  Samples <- MCSamples
  FirstTime = 20
  TimeSteps <- MCSteps
  TimeModulus = 1000
  MaxEvents = 4
CHECK_DEADLOCK FALSE
INVARIANTS TimesStayInTrace FramesAreOpenSpans EndsNest BalancedAtFinish EndsInOrder
