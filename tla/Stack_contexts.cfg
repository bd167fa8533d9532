\* One thread that enters the kernel by syscall and hardware interrupt.
SPECIFICATION ContextSpec
CONSTANTS
  f = f  g = g  untraced = untraced  unknown = unknown
  Threads = {t1}
  Symbols <- MCSymbols
  Untraced = untraced
  Unknown = unknown
  Branches = {}
  Samples = {}
  Entries = {"Syscall", "HardwareInterrupt"}
  Programs <- MCPrograms
  FirstTime = 10
  TimeSteps <- MCOrdered
  TimeModulus = 1000
  MaxEvents = 5
CHECK_DEADLOCK FALSE
INVARIANT FramesMatchProgram
PROPERTY ResumesWhereInterrupted
