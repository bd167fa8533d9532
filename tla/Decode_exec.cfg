\* perf script that cannot be executed.
SPECIFICATION Spec
CONSTANTS
  UnknownName <- MCUnknown
  TimeDigits = 2
  Lines <- MCLines
  MaxLines = 3
  PipeSize = 1
  Rooms = {0, 2, 9}
CHECK_DEADLOCK FALSE
INVARIANT ExecFailureThrows
