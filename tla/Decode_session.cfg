\* Reports of up to three lines through a pipe that holds one, onto disks that
\* hold nothing, the preamble and one record, or all.
SPECIFICATION Spec
CONSTANTS
  UnknownName <- MCUnknown
  TimeDigits = 2
  Lines <- MCLines
  MaxLines = 3
  PipeSize = 1
  Rooms = {0, 2, 9}
CHECK_DEADLOCK FALSE
INVARIANTS TypeOK UnwarnedOutputIsWhole NothingIsLeftBehind OnlyFailureCutsOff
  TimesKeepTheirOrder
PROPERTIES OutputFollowsText DecodingEnds
