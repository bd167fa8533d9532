\* attach and a single Ctrl+C.
SPECIFICATION Spec
CONSTANTS
  Configs <- MCAttach
  MaxCtrlC = 1
CHECK_DEADLOCK FALSE
INVARIANT CtrlCStopsRecording
