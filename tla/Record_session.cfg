\* Every configuration; Ctrl+C at most twice.
SPECIFICATION Spec
CONSTANTS
  Configs <- MCConfigs
  MaxCtrlC = 2
CHECK_DEADLOCK FALSE
INVARIANTS TypeOK RecordingHasEnded SignalsReachOnlyPerf SnapshotComesFirst
PROPERTIES CtrlCEndsAttach EndOfPerfIsNoticed
