CONSTANTS
  ULongMax = 127
  UintMax = 31
  PortMax = 15
  Connections = 4
  Files <- MCFiles
SPECIFICATION Spec
INVARIANT LoadsWhatIsWritten
CHECK_DEADLOCK FALSE
