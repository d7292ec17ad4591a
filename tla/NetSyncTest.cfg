SPECIFICATION TestSpec
CONSTANTS
  Ports <- MCPorts
  DragTest = TRUE
  Phases = 2
  Ring = 1
  Batch = 1
  MaxEvents = 2
  MaxLives = 1
INVARIANTS TypeOK StudyIsCovered FailureIsReported
PROPERTY CaptureEnds
CHECK_DEADLOCK FALSE
