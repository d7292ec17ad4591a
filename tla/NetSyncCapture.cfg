SPECIFICATION CaptureSpec
CONSTANTS
  Ports <- MCPorts
  DragTest = FALSE
  Phases = 1
  Ring = 2
  Batch = 1
  MaxEvents = 3
  MaxLives = 2
 
PROPERTY CaptureEnds
CHECK_DEADLOCK FALSE
