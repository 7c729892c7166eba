\* A signal while the main thread is inside the event.
SPECIFICATION ProcessSpec
CONSTANTS
  Pipelines = 2
  MaxSignals = 2
INVARIANTS
  SafeInHandler
CHECK_DEADLOCK FALSE
