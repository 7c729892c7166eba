\* Two pipelines and two signals.  The process ends, so may the behaviour.
SPECIFICATION ProcessLiveSpec
CONSTANTS
  Pipelines = 2
  MaxSignals = 2
INVARIANTS
  CleanReturn
PROPERTIES
  OneEndsAllEnd
  SignalEndsProcess
CHECK_DEADLOCK FALSE
