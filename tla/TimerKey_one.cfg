CONSTANTS
  Procs = {a}
  NKeys = 2
  Signallers = {a}
SPECIFICATION TFairSpec
CHECK_DEADLOCK FALSE
INVARIANTS NothingCallsUnloadedModule KeyPublishedUnlessOvertaken
PROPERTIES TimerReaderServed
