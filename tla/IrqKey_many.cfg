CONSTANTS
  Procs = {a, b}
  NKeys = 2
  Signallers = {a, b}
SYMMETRY ProcSymmetry
SPECIFICATION Spec
INVARIANTS TypeOK NoLostWakeup HandlerOwned UnloadSafe RegisteredLineEnabled
