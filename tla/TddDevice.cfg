SPECIFICATION Spec
SYMMETRY Symmetry
CONSTANTS
  Procs = {a, b, c}
  Bufs = {1, 2, 3}
  Msgs = {x, y}
  None = None
INVARIANT QueueIsSound
PROPERTY ImplementsFifo
CHECK_DEADLOCK FALSE
