CONSTANTS
  Clients = {a, b, c}
  ncons = 2
  NoClient = nobody
SPECIFICATION FairSpec
CHECK_DEADLOCK FALSE
INVARIANTS SlotInTable SlotsNotShared
PROPERTIES QueuedAccepted
