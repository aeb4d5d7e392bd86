SPECIFICATION Spec
CONSTANTS
  Clients = {c1, c2, c3}
  ncons = 2
  NoClient = NoClient
INVARIANTS
  SlotFollowsDescriptor
  NeverBlocksInRecv
PROPERTIES
  RequestAnswered
  ImplementsPool
CHECK_DEADLOCK FALSE
