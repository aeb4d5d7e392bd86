SPECIFICATION Spec
CONSTANTS
  Clients = {a, b}
  NoClient = NoClient
  ncons = 3
  Pids = {1, 2, 3, 4}
  Builds <- OppositeBuilds
INVARIANT CountCoversSlots
PROPERTIES SlotOutlivesItsChild RoomIsMade ImplementsPool
