SPECIFICATION Spec
CONSTANTS
  MaxClients = 2
  Rooms = {r1, r2}
  SeatCount = 2
  MaxTicks = 1
  NoRoom = NoRoom
INVARIANTS
  NobodyForgotten
CHECK_DEADLOCK FALSE
