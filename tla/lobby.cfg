SPECIFICATION FairSpec
CONSTANTS
  MaxClients = 3
  Rooms = {r1}
  SeatCount = 3
  MaxTicks = 1
  NoRoom = NoRoom
INVARIANTS
  TypeOK
  SeatedOnce
  NobodyForgotten
PROPERTIES
  WaitEnds
CHECK_DEADLOCK FALSE
