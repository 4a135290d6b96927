SPECIFICATION FairSpec
CONSTANTS
  SeatCount = 3
  HumanSeats = 2
  HasBot = TRUE
  Pauses = TRUE
  BotsMayThrow = FALSE
  MaxSteps = 12
  MaxChain = 3
  Hands = 1
  Callers = {2}
  Raisers = {}
  Askers = {}
  Signallers = {}
  Resigners = {}
  GameStates <- TableStates
  Actions <- TableActions
  FirstState <- TableFirst
  Legal <- TableLegal
  Apply <- TableApply
  Over <- TableOver
  SystemMoves <- TableSystemMoves
  AbandonedMove <- TableAbandonedMove
  PartnerAsked <- TablePartner
  TypeOf <- TableType
  SubjectOf <- TableSubject
  NonBlocking <- TableNonBlocking
  HumanPriority <- TableHumanPriority
  PaidQuestion <- TablePaidQuestion
  NotStarted = NotStarted
  Refused = Refused
  NoMove = NoMove
PROPERTIES
  MatchEnds
CHECK_DEADLOCK FALSE
