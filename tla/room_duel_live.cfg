SPECIFICATION FairSpec
CONSTANTS
  SeatCount = 2
  HumanSeats = 2
  HasBot = TRUE
  Pauses = TRUE
  BotsMayThrow = FALSE
  MaxSteps = 12
  MaxChain = 3
  Hands = 2
  Callers = {0, 1}
  Raisers = {}
  Askers = {}
  Signallers = {}
  Resigners = {}
  GameStates <- TableStates
  Actions <- TableActions
  FirstState <- TableFirst
  Legal <- TableLegal
  Apply <- TableApply
  Over <- TableOver
  SystemMoves <- TableSystemMoves
  AbandonedMove <- TableAbandonedMove
  PartnerAsked <- TablePartner
  TypeOf <- TableType
  SubjectOf <- TableSubject
  NonBlocking <- TableNonBlocking
  HumanPriority <- TableHumanPriority
  PaidQuestion <- TablePaidQuestion
  NotStarted = NotStarted
  Refused = Refused
  NoMove = NoMove
INVARIANTS
  OwedTurnIsTimed
PROPERTIES
  MatchEnds
CHECK_DEADLOCK FALSE
