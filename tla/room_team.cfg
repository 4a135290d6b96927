SPECIFICATION FairSpec
CONSTANTS
  SeatCount = 3
  HumanSeats = 3
  HasBot = TRUE
  Pauses = TRUE
  BotsMayThrow = TRUE
  MaxSteps = 3
  MaxChain = 3
  Hands = 1
  Callers = {0, 2}
  Raisers = {}
  Askers = {0, 1}
  Signallers = {0}
  Resigners = {2}
  GameStates <- TableStates
  Actions <- TableActions
  FirstState <- TableFirst
  Legal <- TableLegal
  Apply <- TableApply
  Over <- TableOver
  SystemMoves <- TableSystemMoves
  AbandonedMove <- TableAbandonedMove
  PartnerAsked <- TablePartner
  TypeOf <- TableType
  SubjectOf <- TableSubject
  NonBlocking <- TableNonBlocking
  HumanPriority <- TableHumanPriority
  PaidQuestion <- TablePaidQuestion
  NotStarted = NotStarted
  Refused = Refused
  NoMove = NoMove
INVARIANTS
  TypeOK
  ClockOnLiveMatch
  ConsultUnderClock
  NothingOutlivesRoom
  AnsweredOnce
  HumanHasFirstWord
PROPERTIES
  Authoritative
  EverythingSettles
CHECK_DEADLOCK FALSE
