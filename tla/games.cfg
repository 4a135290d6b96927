SPECIFICATION GamesSpec
CONSTANTS
  PointsToWin = 2
  TrucoTables = {2, 4}
  TrucoDeals <- MCTrucoDeals
  SenaBudget = 1
  Signallers = {2}
  Claims <- MCClaims
  Choosers <- MCChoosers
  EscobaTarget = 2
  EscobaTables <- MCEscobaTables
  EscobaMaxScore = 1
  GeneralaTables <- MCGeneralaTables
  Throws <- MCThrows
  Layout <- Ridge
  Wall <- MCWall
INVARIANTS
  GamesTypeOK
  OneWinner
  TricksDecide
  EnvidoIsFair
  CardsKept
  OffersAreTheRules
  CardFilledInOrder
  BotsReckonRight
  DealSolvable
PROPERTIES
  CallsRunTheirCourse
  KeepsPort
  MatchEnds
CHECK_DEADLOCK FALSE
