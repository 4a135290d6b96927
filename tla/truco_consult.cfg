SPECIFICATION BotsSpec
CONSTANTS
  PointsToWin = 2
  TrucoTables = {4}
  TrucoDeals <- MCTrucoDeals
  SenaBudget = 1
  Signallers = {2}
  Claims <- MCClaims
  Choosers <- MCChoosers
INVARIANTS
  QuestionsHaveAnswers
CHECK_DEADLOCK FALSE
