SPECIFICATION ScreensSpec
CONSTANTS
  Me = 0
  MaxPresses = 1
  Catalogs <- MCOneFamily
  FamilyOf <- MCFamilyOf
  NoFamily = NoFamily
  HasUi <- MCHasUi
  Retries = 1
  MaxTries = 2
  MaxReloads = 1
  PointsToWin = 2
  TrucoTables = {2, 4}
  TrucoDeals <- MCTrucoDeals
  SenaBudget = 1
  Signallers = {0, 2}
  Choosers <- MCChoosers
  Callers <- MCCallers
  Calls = {1}
  EscobaTarget = 2
  EscobaTables <- MCEscobaTables
  EscobaMaxScore = 1
  GeneralaTables <- MCGeneralaTables
  Throws <- MCThrows
  Layout <- Steps
  Wall <- MCWall
  MaxTime = 2
  PanelTenants = {t1, t2}
  FirstTenant = t1
  Fields = {"theme", "window"}
  Staff = {me, other}
  Self = me
  Grants <- MCGrants
  NoTenant = NoTenant
  Wires = {1, 2}
  MaxClicks = 4
INVARIANT LobbyStaysAway
CHECK_DEADLOCK FALSE
