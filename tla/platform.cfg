SPECIFICATION PlatformSpec
CONSTANTS
  t1 = t1
  t2 = t2
  k1 = k1
  k2 = k2
  g1 = g1
  a1 = a1
  page = page
  widget = widget
  TenantIds = {t1, t2}
  EmbedKeys = {k1, k2}
  PageOrigins = {page}
  TenantGames = {g1}
  Themes = {"legible", "dark"}
  LegibleThemes = {"legible"}
  NoTheme = NoTheme
  Unset = Unset
  Days = {0, 1}
  TicksPerDay = 2
  BehindUtc = 1
  Saves = {s1, s2}
  Visits = {1, 2}
  Addresses = {a1}
  NoAddress = NoAddress
  WidgetOrigins = {widget}
  Limit = 2
  Window = 2
  TtlSeconds = 1
  TicksPerSecond = 2
  MaxTrackedKeys = 1
  Runners = {r1, r2}
  Panels = {p1}
  Files = 2
  NoRunner = NoRunner
  Scenes = {"saves", "door", "replay", "limits", "schema"}
  Bounds <- MCBounds
  TenantsAtFirst <- MCTenantsAtFirst
  AsksIn <- MCAsksIn
  RequestsIn <- MCRequestsIn
  JoinsIn <- MCJoinsIn
INVARIANTS
  PlatformTypeOK
  AuditTellsTheState
  DoorAgreesWithThePanel
  LessThanTwiceTheLimit
  OncePerToken
  SchemaGrowsInOrder
CHECK_DEADLOCK FALSE
