--------------------------------- MODULE Screens ---------------------------------
(***************************************************************************)
(* What somebody has on screen.  A player: the page that holds the lobby   *)
(* and enters matches, or the table of the match it is in.  The page hands *)
(* its container, every view and the dispatch of actions to the renderer   *)
(* gameUiRegistry has for the match's game, and reads nothing back but the *)
(* wish to leave (main.ts, enterMatch), so that each is followed by itself.*)
(* An operator: the admin panel, which is another program.                 *)
(***************************************************************************)
EXTENDS Widget, TrucoTable, EscobaTable, GeneralaTable, MahjongTable, Panel

VARIABLE scene   \* what is followed: the page, the renderer of a game, or the panel

screensVars == <<scene, widgetVars, screenVars, eScreenVars, gScreenVars, mScreenVars, panelVars>>

Scenes == {"page", "truco", "escoba", "generala", "mahjong", "panel"}

\* What is not followed stays as it began, at one of the beginnings it has.
ScreensInit ==
  /\ scene \in Scenes
  /\ WidgetInit /\ TableInit /\ ETableInit /\ GTableInit /\ MTableInit /\ PanelInit
  /\ scene # "page" => storing /\ catalog = CHOOSE c \in Catalogs : TRUE
  /\ scene # "truco" => seatCount = Max(TrucoTables)
  /\ scene # "escoba" => etable = CHOOSE t \in EscobaTables : TRUE
  /\ scene # "generala" =>
       LET t == CHOOSE u \in GeneralaTables : TRUE IN gcards = t.cards /\ gtier = t.tier
  /\ scene # "panel" => server.may = CHOOSE g \in Grants : TRUE
  /\ scene # "panel" => ~server.live /\ ~server.staff[Self].manages

ThePage ==
  scene = "page" /\ WidgetNext
  /\ UNCHANGED <<scene, screenVars, eScreenVars, gScreenVars, mScreenVars, panelVars>>
TheTrucoTable ==
  scene = "truco" /\ TableNext
  /\ UNCHANGED <<scene, widgetVars, eScreenVars, gScreenVars, mScreenVars, panelVars>>
TheEscobaTable ==
  scene = "escoba" /\ ETableNext
  /\ UNCHANGED <<scene, widgetVars, screenVars, gScreenVars, mScreenVars, panelVars>>
TheGeneralaTable ==
  scene = "generala" /\ GTableNext
  /\ UNCHANGED <<scene, widgetVars, screenVars, eScreenVars, mScreenVars, panelVars>>
TheMahjongTable ==
  scene = "mahjong" /\ MTableNext
  /\ UNCHANGED <<scene, widgetVars, screenVars, eScreenVars, gScreenVars, panelVars>>
ThePanel ==
  scene = "panel" /\ PanelNext
  /\ UNCHANGED <<scene, widgetVars, screenVars, eScreenVars, gScreenVars, mScreenVars>>

ScreensNext ==
  \/ ThePage \/ TheTrucoTable \/ TheEscobaTable \/ TheGeneralaTable \/ TheMahjongTable
  \/ ThePanel

ScreensSpec == ScreensInit /\ [][ScreensNext]_screensVars

-----------------------------------------------------------------------------
(* Properties. *)

ScreensTypeOK ==
  /\ scene \in Scenes
  /\ WidgetTypeOK /\ TableTypeOK /\ ETableTypeOK /\ GTableTypeOK /\ MTableTypeOK
  /\ PanelTypeOK

\* The page shows one thing, and the right one: never a lobby over the search or the
\* match a player has gone to, never a match that goes on unseen behind it; and what is
\* stored for a reload is that match or none.
OneThingOnThePage == LobbyStaysAway /\ OneMatchInSight /\ SessionFollowsMatch

\* Every table keeps, from one view to the next, what its player has marked but not
\* played.  No mark outlives what it was made on, whoever moved in between and
\* however late the last move of the player was: cards that can be taken, dice of
\* this throw, a tile that can be lifted.
MarksAreOfThisView == MarksAreTakeable /\ HeldIsOfThisThrow /\ SelectionLives

\* Nothing on a table is left over from an earlier view: no mark, no question of a
\* partner that the room has closed, and no notice that nothing will take away.
NothingStaleOnTheTable == MarksAreOfThisView /\ AskedWhileOpen /\ NoticesHaveTimers

\* What a table says, it says once: the time of a turn, of a throw, the score of a
\* hand, the end of a match and how long it took, under any number of views.
SaidOnce == ClockSaidOnce /\ ThrowTimedOnce /\ HandToldOnce /\ TimeStands

\* And it says it, whichever views were skipped: every call is in the history, in
\* order and once, and every move a bot made in my place has its notice.
ToldOnce == SaidOnce /\ CallsLogged /\ AutoplayIsTold
=============================================================================
