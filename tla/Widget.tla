--------------------------------- MODULE Widget ---------------------------------
(***************************************************************************)
(* One player's page: the iframe a host page embeds (widget-sdk), and the  *)
(* program in it (apps/widget-app/src/main.ts) that takes up a match left  *)
(* open, watches who waits for each game, paints the lobby, joins matches  *)
(* and paints their tables.  Every await is a step of its own: a press, a  *)
(* count, a view or an answer may come between any two.                    *)
(***************************************************************************)
EXTENDS Naturals, Sequences, SequencesExt, FiniteSets

CONSTANTS
  Catalogs,     \* the lists of games a page may be embedded with
  FamilyOf,     \* gameFamily of every game
  NoFamily,     \* lobby-screen.ts: no family is open
  HasUi,        \* the games gameUiRegistry has a renderer for
  Retries,      \* DEFAULT_RECONNECT_RETRIES
  MaxTries,     \* bound: attempts to join a match
  MaxReloads    \* bound: times the page is loaded again

ASSUME WidgetAssumption ==
  /\ Catalogs \subseteq Seq(DOMAIN FamilyOf)
  /\ \A g \in DOMAIN FamilyOf : FamilyOf[g] # NoFamily
  /\ {Retries, MaxTries, MaxReloads} \subseteq Nat

VARIABLES
  catalog,    \* bootstrap.catalog
  storing,    \* getBrowserStorage found a storage it may use
  session,    \* the stored match session: an attempt, 0 for none
  frame,      \* the iframe: "loading", "greeted", or "gone" once torn down
  layout,     \* layoutMode of the host page
  page,       \* what renderSelection holds:
              \*   boot      what it awaits: "hello", "resume", "watch", or "done", "dead"
              \*   tried     reconnections tried
              \*   resumed   enteredResumedMatch
              \*   watching  watchers subscribed
              \*   known     games presenceByGame has counts of
              \*   opened    the family open, or NoFamily
              \*   departed  the departure gate
  screen,     \* what is painted: its kind, the games it has buttons for, its attempt
  tries,      \* every attempt: its game, its rival, where it is
  reloads

embedVars == <<catalog, storing>>
widgetVars == <<embedVars, session, frame, layout, page, screen, tries, reloads>>

Games0 == ToSet(catalog)
Families == { FamilyOf[g] : g \in Games0 }       \* groupByFamily
OnlyFamily == CHOOSE f \in Families : TRUE

-----------------------------------------------------------------------------
(* Screens. *)

Screen(kind) == [kind |-> kind, games |-> {}, of |-> 0]
Blank      == Screen("blank")
Searching  == Screen("status")                   \* renderStatusMessage
Retry(n)   == [Screen("error") EXCEPT !.of = n]  \* renderErrorWithRetry
Table(n)   == [Screen("table") EXCEPT !.of = n]  \* a renderer, or renderUnsupportedGame

\* Seeded fault: a game is offered before its counts have come.
LobbyTooSoon(family, counts) ==
  IF family = NoFamily THEN Screen("families")
  ELSE [Screen("lobby") EXCEPT !.games = { g \in Games0 : FamilyOf[g] = family }]

\* renderGameList and renderGameSelection: a game whose counts have not come has no
\* button to press
Lobby(family, counts) ==
  IF family = NoFamily THEN Screen("families")
  ELSE [Screen("lobby") EXCEPT !.games = { g \in counts : FamilyOf[g] = family }]

\* affects
Affects(g) == page.opened = FamilyOf[g]

\* persistMatchSession: a write the storage refuses is forgotten
Persist(n) == session' \in (IF storing THEN {n, session} ELSE {0})

ClearedSession == 0

Doing(n, at) == tries' = [tries EXCEPT ![n].at = at]

\* enterMatch: the page fills the window, and every view is painted from now on
EnterMatch(n) ==
  /\ Doing(n, "live")
  /\ layout' = "fullscreen" /\ screen' = Table(n)

\* Every step of the page needs the page.
Loaded == frame = "greeted"

-----------------------------------------------------------------------------
(* Loading. *)

FreshPage ==
  [boot |-> "hello", tried |-> 0, resumed |-> FALSE, watching |-> 0, known |-> {},
   opened |-> IF Cardinality(Families) = 1 THEN OnlyFamily ELSE NoFamily,
   departed |-> FALSE]

WidgetInit ==
  /\ catalog \in Catalogs /\ storing \in BOOLEAN
  /\ session = 0 /\ tries = <<>> /\ reloads = 0
  /\ frame = "loading" /\ layout = "inline" /\ screen = Blank
  /\ page = FreshPage

\* "ready" and "host-hello": each side answers the other, and boot begins
HostHello ==
  /\ frame = "loading"
  /\ frame' = "greeted"
  /\ page' = [page EXCEPT !.boot = IF session = 0 THEN "watch" ELSE "resume"]
  /\ UNCHANGED <<embedVars, session, layout, screen, tries, reloads>>

\* The loader waits for "ready" for so long, and then takes its frame away.
ReadyTimeout ==
  /\ frame = "loading"
  /\ frame' = "gone"
  /\ UNCHANGED <<embedVars, session, layout, page, screen, tries, reloads>>

\* reconnectMatch succeeds: a new token, and the table once more
Resumed ==
  /\ Loaded /\ page.boot = "resume" /\ tries[session].at = "dropped"
  /\ page' = [page EXCEPT !.boot = "watch", !.resumed = TRUE, !.departed = TRUE]
  /\ Persist(session) /\ EnterMatch(session)
  /\ UNCHANGED <<embedVars, frame, reloads>>

\* reconnectMatch is refused: for good (the seat is closed), or for now, and then it
\* tries again until it has done so often enough
ResumeRefused ==
  /\ Loaded /\ page.boot = "resume"
  /\ \/ /\ page.tried < Retries
        /\ page' = [page EXCEPT !.tried = @ + 1]
        /\ UNCHANGED session
     \/ /\ page' = [page EXCEPT !.boot = "watch"]
        /\ session' = 0
  /\ UNCHANGED <<embedVars, frame, layout, screen, tries, reloads>>

\* Seeded fault: the lobby is painted at the end of boot whatever came before.
LobbyAnyway == TRUE
LobbyAtEnd == ~page.resumed

\* watchPresence settles; after the last one, or at once when there is none, the lobby
\* is painted, unless a match was taken up
Watch ==
  /\ Loaded /\ page.boot = "watch"
  /\ LET watching == IF catalog = <<>> THEN 0 ELSE page.watching + 1
         last     == watching = Len(catalog)
     IN  /\ page' = [page EXCEPT !.watching = watching, !.boot = IF last THEN "done" ELSE @]
         /\ screen' = IF last /\ LobbyAtEnd THEN Lobby(page.opened, page.known) ELSE screen
  /\ UNCHANGED <<embedVars, session, frame, layout, tries, reloads>>

\* It rejects, and nobody catches: the loop is over and its lobby never painted.
WatchRefused ==
  /\ Loaded /\ page.boot = "watch" /\ catalog # <<>>
  /\ page' = [page EXCEPT !.boot = "dead"]
  /\ UNCHANGED <<embedVars, session, frame, layout, screen, tries, reloads>>

\* The page is loaded again: what it held is gone, its connections drop.
Reload ==
  /\ reloads < MaxReloads
  /\ reloads' = reloads + 1
  /\ frame' = "loading" /\ layout' = "inline" /\ screen' = Blank
  /\ page' = FreshPage
  /\ tries' = [n \in DOMAIN tries |->
       [tries[n] EXCEPT !.at = IF @ \in {"live", "dropped"} THEN "dropped" ELSE "lost"]]
  /\ UNCHANGED <<embedVars, session>>

-----------------------------------------------------------------------------
(* The lobby. *)

CountsPaint(g) == ~page.departed /\ Affects(g)

\* onCounts
Counts(g) ==
  /\ Loaded /\ \E i \in 1 .. page.watching : catalog[i] = g
  /\ page' = [page EXCEPT !.known = @ \cup {g}]
  /\ screen' = IF CountsPaint(g) THEN Lobby(page.opened, page'.known) ELSE screen
  /\ UNCHANGED <<embedVars, session, frame, layout, tries, reloads>>

Show(family) ==
  /\ page' = [page EXCEPT !.opened = family]
  /\ screen' = Lobby(family, page.known)
  /\ UNCHANGED <<embedVars, session, frame, layout, tries, reloads>>

OpenGame(f) == Loaded /\ screen.kind = "families" /\ Show(f)
Back == Loaded /\ screen.kind = "lobby" /\ Cardinality(Families) > 1 /\ Show(NoFamily)

\* attempt
Attempt(g, rival) ==
  /\ Len(tries) < MaxTries
  /\ tries' = Append(tries, [game |-> g, rival |-> rival, at |-> "token"])
  /\ screen' = Searching

\* onPlayVsPerson and onPlayVsBot
PressPlay(g, rival) ==
  /\ Loaded /\ screen.kind = "lobby" /\ g \in screen.games
  /\ page' = [page EXCEPT !.departed = TRUE]
  /\ Attempt(g, rival)
  /\ UNCHANGED <<embedVars, session, frame, layout, reloads>>

\* The only button of an error: the same attempt, made again.
TryAgain ==
  /\ Loaded /\ screen.kind = "error"
  /\ Attempt(tries[screen.of].game, tries[screen.of].rival)
  /\ UNCHANGED <<embedVars, session, frame, layout, page, reloads>>

-----------------------------------------------------------------------------
(* Attempts. *)

\* The step of an attempt that waits for the server, and the one that follows:
\* withFreshToken, joinMatchmakingQueue, the pairing, joinMatchFromReservation; a
\* bot's match is made once there is a token.
Follows == [token |-> "joining", joining |-> "queued", queued |-> "taking"]
Answered(n) ==
  /\ Loaded /\ tries[n].at \in DOMAIN Follows
  /\ ~(tries[n].at = "joining" /\ tries[n].rival = "bot")
  /\ Doing(n, Follows[tries[n].at])
  /\ UNCHANGED <<embedVars, session, frame, layout, page, screen, reloads>>

\* The match is there.
Joined(n) ==
  /\ Loaded
  /\ \/ tries[n].at = "taking"
     \/ tries[n].at = "joining" /\ tries[n].rival = "bot"
  /\ Persist(n) /\ EnterMatch(n)
  /\ UNCHANGED <<embedVars, frame, page, reloads>>

\* Refused at any step, or told that the pairing failed.
Failed(n) ==
  /\ Loaded /\ tries[n].at \in {"token", "joining", "queued", "taking"}
  /\ Doing(n, "failed")
  /\ screen' = Retry(n)
  /\ UNCHANGED <<embedVars, session, frame, layout, page, reloads>>

-----------------------------------------------------------------------------
(* The table. *)

\* onView: the table of the match a view is of is what the page shows; a game with
\* no renderer only counts its views
View(n) ==
  /\ Loaded /\ tries[n].at = "live"
  /\ screen' = IF tries[n].game \in HasUi THEN Table(n) ELSE screen
  /\ UNCHANGED <<embedVars, session, frame, layout, page, tries, reloads>>

\* The socket closes; nothing listens for it.
Drop(n) ==
  /\ Loaded /\ tries[n].at = "live"
  /\ Doing(n, "dropped")
  /\ UNCHANGED <<embedVars, session, frame, layout, page, screen, reloads>>

\* onDepart: a game quit, or one that is over, and back to the lobby
ReturnToSelection ==
  /\ Loaded /\ screen.kind = "table"
  /\ Doing(screen.of, "left")
  /\ session' = ClearedSession
  /\ layout' = "inline"
  /\ page' = [page EXCEPT !.departed = FALSE]
  /\ screen' = Lobby(page.opened, page.known)
  /\ UNCHANGED <<embedVars, frame, reloads>>

WidgetNext ==
  \/ HostHello \/ ReadyTimeout \/ Resumed \/ ResumeRefused \/ Watch \/ WatchRefused \/ Reload
  \/ \E g \in Games0 : Counts(g) \/ \E rival \in {"person", "bot"} : PressPlay(g, rival)
  \/ \E f \in Families : OpenGame(f)
  \/ Back \/ TryAgain \/ ReturnToSelection
  \/ \E n \in DOMAIN tries : Answered(n) \/ Joined(n) \/ Failed(n) \/ View(n) \/ Drop(n)

WidgetSpec == WidgetInit /\ [][WidgetNext]_widgetVars

-----------------------------------------------------------------------------
(* Properties. *)

WidgetTypeOK ==
  /\ catalog \in Catalogs /\ storing \in BOOLEAN
  /\ session \in 0 .. Len(tries)
  /\ frame \in {"loading", "greeted", "gone"} /\ layout \in {"inline", "fullscreen"}
  /\ page \in [boot : {"hello", "resume", "watch", "done", "dead"}, tried : 0 .. Retries,
              resumed : BOOLEAN, watching : 0 .. Len(catalog), known : SUBSET Games0,
              opened : Families \cup {NoFamily}, departed : BOOLEAN]
  /\ screen.kind \in {"blank", "families", "lobby", "status", "error", "table"}
  /\ screen.games \subseteq page.known /\ screen.of \in 0 .. Len(tries)
  /\ \A n \in DOMAIN tries : tries[n].game \in Games0

\* "Once a player commits to a join attempt there is nothing left for a live count to
\* usefully redraw" (join-flow.ts:58-59): from a press to the way back, no lobby is
\* painted over the search, its error or the table.
LobbyStaysAway == page.departed => screen.kind \notin {"families", "lobby"}

\* The player is in one match at most, it is the one on screen, and the page is as
\* big as the screen asks for: no second match goes on unseen behind the lobby
\* (main.ts:171-268, 354-371, 508).
OneMatchInSight ==
  /\ \A n \in DOMAIN tries : tries[n].at = "live" => screen = Table(n)
  /\ layout = "fullscreen" <=> screen.kind = "table"

\* What is stored is the match a reload should return to: never one that was left,
\* nor one behind the match being played (main.ts:367, 409, 481).
SessionFollowsMatch ==
  /\ session # 0 => tries[session].at \in {"live", "dropped"}
  /\ \A n \in DOMAIN tries : tries[n].at = "live" => session \in {0, n}
=============================================================================
