# TLA+ verification of Convite

Convite is a multitenant platform for small embeddable games: a tenant's page
loads a widget, the widget queues its visitor in a lobby, the lobby groups
visitors into a match, and an authoritative room plays the match, filling in
with bots whoever is missing or leaves. This directory holds TLA+ models of the
parts whose correctness depends on what happens *between* two awaits, two views
or two statements, and of the games themselves; TLC configurations that check
them on small instances; and TLAPS proofs of what must hold at any size. Paths
below are relative to the repository's root; `match-room.ts` is
`packages/transport-colyseus/src/match-room.ts`.

- [Reading order](#reading-order)
- [Inventory](#inventory)
- The match and its lobby: [MatchRoom](#matchroom), [PresenceRoom](#presenceroom)
- [The games](#the-games)
- [The player's screen](#the-players-screen)
- The platform: [OperatorAccounts](#operatoraccounts), [Tenants, door and schema](#tenants-door-and-schema)
- [Runs](#runs)
- [Where the code and its documentation disagree](#where-the-code-and-its-documentation-disagree)
- [Proofs](#proofs)
- [Limits](#limits)
- [Plan](#plan)

## Reading order

| file | what it is |
| --- | --- |
| `Match.tla` | the abstract specification: what a room promises of a match |
| `MatchRoom.tla` | the room, for any game, any number of seats |
| `MCMatchRoom.tla`, `room_*.cfg` | a small game and the tables TLC plays it at |
| `MatchRoomProofs.tla` | the inductive invariant of the room, and the room implements `Match` |
| `PresenceRoom.tla`, `lobby*.cfg` | the lobby over the Redis queue, any number of rooms |
| `PresenceRoomProofs.tla` | nobody is seated twice, for any number of rooms and clients |
| `GamePort.tla` | the abstract specification: what the room may assume of any game |
| `Truco.tla`, `Escoba.tla`, `Generala.tla`, `Mahjong.tla` | the four games, engine, module and bots |
| `TrucoBots.tla`, `MCTruco.tla`, `truco_consult.cfg` | what a truco seat is shown, what a question finds at the partner, and what each tier of bot does with both |
| `Games.tla`, `MCGames.tla`, `games.cfg` | the games behind the registry; each implements `GamePort` |
| `TrucoProofs.tla` | what a truco match pays, when a hand is decided, who wins an envido and what its bots read of the table, for any deal |
| `GamesProofs.tla` | escoba keeps its cards and offers what its rules say, generala keeps its order, mahjong deals boards that can be cleared, the hard bots reckon right, and every game implements `GamePort`, for any deck, dice and wall |
| `Widget.tla` | the page a visitor loads: boot, lobby, attempts to join, the stored match |
| `GameTable.tla`, `TrucoTable.tla`, `EscobaTable.tla`, `GeneralaTable.tla`, `MahjongTable.tla` | what the renderer of each game keeps from one view to the next |
| `Panel.tla` | the admin panel in one operator's browser: shell, screens, requests under way, and the process that answers |
| `Screens.tla`, `MCScreens.tla`, `screens*.cfg` | page, tables and admin panel: what somebody has on screen |
| `ScreensProofs.tla` | nothing stale and nothing unsaid on a table, one thing on the page, and a panel that shows what the process holds, for any tables, attempts and requests |
| `Tenants.tla`, `Office.tla`, `Door.tla`, `Migrations.tla` | the tenants' rows and calendar; the panel that saves them; tokens, joins and limiters; the schema |
| `Platform.tla`, `MCPlatform.tla`, `platform.cfg` | the four above over one database |
| `MigrationsProofs.tla` | the schema grows file by file, for any number of runners |
| `PlatformProofs.tla` | audit log, door, tokens and limiters, for any number of saves, visits and processes |
| `OperatorAccounts.tla`, `accounts*.cfg` | the admin panel's accounts as Postgres transactions |
| `OperatorAccountsProofs.tla` | somebody can always administer, for any number of calls |
| `PROJECT.json` | components, runs, seeded faults, source lines of every definition, hazards, theorems |

To check a run: `tlc -workers 2 -config games.cfg MCGames`. The cfgs that
start with `room` belong to `MCMatchRoom`, `lobby` to `PresenceRoom`, `games` to
`MCGames`, `truco` to `MCTruco`, `screens` to `MCScreens`, `platform` to `MCPlatform`, `accounts` to
`OperatorAccounts`. To check a proof: `tlapm MatchRoomProofs.tla`, and so on.

Definitions whose comment begins with "Seeded fault" are not part of a model. Each
is a plausible mistake in one definition (a guard left out, a reset forgotten, a
value read too early); putting it in the place of that definition makes the
property it is paired with in `PROJECT.json` fail, which shows that the property
really looks at the code it is about.

## Inventory

| component | state it keeps | operations | status |
| --- | --- | --- | --- |
| Match room (`match-room.ts`) | match state, controllers by player, client of each seat, turn timer and its seat, open consult, bought answers, chain of jobs | join, leave, reconnect, quit, action, consult, consult answer, request view, advance, timeouts, dispose | `MatchRoom` (views and refusals' messages left out) |
| Lobby (`presence-room.ts`) and pool (`redis-matchmaking-pool.ts`, `presence.ts`) | each room's `waiting` and watchers; the queue of each game and modality, in Redis or in memory | join, leave, try to form a group, hand off, degrade long waits, sweep zombies, broadcast counts | `PresenceRoom` (watchers, failing Redis left out) |
| Truco engine and module | hands, tricks, truco and envido chains, señas, score | deal, play a card, call and answer truco and envido, declare, seña, consult; project a view | `Truco`, `TrucoBots` (seña ordinals left out) |
| Escoba engine and module | table, hands, stock, piles, escobas, score | deal, play a card with a capture or without | `Escoba` |
| Generala engine and module | score cards, dice, throws used | throw, hold, score a box | `Generala` (the order of the dice left out) |
| Mahjong solitaire engine and module | the board | lay, remove a pair, abandon | `Mahjong` |
| Bots | none between decisions | choose an action, weigh a partner's answer, signal | `TrucoBots` for every tier of truco; the escoba and generala bots in their games (delays left out) |
| Registry and port (`registry.ts`, `platform-contract`) | static table of modules | classify actions, build modules | `Games`, `GamePort`; `ModuleAssumption` for the room |
| Widget page (`apps/widget-app`) | selection state, attempts, stored session, layout | boot, watch counts, press a game, join step by step, reconnect, leave, reload | `Widget` (wording, themes, heartbeat left out) |
| Tables of the four games (`*-ui`, `game-ui-registry.ts`) | notices, marks, holds, history, announcers, chronometer | view, press, timers | `TrucoTable`, `EscobaTable`, `GeneralaTable`, `MahjongTable` (drawing left out) |
| Session tokens, tenants, replay guard | tenants' rows; used token ids with their expiry | mint, renew, join, consume | `Tenants`, `Door` (signatures, malformed bodies left out) |
| Rate limiters | fixed windows by key, in process or in Redis | allow, sweep | `Door` |
| Tenant administration, audit log (`apps/admin`) | tenant rows, audit rows | create, rotate the key, origins, games, window, theme | `Office` (what is only read: `Panel`) |
| Admin panel screens (`apps/admin/src/ui`, `index.ts`, `routing.ts`) | shell (probe, section, tenant open), the screen mounted, requests on their way | log in and out, list, open, create, save each editor, rotate the key, directory of operators, audit filters, password | `Panel` (typing, copy button, drawing left out) |
| Postgres migrations | applied file names; a session lock | run pending files; the panel's check at boot | `Migrations` |
| Operator accounts (`operator-*.ts`, `last-account-manager.ts`, `apps/admin`) | `operators`, `operator_permissions`, `operator_sessions`; advisory lock 4021 | create, enable, disable, grant, revoke, change and reset password, log in, log out | `OperatorAccounts` (other permissions, hashes, expiry, audit rows left out) |
| Composition roots, HTTP routing, messages, dice and card drawing, style sheets | configuration; pages | wiring; presentation | not modelled |

How they interact. The widget asks the mint server for a session token and joins a
`PresenceRoom` with it. The lobby calls the pool (`join`, `leave`, `tryPairSeats`),
and when a group is popped creates a match room, reserves a seat for each member
and sends it the reservation. A client joins the match room with its reservation;
the room checks its token and tenant, spends the token, and then calls the
`GameModule` (pure functions), the registry's classifiers and the bots (promises),
and sends every client its view, which the page hands to the renderer of the
match's game. The admin panel shares the Postgres database with the mint server
and the rooms, which only read tenants; its own requests run concurrently on a
connection pool, and a login is not a transaction at all.

What is hard in each, and what makes it correct:

- **Match room.** One event loop, but every bot decision, advice and pause is
  awaited, and actions, clocks, quits and dispositions run meanwhile. The clock of a
  turn, the consult under it and the chain of jobs each outlive the callback that
  started them. *Correct* when: the match moves only by moves the module offered,
  and never after its end; a person who owes a move is on a clock; nothing survives
  the room; a consult is answered at most once and always closes; a person has the
  first word where the registry says so; and a started match is played to its end.
- **Lobby.** The queue lives in Redis and is shared by every room of the game; the
  record of who waits lives in one room and is updated after an await. *Correct*
  when: nobody is seated twice; whoever waits can be found; and everybody who stays
  is told something.
- **Games.** Long sequences of legal moves reach corners of the call chains that a
  table of unit tests does not; the same rule is often written twice, once to offer a
  move and once to accept it. *Correct* when: the two agree; it is always somebody's
  move; the score is what the hands gave; and a match always ends.
- **Screens.** Views, presses, timers and reconnections come in any order, and every
  renderer keeps something from one view to the next. *Correct* when: what is shown or
  marked belongs to the view on screen; what has to be said is said, once; and one match
  is in sight.
- **Admin panel.** Requests are served and answered in any order, are lost on either way, and outlive
  the component that made them. *Correct* when: whatever a screen waits for has been asked; and a panel at
  rest shows what the process holds.
- **Accounts and tenants.** READ COMMITTED lets two transactions each see the row the
  other is about to change. *Correct* when: an enabled account holding
  `operators.manage` is always left; no lock outlives its transaction; a
  disabled account's sessions are gone for good; the audit log tells what the row holds.
- **Door.** Each check of a visit reads the tenant or a store at a different moment.
  *Correct* when: whoever is let in is let in by the tenant as last saved; a token
  opens one seat; a key gets a bounded number of calls in any stretch of time.
- **Schema.** Processes of different builds run migrations at once and die anywhere.
  *Correct* when: files are committed once and in order, and nobody serves behind its own build.

The hazards, each at its line and with the properties that watch it, are listed in
`PROJECT.json`.

## MatchRoom

`MatchRoom.tla` models one room in one Node process. What the code does after a
message, a timer or a socket event without awaiting is one action; where it awaits
(a strategy's `chooseAction`, `adviceFor`, the pause before a system action, the
previous link of `advanceChain`) the two halves are separate actions, with
everything else possible in between. `Yielded` is the one fact about the event loop
the model needs: a macrotask starts only when no microtask is pending, that is when
the running job is at an await or there is nothing queued.

The room never looks into a game, and neither does the model: the game is a
constant operator each for `getLegalActions`, `applyAction`, `getOutcome`,
`getSystemAction`, `getAbandonedSeatAction` and `getConsultAsk`, and a set of actions
each for the registry's classifiers (non-blocking, human-priority, paid question).

| variable | code | | action | code |
| --- | --- | --- | --- | --- |
| `game` | `matchState` | | `Join` | `onJoin`, with `startMatch` by the join that fills the table |
| `order`, `kind` | `controllers`, in insertion order | | `Drop`, `Reconnect`, `WindowExpires` | `onLeave`, `onReconnect`, the rejected `allowReconnection` |
| `link` | the seat's client and its window | | `Quit` | `handleQuit` |
| `clock` | `turnTimerSeat` while a timer runs | | `TakeOver` | `takeOverSeat`, `endMatchOnAbandonedSeat` |
| `consult`, `consultSeq` | `pendingConsult`, its counter | | `HandleAction`, `HandleConsult`, `HandleConsultAnswer` | the message handlers |
| `chain`, `job` | `advanceChain`: queued jobs, and where the running one stands | | `TurnExpires`, `ConsultCapExpires` | `onTurnExpired`, `queueConsultFallback` |
| `opinions` | `handleConsult` calls awaiting `adviceFor` | | `StartJob` ... `PauseEnds` | `runAdvanceOnce`, step by step |
| `advised` | the `advice` messages of `resolveConsult` | | `TimedOutMove`, `FallbackAnswers` ... | `runTimedOutTurnOnce`, `runConsultFallbackOnce` |
| `bought` | `boughtAnswers` | | `Arm`, `BroadcastTo`, `Show` | `armTurnTimer`, `broadcastViews` and the assignment before it |
| `disposed` | `onDispose` has run | | `Dispose` | `onDispose` |

A guard is the handler's own early return. A takeover in an unstarted room is in the
model, as in the code. A seat stands for the player at it: a room never gives a seat
to a second player, since a bot replaces the controller under the same id.

`Match.tla` is the contract behind it: the state starts from `createMatch` and changes
only by a move offered to a seat in that state, by a system action drawn for that
state, or by the module's answer to an abandoned seat; a decided match is not touched.
`Authoritative` is `Match`'s specification with the room's own `game`. It is not true
by construction: a bot's move, a timed-out move and a system action are chosen in
one state and applied in another. That is where `ModuleAssumption` enters. The room
itself does not look at the outcome before applying a move, and does not ask again
what is legal after an await; it leaves both to the module, so the module must offer
nothing once the match is decided, and must refuse a stale move that is no longer
offered. The game modules do this by running every action through the
checks their `getLegalActions` is built from. TLC checks the assumption for the model's
game on every run; checking it of truco itself is in the [plan](#plan).

**The game of the runs** (`MCMatchRoom.tla`) has one instance of everything the room
treats specially: cards in turn; a call every member of the answering side is
offered at once and which people answer first; a raise the answering side may make
after accepting, out of turn, as in `truco-chain.ts:101-107`; a question to the
team-mate that costs the asker's one seña; a seña; a deal only the system makes; and
a player whose leaving ends the match. The last seat plays alone and the others
against it, so that three seats hold both a team and an opponent.

## PresenceRoom

`PresenceRoom.tla` models any number of lobby rooms of one game and one modality, each
in its own process, over one Redis list. Each pool call is one Lua script, atomic at
Redis. The room's state is written before the call and after its answer, so:

| variable | code | | action | code |
| --- | --- | --- | --- | --- |
| `conn`, `home` | the connection, and the room it joined | | `OnJoin` | `onJoin`, up to and past `JOIN_SCRIPT` |
| `waiting` | each room's `waiting` map | | `OnLeave`, `Left` | `onLeave` before and after `LEAVE_SCRIPT` |
| `pool` | the Redis list | | `Vanish` | a connection that dies without an `onLeave` |
| `owed` | `onJoin` calls that have not reached `tryFormGroup` | | `TryFormGroup` | `TRY_PAIR_SEATS_SCRIPT`, and the group leaves `waiting` |
| `leaving` | `onLeave` calls at their await | | `HandOff` | `handOffToMatch`, either outcome |
| `degrading` | sizes degradation has asked a group of | | `DegradeLongWaits`, `Degraded` | `degradeLongWaits` before and after its await |
| `sweeping` | what a sweep has still to look at | | `SweepZombies`, `Swept` | `sweepZombies`, one `LEAVE_SCRIPT` at a time |
| `tables` | groups popped, and what became of them | | | |

A script and the continuation its answer resumes are one step. That loses nothing:
between the two, what the *room* does reads only its own state, so it could as well
have done it before the script; and the script reads only Redis. The scripts whose
arguments were computed before the await (degradation's group size, the sweep's
snapshot) keep their two steps. The order of calls from different handlers on one
connection is not kept, which only adds behaviours.

`handOffToMatch` is one step with two outcomes: it pairs everybody, or fails the whole
group. A member the popping room does not track can only fail it. Nobody is told
anything before it has reserved every seat.

## The games

`GamePort.tla` is the abstract specification the room works against. A match is in
one of three stages, `system` (the registry's `requestSystemAction` has a move and no seat is
offered one), `seats` (some seat is offered a move, the system has none) or `over`; it
moves from the first two only. `runAdvanceOnce` takes "nobody is offered anything" as its cue
to ask the system, so a match in any other condition would stop for ever, or be
dealt over its players' heads. `Games.tla` shows every game to implement it:
`KeepsPort == Port!Spec` with `stage <- Stage, actors <- Actors`, the two operators that say what
`getOutcome`, `requestSystemAction` and `getLegalActions` return in a state. The
shuffles and dice are nondeterministic choices from sets of deals, decks and throws.

| module | one action per | what the state is |
| --- | --- | --- |
| `Truco` | `StartHand`, `PlayCard`, `CallTruco`, `AnswerTruco`, `CallEnvido`, `AnswerEnvido`, `Declare`, `SendSena`, `ConsultPartner` | hands as sets of cards; the cards of this trick, who won each; the two chains with level, status and the seat or side that owes the answer; the score |
| `Escoba` | `EscobaStartHand`, `Play` | hands, table and piles as sets, the stock as a sequence; a redeal in the middle of a hand and the settlement at its end are part of the play that causes them, as in `play-card.ts` |
| `Generala` | `RollDice`, `Hold`, `Score` | a tally of dice by face (the rules read nothing else); each card box by box; a served five of a kind ends the match |
| `Mahjong` | `LayBoard`, `RemovePair`, `Abandon` | the face on each position of the layout; the generator peels a solution backwards, as `deal.ts` does |

Bots: `Risky` (the hard escoba bot's count of what the rival can sweep) and `ExpectedSum`
(the hard generala bot's price of a hold) are the code's shortcuts, compared with
their definitions. A seat of tier `hard` or `normal` plays what that bot would; `any` is a person, or
the easy bot. In a truco match no seat has a tier.

`TrucoBots.tla` is the other half of the truco bots: not a player, but what each tier *would* choose, asked in every
state of the match, of every seat, with whatever the room has left of its offers (`Options` is `findActingBot`,
with a person or a bot beside it). It adds to the match the two parts of the state that only views read, the
tricks resolved (`swept`) and the señas (`claims`), and reads them as `getViewFor` does. From there on each
operator is a helper of `packages/games/truco-bot`: `Pool` and `Forced` say which cards a sample may deal, `Signals` which seña may be
sent, `Concedes` when a number is withheld, `AskPartner` what becomes of an envido one is not sure of, and `BotMoves`
is `chooseAction`. A sampled win rate may come out either way (`Favors`), and a draw before a seña too; the thresholds of the
normal tier and the order of each ladder are the code's. `QuestionFor` is what the module asks the partner when a question is paid for.

## The player's screen

One player's browser, in two layers. `Widget.tla` is the page: what `renderSelection`
awaits while it boots (the host's hello, the match stored by an earlier visit, one
watcher after another), the lobby as the counts come, and each attempt to join from
the press to the match's table, one await at a time; connections drop and reconnect,
the way back is pressed, the page is reloaded with whatever the storage holds.

The page hands its container to a *renderer*, one for each game. A renderer is a function of
the view, apart from what it keeps between views, and that is what the table modules
model: each `EXTENDS` its game, so that the match behind the screen is the real one, and
the seat `Me` is in front of it. A press is a message that arrives later, when the game may
have moved on: `GameTable.tla` is the room's answer to it.

| module | kept from one view to the next |
| --- | --- |
| `TrucoTable` | the two lanes of notices and their timers, the trick banner, the printed history of calls, what was announced of a deadline, and the channel of questions between partners with the room's half of it |
| `EscobaTable` | the marked cards, the scoring announcement, the overlay at the end |
| `GeneralaTable` | the dice held, the box pressed last, the notice of what the bot played in one's place, the throw's clock |
| `MahjongTable` | elements on the board, the first press of a pair, the chronometer and the panel it ends in |

`Screens.tla` follows one of these, the page or the admin panel at a time (`scene`): page and tables share
nothing but what the page hands over. Timers may fire at any time, in any order.

**The admin panel** (`Panel.tla`) is `AppShell`, the screen it renders, their requests and the
process that answers. Every handler ends in `Rendered`, one commit of React: what the shell shows
follows from its state (`ViewOf` is `resolveAppShellView`), a component that goes away hears no more answers, and one that is mounted
asks for what it shows. The open detail is the delicate one: with another tenant selected its fetch is cancelled and its editors are
new, but the screen stays and still paints what an earlier save is answered.
A request is served (`Serve`: session, permission, handler, as one step), lost on either way
(`Lose`) and answered (`AnswerArrives`) in any order with the others.

`QuietPanelIsTrue` is about a panel used at one request at a time, with none lost since the list was last
read (`orderly`). Requests that overlap are in the model, and nothing is claimed of what they leave on
the screen: without `orderly` TLC finds a late answer to a creation that opens another tenant over the one being read, the
row of the tenant left painted over the one opened next (whose editors then save to the tenant *selected*), and an
older filter or save shown last. No sentence of the repository promises otherwise. One comment
does differ from its code, outside the model: `TenantDetailScreen.tsx:201-203` says `copied` resets when a
rotation completes; line 212 resets it when the rotation starts, so that a copy made meanwhile still reads "¡Copiado!" beside the new key.

## OperatorAccounts

`OperatorAccounts.tla` models every write to `operators`, to the `operators.manage`
rows of `operator_permissions` and to `operator_sessions`. A request's transaction
goes through `Request` (the checkpoint `authorize`), `TakeLock` (advisory lock 4021,
only for disabling and revoking), `Mutate`, `Count` (the guard's `count(*)`), `Commit`;
`Fail` is a thrown error, a failed audit write, or a connection that dies, at any
point. Statements of different transactions interleave freely, and see what READ
COMMITTED lets them see: the committed rows, with the transaction's own write over
them. A row an open transaction has written keeps other writers waiting (`Waits`); an
uncommitted insert only keeps another insert of the same key waiting.

A login is two autocommitted steps, as in `login-handler.ts`: `Verify` reads the account
and compares the hash, `OpenSession` inserts the row. `bootstrapOperator` is the initial
state: one account, enabled, with every permission.

## Tenants, door and schema

- `Tenants.tla` holds the committed rows of `tenants`, the clock, and the calendar in which
  the panel shows a paid window (`tenant-validity.ts`: a day is paid *through*, local to the panel,
  and stored as the instant it ends).
- `Office.tla` is the panel's six writes to a tenant. A request reads the row, changes one
  column and inserts its audit entry in a READ COMMITTED transaction (`Ask`, `Look`, `Mutate`,
  `Witness`, `Commit`, `FailSave`). An entry's time is the clock of the request, its id comes from a sequence.
- `Door.tla` is what stands before a match: the mint server's limiters and its `embed` and
  `renew` endpoints (`AskToken`, `CheckKey`, `Resolve`, `Answer`), and `onAuth` of a join (`Join`, `Verify`,
  `CheckTenant`, `Consume`), each await a step. Limiters and replay guard are modelled twice, as in the
  code: in the process, with the sweep of a table that has grown too large, and in Redis, with expiry.
- `Migrations.tla` is the runner (`Start` ... `Finish`): advisory lock, bookkeeping table,
  the read of what is applied, and a transaction for each file; a statement may fail and a
  process may die anywhere; builds of different ages run at once. `Boot` is the panel's check.
- `Platform.tla` composes them over one clock and one database. Its `scene` bounds what
  happens in one behaviour and changes no action.

## Runs

| run | what is asked | the instance | states |
| --- | --- | --- | --- |
| `room_team` | the safety of the room, that it implements `Match`, and that everything started settles | three people, 0 and 1 partners who may ask each other, 0 may send a seña, 2's leaving ends the match; strategies may throw; three queued jobs; a step ceiling that is met; one hand | 108 042 |
| `room_duel_live` | a person who owes a move is timed; the match is played out | two people, either may call, two hands; no decision is two seats' at once, as it is in `room_stall` | 7 376 |
| `lobby` | nobody is seated twice or forgotten; whoever stays is told something | one room, three connections, tables of three, every leave delivered or not | 176 400 |
| `games` | every game keeps the port's bargain, its rules agree with each other, its match ends | truco to 2 points, one deal for two seats and one for four, one seña; escoba to 2 points, with persons over 16 cards and bots over all 40; generala cards with two and three boxes open; a mahjong ridge of eight tiles; the bots of truco asked in every state | 68 947 |
| `screens` | nothing stale on a screen, everything said, once; one match in sight | the page with two families of games, a single one or none, two attempts, one reload; each table through a short match, one press late; the admin panel with two tenants and two accounts, four clicks and two requests under way | 480 640 |
| `platform` | the panel, the door, the limiters and the schema, each against its own races | five scenes: two saves at once; a save beside two visits; a token presented to two joins; five visits to the limiters; three runs of the migrations by two runners and a panel | 704 335 |
| `accounts` | somebody administers; calls end; no deadlock | two accounts, two concurrent calls of any kind, one login | 31 098 |

The other five runs end in a counterexample; the [next section](#where-the-code-and-its-documentation-disagree)
tells what each shows.

**Room properties.** `ClockOnLiveMatch`: every path by which a match changes passes
through the broadcast, so a clock never runs before the match or after it is decided.
`ConsultUnderClock`: whichever of the answer, the cap, the end of the turn and a
takeover comes first, a consult is gone with the clock it stood under.
`NothingOutlivesRoom`: promises that settle after `onDispose` arm nothing.
`AnsweredOnce`: the partner, the cap and a takeover's fallback race for a consult
across an await, and its id is answered once. `HumanHasFirstWord`: while a bot is
deciding, nothing it was handed is of a kind a person is being asked to decide first,
*although people and clocks move the table meanwhile*. Its half `PeopleAnswerFirst`: no bot is deciding an answer
that *any* person is asked for, though the room looks at one person, once, before the strategy is awaited. `Authoritative`: see above.
`OwedTurnIsTimed`: when nothing is in flight that could still arm a clock, a person
who owes a decision is on one. Liveness: `MatchEnds`, and `EverythingSettles` (`ChainDrains`: each
queued job comes to its end; `ConsultCloses`: an open consult is answered or withdrawn).

**Lobby properties.** `SeatedOnce`: the groups popped share nobody, and nobody popped is
still queued. `NobodyForgotten`: a connected client its room holds as waiting is in
the shared queue. `WaitEnds`: with more than two seats, who joins and stays gets a seat
or an error; a client who joined last among people who left is rescued by degradation.

**Games properties.** `KeepsPort`: above. `OneWinner`: an envido may end a truco match in the middle
of a hand, and nothing that hand still had at stake is paid to the other side.
`CallsRunTheirCourse`: while a call waits for an answer it waits for one whole side, and nobody else moves the calls on or has a question put to them,
which is what the room counts on there (`OnlyTheAskedGoOn`), and (`HandPaysOnce`) the tables of what a refusal and an acceptance are worth agree at every
level, and a decided hand pays nothing more. `TricksDecide`: a hand is decided at the
moment every possible rest of it would say the same. `EnvidoIsFair`: the number said
is of the cards dealt, whatever has been played since, and nobody who is winning the
round can give it away. `CardsKept`: hands, table, stock and piles of escoba
share no card and are the deck together. `OffersAreTheRules`: captures are enumerated by one algorithm and accepted by
another, and the two agree on every part of every table reached. `CardFilledInOrder`:
no generala box is crossed out while one that pays more is open, and the double pays only a card that
scored a generala. `BotsReckonRight`: the hard bots' shortcuts (a risk, a mean over throws) are what they stand for, and (`TrucoBotsRight`)
a truco bot reckons with what its seat may know and nothing else. A sample may deal any hand the others may hold, no card that
is face up, and the card of a true seña (`PoolIsRight`); the seña a bot sends is of its strongest card (`SenaNamesTheBest`); a
follower always has a rival's card to look at, and a trick a bot throws away is its side's (`TricksReadRight`);
"son buenas" gives up only a round lost whatever is still to be said (`ConcedesNothing`); and with whatever the room has
left of its offers, a bot chooses one of them (`ChoosesWhatItIsOffered`). Three more say exactly where the ladders do what
their comments would not lead one to expect, and nowhere else (`RaiseOutOfTurn`, `AsksAboutTheEnvido`, `QuestionsFindTheirSubject`;
see [below](#where-the-code-and-its-documentation-disagree)).
`DealSolvable`: the mahjong generator is never left without a partner, and the board it deals can be
cleared. `MatchEnds`: no call, hold, redeal or question can be repeated for ever.

**Screen properties.** `OneThingOnThePage`: no lobby is painted over a search or a match (`LobbyStaysAway`),
the match a player is in is the one on screen (`OneMatchInSight`), and what is stored for a reload is that one or none
(`SessionFollowsMatch`).
`NothingStaleOnTheTable`: marks, holds and selections are of this view, a partner's question is on screen only while the
room has it open, and a notice that is up has exactly one timer to take it away (`NoticesHaveTimers`). `ToldOnce`: deadlines, scores and the end of a match are said once under any
number of views; every call is in the history once and in order, across deals that start the
engine's log over and views that are skipped; a move a bot made in my place has its notice.
`PanelTellsTheTruth`: whatever the admin panel says it is waiting for is on its way to the component that waits, whichever answers
are overtaken, cancelled or lost (`EveryWaitIsAsked`), and used at one request at a time it ends up showing what the process holds (`QuietPanelIsTrue`).

**Platform properties.** `AuditTellsTheState`: whichever of two concurrent saves wrote last is also the one
listed last. `DoorAgreesWithThePanel`: whoever comes in after the last save is let in by the
tenant as saved, on a day the panel shows as paid; a token signed before does not bring old
games along. `OncePerToken`: a living token opens one seat, although the guard forgets and counts its
life in other units than the signature. `LessThanTwiceTheLimit`: what fixed windows really promise of any
stretch as long as a window. `SchemaGrowsInOrder`: files are committed once, with their version, in order; nobody starts on
a file applied since it looked; a runner that is over has given its lock back; a panel that serves finds all it was built with.

**Accounts properties.** `SomeoneAdministers`: the guard's promise. `CallsEnd`: no lock is
kept by a transaction that is over. `NothingResurrected`: enabling an account brings no
session back (violated, below).

**Bounds, and why they are enough.** Room: three seats are the least with a team, an
opponent and a second person who owes an answer at the same time; with two, nobody
consults and no bot defers to a team-mate. Two hands are the least with a system action between
two pieces of play and with a turn that comes round again; one hand is enough for the
races inside it. `MaxChain` (two or three jobs waiting behind the running one) lets a
timeout, a cap and a takeover's fallback queue behind a bot that is still deciding;
an event that would queue one more is not taken by the model, so runs show nothing of
longer queues, but every event finds a state with room in some order. `MaxSteps`
stands for `MAX_ADVANCE_STEPS` = 10 000. At 12 it is never met, as in a real match; `room_team`
sets it to 3 so that it is. Lobby: three connections at tables of three give
full groups, degraded pairs and singles, and a leave or a sweep in between;
`MaxTicks` = 1 keeps one degradation call of a room under way (a second one, tried
apart, changes nothing but the time).

Games: `PointsToWin` = 2 lets every level of both chains be called, an envido decide the match under an open
truco, and a second hand be dealt; `MCChoosers` gives the seats that may play any card of theirs (both
at the table of two; at the table of four every seat plays its weakest card, and all calls, answers and declarations are tried).
`Signallers` = {2} sends one seña at the table of four, `MCClaims` the one that is true of that seat's deal; what a seña *would* be is asked of every hand.
With `SenaBudget` = 1, a seat that has signalled has no question left, the case in which a bot's question goes astray.
The 16-card cuts of escoba hold two rounds of dealing with every play tried, and the bots' 40-card matches a whole one.
Generala's cards start late because a full card has more than 10^9 fillings; its
boxes are kept open across the short and the long ones, so that the crossing order, the
generala and its double are all met. A ridge of eight is the smallest stack
with three layers on which two orders of peeling differ. Screens: one press may be under way (`MaxPresses` = 1), which is
enough for it to be overtaken by any other event; `Calls = {1}` keeps envidos at one level, since a level changes only words
on a screen; `MaxTries` = 2 and `MaxReloads` = 1 give a match left and another begun, and a match resumed. Admin panel: two requests (`Wires`) are the least that overtake each other, and four clicks (`MaxClicks`)
are enough to open a tenant, save, leave and open another; `Fields` keeps the editor that may be refused and the one that
may be stored otherwise than asked. Platform: the
window is two ticks and the limit two, so that a stretch can straddle two windows; `MaxTrackedKeys` = 1
makes the sweep happen; a day is two ticks and the panel one tick behind UTC, so that the
two midnights differ; two files, builds with one or both, and three runs give a runner that dies, one that waits and one of an older build.

No run uses symmetry: seats differ by role, clients by arrival, tenants' keys by time, and `Root` is special;
the states are few enough without it. Deadlock is checked in the accounts run, where
a call can always be made; a disposed room, a match that is over, a lobby whose clients are all gone and a day
whose visits are spent rightly stop.

**Fairness, and why the code justifies it.** Of the room: the running job, a pending
opinion, a running turn timer, a consult's timer and a reconnection window each happen
eventually (weak fairness), because Node settles promises and fires timers, strategies
and `adviceFor` answer, and `allowReconnection` has a time limit. Nothing obliges a
person to join, move, answer, reconnect or quit: every liveness property holds against
people who do nothing. A bot's answer is some action it was offered, as a strategy
must choose one; throwing strategies are in `room_team` only, since a table of bots
that throw for ever does stop, as the code's own comment says. Of the games: weak
fairness of the match's next step, whichever it is, because an idle turn is played when its clock runs out, a bot's at
once and the system's by the chain of jobs; which step is never chosen by fairness.
(A person may ask and signal instead of playing only as often as the hand's budget allows; nothing else is free.) Of the lobby: Redis
answers, and the interval that degrades and sweeps keeps firing; clients owe nothing.
Of the accounts: strong fairness of each call's next statement, as Postgres queues
the waiters of a lock in order, and a statement whose lock comes free again and again
is not passed over for ever. The screens and the platform assume none: their properties are safety.

## Where the code and its documentation disagree

Each is a run whose counterexample TLC prints, and an entry under `findings` with the
sentence it contradicts.

- `room_stall` (`MatchEnds`). Two partners owe an answer to a call. The clock is armed for
  the first of them; that one quits. A bot takes the seat and is held back because its partner has
  the first word; no state changed, so nothing is broadcast and nothing arms a clock
  for the partner. The dead clock expires for a seat that is no longer a person's, and
  the match stands until the partner moves. `registry.ts:64-68` argues that this cannot happen.
- `lobby_split` (`NobodyForgotten`). Two presence rooms of one game share the queue and not
  `waiting`. One pops the other's client, finds no record of it, fails the group and
  tells only the members it knows. The other client is out of the queue and still "waiting".
- `screens_lobby` (`LobbyStaysAway`). `join-flow.ts:58-59` says that after a press nothing redraws the
  lobby, and a gate keeps the counts from doing so. The last line of `renderSelection` does not look at
  the gate. On a page of one family with two games the first game's counts paint its
  button while boot still waits for the second watcher; whoever presses it has the lobby painted over the search, or over the match.
- `truco_consult` (`QuestionsHaveAnswers`). A truco is called, an envido is called over it and accepted. While its numbers are
  declared nobody may answer the truco, but `owesAnAnswer` still says that it is owed, and a seña buys a question
  about it. The partner is offered no answer, so no advice is formed and none is sent. `consult.ts:55-63` promises both that a question is never
  bought for nothing and that its gate is the one of the answers. A bot of that side that is not the one to declare is offered nothing else,
  and asks until its señas are gone.
- `accounts_resurrected` (`NothingResurrected`). A login checks `enabled`, the account is
  disabled and its sessions deleted, the login inserts its session. Enabling the
  account makes that session valid.

Three more behaviours of the room are in its model, stated as hazards, and contradict
no sentence strongly enough to be a run: a bot asked for an expired turn may answer into a later
turn of the same seat; a question asked back during a consult is answered by a bot in the
partner's name; and the clock may stand on a seat that may raise while another owes the card.

Of the truco bots, three facts that the checked properties state exactly, beside sentences of the code that read otherwise:

- A seat whose side has accepted a call may raise it although the turn is another's, and is offered nothing else but señas.
  Whatever tier plays there ends its ladder at "nothing better is legal" (`normal.ts:127`, `hard.ts:239`) and raises at once with any hand (`RaiseOutOfTurn`),
  where `normal.ts:9-12` has it that a proactive call is only volunteered with a genuinely strong one.
- `askPartnerAboutEnvido` takes the first question it is offered. Where a truco is owed an answer, that is the one
  about the truco, and the "quiero" it buys is taken for the envido. It happens only when the person beside the bot has no
  seña left, since the room otherwise holds back the bot's questions (`AsksAboutTheEnvido`).
- `truco-module/src/index.ts:131-134` and `match-room.ts:1407` say that a bot never sends a seña on its own initiative; the normal and the hard tier do.

## Proofs

Each development proves its results for every value of the constants that satisfies
the named assumptions; nothing is assumed beyond those.

**MatchRoom**, from `RoomAssumption` (the ranges of the parameters), `GameAssumption` (the
port's types) and, only for `Authoritative`, `ModuleAssumption`:

- `TypeCorrect`, `ClocksOnlyRunOnLiveMatches`, `ConsultsStandUnderAClock`,
  `DisposedRoomsAreQuiet`, `ConsultsAnsweredOnce`: the safety properties of `room_team` that hold
  of any module. The inductive invariant is `RoomInv`, one part per group of
  variables. The properties need two facts beside themselves. *Work follows the start*:
  a job that drives or awaits, or owes a consult an answer, implies that the match
  exists; without it a bot could be broadcasting a match that is not there.
  *Consults are counted*: an answered id is below the open one's; without it the next
  answer could repeat one. `ClockOnLiveMatch` is inductive only with the broadcast lemma
  `BroadcastSafe`, which every action that changes the match cites.
- `RoomIsAuthoritative`: the room implements `Match`. It needs `HeldMovesWereLegal` (what
  a job holds was offered or drawn for *some* state), which with `ModuleAssumption` gives
  that a stale move the module still accepts is one it would offer now, and
  `FullWhenStarted`, so that no join starts the match twice.
- `NobodyIsLeftUntimed`: `OwedTurnIsTimed`, for every table with three hypotheses. *Bots answer* (`~BotsMayThrow`): one that throws ends the
  job before it arms anything. *What is offered is accepted* (`OfferedIsAccepted`, the port's conformance suite). *First-word decisions are one seat's own*
  (`DecisionsAreOnesOwn`): no seat owes a move of a kind that people take first while another is offered it, which is so at every table without partners.
  The first and the last are needed: with bots that throw, or with a decision two partners share as at `room_stall`'s table, TLC finds
  `OwedTurnIsTimed` violated; `room_duel_live` satisfies all three. The invariant (`StallInv`) says what is under way whenever a person owes a move
  and is on no clock: a timeout in the queue whose seat still has a move to make, or a running job that holds a move it can make or is
  about to find one (`Queued`, `Running`). It needs that a clock stands only for a seat that owes something (`ClockIsOwed`).

- `PeopleAnswerBeforeBots`: `PeopleAnswerFirst` at a table of any size, with any number of people, whoever drops, quits or is taken over while a bot
  decides. `findActingBot` holds back from a bot what *one* person is asked, the first in the order of seating, *when* it looks. The invariant
  (`AnswersLeft`) is that an answer a bot decides is still asked of it and that no person anywhere is asked for any, or the match was decided meanwhile.
  It takes that nobody joins a match under way (`SeatsFillUp`) and that whoever leaves is a person (`SocketsArePeoples`). The hypothesis,
  `OneSideIsAsked`, is the sentence the code rests on ("a pending call is answerable by exactly one side at a time", match-room.ts:1465) in full: all who are
  asked are asked the same, and nobody who is not changes who is asked, short of ending the match. It is not left to trust: truco for two and
  for four is proved to be such a game (`TrucoOnlyTheAskedGoOn`, below; it has no answer to an abandoned seat), the game of the room's runs is checked
  to be one (`TableAsksOneSide` in `MCMatchRoom`), and escoba, generala and solitaire have no such questions (`apps/server/src/registry.ts:112,124`
  register them for truco alone). The step from Truco's state machine to the operators `Legal` and `Apply` of the room's parameter is by reading.

**PresenceRoom**, from `LobbyAssumption`: `LobbyTyped` and `NobodySeatedTwice` (`SeatedOnce`), for any number of
rooms, clients and seats. The invariant adds that the queue and every group popped hold only
clients that have come, and each client once: a client joins when it is `away`, so it cannot be
in any of them, and a pop moves the head of an injective list into a group of its own.
`OneRoomForgetsNobody`: where one room has the queue to itself, `NobodyForgotten` holds at any size;
what is taken out of the queue without its record is only ever a closed connection (`Departed`). The
step that needs there to be one room is the pop, which is the step `lobby_split` goes wrong at.

**Truco**, from `TrucoAssumption` (a deal gives each seat three cards of its own): `TrucoWellTyped`, `TrucoOneWinner`,
`TrucoHandPaysOnce`, `TrucoTricksDecide`, `TrucoEnvidoIsFair` and `TrucoOnlyTheAskedGoOn`. The inductive invariant is `HandInv`.

- *Paying.* Points are awarded only while the match is undecided *at that
  moment*: an envido that reaches the target decides the hand with it, so that the other side is still below (`TrucoIInv`).
- *Tricks.* Unless a truco was turned down, a hand stands where its tricks have put it (`TricksOK`); what the code decides
  from three tricks at most is then compared with what all continuations would say, case by case.
- *Envido.* An envido is argued over the first trick (`EnvidoOpen => tricks = <<>>`), so what a seat holds and what it has on the
  table are still all the cards it was dealt (`DealOK`, with the deal as a witness); and the round goes to the side that is ahead of
  all that was said, a tie staying with whoever said it first (`BestNumberWins`).
- *Answers.* Who may answer depends on the side alone, so a whole side is asked (`WholeSideIsAsked`); and with a call pending every move but a
  seña, a question to the partner among them, is closed to those who are not asked (`OthersOnlySignal`).
- *Bots.* `BotsReadTheTable` proves `TrucoBotsRight` at any table, with any deal and any budget of señas. What it takes beside `HandInv` is `TableInv`:
  the seat whose turn it is sits after the one that played last (`InTurn`), so that a follower finds a rival's card to look at; the numbers of an
  accepted envido were said seat by seat from the mano on (`SpokenInOrder`), which tells who is still to speak when a bot concedes; and the cards on
  the table and in past tricks are those that some deal gave and the hands no longer hold (`Watched`), so that what a bot has not seen is in
  somebody's hand or was not dealt.

**The games together** (`GamesProofs`), from the assumptions of the four games (decks are lists of different cards that go into rounds;
a generala match begins with as many open boxes on either card, filled so far as the rules allow, and some open):

- `GamesAreTheirGames`: a match behind the registry is one of the game it is of, and leaves the other three alone. Through it each
  game's own theorems are theorems of `GamesSpec` (`GamesKeepTheirRules`, `GamesSettleCalls`).
- `GamesKeepPort`: the refinement. Every step of every game moves the port's stage as the port allows, or stutters. What it takes is that
  *whoever's turn it is has something to do*, and each game has its own reason. In truco, a seat has three cards less one for
  each trick behind it and one for the card it has on the table (`CardsInHand`): counting with the place at the table from whoever
  leads the trick. In escoba, whoever is still to play in a round has one card more than who has played, and hands
  run out only behind the dealer (`Rhythm`), so a hand is on exactly while cards are held. In generala, seats write in turn (`BoxesEven`),
  so whoever decides has a box open, and the greatest open one may be written. In mahjong, before the board is laid nothing can be taken.
- `EscobaCardsKept`: `CardsKept`, by `CardsOfDeck`: the places share no card and their union is the deck. A redeal takes the
  next round of the stock, which needs it to be whole rounds (`RoundsLeft`); the leftovers of the last round go to one pile.
- `GeneralaFilledInOrder`: what the order allows to be written (`MayWrite`)
  keeps it; a card that is in order stays so through any throws.
- *What folds and recursive functions compute.* The library's induction theorems take an operator, which no installed prover instantiates. The proofs go by the
  least counterexample instead: the subsets of a finite set are well founded under inclusion, so of those a claim fails for there would be a
  least one (`FiniteDescent`, `FiniteSteps`, `NaturalSteps`). From that follow that a sum does not depend on the order its fold takes (`Total...`, `TotalByClass`), and that a
  function of sets given by its values at smaller ones exists and keeps its equation (`RecursionSolved`).
- `EscobaOffersFollowRules` (`OffersAreTheRules`): the sums that `capture.ts` builds card by card are those of the table's parts (`ReachableSums`), so the
  captures listed and the captures accepted are the same, and a card may be laid down exactly when it takes nothing.
- `EscobaRiskIsSound` (`RiskIsSound`): the bot calls a sweep impossible when all four cards of the value it would take are in places it sees. A card in
  another hand or in the stock is in none of them (`CardsOfDeck`), and with one of the four elsewhere no more than three can be in sight (`OneElsewhere`).
- `GeneralaHoldsPricedRight` (`HoldsPricedRight`): the sum over ordered throws is taken class by class, the class of a throw being its tally. Of a tally of one face
  there is one throw and of two faces there are two (`ThrowsOfATally`), and that is what the factorials come to (`WeightIs`). The property, and so the theorem, is
  about holds of three dice or four.
- `BotsReckonRightEverywhere`: with `BotsReadEveryTable`, all of `BotsReckonRight` in every match behind the registry.
- `MahjongBoardsClear`: a solution is a walk that takes two free positions at a time and leaves nothing (`SolutionsPeel`); the faces are laid
  along it in pairs, so walking it again clears the board (`WalkClears`). This is so for any layout and any wall of an even number of faces.
  `MahjongGeneratorFinishes`: where whatever pair is drawn leaves another (`Peelable[Layout]`), there is a solution, so the generator ends.
  `MahjongTopLayerPairs` is the argument of `deal.ts:97-103`, for any layout: two tiles or more on the highest layer always leave two free
  ones there, the furthest to either side (`EndsAreFree`); and `MahjongLastLayerPeels` that of lines 110-112: the last layer always comes off.
  What is left is the case lines 104-107 call measured and without a proof, a lone tile on top. So `MahjongDealSolvable` (`DealSolvable`) has
  `Peelable[Layout]` for its hypothesis: it is a fact of the layout, which TLC checks of the ridge.
- `GamesWellTyped` has no hypothesis beside the assumptions: that boards lay faces of the wall on positions is `BoardsTyped`.
- What the proofs changed in the model: `MahjongAssumption` did not say that the faces of a key come in pairs, without which no order of pairs
  uses them up; and in `Unseen` (escoba) and `Signals` (truco) a `UNION` stood before a `\cup` without parentheses, which the model checker and
  the prover bracket differently.

**Platform**, from `PlatformAssumption` and the assumptions of its four parts. `PlatformAssumption` says of the rows a
scene begins with that their windows end with a day, since the panel is the only writer of `valid_until` in production and writes
nothing else (`WindowsEndWithADay` proves that of what it writes). The invariant is `PlatformInv`:

- `AuditIsTrue` (`AuditTellsTheState`): of two saves of one tenant only one is past its UPDATE and not yet committed, as the other waits for the row
  (`OneSavePerTenant`); so what it drafts is the row as it stands but for its own column (`Drafts`), and the entry it writes is newer than any
  that tenant has (`Testimony`).
- `DoorAndPanelAgree`: a visit under way remembers how many saves there had been (`edition`); as long as there has been none since it read its
  row, the row still is what it read (`Stands`), and `PaidAsShown` says that an instant compared with a window is a day compared with the panel's.
- `TokensOpenOnce` (`OncePerToken`): a token that has opened a seat is remembered, or was until it was dead (`ShutOut`), for every token
  still held by somebody on the way. The unit the guard counts in may round only to the safe side.
- `LimitersHold` (`LessThanTwiceTheLimit`): the calls let through are cut into the windows they were counted in (`Tracked`); a window counts no
  more than the limit, and one that another has followed is past. The same argument serves the process and Redis.
- `PlatformWellTyped`, and `SchemaStaysInOrder` from `SchemaOrdered`'s invariant, which no other part of the platform disturbs.

**Migrations**, from `MigrationsAssumption`: `SchemaOrdered`. A runner past the lock holds it (`LockHeld`), so what
it read of the applied files is still all there is (`KnowsApplied`), and the file it works on is the next one (`WorksOnNext`).

**OperatorAccounts**, from `AccountsAssumption`:

- `AccountsTyped`: keys and foreign keys hold however the statements interleave.
- `PanelStaysAdministrable`: `SomeoneAdministers`. The invariant is that a guarded transaction past
  its first statement holds the lock (`LockHeld`), and that what it counted stays true
  until it commits (`CountStands`): of all writers only guarded ones take a holder away,
  and the lock admits one of them at a time. `CountStands` is exactly what the seeded
  fault without the lock breaks.

**Screens** (`ScreensProofs`), from the assumptions of the four games, the page, the truco table, the panel and the chronometer. Page, tables
and panel share no variable (`EachByItself`), so each has an invariant of its own, and `ScreensInv` is their conjunction.

- *Tables* (`NothingStale`, `TellsOnce`). Of the match behind a table only its own invariant is used (`HandInv` for truco, the types for the others): what is
  stale or said twice is a matter of what the renderer keeps. The truco table
  is the hardest. Its printed history is a list of lists, one for each hand, while the engine's log starts over with every deal and views
  are skipped; the invariant (`CallLogOK`) says that the closed hands, flattened, and the log of the open one are together what the match has said, and a lemma on
  `FlattenSeq` of a list that grows at its end carries it from view to view. A lane of notices stands with one timer or is gone
  with none (`LanesOK`), and a deadline has been announced and warned of for this turn only if it was announced first (`SpokenOK`).
- *Page* (`OneThingInSight`). What is on screen decides which attempts may still paint over it and what may be stored meanwhile (`OnScreen`): a
  status only while the last attempt is on its way, a table only while no other attempt is, a lobby while none is. What boot has painted
  depends on where it stands (`BootPaints`), and that needs one fact of the catalog, that it is not a single family of several games
  (`NotOneFamilyOfModes`): there `screens_lobby` shows the lobby come back over a match, so the hypothesis cannot be dropped. `ScreensWellTyped`
  holds of every catalog, that one and the empty one included, from a weaker invariant (`WidgetShape`).
- *Panel* (`PanelIsTruthful`). Two facts beside the shapes. *Whoever waits has asked* (`PanelWaits`): for whatever the shell, a screen or a section of it
  waits for, a request of that kind is under way and is to be heard by it. *The one answer under way tells the truth*
  (`PanelQuiet`): used at one request at a time, what is shown is what the process holds or a request that will say so is under
  way, and what that one is answered is what the process still holds, because nothing else has been served since.
- What the proofs changed in the model: a detail that could not be read again used to keep its editors' requests as if
  the editors were still there (`SectionsGone`); the page with no games at all did not get past its loop of watchers; and several `CASE` expressions of
  `Panel`, `TrucoTable`, `TrucoBots` and `Generala` had guards that overlapped. TLC takes the first guard that is true and a proof may not, so
  they are now written as the early returns they stand for.

## Limits

Only model-checked, on the instances above:

- every liveness property (`MatchEnds`, `EverythingSettles`, `WaitEnds`, `CallsEnd`):
  TLAPS does not prove liveness from fairness;
- of `HumanHasFirstWord`, `HeldStaysHeld`: a bot decides none of the kinds of move the person who is asked is offered, raises and questions included, and not answers
  alone. It depends on the module's rules and is not true of truco for four: a person says the last number of an envido, the truco beneath it is asked again,
  and the bot beside them is still choosing between a question that should not have been offered and a seña (see `truco_consult`). What is true of every
  game of the registry, `PeopleAnswerFirst`, is proved. (`OwedTurnIsTimed` and `OneThingOnThePage` are proved under the hypotheses above; `room_stall` and
  `screens_lobby` show what happens without them);
- that the layout can be peeled (`Peelable[Layout]`): TLC checks it of a ridge of eight, and of no other layout; and what the hard generala bot reckons of holds
  of fewer than three dice, which neither a run nor a theorem is about: every ordered throw of three dice or more is too many to list in each state.

Not modelled, or modelled more coarsely than written:

- In the room: views, the acknowledgement of refused actions, which socket object a seat's messages go
  to. Of what it sends, only consult answers are kept. `handleConsult` accepts any action of
  the client's; the model offers it the paid questions, which is what the widget's control sends.
  A module without bots (`HasBot` false) is covered by the proofs but by no run.
- Tiers, delays and durations. A timer may fire at any time after it is armed, in any
  order with other timers.
- In the lobby: watchers and their counts, Redis calls that fail, the process dying, the
  steps inside a hand-off, sweeps longer than their interval. The in-memory pool is the
  case in which nothing happens between call and answer; its own sweep, which splices
  by an index taken before an await, is not modelled.
- In the games: the views of escoba and generala, the engine's log of calls (but for what
  the truco table prints of it), how often a truco bot's sample says yes, the breakdown an escoba hand shows. That no view carries a hidden
  card is `PoolIsRight` for what a truco bot reads, not a statement about every field of a view.
- On the screens: layout, wording, styles, focus other than the end of a match, the heartbeat, and the
  rail and leave dialog of the truco table. Every seat of the truco table has a person in it. Views are
  painted at once and in order, while presses are delayed.
- In the platform: signatures, malformed requests, a Redis that fails, which filter
  of the audit list is which.
- In the admin panel: what is typed, the copy button, other operators at work meanwhile (`Office` and `OperatorAccounts` have those).
  Under overlapping requests only `EveryWaitIsAsked` is claimed.
- In the accounts: permissions other than `operators.manage`, what a password is, session
  expiry and audit rows. An operator's row is locked whole.
  A lock or count query that fails is not rolled back by the code but by the database (`last-account-manager.ts:88,106-111` are outside any
  `catch`); the model's `Fail` is that: locks and changes are gone. What the connection then is to whoever gets it next from the pool is not modelled.
- Composition roots, HTTP routing, the static front door, message schemas and everything that draws. Of
  the repository's implementation lines about half are style sheets, drawing,
  wording, comments and wiring, which have no state whose steps interact; `map` covers what has.

## Plan

Next, in order:

1. **The lobby, further**: hand-off in its own steps, Redis calls that fail, a process
   that dies, the in-memory sweep; then `PresenceRoom` composed with an abstract match
   room, for a reserved seat nobody takes.
2. **Views**: what each client was last shown, with the reconnection that misses its socket; the views of the other games as operators.
3. **The room and a real game**: `MatchRoom` instantiated with `Truco`, so that `ModuleAssumption` and `OneSideIsAsked` are checked of it directly.
