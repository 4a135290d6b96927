------------------------------ MODULE MatchRoom ------------------------------
(***************************************************************************)
(* The authoritative room that plays one match:                            *)
(* packages/transport-colyseus/src/match-room.ts.                          *)
(*                                                                         *)
(* One Node process runs one room on one event loop.  A client message, a  *)
(* timer or a socket event is a macrotask; everything the code does after  *)
(* it without awaiting is one action here.  Bot decisions, advice and the  *)
(* pause before a system action are awaited, so other macrotasks run       *)
(* between the two halves: those halves are separate actions.  The jobs    *)
(* queued on `advanceChain` run one at a time, in order.                   *)
(*                                                                         *)
(* The game is a parameter: the room never inspects a state or an action,  *)
(* it only asks the GameModule and the registry about them.  A seat stands *)
(* for the playerId seated there.                                          *)
(***************************************************************************)
EXTENDS Integers, Sequences

CONSTANTS
  SeatCount,        \* module.metadata.seatCount
  HumanSeats,       \* humanSeatsNeeded: the seats onCreate leaves to people
  HasBot,           \* module.createBot is defined
  Pauses,           \* getSystemActionPauseMs(gameId) ?? handEndPauseMs is positive
  BotsMayThrow,     \* a strategy's chooseAction may reject
  MaxSteps,         \* MAX_ADVANCE_STEPS
  MaxChain          \* bound: jobs waiting on advanceChain

CONSTANTS
  GameStates, Actions, FirstState,   \* createMatch's result
  Legal(_, _),      \* getLegalActions(state, player), as a set
  Apply(_, _),      \* applyAction(state, action): a state, or Refused
  Over(_),          \* getOutcome(state) !== null
  SystemMoves(_),   \* what getSystemAction may return; empty for null
  AbandonedMove(_, _), \* getAbandonedSeatAction, or NoMove
  PartnerAsked(_, _, _), \* getConsultAsk(state, player, about).partnerId, or NoSeat
  TypeOf(_),        \* action.type
  SubjectOf(_),     \* action.about
  NonBlocking, HumanPriority, PaidQuestion,  \* the registry's classifiers
  NotStarted, Refused, NoMove

Seats   == 0 .. SeatCount - 1
NoSeat  == -1
Subjects == { SubjectOf(a) : a \in PaidQuestion }

ASSUME RoomAssumption ==
  /\ SeatCount \in Nat \ {0}
  /\ HumanSeats \in 1 .. SeatCount
  /\ {HasBot, Pauses, BotsMayThrow} \subseteq BOOLEAN
  /\ MaxSteps \in Nat \ {0}
  /\ MaxChain \in Nat \ {0}

\* What the port promises of a GameModule and its registration.
ASSUME GameAssumption ==
  /\ FirstState \in GameStates
  /\ NotStarted \notin GameStates
  /\ Refused \notin GameStates
  /\ NoMove \notin Actions
  /\ NonBlocking \subseteq Actions
  /\ HumanPriority \subseteq Actions
  /\ PaidQuestion \subseteq Actions
  /\ \A g \in GameStates :
       /\ Over(g) \in BOOLEAN
       /\ SystemMoves(g) \subseteq Actions
       /\ \A a \in Actions : Apply(g, a) \in GameStates \cup {Refused}
       /\ \A s \in Seats :
            /\ Legal(g, s) \subseteq Actions
            /\ AbandonedMove(g, s) \in Actions \cup {NoMove}
            /\ \A q \in Subjects : PartnerAsked(g, s, q) \in Seats \cup {NoSeat}

\* What the room leaves to the module: a decided match offers nothing; a move
\* offered or drawn for an earlier state is accepted later only if it could be
\* offered or drawn again; and asking a paid question never decides a match.
ASSUME ModuleAssumption ==
  /\ \A g \in GameStates :
       /\ Over(g) => SystemMoves(g) = {} /\ \A s \in Seats : Legal(g, s) = {}
       /\ \A a \in PaidQuestion :
            ~Over(g) /\ Apply(g, a) # Refused => ~Over(Apply(g, a))
  /\ \A s \in Seats : \A a \in UNION { Legal(h, s) : h \in GameStates } :
       \A g \in GameStates : Apply(g, a) # Refused => a \in Legal(g, s)
  /\ \A a \in UNION { SystemMoves(h) : h \in GameStates } :
       \A g \in GameStates : Apply(g, a) # Refused => a \in SystemMoves(g)

VARIABLES
  game,       \* matchState; NotStarted while undefined
  order,      \* the insertion order of `controllers`
  kind,       \* a seat's controller: "empty" (no entry), "human" or "bot"
  link,       \* a human's socket: "none", "live", "window" (allowReconnection
              \* is pending) or "gone"
  clock,      \* turnTimerSeat while turnTimer and turnDeadline are set
  consult,    \* pendingConsult
  consultSeq,
  chain,      \* the jobs queued behind the running one on advanceChain
  job,        \* where the running job stands
  opinions,   \* handleConsult calls awaiting adviceFor
  advised,    \* the consult ids resolveConsult has sent an advice for
  bought,     \* the seats with an entry in boughtAnswers
  disposed

controllers == <<order, kind>>
seating     == <<order, kind, link>>
timing      == <<clock, consult>>
advice      == <<consultSeq, opinions, advised, bought>>
vars == <<game, seating, timing, chain, job, advice, disposed>>

-----------------------------------------------------------------------------
(* Types. *)

NoConsult == [id |-> 0]
Consult   == [id : Nat \ {0}, asker : Seats, partner : Seats, about : Subjects,
              timer : BOOLEAN]

NoReply == [asker |-> NoSeat]
Reply   == [asker : Seats, about : Subjects]

Task == [kind : {"advance"}, reply : Reply \cup {NoReply}]
          \cup [kind : {"timeout"}, seat : Seats]
          \cup [kind : {"fallback"}, id : Nat \ {0}]

Idle == [at |-> "idle"]

\* A running job is between two awaits ("loop", "reply") or at one of them.
Job == {Idle}
  \cup [at : {"loop"},     step : 0 .. MaxSteps, reply : Reply \cup {NoReply}]
  \cup [at : {"botTurn"},  step : 0 .. MaxSteps - 1, reply : Reply \cup {NoReply},
        seat : Seats, options : SUBSET Actions]
  \cup [at : {"buying"},   step : 0 .. MaxSteps - 1, reply : Reply \cup {NoReply},
        seat : Seats]
  \cup [at : {"pause"},    step : 0 .. MaxSteps - 1, reply : Reply \cup {NoReply},
        move : Actions]
  \cup [at : {"timeout"},  seat : Seats, options : SUBSET Actions]
  \cup [at : {"fallback"}, id : Nat \ {0}]
  \cup [at : {"reply"},    reply : Reply]

Opinion == [asker : Seats, partner : Seats \cup {NoSeat}]

TypeOK ==
  /\ game \in GameStates \cup {NotStarted}
  /\ order \in Seq(Seats)
  /\ kind \in [Seats -> {"empty", "human", "bot"}]
  /\ link \in [Seats -> {"none", "live", "window", "gone"}]
  /\ clock \in Seats \cup {NoSeat}
  /\ consult \in Consult \cup {NoConsult}
  /\ consultSeq \in Nat
  /\ chain \in Seq(Task)
  /\ job \in Job
  /\ opinions \subseteq Opinion
  /\ advised \in Seq(Nat \ {0})
  /\ bought \subseteq Seats
  /\ disposed \in BOOLEAN

-----------------------------------------------------------------------------
(* Questions the room asks of the table. *)

Started     == game # NotStarted
Finished(g) == g # NotStarted /\ Over(g)
Live        == Started /\ ~Finished(game)
Blocking(g, s) == Legal(g, s) \ NonBlocking

Humans == { s \in Seats : kind[s] = "human" }
Bots   == { s \in Seats : kind[s] = "bot" }

\* The first seat of S in the iteration order o of `controllers`.
FirstIn(o, S) ==
  LET Leads(i) == o[i] \in S /\ \A j \in 1 .. i - 1 : o[j] \notin S
  IN  IF \E i \in DOMAIN o : Leads(i)
        THEN o[CHOOSE i \in DOMAIN o : Leads(i)] ELSE NoSeat

\* seatOnTheClock, for the game state g and the controllers (o, k)
SeatOnTheClock(g, o, k) ==
  FirstIn(o, { s \in Seats : k[s] = "human" /\ Blocking(g, s) # {} })

\* decisionsAHumanIsWaitingOn: what the first human offered a human-priority
\* decision is being offered; empty when there is none
HeldTypes ==
  LET waiting == FirstIn(order, { s \in Humans :
                                    Legal(game, s) \cap HumanPriority # {} })
  IN  IF waiting = NoSeat THEN {} ELSE { TypeOf(a) : a \in Legal(game, waiting) }

\* Seeded fault: a bot keeps everything it is offered.
UnheldOptions(s) == Legal(game, s)

OwnOptions(s) == { a \in Legal(game, s) : TypeOf(a) \notin HeldTypes }

\* findActingBot
ActingBot == FirstIn(order, { s \in Bots : OwnOptions(s) \ NonBlocking # {} })

AnySeatCanAct == \E s \in Seats : kind[s] # "empty" /\ Legal(game, s) # {}

-----------------------------------------------------------------------------
(* The clock, the broadcast and the chain. *)

\* clearTurnTimer, which also withdraws the open consult
ClearClock == clock' = NoSeat /\ consult' = NoConsult

\* The seat whose clock should run.
Due(g, o, k) == IF Finished(g) \/ ~HasBot THEN NoSeat ELSE SeatOnTheClock(g, o, k)

\* Seeded faults: a clock nobody owes is left running; a consult survives the
\* end of its turn.
StickyArm(g, o, k, c) ==
  /\ clock' = IF Due(g, o, k) = NoSeat THEN clock ELSE Due(g, o, k)
  /\ consult' = IF clock' = clock THEN c ELSE NoConsult
KeptConsultArm(g, o, k, c) == clock' = Due(g, o, k) /\ consult' = c

\* armTurnTimer, once the state is g, the controllers (o, k) and the open
\* consult c: a running clock of the seat still due stands, its consult with
\* it; any other is cleared and the seat due is given a fresh one.
Arm(g, o, k, c) ==
  /\ clock' = Due(g, o, k)
  /\ consult' = IF clock' # NoSeat /\ clock' = clock THEN c ELSE NoConsult

\* Seeded fault: no fence for a disposed room.
UnfencedBroadcastTo(g, o, k, c) ==
  IF g = NotStarted THEN clock' = clock /\ consult' = c ELSE Arm(g, o, k, c)

\* broadcastViews: nothing without a match or once disposed
BroadcastTo(g, o, k, c) ==
  IF disposed \/ g = NotStarted THEN clock' = clock /\ consult' = c ELSE Arm(g, o, k, c)

\* Seeded fault: the new state is not broadcast, so no clock moves.
Unshown(g) == game' = g /\ UNCHANGED timing

\* matchState is replaced and broadcast.
Show(g) == game' = g /\ BroadcastTo(g, order, kind, consult)

Advance(reply) == [kind |-> "advance", reply |-> reply]

\* No microtask is pending: the running job, if any, awaits something, and an
\* idle room has nothing queued.  Only then can the loop take a macrotask.
Awaiting == {"botTurn", "buying", "timeout", "fallback"}
              \cup (IF Pauses THEN {"pause"} ELSE {})
Yielded  == job.at \in Awaiting \/ (job = Idle /\ chain = <<>>)

\* A macrotask of a room that is not torn down, which may queue n jobs; the
\* queue's length is this model's bound.
Turn(n) == Yielded /\ ~disposed /\ Len(chain) + n <= MaxChain

-----------------------------------------------------------------------------
(* Joining and leaving. *)

Init ==
  LET bots == IF HasBot THEN SeatCount - HumanSeats ELSE 0
  IN  /\ game = NotStarted
      /\ order = [i \in 1 .. bots |-> SeatCount - i]
      /\ kind = [s \in Seats |-> IF s >= SeatCount - bots THEN "bot" ELSE "empty"]
      /\ link = [s \in Seats |-> "none"]
      /\ clock = NoSeat
      /\ consult = NoConsult
      /\ consultSeq = 0
      /\ chain = <<>>
      /\ job = Idle
      /\ opinions = {}
      /\ advised = <<>>
      /\ bought = {}
      /\ disposed = FALSE

\* onJoin: the lowest free seat; the join that fills the table starts the match.
Join(s) ==
  /\ Turn(1)
  /\ kind[s] = "empty" /\ \A t \in 0 .. s - 1 : kind[t] # "empty"
  /\ kind' = [kind EXCEPT ![s] = "human"]
  /\ order' = Append(order, s)
  /\ link' = [link EXCEPT ![s] = "live"]
  /\ IF Len(order') = SeatCount
       THEN /\ game' = FirstState
            /\ BroadcastTo(FirstState, order', kind', consult)
            /\ chain' = Append(chain, Advance(NoReply))
       ELSE UNCHANGED <<game, timing, chain>>
  /\ UNCHANGED <<job, advice, disposed>>

Rewire(s, from, to) ==
  /\ Turn(0)
  /\ kind[s] = "human" /\ link[s] = from
  /\ link' = [link EXCEPT ![s] = to]
  /\ UNCHANGED <<game, controllers, timing, chain, job, advice, disposed>>

\* onLeave opens the seat's window; onReconnect replaces its client.
Drop(s)      == Rewire(s, "live", "window")
Reconnect(s) == Rewire(s, "window", "live")

\* endMatchOnAbandonedSeat: the state once the module has been asked
Abandoned(s) ==
  IF ~Live \/ AbandonedMove(game, s) = NoMove
    THEN Refused ELSE Apply(game, AbandonedMove(game, s))

\* takeOverSeat: the module is asked first, then a bot takes the controller.
TakeOver(s) ==
  /\ IF Abandoned(s) = Refused THEN UNCHANGED <<game, timing>> ELSE Show(Abandoned(s))
  /\ IF Finished(game') \/ ~HasBot
       THEN UNCHANGED <<kind, chain>>
       ELSE /\ kind' = [kind EXCEPT ![s] = "bot"]
            /\ chain' = chain
                 \o (IF consult' # NoConsult /\ consult'.partner = s
                       THEN <<[kind |-> "fallback", id |-> consult'.id]>> ELSE <<>>)
                 \o <<Advance(NoReply)>>
  /\ UNCHANGED <<order, job, advice, disposed>>

\* The reconnection window runs out.
WindowExpires(s) ==
  /\ Turn(2)
  /\ link[s] = "window"
  /\ TakeOver(s)
  /\ link' = [link EXCEPT ![s] = "gone"]

\* handleQuit: no window; a seat the bot now holds is no longer found by onLeave.
Quit(s) ==
  /\ Turn(2)
  /\ link[s] = "live" /\ kind[s] = "human"
  /\ TakeOver(s)
  /\ link' = IF kind'[s] = "bot" THEN [link EXCEPT ![s] = "gone"] ELSE link

\* onDispose, after Colyseus has closed every socket and window
Dispose ==
  /\ Turn(0)
  /\ disposed' = TRUE
  /\ ClearClock
  /\ link' = [s \in Seats |-> IF link[s] = "none" THEN "none" ELSE "gone"]
  /\ UNCHANGED <<game, controllers, chain, job, advice>>

-----------------------------------------------------------------------------
(* Client messages. *)

\* Seeded fault: any move of the module's will do, offered or not.
AnyMove(s, a) == Started /\ Apply(game, a) # Refused

\* handleAction's refusals: no match yet, not offered to this seat, refused.
MayPlay(s, a) == Started /\ a \in Legal(game, s) /\ Apply(game, a) # Refused

Accept(s, a, reply) ==
  /\ Turn(1)
  /\ kind[s] = "human" /\ link[s] = "live"
  /\ MayPlay(s, a)
  /\ Show(Apply(game, a))
  /\ chain' = Append(chain, Advance(reply))
  /\ UNCHANGED <<seating, job, advice, disposed>>

HandleAction(s, a) == Accept(s, a, NoReply)

\* handleConsult: the same, and the caller awaits the job it queued.
HandleConsult(s, a) == Accept(s, a, [asker |-> s, about |-> SubjectOf(a)])

\* Seeded fault: the answer is sent and the consult left open.
UnclearedResolve == advised' = Append(advised, consult.id) /\ UNCHANGED timing

\* resolveConsult: cleared, sent to the asker if a person still sits there,
\* broadcast.
Resolve ==
  /\ advised' = IF kind[consult.asker] = "human"
                  THEN Append(advised, consult.id) ELSE advised
  /\ BroadcastTo(game, order, kind, NoConsult)

\* handleConsultAnswer past its four guards
HandleConsultAnswer(s) ==
  /\ Turn(0)
  /\ consult # NoConsult /\ consult.partner = s
  /\ kind[s] = "human" /\ link[s] = "live"
  /\ Resolve
  /\ UNCHANGED <<game, seating, chain, job, consultSeq, opinions, bought, disposed>>

\* Seeded fault: the id is read before it is counted, so the first one is 0.
StaleConsultId == consultSeq
NextConsultId  == consultSeq + 1

\* handleConsult after its await: open a window to a live human partner
\* (openConsult), or fall through to the module's own opinion.
ConsultReply ==
  /\ job.at = "reply"
  /\ job' = Idle
  /\ LET asker   == job.reply.asker
         partner == PartnerAsked(game, asker, job.reply.about)
         opens   == /\ consult = NoConsult /\ clock # NoSeat
                    /\ partner # NoSeat /\ kind[partner] = "human"
     IN  CASE kind[asker] # "human" -> UNCHANGED <<timing, consultSeq, opinions>>
           [] kind[asker] = "human" /\ opens ->
                /\ consultSeq' = NextConsultId
                /\ BroadcastTo(game, order, kind,
                     [id |-> NextConsultId, asker |-> asker, partner |-> partner,
                      about |-> job.reply.about, timer |-> TRUE])
                /\ UNCHANGED opinions
           [] OTHER ->
                /\ opinions' = opinions \cup {[asker |-> asker, partner |-> partner]}
                /\ UNCHANGED <<timing, consultSeq>>
  /\ UNCHANGED <<game, seating, chain, advised, bought, disposed>>

\* adviceFor settles: the asker is sent it as the partner's.
OpinionArrives(o) ==
  /\ Yielded
  /\ opinions' = opinions \ {o}
  /\ UNCHANGED <<game, seating, timing, chain, job, consultSeq, advised, bought, disposed>>

-----------------------------------------------------------------------------
(* Timers. *)

\* onTurnExpired
TurnExpires ==
  /\ Turn(1) /\ clock # NoSeat
  /\ ClearClock
  /\ chain' = Append(chain, [kind |-> "timeout", seat |-> clock])
  /\ UNCHANGED <<game, seating, job, advice, disposed>>

\* The consult's own timer: queueConsultFallback.
ConsultCapExpires ==
  /\ Turn(1) /\ consult # NoConsult /\ consult.timer
  /\ consult' = [consult EXCEPT !.timer = FALSE]
  /\ chain' = Append(chain, [kind |-> "fallback", id |-> consult.id])
  /\ UNCHANGED <<game, seating, clock, job, advice, disposed>>

-----------------------------------------------------------------------------
(* The serialized chain: runAdvanceOnce, runTimedOutTurnOnce,              *)
(* runConsultFallbackOnce.                                                 *)

Loop(step, reply) == [at |-> "loop", step |-> step, reply |-> reply]
Again == Loop(job.step + 1, job.reply)

\* Seeded fault: the step awaits its own link of the chain, and never settles.
SelfAwaited == job

\* A settled advance() resumes the handleConsult awaiting it before the next job.
Settled == IF job.reply = NoReply THEN Idle ELSE [at |-> "reply", reply |-> job.reply]

\* playOneBotActionFor's checks before it asks the strategy
StillOwes(s) == ~disposed /\ Live /\ kind[s] = "human" /\ HasBot /\ Blocking(game, s) # {}

\* What a queued job runs into first.
Begun(t) ==
  CASE t.kind = "advance" -> Loop(0, t.reply)
    [] t.kind = "timeout" ->
         IF StillOwes(t.seat)
           THEN [at |-> "timeout", seat |-> t.seat, options |-> Blocking(game, t.seat)]
           ELSE Loop(0, NoReply)
    [] t.kind = "fallback" ->
         IF ~disposed /\ consult.id = t.id THEN [at |-> "fallback", id |-> t.id] ELSE Idle

StartJob ==
  /\ job = Idle /\ chain # <<>>
  /\ chain' = Tail(chain)
  /\ job' = Begun(Head(chain))
  /\ UNCHANGED <<game, seating, timing, advice, disposed>>

\* The running job moves on and changes nothing else.
Becomes(j) == job' = j /\ UNCHANGED <<game, seating, timing, chain, advice, disposed>>

\* Below the step ceiling, the room not disposed of, the match live.
MayStep == job.at = "loop" /\ job.step < MaxSteps /\ ~disposed /\ Live

\* Nothing to drive, or nobody to drive and no system action.
LoopReturns ==
  /\ job.at = "loop"
  /\ MayStep => /\ ActingBot = NoSeat
                /\ AnySeatCanAct \/ SystemMoves(game) = {}
  /\ Becomes(Settled)

\* A bot owes a blocking action of its own: its strategy is asked.
AskBot ==
  /\ MayStep /\ ActingBot # NoSeat
  /\ Becomes([at |-> "botTurn", step |-> job.step, reply |-> job.reply,
               seat |-> ActingBot, options |-> OwnOptions(ActingBot)])

\* chooseAction resolves; the action meets whatever the state is by now.  A paid
\* question awaits its answer before anything is broadcast.
BotMoves(a) ==
  /\ job.at = "botTurn" /\ a \in job.options
  /\ LET g == Apply(game, a) IN
       \/ /\ g = Refused
          /\ job' = Again
          /\ UNCHANGED <<game, timing, bought>>
       \/ /\ g # Refused /\ a \in PaidQuestion
          /\ game' = g
          /\ job' = [at |-> "buying", step |-> job.step, reply |-> job.reply,
                     seat |-> job.seat]
          /\ UNCHANGED <<timing, bought>>
       \/ /\ g # Refused /\ a \notin PaidQuestion
          /\ Show(g)
          /\ bought' = bought \ {job.seat}
          /\ job' = Again
  /\ UNCHANGED <<seating, chain, consultSeq, opinions, advised, disposed>>

\* adviceFor answers a bot's paid question; only now is the move broadcast.
BotBuys ==
  /\ job.at = "buying"
  /\ Show(game)
  /\ bought' = bought \cup {job.seat}
  /\ job' = Again
  /\ UNCHANGED <<seating, chain, consultSeq, opinions, advised, disposed>>

\* The strategy rejects: the catch abandons the driving step.
BotThrows == BotsMayThrow /\ job.at = "botTurn" /\ Becomes(Settled)

\* No seat can act: the system action is drawn, then the table pauses.
PlanSystemMove(m) ==
  /\ MayStep /\ ActingBot = NoSeat /\ ~AnySeatCanAct
  /\ m \in SystemMoves(game)
  /\ Becomes([at |-> "pause", step |-> job.step, reply |-> job.reply, move |-> m])

PauseEnds ==
  /\ job.at = "pause"
  /\ LET g == Apply(game, job.move) IN
       \/ g = Refused /\ job' = Settled /\ UNCHANGED <<game, timing>>
       \/ g # Refused /\ job' = Again /\ Show(g)
  /\ UNCHANGED <<seating, chain, advice, disposed>>

\* The timed-out seat's one action arrives; then the table is driven on.
TimedOutMove(a) ==
  /\ job.at = "timeout" /\ a \in job.options
  /\ LET g == Apply(game, a) IN
       \/ g = Refused /\ UNCHANGED <<game, timing>>
       \/ g # Refused /\ Show(g)
  /\ job' = Loop(0, NoReply)
  /\ UNCHANGED <<seating, chain, advice, disposed>>

TimedOutThrows == BotsMayThrow /\ job.at = "timeout" /\ Becomes(Loop(0, NoReply))

\* adviceFor answers a fallback, checked again before it resolves; or it has
\* nothing to say.
FallbackAnswers ==
  /\ job.at = "fallback"
  /\ IF consult.id = job.id THEN Resolve ELSE UNCHANGED <<timing, advised>>
  /\ job' = Idle
  /\ UNCHANGED <<game, seating, chain, consultSeq, opinions, bought, disposed>>

FallbackSilent == job.at = "fallback" /\ Becomes(Idle)

-----------------------------------------------------------------------------

Seating == \E s \in Seats : Join(s) \/ Drop(s) \/ Reconnect(s)
                              \/ WindowExpires(s) \/ Quit(s)

\* The client sends "consult" with the paid questions it is offered.
Messages == \E s \in Seats :
              \/ \E a \in Actions : HandleAction(s, a)
              \/ \E a \in PaidQuestion : HandleConsult(s, a)
              \/ HandleConsultAnswer(s)

\* What the event loop brings the running job to its end with.
JobStep ==
  \/ StartJob \/ LoopReturns \/ AskBot \/ BotBuys \/ BotThrows \/ PauseEnds
  \/ TimedOutThrows \/ FallbackAnswers \/ FallbackSilent \/ ConsultReply
  \/ \E a \in Actions : BotMoves(a) \/ PlanSystemMove(a) \/ TimedOutMove(a)

Opine == \E o \in opinions : OpinionArrives(o)

Next == Seating \/ Messages \/ JobStep \/ Opine
          \/ TurnExpires \/ ConsultCapExpires \/ Dispose

Spec == Init /\ [][Next]_vars

\* Node settles promises and fires timers: every awaited answer arrives, every
\* armed clock and every open window runs out.  Nothing obliges a person to act.
Fairness ==
  /\ WF_vars(JobStep)
  /\ WF_vars(Opine)
  /\ WF_vars(TurnExpires)
  /\ WF_vars(ConsultCapExpires)
  /\ \A s \in Seats : WF_vars(WindowExpires(s))

FairSpec == Spec /\ Fairness

-----------------------------------------------------------------------------
(* What the proofs need beside the properties: a job that drives, awaits or  *)
(* owes an answer implies a match, what it holds was offered or drawn for    *)
(* some state of the game, and the consults answered are the ones counted.   *)

Owing(j) == j.at \in {"botTurn", "buying", "pause", "timeout", "reply"}
              \/ (j.at = "loop" /\ j.reply # NoReply)

HeldMovesWereLegal ==
  /\ job.at \in {"botTurn", "timeout"} =>
       job.options \subseteq UNION { Legal(h, job.seat) : h \in GameStates }
  /\ job.at = "pause" => job.move \in UNION { SystemMoves(h) : h \in GameStates }

ConsultsCounted ==
  /\ consult # NoConsult => consult.id <= consultSeq
  /\ \A i \in DOMAIN advised :
       advised[i] <= consultSeq /\ (consult # NoConsult => advised[i] < consult.id)

\* The kinds of answer people give first that s is asked for in g.
PriorityTypes(g, s) == { TypeOf(a) : a \in Legal(g, s) \cap HumanPriority }

\* A game whose questions go to one side at a time: everybody who is asked is asked the
\* same, and nobody who is not can change who is asked, short of ending the match.
OneSideIsAsked ==
  \A g \in GameStates : \A s, t \in Seats :
    PriorityTypes(g, s) # {} /\ PriorityTypes(g, t) # PriorityTypes(g, s) =>
      /\ PriorityTypes(g, t) = {}
      /\ \A a \in (Legal(g, t) \cup {AbandonedMove(g, t)}) \ {NoMove} :
           \/ Apply(g, a) = Refused
           \/ Over(Apply(g, a))
           \/ \A r \in Seats : PriorityTypes(Apply(g, a), r) = PriorityTypes(g, r)

-----------------------------------------------------------------------------
(* Properties. *)

\* A finished match keeps no clock running, and there is no clock before the
\* match starts.  Moves are made by people, bots, timeouts and the system, and
\* every one of these paths has to pass through broadcastViews for it to hold.
ClockOnLiveMatch == clock # NoSeat => Started /\ ~Finished(game)

\* A consult never outlives the clock it was opened under, whichever of the
\* answer, the cap, the turn's end or a takeover comes first.
ConsultUnderClock == consult # NoConsult => clock # NoSeat

\* After onDispose no turn timer and no consult timer is left armed or is armed
\* again, although decisions in flight come back to a room that is gone.
NothingOutlivesRoom == disposed => clock = NoSeat /\ consult = NoConsult

\* A consult is answered at most once: the partner's answer, the cap's fallback
\* and the takeover's fallback race for it across an await.
AnsweredOnce == \A i, j \in DOMAIN advised : i < j => advised[i] < advised[j]

\* No bot is deciding an answer that any person is being asked for: not one that was
\* asked with it, nor one whose question came up while the strategy was awaited, nor one
\* a takeover of the person asked before them has left with it ("The human answers
\* first", apps/server/src/registry.ts:20-25; match-room.ts:1428-1433).
PeopleAnswerFirst == job.at = "botTurn" =>
  \A a \in job.options \cap HumanPriority :
    \A s \in Humans : TypeOf(a) \notin PriorityTypes(game, s)

\* Nor is anything it was handed, a raise or a question as little as an answer, a kind of
\* move that the first person asked is being offered. A game may break this one with
\* what people play meanwhile; truco for four does, where truco_consult ends.
HeldStaysHeld == job.at = "botTurn" =>
  \A a \in job.options : TypeOf(a) \notin HeldTypes

\* While a bot is deciding, a person who is asked has the first word, even if the table
\* moved since the bot was: both of the above.
HumanHasFirstWord == PeopleAnswerFirst /\ HeldStaysHeld

\* A person who owes the table a decision is on a clock whenever nothing is in
\* flight that could still put one there: no table can stall on a person.
OwedTurnIsTimed ==
  job = Idle /\ chain = <<>> /\ Live /\ ~disposed /\ HasBot
    /\ SeatOnTheClock(game, order, kind) # NoSeat
  => clock # NoSeat

\* Once started, a match is played to its end or the room is disposed of,
\* whatever its people do: turns time out, windows expire, bots take over.
MatchEnds == Started ~> Finished(game) \/ disposed

\* A driven table settles: every job queued on advanceChain gets its turn and
\* comes to an end, even when the game never stops offering bots moves.
ChainDrains == chain # <<>> \/ job # Idle ~> chain = <<>> /\ job = Idle

\* An open consult is answered or withdrawn.
ConsultCloses == \A n \in 1 .. SeatCount : consult.id = n ~> consult.id # n

\* Nothing that was started is left hanging.
EverythingSettles == ChainDrains /\ ConsultCloses

\* The match itself, whoever drives it, only ever takes the steps Match allows:
\* moves offered by the module, system moves drawn for the state they land in, the
\* answer to an abandoned seat; nothing after the end.
Table == INSTANCE Match
Authoritative == Table!Spec
=============================================================================
