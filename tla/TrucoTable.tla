------------------------------- MODULE TrucoTable -------------------------------
(***************************************************************************)
(* The truco table on one seat's screen: what truco-ui/src/table.ts keeps  *)
(* from one view to the next, and main.ts's channel for questions between  *)
(* partners.  The match is the one of Truco; the room broadcasts a view    *)
(* after every action, with the deadline of the seat whose clock runs and  *)
(* the question pending, and each view is painted over the one before.     *)
(* Durations are left out: a timer that is armed may fire at any time.     *)
(* Every seat has a person in it, and its socket keeps up.                 *)
(***************************************************************************)
EXTENDS Truco, GameTable

CONSTANTS
  Callers(_), \* bound: the seats that call, for a seat count
  Calls       \* bound: the levels of envido they use

ASSUME TrucoTableAssumption ==
  /\ Calls \subseteq 1 .. 4
  /\ \A n \in TrucoTables : Me \in 0 .. n - 1 /\ Callers(n) \subseteq 0 .. n - 1

Nobody == -1
Lanes == {"outcome", "sena", "call", "reveal"}

VARIABLES
  clock,      \* turnTimerSeat, Nobody while no turn timer runs
  consult,    \* pendingConsult.askerSeat, or Nobody
  events,     \* hand.callEvents
  mounted,    \* the table has painted a view, and has not been left
  notices,    \* for each lane: its event stands, and the timers armed for it
  feedback,   \* trickFeedback and previousTrickCount
  history,    \* callHistory
  spoken,     \* announcedClockDeadline and warnedClockDeadline: "none", "this" deadline
              \* or an "old" one; previousConsultOpen; how often this one was told
  channel,    \* consult.asking and advice; consultAsk; the question on its way to the
              \* room ("" if none), and what is on its way back
  heard       \* every call broadcast to this table

roomVars  == <<clock, consult, events>>
tableVars == <<mounted, notices, feedback, history, spoken, channel, heard>>
screenVars == <<trucoVars, roomVars, tableVars>>

-----------------------------------------------------------------------------
(* The view, as the table reads it. *)

Partner(s) == (s + 2) % 4

\* derivePendingCall, respondingTeamId: an envido stands before a truco
Answering ==
  IF envido.status = "pending" THEN Rival(envido.team)
  ELSE IF truco.status = "pending" THEN Rival(truco.team) ELSE NoTeam

\* isAnchorActive: the side that owes an answer, or the seat whose turn it is
AnchorActive(s) == dealt /\ IF Answering # NoTeam THEN Team(s) = Answering ELSE turn = s

\* consultBadgeShown: the question takes the badge, unless it would take it from me
ConsultOnBadge == consult # Nobody /\ (AnchorActive(Me) => consult = Me)

\* mountedTurnDeadline
MountedDeadline == IF ConsultOnBadge THEN "consult" ELSE IF clock # Nobody THEN "turn" ELSE "none"

\* seatOnTheClock of the room: the first person who is offered a move that blocks
FirstOwing == IF Movers = {} THEN Nobody ELSE Min(Movers)

-----------------------------------------------------------------------------
(* What a view does to what the table keeps. *)

Quiet == [l \in Lanes |-> [up |-> FALSE, timers |-> 0]]

Arm(n) == [up |-> TRUE, timers |-> 1]

Noticed(raised) == [l \in Lanes |-> IF l \in raised THEN Arm(notices[l]) ELSE notices[l]]

\* deriveHandOutcomeEvent, deriveSeatCallEvent, deriveEnvidoRevealEvent: the
\* difference between two views
Ended    == dealt /\ dealer' = dealer /\ won = NoTeam /\ won' # NoTeam
Called   == dealt /\ Len(events') > Len(events)
Revealed == dealt' /\ envido'.status = "revealed" /\ ~(dealt /\ envido.status = "revealed")
Raised(signed) ==
  (IF Ended THEN {"outcome"} ELSE {}) \cup (IF Called THEN {"call"} ELSE {})
    \cup (IF Revealed THEN {"reveal"} ELSE {}) \cup (IF signed THEN {"sena"} ELSE {})

\* trickFeedback: a trick more is told, a card on the table ends the telling
NoFeedback == [text |-> <<>>, seen |-> 0]
Told(f, ts, ps) ==
  [text |-> IF Len(ts) > f.seen THEN <<Last(ts)>> ELSE IF ps # <<>> THEN <<>> ELSE f.text,
   seen |-> Len(ts)]

\* continues
Continues(before, now) == IsPrefix(before, now)

\* Seeded fault: a round that is over is forgotten.
Forget(closed, round) == closed
Close(closed, round) == Append(closed, round)

\* advanceHistory: a hand's calls are kept when the next hand's begin
NoHistory == [closed |-> <<>>, open |-> <<>>]
Advance(h, now) ==
  IF h.open = <<>> \/ Continues(h.open, now) THEN [h EXCEPT !.open = now]
  ELSE [closed |-> Close(h.closed, h.open), open |-> now]

\* What renderCallLog prints: the rounds kept, and the one that is on.
Printed == FlattenSeq(history.closed) \o events

\* The screen reader's share of the clock.  A new deadline is told to the side whose
\* badge has it, but not while a question is open; in its last seconds it has had
\* its warning already.
Silent == [said |-> "none", warned |-> "none", asked |-> FALSE, told |-> 0, warnings |-> 0]

Aged(w) == IF w = "none" THEN w ELSE "old"
Renewed(s) == [s EXCEPT !.said = Aged(@), !.warned = Aged(@), !.told = 0, !.warnings = 0]

MustTell(s, open) == ~open /\ s.said # "this"

Speak(s, deadline, active, open, short) ==
  IF deadline = "none" \/ ~active
    THEN [Silent EXCEPT !.asked = open]
  ELSE IF MustTell(s, open)
    THEN [s EXCEPT !.said = "this", !.told = @ + 1, !.asked = open,
                   !.warned = IF short THEN "this" ELSE @]
  ELSE [s EXCEPT !.asked = open]

\* consultOnView, and askOnView: an opinion goes, unless a question is still waiting
\* for its own; what is asked of me stands as long as the room says one is asked
Idle == [asking |-> FALSE, advice |-> FALSE, askOfMe |-> FALSE, sent |-> "", back |-> <<>>]

\* Seeded fault: only the answer takes the question off my screen.
KeepAsk(c, open) == [c EXCEPT !.advice = @ /\ c.asking]
OnView(c, open) == [c EXCEPT !.advice = @ /\ c.asking, !.askOfMe = @ /\ open]

-----------------------------------------------------------------------------
(* Painting. *)

\* render, for the view that follows the one on screen, when the deadline in it may
\* be a new one and my partner may have made a seña
Paint(fresh, signed) ==
  /\ notices' = Noticed(Raised(signed))
  /\ feedback' = Told(feedback, tricks', plays')
  /\ history' = Advance(history, events')
  /\ \E short \in BOOLEAN :
       spoken' = Speak(IF fresh THEN Renewed(spoken) ELSE spoken, MountedDeadline',
                       AnchorActive(Me)', consult' # Nobody, short)
  /\ heard' = IF Len(events') > Len(events) THEN Append(heard, Last(events')) ELSE heard

\* The first view a renderer is given: there is nothing to compare it with.
Mount ==
  /\ ~mounted
  /\ mounted' = TRUE
  /\ notices' = Quiet /\ feedback' = Told(NoFeedback, tricks, plays) /\ history' = Advance(NoHistory, events)
  /\ \E short \in BOOLEAN :
       spoken' = Speak(Silent, MountedDeadline, AnchorActive(Me), consult # Nobody, short)
  /\ heard' = events /\ channel' = Idle
  /\ UNCHANGED <<trucoVars, roomVars>>

\* The match is left, or its page reloaded: a renderer that is given the next view
\* is a new one.
Leave ==
  /\ mounted
  /\ mounted' = FALSE
  /\ notices' = Quiet /\ feedback' = NoFeedback /\ history' = NoHistory
  /\ spoken' = Silent /\ heard' = <<>> /\ channel' = Idle
  /\ UNCHANGED <<trucoVars, roomVars>>

\* A view is on its way: the next one is sent after it.
ViewComing == "view" \in Range(channel.back)

\* What broadcastViews does after a move of a seat: armTurnTimer, then a view to each.
\* A clock that ran out plays for its seat and is wound again, even for that seat.
Broadcast(actor, log, signed) ==
  /\ ~ViewComing
  /\ events' = log
  /\ clock' = FirstOwing'
  /\ \E expired \in (IF actor = clock THEN BOOLEAN ELSE {FALSE}) :
       LET fresh == expired \/ clock' # clock
       IN  /\ consult' = IF fresh THEN Nobody ELSE consult
           /\ IF mounted
                THEN /\ Paint(fresh, signed)
                     /\ channel' = OnView(channel, consult' # Nobody)
                ELSE UNCHANGED <<notices, feedback, history, spoken, heard, channel>>
  /\ UNCHANGED mounted

Says(s, what) == Broadcast(s, Append(events, <<s, what>>), FALSE)

-----------------------------------------------------------------------------
(* Questions between partners: consult-channel.ts on the screen, handleConsult, *)
(* openConsult and resolveConsult in the room.                                 *)

\* The press: dispatch, consultOnAsk.
Ask(about) ==
  /\ mounted /\ ~channel.asking /\ MayConsult(Me, about)
  /\ channel' = [channel EXCEPT !.asking = TRUE, !.advice = FALSE, !.sent = about]
  /\ UNCHANGED <<trucoVars, roomVars, mounted, notices, feedback, history, spoken, heard>>

\* The room has somebody's question.  If none is open it is put to the partner;
\* otherwise the room answers it itself.
Opened(asker) == IF consult = Nobody /\ clock # Nobody THEN asker ELSE consult
Repaint(c) ==
  IF mounted
    THEN /\ \E short \in BOOLEAN : spoken' = Speak(spoken, MountedDeadline', AnchorActive(Me)',
                                                   consult' # Nobody, short)
         /\ channel' = c
         /\ UNCHANGED <<notices, feedback, history, heard>>
    ELSE UNCHANGED <<notices, feedback, history, spoken, heard, channel>>

Asked ==
  /\ channel.sent # "" /\ ~ViewComing
  /\ UNCHANGED <<clock, events, mounted>>
  /\ IF MayConsult(Me, channel.sent)
       THEN /\ Spend(Me)
            /\ consult' = Opened(Me)
            /\ Repaint([OnView(channel, consult' # Nobody) EXCEPT !.sent = "",
                          !.back = IF consult = Nobody /\ clock # Nobody THEN @ ELSE Append(@, "advice")])
       ELSE \* action-rejected: the screen is told, and makes nothing of it
            /\ channel' = [channel EXCEPT !.sent = ""]
            /\ UNCHANGED <<trucoVars, consult, notices, feedback, history, spoken, heard>>

\* Another seat's question: my partner's is put to me.
AskedBy(s) ==
  /\ s # Me /\ ~ViewComing /\ ConsultPartner(s)
  /\ UNCHANGED <<clock, events, mounted>>
  /\ consult' = Opened(s)
  /\ Repaint([OnView(channel, consult' # Nobody) EXCEPT
                !.askOfMe = @ \/ (s = Partner(Me) /\ consult # s /\ consult' = s)])

\* resolveConsult, for the partner's answer or for the room's own in its stead: the
\* asker is sent the opinion, and then everyone a view without the question.
Resolve ==
  /\ consult # Nobody /\ ~ViewComing
  /\ consult' = Nobody
  /\ UNCHANGED <<trucoVars, clock, events, mounted>>
  /\ IF consult = Me /\ mounted
       THEN /\ channel' = [channel EXCEPT !.back = @ \o <<"advice", "view">>]
            /\ UNCHANGED <<notices, feedback, history, spoken, heard>>
       ELSE Repaint(OnView(channel, FALSE))

\* The opinion is painted: consultOnAdvice.  The view behind it is painted over it.
AdviceArrives ==
  /\ channel.back # <<>> /\ Head(channel.back) = "advice"
  /\ channel' = [channel EXCEPT !.asking = FALSE, !.advice = TRUE, !.back = Tail(@)]
  /\ UNCHANGED <<trucoVars, roomVars, mounted, notices, feedback, history, spoken, heard>>

ViewArrives ==
  /\ channel.back # <<>> /\ Head(channel.back) = "view"
  /\ UNCHANGED <<trucoVars, roomVars, mounted>>
  /\ Repaint([OnView(channel, FALSE) EXCEPT !.back = Tail(@)])

-----------------------------------------------------------------------------
(* Time on the screen. *)

\* The timer of a notice: its event is over, and its part of the screen repainted.
Fades(l) ==
  /\ notices[l].timers > 0
  /\ notices' = [notices EXCEPT ![l] = [up |-> FALSE, timers |-> @.timers - 1]]
  /\ UNCHANGED <<trucoVars, roomVars, mounted, feedback, history, spoken, channel, heard>>

\* The interval of the clock on the badge: its one warning.  A question's deadline
\* may be the turn's own.
Warn ==
  /\ mounted /\ MountedDeadline # "none"
  /\ spoken.said = "this" /\ spoken.warned # "this"
  /\ spoken' = [spoken EXCEPT !.warned = "this", !.warnings = @ + 1]
  /\ UNCHANGED <<trucoVars, roomVars, mounted, notices, feedback, history, channel, heard>>

TableInit ==
  /\ TrucoInit
  /\ clock = Nobody /\ consult = Nobody /\ events = <<>>
  /\ mounted = FALSE /\ notices = Quiet /\ feedback = NoFeedback /\ history = NoHistory
  /\ spoken = Silent /\ heard = <<>> /\ channel = Idle

TableNext ==
  \/ \E deal \in TrucoDeals(seatCount) : StartHand(deal) /\ Broadcast(Nobody, <<>>, FALSE)
  \/ \E s \in TrucoSeats :
       \/ \E c \in hands[s] : PlayCard(s, c) /\ Broadcast(s, events, FALSE)
       \/ SendSena(s) /\ Broadcast(s, events, s = Partner(Me))
       \/ AskedBy(s)
       \/ \E yes \in BOOLEAN : AnswerTruco(s, yes) /\ Says(s, "answers truco")
       \/ \E yes \in BOOLEAN : AnswerEnvido(s, yes) /\ Says(s, "answers envido")
  \/ \E s \in Callers(seatCount) :
       \/ CallTruco(s) /\ Says(s, "truco")
       \/ \E l \in Calls : CallEnvido(s, l) /\ Says(s, "envido")
  \/ \E s \in TrucoSeats, how \in {"points", "sonBuenas"} :
       Declare(s, how) /\ Says(s, how)
  \/ Mount \/ Leave
  \/ \E about \in {"pending-call", "envido"} : Ask(about)
  \/ Asked \/ Resolve \/ AdviceArrives \/ ViewArrives
  \/ \E l \in Lanes : Fades(l)
  \/ Warn

TableSpec == TableInit /\ [][TableNext]_screenVars

-----------------------------------------------------------------------------
(* Properties. *)

TableTypeOK ==
  /\ {clock, consult} \subseteq TrucoSeats \cup {Nobody}
  /\ mounted \in BOOLEAN
  /\ notices \in [Lanes -> [up : BOOLEAN, timers : Nat]]
  /\ feedback.text \in Seq(Teams \cup {NoTeam}) /\ feedback.seen \in 0 .. 3
  /\ spoken.said \in {"none", "this", "old"} /\ spoken.warned \in {"none", "this", "old"}
  /\ channel.sent \in {"", "pending-call", "envido"}
  /\ channel.back \in Seq({"advice", "view"})

\* A notice is on screen exactly while one timer is armed to take it away: a second
\* event on its lane takes over the timer of the first (table.ts:398-470), or that
\* one would cut the new notice short, and a notice without one would stay for ever.
NoticesHaveTimers ==
  \A l \in Lanes : notices[l].timers = IF notices[l].up THEN 1 ELSE 0

\* While I am the one to act a deadline is said to me once, and warned about at most
\* once and only if it was said, however many views, questions and ticks come under
\* it (table.ts:796-862): the region is read aloud, and saying it again at every
\* broadcast is the defect this bookkeeping is there for.
ClockSaidOnce ==
  /\ spoken.told <= 1 /\ spoken.warnings <= 1
  /\ spoken.warnings = 1 => spoken.warned = "this" \/ spoken.said # "this"
  /\ spoken.warned = "this" => spoken.said = "this"

\* The rail lists every call that was ever broadcast to this table, in order and
\* once: the engine's own log starts over at every deal, and no field of the view
\* says that a hand is a new one (call-history.ts).
CallsLogged == mounted => Printed = heard

\* The buttons of a partner's question are on my screen only while the room has that
\* question open, across every way it closes: answered, run out, or withdrawn with
\* the clock it was asked under (match-room.ts:1604-1612, consult-channel.ts:88).
AskedWhileOpen == channel.askOfMe /\ ~ViewComing => consult = Partner(Me)
=============================================================================
