-------------------------------- MODULE Truco --------------------------------
(***************************************************************************)
(* Truco, head to head or two against two: packages/games/truco-engine and *)
(* the GameModule around it, packages/games/truco-module.                  *)
(*                                                                         *)
(* A hand is three tricks; over it two chains of calls are argued, truco   *)
(* for what the hand is worth and envido for the number each seat was      *)
(* dealt.  Seats 0 and 2 play against seats 1 and 3, so a team is a seat's *)
(* parity.  A hand of cards is a set: its order is never read.  The log of *)
(* calls, the tricks kept to be shown, the wording of a refusal and which  *)
(* of the six señas is made are left out; what a seña costs is not.        *)
(***************************************************************************)
EXTENDS Integers, Sequences, FiniteSets, FiniteSetsExt, SequencesExt

CONSTANTS
  PointsToWin,      \* config.pointsToWin
  TrucoTables,      \* the seat counts played: 2 (createMatch), 4 (createMatch2v2)
  TrucoDeals(_),    \* bound: the deals the system may make, for a seat count
  SenaBudget,       \* MAX_SENAS_PER_HAND
  Signallers,       \* bound: the seats that use their señas
  Choosers(_)       \* bound: the seats that may play any card of theirs, for a
                    \* seat count; the others play the weakest

Suits == {"espada", "basto", "oro", "copa"}
Ranks == (1 .. 7) \cup (10 .. 12)
Cards == Ranks \X Suits

Teams  == {0, 1}
NoTeam == -1
Team(s)  == s % 2
Rival(t) == 1 - t

TrucoLevels  == <<"truco", "retruco", "valeCuatro">>
EnvidoLevels == <<"envido", "envidoEnvido", "realEnvido", "faltaEnvido">>

ASSUME TrucoAssumption ==
  /\ PointsToWin \in Nat \ {0}
  /\ TrucoTables \subseteq {2, 4}
  /\ SenaBudget \in Nat
  /\ \A n \in TrucoTables : \A d \in TrucoDeals(n) :
       /\ d \in [0 .. n - 1 -> SUBSET Cards]
       /\ \A s \in 0 .. n - 1 : Cardinality(d[s]) = 3
       /\ \A s, t \in 0 .. n - 1 : s # t => d[s] \cap d[t] = {}

VARIABLES
  seatCount,  \* state.players.length
  score,      \* team.score
  dealer,     \* dealerSeat
  hands,      \* player.hand
  dealt,      \* a hand is on the table (state.hand is not null)
  turn,       \* turnSeat
  plays,      \* currentTrickPlays
  tricks,     \* trickOutcomes: the team that won each, NoTeam when tied
  won,        \* outcome.winnerTeamId, NoTeam while undecided
  truco,      \* hand.truco
  envido,     \* hand.envido
  spent       \* senasSent: what each seat used of its budget this hand

calls == <<truco, envido>>
cards == <<hands, turn, plays, tricks>>
trucoVars == <<seatCount, score, dealer, dealt, won, cards, calls, spent>>

TrucoSeats == 0 .. seatCount - 1
After(s)   == (s + 1) % seatCount
mano       == After(dealer)     \* manoSeatFor

-----------------------------------------------------------------------------
(* Cards: their power in a trick, their number in the envido. *)

PowerGroups ==
  << {<<1, "espada">>}, {<<1, "basto">>}, {<<7, "espada">>}, {<<7, "oro">>},
     {3} \X Suits, {2} \X Suits, {<<1, "oro">>, <<1, "copa">>},
     {12} \X Suits, {11} \X Suits, {10} \X Suits, {<<7, "basto">>, <<7, "copa">>},
     {6} \X Suits, {5} \X Suits, {4} \X Suits >>

\* POWER_BY_CARD_ID, cardPower
PowerById == [c \in Cards |-> 15 - CHOOSE i \in DOMAIN PowerGroups : c \in PowerGroups[i]]
Power(c) == PowerById[c]

EnvidoRank(c) == IF c[1] > 7 THEN 0 ELSE c[1]

\* calculateEnvidoPoints: twenty and the two best of a suit, or the best card
EnvidoPoints(C) ==
  LET pairs == { p \in C \X C : p[1] # p[2] /\ p[1][2] = p[2][2] }
  IN  IF pairs = {} THEN Max({ EnvidoRank(c) : c \in C })
      ELSE Max({ 20 + EnvidoRank(p[1]) + EnvidoRank(p[2]) : p \in pairs })

\* The best power a team has on the table.
Best(ps, t) == Max({0} \cup { Power(p.card) : p \in { q \in Range(ps) : Team(q.seat) = t } })

\* resolveTrick
TrickWinner(ps) ==
  IF Best(ps, 0) = Best(ps, 1) THEN NoTeam
  ELSE IF Best(ps, 0) > Best(ps, 1) THEN 0 ELSE 1

\* nextLeaderSeat: the first of the winning side's best cards; a tie keeps the lead
Leader(ps) ==
  LET t == TrickWinner(ps)
      wins(i) == Team(ps[i].seat) = t /\ Power(ps[i].card) = Best(ps, t)
  IN  IF t = NoTeam THEN ps[1].seat ELSE ps[Min({ i \in DOMAIN ps : wins(i) })].seat

\* Seeded fault: a tied third trick goes to the mano.
ManoBreaksTies(ts, first) == first

\* What a tied third trick falls back on.
LastResort(ts, first) == IF ts[1] = NoTeam THEN first ELSE ts[1]

\* resolveHandWinner, for the trick outcomes ts and the mano's team
HandWinner(ts, first) ==
  IF Len(ts) < 2 THEN NoTeam
  ELSE CASE ts[1] = NoTeam /\ ts[2] # NoTeam            -> ts[2]
         [] ts[1] # NoTeam /\ ts[2] \in {NoTeam, ts[1]} -> ts[1]
         [] OTHER -> IF Len(ts) < 3 THEN NoTeam
                     ELSE IF ts[3] = NoTeam THEN LastResort(ts, first) ELSE ts[3]

-----------------------------------------------------------------------------
(* What the calls are worth. *)

None == [status |-> "none"]

\* Seeded fault: turning a call down pays what accepting it would have.
FullPrice(level) == level + 1

\* DECLINE_VALUE and ACCEPTED_HAND_VALUE, by the place of the level in the chain
DeclineValue(level)  == level
AcceptedValue(level) == level + 1

\* handValue
HandValue == IF truco.status = "accepted" THEN AcceptedValue(truco.level) ELSE 1

\* ENVIDO_CALL_VALUE, summed over a chain, which names a level once at most; falta
\* envido is never summed
CallValue(l) == IF l = 3 THEN 3 ELSE 2
SumValue(ls) ==
  LET named(l) == IF l \in Range(ls) THEN CallValue(l) ELSE 0
  IN  named(1) + named(2) + named(3)

EnvidoDeclineValue(ls) == Max({1, SumValue(Front(ls))})

\* faltaEnvidoValue: what the leading side is missing
FaltaValue == PointsToWin - Max({score[0], score[1]})
EnvidoAcceptedValue(ls) == IF Last(ls) = 4 THEN FaltaValue ELSE SumValue(ls)

Award(t, n) == score' = [score EXCEPT ![t] = @ + n]

-----------------------------------------------------------------------------
(* Who may do what: getLegalActions. *)

\* getMatchWinner: the first team at the target
MatchWinner == IF \E t \in Teams : score[t] >= PointsToWin
                 THEN Min({ t \in Teams : score[t] >= PointsToWin }) ELSE NoTeam
TrucoOver == MatchWinner # NoTeam

\* Seeded fault: the points of an envido do not stop the hand.
HandGoesOn == dealt /\ won = NoTeam

\* The hand is on and nothing has ended it.
HandOn == dealt /\ won = NoTeam /\ ~TrucoOver

EnvidoOpen == envido.status \in {"pending", "accepted"}

MayCallTruco(s) ==
  /\ HandOn /\ ~EnvidoOpen
  /\ \/ truco.status = "none" /\ turn = s
     \/ truco.status = "accepted" /\ truco.team # Team(s) /\ truco.level < 3

MayAnswerTruco(s) ==
  HandOn /\ ~EnvidoOpen /\ truco.status = "pending" /\ truco.team # Team(s)

\* isPie
Pie(s) == (s - mano + seatCount) % seatCount >= seatCount - 2

\* canOpenEnvido
MayOpenEnvido(s) ==
  /\ tricks = <<>>
  /\ \A p \in Range(plays) : p.seat # s
  /\ Pie(s)
  /\ IF truco.status = "pending" THEN truco.team # Team(s) ELSE turn = s

\* Seeded fault: whoever called an envido may raise it before it is answered.
RaisesOwnEnvido(s, l) ==
  /\ HandOn
  /\ \/ envido.status = "none" /\ MayOpenEnvido(s) /\ l = 1
     \/ envido.status = "pending" /\ l > Max(Range(envido.calls))

\* ENVIDO_CALL_WEIGHT is a level's place in the chain, and only a higher one may
\* answer a call.
MayCallEnvido(s, l) ==
  /\ HandOn
  /\ \/ envido.status = "none" /\ MayOpenEnvido(s) /\ l = 1
     \/ /\ envido.status = "pending" /\ envido.team # Team(s)
        /\ l > Max(Range(envido.calls))

MayAnswerEnvido(s) == HandOn /\ envido.status = "pending" /\ envido.team # Team(s)

\* The numbers said so far, and the one that leads: the first of the highest.
Said(ds)   == { d \in Range(ds) : d.how = "points" }
BestSaid(ds) == IF Said(ds) = {} THEN -1 ELSE Max({ d.points : d \in Said(ds) })
Ahead(ds) ==
  IF Said(ds) = {} THEN NoTeam
  ELSE Team(ds[Min({ i \in DOMAIN ds : /\ ds[i].how = "points"
                                       /\ ds[i].points = BestSaid(ds) })].seat)

\* declarerSeatFor, from the mano round the table
Declarer == (mano + Len(envido.said)) % seatCount

MayDeclare(s, how) ==
  /\ HandOn
  /\ envido.status = "accepted" /\ Declarer = s
  /\ how = "points" \/ (how = "sonBuenas" /\ Ahead(envido.said) # Team(s))

\* callsAreSettled, and the turn
MayPlay(s) == HandOn /\ turn = s /\ truco.status # "pending" /\ ~EnvidoOpen

\* Seeded fault: a signal costs nothing.
SignalFreely(s) == HandOn /\ seatCount > 2

\* hasTeammate, getSenasRemaining
MaySignal(s) == HandOn /\ seatCount > 2 /\ spent[s] < SenaBudget

\* owesAnAnswer, holdsAnEnvidoToOpen
MayConsult(s, about) ==
  /\ MaySignal(s)
  /\ CASE about = "pending-call" ->
            IF envido.status = "pending" THEN envido.team # Team(s)
            ELSE truco.status = "pending" /\ truco.team # Team(s)
       [] about = "envido" -> \E l \in 1 .. 4 : MayCallEnvido(s, l)

\* requestSystemAction: a hand is dealt when none is on and the match is not over
SystemDeals == ~TrucoOver /\ (dealt => won # NoTeam)

\* The seats getLegalActions offers a move that stands in the way of the next: any but
\* a seña, a question to the partner included.
Movers == { s \in TrucoSeats :
              \/ MayCallTruco(s) \/ MayAnswerTruco(s) \/ MayAnswerEnvido(s)
              \/ MayPlay(s) /\ hands[s] # {}
              \/ \E l \in 1 .. 4 : MayCallEnvido(s, l)
              \/ \E how \in {"points", "sonBuenas"} : MayDeclare(s, how)
              \/ \E q \in {"pending-call", "envido"} : MayConsult(s, q) }
TrucoActors == Movers \cup { s \in TrucoSeats : MaySignal(s) }
TrucoStage == IF TrucoOver THEN "over" ELSE IF SystemDeals THEN "system" ELSE "seats"

-----------------------------------------------------------------------------
(* Actions. *)

TrucoInit ==
  /\ seatCount \in TrucoTables
  /\ score = [t \in Teams |-> 0]
  /\ dealer = 0
  /\ dealt = FALSE /\ won = NoTeam
  /\ hands = [s \in TrucoSeats |-> {}]
  /\ turn = 0
  /\ plays = <<>> /\ tricks = <<>>
  /\ truco = None /\ envido = None
  /\ spent = [s \in TrucoSeats |-> 0]

\* applyAction of a start-hand: the dealer moves on, except before the first hand
StartHand(deal) ==
  /\ SystemDeals
  /\ dealer' = IF dealt THEN After(dealer) ELSE dealer
  /\ dealt' = TRUE /\ won' = NoTeam
  /\ hands' = deal
  /\ turn' = After(dealer')
  /\ plays' = <<>> /\ tricks' = <<>>
  /\ truco' = None /\ envido' = None
  /\ spent' = [s \in TrucoSeats |-> 0]
  /\ UNCHANGED <<seatCount, score>>

CallTruco(s) ==
  /\ MayCallTruco(s)
  /\ truco' = [status |-> "pending", team |-> Team(s),
               level |-> IF truco.status = "none" THEN 1 ELSE truco.level + 1]
  /\ UNCHANGED <<seatCount, score, dealer, dealt, won, cards, envido, spent>>

AnswerTruco(s, yes) ==
  /\ MayAnswerTruco(s)
  /\ IF yes
       THEN /\ truco' = [truco EXCEPT !.status = "accepted"]
            /\ UNCHANGED <<score, won>>
       ELSE /\ truco' = [truco EXCEPT !.status = "declined"]
            /\ Award(truco.team, DeclineValue(truco.level))
            /\ won' = truco.team
  /\ UNCHANGED <<seatCount, dealer, dealt, cards, envido, spent>>

CallEnvido(s, l) ==
  /\ MayCallEnvido(s, l)
  /\ envido' = [status |-> "pending", team |-> Team(s),
                calls |-> IF envido.status = "none" THEN <<l>> ELSE Append(envido.calls, l)]
  /\ UNCHANGED <<seatCount, score, dealer, dealt, won, cards, truco, spent>>

AnswerEnvido(s, yes) ==
  /\ MayAnswerEnvido(s)
  /\ IF yes
       THEN /\ envido' = [status |-> "accepted", said |-> <<>>,
                          value |-> EnvidoAcceptedValue(envido.calls)]
            /\ UNCHANGED score
       ELSE /\ envido' = [status |-> "declined"]
            /\ Award(envido.team, EnvidoDeclineValue(envido.calls))
  /\ UNCHANGED <<seatCount, dealer, dealt, won, cards, truco, spent>>

\* Seeded fault: the number is read off the cards still held.
HeldNow(s) == hands[s]

\* dealtCardsFor: the hand as it was dealt, though a card of it may be on the table
DealtTo(s) == hands[s] \cup { p.card : p \in { q \in Range(plays) : q.seat = s } }

Declare(s, how) ==
  /\ MayDeclare(s, how)
  /\ LET word == IF how = "points"
                   THEN [seat |-> s, how |-> how, points |-> EnvidoPoints(DealtTo(s))]
                   ELSE [seat |-> s, how |-> how]
         said == Append(envido.said, word)
         team == IF how = "sonBuenas" THEN Rival(Team(s)) ELSE Ahead(said)
     IN  IF how = "points" /\ Len(said) < seatCount
           THEN envido' = [envido EXCEPT !.said = said] /\ UNCHANGED score
           ELSE /\ envido' = [status |-> "revealed", team |-> team, said |-> said]
                /\ Award(team, envido.value)
  /\ UNCHANGED <<seatCount, dealer, dealt, won, cards, truco, spent>>

\* The trick is full: it is resolved, and perhaps the hand with it.
CloseTrick(ps) ==
  LET ts == Append(tricks, TrickWinner(ps))
      w  == HandWinner(ts, Team(mano))
  IN  /\ plays' = <<>>
      /\ tricks' = ts
      /\ turn' = Leader(ps)
      /\ won' = w
      /\ IF w = NoTeam THEN UNCHANGED score ELSE Award(w, HandValue)

Choice(s) == IF s \in Choosers(seatCount) THEN hands[s]
             ELSE { c \in hands[s] : \A d \in hands[s] : Power(c) <= Power(d) }

PlayCard(s, c) ==
  /\ MayPlay(s) /\ c \in Choice(s)
  /\ hands' = [hands EXCEPT ![s] = @ \ {c}]
  /\ LET ps == Append(plays, [seat |-> s, card |-> c])
     IN  IF Len(ps) < seatCount
           THEN plays' = ps /\ turn' = After(s) /\ UNCHANGED <<tricks, won, score>>
           ELSE CloseTrick(ps)
  /\ UNCHANGED <<seatCount, dealer, dealt, calls, spent>>

\* applySenaAction and applyConsultAction: a signal and a paid question draw on
\* one budget
Spend(s) ==
  /\ s \in Signallers
  /\ spent' = [spent EXCEPT ![s] = @ + 1]
  /\ UNCHANGED <<seatCount, score, dealer, dealt, won, cards, calls>>

SendSena(s) == MaySignal(s) /\ Spend(s)
ConsultPartner(s) == (\E q \in {"pending-call", "envido"} : MayConsult(s, q)) /\ Spend(s)

\* Every move but a seña.
TrucoMoves ==
  \/ \E deal \in TrucoDeals(seatCount) : StartHand(deal)
  \/ \E s \in TrucoSeats :
       \/ CallTruco(s)
       \/ \E yes \in BOOLEAN : AnswerTruco(s, yes) \/ AnswerEnvido(s, yes)
       \/ \E l \in 1 .. 4 : CallEnvido(s, l)
       \/ \E how \in {"points", "sonBuenas"} : Declare(s, how)
       \/ \E c \in hands[s] : PlayCard(s, c)
       \/ ConsultPartner(s)

TrucoNext == TrucoMoves \/ \E s \in TrucoSeats : SendSena(s)

TrucoSpec == TrucoInit /\ [][TrucoNext]_trucoVars

-----------------------------------------------------------------------------
(* Properties. *)

TrucoTypeOK ==
  /\ seatCount \in TrucoTables
  /\ score \in [Teams -> Nat]
  /\ dealer \in TrucoSeats /\ turn \in TrucoSeats
  /\ dealt \in BOOLEAN
  /\ hands \in [TrucoSeats -> SUBSET Cards]
  /\ plays \in Seq([seat : TrucoSeats, card : Cards]) /\ Len(plays) < seatCount
  /\ tricks \in Seq(Teams \cup {NoTeam}) /\ Len(tricks) <= 3
  /\ won \in Teams \cup {NoTeam}
  /\ truco.status \in {"none", "pending", "accepted", "declined"}
  /\ truco.status # "none" => truco.team \in Teams /\ truco.level \in 1 .. 3
  /\ envido.status \in {"none", "pending", "accepted", "declined", "revealed"}
  /\ spent \in [TrucoSeats -> 0 .. SenaBudget]

\* Only one side is ever at the target: the points of an envido end the match in
\* the middle of a hand (truco-chain.ts:115-121), and whatever that hand still
\* had at stake is never paid to the other side, so getMatchWinner's "first team
\* that reached it" is the only one.
OneWinner == ~ \A t \in Teams : score[t] >= PointsToWin

\* A team that won more tricks never loses a hand that was played out; with as
\* many each, the first side to win one has it, and the mano if nobody did.
\* resolveHandWinner decides early (hand-winner.ts:23-54), so what it says must be
\* what every possible third trick would have said.
Wins(ts, t) == Cardinality({ i \in DOMAIN ts : ts[i] = t })
FirstWin(ts) == IF \A i \in DOMAIN ts : ts[i] = NoTeam THEN Team(mano)
                ELSE ts[Min({ i \in DOMAIN ts : ts[i] # NoTeam })]
PlayedOut(ts) == IF Wins(ts, 0) = Wins(ts, 1) THEN FirstWin(ts)
                 ELSE IF Wins(ts, 0) > Wins(ts, 1) THEN 0 ELSE 1
Continuations(ts) == { ts \o rest : rest \in [1 .. 3 - Len(ts) -> Teams \cup {NoTeam}] }
TricksDecide ==
  dealt /\ truco.status # "declined" =>
    LET verdicts == { PlayedOut(ts) : ts \in Continuations(tricks) }
    IN  won = IF Cardinality(verdicts) = 1 THEN CHOOSE w \in verdicts : TRUE ELSE NoTeam

\* The number a seat is credited with is the one it was dealt, whichever of its
\* cards is on the table when it speaks and whatever is played later.
Declarations == IF envido.status \in {"accepted", "revealed"} THEN envido.said ELSE <<>>
NumbersAsDealt ==
  Declarations # <<>> =>
    \E deal \in TrucoDeals(seatCount) :
      /\ \A s \in TrucoSeats : hands[s] \subseteq deal[s]
      /\ \A d \in Said(Declarations) : d.points = EnvidoPoints(deal[d.seat])

\* The points of an envido never go against the best number said at the table:
\* nobody who is winning the round can give it away, and a tie stays with the
\* seat that spoke first.
BestNumberWins ==
  envido.status = "revealed" /\ Said(envido.said) # {} =>
    envido.team = Ahead(envido.said)

\* An envido is won on what was dealt: both of the above.
EnvidoIsFair == NumbersAsDealt /\ BestNumberWins

\* Turning a truco down costs what the hand was worth before that call, and a hand
\* that is played out pays what was last accepted: DECLINE_VALUE and
\* ACCEPTED_HAND_VALUE are two tables (truco-scoring.ts:17-30) that have to agree.
\* A decided hand pays nothing more.
StandingValue == CASE truco.status = "none"     -> 1
                   [] truco.status = "accepted" -> AcceptedValue(truco.level)
                   [] OTHER -> IF truco.level = 1 THEN 1 ELSE AcceptedValue(truco.level - 1)
HandPaysOnce ==
  [][ /\ won = NoTeam /\ won' # NoTeam =>
           score' = [score EXCEPT ![won'] = @ + StandingValue]
      /\ won # NoTeam => score' = score ]_trucoVars

\* The seats a call is waiting for: a respond-truco or a respond-envido is theirs.
AskedToAnswer == { s \in TrucoSeats : MayAnswerTruco(s) \/ MayAnswerEnvido(s) }

\* While a call waits for its answer it waits for one whole side, and nobody else moves
\* the calls on or puts a question to anybody: the other side's moves change neither.
\* The room holds a bot back only for what a person is asked when it looks, and counts
\* on "a pending call is answerable by exactly one side at a time"
\* (match-room.ts:1465).
OnlyTheAskedGoOn ==
  [][ AskedToAnswer # {} =>
        /\ \E t \in Teams : AskedToAnswer = { s \in TrucoSeats : Team(s) = t }
        /\ \/ UNCHANGED calls /\ AskedToAnswer' = AskedToAnswer
           \/ \E s \in AskedToAnswer :
                \/ \E yes \in BOOLEAN : AnswerTruco(s, yes) \/ AnswerEnvido(s, yes)
                \/ \E l \in 1 .. 4 : CallEnvido(s, l) ]_trucoVars

\* A call is answered by those it is put to and by nobody else, and paid for once: both
\* of the above.
CallsRunTheirCourse == HandPaysOnce /\ OnlyTheAskedGoOn
=============================================================================
