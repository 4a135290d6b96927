------------------------------- MODULE TrucoBots -------------------------------
(***************************************************************************)
(* What a seat of truco is shown, and what its bot makes of it: view.ts of *)
(* truco-engine, packages/games/truco-bot, and the questions of            *)
(* truco-module.  No seat is a bot here: what each bot would do is asked   *)
(* in every state of the match, for each tier.  The sampling of the hard   *)
(* tier and the draws before a seña are a choice of any outcome.           *)
(***************************************************************************)
EXTENDS Truco

CONSTANT Claims     \* bound: the señas that are made

VARIABLES
  swept,    \* resolvedTrickPlays: the cards of the tricks that were closed
  claims    \* hand.senas: the last seña of each seat, NoSena before it

watched == <<swept, claims>>

\* SENA_SIGNALS
Senas  == <<"asDeEspada", "asDeBasto", "sieteDeEspada", "sieteDeOro", "tres", "dos">>
NoSena == "none"

ASSUME ClaimsAssumption == Claims \subseteq Range(Senas)

-----------------------------------------------------------------------------
(* What is added to the match: the cards that lie face up, and the señas.  *)

WatchInit == swept = {} /\ claims = [s \in TrucoSeats |-> NoSena]

\* A card goes to the table, and from a trick that is full to the tricks resolved; a
\* new hand has neither tricks nor señas.
WatchPlay ==
  IF HandOn
    THEN /\ claims' = claims
         /\ swept' = IF tricks' = tricks THEN swept
                     ELSE swept \cup { p.card : p \in Range(plays) } \cup (hands[turn] \ hands'[turn])
    ELSE /\ claims' = [s \in TrucoSeats |-> NoSena]
         /\ swept' = {}

Flash(s, signal) ==
  /\ SendSena(s)
  /\ claims' = [claims EXCEPT ![s] = signal]
  /\ UNCHANGED swept

BotsInit == TrucoInit /\ WatchInit
BotsNext ==
  \/ TrucoMoves /\ WatchPlay
  \/ \E s \in TrucoSeats, signal \in Claims : Flash(s, signal)
BotsSpec == BotsInit /\ [][BotsNext]_<<trucoVars, watched>>

-----------------------------------------------------------------------------
(* What a seat sees: getViewFor. *)

Mates(s)  == { u \in TrucoSeats : u # s /\ Team(u) = Team(s) }
Rivals(s) == { u \in TrucoSeats : Team(u) # Team(s) }

\* view.hand.currentTrickPlays of one side or the other
CardsOf(seats) == { p.card : p \in { q \in Range(plays) : q.seat \in seats } }

\* view.teammates[0].lastSena: a seña is shown to the partner and to nobody else
HeardFrom(m) == claims[m]

\* secretsFor: what the module declares a seat may not find in its view
Secrets(s) == UNION { hands[u] : u \in TrucoSeats \ {s} }

\* seenCards: the cards of its own, and all that were played this hand
Seen(s) == hands[s] \cup swept \cup { p.card : p \in Range(plays) }

\* unseenPool
Pool(s) == Cards \ Seen(s)

\* signalForCard
SignalFor(c) ==
  CASE c = <<1, "espada">> -> "asDeEspada"
    [] c = <<1, "basto">>  -> "asDeBasto"
    [] c = <<7, "espada">> -> "sieteDeEspada"
    [] c = <<7, "oro">>    -> "sieteDeOro"
    [] c[1] = 3            -> "tres"
    [] c[1] = 2            -> "dos"
    [] OTHER               -> NoSena

\* matchesClaim: the same vocabulary, read the other way
Backing(signal) ==
  CASE signal = "asDeEspada"    -> {<<1, "espada">>}
    [] signal = "asDeBasto"     -> {<<1, "basto">>}
    [] signal = "sieteDeEspada" -> {<<7, "espada">>}
    [] signal = "sieteDeOro"    -> {<<7, "oro">>}
    [] signal = "tres"          -> {3} \X Suits
    [] signal = "dos"           -> {2} \X Suits
    [] OTHER                    -> {}

\* dealPartnerHand: the cards of which one is dealt to the partner when its seña is
\* believed; a claim without any is dead
Forced(s, m) == Backing(HeardFrom(m)) \cap Pool(s)

-----------------------------------------------------------------------------
(* What a seat is offered, and what is left of it to a bot. *)

Of(O, type) == { m \in O : m.type = type }
Both(type) == { [type |-> type, yes |-> b] : b \in BOOLEAN }

\* getLegalActions
Offers(s) ==
  LET if(may, moves) == IF may THEN moves ELSE {} IN
  if(MayCallTruco(s), {[type |-> "call-truco"]})
  \cup if(MayAnswerTruco(s), Both("respond-truco"))
  \cup if(MayAnswerEnvido(s), Both("respond-envido"))
  \cup { [type |-> "call-envido", level |-> l] : l \in { k \in 1 .. 4 : MayCallEnvido(s, k) } }
  \cup { [type |-> "declare-envido", how |-> h] : h \in { k \in {"points", "sonBuenas"} : MayDeclare(s, k) } }
  \cup if(MayPlay(s), { [type |-> "play-card", card |-> c] : c \in hands[s] })
  \cup if(MaySignal(s), { [type |-> "send-sena", signal |-> g] : g \in Range(Senas) })
  \cup { [type |-> "consult-partner", about |-> q] : q \in { k \in {"pending-call", "envido"} : MayConsult(s, k) } }

\* decisionsAHumanIsWaitingOn: the kinds of move a partner is offered who owes an
\* answer, if a person is sitting there (in truco only the side that answers has any)
Held(s) ==
  { {} } \cup { { m.type : m \in Offers(u) } : u \in { v \in Mates(s) : MayAnswerTruco(v) \/ MayAnswerEnvido(v) } }

\* findActingBot: only a seña does not stand in anybody's way
Blocking(O) == O \ Of(O, "send-sena")
Options(s) ==
  { O \in { { m \in Offers(s) : m.type \notin held } : held \in Held(s) } : Blocking(O) # {} }

-----------------------------------------------------------------------------
(* The judgement of a bot. *)

BotTiers == {"easy", "normal", "hard"}

HandPower(C) == MapThenSumSet(Power, C)
DealtPoints(s) == EnvidoPoints(DealtTo(s))     \* dealtCardsOf, dealtEnvidoPoints

AcceptTruco == 22
AggressiveTruco == 28
AcceptEnvido == 23
AggressiveEnvido == 27

\* What the normal tier weighs, and the hard tier may find.
Favors(tier, weight, bar) == IF tier = "hard" THEN BOOLEAN ELSE {weight >= bar}

Weakest(C)   == { c \in C : \A d \in C : Power(c) <= Power(d) }
Strongest(C) == { c \in C : \A d \in C : Power(c) >= Power(d) }

\* isTrickSecuredByTeam: the last to play, its partner ahead of both rivals
Secured(s) ==
  /\ Len(plays) = seatCount - 1
  /\ CardsOf(Mates(s)) # {} /\ CardsOf(Rivals(s)) # {}
  /\ Best(plays, Team(s)) > Best(plays, Rival(Team(s)))

\* scoreFollowingCardPlay: the cheapest card that wins, that ties, that is thrown away
Follow(C, best) ==
  LET wins == { c \in C : Power(c) > best }
      ties == { c \in C : Power(c) = best }
  IN  Weakest(IF wins # {} THEN wins ELSE IF ties # {} THEN ties ELSE C)

\* cardPlayChoice, and the card of the hard tier, which leads with what its samples say
CardChoice(tier, s) ==
  IF tier = "easy" THEN Strongest(hands[s])
  ELSE IF Secured(s) THEN Weakest(hands[s])
  ELSE IF CardsOf(Rivals(s)) # {} THEN Follow(hands[s], Best(plays, Rival(Team(s))))
  ELSE IF tier = "hard" THEN hands[s] ELSE Weakest(hands[s])

\* chooseEnvidoDeclaration: "son buenas" only with nothing left to win, neither by this
\* seat nor by its partner
Concedes(s) ==
  /\ MayDeclare(s, "sonBuenas")
  /\ Said(envido.said) # {}
  /\ DealtPoints(s) <= BestSaid(envido.said)
  /\ Ahead(envido.said) # Team(s)
  /\ \A m \in Mates(s) : \E d \in Range(envido.said) : d.seat = m

Declaration(s) == [type |-> "declare-envido", how |-> IF Concedes(s) THEN "sonBuenas" ELSE "points"]

\* The first of a kind in the order of getLegalActions: the lowest call, and the
\* question about a pending call before the one about the envido.
FirstCall(O) == [type |-> "call-envido", level |-> Min({ m.level : m \in Of(O, "call-envido") })]
FirstQuestion(O) ==
  LET about == { m.about : m \in Of(O, "consult-partner") }
  IN  { [type |-> "consult-partner",
         about |-> IF "pending-call" \in about THEN "pending-call" ELSE "envido"] : q \in about }

\* askPartnerAboutEnvido, with the answer bought: "unasked", "quiero" or "no"
AskPartner(O, answer) ==
  IF Of(O, "call-envido") = {} \/ answer = "no" THEN {}
  ELSE IF answer = "quiero" THEN {FirstCall(O)} ELSE FirstQuestion(O)

\* "Nothing better is legal": the first move that is no seña, if there is one
FirstOf(O) ==
  IF Of(O, "call-truco") # {} THEN Of(O, "call-truco")
  ELSE IF Of(O, "call-envido") # {} THEN {FirstCall(O)}
  ELSE IF Of(O, "consult-partner") # {} THEN FirstQuestion(O)
  ELSE O

\* The end of the ladder, when no call was made on the strength of the hand.
Pass(tier, s, O, answer) ==
  IF AskPartner(O, answer) # {} THEN AskPartner(O, answer)
  ELSE IF Of(O, "play-card") # {}
    THEN { [type |-> "play-card", card |-> c] : c \in CardChoice(tier, s) }
  ELSE FirstOf(O)

CallOrPass(tier, s, O, answer) ==
  LET hand    == IF Of(O, "call-truco") = {} THEN {FALSE}
                 ELSE Favors(tier, HandPower(hands[s]), AggressiveTruco)
      numbers == IF Of(O, "call-envido") = {} THEN {FALSE}
                 ELSE Favors(tier, DealtPoints(s), AggressiveEnvido)
  IN  (IF TRUE \in hand THEN Of(O, "call-truco") ELSE {})
      \cup (IF FALSE \in hand /\ TRUE \in numbers THEN {FirstCall(O)} ELSE {})
      \cup (IF FALSE \in hand /\ FALSE \in numbers THEN Pass(tier, s, O, answer) ELSE {})

\* chooseAction of the normal and the hard tier, past the seña
Ladder(tier, s, O, answer) ==
  IF Of(O, "respond-truco") # {}
    THEN { [type |-> "respond-truco", yes |-> y] : y \in Favors(tier, HandPower(hands[s]), AcceptTruco) }
  ELSE IF Of(O, "respond-envido") # {}
    THEN { [type |-> "respond-envido", yes |-> y] : y \in Favors(tier, DealtPoints(s), AcceptEnvido) }
  ELSE IF Of(O, "declare-envido") # {} THEN {Declaration(s)}
  ELSE CallOrPass(tier, s, O, answer)

\* createEasyBot: it takes what is called, plays its best card first, and calls only
\* when it is offered nothing else
EasyLadder(s, O) ==
  IF \E m \in O : "yes" \in DOMAIN m THEN { m \in O : "yes" \in DOMAIN m /\ m.yes }
  ELSE IF Of(O, "declare-envido") # {} THEN {Declaration(s)}
  ELSE IF Of(O, "play-card") # {}
    THEN { [type |-> "play-card", card |-> c] : c \in CardChoice("easy", s) }
  ELSE FirstOf(O)

\* chooseSenaEmission: of what it will keep, the first of the vocabulary; the hard tier
\* may claim anything instead, and is silent when it is about to play
Honest(C) ==
  LET held == { i \in DOMAIN Senas : \E c \in C : SignalFor(c) = Senas[i] }
  IN  IF held = {} THEN {} ELSE {Senas[Min(held)]}
Kept(tier, s, O) ==
  IF Of(O, "play-card") = {} THEN { hands[s] }
  ELSE { hands[s] \ {c} : c \in CardChoice(tier, s) }
Signals(tier, s, O) ==
  IF tier = "easy" \/ Of(O, "send-sena") = {} \/ Blocking(O) = {} THEN {}
  ELSE IF tier = "normal" THEN (UNION { Honest(C) : C \in Kept(tier, s, O) }) \ {claims[s]}
  ELSE IF Of(O, "play-card") # {} \/ Honest(hands[s]) = {} THEN {}
  ELSE Range(Senas) \ {claims[s]}

BotMoves(tier, s, O, answer) ==
  { [type |-> "send-sena", signal |-> g] : g \in Signals(tier, s, O) }
  \cup (IF tier = "easy" THEN EasyLadder(s, O) ELSE Ladder(tier, s, O, answer))

\* questionFor: the moves a partner is asked to choose from
QuestionFor(s, m, about) ==
  CASE about = "pending-call" -> Of(Offers(m), "respond-truco") \cup Of(Offers(m), "respond-envido")
    [] OTHER -> IF Of(Offers(s), "call-envido") = {} THEN {} ELSE Both("respond-envido")
-----------------------------------------------------------------------------
(* Properties. *)

Answers == {"unasked", "quiero", "no"}

\* A seat sees every card that is face up and none that is not, so a hidden hand is
\* always one its samples may deal (determinize.ts:26-37); and the card a true seña is
\* about is among those the claim stands for, though the vocabulary is written down twice.
PoolIsRight ==
  dealt => \A s \in TrucoSeats :
    /\ Secrets(s) \cap Seen(s) = {}
    /\ Cardinality(Seen(s)) + Cardinality(Secrets(s)) = 3 * seatCount
    /\ \A m \in Mates(s) :
         \A c \in hands[m] :
           SignalFor(c) = HeardFrom(m) /\ HeardFrom(m) # NoSena => c \in Forced(s, m)

\* Of what a seat holds, the seña names the card that is worth most in a trick: the
\* order of the vocabulary is that of the cards' power (sena-emission.ts:55-58).
SenaNamesTheBest ==
  \A s \in TrucoSeats : \A g \in Honest(hands[s]) : \A c \in hands[s] :
    SignalFor(c) # NoSena => \E d \in hands[s] \cap Backing(g) : Power(d) >= Power(c)

\* A bot that follows a trick always has a rival's card to look at (hard.ts:106-116
\* has no branch for a partner's card alone), and one that throws its weakest card on
\* a trick its partner has won gives nothing away.
TricksReadRight ==
  \A s \in TrucoSeats : MayPlay(s) =>
    /\ CardsOf(Rivals(s)) = {} <=> plays = <<>>
    /\ Secured(s) =>
         \A c \in hands[s] : TrickWinner(Append(plays, [seat |-> s, card |-> c])) = Team(s)

\* "Son buenas" gives the envido away for two, so a bot says it only when its side has
\* lost it whatever the seats still to speak may say (declare-envido.ts:23-29).
ConcedesNothing ==
  \A s \in TrucoSeats : Concedes(s) =>
    LET rest == [ i \in 1 .. seatCount - Len(envido.said) |->
                    LET u == (Declarer + i - 1) % seatCount
                    IN  [seat |-> u, how |-> "points", points |-> DealtPoints(u)] ]
    IN  Ahead(envido.said \o rest) # Team(s)

\* A seat that may raise out of its turn is offered nothing else but señas, so the bot
\* there raises at once, whatever it holds and whatever its tier: a call the bot accepts
\* on the caller's turn comes straight back, one level higher.
RaiseOutOfTurn ==
  \A s \in TrucoSeats : MayCallTruco(s) /\ turn # s =>
    \A O \in Options(s), tier \in BotTiers, a \in Answers :
      Blocking(BotMoves(tier, s, O, a)) = {[type |-> "call-truco"]}

\* What a bot decides is one of the moves it was handed, however few the room has left
\* it: a move that is refused would be chosen again, until the room gives up on the step
\* (match-room.ts:1276).
ChoosesWhatItIsOffered ==
  \A s \in TrucoSeats, tier \in BotTiers : \A O \in Options(s), a \in Answers :
    BotMoves(tier, s, O, a) # {} /\ BotMoves(tier, s, O, a) \subseteq O

\* A bot asks about the envido it may open.  It asks about the truco instead, and takes a
\* yes to that for a yes to the envido, only while a person who must answer the truco
\* has no seña left, and so no question of its own that the room would keep for it;
\* and when an envido was accepted over that truco, since it has nothing else to do.
AsksAboutTheEnvido ==
  \A s \in TrucoSeats, tier \in BotTiers : \A O \in Options(s), a \in Answers :
    [type |-> "consult-partner", about |-> "pending-call"] \in BotMoves(tier, s, O, a) =>
      \/ envido.status = "accepted"
      \/ (MayAnswerTruco(s) \/ MayAnswerEnvido(s)) /\ \A m \in Mates(s) : spent[m] = SenaBudget

\* A question that is paid for finds its subject at the partner's side, except that
\* one: a truco that waits for an envido.
QuestionsFindTheirSubject ==
  \A s \in TrucoSeats, about \in {"pending-call", "envido"} : \A m \in Mates(s) :
    MayConsult(s, about) =>
      LET asked == QuestionFor(s, m, about)
      IN  IF asked = {} THEN about = "pending-call" /\ envido.status = "accepted"
          ELSE \A tier \in BotTiers : BotMoves(tier, m, asked, "unasked") \subseteq asked

\* The bots of truco reckon with what is on the table and nothing else.
TrucoBotsRight ==
  PoolIsRight /\ SenaNamesTheBest /\ TricksReadRight /\ ConcedesNothing
  /\ ChoosesWhatItIsOffered /\ RaiseOutOfTurn /\ AsksAboutTheEnvido
  /\ QuestionsFindTheirSubject

\* A seña is never spent on nothing: whoever may ask its partner will be answered,
\* as consult.ts:55-61 and truco-module/src/index.ts:166-168 have it.
QuestionsHaveAnswers ==
  \A s \in TrucoSeats, about \in {"pending-call", "envido"} : \A m \in Mates(s) :
    MayConsult(s, about) => QuestionFor(s, m, about) # {}
=============================================================================
