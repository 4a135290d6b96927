-------------------------------- MODULE Escoba --------------------------------
(***************************************************************************)
(* Escoba de 15, head to head or in pairs: packages/games/escoba-engine,   *)
(* the GameModule around it, packages/games/escoba-module, and the bots of *)
(* packages/games/escoba-bot, which see only what getViewFor shows.        *)
(*                                                                         *)
(* A hand is dealt from a shuffled deck, three cards a seat and four on    *)
(* the table, and three more whenever every seat has run out.  A card      *)
(* played either takes table cards that make fifteen with it or stays; the *)
(* cards a team took are scored when the stock is spent.  Cards in a hand, *)
(* on the table or in a pile are sets: their order is shown, never read,   *)
(* but for the easy bot's "first legal action", which is any of them here. *)
(***************************************************************************)
EXTENDS Integers, Sequences, FiniteSets, FiniteSetsExt, SequencesExt

CONSTANTS
  EscobaTarget,    \* pointsToWin
  EscobaTables,    \* bound: the tables played, records of `seats`, of the `decks`
                   \* a hand may be dealt from, and of each seat's `tier`
  EscobaMaxScore   \* bound on the score a team may start a hand with

ESuits == {"espada", "basto", "oro", "copa"}
ECards == ((1 .. 7) \cup (10 .. 12)) \X ESuits     \* buildDeck
ETeams == {0, 1}
ENobody == -1
ETeam(s) == s % 2

\* "any" is a person, or the easy bot
Tiers == {"any", "normal", "hard"}

ASSUME EscobaAssumption ==
  /\ EscobaTarget \in Nat \ {0} /\ EscobaMaxScore \in Nat
  /\ \A t \in EscobaTables :
       /\ t.seats \in {2, 4}
       /\ t.tier \in [0 .. t.seats - 1 -> Tiers]
       /\ \A d \in t.decks : /\ d \in Seq(ECards) /\ IsInjective(d)
                             /\ Len(d) > 4 /\ (Len(d) - 4) % (3 * t.seats) = 0

VARIABLES
  etable,    \* the table of EscobaTables this match is played at
  escore,    \* team.score
  edealer,   \* dealerSeat
  ephase,    \* "none" (hand is null), "on", or "decided" (outcome.decided)
  eturn,     \* turn
  ehands,    \* player.hand
  table,     \* hand.table
  stock,     \* hand.stock
  piles,     \* hand.piles
  escobas,   \* hand.escobas
  lastTaker  \* hand.lastCapturer

escobaVars == <<etable, escore, edealer, ephase, eturn, ehands, table, stock, piles,
                escobas, lastTaker>>

ESeats   == 0 .. etable.seats - 1
ENext(s) == (s + 1) % etable.seats

-----------------------------------------------------------------------------
(* Values. *)

\* cardValue
Value(c)   == IF c[1] > 7 THEN c[1] - 2 ELSE c[1]
SumOf(C)   == MapThenSumSet(Value, C)

\* SETENTA_VALUE
SetentaTable == <<16, 12, 13, 14, 15, 18, 21>>
Setenta(c) == IF c[1] > 7 THEN 10 ELSE SetentaTable[c[1]]

\* suitBestCards, and setentaValue: 0 stands for a pile that lacks a suit
BestOf(C, u) == Max({0} \cup { Setenta(c) : c \in { d \in C : d[2] = u } })
SetentaValue(C) ==
  IF \E u \in ESuits : BestOf(C, u) = 0 THEN 0
  ELSE MapThenSumSet(LAMBDA u : BestOf(C, u), ESuits)

Oros(C) == { c \in C : c[2] = "oro" }

\* scoreByGreater
Greater(a, b) == IF a > b THEN 1 ELSE 0

\* scoreHandBreakdown: a team's points for the piles p and the escobas e
HandPoints(p, e, t) ==
  Greater(Cardinality(p[t]), Cardinality(p[1 - t]))
  + Greater(Cardinality(Oros(p[t])), 5)
  + Greater(SetentaValue(p[t]), SetentaValue(p[1 - t]))
  + (IF <<7, "oro">> \in p[t] THEN 1 ELSE 0)
  + e[t]

\* getMatchWinner: a tie at the target is played on
EscobaWinner ==
  IF escore[0] = escore[1] \/ \A t \in ETeams : escore[t] < EscobaTarget THEN ENobody
  ELSE IF escore[0] > escore[1] THEN 0 ELSE 1
EscobaOver == EscobaWinner # ENobody

-----------------------------------------------------------------------------
(* What may be played. *)

\* summingSubsets
Captures(c) == { C \in SUBSET table : SumOf(C) = 15 - Value(c) }

\* legal-actions.ts: what a seat is offered, as pairs of a card and what it takes
Offered(s) ==
  IF ephase = "none" \/ eturn # s THEN {}
  ELSE UNION { IF Captures(c) = {} THEN {<<c, {}>>} ELSE {c} \X Captures(c) : c \in ehands[s] }

\* Seeded fault: a card can be counted twice.
ReachableTwice(C) ==
  FoldSet(LAMBDA c, sums : sums \cup { n + k * Value(c) : n \in sums, k \in {1, 2} }, {0}, C)

\* someSubsetSumsTo: the sums a table can make, card by card
Reachable(C) == FoldSet(LAMBDA c, sums : sums \cup { n + Value(c) : n \in sums }, {0}, C)

\* capture.ts: what applyAction accepts, checked on its own
Accepts(s, c, C) ==
  /\ ephase # "none" /\ eturn = s /\ c \in ehands[s]
  /\ IF C # {} THEN C \subseteq table /\ SumOf(C) + Value(c) = 15
     ELSE 15 - Value(c) \notin Reachable(table)

\* requestEscobaSystemAction
EscobaDeals == ~EscobaOver /\ ephase # "on"

EscobaActors == { s \in ESeats : Offered(s) # {} }
EscobaStage == IF EscobaOver THEN "over" ELSE IF EscobaDeals THEN "system" ELSE "seats"

-----------------------------------------------------------------------------
(* The bots. *)

Gained(m)   == IF m[2] = {} THEN {} ELSE m[2] \cup {m[1]}
TableAfter(m) == IF m[2] = {} THEN table \cup {m[1]} ELSE table \ m[2]   \* resultingTable

\* evaluateAction, weighed as scalar does: a sweep before the siete de oro,
\* before oros short of six, before cards
Worth(s, m) ==
  LET gain == Cardinality(Oros(Gained(m)))
      have == Cardinality(Oros(piles[ETeam(s)]))
  IN  IF m[2] = {} THEN 0
      ELSE (IF m[2] = table THEN 10000000 ELSE 0)
           + (IF <<7, "oro">> \in Gained(m) THEN 1000000 ELSE 0)
           + (IF gain = 0 THEN 0 ELSE 10000 * Min({have + gain, 6}))
           + Cardinality(Gained(m))

\* What the seat's view shows of the deck once m is played.
InSight(s, m) ==
  (ehands[s] \ {m[1]}) \cup TableAfter(m) \cup piles[0] \cup piles[1] \cup Gained(m)

\* Seeded fault: the card being played is counted twice, as held and as played.
OverCounted(s, m, v) ==
  Cardinality({ c \in InSight(s, m) : Value(c) = v }) + (IF Value(m[1]) = v THEN 1 ELSE 0)

\* accountedForValue: the cards of a value that the seat's view shows
Accounted(s, m, v) == Cardinality({ c \in InSight(s, m) : Value(c) = v })

\* opponentEscobaRisk: could an unseen card sweep what this leaves?
Missing(m) == 15 - SumOf(TableAfter(m))
Risky(s, m) == /\ TableAfter(m) # {} /\ Missing(m) \in 1 .. 10
               /\ Accounted(s, m, Missing(m)) < 4

\* setentaBonus
Bonus(s, m) ==
  MapThenSumSet(LAMBDA c : Max({0, Setenta(c) - BestOf(piles[ETeam(s)], c[2])}), Gained(m))

\* hardScore, in hundredths
HardScore(s, m) == 100 * Worth(s, m) - (IF Risky(s, m) THEN 100000 ELSE 0) + Bonus(s, m)

Tied(M, score(_)) == { m \in M : \A o \in M : score(m) >= score(o) }

\* chooseAction of each tier; a tie is drawn at random
Choosable(s) ==
  CASE etable.tier[s] = "any"    -> Offered(s)
    [] etable.tier[s] = "normal" -> Tied(Offered(s), LAMBDA m : Worth(s, m))
    [] etable.tier[s] = "hard"   -> Tied(Offered(s), LAMBDA m : HardScore(s, m))

-----------------------------------------------------------------------------
(* Actions. *)

EscobaInit ==
  /\ etable \in EscobaTables
  /\ escore = [t \in ETeams |-> 0]
  /\ edealer = 0 /\ eturn = 0
  /\ ephase = "none"
  /\ ehands = [s \in ESeats |-> {}]
  /\ table = {} /\ stock = <<>>
  /\ piles = [t \in ETeams |-> {}]
  /\ escobas = [t \in ETeams |-> 0]
  /\ lastTaker = ENobody

\* dealHandsRoundRobin, from the top of d
DealFrom(d) == [s \in ESeats |-> { d[r * etable.seats + s + 1] : r \in 0 .. 2 }]
Rest(d) == SubSeq(d, 3 * etable.seats + 1, Len(d))

\* startHand, deal and applyOpeningEscoba: a table that opens at fifteen is the
\* dealer's; one that opens at thirty is played as dealt
EscobaStartHand(d) ==
  /\ EscobaDeals
  /\ \A t \in ETeams : escore[t] <= EscobaMaxScore
  /\ edealer' = IF ephase = "none" THEN edealer ELSE ENext(edealer)
  /\ ephase' = "on"
  /\ ehands' = DealFrom(d)
  /\ stock' = SubSeq(Rest(d), 5, Len(Rest(d)))
  /\ eturn' = ENext(edealer')
  /\ LET open  == Range(SubSeq(Rest(d), 1, 4))
         swept == SumOf(open) = 15
         t     == ETeam(edealer')
     IN  /\ table' = IF swept THEN {} ELSE open
         /\ piles' = [u \in ETeams |-> IF swept /\ u = t THEN open ELSE {}]
         /\ escobas' = [u \in ETeams |-> IF swept /\ u = t THEN 1 ELSE 0]
         /\ lastTaker' = IF swept THEN t ELSE ENobody
  /\ UNCHANGED <<etable, escore>>

HandsOut(h) == \A s \in ESeats : h[s] = {}

\* Seeded fault: a play that empties every hand does not deal the next three.
NoRedeal(h) == h

\* The redeal, when every hand has run out and the stock has not.
NextThree(h) == IF HandsOut(h) /\ stock # <<>> THEN DealFrom(stock) ELSE h

\* Seeded fault: the last cards on the table are nobody's.
LeftBehind(p, tb, l) == p

\* settleLeftovers
WithLeftovers(p, tb, l) == IF l = ENobody THEN p ELSE [p EXCEPT ![l] = @ \cup tb]

\* settleHandIfNeeded, after a play has left the hands h, the table tb, the piles
\* p, the escobas e and the last taker l
Settle(h, tb, p, e, l) ==
  LET last == HandsOut(h) /\ stock = <<>>
      end  == IF last THEN WithLeftovers(p, tb, l) ELSE p
  IN  /\ ehands' = NextThree(h)
      /\ stock'  = IF HandsOut(h) /\ ~last THEN Rest(stock) ELSE stock
      /\ table'  = IF last /\ l # ENobody THEN {} ELSE tb
      /\ piles'  = end
      /\ ephase' = IF last THEN "decided" ELSE ephase
      /\ escore' = IF last THEN [t \in ETeams |-> escore[t] + HandPoints(end, e, t)] ELSE escore

\* applyAction of a play-card
Play(s, m) ==
  LET c == m[1]  C == m[2]  t == ETeam(s)
      left == table \ C
  IN  /\ Accepts(s, c, C)
      /\ eturn' = ENext(s)
      /\ escobas' = IF C # {} /\ left = {} THEN [escobas EXCEPT ![t] = @ + 1] ELSE escobas
      /\ lastTaker' = IF C = {} THEN lastTaker ELSE t
      /\ Settle([ehands EXCEPT ![s] = @ \ {c}], TableAfter(m),
                [piles EXCEPT ![t] = @ \cup Gained(m)], escobas', lastTaker')
      /\ UNCHANGED <<etable, edealer>>

EscobaNext ==
  \/ \E d \in etable.decks : EscobaStartHand(d)
  \/ \E s \in ESeats : \E m \in Choosable(s) : Play(s, m)

EscobaSpec == EscobaInit /\ [][EscobaNext]_escobaVars

-----------------------------------------------------------------------------
(* Properties. *)

EscobaTypeOK ==
  /\ etable \in EscobaTables
  /\ escore \in [ETeams -> Nat] /\ escobas \in [ETeams -> Nat]
  /\ edealer \in ESeats /\ eturn \in ESeats
  /\ ephase \in {"none", "on", "decided"}
  /\ ehands \in [ESeats -> SUBSET ECards]
  /\ table \subseteq ECards /\ stock \in Seq(ECards)
  /\ piles \in [ETeams -> SUBSET ECards]
  /\ lastTaker \in ETeams \cup {ENobody}

\* The places a card of the deck may be in: a seat's hand, or below them the table, the
\* stock and the piles.
Places == -4 .. etable.seats - 1
InPlace(i) ==
  CASE i = -1 -> table
    [] i = -2 -> Range(stock)
    [] i = -3 -> piles[0]
    [] i = -4 -> piles[1]
    [] OTHER  -> ehands[i]

\* No card is ever lost or held twice, through captures, sweeps, new deals in the
\* middle of a hand and the leftovers at its end: every card of the deck the hand was
\* dealt from is in one place, and there once.
CardsKept ==
  ephase # "none" =>
    /\ \E d \in etable.decks : UNION { InPlace(i) : i \in Places } = Range(d)
    /\ \A i, j \in Places : i # j => InPlace(i) \cap InPlace(j) = {}
    /\ IsInjective(stock)

\* The room only lets through what getLegalActions offers, and the reducer checks a
\* capture by a different algorithm (capture.ts:45-65 against legal-actions.ts:
\* 23-42): the two agree on every card and every part of the table, so nothing
\* offered is refused and nothing legal is withheld.
OffersAreTheRules ==
  \A s \in ESeats :
    Offered(s) = { m \in ehands[s] \X SUBSET table : Accepts(s, m[1], m[2]) }

\* The hard bot prices the sweep it may leave from what its view shows only
\* (hard.ts:37-65); when it says there is none, no card in any hidden place can
\* make one.
Unseen(s) == (UNION { ehands[o] : o \in ESeats \ {s} }) \cup Range(stock)
RiskIsSound ==
  \A s \in ESeats : \A m \in Offered(s) :
    ~Risky(s, m) /\ TableAfter(m) # {} =>
      \A c \in Unseen(s) : SumOf(TableAfter(m)) + Value(c) # 15
=============================================================================
