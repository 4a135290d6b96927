------------------------------- MODULE Generala -------------------------------
(***************************************************************************)
(* Generala for two: packages/games/generala-engine, the GameModule around *)
(* it, packages/games/generala-module, and its bots, packages/games/       *)
(* generala-bot.                                                           *)
(*                                                                         *)
(* The system throws five dice; the seat on turn sets some aside and has   *)
(* the others thrown again, up to three throws, and writes a box of its    *)
(* card.  Five alike on a first throw win at once.  Only the faces of a    *)
(* hand matter to the rules, so a hand is its tally (DieCounts), and a     *)
(* hold is a smaller tally.  The boxes are numbered in the order of        *)
(* CATEGORY_IDS, which is the reverse of CROSSING_ORDER.                   *)
(***************************************************************************)
EXTENDS Integers, Sequences, FiniteSets, FiniteSetsExt, Folds

CONSTANTS
  GeneralaTables,  \* bound: the matches taken up, records of the two `cards` as
                   \* written so far and of who plays each seat: `tier` is "any"
                   \* (a person or the easy bot), "normal" or "hard"
  Throws(_)        \* bound: the tallies the system may throw, for a number of dice

Faces == 1 .. 6
Boxes == 1 .. 11
Upper == 1 .. 6
Escalera == 7
Full     == 8
Poker    == 9
GeneralaBox == 10
Doble    == 11
Open == -1

RollsPerTurn == 3      \* ROLLS_PER_TURN
ServidaRoll  == 1      \* SERVIDA_ROLL
GSeats == {0, 1}       \* SEAT_COUNT

Tallies == [Faces -> 0 .. 5]
Size(h) == h[1] + h[2] + h[3] + h[4] + h[5] + h[6]

\* enumerateMultisets: the throws of n dice, without their order
Multisets == [n \in 0 .. 5 |-> { m \in [Faces -> 0 .. n] : Size(m) = n }]

Plus(h, k) == [f \in Faces |-> h[f] + k[f]]
NoDice == [f \in Faces |-> 0]

\* A card as play leaves it: what is crossed out, and what a double generala took.
WellCrossed(card) == \A b, o \in Boxes : card[b] = 0 /\ card[o] = Open => o < b
DobleEarned(card) == card[Doble] > 0 => card[GeneralaBox] > 0

OpenBoxes(card) == { b \in Boxes : card[b] = Open }

\* The seats write in turn, so a match that is not over is taken up with as many boxes
\* open on each card, and some.
ASSUME GeneralaAssumption ==
  \A t \in GeneralaTables :
    /\ t.cards \in [GSeats -> [Boxes -> {Open} \cup Nat]]
    /\ t.tier \in [GSeats -> {"any", "normal", "hard"}]
    /\ \A s \in GSeats : WellCrossed(t.cards[s]) /\ DobleEarned(t.cards[s])
    /\ OpenBoxes(t.cards[0]) # {}
    /\ Cardinality(OpenBoxes(t.cards[0])) = Cardinality(OpenBoxes(t.cards[1]))

VARIABLES
  gcards,   \* cards: what is written in each box, Open while nothing is
  gphase,   \* turn.phase: "awaiting-roll", "deciding" or "servida-win"
  gseat,    \* turn.seat
  rolls,    \* turn.rollsUsed
  dice,     \* turn.dice, or the dice kept in turn.slots while a roll is awaited
  gtier     \* who plays each seat

generalaVars == <<gcards, gphase, gseat, rolls, dice, gtier>>

-----------------------------------------------------------------------------
(* Scoring. *)

SomeFace(h, n) == \E f \in Faces : h[f] = n

IsEscalera(h) == (\A f \in 1 .. 5 : h[f] = 1) \/ (\A f \in 2 .. 6 : h[f] = 1)
IsFull(h)     == SomeFace(h, 5) \/ (SomeFace(h, 3) /\ SomeFace(h, 2))
IsPoker(h)    == SomeFace(h, 4) \/ SomeFace(h, 5)
IsGenerala(h) == SomeFace(h, 5)

\* hasScoredGenerala
HasScoredGenerala(card) == card[GeneralaBox] > 0

\* JUEGOS_MAYORES: what a game is worth, and does the hand hold it?
Holds(b, h, card) ==
  CASE b = Escalera    -> IsEscalera(h)
    [] b = Full        -> IsFull(h)
    [] b = Poker       -> IsPoker(h)
    [] b = GeneralaBox -> IsGenerala(h)
    [] b = Doble       -> IsGenerala(h) /\ HasScoredGenerala(card)
Armada  == <<0, 0, 0, 0, 0, 0, 20, 30, 40, 50, 100>>
Served(b, r) == r = ServidaRoll /\ b \in {Escalera, Full, Poker}

\* scoreFor
ScoreFor(b, h, r, card) ==
  IF b \in Upper THEN b * h[b]
  ELSE IF ~Holds(b, h, card) THEN 0
  ELSE Armada[b] + (IF Served(b, r) THEN 5 ELSE 0)

\* Seeded fault: any open box may be crossed out.
CrossAnywhere(b, card, h, r) == b \in OpenBoxes(card)

\* mayWrite: a zero goes in the open box that pays most, and in no other
MayWrite(b, card, h, r) ==
  /\ b \in OpenBoxes(card)
  /\ ScoreFor(b, h, r, card) > 0 \/ \A o \in OpenBoxes(card) : o <= b

\* getOutcome
CardFull(card) == OpenBoxes(card) = {}
GeneralaOver == gphase = "servida-win" \/ \A s \in GSeats : CardFull(gcards[s])

\* getLegalActions, as the boxes and the holds offered to a seat; KEEP_SETS is
\* every way to keep fewer than five dice
OnTurn(s) == gphase = "deciding" /\ gseat = s
OfferedBoxes(s) ==
  IF OnTurn(s) THEN { b \in Boxes : MayWrite(b, gcards[s], dice, rolls) } ELSE {}
Keeps(h) == { k \in UNION { Multisets[n] : n \in 0 .. 4 } : \A f \in Faces : k[f] <= h[f] }
OfferedKeeps(s) == IF OnTurn(s) /\ rolls < RollsPerTurn THEN Keeps(dice) ELSE {}

\* requestGeneralaSystemAction
SystemRolls == ~GeneralaOver /\ gphase = "awaiting-roll" /\ Size(dice) < 5

GeneralaActors == { s \in GSeats : OfferedBoxes(s) # {} \/ OfferedKeeps(s) # {} }
GeneralaStage == IF GeneralaOver THEN "over" ELSE IF SystemRolls THEN "system" ELSE "seats"

-----------------------------------------------------------------------------
(* The bots. *)

Now(s, b) == ScoreFor(b, dice, rolls, gcards[s])     \* immediateValue

\* SACRIFICE_ORDER: a box's place in it
SacrificeRank == <<2, 5, 6, 8, 10, 11, 3, 9, 7, 4, 1>>

\* largestMatchingGroup
BestFace(h) == CHOOSE f \in Faces : \A g \in Faces : h[g] < h[f] \/ (h[g] = h[f] /\ g <= f)
Group(h) == [f \in Faces |-> IF f = BestFace(h) THEN h[f] ELSE 0]

\* arrangementsOf: in how many orders a throw comes up
Factorial == [n \in 0 .. 5 |-> FoldFunction(LAMBDA a, b : a * b, 1, [i \in 1 .. n |-> i])]
Arrangements(m) ==
  Factorial[Size(m)] \div FoldFunction(LAMBDA a, b : a * b, 1, [f \in Faces |-> Factorial[m[f]]])

\* OUTCOMES_BY_SIZE: the weights, worked out once
Weight == [m \in UNION { Multisets[n] : n \in 0 .. 5 } |-> Arrangements(m)]

\* bestBoxValue
BestBox(h, r, card) ==
  Max({0} \cup { ScoreFor(b, h, r, card) : b \in OpenBoxes(card) })

\* The throws of n dice sharing their ones and twos, which keeps a sum over all of
\* them from being one long chain of additions.
Sharing == [n \in 0 .. 5 |->
  { { m \in Multisets[n] : m[1] = i /\ m[2] = j } : i, j \in 0 .. n } \ {{}}]

\* expectedValueOfHold, times the number of ordered throws (orderedThrowCount)
ExpectedSum(s, k) ==
  MapThenSumSet(LAMBDA ms :
    MapThenSumSet(LAMBDA m : Weight[m] * BestBox(Plus(k, m), rolls + 1, gcards[s]), ms),
    Sharing[5 - Size(k)])
Power6 == <<6, 36, 216, 1296, 7776>>
Expected(s, k) == ExpectedSum(s, k) * (7776 \div Power6[5 - Size(k)])

\* What a tier may do: the easy bot draws any offer; the normal one keeps its
\* largest group while it may, then takes the best box; the hard one takes
\* whatever is worth most, a box before a throw that is worth no more.
BestBoxes(s) ==
  { b \in OfferedBoxes(s) : \A o \in OfferedBoxes(s) :
      Now(s, b) > Now(s, o) \/ (Now(s, b) = Now(s, o) /\ SacrificeRank[b] <= SacrificeRank[o]) }
NormalKeeps(s) == OfferedKeeps(s) \cap {Group(dice)}
HardKeeps(s) ==
  LET price == [k \in OfferedKeeps(s) |-> Expected(s, k)]
  IN  { k \in OfferedKeeps(s) :
          /\ \A o \in OfferedKeeps(s) : price[k] >= price[o]
          /\ \A b \in OfferedBoxes(s) : price[k] > 7776 * Now(s, b) }

ChosenKeeps(s) == CASE gtier[s] = "any"    -> OfferedKeeps(s)
                    [] gtier[s] = "normal" -> NormalKeeps(s)
                    [] gtier[s] = "hard"   -> HardKeeps(s)
ChosenBoxes(s) ==
  IF gtier[s] = "any" THEN OfferedBoxes(s) ELSE IF ChosenKeeps(s) # {} THEN {} ELSE BestBoxes(s)

-----------------------------------------------------------------------------
(* Actions. *)

GeneralaInit ==
  /\ \E t \in GeneralaTables : gcards = t.cards /\ gtier = t.tier
  /\ gphase = "awaiting-roll" /\ gseat = 0 /\ rolls = 0
  /\ dice = NoDice

\* Seeded fault: the throw is not counted.
Uncounted(n) == n

NextRoll(n) == n + 1

\* applyAction of a roll-dice, and applyRoll
RollDice(m) ==
  /\ SystemRolls
  /\ m \in Tallies /\ Size(m) = 5 - Size(dice)
  /\ rolls' = NextRoll(rolls)
  /\ dice' = Plus(dice, m)
  /\ gphase' = IF rolls' = ServidaRoll /\ IsGenerala(dice') THEN "servida-win" ELSE "deciding"
  /\ UNCHANGED <<gcards, gseat, gtier>>

\* applyHold
Hold(s, k) ==
  /\ ~GeneralaOver
  /\ k \in OfferedKeeps(s)
  /\ gphase' = "awaiting-roll"
  /\ dice' = k
  /\ UNCHANGED <<gcards, gseat, rolls, gtier>>

\* applyScore
Score(s, b) ==
  /\ ~GeneralaOver
  /\ b \in OfferedBoxes(s)
  /\ gcards' = [gcards EXCEPT ![s][b] = ScoreFor(b, dice, rolls, gcards[s])]
  /\ gphase' = "awaiting-roll" /\ gseat' = 1 - s /\ rolls' = 0
  /\ dice' = NoDice
  /\ UNCHANGED gtier

GeneralaNext ==
  \/ \E m \in Throws(5 - Size(dice)) : RollDice(m)
  \/ \E s \in GSeats :
       \/ \E k \in ChosenKeeps(s) : Hold(s, k)
       \/ \E b \in ChosenBoxes(s) : Score(s, b)

GeneralaSpec == GeneralaInit /\ [][GeneralaNext]_generalaVars

-----------------------------------------------------------------------------
(* Properties. *)

GeneralaTypeOK ==
  /\ gcards \in [GSeats -> [Boxes -> {Open} \cup Nat]]
  /\ gphase \in {"awaiting-roll", "deciding", "servida-win"}
  /\ gseat \in GSeats
  /\ rolls \in 0 .. RollsPerTurn
  /\ dice \in Tallies
  /\ gtier \in [GSeats -> {"any", "normal", "hard"}]

\* A zero in a box means every box that pays more was already written when it was
\* crossed: through any sequence of turns, a card can be read back and no open
\* box ever pays more than a crossed one (legal-actions.ts:92-130).
CrossedInOrder == \A s \in GSeats : WellCrossed(gcards[s])

\* The double generala only ever pays a card that scored a generala, in whichever
\* order the boxes are filled (scoring.ts:215-247).
DobleAfterGenerala == \A s \in GSeats : DobleEarned(gcards[s])

\* Nobody gets by the order a card has to be filled in.
CardFilledInOrder == CrossedInOrder /\ DobleAfterGenerala

\* The hard bot's price of a hold, summed over throws without their order, is the
\* mean over every ordered throw of the dice that are rethrown.
Ordered(n) == [1 .. n -> Faces]
TallyOf(t) == [f \in Faces |-> Cardinality({ i \in DOMAIN t : t[i] = f })]
HoldsPricedRight ==
  \A s \in GSeats : gtier[s] = "hard" =>
    \A k \in { h \in OfferedKeeps(s) : Size(h) >= 3 } :
      ExpectedSum(s, k) =
        MapThenSumSet(LAMBDA t : BestBox(Plus(k, TallyOf(t)), rolls + 1, gcards[s]),
                      Ordered(5 - Size(k)))
=============================================================================
