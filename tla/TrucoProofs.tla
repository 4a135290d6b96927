------------------------------ MODULE TrucoProofs ------------------------------
(***************************************************************************)
(* Whatever is dealt, called and played, at whatever target: one side at   *)
(* most ever reaches it, a hand pays once and what it was worth, and goes  *)
(* to the tricks; an envido is won on the numbers dealt; and what the bots *)
(* read of the table is what the table shows.                              *)
(***************************************************************************)
EXTENDS TrucoBots, FiniteSetTheorems, SequenceTheorems, TLAPS

\* What the score rests on: nothing about the cards, only the chain of the calls.
TrucoRecords ==
  {None} \cup [status : {"pending", "accepted", "declined"}, team : Teams, level : 1 .. 3]

ChainOK ==
  /\ seatCount \in {2, 4}
  /\ DOMAIN score = Teams
  /\ truco \in TrucoRecords
  /\ truco.status = "declined" => won # NoTeam

TrucoIInv == ChainOK /\ OneWinner

\* The seats are of one team or the other.
LEMMA TeamOfSeat ==
  ASSUME seatCount \in {2, 4}, NEW s \in TrucoSeats
  PROVE  Team(s) \in Teams /\ Team(s) # NoTeam
  BY DEF TrucoSeats, Team, Teams, NoTeam

\* While a hand is on, neither side has reached the target.
LEMMA NobodyThereYet ==
  ASSUME HandOn
  PROVE  \A t \in Teams : ~(score[t] >= PointsToWin)
<1> DEFINE there == { t \in Teams : score[t] >= PointsToWin }
<1>1. MatchWinner = NoTeam
  BY DEF HandOn, TrucoOver
<1>2. ASSUME there # {} PROVE FALSE
  <2>1. \E m \in there : \A t \in there : m <= t
    BY <1>2 DEF Teams
  <2>2. Min(there) \in there
    BY <2>1 DEF Min
  <2>3. MatchWinner = Min(there)
    BY <1>2 DEF MatchWinner
  <2>4. QED
    BY <1>1, <2>2, <2>3 DEF Teams, NoTeam
<1>3. QED
  BY <1>2

\* Points given to one side while a hand is on leave the other short of the target.
LEMMA AwardLeavesALoser ==
  ASSUME ChainOK, HandOn, NEW t, NEW n, Award(t, n)
  PROVE  OneWinner' /\ DOMAIN score' = Teams
<1>1. PICK u \in Teams : u # t
  BY DEF Teams
<1>2. score'[u] = score[u] /\ DOMAIN score' = Teams
  BY <1>1 DEF Award, ChainOK
<1>3. ~(score[u] >= PointsToWin)
  BY NobodyThereYet
<1>4. QED
  BY <1>2, <1>3 DEF OneWinner

LEMMA TrucoInitInv == TrucoInit => TrucoIInv
<1> SUFFICES ASSUME TrucoInit PROVE TrucoIInv
  OBVIOUS
<1>1. seatCount \in {2, 4}
  BY TrucoAssumption DEF TrucoInit
<1>2. ChainOK
  BY <1>1 DEF TrucoInit, ChainOK, TrucoRecords, None, Teams
<1>3. score[0] = 0 /\ ~(score[0] >= PointsToWin) /\ 0 \in Teams
  BY TrucoAssumption DEF TrucoInit, Teams
<1>4. QED
  BY <1>2, <1>3 DEF TrucoIInv, OneWinner

LEMMA TrucoStepInv == TrucoIInv /\ [TrucoNext]_trucoVars => TrucoIInv'
<1> SUFFICES ASSUME TrucoIInv, [TrucoNext]_trucoVars PROVE TrucoIInv'
  OBVIOUS
<1> USE DEF TrucoIInv
<1>1. ASSUME NEW deal \in TrucoDeals(seatCount), StartHand(deal) PROVE TrucoIInv'
  <2>1. ChainOK'
    BY <1>1 DEF StartHand, ChainOK, TrucoRecords, None
  <2>2. OneWinner'
    BY <1>1 DEF StartHand, OneWinner
  <2>3. QED
    BY <2>1, <2>2
<1>2. ASSUME NEW s \in TrucoSeats, CallTruco(s) PROVE TrucoIInv'
  <2>1. Team(s) \in Teams
    BY TeamOfSeat DEF ChainOK
  <2>2. truco'.status = "pending" /\ truco' \in TrucoRecords
    BY <1>2, <2>1 DEF CallTruco, MayCallTruco, ChainOK, TrucoRecords, None
  <2>3. QED
    BY <1>2, <2>2 DEF CallTruco, ChainOK, OneWinner
<1>3. ASSUME NEW s \in TrucoSeats, NEW yes \in BOOLEAN, AnswerTruco(s, yes) PROVE TrucoIInv'
  <2>1. truco \in [status : {"pending", "accepted", "declined"}, team : Teams, level : 1 .. 3]
    BY <1>3 DEF AnswerTruco, MayAnswerTruco, ChainOK, TrucoRecords, None
  <2>2. CASE yes
    <3>1. truco' \in TrucoRecords /\ truco'.status = "accepted"
      BY <1>3, <2>1, <2>2 DEF AnswerTruco, TrucoRecords
    <3>2. QED
      BY <1>3, <2>2, <3>1 DEF AnswerTruco, ChainOK, OneWinner
  <2>3. CASE ~yes
    <3>1. truco' \in TrucoRecords /\ won' # NoTeam
      BY <1>3, <2>1, <2>3 DEF AnswerTruco, TrucoRecords, Teams, NoTeam
    <3>2. OneWinner' /\ DOMAIN score' = Teams
      BY <1>3, <2>3, AwardLeavesALoser DEF AnswerTruco, MayAnswerTruco
    <3>3. QED
      BY <1>3, <3>1, <3>2 DEF AnswerTruco, ChainOK
  <2>4. QED
    BY <2>2, <2>3
<1>4. ASSUME NEW s \in TrucoSeats, NEW l \in 1 .. 4, CallEnvido(s, l) PROVE TrucoIInv'
  BY <1>4 DEF CallEnvido, ChainOK, OneWinner
<1>5. ASSUME NEW s \in TrucoSeats, NEW yes \in BOOLEAN, AnswerEnvido(s, yes) PROVE TrucoIInv'
  <2>1. CASE yes
    BY <1>5, <2>1 DEF AnswerEnvido, ChainOK, OneWinner
  <2>2. CASE ~yes
    <3>1. OneWinner' /\ DOMAIN score' = Teams
      BY <1>5, <2>2, AwardLeavesALoser DEF AnswerEnvido, MayAnswerEnvido
    <3>2. QED
      BY <1>5, <3>1 DEF AnswerEnvido, ChainOK
  <2>3. QED
    BY <2>1, <2>2
<1>6. ASSUME NEW s \in TrucoSeats, NEW how \in {"points", "sonBuenas"}, Declare(s, how)
      PROVE  TrucoIInv'
  <2>1. CASE UNCHANGED score
    BY <1>6, <2>1 DEF Declare, ChainOK, OneWinner
  <2>2. ASSUME NEW t, Award(t, envido.value) PROVE TrucoIInv'
    <3>1. OneWinner' /\ DOMAIN score' = Teams
      BY <1>6, <2>2, AwardLeavesALoser DEF Declare, MayDeclare
    <3>2. QED
      BY <1>6, <3>1 DEF Declare, ChainOK
  <2>3. UNCHANGED score \/ \E t : Award(t, envido.value)
    BY <1>6 DEF Declare
  <2>4. QED
    BY <2>1, <2>2, <2>3
<1>7. ASSUME NEW s \in TrucoSeats, NEW c \in hands[s], PlayCard(s, c) PROVE TrucoIInv'
  <2>1. HandOn /\ truco.status # "declined"
    BY <1>7 DEF PlayCard, MayPlay, HandOn, ChainOK
  <2>2. UNCHANGED <<seatCount, truco>>
    BY <1>7 DEF PlayCard, calls
  <2>3. UNCHANGED score \/ \E t : Award(t, HandValue)
    BY <1>7 DEF PlayCard, CloseTrick
  <2>4. OneWinner' /\ DOMAIN score' = Teams
    BY <2>1, <2>3, AwardLeavesALoser DEF OneWinner, ChainOK
  <2>5. QED
    BY <2>1, <2>2, <2>4 DEF ChainOK
<1>8. ASSUME NEW s \in TrucoSeats, Spend(s) PROVE TrucoIInv'
  BY <1>8 DEF Spend, calls, ChainOK, OneWinner
<1>9. CASE UNCHANGED trucoVars
  BY <1>9 DEF trucoVars, calls, ChainOK, OneWinner
<1>10. QED
  BY <1>1, <1>2, <1>3, <1>4, <1>5, <1>6, <1>7, <1>8, <1>9
     DEF TrucoNext, TrucoMoves, SendSena, ConsultPartner

\* A declined or decided hand is the only one whose calls are over; the three ways
\* a hand is decided pay what stood before it.
LEMMA TrucoStepPays == TrucoIInv /\ [TrucoNext]_trucoVars =>
  [ /\ won = NoTeam /\ won' # NoTeam => score' = [score EXCEPT ![won'] = @ + StandingValue]
    /\ won # NoTeam => score' = score ]_trucoVars
<1> DEFINE Pays == /\ won = NoTeam /\ won' # NoTeam =>
                        score' = [score EXCEPT ![won'] = @ + StandingValue]
                   /\ won # NoTeam => score' = score
<1> SUFFICES ASSUME TrucoIInv, [TrucoNext]_trucoVars PROVE Pays \/ UNCHANGED trucoVars
  OBVIOUS
<1> USE DEF TrucoIInv
<1>1. ASSUME NEW deal \in TrucoDeals(seatCount), StartHand(deal) PROVE Pays
  BY <1>1 DEF StartHand
<1>2. ASSUME NEW s \in TrucoSeats, CallTruco(s) PROVE Pays
  BY <1>2 DEF CallTruco
<1>3. ASSUME NEW s \in TrucoSeats, NEW yes \in BOOLEAN, AnswerTruco(s, yes) PROVE Pays
  <2>1. won = NoTeam /\ truco.status = "pending" /\ truco.level \in 1 .. 3
    BY <1>3 DEF AnswerTruco, MayAnswerTruco, HandOn, ChainOK, TrucoRecords, None
  <2>2. StandingValue = DeclineValue(truco.level)
    BY <2>1 DEF StandingValue, DeclineValue, AcceptedValue
  <2>3. QED
    BY <1>3, <2>1, <2>2 DEF AnswerTruco, Award
<1>4. ASSUME NEW s \in TrucoSeats, NEW l \in 1 .. 4, CallEnvido(s, l) PROVE Pays
  BY <1>4 DEF CallEnvido
<1>5. ASSUME NEW s \in TrucoSeats, NEW yes \in BOOLEAN, AnswerEnvido(s, yes) PROVE Pays
  BY <1>5 DEF AnswerEnvido, MayAnswerEnvido, HandOn
<1>6. ASSUME NEW s \in TrucoSeats, NEW how \in {"points", "sonBuenas"}, Declare(s, how) PROVE Pays
  BY <1>6 DEF Declare, MayDeclare, HandOn
<1>7. ASSUME NEW s \in TrucoSeats, NEW c \in hands[s], PlayCard(s, c) PROVE Pays
  <2>1. won = NoTeam /\ truco.status \in {"none", "accepted"}
    BY <1>7 DEF PlayCard, MayPlay, HandOn, ChainOK, TrucoRecords, None
  <2>2. StandingValue = HandValue
    BY <2>1 DEF StandingValue, HandValue
  <2>3. won' # NoTeam => Award(won', HandValue)
    BY <1>7, <2>1 DEF PlayCard, CloseTrick
  <2>4. QED
    BY <2>1, <2>2, <2>3 DEF Award
<1>8. ASSUME NEW s \in TrucoSeats, Spend(s) PROVE Pays
  BY <1>8 DEF Spend
<1>9. QED
  BY <1>1, <1>2, <1>3, <1>4, <1>5, <1>6, <1>7, <1>8 DEF TrucoNext, TrucoMoves, SendSena, ConsultPartner

-----------------------------------------------------------------------------
(* Numbers: a set of them has a least and, when it is bounded, a greatest;   *)
(* a set of places in a list is counted place by place.                      *)

LEMMA LeastNumber ==
  ASSUME NEW T \in SUBSET Nat, T # {}
  PROVE  \E m \in T : \A n \in T : m <= n
<1> DEFINE U == { 0 .. i : i \in T }
<1>1. U \subseteq FiniteSubsetsOf(Nat) /\ U # {}
  <2>1. ASSUME NEW i \in T PROVE 0 .. i \in FiniteSubsetsOf(Nat)
    <3>1. i \in Nat /\ 0 \in Int /\ i \in Int
      OBVIOUS
    <3>2. IsFiniteSet(0 .. i)
      BY <3>1, FS_Interval
    <3>3. 0 .. i \subseteq Nat
      BY <3>1
    <3>4. QED
      BY <3>2, <3>3 DEF FiniteSubsetsOf
  <2>2. QED
    BY <2>1
<1>2. IsWellFoundedOn(StrictSubsetOrdering(Nat), FiniteSubsetsOf(Nat))
  BY FS_StrictSubsetOrderingWellFounded
<1>3. PICK X \in U : \A Y \in U : <<Y, X>> \notin StrictSubsetOrdering(Nat)
  <2> HIDE DEF U
  <2>1. QED
    BY <1>1, <1>2, WFMin
<1>4. PICK m \in T : X = 0 .. m
  OBVIOUS
<1>5. ASSUME NEW n \in T, n < m PROVE FALSE
  <2>1. 0 .. n \in U /\ 0 .. n \subseteq 0 .. m /\ m \in 0 .. m /\ m \notin 0 .. n
          /\ 0 .. n \subseteq Nat /\ 0 .. m \subseteq Nat
    BY <1>5
  <2>2. <<0 .. n, 0 .. m>> \in StrictSubsetOrdering(Nat)
    BY <2>1 DEF StrictSubsetOrdering
  <2>3. QED
    BY <1>3, <1>4, <2>1, <2>2
<1>6. QED
  BY <1>5

LEMMA GreatestNumber ==
  ASSUME NEW N \in Nat, NEW T \in SUBSET (0 .. N), T # {}
  PROVE  \E m \in T : \A n \in T : n <= m
<1> DEFINE U == { N - i : i \in T }
<1>1. U \in SUBSET Nat /\ U # {}
  <2>1. ASSUME NEW i \in T PROVE N - i \in Nat
    <3>1. i \in 0 .. N
      OBVIOUS
    <3>2. QED
      BY <3>1
  <2>2. QED
    BY <2>1
<1> HIDE DEF U
<1>2. PICK u \in U : \A v \in U : u <= v
  BY <1>1, LeastNumber
<1>3. PICK m \in T : u = N - m
  BY <1>2 DEF U
<1>4. ASSUME NEW n \in T PROVE n <= m
  <2>1. N - n \in U
    BY DEF U
  <2>2. u <= N - n
    BY <1>2, <2>1
  <2>3. QED
    BY <1>3, <2>2
<1>5. QED
  BY <1>4

LEMMA MinIs ==
  ASSUME NEW T \in SUBSET Nat, T # {}
  PROVE  Min(T) \in T /\ \A n \in T : Min(T) <= n
<1>1. \E m \in T : \A n \in T : m =< n
  BY LeastNumber
<1>2. QED
  BY <1>1 DEF Min

LEMMA MaxIs ==
  ASSUME NEW N \in Nat, NEW T \in SUBSET (0 .. N), T # {}
  PROVE  Max(T) \in T /\ \A n \in T : n <= Max(T)
<1>1. \E m \in T : \A n \in T : n <= m
  BY GreatestNumber
<1>2. \E m \in T : \A n \in T : m >= n
  BY <1>1
<1>3. Max(T) \in T /\ \A n \in T : Max(T) >= n
  BY <1>2 DEF Max
<1>4. QED
  BY <1>3

\* One for what is so.
One(p) == IF p THEN 1 ELSE 0

LEMMA CountToThree ==
  ASSUME NEW S \in SUBSET (1 .. 3)
  PROVE  Cardinality(S) = One(1 \in S) + One(2 \in S) + One(3 \in S)
<1>1. IsFiniteSet(1 .. 3)
  <2>1. 1 \in Int /\ 3 \in Int
    OBVIOUS
  <2>2. QED
    BY <2>1, FS_Interval
<1>2. IsFiniteSet(S)
  BY <1>1, FS_Subset
<1>3. /\ IsFiniteSet(S \ {3})
      /\ Cardinality(S \ {3}) = IF 3 \in S THEN Cardinality(S) - 1 ELSE Cardinality(S)
  BY <1>2, FS_RemoveElement
<1>4. /\ IsFiniteSet((S \ {3}) \ {2})
      /\ Cardinality((S \ {3}) \ {2})
           = IF 2 \in S \ {3} THEN Cardinality(S \ {3}) - 1 ELSE Cardinality(S \ {3})
  BY <1>3, FS_RemoveElement
<1>5. /\ Cardinality(((S \ {3}) \ {2}) \ {1})
           = IF 1 \in (S \ {3}) \ {2} THEN Cardinality((S \ {3}) \ {2}) - 1
                                     ELSE Cardinality((S \ {3}) \ {2})
  BY <1>4, FS_RemoveElement
<1>6. ((S \ {3}) \ {2}) \ {1} = {} /\ Cardinality({}) = 0
  BY FS_EmptySet
<1>7. Cardinality(S) \in Nat /\ Cardinality(S \ {3}) \in Nat /\ Cardinality((S \ {3}) \ {2}) \in Nat
  BY <1>2, <1>3, <1>4, FS_CardinalityType
<1>8. PICK a, b \in Nat : a = Cardinality(S \ {3}) /\ b = Cardinality((S \ {3}) \ {2})
  BY <1>7
<1>9. b = One(1 \in S)
  <2>1. 1 \in (S \ {3}) \ {2} <=> 1 \in S
    OBVIOUS
  <2>2. 0 = IF 1 \in S THEN b - 1 ELSE b
    BY <1>5, <1>6, <1>8, <2>1
  <2>3. QED
    BY <1>8, <2>2 DEF One
<1>10. a = b + One(2 \in S)
  BY <1>4, <1>8 DEF One
<1>11. Cardinality(S) = a + One(3 \in S)
  BY <1>3, <1>7, <1>8 DEF One
<1>12. QED
  BY <1>9, <1>10, <1>11

-----------------------------------------------------------------------------
(* A hand is decided as soon as no further trick can change who takes it.    *)

Outcomes == Teams \cup {NoTeam}

LEMMA WinsOfThree ==
  ASSUME NEW ts \in Seq(Outcomes), Len(ts) = 3, NEW t \in Teams
  PROVE  Wins(ts, t) = One(ts[1] = t) + One(ts[2] = t) + One(ts[3] = t)
<1> DEFINE S == { i \in DOMAIN ts : ts[i] = t }
<1>1. S \in SUBSET (1 .. 3) /\ \A i \in 1 .. 3 : i \in S <=> ts[i] = t
  OBVIOUS
<1>2. Wins(ts, t) = Cardinality(S)
  BY DEF Wins
<1> HIDE DEF S
<1>3. Cardinality(S) = One(1 \in S) + One(2 \in S) + One(3 \in S)
  BY <1>1, CountToThree
<1>4. QED
  BY <1>1, <1>2, <1>3 DEF One

LEMMA FirstWinOfThree ==
  ASSUME NEW ts \in Seq(Outcomes), Len(ts) = 3
  PROVE  FirstWin(ts) = IF ts[1] # NoTeam THEN ts[1] ELSE IF ts[2] # NoTeam THEN ts[2]
                        ELSE IF ts[3] # NoTeam THEN ts[3] ELSE Team(mano)
<1> DEFINE S == { i \in DOMAIN ts : ts[i] # NoTeam }
<1>1. S \in SUBSET Nat /\ S \in SUBSET (1 .. 3) /\ \A i \in 1 .. 3 : i \in S <=> ts[i] # NoTeam
  OBVIOUS
<1>2. FirstWin(ts) = IF S = {} THEN Team(mano) ELSE ts[Min(S)]
  BY DEF FirstWin
<1> HIDE DEF S
<1>3. CASE S = {}
  BY <1>1, <1>2, <1>3
<1>4. CASE S # {}
  <2>1. PICK m : m = Min(S)
    OBVIOUS
  <2>2. m \in S /\ \A n \in S : m <= n
    BY <1>1, <1>4, <2>1, MinIs
  <2>3. m \in {1, 2, 3} /\ ts[m] # NoTeam /\ FirstWin(ts) = ts[m]
    BY <1>1, <1>2, <1>4, <2>1, <2>2
  <2>4. (m = 2 => ts[1] = NoTeam) /\ (m = 3 => ts[1] = NoTeam /\ ts[2] = NoTeam)
    BY <1>1, <2>2
  <2>5. QED
    BY <2>3, <2>4
<1>5. QED
  BY <1>3, <1>4

\* Who takes a hand of three tricks a, b and c.
Taker(a, b, c) ==
  LET wins(t) == One(a = t) + One(b = t) + One(c = t) IN
  IF wins(0) > wins(1) THEN 0
  ELSE IF wins(1) > wins(0) THEN 1
  ELSE IF a # NoTeam THEN a ELSE IF b # NoTeam THEN b ELSE IF c # NoTeam THEN c ELSE Team(mano)

LEMMA PlayedOutOfThree ==
  ASSUME NEW ts \in Seq(Outcomes), Len(ts) = 3
  PROVE  PlayedOut(ts) = Taker(ts[1], ts[2], ts[3])
<1>1. /\ Wins(ts, 0) = One(ts[1] = 0) + One(ts[2] = 0) + One(ts[3] = 0)
      /\ Wins(ts, 1) = One(ts[1] = 1) + One(ts[2] = 1) + One(ts[3] = 1)
  BY WinsOfThree DEF Teams
<1>2. QED
  BY <1>1, FirstWinOfThree DEF PlayedOut, Taker, One

\* What resolveHandWinner says early is what every hand that goes on would say, and
\* where it says nothing both sides may still take it.
LEMMA DecidedEarly ==
  ASSUME NEW ts \in Seq(Outcomes), Len(ts) <= 3, Team(mano) \in Teams
  PROVE  LET w == HandWinner(ts, Team(mano))
             verdicts == { PlayedOut(us) : us \in Continuations(ts) } IN
         /\ w \in Outcomes /\ (Len(ts) = 3 => w # NoTeam)
         /\ verdicts \subseteq Outcomes
         /\ w # NoTeam => verdicts = {w}
         /\ w = NoTeam => {0, 1} \subseteq verdicts
<1>0. Len(ts) \in Nat /\ \A i \in 1 .. Len(ts) : ts[i] \in Outcomes
  OBVIOUS
<1>n. PICK n \in Nat : n = Len(ts)
  BY <1>0
<1>1. Len(ts) \in 0 .. 3 /\ \A i \in 1 .. Len(ts) : ts[i] \in Outcomes
  <2>1. n <= 3
    BY <1>n
  <2>2. n \in 0 .. 3
    BY <2>1
  <2>3. QED
    BY <1>0, <1>n, <2>2
<1> DEFINE w == HandWinner(ts, Team(mano))
           Full(us) == us \in Seq(Outcomes) /\ Len(us) = 3 /\ \A i \in 1 .. Len(ts) : us[i] = ts[i]
<1>2. ASSUME NEW us \in Continuations(ts) PROVE Full(us)
  <2>1. PICK rest \in [1 .. 3 - Len(ts) -> Outcomes] : us = ts \o rest
    BY DEF Continuations, Outcomes
  <2>2. rest \in Seq(Outcomes) /\ Len(rest) = 3 - Len(ts)
    BY <1>1
  <2>3. QED
    BY <1>1, <2>1, <2>2
<1>3. ASSUME NEW v \in Outcomes
      PROVE  \E us \in Continuations(ts) : Full(us) /\ \A i \in Len(ts) + 1 .. 3 : us[i] = v
  <2> DEFINE rest == [i \in 1 .. 3 - Len(ts) |-> v]
  <2>1. rest \in [1 .. 3 - Len(ts) -> Outcomes]
    OBVIOUS
  <2>2. ts \o rest \in Continuations(ts)
    BY <2>1 DEF Continuations, Outcomes
  <2>3. Full(ts \o rest)
    BY <1>2, <2>2
  <2>4. rest \in Seq(Outcomes) /\ Len(rest) = 3 - Len(ts)
    BY <1>1
  <2>5. \A i \in Len(ts) + 1 .. 3 : (ts \o rest)[i] = v
    BY <1>1, <2>4
  <2>6. QED
    BY <2>2, <2>3, <2>5
<1>4. \A us : Full(us) =>
        /\ us[1] \in Outcomes /\ us[2] \in Outcomes /\ us[3] \in Outcomes
        /\ PlayedOut(us) = Taker(us[1], us[2], us[3])
  <2>1. ASSUME NEW us \in Seq(Outcomes), Len(us) = 3
        PROVE  us[1] \in Outcomes /\ us[2] \in Outcomes /\ us[3] \in Outcomes
    <3>1. \A i \in 1 .. Len(us) : us[i] \in Outcomes
      OBVIOUS
    <3>2. 1 \in 1 .. Len(us) /\ 2 \in 1 .. Len(us) /\ 3 \in 1 .. Len(us)
      BY <2>1
    <3>3. QED
      BY <3>1, <3>2
  <2>2. QED
    BY <2>1, PlayedOutOfThree
<1>5. /\ w \in Outcomes /\ (Len(ts) = 3 => w # NoTeam)
      /\ \A us : Full(us) /\ w # NoTeam => PlayedOut(us) = w
  <2> HIDE DEF Full
  <2>1. CASE Len(ts) < 2
    <3>1. w = NoTeam /\ Len(ts) # 3
      BY <2>1, <1>n DEF HandWinner
    <3>2. QED
      BY <3>1 DEF Outcomes
  <2>2. CASE Len(ts) = 2
    <3>1. ts[1] \in {0, 1, NoTeam} /\ ts[2] \in {0, 1, NoTeam}
      BY <1>1, <2>2 DEF Outcomes, Teams
    <3>2. \A us : Full(us) => us[1] = ts[1] /\ us[2] = ts[2]
      BY <2>2 DEF Full
    <3>3. \A c \in Outcomes : w # NoTeam => Taker(ts[1], ts[2], c) = w
      BY <2>2, <3>1 DEF HandWinner, LastResort, Taker, One, Outcomes, Teams, NoTeam
    <3>4. w \in Outcomes
      BY <2>2, <3>1 DEF HandWinner, Outcomes, Teams
    <3>5. QED
      BY <1>4, <2>2, <3>2, <3>3, <3>4
  <2>3. CASE Len(ts) = 3
    <3>1. ts[1] \in {0, 1, NoTeam} /\ ts[2] \in {0, 1, NoTeam} /\ ts[3] \in {0, 1, NoTeam}
      BY <1>1, <2>3 DEF Outcomes, Teams
    <3>2. \A us : Full(us) => us[1] = ts[1] /\ us[2] = ts[2] /\ us[3] = ts[3]
      BY <2>3 DEF Full
    <3>3. Taker(ts[1], ts[2], ts[3]) = w /\ w \in Teams
      BY <2>3, <3>1 DEF HandWinner, LastResort, Taker, One, Teams, NoTeam
    <3>4. QED
      BY <1>4, <2>3, <3>2, <3>3 DEF Outcomes, Teams, NoTeam
  <2>4. QED
    BY <1>1, <2>1, <2>2, <2>3
<1>6. ASSUME w = NoTeam, NEW t \in Teams PROVE \E us \in Continuations(ts) : PlayedOut(us) = t
  <2>0. t \in Outcomes /\ t \in {0, 1} /\ Len(ts) \in {0, 1, 2}
    BY <1>1, <1>5, <1>6 DEF Outcomes, Teams
  <2>1. PICK us \in Continuations(ts) : Full(us) /\ \A i \in Len(ts) + 1 .. 3 : us[i] = t
    BY <1>3, <2>0
  <2>2. PlayedOut(us) = Taker(us[1], us[2], us[3]) /\ us[1] \in Outcomes /\ us[3] = t
    BY <1>1, <1>4, <2>0, <2>1
  <2>3. CASE Len(ts) < 2
    <3>1. us[2] = t
      BY <1>1, <2>1, <2>3
    <3>2. \A a \in Outcomes : Taker(a, t, t) = t
      BY <2>0 DEF Taker, One, Outcomes, Teams, NoTeam
    <3>3. QED
      BY <2>2, <3>1, <3>2
  <2>4. CASE Len(ts) = 2
    <3>1. us[1] = ts[1] /\ us[2] = ts[2] /\ ts[1] \in {0, 1, NoTeam} /\ ts[2] \in {0, 1, NoTeam}
      BY <1>1, <2>1, <2>4 DEF Outcomes, Teams
    <3>2. Taker(ts[1], ts[2], t) = t
      BY <1>6, <2>0, <2>4, <3>1 DEF HandWinner, Taker, One, NoTeam
    <3>3. QED
      BY <2>2, <3>1, <3>2
  <2>5. Len(ts) < 2 \/ Len(ts) = 2
    <3>1. n \in {0, 1, 2}
      BY <1>n, <2>0
    <3>2. QED
      BY <1>n, <3>1
  <2>6. QED
    BY <2>3, <2>4, <2>5
<1>7. QED
  <2>1. \A us \in Continuations(ts) : w # NoTeam => PlayedOut(us) = w
    BY <1>2, <1>5
  <2>2. Continuations(ts) # {}
    BY <1>3 DEF Outcomes, Teams
  <2>6. ASSUME NEW us \in Continuations(ts) PROVE PlayedOut(us) \in Outcomes
    <3>1. us[1] \in Outcomes /\ us[2] \in Outcomes /\ us[3] \in Outcomes
            /\ PlayedOut(us) = Taker(us[1], us[2], us[3])
      BY <1>2, <1>4
    <3>2. QED
      BY <3>1 DEF Taker, Outcomes, Teams
  <2> HIDE DEF w
  <2>3. w # NoTeam => { PlayedOut(us) : us \in Continuations(ts) } = {w}
    BY <2>1, <2>2
  <2>4. w = NoTeam => {0, 1} \subseteq { PlayedOut(us) : us \in Continuations(ts) }
    BY <1>6 DEF Teams
  <2>5. QED
    BY <1>5, <2>3, <2>4, <2>6 DEF w

-----------------------------------------------------------------------------
(* What is on the table: the power of its cards, the numbers said.           *)

LEMMA RangeOfAppend ==
  ASSUME NEW X, NEW l \in Seq(X), NEW e \in X
  PROVE  /\ Append(l, e) \in Seq(X) /\ Len(Append(l, e)) = Len(l) + 1 /\ Append(l, e) # <<>>
         /\ \A i \in 1 .. Len(l) : Append(l, e)[i] = l[i]
         /\ Append(l, e)[Len(l) + 1] = e
         /\ Range(Append(l, e)) = Range(l) \cup {e}
<1>1. PICK n \in Nat : n = Len(l) /\ DOMAIN l = 1 .. n
  OBVIOUS
<1>2. PICK m : m = Append(l, e)
  OBVIOUS
<1>3. m \in Seq(X) /\ DOMAIN m = 1 .. n + 1 /\ Len(m) = n + 1 /\ m[n + 1] = e
        /\ \A i \in 1 .. n : m[i] = l[i]
  BY <1>1, <1>2
<1>4. Range(m) = Range(l) \cup {e}
  <2>1. Range(m) = { m[i] : i \in 1 .. n + 1 } /\ Range(l) = { l[i] : i \in 1 .. n }
    BY <1>1, <1>3 DEF Range
  <2>2. \A i \in 1 .. n + 1 : i = n + 1 \/ i \in 1 .. n
    OBVIOUS
  <2>3. \A i \in 1 .. n : i \in 1 .. n + 1
    OBVIOUS
  <2>4. n + 1 \in 1 .. n + 1
    OBVIOUS
  <2>5. QED
    BY <1>3, <2>1, <2>2, <2>3, <2>4
<1>5. m # <<>>
  BY <1>3
<1>6. QED
  BY <1>1, <1>2, <1>3, <1>4, <1>5

LEMMA PowerOfCard == \A c \in Cards : Power(c) \in 1 .. 14
<1> SUFFICES ASSUME NEW c \in Cards PROVE Power(c) \in 1 .. 14
  OBVIOUS
<1>1. PICK r \in Ranks, u \in Suits : c = <<r, u>>
  BY DEF Cards
<1>2. DOMAIN PowerGroups = 1 .. 14
  BY DEF PowerGroups
<1>3. \E i \in 1 .. 14 : c \in PowerGroups[i]
  <2>1. CASE r = 1 /\ u = "espada"
    BY <1>1, <2>1 DEF PowerGroups
  <2>2. CASE r = 1 /\ u = "basto"
    BY <1>1, <2>2 DEF PowerGroups
  <2>3. CASE r = 1 /\ u \in {"oro", "copa"}
    <3>1. c \in PowerGroups[7]
      BY <1>1, <2>3 DEF PowerGroups
    <3>2. QED
      BY <3>1
  <2>4. CASE r = 7 /\ u = "espada"
    BY <1>1, <2>4 DEF PowerGroups
  <2>5. CASE r = 7 /\ u = "oro"
    BY <1>1, <2>5 DEF PowerGroups
  <2>6. CASE r = 7 /\ u \in {"basto", "copa"}
    <3>1. c \in PowerGroups[11]
      BY <1>1, <2>6 DEF PowerGroups
    <3>2. QED
      BY <3>1
  <2>7. CASE r = 3
    BY <1>1, <2>7 DEF PowerGroups
  <2>8. CASE r = 2
    BY <1>1, <2>8 DEF PowerGroups
  <2>9. CASE r = 12
    BY <1>1, <2>9 DEF PowerGroups
  <2>10. CASE r = 11
    BY <1>1, <2>10 DEF PowerGroups
  <2>11. CASE r = 10
    BY <1>1, <2>11 DEF PowerGroups
  <2>12. CASE r = 6
    BY <1>1, <2>12 DEF PowerGroups
  <2>13. CASE r = 5
    BY <1>1, <2>13 DEF PowerGroups
  <2>14. CASE r = 4
    BY <1>1, <2>14 DEF PowerGroups
  <2>15. u \in {"espada", "basto", "oro", "copa"} /\ r \in {1, 2, 3, 4, 5, 6, 7, 10, 11, 12}
    BY DEF Suits, Ranks
  <2>16. QED
    BY <2>1, <2>2, <2>3, <2>4, <2>5, <2>6, <2>7, <2>8, <2>9, <2>10, <2>11, <2>12, <2>13, <2>14, <2>15
<1>4. PICK i \in 1 .. 14 : Power(c) = 15 - i
  BY <1>2, <1>3 DEF Power, PowerById
<1>5. QED
  BY <1>4

PlayAt(seats) == [seat : seats, card : Cards]
PlaysAt(seats) == Seq(PlayAt(seats))

\* Best is reached by a card of the side when the side has one on the table.
LEMMA BestIs ==
  ASSUME NEW seats, NEW ps \in PlaysAt(seats), NEW t
  PROVE  /\ Best(ps, t) \in 0 .. 14
         /\ Best(ps, t) # 0 => \E i \in DOMAIN ps : Team(ps[i].seat) = t /\ Power(ps[i].card) = Best(ps, t)
<1> DEFINE of == { q \in Range(ps) : Team(q.seat) = t }
           powers == { Power(p.card) : p \in of }
<1>1. ASSUME NEW p \in Range(ps) PROVE p.card \in Cards /\ \E i \in DOMAIN ps : p = ps[i]
  <2>1. PICK i \in DOMAIN ps : p = ps[i]
    BY DEF Range
  <2>2. ps[i] \in PlayAt(seats)
    BY DEF PlaysAt
  <2>3. QED
    BY <2>1, <2>2 DEF PlayAt
<1>2. powers \in SUBSET (1 .. 14)
  BY <1>1, PowerOfCard
<1>3. Best(ps, t) = Max({0} \cup powers)
  BY DEF Best
<1>4. \A x \in powers : \E i \in DOMAIN ps : Team(ps[i].seat) = t /\ Power(ps[i].card) = x
  BY <1>1
<1> HIDE DEF powers
<1>5. {0} \cup powers \in SUBSET (0 .. 14) /\ {0} \cup powers # {}
  BY <1>2
<1>6. Best(ps, t) \in {0} \cup powers
  BY <1>3, <1>5, MaxIs
<1>7. QED
  BY <1>4, <1>5, <1>6

\* Whoever leads the next trick sits at the table.
LEMMA LeaderSits ==
  ASSUME NEW seats, NEW ps \in PlaysAt(seats), ps # <<>>
  PROVE  TrickWinner(ps) \in Outcomes /\ Leader(ps) \in seats
<1>1. ASSUME NEW i \in DOMAIN ps PROVE ps[i].seat \in seats
  <2>1. ps[i] \in PlayAt(seats)
    BY DEF PlaysAt
  <2>2. QED
    BY <2>1 DEF PlayAt
<1>2. 1 \in DOMAIN ps
  <2>1. PICK n \in Nat : n = Len(ps) /\ DOMAIN ps = 1 .. n
    BY DEF PlaysAt
  <2>2. n # 0
    BY <2>1 DEF PlaysAt
  <2>3. QED
    BY <2>1, <2>2
<1>3. PICK t : t = TrickWinner(ps)
  OBVIOUS
<1>4. t \in Outcomes
  BY <1>3 DEF TrickWinner, Outcomes, Teams
<1>5. CASE t = NoTeam
  BY <1>1, <1>2, <1>3, <1>4, <1>5 DEF Leader
<1>6. CASE t # NoTeam
  <2>1. PICK a \in 0 .. 14, b \in 0 .. 14 : a = Best(ps, 0) /\ b = Best(ps, 1)
    BY BestIs
  <2>2. Best(ps, t) # 0
    BY <1>3, <1>6, <2>1 DEF TrickWinner
  <2> DEFINE S == { i \in DOMAIN ps : Team(ps[i].seat) = t /\ Power(ps[i].card) = Best(ps, t) }
  <2>3. S # {} /\ S \in SUBSET Nat /\ S \subseteq DOMAIN ps
    <3>1. S # {}
      BY <2>2, BestIs
    <3>2. DOMAIN ps \subseteq Nat
      BY DEF PlaysAt
    <3>3. QED
      BY <3>1, <3>2
  <2>4. Leader(ps) = ps[Min(S)].seat
    BY <1>3, <1>6 DEF Leader
  <2> HIDE DEF S
  <2>5. Min(S) \in DOMAIN ps
    BY <2>3, MinIs
  <2>6. QED
    BY <1>1, <1>3, <1>4, <2>4, <2>5
<1>7. QED
  BY <1>5, <1>6

\* A hand's number for the envido: thirty-three at most, as the table has it.
LEMMA EnvidoPointsIs ==
  ASSUME NEW C \in SUBSET Cards, C # {}
  PROVE  EnvidoPoints(C) \in 0 .. 34
<1> DEFINE pairs == { p \in C \X C : p[1] # p[2] /\ p[1][2] = p[2][2] }
           singles == { EnvidoRank(c) : c \in C }
           doubles == { 20 + EnvidoRank(p[1]) + EnvidoRank(p[2]) : p \in pairs }
<1>1. ASSUME NEW c \in C PROVE EnvidoRank(c) \in 0 .. 7
  <2>1. PICK r \in Ranks, u \in Suits : c = <<r, u>>
    BY DEF Cards
  <2>2. r \in 1 .. 12 /\ c[1] = r
    BY <2>1 DEF Ranks
  <2>3. QED
    BY <2>2 DEF EnvidoRank
<1>2. singles \in SUBSET (0 .. 34) /\ singles # {}
  BY <1>1
<1>3. doubles \in SUBSET (0 .. 34)
  <2>1. ASSUME NEW p \in pairs PROVE 20 + EnvidoRank(p[1]) + EnvidoRank(p[2]) \in 0 .. 34
    <3>1. p[1] \in C /\ p[2] \in C
      OBVIOUS
    <3>2. PICK a \in 0 .. 7, b \in 0 .. 7 : a = EnvidoRank(p[1]) /\ b = EnvidoRank(p[2])
      BY <1>1, <3>1
    <3>3. QED
      BY <3>2
  <2> HIDE DEF pairs
  <2>2. QED
    BY <2>1
<1>4. EnvidoPoints(C) = IF pairs = {} THEN Max(singles) ELSE Max(doubles)
  BY DEF EnvidoPoints
<1>5. pairs # {} => doubles # {}
  OBVIOUS
<1> HIDE DEF pairs, singles, doubles
<1>6. Max(singles) \in 0 .. 34 /\ (pairs # {} => Max(doubles) \in 0 .. 34)
  BY <1>2, <1>3, <1>5, MaxIs
<1>7. QED
  BY <1>4, <1>6

\* What a seat may say in the round of an envido.
WordsAt(seats) ==
  [seat : seats, how : {"points"}, points : 0 .. 34] \cup [seat : seats, how : {"sonBuenas"}]

\* Once a number is said, the side that said the highest is ahead.
LEMMA AheadIs ==
  ASSUME NEW n \in {2, 4}, NEW ds \in Seq(WordsAt(0 .. n - 1))
  PROVE  /\ Ahead(ds) \in Outcomes /\ (Said(ds) # {} => Ahead(ds) \in Teams)
         /\ Said(ds) # {} => \E i \in DOMAIN ds : /\ ds[i].how = "points"
                                                 /\ ds[i].points = BestSaid(ds)
<1>1. ASSUME NEW d \in Said(ds) PROVE d.points \in 0 .. 34 /\ \E i \in DOMAIN ds : ds[i] = d
  <2>1. PICK i \in DOMAIN ds : d = ds[i] /\ d.how = "points"
    BY DEF Said, Range
  <2>2. ds[i] \in WordsAt(0 .. n - 1)
    OBVIOUS
  <2>3. QED
    BY <2>1, <2>2 DEF WordsAt
<1>2. CASE Said(ds) = {}
  BY <1>2 DEF Ahead, Outcomes
<1>3. CASE Said(ds) # {}
  <2> DEFINE numbers == { d.points : d \in Said(ds) }
             S == { i \in DOMAIN ds : ds[i].how = "points" /\ ds[i].points = BestSaid(ds) }
  <2>1. numbers \in SUBSET (0 .. 34) /\ numbers # {} /\ BestSaid(ds) = Max(numbers)
    <3>1. BestSaid(ds) = Max(numbers)
      BY <1>3 DEF BestSaid
    <3>2. numbers # {}
      BY <1>3
    <3>3. numbers \in SUBSET (0 .. 34)
      BY <1>1
    <3>4. QED
      BY <3>1, <3>2, <3>3
  <2>2. PICK d \in Said(ds) : d.points = BestSaid(ds)
    <3> HIDE DEF numbers
    <3>1. Max(numbers) \in numbers
      BY <2>1, MaxIs
    <3>2. QED
      BY <2>1, <3>1 DEF numbers
  <2>3. S # {}
    BY <1>1, <2>2 DEF Said
  <2>4. S \in SUBSET Nat /\ S \subseteq DOMAIN ds
    OBVIOUS
  <2>5. Ahead(ds) = Team(ds[Min(S)].seat)
    BY <1>3 DEF Ahead
  <2> HIDE DEF S
  <2>6. PICK i \in DOMAIN ds : i = Min(S)
    BY <2>3, <2>4, MinIs
  <2>7. ds[i] \in WordsAt(0 .. n - 1)
    OBVIOUS
  <2>8. ds[i].seat \in 0 .. n - 1
    BY <2>7 DEF WordsAt
  <2>9. QED
    BY <2>3, <2>5, <2>6, <2>8 DEF S, Team, Teams, Outcomes
<1>4. QED
  BY <1>2, <1>3

\* A seat that says "son buenas" changes nothing of who is ahead.
LEMMA AheadSkips ==
  ASSUME NEW n \in {2, 4}, NEW ds \in Seq(WordsAt(0 .. n - 1)),
         NEW word \in WordsAt(0 .. n - 1), word.how # "points"
  PROVE  Said(Append(ds, word)) = Said(ds) /\ Ahead(Append(ds, word)) = Ahead(ds)
<1>1. PICK es : es = Append(ds, word)
  OBVIOUS
<1>2. PICK k \in Nat : k = Len(ds) /\ DOMAIN ds = 1 .. k
  OBVIOUS
<1>3. /\ DOMAIN es = 1 .. k + 1 /\ es[k + 1] = word /\ \A i \in 1 .. k : es[i] = ds[i]
      /\ Range(es) = Range(ds) \cup {word}
  BY <1>1, <1>2, RangeOfAppend
<1>4. Said(es) = Said(ds)
  BY <1>3 DEF Said
<1>5. BestSaid(es) = BestSaid(ds)
  BY <1>4 DEF BestSaid
<1> DEFINE S(l) == { i \in DOMAIN l : l[i].how = "points" /\ l[i].points = BestSaid(ds) }
<1>6. S(es) = S(ds)
  BY <1>2, <1>3
<1>7. CASE Said(ds) = {}
  BY <1>1, <1>4, <1>7 DEF Ahead
<1>8. CASE Said(ds) # {}
  <2>1. Ahead(es) = Team(es[Min(S(es))].seat) /\ Ahead(ds) = Team(ds[Min(S(ds))].seat)
    BY <1>4, <1>5, <1>8 DEF Ahead
  <2>2. S(ds) \in SUBSET Nat /\ S(ds) \subseteq 1 .. k /\ S(ds) # {}
    <3>1. \E i \in DOMAIN ds : ds[i].how = "points" /\ ds[i].points = BestSaid(ds)
      BY <1>8, AheadIs
    <3>2. QED
      BY <1>2, <3>1
  <2> HIDE DEF S
  <2>3. Min(S(ds)) \in 1 .. k
    BY <2>2, MinIs
  <2>4. QED
    BY <1>1, <1>3, <1>4, <1>6, <2>1, <2>3
<1>9. QED
  BY <1>7, <1>8

-----------------------------------------------------------------------------
(* The hand on the table: what it is made of, who it is decided for, and the *)
(* cards the numbers were counted on.                                        *)

EnvidoRecords(seats) ==
  {None} \cup [status : {"pending"}, team : Teams, calls : Seq(1 .. 4)]
  \cup [status : {"accepted"}, said : Seq(WordsAt(seats)), value : Nat]
  \cup [status : {"declined"}]
  \cup [status : {"revealed"}, team : Teams, said : Seq(WordsAt(seats))]

SeatsOK ==
  /\ seatCount \in TrucoTables /\ dealer \in TrucoSeats /\ turn \in TrucoSeats
  /\ hands \in [TrucoSeats -> SUBSET Cards]
  /\ plays \in PlaysAt(TrucoSeats) /\ Len(plays) < seatCount
  /\ spent \in [TrucoSeats -> 0 .. SenaBudget]

ScoreOK == score \in [Teams -> Nat]

\* Unless a truco was turned down, a hand stands where its tricks have put it.
TricksOK ==
  /\ dealt \in BOOLEAN /\ won \in Outcomes
  /\ tricks \in Seq(Outcomes) /\ Len(tricks) <= 3
  /\ dealt /\ truco.status # "declined" => won = HandWinner(tricks, Team(mano))

\* An envido is argued over the first trick of a hand that is on the table.
EnvidoOK ==
  /\ envido \in EnvidoRecords(TrucoSeats)
  /\ envido.status # "none" => dealt
  /\ EnvidoOpen => tricks = <<>>
  /\ BestNumberWins

\* Until the first trick closes, the cards held and played are the ones dealt; what was
\* said of them was counted on all of them.
AsDealt(deal) ==
  /\ \A s \in TrucoSeats : hands[s] \subseteq deal[s] /\ (tricks = <<>> => DealtTo(s) = deal[s])
  /\ \A d \in Said(Declarations) : d.points = EnvidoPoints(deal[d.seat])
DealOK == dealt => \E deal \in TrucoDeals(seatCount) : AsDealt(deal)

HandInv == TrucoIInv /\ SeatsOK /\ ScoreOK /\ TricksOK /\ EnvidoOK /\ DealOK

LEMMA RoundTheTable ==
  ASSUME SeatsOK
  PROVE  /\ seatCount \in {2, 4} /\ mano \in TrucoSeats /\ Team(mano) \in Teams
         /\ \A s \in TrucoSeats : After(s) \in TrucoSeats
<1>1. seatCount \in {2, 4}
  BY TrucoAssumption DEF SeatsOK
<1>2. \A s \in TrucoSeats : After(s) \in TrucoSeats
  BY <1>1 DEF After, TrucoSeats
<1>3. mano \in TrucoSeats
  BY <1>2 DEF SeatsOK, mano
<1>4. QED
  BY <1>1, <1>2, <1>3, TeamOfSeat

LEMMA SumIs == \A ls : SumValue(ls) \in 0 .. 7
<1> SUFFICES ASSUME NEW ls PROVE SumValue(ls) \in 0 .. 7
  OBVIOUS
<1> DEFINE named(l) == IF l \in Range(ls) THEN CallValue(l) ELSE 0
<1>1. named(1) \in {0, 2} /\ named(2) \in {0, 2} /\ named(3) \in {0, 3}
  BY DEF CallValue
<1>2. SumValue(ls) = named(1) + named(2) + named(3)
  BY DEF SumValue
<1> HIDE DEF named
<1>3. QED
  BY <1>1, <1>2

LEMMA DeclineIs == \A ls : EnvidoDeclineValue(ls) \in Nat
<1> SUFFICES ASSUME NEW ls PROVE EnvidoDeclineValue(ls) \in Nat
  OBVIOUS
<1>1. PICK n \in 0 .. 7 : n = SumValue(Front(ls))
  BY SumIs
<1>2. {1, n} \in SUBSET (0 .. 7) /\ {1, n} # {}
  OBVIOUS
<1>3. Max({1, n}) \in {1, n}
  BY <1>2, MaxIs
<1>4. QED
  BY <1>1, <1>3 DEF EnvidoDeclineValue

\* Falta envido is worth something while the match is on.
LEMMA AcceptIs ==
  ASSUME HandOn, ScoreOK, NEW ls
  PROVE  EnvidoAcceptedValue(ls) \in Nat
<1>1. PICK a \in Nat, b \in Nat : a = score[0] /\ b = score[1]
  BY DEF ScoreOK, Teams
<1>2. PointsToWin \in Nat /\ a < PointsToWin /\ b < PointsToWin
  BY <1>1, NobodyThereYet, TrucoAssumption DEF Teams
<1>3. a + b \in Nat /\ {a, b} \in SUBSET (0 .. a + b) /\ {a, b} # {}
  OBVIOUS
<1>4. Max({a, b}) \in {a, b}
  BY <1>3, MaxIs
<1>5. FaltaValue \in Nat
  BY <1>1, <1>2, <1>4 DEF FaltaValue
<1>6. SumValue(ls) \in Nat
  BY SumIs
<1>7. QED
  BY <1>5, <1>6 DEF EnvidoAcceptedValue

LEMMA AwardIs ==
  ASSUME ScoreOK, NEW t \in Teams, NEW n \in Nat, Award(t, n)
  PROVE  ScoreOK'
BY DEF ScoreOK, Award

LEMMA HandInitInv == TrucoInit => HandInv
<1> SUFFICES ASSUME TrucoInit PROVE HandInv
  OBVIOUS
<1>0. seatCount \in {2, 4} /\ 0 \in TrucoSeats
  BY TrucoAssumption DEF TrucoInit, TrucoSeats
<1>1. SeatsOK
  BY <1>0, TrucoAssumption DEF TrucoInit, SeatsOK, PlaysAt
<1>2. ScoreOK
  BY DEF TrucoInit, ScoreOK
<1>3. TricksOK
  <2>1. <<>> \in Seq(Outcomes) /\ Len(<<>>) = 0 /\ NoTeam \in Outcomes
    BY DEF Outcomes
  <2>2. tricks = <<>> /\ won = NoTeam /\ dealt = FALSE
    BY DEF TrucoInit
  <2>3. PICK n \in Nat : n = Len(tricks) /\ n <= 3
    BY <2>1, <2>2
  <2>4. QED
    BY <2>1, <2>2, <2>3 DEF TricksOK
<1>4. EnvidoOK
  BY DEF TrucoInit, EnvidoOK, EnvidoRecords, EnvidoOpen, BestNumberWins, None
<1>5. DealOK
  BY DEF TrucoInit, DealOK
<1>6. QED
  BY <1>1, <1>2, <1>3, <1>4, <1>5, TrucoInitInv DEF HandInv

LEMMA StartKeeps ==
  ASSUME HandInv, NEW deal \in TrucoDeals(seatCount), StartHand(deal)
  PROVE  SeatsOK' /\ ScoreOK' /\ TricksOK' /\ EnvidoOK' /\ DealOK'
<1>0. seatCount' = seatCount /\ TrucoSeats' = TrucoSeats
  BY DEF StartHand, TrucoSeats
<1>1. dealer' \in TrucoSeats
  BY RoundTheTable DEF StartHand, HandInv, SeatsOK
<1>2. deal \in [TrucoSeats -> SUBSET Cards]
  BY TrucoAssumption DEF HandInv, SeatsOK, TrucoSeats
<1>3. SeatsOK'
  <2>1. turn' \in TrucoSeats
    BY <1>1, RoundTheTable DEF StartHand, HandInv
  <2>2. plays' \in PlaysAt(TrucoSeats) /\ Len(plays') < seatCount
    BY RoundTheTable DEF StartHand, PlaysAt, HandInv
  <2>3. spent' \in [TrucoSeats -> 0 .. SenaBudget]
    BY TrucoAssumption DEF StartHand
  <2>4. QED
    BY <1>0, <1>1, <1>2, <2>1, <2>2, <2>3 DEF SeatsOK, StartHand, HandInv
<1>4. ScoreOK'
  BY DEF StartHand, ScoreOK, HandInv
<1>5. TricksOK'
  BY DEF StartHand, TricksOK, HandWinner, Outcomes
<1>6. EnvidoOK'
  BY DEF StartHand, EnvidoOK, EnvidoRecords, EnvidoOpen, BestNumberWins, None
<1>7. DealOK'
  <2>1. ASSUME NEW s \in TrucoSeats PROVE hands'[s] = deal[s] /\ DealtTo(s)' = deal[s]
    BY DEF StartHand, DealtTo, Range
  <2>2. Said(Declarations)' = {}
    BY DEF StartHand, Said, Declarations, None, Range
  <2>3. AsDealt(deal)'
    BY <1>0, <2>1, <2>2 DEF AsDealt
  <2>4. QED
    BY <1>0, <2>3 DEF DealOK
<1>8. QED
  BY <1>3, <1>4, <1>5, <1>6, <1>7

\* Nothing of the hand but the argument over its worth is touched by calling it.
LEMMA CallsKeep ==
  ASSUME HandInv, NEW s \in TrucoSeats,
         CallTruco(s) \/ \E yes \in BOOLEAN : AnswerTruco(s, yes)
  PROVE  SeatsOK' /\ ScoreOK' /\ TricksOK' /\ EnvidoOK' /\ DealOK'
<1>1. UNCHANGED <<seatCount, dealer, dealt, hands, turn, plays, tricks, envido, spent>>
  BY DEF CallTruco, AnswerTruco, cards
<1>2. SeatsOK'
  BY <1>1 DEF HandInv, SeatsOK, TrucoSeats
<1>3. ScoreOK'
  <2>1. CASE UNCHANGED score
    BY <2>1 DEF HandInv, ScoreOK
  <2>2. CASE \E yes \in BOOLEAN : AnswerTruco(s, yes) /\ ~yes
    <3>1. truco.team \in Teams /\ truco.level \in 1 .. 3
      BY <2>2 DEF AnswerTruco, MayAnswerTruco, HandInv, TrucoIInv, ChainOK, TrucoRecords, None
    <3>2. Award(truco.team, DeclineValue(truco.level)) /\ DeclineValue(truco.level) \in Nat
      BY <2>2, <3>1 DEF AnswerTruco, DeclineValue
    <3>3. QED
      BY <3>1, <3>2, AwardIs DEF HandInv
  <2>3. QED
    BY <2>1, <2>2 DEF CallTruco, AnswerTruco
<1>4. TricksOK'
  <2>1. mano' = mano
    BY <1>1 DEF mano, After
  <2>2. truco.status # "declined" /\ HandOn
    BY DEF CallTruco, MayCallTruco, AnswerTruco, MayAnswerTruco
  <2>3. CASE won' = won
    BY <1>1, <2>1, <2>2, <2>3 DEF HandInv, TricksOK
  <2>4. CASE truco'.status = "declined" /\ won' = truco.team
    <3>1. truco.team \in Outcomes
      BY <2>4 DEF CallTruco, AnswerTruco, MayAnswerTruco, HandInv, TrucoIInv, ChainOK,
                  TrucoRecords, None, Outcomes
    <3>2. QED
      BY <1>1, <2>4, <3>1 DEF HandInv, TricksOK
  <2>5. QED
    BY <2>3, <2>4 DEF CallTruco, AnswerTruco, MayAnswerTruco, HandInv, TrucoIInv, ChainOK,
                      TrucoRecords, None
<1>5. EnvidoOK'
  BY <1>1 DEF HandInv, EnvidoOK, EnvidoOpen, BestNumberWins, TrucoSeats
<1>6. DealOK'
  <2>1. \A deal : AsDealt(deal) => AsDealt(deal)'
    BY <1>1 DEF AsDealt, DealtTo, Declarations, TrucoSeats
  <2>2. QED
    BY <1>1, <2>1 DEF HandInv, DealOK
<1>7. QED
  BY <1>2, <1>3, <1>4, <1>5, <1>6

LEMMA EnvidoCallsKeep ==
  ASSUME HandInv, NEW s \in TrucoSeats,
         (\E l \in 1 .. 4 : CallEnvido(s, l)) \/ \E yes \in BOOLEAN : AnswerEnvido(s, yes)
  PROVE  SeatsOK' /\ ScoreOK' /\ TricksOK' /\ EnvidoOK' /\ DealOK'
<1>1. UNCHANGED <<seatCount, dealer, dealt, hands, turn, plays, tricks, won, truco, spent>>
  BY DEF CallEnvido, AnswerEnvido, cards
<1>2. SeatsOK'
  BY <1>1 DEF HandInv, SeatsOK, TrucoSeats
<1>3. HandOn /\ dealt /\ tricks = <<>> /\ Team(s) \in Teams
  <2>1. HandOn /\ (tricks = <<>> \/ envido.status = "pending")
    BY DEF CallEnvido, MayCallEnvido, MayOpenEnvido, AnswerEnvido, MayAnswerEnvido
  <2>2. Team(s) \in Teams
    BY RoundTheTable, TeamOfSeat DEF HandInv
  <2>3. QED
    BY <2>1, <2>2 DEF HandInv, EnvidoOK, EnvidoOpen, HandOn
<1>4. ScoreOK'
  <2>1. CASE UNCHANGED score
    BY <2>1 DEF HandInv, ScoreOK
  <2>2. CASE \E yes \in BOOLEAN : AnswerEnvido(s, yes) /\ ~yes
    <3>1. envido.team \in Teams
      BY <2>2 DEF AnswerEnvido, MayAnswerEnvido, HandInv, EnvidoOK, EnvidoRecords, None
    <3>2. Award(envido.team, EnvidoDeclineValue(envido.calls))
      BY <2>2 DEF AnswerEnvido
    <3>3. QED
      BY <3>1, <3>2, DeclineIs, AwardIs DEF HandInv
  <2>3. QED
    BY <2>1, <2>2 DEF CallEnvido, AnswerEnvido
<1>5. TricksOK'
  BY <1>1 DEF HandInv, TricksOK, mano, After
<1>6. envido' \in EnvidoRecords(TrucoSeats)
        /\ envido'.status \in {"pending", "accepted", "declined"}
        /\ (envido'.status = "accepted" => envido'.said = <<>>)
  <2>1. ASSUME NEW l \in 1 .. 4, CallEnvido(s, l), envido.status = "none"
        PROVE  envido' \in EnvidoRecords(TrucoSeats) /\ envido'.status = "pending"
    <3>1. <<l>> \in Seq(1 .. 4)
      OBVIOUS
    <3>2. QED
      BY <1>3, <2>1, <3>1 DEF CallEnvido, EnvidoRecords
  <2>2. ASSUME NEW l \in 1 .. 4, CallEnvido(s, l), envido.status # "none"
        PROVE  envido' \in EnvidoRecords(TrucoSeats) /\ envido'.status = "pending"
    <3>1. envido.status = "pending"
      BY <2>2 DEF CallEnvido, MayCallEnvido
    <3>2. envido.calls \in Seq(1 .. 4)
      BY <3>1 DEF HandInv, EnvidoOK, EnvidoRecords, None
    <3>3. Append(envido.calls, l) \in Seq(1 .. 4)
      BY <3>2
    <3>4. QED
      BY <1>3, <2>2, <3>3 DEF CallEnvido, EnvidoRecords
  <2>3. ASSUME NEW yes \in BOOLEAN, AnswerEnvido(s, yes), yes
        PROVE  /\ envido' \in EnvidoRecords(TrucoSeats) /\ envido'.status = "accepted"
               /\ envido'.said = <<>>
    <3>1. EnvidoAcceptedValue(envido.calls) \in Nat
      BY <1>3, AcceptIs DEF HandInv
    <3>2. <<>> \in Seq(WordsAt(TrucoSeats))
      OBVIOUS
    <3>3. PICK v \in Nat, none \in Seq(WordsAt(TrucoSeats)) :
            v = EnvidoAcceptedValue(envido.calls) /\ none = <<>>
      BY <3>1, <3>2
    <3>4. envido' = [status |-> "accepted", said |-> none, value |-> v]
      BY <2>3, <3>3 DEF AnswerEnvido
    <3>5. QED
      BY <3>3, <3>4 DEF EnvidoRecords
  <2>4. ASSUME NEW yes \in BOOLEAN, AnswerEnvido(s, yes), ~yes
        PROVE  envido' \in EnvidoRecords(TrucoSeats) /\ envido'.status = "declined"
    BY <2>4 DEF AnswerEnvido, EnvidoRecords
  <2>5. QED
    BY <2>1, <2>2, <2>3, <2>4
<1>7. EnvidoOK'
  <2>1. TrucoSeats' = TrucoSeats
    BY <1>1 DEF TrucoSeats
  <2>2. BestNumberWins'
    BY <1>6 DEF BestNumberWins
  <2>3. QED
    BY <1>1, <1>3, <1>6, <2>1, <2>2 DEF EnvidoOK
<1>8. DealOK'
  <2>1. Said(Declarations') = {}
    BY <1>6 DEF Said, Declarations, Range
  <2>2. \A deal : AsDealt(deal) => AsDealt(deal)'
    BY <1>1, <2>1 DEF AsDealt, DealtTo, TrucoSeats
  <2>3. QED
    BY <1>1, <2>2 DEF HandInv, DealOK
<1>9. QED
  BY <1>2, <1>4, <1>5, <1>7, <1>8

LEMMA DeclareKeeps ==
  ASSUME HandInv, NEW s \in TrucoSeats, NEW how \in {"points", "sonBuenas"}, Declare(s, how)
  PROVE  SeatsOK' /\ ScoreOK' /\ TricksOK' /\ EnvidoOK' /\ DealOK'
<1>1. UNCHANGED <<seatCount, dealer, dealt, hands, turn, plays, tricks, won, truco, spent>>
  BY DEF Declare, cards
<1>2. SeatsOK'
  BY <1>1 DEF HandInv, SeatsOK, TrucoSeats
<1>3. TricksOK'
  BY <1>1 DEF HandInv, TricksOK, mano, After
<1>4. /\ HandOn /\ dealt /\ tricks = <<>> /\ envido.status = "accepted"
      /\ seatCount \in {2, 4} /\ Team(s) \in Teams /\ Rival(Team(s)) \in Teams
      /\ TrucoSeats = 0 .. seatCount - 1
  <2>1. HandOn /\ envido.status = "accepted"
    BY DEF Declare, MayDeclare
  <2>2. dealt /\ tricks = <<>>
    BY <2>1 DEF HandInv, EnvidoOK, EnvidoOpen
  <2>3. seatCount \in {2, 4} /\ Team(s) \in Teams /\ Rival(Team(s)) \in Teams
    BY RoundTheTable, TeamOfSeat DEF HandInv, Teams, Rival
  <2>4. QED
    BY <2>1, <2>2, <2>3 DEF TrucoSeats
<1>5. PICK ds \in Seq(WordsAt(TrucoSeats)), v \in Nat :
        envido = [status |-> "accepted", said |-> ds, value |-> v]
  <2>1. envido \in [status : {"accepted"}, said : Seq(WordsAt(TrucoSeats)), value : Nat]
    BY <1>4 DEF HandInv, EnvidoOK, EnvidoRecords, None
  <2>2. envido = [status |-> "accepted", said |-> envido.said, value |-> envido.value]
          /\ envido.said \in Seq(WordsAt(TrucoSeats)) /\ envido.value \in Nat
    BY <2>1
  <2>3. QED
    BY <2>2
<1>6. PICK deal \in TrucoDeals(seatCount) : AsDealt(deal)
  BY <1>4 DEF HandInv, DealOK
<1>7. DealtTo(s) = deal[s] /\ deal[s] \in SUBSET Cards /\ deal[s] # {}
  <2>1. DealtTo(s) = deal[s]
    BY <1>4, <1>6 DEF AsDealt
  <2>2. deal[s] \in SUBSET Cards /\ Cardinality(deal[s]) = 3
    BY <1>4, TrucoAssumption DEF HandInv, SeatsOK
  <2>3. deal[s] # {}
    <3>1. Cardinality({}) = 0
      BY FS_EmptySet
    <3>2. ASSUME deal[s] = {} PROVE Cardinality(deal[s]) = 0
      BY <3>1, <3>2, Zenon
    <3>3. QED
      BY <2>2, <3>2
  <2>4. QED
    BY <2>1, <2>2, <2>3
<1> DEFINE word == IF how = "points"
                     THEN [seat |-> s, how |-> how, points |-> EnvidoPoints(DealtTo(s))]
                     ELSE [seat |-> s, how |-> how]
           team == IF how = "sonBuenas" THEN Rival(Team(s)) ELSE Ahead(Append(ds, word))
<1>8. PICK w \in WordsAt(TrucoSeats) :
        /\ w = word /\ w.how = how /\ w.seat = s
        /\ how = "points" => w.points = EnvidoPoints(deal[s])
  <2>1. EnvidoPoints(deal[s]) \in 0 .. 34
    BY <1>7, EnvidoPointsIs
  <2>2. word \in WordsAt(TrucoSeats)
    BY <1>7, <2>1 DEF WordsAt
  <2>3. QED
    BY <1>7, <2>2
<1>9. PICK es \in Seq(WordsAt(TrucoSeats)) :
        es = Append(ds, w) /\ es # <<>> /\ Range(es) = Range(ds) \cup {w}
  <2>1. /\ Append(ds, w) \in Seq(WordsAt(TrucoSeats)) /\ Append(ds, w) # <<>>
        /\ Range(Append(ds, w)) = Range(ds) \cup {w}
    BY <1>5, <1>8, RangeOfAppend
  <2>2. QED
    BY <2>1
<1>10. PICK t \in Teams : t = team /\ (Said(es) # {} => t = Ahead(es))
  <2>1. CASE how = "points"
    <3>1. w \in Said(es)
      BY <1>8, <1>9, <2>1 DEF Said
    <3>2. Ahead(es) \in Teams
      BY <1>4, <1>9, <3>1, AheadIs
    <3>3. QED
      BY <1>8, <1>9, <2>1, <3>2
  <2>2. CASE how = "sonBuenas"
    <3>1. Said(es) = Said(ds) /\ Ahead(es) = Ahead(ds)
      BY <1>4, <1>5, <1>8, <1>9, <2>2, AheadSkips
    <3>2. Ahead(ds) # Team(s)
      BY <1>5, <2>2 DEF Declare, MayDeclare
    <3>3. Said(ds) # {} => Ahead(ds) \in Teams
      BY <1>4, <1>5, AheadIs
    <3>4. Said(es) # {} => Rival(Team(s)) = Ahead(es)
      BY <1>4, <3>1, <3>2, <3>3 DEF Teams, Rival
    <3>5. QED
      BY <1>4, <2>2, <3>4
  <2>3. QED
    BY <2>1, <2>2
<1> HIDE DEF word, team
<1>11. \/ envido' = [status |-> "accepted", said |-> es, value |-> v] /\ UNCHANGED score
       \/ envido' = [status |-> "revealed", team |-> t, said |-> es] /\ Award(t, v)
  BY <1>5, <1>8, <1>9, <1>10 DEF Declare, word, team
<1>12. ScoreOK'
  BY <1>11, AwardIs DEF HandInv, ScoreOK
<1>13. EnvidoOK'
  <2>1. envido' \in EnvidoRecords(TrucoSeats)
    BY <1>11 DEF EnvidoRecords
  <2>2. BestNumberWins'
    BY <1>10, <1>11 DEF BestNumberWins
  <2>3. TrucoSeats' = TrucoSeats
    BY <1>1 DEF TrucoSeats
  <2>4. QED
    BY <1>1, <1>4, <2>1, <2>2, <2>3 DEF EnvidoOK
<1>14. DealOK'
  <2>1. Declarations' = es /\ Declarations = ds
    BY <1>5, <1>11 DEF Declarations
  <2>2. \A d \in Said(es) : d.points = EnvidoPoints(deal[d.seat])
    <3>1. \A d \in Said(ds) : d.points = EnvidoPoints(deal[d.seat])
      BY <1>6, <2>1 DEF AsDealt
    <3>2. ASSUME NEW d \in Said(es) PROVE d \in Said(ds) \/ (d = w /\ how = "points")
      <4>1. d \in Range(ds) \cup {w} /\ d.how = "points"
        BY <1>9 DEF Said
      <4>2. QED
        BY <1>8, <4>1 DEF Said
    <3>3. QED
      BY <1>8, <3>1, <3>2
  <2>3. Said(Declarations)' = Said(es)
    BY <2>1 DEF Said
  <2>4. AsDealt(deal)'
    BY <1>1, <1>6, <2>2, <2>3 DEF AsDealt, DealtTo, TrucoSeats
  <2>5. QED
    BY <1>1, <2>4 DEF DealOK
<1>15. QED
  BY <1>2, <1>3, <1>12, <1>13, <1>14

LEMMA PlayKeeps ==
  ASSUME HandInv, NEW s \in TrucoSeats, NEW c \in hands[s], PlayCard(s, c)
  PROVE  SeatsOK' /\ ScoreOK' /\ TricksOK' /\ EnvidoOK' /\ DealOK'
<1>1. UNCHANGED <<seatCount, dealer, dealt, truco, envido, spent>> /\ TrucoSeats' = TrucoSeats
  BY DEF PlayCard, calls, TrucoSeats
<1>2. HandOn /\ dealt /\ won = NoTeam /\ ~EnvidoOpen
        /\ truco.status \in {"none", "accepted"}
  BY DEF PlayCard, MayPlay, HandOn, HandInv, TrucoIInv, ChainOK, TrucoRecords, None
<1>3. seatCount \in {2, 4} /\ TrucoSeats = 0 .. seatCount - 1 /\ Team(mano) \in Teams
        /\ After(s) \in TrucoSeats
  BY RoundTheTable DEF HandInv, TrucoSeats
<1>4. hands' = [hands EXCEPT ![s] = hands[s] \ {c}] /\ hands[s] \in SUBSET Cards
  BY DEF PlayCard, HandInv, SeatsOK
<1> DEFINE play == [seat |-> s, card |-> c]
<1>5. PICK ps \in PlaysAt(TrucoSeats) :
        /\ ps = Append(plays, play) /\ ps # <<>> /\ Range(ps) = Range(plays) \cup {play}
        /\ Len(ps) = Len(plays) + 1
  <2>1. play \in PlayAt(TrucoSeats)
    BY <1>4 DEF PlayAt
  <2>2. plays \in Seq(PlayAt(TrucoSeats))
    BY DEF HandInv, SeatsOK, PlaysAt
  <2> HIDE DEF play
  <2>3. /\ Append(plays, play) \in Seq(PlayAt(TrucoSeats)) /\ Append(plays, play) # <<>>
        /\ Range(Append(plays, play)) = Range(plays) \cup {play}
        /\ Len(Append(plays, play)) = Len(plays) + 1
    BY <2>1, <2>2, RangeOfAppend
  <2>4. QED
    BY <2>3 DEF PlaysAt
<1>6. \/ Len(ps) < seatCount /\ plays' = ps /\ turn' = After(s) /\ UNCHANGED <<tricks, won, score>>
      \/ CloseTrick(ps)
  BY <1>5 DEF PlayCard
<1>7. TrickWinner(ps) \in Outcomes /\ Leader(ps) \in TrucoSeats
  BY <1>5, LeaderSits
<1>8. PICK ts \in Seq(Outcomes) :
        ts = Append(tricks, TrickWinner(ps)) /\ ts # <<>> /\ Len(ts) <= 3
  <2>1. tricks \in Seq(Outcomes) /\ Len(tricks) <= 3 /\ HandWinner(tricks, Team(mano)) = NoTeam
    BY <1>2 DEF HandInv, TricksOK
  <2>2. Len(tricks) # 3
    BY <1>3, <2>1, DecidedEarly
  <2>3. PICK n \in Nat : n = Len(tricks)
    BY <2>1
  <2>4. n + 1 <= 3
    BY <2>1, <2>2, <2>3
  <2>5. PICK ts : ts = Append(tricks, TrickWinner(ps))
    OBVIOUS
  <2>6. ts \in Seq(Outcomes) /\ ts # <<>> /\ Len(ts) = n + 1
    BY <1>7, <2>1, <2>3, <2>5, RangeOfAppend
  <2>7. QED
    BY <2>4, <2>5, <2>6
<1>9. PICK w \in Outcomes : w = HandWinner(ts, Team(mano))
  BY <1>3, <1>8, DecidedEarly
<1>10. CloseTrick(ps) =>
         /\ plays' = <<>> /\ tricks' = ts /\ turn' = Leader(ps) /\ won' = w
         /\ IF w = NoTeam THEN UNCHANGED score ELSE Award(w, HandValue)
  BY <1>8, <1>9 DEF CloseTrick
<1>11. SeatsOK'
  <2>1. turn' \in TrucoSeats
    BY <1>3, <1>6, <1>7, <1>10
  <2>2. hands' \in [TrucoSeats -> SUBSET Cards]
    BY <1>4 DEF HandInv, SeatsOK
  <2>3. plays' \in PlaysAt(TrucoSeats) /\ Len(plays') < seatCount
    <3>1. CASE CloseTrick(ps)
      BY <1>3, <1>10, <3>1 DEF PlaysAt
    <3>2. CASE Len(ps) < seatCount /\ plays' = ps
      BY <1>5, <3>2
    <3>3. QED
      BY <1>6, <3>1, <3>2
  <2>4. QED
    BY <1>1, <2>1, <2>2, <2>3 DEF HandInv, SeatsOK
<1>12. ScoreOK'
  <2>1. CASE UNCHANGED score
    BY <2>1 DEF HandInv, ScoreOK
  <2>2. CASE CloseTrick(ps) /\ w # NoTeam
    <3>1. HandValue \in Nat
      BY <1>2 DEF HandValue, AcceptedValue, HandInv, TrucoIInv, ChainOK, TrucoRecords, None
    <3>2. w \in Teams /\ Award(w, HandValue)
      BY <1>10, <2>2 DEF Outcomes
    <3>3. QED
      BY <3>1, <3>2, AwardIs DEF HandInv
  <2>3. QED
    BY <1>6, <1>10, <2>1, <2>2
<1>13. TricksOK'
  <2>1. mano' = mano
    BY <1>1 DEF mano, After
  <2>2. CASE CloseTrick(ps)
    BY <1>1, <1>8, <1>9, <1>10, <2>1, <2>2 DEF HandInv, TricksOK
  <2>3. CASE UNCHANGED <<tricks, won>>
    BY <1>1, <2>1, <2>3 DEF HandInv, TricksOK
  <2>4. QED
    BY <1>6, <2>2, <2>3
<1>14. EnvidoOK'
  BY <1>1, <1>2 DEF HandInv, EnvidoOK, EnvidoOpen, BestNumberWins
<1>15. DealOK'
  <2>1. PICK deal \in TrucoDeals(seatCount) : AsDealt(deal)
    BY <1>2 DEF HandInv, DealOK
  <2>2. ASSUME NEW u \in TrucoSeats, tricks' = <<>> PROVE DealtTo(u)' = deal[u]
    <3>1. plays' = ps /\ tricks = <<>>
      BY <1>6, <1>8, <1>10, <2>2
    <3>2. DealtTo(u)' = hands'[u] \cup { p.card : p \in { q \in Range(ps) : q.seat = u } }
      BY <3>1 DEF DealtTo
    <3>3. DealtTo(u) = deal[u]
      BY <2>1, <3>1 DEF AsDealt
    <3>4. CASE u = s
      <4>1. hands'[u] = hands[u] \ {c}
        BY <1>4, <3>4 DEF HandInv, SeatsOK
      <4>2. { p.card : p \in { q \in Range(ps) : q.seat = u } }
              = { p.card : p \in { q \in Range(plays) : q.seat = u } } \cup {c}
        BY <1>5, <3>4
      <4>3. QED
        BY <3>2, <3>3, <3>4, <4>1, <4>2 DEF DealtTo
    <3>5. CASE u # s
      <4>1. hands'[u] = hands[u]
        BY <1>4, <3>5 DEF HandInv, SeatsOK
      <4>2. { q \in Range(ps) : q.seat = u } = { q \in Range(plays) : q.seat = u }
        BY <1>5, <3>5
      <4>3. QED
        BY <3>2, <3>3, <4>1, <4>2 DEF DealtTo
    <3>6. QED
      BY <3>4, <3>5
  <2>3. \A u \in TrucoSeats : hands'[u] \subseteq deal[u]
    BY <1>4, <2>1 DEF AsDealt, HandInv, SeatsOK
  <2>4. Said(Declarations)' = Said(Declarations)
    BY <1>1 DEF Said, Declarations
  <2>5. AsDealt(deal)'
    BY <1>1, <2>1, <2>2, <2>3, <2>4 DEF AsDealt
  <2>6. QED
    BY <1>1, <2>5 DEF DealOK
<1>16. QED
  BY <1>11, <1>12, <1>13, <1>14, <1>15

LEMMA HandStepInv == HandInv /\ [TrucoNext]_trucoVars => HandInv'
<1> SUFFICES ASSUME HandInv, [TrucoNext]_trucoVars
             PROVE  SeatsOK' /\ ScoreOK' /\ TricksOK' /\ EnvidoOK' /\ DealOK'
  BY TrucoStepInv DEF HandInv
<1>1. ASSUME NEW deal \in TrucoDeals(seatCount), StartHand(deal)
      PROVE  SeatsOK' /\ ScoreOK' /\ TricksOK' /\ EnvidoOK' /\ DealOK'
  BY <1>1, StartKeeps
<1>2. ASSUME NEW s \in TrucoSeats, CallTruco(s) \/ \E yes \in BOOLEAN : AnswerTruco(s, yes)
      PROVE  SeatsOK' /\ ScoreOK' /\ TricksOK' /\ EnvidoOK' /\ DealOK'
  BY <1>2, CallsKeep
<1>3. ASSUME NEW s \in TrucoSeats,
             (\E l \in 1 .. 4 : CallEnvido(s, l)) \/ \E yes \in BOOLEAN : AnswerEnvido(s, yes)
      PROVE  SeatsOK' /\ ScoreOK' /\ TricksOK' /\ EnvidoOK' /\ DealOK'
  BY <1>3, EnvidoCallsKeep
<1>4. ASSUME NEW s \in TrucoSeats, NEW how \in {"points", "sonBuenas"}, Declare(s, how)
      PROVE  SeatsOK' /\ ScoreOK' /\ TricksOK' /\ EnvidoOK' /\ DealOK'
  BY <1>4, DeclareKeeps
<1>5. ASSUME NEW s \in TrucoSeats, NEW c \in hands[s], PlayCard(s, c)
      PROVE  SeatsOK' /\ ScoreOK' /\ TricksOK' /\ EnvidoOK' /\ DealOK'
  BY <1>5, PlayKeeps
<1>6. ASSUME NEW s \in TrucoSeats, (MaySignal(s) /\ Spend(s)) \/ UNCHANGED trucoVars
      PROVE  SeatsOK' /\ ScoreOK' /\ TricksOK' /\ EnvidoOK' /\ DealOK'
  <2>1. UNCHANGED <<seatCount, score, dealer, dealt, hands, turn, plays, tricks, won, truco, envido>>
    BY <1>6 DEF Spend, trucoVars, cards, calls
  <2>2. spent' \in [TrucoSeats -> 0 .. SenaBudget]
    <3>1. CASE MaySignal(s) /\ Spend(s)
      <4>1. spent[s] + 1 \in 0 .. SenaBudget
        BY <3>1, TrucoAssumption DEF MaySignal, HandInv, SeatsOK
      <4>2. spent' = [spent EXCEPT ![s] = spent[s] + 1]
        BY <3>1 DEF Spend
      <4>3. QED
        BY <4>1, <4>2 DEF HandInv, SeatsOK
    <3>2. CASE UNCHANGED trucoVars
      BY <3>2 DEF trucoVars, HandInv, SeatsOK
    <3>3. QED
      BY <1>6, <3>1, <3>2
  <2>3. SeatsOK'
    BY <2>1, <2>2 DEF HandInv, SeatsOK, TrucoSeats
  <2>4. ScoreOK' /\ TricksOK'
    BY <2>1 DEF HandInv, ScoreOK, TricksOK, mano, After
  <2>5. EnvidoOK'
    BY <2>1 DEF HandInv, EnvidoOK, EnvidoOpen, BestNumberWins, TrucoSeats
  <2>6. DealOK'
    <3>1. \A deal : AsDealt(deal) => AsDealt(deal)'
      BY <2>1 DEF AsDealt, DealtTo, Declarations, TrucoSeats
    <3>2. QED
      BY <2>1, <3>1 DEF HandInv, DealOK
  <2>7. QED
    BY <2>3, <2>4, <2>5, <2>6
<1>7. turn \in TrucoSeats
  BY DEF HandInv, SeatsOK
<1>8. QED
  BY <1>1, <1>2, <1>3, <1>4, <1>5, <1>6, <1>7
     DEF TrucoNext, TrucoMoves, SendSena, ConsultPartner, MayConsult

LEMMA HandInvTypes == HandInv => TrucoTypeOK
<1> SUFFICES ASSUME HandInv PROVE TrucoTypeOK
  OBVIOUS
<1>1. truco.status \in {"none", "pending", "accepted", "declined"}
        /\ (truco.status # "none" => truco.team \in Teams /\ truco.level \in 1 .. 3)
  BY DEF HandInv, TrucoIInv, ChainOK, TrucoRecords, None
<1>2. envido.status \in {"none", "pending", "accepted", "declined", "revealed"}
  BY DEF HandInv, EnvidoOK, EnvidoRecords, None
<1>3. plays \in Seq([seat : TrucoSeats, card : Cards])
  BY DEF HandInv, SeatsOK, PlaysAt, PlayAt
<1>4. QED
  BY <1>1, <1>2, <1>3 DEF TrucoTypeOK, HandInv, SeatsOK, ScoreOK, TricksOK, Outcomes

LEMMA HandInvDecides == HandInv => TricksDecide
<1> SUFFICES ASSUME HandInv, dealt, truco.status # "declined" PROVE TricksDecide
  BY DEF TricksDecide
<1> DEFINE verdicts == { PlayedOut(ts) : ts \in Continuations(tricks) }
<1>1. tricks \in Seq(Outcomes) /\ Len(tricks) <= 3 /\ won = HandWinner(tricks, Team(mano))
        /\ Team(mano) \in Teams
  BY RoundTheTable DEF HandInv, TricksOK
<1>2. /\ verdicts \subseteq Outcomes
      /\ (won # NoTeam => verdicts = {won}) /\ (won = NoTeam => {0, 1} \subseteq verdicts)
  BY <1>1, DecidedEarly
<1> HIDE DEF verdicts
<1>3. CASE won # NoTeam
  <2>1. Cardinality(verdicts) = 1 /\ (CHOOSE w \in verdicts : TRUE) = won
    BY <1>2, <1>3, FS_Singleton
  <2>2. QED
    BY <2>1 DEF verdicts, TricksDecide
<1>4. CASE won = NoTeam
  <2>1. Cardinality(verdicts) # 1
    <3>1. SUFFICES ASSUME Cardinality(verdicts) = 1 PROVE FALSE
      OBVIOUS
    <3>2. -1 \in Int /\ 1 \in Int /\ Outcomes \subseteq -1 .. 1
      BY DEF Outcomes, Teams, NoTeam
    <3>3. IsFiniteSet(verdicts)
      BY <1>2, <3>2, FS_Interval, FS_Subset
    <3>4. QED
      BY <1>2, <1>4, <3>1, <3>3, FS_Singleton
  <2>2. QED
    BY <1>4, <2>1 DEF verdicts, TricksDecide
<1>5. QED
  BY <1>3, <1>4

LEMMA HandInvFair == HandInv => EnvidoIsFair
<1> SUFFICES ASSUME HandInv PROVE EnvidoIsFair
  OBVIOUS
<1>1. BestNumberWins
  BY DEF HandInv, EnvidoOK
<1>2. ASSUME Declarations # <<>> PROVE NumbersAsDealt
  <2>1. dealt
    BY <1>2 DEF HandInv, EnvidoOK, Declarations
  <2>2. PICK deal \in TrucoDeals(seatCount) : AsDealt(deal)
    BY <2>1 DEF HandInv, DealOK
  <2>3. QED
    BY <2>2 DEF AsDealt, NumbersAsDealt
<1>3. QED
  BY <1>1, <1>2 DEF EnvidoIsFair, NumbersAsDealt

\* One side at most ever stands at the target, whatever the target, the deals, the
\* table and the señas allowed: getMatchWinner's "first" team is the only one.
THEOREM TrucoOneWinner == TrucoSpec => []OneWinner
<1>1. TrucoIInv => OneWinner
  BY DEF TrucoIInv
<1>2. QED
  BY <1>1, TrucoInitInv, TrucoStepInv, PTL DEF TrucoSpec

\* A hand pays once, to the side that takes it, what was last accepted or, refused,
\* what it was worth before the call.
THEOREM TrucoHandPaysOnce == TrucoSpec => HandPaysOnce
  BY TrucoInitInv, TrucoStepInv, TrucoStepPays, PTL DEF TrucoSpec, HandPaysOnce

\* Every field keeps its type at every table, with whatever deals: the seat that leads
\* a trick sits at the table, a budget of señas is never overdrawn, and a falta envido
\* is never worth less than nothing.
THEOREM TrucoWellTyped == TrucoSpec => []TrucoTypeOK
  BY HandInitInv, HandStepInv, HandInvTypes, PTL DEF TrucoSpec

\* resolveHandWinner decides a hand as soon as, and no sooner than, no further trick
\* could change who takes it (hand-winner.ts:23-54).
THEOREM TrucoTricksDecide == TrucoSpec => []TricksDecide
  BY HandInitInv, HandStepInv, HandInvDecides, PTL DEF TrucoSpec

\* An envido is won on the numbers as they were dealt, and by the side that said the
\* best of them first.
THEOREM TrucoEnvidoIsFair == TrucoSpec => []EnvidoIsFair
  BY HandInitInv, HandStepInv, HandInvFair, PTL DEF TrucoSpec

-----------------------------------------------------------------------------
(* A call waits for one side, and nobody else goes on until it has answered.  *)

\* Whoever a call waits for, all of that side is waited for.
LEMMA WholeSideIsAsked ==
  ASSUME HandInv, AskedToAnswer # {}
  PROVE  \E t \in Teams : AskedToAnswer = { s \in TrucoSeats : Team(s) = t }
<1>1. PICK s \in TrucoSeats : MayAnswerTruco(s) \/ MayAnswerEnvido(s)
  BY DEF AskedToAnswer
<1>2. seatCount \in {2, 4} /\ \A u \in TrucoSeats : Team(u) \in Teams
  BY RoundTheTable, TeamOfSeat DEF HandInv
<1>3. PICK caller \in Teams :
        /\ \A u : MayAnswerTruco(u) \/ MayAnswerEnvido(u) <=> caller # Team(u)
  <2>1. CASE MayAnswerTruco(s)
    <3>1. truco.team \in Teams
      BY <2>1 DEF HandInv, TrucoIInv, ChainOK, TrucoRecords, None, MayAnswerTruco
    <3>2. \A u : MayAnswerTruco(u) \/ MayAnswerEnvido(u) <=> truco.team # Team(u)
      BY <2>1 DEF MayAnswerTruco, MayAnswerEnvido, EnvidoOpen
    <3>3. QED
      BY <3>1, <3>2
  <2>2. CASE MayAnswerEnvido(s)
    <3>1. envido.team \in Teams
      BY <2>2 DEF HandInv, EnvidoOK, EnvidoRecords, None, MayAnswerEnvido
    <3>2. \A u : MayAnswerTruco(u) \/ MayAnswerEnvido(u) <=> envido.team # Team(u)
      BY <2>2 DEF MayAnswerTruco, MayAnswerEnvido, EnvidoOpen
    <3>3. QED
      BY <3>1, <3>2
  <2>3. QED
    BY <1>1, <2>1, <2>2
<1>4. AskedToAnswer = { u \in TrucoSeats : caller # Team(u) }
  BY <1>3 DEF AskedToAnswer
<1>5. PICK t \in Teams : \A u \in Teams : caller # u <=> u = t
  BY DEF Teams
<1>6. QED
  BY <1>2, <1>4, <1>5

\* Whoever is not asked only spends señas: the calls stand, and who is asked.
LEMMA OthersOnlySignal ==
  ASSUME AskedToAnswer # {}, [TrucoNext]_trucoVars
  PROVE  \/ UNCHANGED calls /\ AskedToAnswer' = AskedToAnswer
         \/ \E s \in AskedToAnswer :
              \/ \E yes \in BOOLEAN : AnswerTruco(s, yes) \/ AnswerEnvido(s, yes)
              \/ \E l \in 1 .. 4 : CallEnvido(s, l)
<1> DEFINE Goal == \/ UNCHANGED calls /\ AskedToAnswer' = AskedToAnswer
                   \/ \E s \in AskedToAnswer :
                        \/ \E yes \in BOOLEAN : AnswerTruco(s, yes) \/ AnswerEnvido(s, yes)
                        \/ \E l \in 1 .. 4 : CallEnvido(s, l)
<1>1. HandOn /\ ( \/ truco.status = "pending" /\ ~EnvidoOpen
                  \/ envido.status = "pending" )
  BY DEF AskedToAnswer, MayAnswerTruco, MayAnswerEnvido
<1>2. ASSUME UNCHANGED <<seatCount, score, dealt, won, truco, envido>> PROVE Goal
  <2>1. HandOn' = HandOn /\ TrucoSeats' = TrucoSeats /\ EnvidoOpen' = EnvidoOpen
    BY <1>2 DEF HandOn, TrucoOver, MatchWinner, TrucoSeats, EnvidoOpen
  <2>2. AskedToAnswer' = AskedToAnswer
    BY <1>2, <2>1 DEF AskedToAnswer, MayAnswerTruco, MayAnswerEnvido
  <2>3. QED
    BY <1>2, <2>2 DEF calls
<1>3. ASSUME NEW deal, StartHand(deal) PROVE FALSE
  BY <1>1, <1>3 DEF StartHand, SystemDeals, HandOn
<1>4. ASSUME NEW s \in TrucoSeats, CallTruco(s) PROVE FALSE
  BY <1>1, <1>4 DEF CallTruco, MayCallTruco, EnvidoOpen
<1>5. ASSUME NEW s \in TrucoSeats, NEW yes \in BOOLEAN, AnswerTruco(s, yes) \/ AnswerEnvido(s, yes)
      PROVE  Goal
  <2>1. s \in AskedToAnswer
    BY <1>5 DEF AnswerTruco, AnswerEnvido, AskedToAnswer
  <2>2. QED
    BY <1>5, <2>1
<1>6. ASSUME NEW s \in TrucoSeats, NEW l \in 1 .. 4, CallEnvido(s, l) PROVE Goal
  <2>1. s \in AskedToAnswer
    BY <1>1, <1>6
       DEF CallEnvido, MayCallEnvido, MayOpenEnvido, AskedToAnswer, MayAnswerTruco, MayAnswerEnvido, EnvidoOpen
  <2>2. QED
    BY <1>6, <2>1
<1>7. ASSUME NEW s \in TrucoSeats, NEW how, Declare(s, how) PROVE FALSE
  BY <1>1, <1>7 DEF Declare, MayDeclare, EnvidoOpen
<1>8. ASSUME NEW s \in TrucoSeats, NEW c, PlayCard(s, c) PROVE FALSE
  BY <1>1, <1>8 DEF PlayCard, MayPlay, EnvidoOpen
<1>9. ASSUME NEW s \in TrucoSeats, SendSena(s) \/ ConsultPartner(s) PROVE Goal
  BY <1>2, <1>9 DEF SendSena, ConsultPartner, Spend, calls
<1>10. CASE UNCHANGED trucoVars
  BY <1>2, <1>10 DEF trucoVars, calls
<1>11. QED
  BY <1>3, <1>4, <1>5, <1>6, <1>7, <1>8, <1>9, <1>10 DEF TrucoNext, TrucoMoves

\* At every table, whatever is dealt: a call waits for one whole side, and until that
\* side has answered or raised it nobody else moves the calls on, or has a question put
\* to them. It is what match-room.ts:1465 counts on when it holds a bot back.
THEOREM TrucoOnlyTheAskedGoOn == TrucoSpec => OnlyTheAskedGoOn
<1>1. HandInv /\ [TrucoNext]_trucoVars /\ AskedToAnswer # {} =>
        /\ \E t \in Teams : AskedToAnswer = { s \in TrucoSeats : Team(s) = t }
        /\ \/ UNCHANGED calls /\ AskedToAnswer' = AskedToAnswer
           \/ \E s \in AskedToAnswer :
                \/ \E yes \in BOOLEAN : AnswerTruco(s, yes) \/ AnswerEnvido(s, yes)
                \/ \E l \in 1 .. 4 : CallEnvido(s, l)
  BY WholeSideIsAsked, OthersOnlySignal
<1>2. QED
  BY HandInitInv, HandStepInv, <1>1, PTL DEF TrucoSpec, OnlyTheAskedGoOn

-----------------------------------------------------------------------------
(* Truco: whoever's turn it is holds a card to play.                         *)

\* How many seats play before s does in a trick that l leads.
Place(l, s) == (s - l + seatCount) % seatCount

\* With a lead for the trick on the table, every seat has played to the tricks before it,
\* and those ahead of the turn to this one.
CountedFrom(l, h, n, before, tn) ==
  /\ tn = (l + n) % seatCount
  /\ \A s \in TrucoSeats :
       /\ IsFiniteSet(h[s])
       /\ Cardinality(h[s]) = IF Place(l, s) < n THEN 2 - before ELSE 3 - before
CardsInHand ==
  HandOn => \E l \in TrucoSeats : CountedFrom(l, hands, Len(plays), Len(tricks), turn)

TrucoPortInv == HandInv /\ CardsInHand

\* Round the table, from whoever leads.
LEMMA RoundOfTrick ==
  ASSUME seatCount \in {2, 4}, NEW l \in TrucoSeats, NEW n \in Nat, n < seatCount
  PROVE  LET s == (l + n) % seatCount IN
         /\ s \in TrucoSeats /\ Place(l, s) = n /\ After(s) = (l + (n + 1)) % seatCount
         /\ \A u \in TrucoSeats : /\ Place(l, u) \in 0 .. seatCount - 1
                                  /\ Place(l, u) < n + 1 <=> Place(l, u) < n \/ u = s
<1>1. CASE seatCount = 2
  <2>1. TrucoSeats = {0, 1} /\ l \in {0, 1} /\ n \in {0, 1}
    BY <1>1 DEF TrucoSeats
  <2>2. \A u \in {0, 1} : Place(l, u) = IF u >= l THEN u - l ELSE u - l + 2
    BY <1>1, <2>1 DEF Place
  <2>3. \A u \in {0, 1} : After(u) = IF u = 1 THEN 0 ELSE u + 1
    BY <1>1 DEF After
  <2>4. QED
    BY <1>1, <2>1, <2>2, <2>3
<1>2. CASE seatCount = 4
  <2>1. TrucoSeats = {0, 1, 2, 3} /\ l \in {0, 1, 2, 3} /\ n \in {0, 1, 2, 3}
    BY <1>2 DEF TrucoSeats
  <2>2. \A u \in {0, 1, 2, 3} : Place(l, u) = IF u >= l THEN u - l ELSE u - l + 4
    BY <1>2, <2>1 DEF Place
  <2>3. \A u \in {0, 1, 2, 3} : After(u) = IF u = 3 THEN 0 ELSE u + 1
    BY <1>2 DEF After
  <2>4. QED
    BY <1>2, <2>1, <2>2, <2>3
<1>3. QED
  BY <1>1, <1>2

LEMMA FirstOfTrick ==
  ASSUME seatCount \in {2, 4}, NEW l \in TrucoSeats
  PROVE  l = (l + 0) % seatCount /\ \A u \in TrucoSeats : Place(l, u) \in 0 .. seatCount - 1
<1>1. CASE seatCount = 2
  <2>1. TrucoSeats = {0, 1} /\ l \in {0, 1}
    BY <1>1 DEF TrucoSeats
  <2>2. QED
    BY <1>1, <2>1 DEF Place
<1>2. CASE seatCount = 4
  <2>1. TrucoSeats = {0, 1, 2, 3} /\ l \in {0, 1, 2, 3}
    BY <1>2 DEF TrucoSeats
  <2>2. QED
    BY <1>2, <2>1 DEF Place
<1>3. QED
  BY <1>1, <1>2

LEMMA CardsAreFinite == IsFiniteSet(Cards)
<1>1. IsFiniteSet(1 .. 7) /\ IsFiniteSet(10 .. 12)
  <2>1. 1 \in Int /\ 7 \in Int /\ 10 \in Int /\ 12 \in Int
    OBVIOUS
  <2>2. QED
    BY <2>1, FS_Interval
<1>2. IsFiniteSet(Ranks)
  BY <1>1, FS_Union DEF Ranks
<1>3. IsFiniteSet(Suits)
  <2>1. IsFiniteSet({"espada"}) /\ IsFiniteSet({"basto"}) /\ IsFiniteSet({"oro"})
          /\ IsFiniteSet({"copa"})
    BY FS_Singleton
  <2>2. IsFiniteSet({"espada"} \cup {"basto"}) /\ IsFiniteSet({"oro"} \cup {"copa"})
    BY <2>1, FS_Union
  <2>3. IsFiniteSet(({"espada"} \cup {"basto"}) \cup ({"oro"} \cup {"copa"}))
    BY <2>2, FS_Union
  <2>4. Suits = ({"espada"} \cup {"basto"}) \cup ({"oro"} \cup {"copa"})
    BY DEF Suits
  <2>5. QED
    BY <2>3, <2>4
<1>4. QED
  BY <1>2, <1>3, FS_Product DEF Cards

\* A hand that is on is short of its third trick.
LEMMA TricksToGo ==
  ASSUME HandInv, HandOn
  PROVE  Len(tricks) \in 0 .. 2
<1>1. tricks \in Seq(Outcomes) /\ Len(tricks) <= 3 /\ HandWinner(tricks, Team(mano)) = NoTeam
  BY DEF HandInv, TricksOK, TrucoIInv, ChainOK, HandOn
<1>2. Len(tricks) # 3
  BY <1>1, DecidedEarly, RoundTheTable DEF HandInv
<1>3. PICK n \in Nat : n = Len(tricks)
  BY <1>1
<1>4. n \in 0 .. 2
  BY <1>1, <1>2, <1>3
<1>5. QED
  BY <1>3, <1>4

LEMMA PlayCounted ==
  ASSUME HandInv, CardsInHand, NEW s \in TrucoSeats, NEW c \in hands[s], PlayCard(s, c)
  PROVE  CardsInHand'
<1>1. seatCount' = seatCount /\ TrucoSeats' = TrucoSeats /\ seatCount \in {2, 4}
  BY RoundTheTable DEF PlayCard, TrucoSeats, HandInv
<1>2. HandOn /\ turn = s
  BY DEF PlayCard, MayPlay
<1>3. PICK n \in Nat : n = Len(plays) /\ n < seatCount
  <2>1. plays \in Seq(PlayAt(TrucoSeats)) /\ Len(plays) < seatCount
    BY DEF HandInv, SeatsOK, PlaysAt
  <2>2. QED
    BY <2>1
<1>4. PICK b \in 0 .. 2 : b = Len(tricks)
  BY <1>2, TricksToGo
<1>5. PICK l \in TrucoSeats : CountedFrom(l, hands, n, b, s)
  BY <1>2, <1>3, <1>4 DEF CardsInHand
<1>6. /\ Place(l, s) = n /\ After(s) = (l + (n + 1)) % seatCount /\ s = (l + n) % seatCount
      /\ \A u \in TrucoSeats : /\ Place(l, u) \in 0 .. seatCount - 1
                               /\ Place(l, u) < n + 1 <=> Place(l, u) < n \/ u = s
  BY <1>1, <1>3, <1>5, RoundOfTrick DEF CountedFrom
<1>7. PICK h : h = hands' /\ h = [hands EXCEPT ![s] = hands[s] \ {c}]
  BY DEF PlayCard
<1>8. \A u \in TrucoSeats :
        /\ IsFiniteSet(h[u])
        /\ Cardinality(h[u]) = IF Place(l, u) < n + 1 THEN 2 - b ELSE 3 - b
  <2>1. IsFiniteSet(hands[s]) /\ Cardinality(hands[s]) = 3 - b
    BY <1>3, <1>5, <1>6 DEF CountedFrom
  <2>2. IsFiniteSet(hands[s] \ {c}) /\ Cardinality(hands[s] \ {c}) = 3 - b - 1
    BY <2>1, FS_RemoveElement
  <2>3. h[s] = hands[s] \ {c} /\ \A u \in TrucoSeats : u # s => h[u] = hands[u]
    BY <1>7 DEF HandInv, SeatsOK
  <2>4. 3 - b - 1 = 2 - b
    OBVIOUS
  <2>5. IsFiniteSet(h[s]) /\ Cardinality(h[s]) = 2 - b
    BY <2>2, <2>3, <2>4
  <2>6. ASSUME NEW u \in TrucoSeats, u # s
        PROVE  /\ IsFiniteSet(h[u])
               /\ Cardinality(h[u]) = IF Place(l, u) < n + 1 THEN 2 - b ELSE 3 - b
    BY <1>5, <1>6, <2>3, <2>6 DEF CountedFrom
  <2>7. QED
    BY <1>6, <2>5, <2>6
<1>9. PICK ps : ps = Append(plays, [seat |-> s, card |-> c]) /\ Len(ps) = n + 1
  <2>1. plays \in Seq(PlayAt(TrucoSeats)) /\ Len(plays) = n
    BY <1>3 DEF HandInv, SeatsOK, PlaysAt
  <2>2. [seat |-> s, card |-> c] \in PlayAt(TrucoSeats)
    BY DEF PlayAt, HandInv, SeatsOK
  <2>3. PICK play : play = [seat |-> s, card |-> c]
    OBVIOUS
  <2>4. Len(Append(plays, play)) = n + 1
    BY <2>1, <2>2, <2>3, RangeOfAppend
  <2>5. QED
    BY <2>3, <2>4
<1>10. \/ plays' = ps /\ turn' = After(s) /\ tricks' = tricks
       \/ n + 1 >= seatCount /\ CloseTrick(ps)
  BY <1>1, <1>3, <1>9 DEF PlayCard
<1>11. CASE plays' = ps /\ turn' = After(s) /\ tricks' = tricks
  <2>1. CountedFrom(l, h, n + 1, b, After(s))
    BY <1>6, <1>8 DEF CountedFrom
  <2>2. CountedFrom(l, hands', Len(plays'), Len(tricks'), turn')
    BY <1>4, <1>7, <1>9, <1>11, <2>1
  <2>3. CountedFrom(l, hands, Len(plays), Len(tricks), turn)'
          <=> CountedFrom(l, hands', Len(plays'), Len(tricks'), turn')
    BY <1>1 DEF CountedFrom, Place
  <2>4. QED
    BY <1>1, <2>2, <2>3 DEF CardsInHand
<1>12. CASE n + 1 >= seatCount /\ CloseTrick(ps)
  <2>1. PICK w : w = TrickWinner(ps)
    OBVIOUS
  <2>2. plays' = <<>> /\ tricks' = Append(tricks, w) /\ turn' = Leader(ps)
    BY <1>12, <2>1 DEF CloseTrick
  <2>3. PICK m \in TrucoSeats : m = turn'
    BY HandStepInv, <1>1 DEF HandInv, SeatsOK, TrucoNext, TrucoMoves
  <2>4. tricks \in Seq(Outcomes) /\ w \in Outcomes
    BY <2>1 DEF TrickWinner, Outcomes, Teams, HandInv, TricksOK
  <2>5. Len(tricks') = b + 1 /\ Len(plays') = 0
    BY <1>4, <2>2, <2>4, RangeOfAppend
  <2>6. m = (m + 0) % seatCount /\ \A u \in TrucoSeats : Place(m, u) \in 0 .. seatCount - 1
    BY <1>1, <2>3, FirstOfTrick
  <2>7. \A u \in TrucoSeats : IsFiniteSet(h[u]) /\ Cardinality(h[u]) = 2 - b
    BY <1>1, <1>3, <1>6, <1>8, <1>12
  <2>8. 3 - (b + 1) = 2 - b
    OBVIOUS
  <2>9. CountedFrom(m, h, 0, b + 1, m)
    BY <2>6, <2>7, <2>8 DEF CountedFrom
  <2>10. CountedFrom(m, hands', Len(plays'), Len(tricks'), turn')
    BY <1>7, <2>3, <2>5, <2>9
  <2>11. CountedFrom(m, hands, Len(plays), Len(tricks), turn)'
           <=> CountedFrom(m, hands', Len(plays'), Len(tricks'), turn')
    BY <1>1 DEF CountedFrom, Place
  <2>12. QED
    BY <1>1, <2>10, <2>11 DEF CardsInHand
<1>13. QED
  BY <1>10, <1>11, <1>12

LEMMA TrucoPortStep == TrucoPortInv /\ [TrucoNext]_trucoVars => TrucoPortInv'
<1> SUFFICES ASSUME TrucoPortInv, [TrucoNext]_trucoVars PROVE CardsInHand'
  BY HandStepInv DEF TrucoPortInv
<1>1. HandInv /\ CardsInHand
  BY DEF TrucoPortInv
<1>2. ASSUME NEW deal \in TrucoDeals(seatCount), StartHand(deal) PROVE CardsInHand'
  <2>1. seatCount' = seatCount /\ TrucoSeats' = TrucoSeats /\ seatCount \in {2, 4}
          /\ seatCount \in TrucoTables
    BY <1>1, <1>2, RoundTheTable DEF StartHand, TrucoSeats, HandInv, SeatsOK
  <2>2. hands' = deal /\ plays' = <<>> /\ tricks' = <<>>
    BY <1>2 DEF StartHand
  <2>3. PICK m \in TrucoSeats : m = turn'
    BY <1>1, <1>2, <2>1, HandStepInv DEF HandInv, SeatsOK, TrucoNext, TrucoMoves
  <2>4. \A u \in TrucoSeats : IsFiniteSet(deal[u]) /\ Cardinality(deal[u]) = 3
    BY <2>1, TrucoAssumption, CardsAreFinite, FS_Subset DEF TrucoSeats
  <2>5. m = (m + 0) % seatCount /\ \A u \in TrucoSeats : Place(m, u) \in 0 .. seatCount - 1
    BY <2>1, <2>3, FirstOfTrick
  <2>6. CountedFrom(m, deal, 0, 0, m)
    BY <2>4, <2>5 DEF CountedFrom
  <2>7. CountedFrom(m, hands', Len(plays'), Len(tricks'), turn')
    BY <2>2, <2>3, <2>6
  <2>8. CountedFrom(m, hands, Len(plays), Len(tricks), turn)'
           <=> CountedFrom(m, hands', Len(plays'), Len(tricks'), turn')
    BY <2>1 DEF CountedFrom, Place
  <2>9. QED
    BY <2>1, <2>7, <2>8 DEF CardsInHand
<1>3. ASSUME NEW s \in TrucoSeats, NEW c \in hands[s], PlayCard(s, c) PROVE CardsInHand'
  BY <1>1, <1>3, PlayCounted
<1>4. ASSUME UNCHANGED <<seatCount, hands, turn, plays, tricks>>, HandOn' => HandOn
      PROVE  CardsInHand'
  <2>1. TrucoSeats' = TrucoSeats
    BY <1>4 DEF TrucoSeats
  <2>2. \A l : CountedFrom(l, hands, Len(plays), Len(tricks), turn)'
                 <=> CountedFrom(l, hands, Len(plays), Len(tricks), turn)
    BY <1>4, <2>1 DEF CountedFrom, Place
  <2>3. QED
    BY <1>1, <1>4, <2>1, <2>2 DEF CardsInHand
<1>5. CASE UNCHANGED trucoVars
  BY <1>4, <1>5 DEF trucoVars, cards, calls, HandOn, TrucoOver, MatchWinner
<1>6. ASSUME NEW s \in TrucoSeats,
             \/ CallTruco(s)
             \/ \E yes \in BOOLEAN : AnswerTruco(s, yes) \/ AnswerEnvido(s, yes)
             \/ \E k \in 1 .. 4 : CallEnvido(s, k)
             \/ \E how \in {"points", "sonBuenas"} : Declare(s, how)
             \/ ConsultPartner(s) \/ SendSena(s)
      PROVE  CardsInHand'
  <2>1. HandOn
    BY <1>6 DEF CallTruco, MayCallTruco, AnswerTruco, MayAnswerTruco, AnswerEnvido,
      MayAnswerEnvido, CallEnvido, MayCallEnvido, Declare, MayDeclare, ConsultPartner,
      SendSena, MayConsult, MaySignal
  <2>2. UNCHANGED <<seatCount, hands, turn, plays, tricks>>
    BY <1>6 DEF CallTruco, AnswerTruco, AnswerEnvido, CallEnvido, Declare, ConsultPartner,
      SendSena, Spend, cards
  <2>3. QED
    BY <1>4, <2>1, <2>2
<1>7. QED
  BY <1>2, <1>3, <1>5, <1>6 DEF TrucoNext, TrucoMoves

LEMMA TrucoPortInit == TrucoInit => TrucoPortInv
  BY HandInitInv DEF TrucoPortInv, CardsInHand, HandOn, TrucoInit

-----------------------------------------------------------------------------
(* The bots of truco: what a seat is offered, and what each tier makes of it. *)

LEMMA OfferIs ==
  ASSUME NEW s, NEW m
  PROVE  m \in Offers(s) <=>
           \/ MayCallTruco(s) /\ m = [type |-> "call-truco"]
           \/ MayAnswerTruco(s) /\ \E b \in BOOLEAN : m = [type |-> "respond-truco", yes |-> b]
           \/ MayAnswerEnvido(s) /\ \E b \in BOOLEAN : m = [type |-> "respond-envido", yes |-> b]
           \/ \E l \in 1 .. 4 : MayCallEnvido(s, l) /\ m = [type |-> "call-envido", level |-> l]
           \/ \E h \in {"points", "sonBuenas"} :
                MayDeclare(s, h) /\ m = [type |-> "declare-envido", how |-> h]
           \/ MayPlay(s) /\ \E c \in hands[s] : m = [type |-> "play-card", card |-> c]
           \/ MaySignal(s) /\ \E g \in Range(Senas) : m = [type |-> "send-sena", signal |-> g]
           \/ \E q \in {"pending-call", "envido"} :
                MayConsult(s, q) /\ m = [type |-> "consult-partner", about |-> q]
  BY DEF Offers, Both

\* A kind of move is there as getLegalActions put it, or held back altogether.
LEMMA HeldWhole ==
  ASSUME NEW s, NEW O \in Options(s)
  PROVE  /\ O \subseteq Offers(s) /\ Blocking(O) # {}
         /\ \A m \in O, n \in Offers(s) : n.type = m.type => n \in O
  BY DEF Options

\* Of every set of powers there is a least and a greatest.
LEMMA SomeWeakest ==
  ASSUME NEW C \in SUBSET Cards, C # {}
  PROVE  /\ Weakest(C) # {} /\ Weakest(C) \subseteq C
         /\ Strongest(C) # {} /\ Strongest(C) \subseteq C
<1>1. PICK P : P = { Power(c) : c \in C }
  OBVIOUS
<1>2. P \in SUBSET (0 .. 14) /\ P \in SUBSET Nat /\ P # {}
  BY <1>1, PowerOfCard
<1>3. PICK lo \in P : \A p \in P : lo <= p
  BY <1>2, LeastNumber
<1>4. PICK hi \in P : \A p \in P : p <= hi
  BY <1>2, GreatestNumber
<1>5. PICK c \in C, d \in C : Power(c) = lo /\ Power(d) = hi
  BY <1>1
<1>6. \A e \in C : Power(c) <= Power(e) /\ Power(d) >= Power(e)
  <2>1. ASSUME NEW e \in C PROVE Power(c) <= Power(e) /\ Power(d) >= Power(e)
    <3>1. Power(e) \in P
      BY <1>1
    <3>2. PICK x \in 1 .. 14, y \in 1 .. 14, z \in 1 .. 14 :
            x = Power(e) /\ y = Power(d) /\ z = Power(c)
      BY PowerOfCard
    <3>3. z <= x /\ x <= y
      BY <1>3, <1>4, <1>5, <3>1, <3>2
    <3>4. z <= x /\ y >= x
      BY <3>2, <3>3
    <3>5. QED
      BY <3>2, <3>4
  <2>2. QED
    BY <2>1
<1>7. QED
  BY <1>5, <1>6 DEF Weakest, Strongest

\* A card is always found in the hand.
LEMMA CardChosen ==
  ASSUME NEW s, hands[s] \subseteq Cards, hands[s] # {}, NEW tier
  PROVE  CardChoice(tier, s) # {} /\ CardChoice(tier, s) \subseteq hands[s]
<1>1. PICK C : C = hands[s]
  OBVIOUS
<1>2. /\ Weakest(C) # {} /\ Weakest(C) \subseteq C
      /\ Strongest(C) # {} /\ Strongest(C) \subseteq C
  BY <1>1, SomeWeakest
<1>3. ASSUME NEW best PROVE Follow(C, best) # {} /\ Follow(C, best) \subseteq C
  <2>1. PICK wins, ties : /\ wins = { c \in C : Power(c) > best }
                          /\ ties = { c \in C : Power(c) = best }
    OBVIOUS
  <2>2. PICK D : D = (IF wins # {} THEN wins ELSE IF ties # {} THEN ties ELSE C)
    OBVIOUS
  <2>3. D # {} /\ D \subseteq C /\ D \subseteq Cards
    BY <1>1, <2>1, <2>2
  <2>4. Follow(C, best) = Weakest(D)
    BY <2>1, <2>2 DEF Follow
  <2>5. QED
    BY <2>3, <2>4, SomeWeakest
<1>4. PICK best : best = Best(plays, Rival(Team(s)))
  OBVIOUS
<1>5. Follow(C, best) # {} /\ Follow(C, best) \subseteq C
  BY <1>3
<1>6. CardChoice(tier, s) \in {Strongest(C), Weakest(C), Follow(C, best), C}
  BY <1>1, <1>4 DEF CardChoice
<1>7. QED
  BY <1>1, <1>2, <1>5, <1>6

\* The signs of a hand are signs.
LEMMA HonestSigns ==
  ASSUME NEW C
  PROVE  Honest(C) \subseteq Range(Senas)
<1>1. PICK held : held = { i \in DOMAIN Senas : \E c \in C : SignalFor(c) = Senas[i] }
  OBVIOUS
<1>2. DOMAIN Senas = 1 .. 6
  BY DEF Senas
<1>3. CASE held # {}
  <2>1. held \in SUBSET Nat
    BY <1>1, <1>2
  <2>2. Min(held) \in held
    BY <1>3, <2>1, MinIs
  <2>3. Senas[Min(held)] \in Range(Senas)
    BY <1>1, <2>2 DEF Range
  <2>4. QED
    BY <1>1, <1>3, <2>3 DEF Honest
<1>4. QED
  BY <1>1, <1>3 DEF Honest

\* The first call and the first question are among those that are offered.
LEMMA FirstOnes ==
  ASSUME NEW s, NEW O \in Options(s)
  PROVE  /\ Of(O, "call-envido") # {} => FirstCall(O) \in O
         /\ FirstQuestion(O) \subseteq O
         /\ Of(O, "consult-partner") # {} => FirstQuestion(O) # {}
<1>1. O \subseteq Offers(s)
  BY HeldWhole
<1>2. ASSUME Of(O, "call-envido") # {} PROVE FirstCall(O) \in O
  <2>1. PICK levels : levels = { m.level : m \in Of(O, "call-envido") }
    OBVIOUS
  <2>2. ASSUME NEW m \in Of(O, "call-envido")
        PROVE  m.level \in 1 .. 4 /\ m = [type |-> "call-envido", level |-> m.level]
    <3>1. m \in Offers(s) /\ m.type = "call-envido"
      BY <1>1 DEF Of
    <3>2. \E l \in 1 .. 4 : MayCallEnvido(s, l) /\ m = [type |-> "call-envido", level |-> l]
      BY <3>1, OfferIs
    <3>3. QED
      BY <3>2
  <2>3. levels \in SUBSET Nat /\ levels # {}
    BY <1>2, <2>1, <2>2
  <2>4. Min(levels) \in levels
    BY <2>3, MinIs
  <2>5. PICK m \in Of(O, "call-envido") : m.level = Min(levels)
    BY <2>1, <2>4
  <2>6. FirstCall(O) = [type |-> "call-envido", level |-> Min(levels)]
    BY <2>1 DEF FirstCall
  <2>7. m = FirstCall(O)
    BY <2>2, <2>5, <2>6
  <2>8. QED
    BY <2>7 DEF Of
<1>3. PICK about : about = { m.about : m \in Of(O, "consult-partner") }
  OBVIOUS
<1>4. ASSUME NEW m \in Of(O, "consult-partner")
      PROVE  /\ m.about \in {"pending-call", "envido"}
             /\ m = [type |-> "consult-partner", about |-> m.about]
  <2>1. m \in Offers(s) /\ m.type = "consult-partner"
    BY <1>1 DEF Of
  <2>2. \E q \in {"pending-call", "envido"} :
          MayConsult(s, q) /\ m = [type |-> "consult-partner", about |-> q]
    BY <2>1, OfferIs
  <2>3. QED
    BY <2>2
<1>5. PICK first : first = IF "pending-call" \in about THEN "pending-call" ELSE "envido"
  OBVIOUS
<1>6. FirstQuestion(O) = { [type |-> "consult-partner", about |-> first] : q \in about }
  BY <1>3, <1>5 DEF FirstQuestion
<1>7. FirstQuestion(O) \subseteq O
  <2>1. ASSUME NEW n \in FirstQuestion(O) PROVE n \in O
    <3>1. about # {} /\ n = [type |-> "consult-partner", about |-> first]
      BY <1>6
    <3>2. first \in about
      BY <1>3, <1>4, <1>5, <3>1
    <3>3. PICK m \in Of(O, "consult-partner") : m.about = first
      BY <1>3, <3>2
    <3>4. n = m
      BY <1>4, <3>1, <3>3
    <3>5. QED
      BY <3>4 DEF Of
  <2>2. QED
    BY <2>1
<1>8. Of(O, "consult-partner") # {} => FirstQuestion(O) # {}
  BY <1>3, <1>6
<1>9. QED
  BY <1>2, <1>7, <1>8

LEMMA FirstIsThere ==
  ASSUME NEW s, NEW O \in Options(s)
  PROVE  FirstOf(O) # {} /\ FirstOf(O) \subseteq O
<1>1. O # {}
  BY HeldWhole DEF Blocking
<1>2. Of(O, "call-truco") \subseteq O
  BY DEF Of
<1>3. QED
  BY <1>1, <1>2, FirstOnes DEF FirstOf

\* All the cards of a hand that may be played are offered, and both answers to a call.
LEMMA WholeKinds ==
  ASSUME NEW s, NEW O \in Options(s)
  PROVE  /\ Of(O, "play-card") # {} =>
              /\ hands[s] # {}
              /\ \A c \in hands[s] : [type |-> "play-card", card |-> c] \in O
         /\ Of(O, "respond-truco") # {} =>
              \A b \in BOOLEAN : [type |-> "respond-truco", yes |-> b] \in O
         /\ Of(O, "respond-envido") # {} =>
              \A b \in BOOLEAN : [type |-> "respond-envido", yes |-> b] \in O
         /\ Of(O, "declare-envido") # {} => Declaration(s) \in O
         /\ Of(O, "send-sena") # {} =>
              \A g \in Range(Senas) : [type |-> "send-sena", signal |-> g] \in O
<1>1. O \subseteq Offers(s) /\ \A m \in O, n \in Offers(s) : n.type = m.type => n \in O
  BY HeldWhole
<1>2. ASSUME NEW m \in Of(O, "play-card")
      PROVE  /\ hands[s] # {}
             /\ \A c \in hands[s] : [type |-> "play-card", card |-> c] \in O
  <2>1. m \in O /\ m \in Offers(s) /\ m.type = "play-card"
    BY <1>1 DEF Of
  <2>2. MayPlay(s) /\ hands[s] # {}
    BY <2>1, OfferIs
  <2>3. ASSUME NEW c \in hands[s] PROVE [type |-> "play-card", card |-> c] \in O
    <3>1. PICK n : n = [type |-> "play-card", card |-> c]
      OBVIOUS
    <3>2. n \in Offers(s) /\ n.type = m.type
      BY <2>1, <2>2, <3>1, OfferIs
    <3>3. QED
      BY <1>1, <2>1, <3>1, <3>2
  <2>4. QED
    BY <2>2, <2>3
<1>3. ASSUME NEW m \in Of(O, "respond-truco"), NEW b \in BOOLEAN
      PROVE  [type |-> "respond-truco", yes |-> b] \in O
  <2>1. m \in O /\ m \in Offers(s) /\ m.type = "respond-truco"
    BY <1>1, <1>3 DEF Of
  <2>2. MayAnswerTruco(s)
    BY <2>1, OfferIs
  <2>3. PICK n : n = [type |-> "respond-truco", yes |-> b]
    OBVIOUS
  <2>4. n \in Offers(s) /\ n.type = m.type
    BY <2>1, <2>2, <2>3, OfferIs
  <2>5. QED
    BY <1>1, <2>1, <2>3, <2>4
<1>4. ASSUME NEW m \in Of(O, "respond-envido"), NEW b \in BOOLEAN
      PROVE  [type |-> "respond-envido", yes |-> b] \in O
  <2>1. m \in O /\ m \in Offers(s) /\ m.type = "respond-envido"
    BY <1>1, <1>4 DEF Of
  <2>2. MayAnswerEnvido(s)
    BY <2>1, OfferIs
  <2>3. PICK n : n = [type |-> "respond-envido", yes |-> b]
    OBVIOUS
  <2>4. n \in Offers(s) /\ n.type = m.type
    BY <2>1, <2>2, <2>3, OfferIs
  <2>5. QED
    BY <1>1, <2>1, <2>3, <2>4
<1>5. ASSUME NEW m \in Of(O, "declare-envido") PROVE Declaration(s) \in O
  <2>1. m \in O /\ m \in Offers(s) /\ m.type = "declare-envido"
    BY <1>1 DEF Of
  <2>2. \E h \in {"points", "sonBuenas"} : MayDeclare(s, h)
    BY <2>1, OfferIs
  <2>3. PICK h \in {"points", "sonBuenas"} :
          MayDeclare(s, h) /\ Declaration(s) = [type |-> "declare-envido", how |-> h]
    <3>1. MayDeclare(s, "points")
      BY <2>2 DEF MayDeclare
    <3>2. Concedes(s) => MayDeclare(s, "sonBuenas")
      BY DEF Concedes
    <3>3. CASE Concedes(s)
      BY <3>2, <3>3 DEF Declaration
    <3>4. CASE ~Concedes(s)
      BY <3>1, <3>4 DEF Declaration
    <3>5. QED
      BY <3>3, <3>4
  <2>4. PICK n : n = [type |-> "declare-envido", how |-> h]
    OBVIOUS
  <2>5. n \in Offers(s) /\ n.type = m.type
    BY <2>1, <2>3, <2>4, OfferIs
  <2>6. QED
    BY <1>1, <2>1, <2>3, <2>4, <2>5
<1>6. ASSUME NEW m \in Of(O, "send-sena"), NEW g \in Range(Senas)
      PROVE  [type |-> "send-sena", signal |-> g] \in O
  <2>1. m \in O /\ m \in Offers(s) /\ m.type = "send-sena"
    BY <1>1, <1>6 DEF Of
  <2>2. MaySignal(s)
    BY <2>1, OfferIs
  <2>3. PICK n : n = [type |-> "send-sena", signal |-> g]
    OBVIOUS
  <2>4. n \in Offers(s) /\ n.type = m.type
    BY <2>1, <2>2, <2>3, OfferIs
  <2>5. QED
    BY <1>1, <2>1, <2>3, <2>4
<1>7. QED
  BY <1>2, <1>3, <1>4, <1>5, <1>6

\* A bot weighs a number against a bar, and that is one way or the other.
LEMMA FavorsOne ==
  ASSUME NEW tier, NEW weight, NEW bar
  PROVE  Favors(tier, weight, bar) \subseteq BOOLEAN
           /\ (TRUE \in Favors(tier, weight, bar) \/ FALSE \in Favors(tier, weight, bar))
<1>1. (weight >= bar) \in BOOLEAN
  OBVIOUS
<1>2. PICK heavy \in BOOLEAN : heavy = (weight >= bar)
  BY <1>1
<1>3. Favors(tier, weight, bar) = BOOLEAN \/ Favors(tier, weight, bar) = {heavy}
  BY <1>2 DEF Favors
<1>4. QED
  BY <1>3

\* A move the bot may make is a move of the set.
Within(M, O) == M # {} /\ M \subseteq O

LEMMA PassWithin ==
  ASSUME NEW s, NEW O \in Options(s), hands[s] \subseteq Cards, NEW tier, NEW answer
  PROVE  Within(Pass(tier, s, O, answer), O)
<1>1. AskPartner(O, answer) \subseteq O
  BY FirstOnes DEF AskPartner
<1>2. PICK P : P = { [type |-> "play-card", card |-> c] : c \in CardChoice(tier, s) }
  OBVIOUS
<1>3. Of(O, "play-card") # {} => Within(P, O)
  <2>1. ASSUME Of(O, "play-card") # {} PROVE Within(P, O)
    <3>1. hands[s] # {} /\ \A c \in hands[s] : [type |-> "play-card", card |-> c] \in O
      BY <2>1, WholeKinds
    <3>2. CardChoice(tier, s) # {} /\ CardChoice(tier, s) \subseteq hands[s]
      BY <3>1, CardChosen
    <3>3. QED
      BY <1>2, <3>1, <3>2 DEF Within
  <2>2. QED
    BY <2>1
<1>4. Within(FirstOf(O), O)
  BY FirstIsThere DEF Within
<1>5. QED
  BY <1>1, <1>2, <1>3, <1>4 DEF Pass, Within

LEMMA CallOrPassWithin ==
  ASSUME NEW s, NEW O \in Options(s), hands[s] \subseteq Cards, NEW tier, NEW answer
  PROVE  Within(CallOrPass(tier, s, O, answer), O)
<1>1. PICK hand : hand = IF Of(O, "call-truco") = {} THEN {FALSE}
                         ELSE Favors(tier, HandPower(hands[s]), AggressiveTruco)
  OBVIOUS
<1>2. PICK numbers : numbers = IF Of(O, "call-envido") = {} THEN {FALSE}
                               ELSE Favors(tier, DealtPoints(s), AggressiveEnvido)
  OBVIOUS
<1>3. (TRUE \in hand \/ FALSE \in hand) /\ (TRUE \in hand => Of(O, "call-truco") # {})
  BY <1>1, FavorsOne
<1>4. (TRUE \in numbers \/ FALSE \in numbers) /\ (TRUE \in numbers => Of(O, "call-envido") # {})
  BY <1>2, FavorsOne
<1>5. PICK A, B, C :
        /\ A = (IF TRUE \in hand THEN Of(O, "call-truco") ELSE {})
        /\ B = (IF FALSE \in hand /\ TRUE \in numbers THEN {FirstCall(O)} ELSE {})
        /\ C = (IF FALSE \in hand /\ FALSE \in numbers THEN Pass(tier, s, O, answer) ELSE {})
  OBVIOUS
<1>6. CallOrPass(tier, s, O, answer) = A \cup B \cup C
  BY <1>1, <1>2, <1>5 DEF CallOrPass
<1>7. A \subseteq O /\ B \subseteq O /\ C \subseteq O
  <2>1. A \subseteq O
    BY <1>5 DEF Of
  <2>2. B \subseteq O
    BY <1>4, <1>5, FirstOnes
  <2>3. C \subseteq O
    BY <1>5, PassWithin DEF Within
  <2>4. QED
    BY <2>1, <2>2, <2>3
<1>8. A # {} \/ B # {} \/ C # {}
  <2>1. CASE TRUE \in hand
    BY <1>3, <1>5, <2>1
  <2>2. CASE FALSE \in hand /\ TRUE \in numbers
    BY <1>5, <2>2
  <2>3. CASE FALSE \in hand /\ FALSE \in numbers
    BY <1>5, <2>3, PassWithin DEF Within
  <2>4. QED
    BY <1>3, <1>4, <2>1, <2>2, <2>3
<1>9. QED
  BY <1>6, <1>7, <1>8 DEF Within

LEMMA LadderWithin ==
  ASSUME NEW s, NEW O \in Options(s), hands[s] \subseteq Cards, NEW tier, NEW answer
  PROVE  Within(Ladder(tier, s, O, answer), O)
<1>1. CASE Of(O, "respond-truco") # {}
  <2>1. PICK F : F = Favors(tier, HandPower(hands[s]), AcceptTruco)
    OBVIOUS
  <2>2. F \subseteq BOOLEAN /\ F # {}
    BY <2>1, FavorsOne
  <2>3. \A b \in BOOLEAN : [type |-> "respond-truco", yes |-> b] \in O
    BY <1>1, WholeKinds
  <2>4. Ladder(tier, s, O, answer) = { [type |-> "respond-truco", yes |-> y] : y \in F }
    BY <1>1, <2>1 DEF Ladder
  <2>5. QED
    BY <2>2, <2>3, <2>4 DEF Within
<1>2. CASE Of(O, "respond-truco") = {} /\ Of(O, "respond-envido") # {}
  <2>1. PICK F : F = Favors(tier, DealtPoints(s), AcceptEnvido)
    OBVIOUS
  <2>2. F \subseteq BOOLEAN /\ F # {}
    BY <2>1, FavorsOne
  <2>3. \A b \in BOOLEAN : [type |-> "respond-envido", yes |-> b] \in O
    BY <1>2, WholeKinds
  <2>4. Ladder(tier, s, O, answer) = { [type |-> "respond-envido", yes |-> y] : y \in F }
    BY <1>2, <2>1 DEF Ladder
  <2>5. QED
    BY <2>2, <2>3, <2>4 DEF Within
<1>3. CASE /\ Of(O, "respond-truco") = {} /\ Of(O, "respond-envido") = {}
           /\ Of(O, "declare-envido") # {}
  <2>1. Ladder(tier, s, O, answer) = {Declaration(s)}
    BY <1>3 DEF Ladder
  <2>2. QED
    BY <1>3, <2>1, WholeKinds DEF Within
<1>4. CASE /\ Of(O, "respond-truco") = {} /\ Of(O, "respond-envido") = {}
           /\ Of(O, "declare-envido") = {}
  <2>1. Ladder(tier, s, O, answer) = CallOrPass(tier, s, O, answer)
    BY <1>4 DEF Ladder
  <2>2. QED
    BY <2>1, CallOrPassWithin
<1>5. QED
  BY <1>1, <1>2, <1>3, <1>4

\* The moves that say yes or no are the answers to a call.
LEMMA YesIsAnAnswer ==
  ASSUME NEW s, NEW m \in Offers(s), "yes" \in DOMAIN m
  PROVE  \/ m.type = "respond-truco" /\ MayAnswerTruco(s)
         \/ m.type = "respond-envido" /\ MayAnswerEnvido(s)
BY OfferIs

LEMMA EasyWithin ==
  ASSUME NEW s, NEW O \in Options(s), hands[s] \subseteq Cards
  PROVE  Within(EasyLadder(s, O), O)
<1>1. CASE \E m \in O : "yes" \in DOMAIN m
  <2>1. PICK m \in O : "yes" \in DOMAIN m
    BY <1>1
  <2>2. m \in Offers(s)
    BY HeldWhole
  <2>3. m.type \in {"respond-truco", "respond-envido"}
    BY <2>1, <2>2, YesIsAnAnswer
  <2>4. m \in Of(O, m.type)
    BY DEF Of
  <2>5. [type |-> m.type, yes |-> TRUE] \in O
    BY <2>3, <2>4, WholeKinds
  <2>6. PICK n : n = [type |-> m.type, yes |-> TRUE]
    OBVIOUS
  <2>7. "yes" \in DOMAIN n /\ n.yes
    BY <2>6
  <2>8. EasyLadder(s, O) = { k \in O : "yes" \in DOMAIN k /\ k.yes }
    BY <1>1 DEF EasyLadder
  <2>9. QED
    BY <2>5, <2>6, <2>7, <2>8 DEF Within
<1>2. CASE ~ \E m \in O : "yes" \in DOMAIN m
  <2>1. CASE Of(O, "declare-envido") # {}
    BY <1>2, <2>1, WholeKinds DEF EasyLadder, Within
  <2>2. CASE Of(O, "declare-envido") = {} /\ Of(O, "play-card") # {}
    <3>1. hands[s] # {} /\ \A c \in hands[s] : [type |-> "play-card", card |-> c] \in O
      BY <2>2, WholeKinds
    <3>2. CardChoice("easy", s) # {} /\ CardChoice("easy", s) \subseteq hands[s]
      BY <3>1, CardChosen
    <3>3. EasyLadder(s, O) = { [type |-> "play-card", card |-> c] : c \in CardChoice("easy", s) }
      BY <1>2, <2>2 DEF EasyLadder
    <3>4. QED
      BY <3>1, <3>2, <3>3 DEF Within
  <2>3. CASE Of(O, "declare-envido") = {} /\ Of(O, "play-card") = {}
    <3>1. EasyLadder(s, O) = FirstOf(O)
      BY <1>2, <2>3 DEF EasyLadder
    <3>2. QED
      BY <3>1, FirstIsThere DEF Within
  <2>4. QED
    BY <2>1, <2>2, <2>3
<1>3. QED
  BY <1>1, <1>2

\* A bot may give a sign only where one is offered.
LEMMA SignsOffered ==
  ASSUME NEW s, NEW O, NEW tier
  PROVE  /\ Signals(tier, s, O) \subseteq Range(Senas)
         /\ Of(O, "send-sena") = {} => Signals(tier, s, O) = {}
<1>1. UNION { Honest(C) : C \in Kept(tier, s, O) } \subseteq Range(Senas)
  BY HonestSigns
<1>2. QED
  BY <1>1 DEF Signals

LEMMA BotsChoose ==
  ASSUME HandInv
  PROVE  ChoosesWhatItIsOffered
<1> SUFFICES ASSUME NEW s \in TrucoSeats, NEW tier \in BotTiers, NEW O \in Options(s),
                    NEW a \in Answers
             PROVE  Within(BotMoves(tier, s, O, a), O)
  BY DEF ChoosesWhatItIsOffered, Within
<1>1. hands[s] \subseteq Cards
  BY DEF HandInv, SeatsOK
<1>2. PICK G, L : /\ G = { [type |-> "send-sena", signal |-> g] : g \in Signals(tier, s, O) }
                  /\ L = (IF tier = "easy" THEN EasyLadder(s, O) ELSE Ladder(tier, s, O, a))
  OBVIOUS
<1>3. BotMoves(tier, s, O, a) = G \cup L
  BY <1>2 DEF BotMoves
<1>4. Within(L, O)
  BY <1>1, <1>2, EasyWithin, LadderWithin
<1>5. G \subseteq O
  BY <1>2, SignsOffered, WholeKinds
<1>6. QED
  BY <1>3, <1>4, <1>5 DEF Within

LEMMA BotsRaise == RaiseOutOfTurn
<1> SUFFICES ASSUME NEW s \in TrucoSeats, MayCallTruco(s), turn # s, NEW O \in Options(s),
                    NEW tier \in BotTiers, NEW a \in Answers
             PROVE  Blocking(BotMoves(tier, s, O, a)) = {[type |-> "call-truco"]}
  BY DEF RaiseOutOfTurn
<1>1. truco.status = "accepted" /\ HandOn /\ ~EnvidoOpen
  BY DEF MayCallTruco
<1>2. PICK raise : raise = [type |-> "call-truco"]
  OBVIOUS
<1>3. \A l \in 1 .. 4 : ~MayCallEnvido(s, l)
  BY <1>1 DEF MayCallEnvido, MayOpenEnvido, EnvidoOpen
<1>4. ASSUME NEW m \in Offers(s) PROVE m = raise \/ m.type = "send-sena"
  <2>1. ~MayAnswerTruco(s) /\ ~MayAnswerEnvido(s) /\ ~MayPlay(s)
    BY <1>1 DEF MayAnswerTruco, MayAnswerEnvido, MayPlay, EnvidoOpen
  <2>2. \A h : ~MayDeclare(s, h)
    BY <1>1 DEF MayDeclare, EnvidoOpen
  <2>3. \A q \in {"pending-call", "envido"} : ~MayConsult(s, q)
    BY <1>1, <1>3 DEF MayConsult, EnvidoOpen
  <2>4. QED
    BY <1>2, <1>3, <2>1, <2>2, <2>3, OfferIs
<1>5. O \subseteq Offers(s) /\ Blocking(O) # {}
  BY HeldWhole
<1>6. raise \in O
  BY <1>4, <1>5 DEF Blocking, Of
<1>7. /\ Of(O, "call-truco") = {raise} /\ Of(O, "respond-truco") = {}
      /\ Of(O, "respond-envido") = {} /\ Of(O, "declare-envido") = {}
      /\ Of(O, "call-envido") = {} /\ Of(O, "play-card") = {}
      /\ Of(O, "consult-partner") = {}
  BY <1>2, <1>4, <1>5, <1>6 DEF Of
<1>8. FirstOf(O) = {raise}
  BY <1>7 DEF FirstOf
<1>9. ~ \E m \in O : "yes" \in DOMAIN m
  <2>1. ASSUME NEW m \in O, "yes" \in DOMAIN m PROVE FALSE
    <3>1. m \in Offers(s)
      BY <1>5
    <3>2. m.type \in {"respond-truco", "respond-envido"}
      BY <2>1, <3>1, YesIsAnAnswer
    <3>3. QED
      BY <1>7, <2>1, <3>2 DEF Of
  <2>2. QED
    BY <2>1
<1>10. EasyLadder(s, O) = {raise}
  BY <1>7, <1>8, <1>9 DEF EasyLadder
<1>11. Ladder(tier, s, O, a) = {raise}
  <2>1. Ladder(tier, s, O, a) = CallOrPass(tier, s, O, a)
    BY <1>7 DEF Ladder
  <2>2. AskPartner(O, a) = {}
    BY <1>7 DEF AskPartner
  <2>3. Pass(tier, s, O, a) = {raise}
    BY <1>7, <1>8, <2>2 DEF Pass
  <2>4. PICK hand : hand = IF Of(O, "call-truco") = {} THEN {FALSE}
                           ELSE Favors(tier, HandPower(hands[s]), AggressiveTruco)
    OBVIOUS
  <2>5. TRUE \in hand \/ FALSE \in hand
    BY <2>4, FavorsOne
  <2>6. PICK numbers : numbers = IF Of(O, "call-envido") = {} THEN {FALSE}
                                 ELSE Favors(tier, DealtPoints(s), AggressiveEnvido)
    OBVIOUS
  <2>7. numbers = {FALSE}
    BY <1>7, <2>6
  <2>8. PICK A, B, C :
          /\ A = (IF TRUE \in hand THEN Of(O, "call-truco") ELSE {})
          /\ B = (IF FALSE \in hand /\ TRUE \in numbers THEN {FirstCall(O)} ELSE {})
          /\ C = (IF FALSE \in hand /\ FALSE \in numbers THEN Pass(tier, s, O, a) ELSE {})
    OBVIOUS
  <2>9. CallOrPass(tier, s, O, a) = A \cup B \cup C
    BY <2>4, <2>6, <2>8 DEF CallOrPass
  <2>10. B = {} /\ FALSE \in numbers
    BY <2>7, <2>8
  <2>11. A \cup C = {raise}
    BY <1>7, <2>3, <2>5, <2>8, <2>10
  <2>12. QED
    BY <2>1, <2>9, <2>10, <2>11
<1>12. PICK G : G = { [type |-> "send-sena", signal |-> g] : g \in Signals(tier, s, O) }
  OBVIOUS
<1>13. BotMoves(tier, s, O, a) = G \cup {raise}
  BY <1>10, <1>11, <1>12 DEF BotMoves
<1>14. raise.type # "send-sena" /\ \A g \in G : g.type = "send-sena"
  BY <1>2, <1>12
<1>15. Blocking(G \cup {raise}) = {raise}
  BY <1>14 DEF Blocking, Of
<1>16. QED
  BY <1>2, <1>13, <1>15

\* At a table of four every seat has one partner.
LEMMA OnePartner ==
  ASSUME seatCount \in {2, 4}, NEW s \in TrucoSeats, NEW m \in Mates(s)
  PROVE  /\ seatCount = 4 /\ m \in TrucoSeats /\ Team(m) = Team(s)
         /\ \A u \in Mates(s) : u = m
<1>1. CASE seatCount = 2
  <2>1. s \in {0, 1} /\ m \in {0, 1}
    BY <1>1 DEF TrucoSeats, Mates
  <2>2. QED
    BY <2>1 DEF Mates, Team
<1>2. CASE seatCount = 4
  <2>1. TrucoSeats = {0, 1, 2, 3}
    BY <1>2 DEF TrucoSeats
  <2>2. QED
    BY <1>2, <2>1 DEF Mates, Team
<1>3. QED
  BY <1>1, <1>2

\* Whoever may ask about a pending call owes the answer, and so does its partner.
LEMMA AskedIsOwed ==
  ASSUME NEW s, MayConsult(s, "pending-call"), envido.status # "accepted"
  PROVE  /\ MayAnswerTruco(s) \/ MayAnswerEnvido(s)
         /\ \A m : Team(m) = Team(s) =>
              /\ MayAnswerTruco(s) <=> MayAnswerTruco(m)
              /\ MayAnswerEnvido(s) <=> MayAnswerEnvido(m)
              /\ MaySignal(m) => MayConsult(m, "pending-call")
BY DEF MayConsult, MaySignal, MayAnswerTruco, MayAnswerEnvido, EnvidoOpen

LEMMA BotsAsk ==
  ASSUME HandInv
  PROVE  AsksAboutTheEnvido
<1> SUFFICES ASSUME NEW s \in TrucoSeats, NEW tier \in BotTiers, NEW O \in Options(s),
                    NEW a \in Answers, envido.status # "accepted",
                    [type |-> "consult-partner", about |-> "pending-call"]
                      \in BotMoves(tier, s, O, a)
             PROVE  /\ MayAnswerTruco(s) \/ MayAnswerEnvido(s)
                    /\ \A m \in Mates(s) : spent[m] = SenaBudget
  BY DEF AsksAboutTheEnvido
<1>1. PICK ask : ask = [type |-> "consult-partner", about |-> "pending-call"]
  OBVIOUS
<1>2. ask \in O /\ ask \in Offers(s)
  BY <1>1, BotsChoose, HeldWhole DEF ChoosesWhatItIsOffered
<1>3. MayConsult(s, "pending-call")
  BY <1>1, <1>2, OfferIs
<1>4. MayAnswerTruco(s) \/ MayAnswerEnvido(s)
  BY <1>3, AskedIsOwed
<1>5. PICK held \in Held(s) : O = { m \in Offers(s) : m.type \notin held }
  BY DEF Options
<1>6. Of(O, "respond-truco") = {} /\ Of(O, "respond-envido") = {}
  <2>1. PICK L : L = (IF tier = "easy" THEN EasyLadder(s, O) ELSE Ladder(tier, s, O, a))
    OBVIOUS
  <2>2. ask \in L
    BY <1>1, <2>1 DEF BotMoves
  <2>3. ASSUME NEW m \in O, m.type \in {"respond-truco", "respond-envido"} PROVE FALSE
    <3>1. m \in Offers(s)
      BY HeldWhole
    <3>2. "yes" \in DOMAIN m
      BY <2>3, <3>1, OfferIs
    <3>3. CASE tier = "easy"
      <4>1. L = { k \in O : "yes" \in DOMAIN k /\ k.yes }
        BY <2>1, <3>2, <3>3 DEF EasyLadder
      <4>2. QED
        BY <1>1, <2>2, <4>1
    <3>4. CASE tier # "easy"
      <4>1. PICK F, E : /\ F = Favors(tier, HandPower(hands[s]), AcceptTruco)
                        /\ E = Favors(tier, DealtPoints(s), AcceptEnvido)
        OBVIOUS
      <4>2. m \in Of(O, m.type)
        BY DEF Of
      <4>3. \/ L = { [type |-> "respond-truco", yes |-> y] : y \in F }
            \/ L = { [type |-> "respond-envido", yes |-> y] : y \in E }
        BY <2>1, <2>3, <3>4, <4>1, <4>2 DEF Ladder
      <4>4. QED
        BY <1>1, <2>2, <4>3
    <3>5. QED
      BY <3>3, <3>4
  <2>4. QED
    BY <2>3 DEF Of
<1>7. held # {}
  <2>1. PICK type \in {"respond-truco", "respond-envido"} :
          [type |-> type, yes |-> TRUE] \in Offers(s)
    BY <1>4, OfferIs
  <2>2. PICK n : n = [type |-> type, yes |-> TRUE]
    OBVIOUS
  <2>3. n \notin O
    <3>1. n.type = type
      BY <2>2
    <3>2. QED
      BY <1>6, <3>1 DEF Of
  <2>4. QED
    BY <1>5, <2>1, <2>2, <2>3
<1>8. PICK u \in Mates(s) : held = { m.type : m \in Offers(u) }
  BY <1>7 DEF Held
<1>9. seatCount \in {2, 4}
  BY RoundTheTable DEF HandInv
<1>10. u \in TrucoSeats /\ seatCount = 4 /\ Team(u) = Team(s) /\ \A m \in Mates(s) : m = u
  BY <1>9, OnePartner
<1>11. ~MaySignal(u)
  <2>1. ASSUME MaySignal(u) PROVE FALSE
    <3>1. MayConsult(u, "pending-call")
      BY <1>3, <1>10, <2>1, AskedIsOwed
    <3>2. ask \in Offers(u)
      BY <1>1, <3>1, OfferIs
    <3>3. ask.type \in held
      BY <1>8, <3>2
    <3>4. QED
      BY <1>2, <1>5, <3>3
  <2>2. QED
    BY <2>1
<1>12. spent[u] = SenaBudget
  <2>1. HandOn
    BY <1>3 DEF MayConsult, MaySignal
  <2>2. ~(spent[u] < SenaBudget)
    BY <1>10, <1>11, <2>1 DEF MaySignal
  <2>3. spent[u] \in 0 .. SenaBudget /\ SenaBudget \in Nat
    BY <1>10, TrucoAssumption DEF HandInv, SeatsOK
  <2>4. QED
    BY <2>2, <2>3
<1>13. QED
  BY <1>4, <1>10, <1>12

LEMMA QuestionsFind == QuestionsFindTheirSubject
<1> SUFFICES ASSUME NEW s \in TrucoSeats, NEW about \in {"pending-call", "envido"},
                    NEW m \in Mates(s), MayConsult(s, about), NEW asked,
                    asked = QuestionFor(s, m, about)
             PROVE  IF asked = {} THEN about = "pending-call" /\ envido.status = "accepted"
                    ELSE \A tier \in BotTiers : BotMoves(tier, m, asked, "unasked") \subseteq asked
  BY DEF QuestionsFindTheirSubject
<1>1. /\ \/ asked = {} \/ asked = Both("respond-truco") \/ asked = Both("respond-envido")
         \/ asked = Both("respond-truco") \cup Both("respond-envido")
      /\ asked = {} => about = "pending-call" /\ envido.status = "accepted"
  <2>1. CASE about = "envido"
    <3>1. PICK l \in 1 .. 4 : MayCallEnvido(s, l)
      BY <2>1 DEF MayConsult
    <3>2. PICK n : n = [type |-> "call-envido", level |-> l]
      OBVIOUS
    <3>3. n \in Of(Offers(s), "call-envido")
      <4>1. n \in Offers(s) /\ n.type = "call-envido"
        BY <3>1, <3>2, OfferIs
      <4>2. QED
        BY <4>1 DEF Of
    <3>4. asked = Both("respond-envido")
      BY <2>1, <3>3 DEF QuestionFor
    <3>5. QED
      BY <3>4 DEF Both
  <2>2. CASE about = "pending-call"
    <3>1. /\ Of(Offers(m), "respond-truco") = IF MayAnswerTruco(m) THEN Both("respond-truco") ELSE {}
          /\ Of(Offers(m), "respond-envido") = IF MayAnswerEnvido(m) THEN Both("respond-envido") ELSE {}
      BY OfferIs DEF Of, Both
    <3>2. asked = Of(Offers(m), "respond-truco") \cup Of(Offers(m), "respond-envido")
      BY <2>2 DEF QuestionFor
    <3>3. envido.status # "accepted" => MayAnswerTruco(m) \/ MayAnswerEnvido(m)
      BY <2>2, AskedIsOwed DEF Mates
    <3>4. Both("respond-truco") # {} /\ Both("respond-envido") # {}
      BY DEF Both
    <3>5. QED
      BY <2>2, <3>1, <3>2, <3>3, <3>4
  <2>3. QED
    BY <2>1, <2>2
<1>2. ASSUME asked # {}, NEW tier \in BotTiers
      PROVE  BotMoves(tier, m, asked, "unasked") \subseteq asked
  <2>1. \A n \in asked : /\ n.type \in {"respond-truco", "respond-envido"}
                         /\ n = [type |-> n.type, yes |-> n.yes] /\ n.yes \in BOOLEAN
    BY <1>1 DEF Both
  <2>2. \A b \in BOOLEAN : /\ Of(asked, "respond-truco") # {} =>
                                [type |-> "respond-truco", yes |-> b] \in asked
                           /\ Of(asked, "respond-envido") # {} =>
                                [type |-> "respond-envido", yes |-> b] \in asked
    BY <1>1 DEF Both, Of
  <2>3. Of(asked, "send-sena") = {}
    BY <2>1 DEF Of
  <2>4. Signals(tier, m, asked) = {}
    BY <2>3, SignsOffered
  <2>5. PICK L : L = (IF tier = "easy" THEN EasyLadder(m, asked)
                      ELSE Ladder(tier, m, asked, "unasked"))
    OBVIOUS
  <2>6. BotMoves(tier, m, asked, "unasked") = L
    BY <2>4, <2>5 DEF BotMoves
  <2>7. L \subseteq asked
    <3>1. PICK n \in asked : TRUE
      BY <1>2
    <3>2. "yes" \in DOMAIN n /\ n \in Of(asked, n.type)
      BY <2>1 DEF Of
    <3>3. CASE tier = "easy"
      BY <2>5, <3>2, <3>3 DEF EasyLadder
    <3>4. CASE tier # "easy"
      <4>1. PICK F, E : /\ F = Favors(tier, HandPower(hands[m]), AcceptTruco)
                        /\ E = Favors(tier, DealtPoints(m), AcceptEnvido)
        OBVIOUS
      <4>2. F \subseteq BOOLEAN /\ E \subseteq BOOLEAN
        BY <4>1, FavorsOne
      <4>3. \/ /\ Of(asked, "respond-truco") # {}
               /\ L = { [type |-> "respond-truco", yes |-> y] : y \in F }
            \/ /\ Of(asked, "respond-envido") # {}
               /\ L = { [type |-> "respond-envido", yes |-> y] : y \in E }
        BY <2>1, <2>5, <3>2, <3>4, <4>1 DEF Ladder
      <4>4. QED
        BY <2>2, <4>2, <4>3
    <3>5. QED
      BY <3>3, <3>4
  <2>8. QED
    BY <2>6, <2>7
<1>3. QED
  BY <1>1, <1>2

\* A card is of one group of power.
LEMMA PowerIs ==
  ASSUME NEW c \in Cards, NEW i \in 1 .. 14, c \in PowerGroups[i],
         \A j \in 1 .. 14 : c \in PowerGroups[j] => j = i
  PROVE  Power(c) = 15 - i
<1>1. DOMAIN PowerGroups = 1 .. 14
  BY DEF PowerGroups
<1>2. (CHOOSE j \in DOMAIN PowerGroups : c \in PowerGroups[j]) = i
  BY <1>1
<1>3. QED
  BY <1>2 DEF Power, PowerById

\* The vocabulary is in the order of the cards' power, and both readings of it agree.
LEMMA SenaPower ==
  ASSUME NEW c \in Cards
  PROVE  /\ \A k \in 1 .. 6 : SignalFor(c) = Senas[k] => Power(c) = 15 - k
         /\ SignalFor(c) # NoSena =>
              c \in Backing(SignalFor(c)) /\ \E k \in 1 .. 6 : SignalFor(c) = Senas[k]
<1>1. PICK r \in Ranks, u \in Suits : c = <<r, u>>
  BY DEF Cards
<1>2. c[1] = r /\ u \in {"espada", "basto", "oro", "copa"}
        /\ r \in {1, 2, 3, 4, 5, 6, 7, 10, 11, 12}
  BY <1>1 DEF Suits, Ranks
<1>3. /\ Senas[1] = "asDeEspada" /\ Senas[2] = "asDeBasto" /\ Senas[3] = "sieteDeEspada"
      /\ Senas[4] = "sieteDeOro" /\ Senas[5] = "tres" /\ Senas[6] = "dos"
  BY DEF Senas
<1> DEFINE Named(i) == /\ Power(c) = 15 - i /\ SignalFor(c) = Senas[i]
                       /\ c \in Backing(Senas[i]) /\ i \in 1 .. 6
<1>4. ASSUME r = 1 /\ u = "espada" PROVE \E i : Named(i)
  <2>1. c \in PowerGroups[1] /\ \A j \in 1 .. 14 : c \in PowerGroups[j] => j = 1
    BY <1>1, <1>4 DEF PowerGroups, Suits
  <2>2. SignalFor(c) = Senas[1] /\ c \in Backing(Senas[1])
    BY <1>1, <1>3, <1>4 DEF SignalFor, Backing
  <2>3. Named(1)
    BY <2>1, <2>2, PowerIs
  <2>4. QED
    BY <2>3
<1>5. ASSUME r = 1 /\ u = "basto" PROVE \E i : Named(i)
  <2>1. c \in PowerGroups[2] /\ \A j \in 1 .. 14 : c \in PowerGroups[j] => j = 2
    BY <1>1, <1>5 DEF PowerGroups, Suits
  <2>2. SignalFor(c) = Senas[2] /\ c \in Backing(Senas[2])
    BY <1>1, <1>3, <1>5 DEF SignalFor, Backing
  <2>3. Named(2)
    BY <2>1, <2>2, PowerIs
  <2>4. QED
    BY <2>3
<1>6. ASSUME r = 7 /\ u = "espada" PROVE \E i : Named(i)
  <2>1. c \in PowerGroups[3] /\ \A j \in 1 .. 14 : c \in PowerGroups[j] => j = 3
    BY <1>1, <1>6 DEF PowerGroups, Suits
  <2>2. SignalFor(c) = Senas[3] /\ c \in Backing(Senas[3])
    BY <1>1, <1>3, <1>6 DEF SignalFor, Backing
  <2>3. Named(3)
    BY <2>1, <2>2, PowerIs
  <2>4. QED
    BY <2>3
<1>7. ASSUME r = 7 /\ u = "oro" PROVE \E i : Named(i)
  <2>1. c \in PowerGroups[4] /\ \A j \in 1 .. 14 : c \in PowerGroups[j] => j = 4
    BY <1>1, <1>7 DEF PowerGroups, Suits
  <2>2. SignalFor(c) = Senas[4] /\ c \in Backing(Senas[4])
    BY <1>1, <1>3, <1>7 DEF SignalFor, Backing
  <2>3. Named(4)
    BY <2>1, <2>2, PowerIs
  <2>4. QED
    BY <2>3
<1>8. ASSUME r = 3 PROVE \E i : Named(i)
  <2>1. c \in PowerGroups[5] /\ \A j \in 1 .. 14 : c \in PowerGroups[j] => j = 5
    BY <1>1, <1>8 DEF PowerGroups, Suits
  <2>2. SignalFor(c) = Senas[5] /\ c \in Backing(Senas[5])
    BY <1>1, <1>3, <1>8 DEF SignalFor, Backing
  <2>3. Named(5)
    BY <2>1, <2>2, PowerIs
  <2>4. QED
    BY <2>3
<1>9. ASSUME r = 2 PROVE \E i : Named(i)
  <2>1. c \in PowerGroups[6] /\ \A j \in 1 .. 14 : c \in PowerGroups[j] => j = 6
    BY <1>1, <1>9 DEF PowerGroups, Suits
  <2>2. SignalFor(c) = Senas[6] /\ c \in Backing(Senas[6])
    BY <1>1, <1>3, <1>9 DEF SignalFor, Backing
  <2>3. Named(6)
    BY <2>1, <2>2, PowerIs
  <2>4. QED
    BY <2>3
<1>10. \A i, k \in 1 .. 6 : Senas[i] = Senas[k] => i = k
  BY <1>3
<1>11. \A i \in 1 .. 6 : Senas[i] # NoSena
  BY <1>3 DEF NoSena
<1>12. ASSUME NEW i, Named(i)
       PROVE  /\ \A k \in 1 .. 6 : SignalFor(c) = Senas[k] => Power(c) = 15 - k
              /\ SignalFor(c) # NoSena =>
                   c \in Backing(SignalFor(c)) /\ \E k \in 1 .. 6 : SignalFor(c) = Senas[k]
  BY <1>10, <1>12
<1>13. CASE /\ ~(r = 1 /\ u = "espada") /\ ~(r = 1 /\ u = "basto")
           /\ ~(r = 7 /\ u = "espada") /\ ~(r = 7 /\ u = "oro") /\ r # 3 /\ r # 2
  <2>1. SignalFor(c) = NoSena
    <3>1. c # <<1, "espada">> /\ c # <<1, "basto">> /\ c # <<7, "espada">> /\ c # <<7, "oro">>
            /\ c[1] # 3 /\ c[1] # 2
      BY <1>1, <1>2, <1>13
    <3>2. QED
      BY <3>1 DEF SignalFor
  <2>2. QED
    BY <1>11, <2>1
<1>14. QED
  BY <1>4, <1>5, <1>6, <1>7, <1>8, <1>9, <1>12, <1>13

LEMMA BestNamed ==
  ASSUME HandInv
  PROVE  SenaNamesTheBest
<1> SUFFICES ASSUME NEW s \in TrucoSeats, NEW g \in Honest(hands[s]), NEW c \in hands[s],
                    SignalFor(c) # NoSena
             PROVE  \E d \in hands[s] \cap Backing(g) : Power(d) >= Power(c)
  BY DEF SenaNamesTheBest
<1>1. hands[s] \subseteq Cards
  BY DEF HandInv, SeatsOK
<1>2. PICK held : held = { i \in DOMAIN Senas : \E e \in hands[s] : SignalFor(e) = Senas[i] }
  OBVIOUS
<1>3. DOMAIN Senas = 1 .. 6
  BY DEF Senas
<1>4. PICK k \in 1 .. 6 : SignalFor(c) = Senas[k] /\ Power(c) = 15 - k
  BY <1>1, SenaPower
<1>5. k \in held /\ held \in SUBSET Nat
  BY <1>2, <1>3, <1>4
<1>6. PICK i \in held : i = Min(held) /\ i <= k
  BY <1>5, MinIs
<1>7. g = Senas[i]
  BY <1>2, <1>5, <1>6 DEF Honest
<1>8. PICK d \in hands[s] : SignalFor(d) = Senas[i]
  BY <1>2
<1>9. i \in 1 .. 6 /\ Senas[i] # NoSena
  BY <1>2, <1>3 DEF Senas, NoSena
<1>10. Power(d) = 15 - i /\ d \in Backing(g)
  BY <1>1, <1>7, <1>8, <1>9, SenaPower
<1>11. 15 - i >= 15 - k
  BY <1>6, <1>9
<1>12. QED
  BY <1>4, <1>8, <1>10, <1>11

\* The best a team has on the table is the best of the cards it has there.
LEMMA BestBounds ==
  ASSUME NEW seats, NEW ps \in PlaysAt(seats), NEW t
  PROVE  \A i \in DOMAIN ps : Team(ps[i].seat) = t => Power(ps[i].card) <= Best(ps, t)
<1> DEFINE powers == { Power(p.card) : p \in { q \in Range(ps) : Team(q.seat) = t } }
<1>1. ASSUME NEW p \in Range(ps) PROVE Power(p.card) \in 1 .. 14
  <2>1. PICK i \in DOMAIN ps : p = ps[i]
    BY DEF Range
  <2>2. ps[i] \in PlayAt(seats)
    BY DEF PlaysAt
  <2>3. QED
    BY <2>1, <2>2, PowerOfCard DEF PlayAt
<1>2. {0} \cup powers \in SUBSET (0 .. 14) /\ {0} \cup powers # {}
  BY <1>1
<1>3. Best(ps, t) = Max({0} \cup powers)
  BY DEF Best
<1>4. ASSUME NEW i \in DOMAIN ps, Team(ps[i].seat) = t PROVE Power(ps[i].card) \in powers
  <2>1. ps[i] \in Range(ps)
    BY DEF Range
  <2>2. QED
    BY <1>4, <2>1
<1> HIDE DEF powers
<1>5. QED
  BY <1>2, <1>3, <1>4, MaxIs

\* One more card on the table: the side it is of may have gained, the other has not.
LEMMA BestAfter ==
  ASSUME NEW seats, NEW ps \in PlaysAt(seats), NEW play \in PlayAt(seats), NEW t
  PROVE  LET after == Append(ps, play) IN
         /\ after \in PlaysAt(seats)
         /\ Team(play.seat) # t => Best(after, t) = Best(ps, t)
         /\ Team(play.seat) = t => Best(after, t) >= Best(ps, t)
<1>1. PICK qs : qs = Append(ps, play)
  OBVIOUS
<1>2. PICK k \in Nat : k = Len(ps) /\ DOMAIN ps = 1 .. k
  BY DEF PlaysAt
<1>3. /\ qs \in PlaysAt(seats) /\ DOMAIN qs = 1 .. k + 1 /\ qs[k + 1] = play
      /\ \A i \in 1 .. k : qs[i] = ps[i]
      /\ Range(qs) = Range(ps) \cup {play}
  BY <1>1, <1>2, RangeOfAppend DEF PlaysAt
<1>4. CASE Team(play.seat) # t
  <2>1. { q \in Range(qs) : Team(q.seat) = t } = { q \in Range(ps) : Team(q.seat) = t }
    BY <1>3, <1>4
  <2>2. QED
    BY <1>1, <1>3, <1>4, <2>1 DEF Best
<1>5. CASE Team(play.seat) = t
  <2>1. PICK b \in 0 .. 14, a \in 0 .. 14 : b = Best(ps, t) /\ a = Best(qs, t)
    BY <1>3, BestIs
  <2>2. a >= b
    <3>1. CASE b = 0
      BY <3>1
    <3>2. CASE b # 0
      <4>1. PICK i \in 1 .. k : Team(ps[i].seat) = t /\ Power(ps[i].card) = b
        BY <1>2, <2>1, <3>2, BestIs
      <4>2. i \in DOMAIN qs /\ Team(qs[i].seat) = t /\ Power(qs[i].card) = b
        BY <1>3, <4>1
      <4>3. b <= a
        BY <1>3, <2>1, <4>2, BestBounds
      <4>4. QED
        BY <4>3
    <3>3. QED
      BY <3>1, <3>2
  <2>3. QED
    BY <1>1, <1>3, <1>5, <2>1, <2>2
<1>6. QED
  BY <1>4, <1>5

\* The cards on the table went round it, and the last of them to the turn's left.
InTurn == plays # <<>> => After(plays[Len(plays)].seat) = turn

LEMMA TricksRead ==
  ASSUME HandInv, InTurn
  PROVE  TricksReadRight
<1> SUFFICES ASSUME NEW s \in TrucoSeats, MayPlay(s)
             PROVE  /\ CardsOf(Rivals(s)) = {} <=> plays = <<>>
                    /\ Secured(s) =>
                         \A c \in hands[s] :
                           TrickWinner(Append(plays, [seat |-> s, card |-> c])) = Team(s)
  BY DEF TricksReadRight
<1>1. seatCount \in {2, 4} /\ plays \in PlaysAt(TrucoSeats) /\ hands[s] \subseteq Cards
        /\ Team(s) \in Teams
  BY RoundTheTable, TeamOfSeat DEF HandInv, SeatsOK
<1>2. plays = <<>> => CardsOf(Rivals(s)) = {}
  BY DEF CardsOf, Range
<1>3. ASSUME plays # <<>> PROVE CardsOf(Rivals(s)) # {}
  <2>1. PICK k \in Nat : k = Len(plays) /\ DOMAIN plays = 1 .. k /\ k # 0
    BY <1>1, <1>3 DEF PlaysAt
  <2>2. PICK p : p = plays[k]
    OBVIOUS
  <2>3. p \in PlayAt(TrucoSeats) /\ p \in Range(plays)
    BY <1>1, <2>1, <2>2 DEF PlaysAt, Range
  <2>4. PICK u \in TrucoSeats : u = p.seat
    BY <2>3 DEF PlayAt
  <2>5. After(u) = s
    BY <1>3, <2>1, <2>2, <2>4 DEF InTurn, MayPlay
  <2>6. Team(u) # Team(s)
    <3>1. CASE seatCount = 2
      BY <2>5, <3>1 DEF TrucoSeats, After, Team
    <3>2. CASE seatCount = 4
      <4>1. u \in {0, 1, 2, 3}
        BY <3>2 DEF TrucoSeats
      <4>2. QED
        BY <2>5, <3>2, <4>1 DEF After, Team
    <3>3. QED
      BY <1>1, <3>1, <3>2
  <2>7. p.card \in CardsOf(Rivals(s))
    BY <2>3, <2>4, <2>6 DEF CardsOf, Rivals
  <2>8. QED
    BY <2>7
<1>4. ASSUME Secured(s), NEW c \in hands[s]
      PROVE  TrickWinner(Append(plays, [seat |-> s, card |-> c])) = Team(s)
  <2>1. PICK play : play = [seat |-> s, card |-> c]
    OBVIOUS
  <2>2. play \in PlayAt(TrucoSeats) /\ play.seat = s
    BY <1>1, <2>1 DEF PlayAt
  <2>3. PICK qs \in PlaysAt(TrucoSeats) : qs = Append(plays, play)
    BY <1>1, <2>2, BestAfter
  <2>4. PICK t \in {0, 1}, r \in {0, 1} : t = Team(s) /\ r = Rival(t) /\ r = 1 - t /\ r # t
    BY <1>1 DEF Teams, Rival
  <2>5. PICK a \in 0 .. 14, b \in 0 .. 14, x \in 0 .. 14, y \in 0 .. 14 :
          a = Best(plays, t) /\ b = Best(plays, r) /\ x = Best(qs, t) /\ y = Best(qs, r)
    BY <1>1, BestIs
  <2>6. x >= a /\ y = b /\ a > b
    <3>1. Best(qs, t) >= Best(plays, t) /\ Best(qs, r) = Best(plays, r)
      BY <1>1, <2>2, <2>3, <2>4, BestAfter
    <3>2. QED
      BY <1>4, <2>4, <2>5, <3>1 DEF Secured
  <2>7. x > y
    BY <2>6
  <2>8. TrickWinner(qs) = t
    BY <2>4, <2>5, <2>7 DEF TrickWinner
  <2>9. QED
    BY <2>1, <2>3, <2>4, <2>8
<1>5. QED
  BY <1>2, <1>3, <1>4

\* Cards out of sight are in a hand and nowhere else: of what was dealt, a seat has seen
\* its own hand and what left another one.
OnTable == { p.card : p \in Range(plays) }
LeftHands(deal, h) == UNION { deal[u] \ h[u] : u \in TrucoSeats }
SeenAsDealt(deal) ==
  /\ \A u \in TrucoSeats : hands[u] \subseteq deal[u]
  /\ swept \cup OnTable = LeftHands(deal, hands)
Watched == dealt => \E deal \in TrucoDeals(seatCount) : SeenAsDealt(deal)

\* What is dealt is three cards a seat.
LEMMA DealtCards ==
  ASSUME SeatsOK, NEW deal \in TrucoDeals(seatCount)
  PROVE  /\ IsFiniteSet(UNION { deal[u] : u \in TrucoSeats })
         /\ Cardinality(UNION { deal[u] : u \in TrucoSeats }) = 3 * seatCount
         /\ \A u, v \in TrucoSeats : u # v => deal[u] \cap deal[v] = {}
<1>1. /\ \A u \in TrucoSeats : deal[u] \subseteq Cards /\ Cardinality(deal[u]) = 3
      /\ \A u, v \in TrucoSeats : u # v => deal[u] \cap deal[v] = {}
  BY TrucoAssumption DEF SeatsOK, TrucoSeats
<1>2. \A u \in TrucoSeats : IsFiniteSet(deal[u]) /\ Cardinality(deal[u]) = 3
  BY <1>1, CardsAreFinite, FS_Subset
<1>3. ASSUME NEW A, NEW B, IsFiniteSet(A), IsFiniteSet(B), A \cap B = {}
      PROVE  IsFiniteSet(A \cup B) /\ Cardinality(A \cup B) = Cardinality(A) + Cardinality(B)
  <2>1. Cardinality(A \cap B) = 0
    BY <1>3, FS_EmptySet
  <2>2. IsFiniteSet(A \cup B)
          /\ Cardinality(A \cup B) = Cardinality(A) + Cardinality(B) - Cardinality(A \cap B)
    BY <1>3, FS_Union
  <2>3. PICK a \in Nat, b \in Nat : a = Cardinality(A) /\ b = Cardinality(B)
    BY <1>3, FS_CardinalityType
  <2>4. QED
    BY <2>1, <2>2, <2>3
<1>4. CASE seatCount = 2
  <2>1. 0 \in TrucoSeats /\ 1 \in TrucoSeats /\ TrucoSeats = {0, 1}
    BY <1>4 DEF TrucoSeats
  <2>2. IsFiniteSet(deal[0] \cup deal[1]) /\ Cardinality(deal[0] \cup deal[1]) = 6
    BY <1>1, <1>2, <1>3, <2>1
  <2>3. UNION { deal[u] : u \in TrucoSeats } = deal[0] \cup deal[1]
    BY <2>1
  <2>4. QED
    BY <1>1, <1>4, <2>2, <2>3
<1>5. CASE seatCount = 4
  <2>1. /\ 0 \in TrucoSeats /\ 1 \in TrucoSeats /\ 2 \in TrucoSeats /\ 3 \in TrucoSeats
        /\ TrucoSeats = {0, 1, 2, 3}
    BY <1>5 DEF TrucoSeats
  <2>2. PICK A, B : A = deal[0] \cup deal[1] /\ B = deal[2] \cup deal[3]
    OBVIOUS
  <2>3. IsFiniteSet(A) /\ Cardinality(A) = 6
    BY <1>1, <1>2, <1>3, <2>1, <2>2
  <2>4. IsFiniteSet(B) /\ Cardinality(B) = 6
    BY <1>1, <1>2, <1>3, <2>1, <2>2
  <2>5. A \cap B = {}
    BY <1>1, <2>1, <2>2
  <2>6. IsFiniteSet(A \cup B) /\ Cardinality(A \cup B) = 12
    BY <1>3, <2>3, <2>4, <2>5
  <2>7. UNION { deal[u] : u \in TrucoSeats } = A \cup B
    BY <2>1, <2>2
  <2>8. QED
    BY <1>1, <1>5, <2>6, <2>7
<1>6. QED
  BY <1>4, <1>5, RoundTheTable

LEMMA PoolRight ==
  ASSUME HandInv, Watched
  PROVE  PoolIsRight
<1> SUFFICES ASSUME dealt, NEW s \in TrucoSeats
             PROVE  /\ Secrets(s) \cap Seen(s) = {}
                    /\ Cardinality(Seen(s)) + Cardinality(Secrets(s)) = 3 * seatCount
                    /\ \A m \in Mates(s) : \A c \in hands[m] :
                         SignalFor(c) = HeardFrom(m) /\ HeardFrom(m) # NoSena => c \in Forced(s, m)
  BY DEF PoolIsRight
<1>1. SeatsOK
  BY DEF HandInv
<1>2. PICK deal \in TrucoDeals(seatCount) : SeenAsDealt(deal)
  BY DEF Watched
<1>3. PICK all : all = UNION { deal[u] : u \in TrucoSeats }
  OBVIOUS
<1>4. /\ IsFiniteSet(all) /\ Cardinality(all) = 3 * seatCount
      /\ \A u, v \in TrucoSeats : u # v => deal[u] \cap deal[v] = {}
  BY <1>1, <1>3, DealtCards
<1>5. \A u \in TrucoSeats : hands[u] \subseteq deal[u]
  BY <1>2 DEF SeenAsDealt
<1>6. Seen(s) = hands[s] \cup UNION { deal[u] \ hands[u] : u \in TrucoSeats }
  BY <1>2 DEF Seen, SeenAsDealt, OnTable, LeftHands
<1>7. Secrets(s) \cap Seen(s) = {}
  <2>1. ASSUME NEW x \in Secrets(s), x \in Seen(s) PROVE FALSE
    <3>1. PICK u \in TrucoSeats : u # s /\ x \in hands[u]
      BY DEF Secrets
    <3>2. x \notin hands[s]
      BY <1>4, <1>5, <3>1
    <3>3. PICK v \in TrucoSeats : x \in deal[v] \ hands[v]
      BY <1>6, <2>1, <3>2
    <3>4. QED
      BY <1>4, <1>5, <3>1, <3>3
  <2>2. QED
    BY <2>1
<1>8. Seen(s) \cup Secrets(s) = all
  <2>1. Seen(s) \subseteq all /\ Secrets(s) \subseteq all
    BY <1>3, <1>5, <1>6 DEF Secrets
  <2>2. ASSUME NEW x \in all PROVE x \in Seen(s) \cup Secrets(s)
    <3>1. PICK u \in TrucoSeats : x \in deal[u]
      BY <1>3
    <3>2. CASE x \in hands[u]
      BY <1>6, <3>2 DEF Secrets
    <3>3. CASE x \notin hands[u]
      BY <1>6, <3>1, <3>3
    <3>4. QED
      BY <3>2, <3>3
  <2>3. QED
    BY <2>1, <2>2
<1>9. Cardinality(Seen(s)) + Cardinality(Secrets(s)) = 3 * seatCount
  <2>1. IsFiniteSet(Seen(s)) /\ IsFiniteSet(Secrets(s))
    BY <1>4, <1>8, FS_Subset
  <2>2. PICK a \in Nat, b \in Nat : a = Cardinality(Seen(s)) /\ b = Cardinality(Secrets(s))
    BY <2>1, FS_CardinalityType
  <2>3. Cardinality(Seen(s) \cap Secrets(s)) = 0
    BY <1>7, FS_EmptySet
  <2>4. Cardinality(Seen(s) \cup Secrets(s)) = a + b - 0
    BY <2>1, <2>2, <2>3, FS_Union
  <2>5. a + b - 0 = a + b
    OBVIOUS
  <2>6. a + b = 3 * seatCount
    BY <1>4, <1>8, <2>4, <2>5
  <2>7. QED
    BY <2>2, <2>6
<1>10. ASSUME NEW m \in Mates(s), NEW c \in hands[m], SignalFor(c) = HeardFrom(m),
              HeardFrom(m) # NoSena
       PROVE  c \in Forced(s, m)
  <2>1. m \in TrucoSeats /\ m # s
    BY DEF Mates
  <2>2. c \in Cards
    BY <1>1, <2>1 DEF SeatsOK
  <2>3. c \in Backing(HeardFrom(m))
    BY <1>10, <2>2, SenaPower
  <2>4. c \in Secrets(s)
    BY <2>1 DEF Secrets
  <2>5. QED
    BY <1>7, <2>2, <2>3, <2>4 DEF Forced, Pool
<1>11. QED
  BY <1>7, <1>9, <1>10

\* The best number said is said by somebody, and the first to say it is ahead.
LEMMA AheadFirst ==
  ASSUME NEW n \in {2, 4}, NEW ds \in Seq(WordsAt(0 .. n - 1)), Said(ds) # {}
  PROVE  /\ BestSaid(ds) \in 0 .. 34
         /\ \A i \in DOMAIN ds : ds[i].how = "points" =>
              ds[i].points \in 0 .. 34 /\ ds[i].points <= BestSaid(ds)
         /\ \E j \in DOMAIN ds :
              /\ ds[j].how = "points" /\ ds[j].points = BestSaid(ds)
              /\ Ahead(ds) = Team(ds[j].seat)
              /\ \A i \in DOMAIN ds :
                   ds[i].how = "points" /\ ds[i].points = BestSaid(ds) => j <= i
<1> DEFINE numbers == { d.points : d \in Said(ds) }
           S == { i \in DOMAIN ds : ds[i].how = "points" /\ ds[i].points = BestSaid(ds) }
<1>1. ASSUME NEW i \in DOMAIN ds, ds[i].how = "points"
      PROVE  ds[i].points \in 0 .. 34 /\ ds[i] \in Said(ds)
  <2>1. ds[i] \in WordsAt(0 .. n - 1) /\ ds[i] \in Range(ds)
    BY DEF Range
  <2>2. QED
    BY <1>1, <2>1 DEF WordsAt, Said
<1>2. ASSUME NEW d \in Said(ds) PROVE d.points \in 0 .. 34
  <2>1. PICK i \in DOMAIN ds : d = ds[i] /\ d.how = "points"
    BY DEF Said, Range
  <2>2. QED
    BY <1>1, <2>1
<1>3. numbers \in SUBSET (0 .. 34) /\ numbers # {} /\ BestSaid(ds) = Max(numbers)
  BY <1>2 DEF BestSaid
<1>4. \A i \in DOMAIN ds : ds[i].how = "points" => ds[i].points \in numbers
  BY <1>1
<1> HIDE DEF numbers
<1>5. BestSaid(ds) \in 0 .. 34 /\ \A x \in numbers : x <= BestSaid(ds)
  BY <1>3, MaxIs
<1>6. S # {}
  BY AheadIs
<1>7. S \in SUBSET Nat /\ S \subseteq DOMAIN ds
  OBVIOUS
<1>8. Ahead(ds) = Team(ds[Min(S)].seat)
  BY DEF Ahead
<1>9. PICK j \in S : j = Min(S) /\ \A i \in S : j <= i
  <2> HIDE DEF S
  <2>1. QED
    BY <1>6, <1>7, MinIs
<1>10. QED
  BY <1>1, <1>4, <1>5, <1>7, <1>8, <1>9

\* Who is behind and has nothing better left to say stays behind.
StaysBehind(n, ds, es, k, m, t) ==
  /\ n \in {2, 4} /\ ds \in Seq(WordsAt(0 .. n - 1)) /\ es \in Seq(WordsAt(0 .. n - 1))
  /\ k \in Nat /\ m \in Nat /\ k = Len(ds) /\ m = Len(es) /\ k <= m
  /\ \A i \in 1 .. k : es[i] = ds[i]
  /\ Said(ds) # {} /\ Ahead(ds) # t
  /\ \A i \in k + 1 .. m : Team(es[i].seat) = t => es[i].points <= BestSaid(ds)

LEMMA AheadStays ==
  ASSUME NEW n, NEW ds, NEW es, NEW k, NEW m, NEW t, StaysBehind(n, ds, es, k, m, t)
  PROVE  Ahead(es) # t
<1> /\ n \in {2, 4} /\ ds \in Seq(WordsAt(0 .. n - 1)) /\ es \in Seq(WordsAt(0 .. n - 1))
    /\ k \in Nat /\ m \in Nat /\ k = Len(ds) /\ m = Len(es) /\ k <= m
    /\ \A i \in 1 .. k : es[i] = ds[i]
    /\ Said(ds) # {} /\ Ahead(ds) # t
    /\ \A i \in k + 1 .. m : Team(es[i].seat) = t => es[i].points <= BestSaid(ds)
  BY DEF StaysBehind
<1>1. DOMAIN ds = 1 .. k /\ DOMAIN es = 1 .. m /\ \A i \in 1 .. k : i \in 1 .. m
  OBVIOUS
<1>2. Said(es) # {}
  <2>1. PICK d \in Said(ds) : TRUE
    OBVIOUS
  <2>2. PICK i \in DOMAIN ds : d = ds[i] /\ d.how = "points"
    BY DEF Said, Range
  <2>3. i \in DOMAIN es /\ es[i] = d
    BY <1>1, <2>2
  <2>4. QED
    BY <2>2, <2>3 DEF Said, Range
<1>3. PICK b \in 0 .. 34, e \in 0 .. 34 : b = BestSaid(ds) /\ e = BestSaid(es)
  BY <1>2, AheadFirst
<1>4. PICK o \in 1 .. k :
        /\ ds[o].how = "points" /\ ds[o].points = b /\ Ahead(ds) = Team(ds[o].seat)
        /\ \A i \in 1 .. k : ds[i].how = "points" /\ ds[i].points = b => o <= i
  BY <1>1, <1>3, AheadFirst
<1>5. PICK j \in 1 .. m :
        /\ es[j].how = "points" /\ es[j].points = e /\ Ahead(es) = Team(es[j].seat)
        /\ \A i \in 1 .. m : es[i].how = "points" /\ es[i].points = e => j <= i
  BY <1>1, <1>2, <1>3, AheadFirst
<1>6. o \in 1 .. m /\ es[o].how = "points" /\ es[o].points = b
  BY <1>1, <1>4
<1>7. b <= e
  <2>1. \A i \in DOMAIN es : es[i].how = "points" => es[i].points <= BestSaid(es)
    BY <1>2, AheadFirst
  <2>2. QED
    BY <1>1, <1>3, <1>6, <2>1
<1>8. CASE j \in 1 .. k
  <2>1. ds[j].how = "points" /\ ds[j].points = e
    BY <1>5, <1>8
  <2>2. e <= b
    <3>1. \A i \in DOMAIN ds : ds[i].how = "points" => ds[i].points <= BestSaid(ds)
      BY AheadFirst
    <3>2. QED
      BY <1>1, <1>3, <1>8, <2>1, <3>1
  <2>3. e = b
    <3>1. \A x, y \in 0 .. 34 : x <= y /\ y <= x => x = y
      OBVIOUS
    <3>2. QED
      BY <1>7, <2>2, <3>1
  <2>4. o <= j /\ j <= o
    BY <1>4, <1>5, <1>6, <1>8, <2>1, <2>3
  <2>5. o = j
    BY <2>4
  <2>6. QED
    BY <1>4, <1>5, <1>8, <2>5
<1>9. CASE j \in k + 1 .. m
  <2>1. ASSUME Team(es[j].seat) = t PROVE FALSE
    <3>1. e <= b
      BY <1>3, <1>5, <1>9, <2>1
    <3>2. e = b
      BY <1>7, <3>1
    <3>3. j <= o
      BY <1>5, <1>6, <3>2
    <3>4. QED
      BY <1>9, <3>3
  <2>2. QED
    BY <1>5, <2>1
<1>10. QED
  BY <1>8, <1>9

\* Seats speak in turn, from the mano on.
SpokenInOrder ==
  envido.status = "accepted" =>
    /\ Len(envido.said) < seatCount
    /\ \A i \in 1 .. Len(envido.said) : envido.said[i].seat = (mano + (i - 1)) % seatCount

\* Round the table: of the seats to speak after its own, none but partners that have
\* spoken would be of its side.
LEMMA RoundToSpeak ==
  ASSUME NEW n \in {2, 4}, NEW m \in 0 .. n - 1, NEW k \in 0 .. n - 1, NEW j \in k + 1 .. n
  PROVE  /\ (((m + k) % n) + (j - k) - 1) % n = (m + (j - 1)) % n
         /\ (m + (j - 1)) % n \in 0 .. n - 1
         /\ j = k + 1 => (m + (j - 1)) % n = (m + k) % n
         /\ j # k + 1 => (m + (j - 1)) % n # (m + k) % n
         /\ \A i \in 1 .. k : (m + (i - 1)) % n # (m + (j - 1)) % n
<1>1. CASE n = 2
  <2>1. m \in {0, 1} /\ k \in {0, 1} /\ j \in {1, 2}
    BY <1>1
  <2>2. QED
    BY <1>1, <2>1
<1>2. CASE n = 4
  <2>1. m \in {0, 1, 2, 3} /\ k \in {0, 1, 2, 3} /\ j \in {1, 2, 3, 4}
    BY <1>2
  <2>2. QED
    BY <1>2, <2>1
<1>3. QED
  BY <1>1, <1>2

\* The number of what a seat was dealt.
LEMMA NumberDealt ==
  ASSUME HandInv, dealt, tricks = <<>>, NEW u \in TrucoSeats
  PROVE  DealtPoints(u) \in 0 .. 34
<1>1. PICK deal \in TrucoDeals(seatCount) : AsDealt(deal)
  BY DEF HandInv, DealOK
<1>2. DealtTo(u) = deal[u]
  BY <1>1 DEF AsDealt
<1>3. deal[u] \subseteq Cards /\ Cardinality(deal[u]) = 3
  BY TrucoAssumption DEF HandInv, SeatsOK, TrucoSeats
<1>4. deal[u] # {}
  <2>1. Cardinality({}) = 0
    BY FS_EmptySet
  <2>2. ASSUME deal[u] = {} PROVE FALSE
    <3>1. Cardinality(deal[u]) = 0 /\ Cardinality(deal[u]) = 3
      BY <1>3, <2>1, <2>2
    <3>2. QED
      BY <3>1
  <2>3. QED
    BY <2>2
<1>5. QED
  BY <1>2, <1>3, <1>4, EnvidoPointsIs DEF DealtPoints

\* A list and its continuation.
CanJoin(X, a, k, z, f) ==
  a \in Seq(X) /\ k \in Nat /\ z \in Nat /\ k = Len(a) /\ f \in [1 .. z -> X]
IsJoin(X, a, k, z, f, es) ==
  /\ es \in Seq(X) /\ Len(es) = k + z
  /\ \A i \in 1 .. k : es[i] = a[i]
  /\ \A i \in 1 .. z : es[k + i] = f[i]

LEMMA OneOfTwo ==
  ASSUME NEW X, NEW a, NEW k, NEW z, NEW f, CanJoin(X, a, k, z, f)
  PROVE  IsJoin(X, a, k, z, f, a \o f)
<1> a \in Seq(X) /\ k \in Nat /\ z \in Nat /\ k = Len(a) /\ f \in [1 .. z -> X]
  BY DEF CanJoin
<1>1. f \in Seq(X) /\ Len(f) = z
  OBVIOUS
<1>2. /\ a \o f \in Seq(X) /\ Len(a \o f) = Len(a) + Len(f)
      /\ \A i \in 1 .. Len(a) + Len(f) :
           (a \o f)[i] = IF i <= Len(a) THEN a[i] ELSE f[i - Len(a)]
  BY <1>1, ConcatProperties
<1>3. \A i \in 1 .. k + z : (a \o f)[i] = IF i <= k THEN a[i] ELSE f[i - k]
  BY <1>1, <1>2
<1>4. /\ \A i \in 1 .. k : i \in 1 .. k + z /\ i <= k
      /\ \A i \in 1 .. z : k + i \in 1 .. k + z /\ ~(k + i <= k) /\ (k + i) - k = i
  OBVIOUS
<1>5. QED
  BY <1>1, <1>2, <1>3, <1>4 DEF IsJoin

LEMMA BotsConcede ==
  ASSUME HandInv, SpokenInOrder
  PROVE  ConcedesNothing
<1> SUFFICES ASSUME NEW s \in TrucoSeats, Concedes(s), NEW rest,
                    rest = [ i \in 1 .. seatCount - Len(envido.said) |->
                               LET u == (Declarer + i - 1) % seatCount
                               IN  [seat |-> u, how |-> "points", points |-> DealtPoints(u)] ]
             PROVE  Ahead(envido.said \o rest) # Team(s)
  BY DEF ConcedesNothing
<1>1. /\ HandOn /\ envido.status = "accepted" /\ Declarer = s
      /\ Said(envido.said) # {} /\ DealtPoints(s) <= BestSaid(envido.said)
      /\ Ahead(envido.said) # Team(s)
      /\ \A m \in Mates(s) : \E d \in Range(envido.said) : d.seat = m
  BY DEF Concedes, MayDeclare
<1>2. PICK n \in {2, 4} : n = seatCount
  BY RoundTheTable DEF HandInv
<1>3. TrucoSeats = 0 .. n - 1
  BY <1>2 DEF TrucoSeats
<1>4. PICK ds \in Seq(WordsAt(0 .. n - 1)) : ds = envido.said
  BY <1>1, <1>3 DEF HandInv, EnvidoOK, EnvidoRecords, None
<1>5. PICK k \in 0 .. n - 1 : k = Len(ds)
  BY <1>1, <1>2, <1>4 DEF SpokenInOrder
<1>6. PICK m \in 0 .. n - 1 : m = mano
  BY <1>3, RoundTheTable DEF HandInv
<1>7. \A i \in 1 .. k : ds[i].seat = (m + (i - 1)) % n
  BY <1>1, <1>2, <1>4, <1>5, <1>6 DEF SpokenInOrder
<1>8. Declarer = (m + k) % n
  BY <1>2, <1>4, <1>5, <1>6 DEF Declarer
<1>9. dealt /\ tricks = <<>>
  BY <1>1 DEF HandOn, HandInv, EnvidoOK, EnvidoOpen
<1>10. PICK z \in 1 .. n : z = n - k /\ z \in Nat /\ k \in Nat /\ n \in Nat /\ k + z = n
  <2>1. n - k \in 1 .. n /\ k + (n - k) = n /\ n - k \in Nat
    OBVIOUS
  <2>2. QED
    BY <2>1
<1>11. DOMAIN rest = 1 .. z /\ rest = [i \in 1 .. z |-> rest[i]]
  BY <1>2, <1>4, <1>5, <1>10
<1>12. ASSUME NEW i \in 1 .. z
       PROVE  LET u == (m + ((k + i) - 1)) % n IN
              /\ rest[i] = [seat |-> u, how |-> "points", points |-> DealtPoints(u)]
              /\ u \in TrucoSeats /\ DealtPoints(u) \in 0 .. 34
  <2>1. PICK j \in k + 1 .. n : j = k + i /\ j - k = i
    <3>1. k + i \in k + 1 .. n /\ (k + i) - k = i
      BY <1>10
    <3>2. QED
      BY <3>1
  <2>2. PICK u \in 0 .. n - 1 : u = (m + (j - 1)) % n
    BY RoundToSpeak
  <2>3. (((m + k) % n) + (j - k) - 1) % n = u
    BY <2>2, RoundToSpeak
  <2>4. (Declarer + i - 1) % seatCount = u
    BY <1>2, <1>8, <2>1, <2>3
  <2>5. rest[i] = [seat |-> u, how |-> "points", points |-> DealtPoints(u)]
    BY <1>2, <1>4, <1>5, <1>10, <2>4
  <2>6. DealtPoints(u) \in 0 .. 34
    BY <1>3, <1>9, NumberDealt
  <2>7. QED
    BY <1>3, <2>1, <2>2, <2>5, <2>6
<1>13. rest \in [1 .. z -> WordsAt(0 .. n - 1)]
  <2>1. ASSUME NEW i \in 1 .. z PROVE rest[i] \in WordsAt(0 .. n - 1)
    <3>1. PICK u : u = (m + ((k + i) - 1)) % n
      OBVIOUS
    <3>2. /\ rest[i] = [seat |-> u, how |-> "points", points |-> DealtPoints(u)]
          /\ u \in 0 .. n - 1 /\ DealtPoints(u) \in 0 .. 34
      BY <1>3, <1>12, <3>1
    <3>3. QED
      BY <3>2 DEF WordsAt
  <2>2. QED
    BY <1>11, <2>1
<1>14. PICK es : es = ds \o rest
  OBVIOUS
<1>15. /\ es \in Seq(WordsAt(0 .. n - 1)) /\ Len(es) = n
       /\ \A i \in 1 .. k : es[i] = ds[i]
       /\ \A i \in 1 .. z : es[k + i] = rest[i]
  <2>1. PICK X : X = WordsAt(0 .. n - 1)
    OBVIOUS
  <2>2. CanJoin(X, ds, k, z, rest)
    BY <1>5, <1>10, <1>13, <2>1 DEF CanJoin
  <2>3. IsJoin(X, ds, k, z, rest, es)
    BY <1>14, <2>2, OneOfTwo
  <2>4. QED
    BY <1>10, <2>1, <2>3 DEF IsJoin
<1>16. ASSUME NEW j \in k + 1 .. n, Team(es[j].seat) = Team(s)
       PROVE  es[j].points <= BestSaid(ds)
  <2>1. PICK u : u = (m + (j - 1)) % n
    OBVIOUS
  <2>2. PICK i \in 1 .. z : j = k + i
    <3>1. j - k \in 1 .. z /\ j = k + (j - k)
      BY <1>10
    <3>2. QED
      BY <3>1
  <2>3. /\ es[j] = [seat |-> u, how |-> "points", points |-> DealtPoints(u)]
        /\ u \in TrucoSeats
    BY <1>12, <1>15, <2>1, <2>2
  <2>4. CASE j = k + 1
    <3>1. u = (m + k) % n
      BY <2>1, <2>4, RoundToSpeak
    <3>2. u = s
      BY <1>1, <1>8, <3>1
    <3>3. QED
      BY <1>1, <1>4, <2>3, <3>2
  <2>5. CASE j # k + 1
    <3>1. u # (m + k) % n
      BY <2>1, <2>5, RoundToSpeak
    <3>2. u # s
      BY <1>1, <1>8, <3>1
    <3>3. u \in Mates(s)
      BY <1>16, <2>3, <3>2 DEF Mates
    <3>4. PICK d \in Range(ds) : d.seat = u
      BY <1>1, <1>4, <3>3
    <3>5. PICK o \in 1 .. k : d = ds[o]
      BY <1>5 DEF Range
    <3>6. (m + (o - 1)) % n = u
      BY <1>7, <3>4, <3>5
    <3>7. (m + (o - 1)) % n # u
      <4>1. \A x \in 1 .. k : (m + (x - 1)) % n # (m + (j - 1)) % n
        BY RoundToSpeak
      <4>2. QED
        BY <2>1, <4>1
    <3>8. QED
      BY <3>6, <3>7
  <2>6. QED
    BY <2>4, <2>5
<1>17. Ahead(es) # Team(s)
  <2>1. StaysBehind(n, ds, es, k, n, Team(s))
    <3>1. /\ k = Len(ds) /\ n = Len(es) /\ k \in Nat /\ n \in Nat /\ k <= n
          /\ Said(ds) # {} /\ Ahead(ds) # Team(s)
      BY <1>1, <1>4, <1>5, <1>10, <1>15
    <3>2. QED
      BY <1>15, <1>16, <3>1 DEF StaysBehind
  <2>2. QED
    BY <2>1, AheadStays
<1>18. QED
  BY <1>4, <1>14, <1>17

\* What the bots' reading of the table rests on.
TableInv == InTurn /\ SpokenInOrder /\ Watched
BotsInv  == TrucoPortInv /\ TableInv

LEMMA BotsInitInv == BotsInit => BotsInv
<1> SUFFICES ASSUME BotsInit PROVE TableInv
  BY TrucoPortInit DEF BotsInit, BotsInv
<1>1. plays = <<>> /\ envido = None /\ dealt = FALSE
  BY DEF BotsInit, TrucoInit
<1>2. envido.status # "accepted"
  BY <1>1 DEF None
<1>3. QED
  BY <1>1, <1>2 DEF TableInv, InTurn, SpokenInOrder, Watched

\* A new hand: nothing has been seen of it yet.
LEMMA DealSeen ==
  ASSUME HandInv, NEW deal \in TrucoDeals(seatCount), StartHand(deal), WatchPlay
  PROVE  TableInv'
<1>1. plays' = <<>> /\ tricks' = <<>> /\ envido' = None /\ hands' = deal
        /\ seatCount' = seatCount
  BY DEF StartHand
<1>2. ~HandOn
  BY DEF StartHand, SystemDeals, HandOn
<1>3. swept' = {}
  BY <1>2 DEF WatchPlay
<1>4. TrucoSeats' = TrucoSeats
  BY <1>1 DEF TrucoSeats
<1>5. InTurn'
  BY <1>1 DEF InTurn
<1>6. SpokenInOrder'
  BY <1>1 DEF SpokenInOrder, None
<1>7. Watched'
  <2>1. OnTable' = {}
    <3>1. Range(plays') = {}
      BY <1>1 DEF Range
    <3>2. QED
      BY <3>1 DEF OnTable
  <2>2. LeftHands(deal, hands)' = {}
    BY <1>1, <1>4 DEF LeftHands
  <2>3. SeenAsDealt(deal)'
    BY <1>1, <1>3, <1>4, <2>1, <2>2 DEF SeenAsDealt
  <2>4. QED
    BY <1>1, <2>3 DEF Watched
<1>8. QED
  BY <1>5, <1>6, <1>7 DEF TableInv

\* A card to the table: it leaves the hand in sight of all.
LEMMA PlaySeen ==
  ASSUME HandInv, TableInv, NEW s \in TrucoSeats, NEW c \in hands[s], PlayCard(s, c), WatchPlay
  PROVE  TableInv'
<1>1. seatCount' = seatCount /\ TrucoSeats' = TrucoSeats /\ envido' = envido
        /\ dealer' = dealer /\ dealt' = dealt
  BY DEF PlayCard, TrucoSeats, calls
<1>2. HandOn /\ turn = s /\ ~EnvidoOpen /\ dealt
  BY DEF PlayCard, MayPlay, HandOn
<1>3. PICK play : play = [seat |-> s, card |-> c]
  OBVIOUS
<1>4. play \in PlayAt(TrucoSeats) /\ play.seat = s /\ play.card = c
  BY <1>3 DEF HandInv, SeatsOK, PlayAt
<1>5. PICK h : h = hands' /\ h = [hands EXCEPT ![s] = hands[s] \ {c}]
  BY DEF PlayCard
<1>6. hands \in [TrucoSeats -> SUBSET Cards] /\ plays \in PlaysAt(TrucoSeats)
  BY DEF HandInv, SeatsOK
<1>7. h[s] = hands[s] \ {c} /\ \A u \in TrucoSeats : u # s => h[u] = hands[u]
  BY <1>5, <1>6
<1>8. PICK k \in Nat : k = Len(plays)
  BY <1>6 DEF PlaysAt
<1>9. PICK qs : /\ qs = Append(plays, play) /\ Len(qs) = k + 1 /\ qs[k + 1] = play
                /\ Range(qs) = Range(plays) \cup {play}
  <2>1. plays \in Seq(PlayAt(TrucoSeats)) /\ Len(plays) = k
    BY <1>6, <1>8 DEF PlaysAt
  <2>2. PICK qs : qs = Append(plays, play)
    OBVIOUS
  <2>3. /\ Len(qs) = k + 1 /\ qs[k + 1] = play
        /\ Range(qs) = Range(plays) \cup {play}
    BY <1>4, <2>1, <2>2, RangeOfAppend
  <2>4. QED
    BY <2>2, <2>3
<1>10. \/ plays' = qs /\ turn' = After(s) /\ tricks' = tricks
       \/ CloseTrick(qs)
  BY <1>3, <1>9 DEF PlayCard
<1>11. InTurn'
  <2>1. CASE plays' = qs /\ turn' = After(s)
    <3>1. Len(plays') = k + 1 /\ plays'[Len(plays')] = play
      BY <1>9, <2>1
    <3>2. After(s)' = After(s)
      BY <1>1 DEF After
    <3>3. After(plays[Len(plays)].seat)' = turn'
      BY <1>1, <1>4, <2>1, <3>1, <3>2 DEF After
    <3>4. QED
      BY <3>3 DEF InTurn
  <2>2. CASE CloseTrick(qs)
    BY <2>2 DEF CloseTrick, InTurn
  <2>3. QED
    BY <1>10, <2>1, <2>2
<1>12. SpokenInOrder'
  BY <1>1, <1>2 DEF EnvidoOpen, SpokenInOrder
<1>13. Watched'
  <2>1. PICK deal \in TrucoDeals(seatCount) : SeenAsDealt(deal)
    BY <1>2 DEF TableInv, Watched
  <2>2. swept' \cup OnTable' = swept \cup OnTable \cup {c}
    <3>1. CASE plays' = qs /\ tricks' = tricks
      <4>1. OnTable' = OnTable \cup {c}
        BY <1>4, <1>9, <3>1 DEF OnTable
      <4>2. swept' = swept
        BY <1>2, <3>1 DEF WatchPlay
      <4>3. QED
        BY <4>1, <4>2
    <3>2. CASE CloseTrick(qs)
      <4>1. PICK w : w = TrickWinner(qs)
        OBVIOUS
      <4>2. plays' = <<>> /\ tricks' = Append(tricks, w)
        BY <3>2, <4>1 DEF CloseTrick
      <4>3. tricks' # tricks
        <5>1. w \in Outcomes /\ tricks \in Seq(Outcomes)
          BY <4>1 DEF TrickWinner, Outcomes, Teams, HandInv, TricksOK
        <5>2. PICK b \in Nat : b = Len(tricks)
          BY <5>1
        <5>3. Len(tricks') = b + 1
          BY <4>2, <5>1, <5>2, RangeOfAppend
        <5>4. QED
          BY <5>2, <5>3
      <4>4. swept' = swept \cup OnTable \cup (hands[s] \ h[s])
        BY <1>2, <1>5, <4>3 DEF WatchPlay, OnTable
      <4>5. hands[s] \ h[s] = {c}
        BY <1>7
      <4>6. OnTable' = {}
        <5>1. Range(plays') = {}
          BY <4>2 DEF Range
        <5>2. QED
          BY <5>1 DEF OnTable
      <4>7. QED
        BY <4>4, <4>5, <4>6
    <3>3. QED
      BY <1>10, <3>1, <3>2
  <2>3. \A u \in TrucoSeats : hands[u] \subseteq deal[u]
    BY <2>1 DEF SeenAsDealt
  <2>4. LeftHands(deal, h) = LeftHands(deal, hands) \cup {c}
    <3>1. ASSUME NEW g, NEW x
          PROVE  x \in LeftHands(deal, g)
                  <=> \E u \in TrucoSeats : x \in deal[u] /\ x \notin g[u]
      BY DEF LeftHands
    <3>2. ASSUME NEW x \in LeftHands(deal, h) PROVE x \in LeftHands(deal, hands) \cup {c}
      <4>1. PICK u \in TrucoSeats : x \in deal[u] /\ x \notin h[u]
        BY <3>1
      <4>2. x = c \/ x \notin hands[u]
        BY <1>7, <4>1
      <4>3. QED
        BY <3>1, <4>1, <4>2
    <3>3. ASSUME NEW x \in LeftHands(deal, hands) \cup {c} PROVE x \in LeftHands(deal, h)
      <4>1. CASE x = c
        <5>1. x \in deal[s] /\ x \notin h[s]
          BY <1>7, <2>3, <4>1
        <5>2. QED
          BY <3>1, <5>1
      <4>2. CASE x \in LeftHands(deal, hands)
        <5>1. PICK u \in TrucoSeats : x \in deal[u] /\ x \notin hands[u]
          BY <3>1, <4>2
        <5>2. x \notin h[u]
          BY <1>7, <5>1
        <5>3. QED
          BY <3>1, <5>1, <5>2
      <4>3. QED
        BY <3>3, <4>1, <4>2
    <3>4. QED
      BY <3>2, <3>3
  <2>5. SeenAsDealt(deal)'
    <3>1. swept \cup OnTable = LeftHands(deal, hands)
      BY <2>1 DEF SeenAsDealt
    <3>2. hands' = h
      BY <1>5
    <3>3. swept' \cup OnTable' = LeftHands(deal, hands')
      BY <2>2, <2>4, <3>1, <3>2
    <3>4. LeftHands(deal, hands)' = LeftHands(deal, hands')
      BY <1>1 DEF LeftHands
    <3>5. \A u \in TrucoSeats : hands'[u] \subseteq deal[u]
      BY <1>7, <2>3, <3>2
    <3>6. QED
      BY <1>1, <3>3, <3>4, <3>5 DEF SeenAsDealt
  <2>6. QED
    BY <1>1, <2>5 DEF Watched
<1>14. QED
  BY <1>11, <1>12, <1>13 DEF TableInv

\* A call, an answer, a question or a sign leaves the cards where they are.
LEMMA CardsStand ==
  ASSUME HandInv, TableInv, SpokenInOrder',
         UNCHANGED <<seatCount, dealt, hands, turn, plays, tricks>>,
         UNCHANGED swept
  PROVE  TableInv'
<1>1. TrucoSeats' = TrucoSeats
  BY DEF TrucoSeats
<1>2. InTurn'
  BY DEF TableInv, InTurn, After
<1>3. Watched'
  <2>1. ASSUME NEW deal PROVE SeenAsDealt(deal) => SeenAsDealt(deal)'
    BY <1>1 DEF SeenAsDealt, LeftHands, OnTable
  <2>2. QED
    BY <2>1 DEF TableInv, Watched
<1>4. QED
  BY <1>2, <1>3 DEF TableInv

\* The seats speak in turn: a word is of the seat after the last one's.
LEMMA WordInOrder ==
  ASSUME HandInv, SpokenInOrder, NEW s \in TrucoSeats, NEW how \in {"points", "sonBuenas"},
         Declare(s, how)
  PROVE  SpokenInOrder'
<1>1. seatCount' = seatCount /\ mano' = mano
  BY DEF Declare, mano, After
<1>2. /\ HandOn /\ envido.status = "accepted" /\ Declarer = s /\ dealt /\ tricks = <<>>
  BY DEF Declare, MayDeclare, HandOn, HandInv, EnvidoOK, EnvidoOpen
<1>3. PICK ds \in Seq(WordsAt(TrucoSeats)) : ds = envido.said
  BY <1>2 DEF HandInv, EnvidoOK, EnvidoRecords, None
<1>4. PICK word : word = IF how = "points"
                           THEN [seat |-> s, how |-> how, points |-> EnvidoPoints(DealtTo(s))]
                           ELSE [seat |-> s, how |-> how]
  OBVIOUS
<1>5. word \in WordsAt(TrucoSeats) /\ word.seat = s
  <2>1. DealtPoints(s) \in 0 .. 34
    BY <1>2, NumberDealt
  <2>2. QED
    BY <1>4, <2>1 DEF WordsAt, DealtPoints
<1>6. PICK k \in Nat : k = Len(ds)
  BY <1>3
<1>7. PICK es : es = Append(ds, word) /\ Len(es) = k + 1 /\ es[k + 1] = word
                  /\ \A i \in 1 .. k : es[i] = ds[i]
  <2>1. PICK es : es = Append(ds, word)
    OBVIOUS
  <2>2. Len(es) = k + 1 /\ es[k + 1] = word /\ \A i \in 1 .. k : es[i] = ds[i]
    BY <1>3, <1>5, <1>6, <2>1, RangeOfAppend
  <2>3. QED
    BY <2>1, <2>2
<1>8. envido'.status = "revealed" \/ (Len(es) < seatCount /\ envido' = [envido EXCEPT !.said = es])
  BY <1>3, <1>4, <1>7 DEF Declare
<1>9. CASE envido'.status = "revealed"
  BY <1>9 DEF SpokenInOrder
<1>10. CASE Len(es) < seatCount /\ envido' = [envido EXCEPT !.said = es]
  <2>1. envido'.said = es
    <3>1. envido \in [status : {"accepted"}, said : Seq(WordsAt(TrucoSeats)), value : Nat]
      BY <1>2 DEF HandInv, EnvidoOK, EnvidoRecords, None
    <3>2. QED
      BY <1>10, <3>1
  <2>2. s = (mano + k) % seatCount
    BY <1>2, <1>3, <1>6 DEF Declarer
  <2>3. \A i \in 1 .. k : es[i].seat = (mano + (i - 1)) % seatCount
    BY <1>2, <1>3, <1>6, <1>7 DEF SpokenInOrder
  <2>4. (k + 1) - 1 = k
    OBVIOUS
  <2>5. es[k + 1].seat = (mano + ((k + 1) - 1)) % seatCount
    BY <1>5, <1>7, <2>2, <2>4
  <2>6. \A i \in 1 .. k + 1 : es[i].seat = (mano + (i - 1)) % seatCount
    <3>1. \A i \in 1 .. k + 1 : i \in 1 .. k \/ i = k + 1
      OBVIOUS
    <3>2. QED
      BY <2>3, <2>5, <3>1
  <2>7. QED
    BY <1>1, <1>7, <1>10, <2>1, <2>6 DEF SpokenInOrder
<1>11. QED
  BY <1>8, <1>9, <1>10

LEMMA BotsStepInv == BotsInv /\ [BotsNext]_<<trucoVars, watched>> => BotsInv'
<1> SUFFICES ASSUME BotsInv, [BotsNext]_<<trucoVars, watched>> PROVE BotsInv'
  OBVIOUS
<1>1. HandInv /\ TableInv /\ TrucoPortInv /\ SpokenInOrder
  BY DEF BotsInv, TrucoPortInv, TableInv
<1>2. TrucoPortInv'
  <2>1. [TrucoNext]_trucoVars
    BY DEF BotsNext, Flash, TrucoNext
  <2>2. QED
    BY <1>1, <2>1, TrucoPortStep
<1>3. ASSUME UNCHANGED <<seatCount, dealer, dealt, hands, turn, plays, tricks, swept, envido>>
      PROVE  TableInv'
  <2>1. SpokenInOrder'
    BY <1>1, <1>3 DEF SpokenInOrder, mano, After
  <2>2. QED
    BY <1>1, <1>3, <2>1, CardsStand
<1>4. CASE UNCHANGED <<trucoVars, watched>>
  <2>1. TableInv'
    BY <1>3, <1>4 DEF trucoVars, watched, cards, calls
  <2>2. QED
    BY <1>2, <2>1 DEF BotsInv
<1>5. ASSUME NEW s \in TrucoSeats, NEW signal, Flash(s, signal) PROVE TableInv'
  BY <1>3, <1>5 DEF Flash, SendSena, Spend, cards, calls
<1>6. ASSUME TrucoMoves, WatchPlay PROVE TableInv'
  <2>1. ASSUME NEW deal \in TrucoDeals(seatCount), StartHand(deal) PROVE TableInv'
    BY <1>1, <1>6, <2>1, DealSeen
  <2>2. ASSUME NEW s \in TrucoSeats, NEW c \in hands[s], PlayCard(s, c) PROVE TableInv'
    BY <1>1, <1>6, <2>2, PlaySeen
  <2>3. ASSUME HandOn, tricks' = tricks PROVE swept' = swept
    BY <1>6, <2>3 DEF WatchPlay
  <2>4. ASSUME NEW s \in TrucoSeats,
               \/ CallTruco(s)
               \/ \E yes \in BOOLEAN : AnswerTruco(s, yes)
               \/ ConsultPartner(s)
        PROVE  TableInv'
    <3>1. HandOn
      BY <2>4 DEF CallTruco, MayCallTruco, AnswerTruco, MayAnswerTruco, ConsultPartner,
        MayConsult, MaySignal
    <3>2. UNCHANGED <<seatCount, dealer, dealt, hands, turn, plays, tricks, envido>>
      BY <2>4 DEF CallTruco, AnswerTruco, ConsultPartner, Spend, cards, calls
    <3>3. QED
      BY <1>3, <2>3, <3>1, <3>2
  <2>5. ASSUME NEW s \in TrucoSeats,
               \/ \E yes \in BOOLEAN : AnswerEnvido(s, yes)
               \/ \E l \in 1 .. 4 : CallEnvido(s, l)
               \/ \E how \in {"points", "sonBuenas"} : Declare(s, how)
        PROVE  TableInv'
    <3>1. HandOn
      BY <2>5 DEF AnswerEnvido, MayAnswerEnvido, CallEnvido, MayCallEnvido, Declare, MayDeclare
    <3>2. UNCHANGED <<seatCount, dealer, dealt, hands, turn, plays, tricks>>
      BY <2>5 DEF AnswerEnvido, CallEnvido, Declare, cards
    <3>3. swept' = swept
      BY <2>3, <3>1, <3>2
    <3>4. SpokenInOrder'
      <4>1. ASSUME NEW l \in 1 .. 4, CallEnvido(s, l) PROVE SpokenInOrder'
        BY <4>1 DEF CallEnvido, SpokenInOrder
      <4>2. ASSUME NEW yes \in BOOLEAN, AnswerEnvido(s, yes) PROVE SpokenInOrder'
        <5>1. seatCount' = seatCount /\ seatCount \in {2, 4}
          BY <1>1, <3>2, RoundTheTable DEF HandInv
        <5>2. CASE yes
          <6>1. envido'.said = <<>>
            BY <4>2, <5>2 DEF AnswerEnvido
          <6>2. Len(envido'.said) = 0
            BY <6>1
          <6>3. QED
            BY <5>1, <6>2 DEF SpokenInOrder
        <5>3. CASE ~yes
          BY <4>2, <5>3 DEF AnswerEnvido, SpokenInOrder
        <5>4. QED
          BY <5>2, <5>3
      <4>3. ASSUME NEW how \in {"points", "sonBuenas"}, Declare(s, how) PROVE SpokenInOrder'
        BY <1>1, <4>3, WordInOrder
      <4>4. QED
        BY <2>5, <4>1, <4>2, <4>3
    <3>5. QED
      BY <1>1, <3>2, <3>3, <3>4, CardsStand
  <2>6. QED
    BY <1>6, <2>1, <2>2, <2>4, <2>5 DEF TrucoMoves
<1>7. QED
  BY <1>2, <1>4, <1>5, <1>6 DEF BotsInv, BotsNext

LEMMA BotsInvRight == BotsInv => TrucoBotsRight
  BY PoolRight, BestNamed, TricksRead, BotsConcede, BotsChoose, BotsRaise, BotsAsk, QuestionsFind
     DEF BotsInv, TrucoPortInv, TableInv, TrucoBotsRight

\* At any table, with any deal and any budget of signs: what is hidden from a bot of
\* truco is what its samples deal, its sign names its best card, it throws its weakest
\* on a trick that stays its side's, gives up no envido that can still be won, asks
\* where there is an answer, and chooses one of the moves it was handed.
THEOREM BotsReadTheTable == BotsSpec => []TrucoBotsRight
  BY BotsInitInv, BotsStepInv, BotsInvRight, PTL DEF BotsSpec
=============================================================================
