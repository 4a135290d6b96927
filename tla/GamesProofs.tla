------------------------------ MODULE GamesProofs ------------------------------
(***************************************************************************)
(* What holds of every match of the four games, at any table, with any     *)
(* deck, dice and wall: the cards of escoba are all kept and offered as    *)
(* its rules say, a card of generala keeps its order, a board of mahjong   *)
(* can be cleared, what the bots reckon is right, and it is always         *)
(* somebody's move.                                                        *)
(***************************************************************************)
EXTENDS Games, TrucoProofs

-----------------------------------------------------------------------------
(* Escoba: decks, cut and dealt.                                             *)

\* The two parts of a list of different cards have none in common.
LEMMA CutInTwo ==
  ASSUME NEW X, NEW d \in Seq(X), IsInjective(d), NEW m \in Nat, NEW n \in Nat,
         n = Len(d), m <= n
  PROVE  LET a == SubSeq(d, 1, m)
             b == SubSeq(d, m + 1, Len(d)) IN
         /\ a \in Seq(X) /\ IsInjective(a) /\ Len(a) = m
         /\ b \in Seq(X) /\ IsInjective(b) /\ Len(b) = n - m
         /\ Range(a) \cap Range(b) = {} /\ Range(a) \cup Range(b) = Range(d)
<1>1. DOMAIN d = 1 .. n /\ \A i \in 1 .. n : d[i] \in X
  OBVIOUS
<1>2. PICK a : a = SubSeq(d, 1, m)
  OBVIOUS
<1>3. PICK b : b = SubSeq(d, m + 1, n)
  OBVIOUS
<1>4. a \in Seq(X) /\ Len(a) = m /\ DOMAIN a = 1 .. m /\ \A i \in 1 .. m : a[i] = d[i]
  <2>1. 1 \in Int /\ m \in Int /\ \A i \in 1 .. m : d[i] \in X
    BY <1>1
  <2>2. /\ a \in Seq(X) /\ Len(a) = IF 1 <= m THEN m - 1 + 1 ELSE 0
        /\ \A i \in 1 .. m - 1 + 1 : a[i] = d[1 + i - 1]
    BY <1>2, <2>1, SubSeqProperties
  <2>3. Len(a) = m /\ DOMAIN a = 1 .. m
    BY <2>2
  <2>4. QED
    BY <2>2, <2>3
<1>5. b \in Seq(X) /\ Len(b) = n - m /\ DOMAIN b = 1 .. n - m
        /\ \A i \in 1 .. n - m : b[i] = d[m + i]
  <2>1. m + 1 \in Int /\ n \in Int /\ \A i \in m + 1 .. n : d[i] \in X
    BY <1>1
  <2>2. /\ b \in Seq(X) /\ Len(b) = IF m + 1 <= n THEN n - (m + 1) + 1 ELSE 0
        /\ \A i \in 1 .. n - (m + 1) + 1 : b[i] = d[m + 1 + i - 1]
    BY <1>3, <2>1, SubSeqProperties
  <2>3. Len(b) = n - m
    BY <2>2
  <2>4. DOMAIN b = 1 .. n - m
    BY <2>2, <2>3
  <2>5. QED
    BY <2>2, <2>3, <2>4
<1>6. \A i, j \in 1 .. n : d[i] = d[j] => i = j
  BY <1>1 DEF IsInjective
<1>7. IsInjective(a) /\ IsInjective(b)
  <2>1. \A i, j \in 1 .. m : a[i] = a[j] => i = j
    BY <1>4, <1>6
  <2>2. \A i, j \in 1 .. n - m : b[i] = b[j] => i = j
    <3>1. ASSUME NEW i \in 1 .. n - m, NEW j \in 1 .. n - m, b[i] = b[j] PROVE i = j
      <4>1. m + i \in 1 .. n /\ m + j \in 1 .. n /\ d[m + i] = d[m + j]
        BY <1>5, <3>1
      <4>2. QED
        BY <1>6, <4>1
    <3>2. QED
      BY <3>1
  <2>3. QED
    BY <1>4, <1>5, <2>1, <2>2 DEF IsInjective
<1>8. Range(a) = { d[i] : i \in 1 .. m }
  BY <1>4 DEF Range
<1>9. Range(b) = { d[i] : i \in m + 1 .. n }
  <2>1. \A i \in 1 .. n - m : m + i \in m + 1 .. n /\ b[i] = d[m + i]
    BY <1>5
  <2>2. ASSUME NEW j \in m + 1 .. n PROVE \E i \in 1 .. n - m : b[i] = d[j]
    <3>1. j - m \in 1 .. n - m /\ m + (j - m) = j
      OBVIOUS
    <3>2. QED
      BY <1>5, <3>1
  <2>3. Range(b) = { b[i] : i \in 1 .. n - m }
    BY <1>5 DEF Range
  <2>4. Range(b) \subseteq { d[i] : i \in m + 1 .. n }
    BY <2>1, <2>3
  <2>5. { d[i] : i \in m + 1 .. n } \subseteq Range(b)
    BY <2>2, <2>3
  <2>6. QED
    BY <2>4, <2>5
<1>10. Range(d) = { d[i] : i \in 1 .. n }
  BY <1>1 DEF Range
<1>11. Range(a) \cap Range(b) = {}
  <2>1. ASSUME NEW i \in 1 .. m, NEW j \in m + 1 .. n PROVE d[i] # d[j]
    <3>1. i \in 1 .. n /\ j \in 1 .. n /\ i # j
      OBVIOUS
    <3>2. QED
      BY <1>6, <3>1
  <2>2. QED
    BY <1>8, <1>9, <2>1
<1>12. Range(a) \cup Range(b) = Range(d)
  <2>1. \A i : i \in 1 .. n <=> i \in 1 .. m \/ i \in m + 1 .. n
    OBVIOUS
  <2>2. QED
    BY <1>8, <1>9, <1>10, <2>1
<1>13. QED
  BY <1>2, <1>3, <1>4, <1>5, <1>7, <1>11, <1>12

\* The same of a list of cards and its parts, named.
CutAt(d, m, a, b) == a = SubSeq(d, 1, m) /\ b = SubSeq(d, m + 1, Len(d))
LEMMA CardsCut ==
  ASSUME NEW d \in Seq(ECards), IsInjective(d), NEW m \in Nat, m <= Len(d),
         NEW a, NEW b, CutAt(d, m, a, b)
  PROVE  /\ a \in Seq(ECards) /\ b \in Seq(ECards) /\ IsInjective(b) /\ Len(b) = Len(d) - m
         /\ Range(a) \cap Range(b) = {} /\ Range(a) \cup Range(b) = Range(d)
<1>1. PICK n \in Nat : n = Len(d)
  OBVIOUS
<1>2. LET x == SubSeq(d, 1, m)
          y == SubSeq(d, m + 1, Len(d)) IN
      /\ x \in Seq(ECards) /\ y \in Seq(ECards) /\ IsInjective(y) /\ Len(y) = n - m
      /\ Range(x) \cap Range(y) = {} /\ Range(x) \cup Range(y) = Range(d)
  BY <1>1, CutInTwo
<1>3. QED
  BY <1>1, <1>2 DEF CutAt

LEMMA ThreeOfThem ==
  ASSUME NEW a, NEW b, NEW c, a # b, a # c, b # c
  PROVE  IsFiniteSet({a, b, c}) /\ Cardinality({a, b, c}) = 3
<1>1. IsFiniteSet({a}) /\ Cardinality({a}) = 1
  BY FS_Singleton
<1>2. IsFiniteSet({a} \cup {b}) /\ Cardinality({a} \cup {b}) = 2
  BY <1>1, FS_AddElement
<1>3. IsFiniteSet(({a} \cup {b}) \cup {c}) /\ Cardinality(({a} \cup {b}) \cup {c}) = 3
  BY <1>2, FS_AddElement
<1>4. ({a} \cup {b}) \cup {c} = {a, b, c}
  OBVIOUS
<1>5. QED
  BY <1>3, <1>4, Zenon

\* The cards that the seats hold between them.
HeldIn(h) == UNION { h[s] : s \in ESeats }

\* Three cards to each seat, and none to two: they are the first ones of the list.
LEMMA DealtRound ==
  ASSUME etable.seats \in {2, 4}, NEW d \in Seq(ECards), IsInjective(d),
         3 * etable.seats <= Len(d)
  PROVE  LET h == DealFrom(d) IN
         /\ h \in [ESeats -> SUBSET ECards]
         /\ \A s \in ESeats : IsFiniteSet(h[s]) /\ Cardinality(h[s]) = 3
         /\ \A s, u \in ESeats : s # u => h[s] \cap h[u] = {}
         /\ HeldIn(h) = Range(SubSeq(d, 1, 3 * etable.seats))
<1>1. PICK n \in {2, 4} : n = etable.seats
  OBVIOUS
<1>2. PICK l \in Nat : l = Len(d) /\ DOMAIN d = 1 .. l /\ 3 * n <= l
  BY <1>1
<1>3. ESeats = 0 .. n - 1
  BY <1>1 DEF ESeats
<1> DEFINE At(r, s) == r * n + s + 1
<1>4. ASSUME NEW r \in 0 .. 2, NEW s \in 0 .. n - 1 PROVE At(r, s) \in 1 .. 3 * n
  <2>1. CASE n = 2
    BY <2>1
  <2>2. CASE n = 4
    BY <2>2
  <2>3. QED
    BY <2>1, <2>2
<1>5. ASSUME NEW r \in 0 .. 2, NEW s \in 0 .. n - 1, NEW q \in 0 .. 2, NEW u \in 0 .. n - 1,
             At(r, s) = At(q, u)
      PROVE  r = q /\ s = u
  <2>1. CASE n = 2
    BY <1>5, <2>1
  <2>2. CASE n = 4
    BY <1>5, <2>2
  <2>3. QED
    BY <2>1, <2>2
<1>6. ASSUME NEW i \in 1 .. 3 * n PROVE \E r \in 0 .. 2, s \in 0 .. n - 1 : At(r, s) = i
  <2>1. CASE i <= n
    <3>1. 0 \in 0 .. 2 /\ i - 1 \in 0 .. n - 1 /\ At(0, i - 1) = i
      BY <2>1
    <3>2. QED
      BY <3>1
  <2>2. CASE i > n /\ i <= 2 * n
    <3>1. 1 \in 0 .. 2 /\ i - n - 1 \in 0 .. n - 1 /\ At(1, i - n - 1) = i
      BY <2>2
    <3>2. QED
      BY <3>1
  <2>3. CASE i > 2 * n
    <3>1. 2 \in 0 .. 2 /\ i - 2 * n - 1 \in 0 .. n - 1 /\ At(2, i - 2 * n - 1) = i
      BY <2>3
    <3>2. QED
      BY <3>1
  <2>4. QED
    BY <2>1, <2>2, <2>3
<1>7. \A i \in 1 .. 3 * n : i \in 1 .. l /\ d[i] \in ECards
  BY <1>2
<1>8. \A i, j \in 1 .. 3 * n : d[i] = d[j] => i = j
  BY <1>2, <1>7 DEF IsInjective
<1>9. PICK h : h = DealFrom(d)
  OBVIOUS
<1>10. h = [s \in 0 .. n - 1 |-> { d[At(r, s)] : r \in 0 .. 2 }]
  BY <1>1, <1>3, <1>9 DEF DealFrom
<1> HIDE DEF At
<1>11. ASSUME NEW s \in 0 .. n - 1
       PROVE  IsFiniteSet(h[s]) /\ Cardinality(h[s]) = 3 /\ h[s] \subseteq ECards
  <2>1. h[s] = {d[At(0, s)], d[At(1, s)], d[At(2, s)]}
    <3>1. 0 .. 2 = {0, 1, 2}
      OBVIOUS
    <3>2. QED
      BY <1>10, <3>1
  <2>2. 0 \in 0 .. 2 /\ 1 \in 0 .. 2 /\ 2 \in 0 .. 2
    OBVIOUS
  <2>3. /\ At(0, s) \in 1 .. 3 * n /\ At(1, s) \in 1 .. 3 * n /\ At(2, s) \in 1 .. 3 * n
        /\ At(0, s) # At(1, s) /\ At(0, s) # At(2, s) /\ At(1, s) # At(2, s)
    BY <1>4, <1>5, <2>2
  <2>4. d[At(0, s)] # d[At(1, s)] /\ d[At(0, s)] # d[At(2, s)] /\ d[At(1, s)] # d[At(2, s)]
    BY <1>8, <2>3
  <2>5. IsFiniteSet(h[s]) /\ Cardinality(h[s]) = 3
    <3>1. PICK x, y, z : x = d[At(0, s)] /\ y = d[At(1, s)] /\ z = d[At(2, s)]
      OBVIOUS
    <3>0. x # y /\ x # z /\ y # z
      BY <2>4, <3>1
    <3>2. IsFiniteSet({x, y, z}) /\ Cardinality({x, y, z}) = 3
      BY <3>0, ThreeOfThem, Zenon
    <3>3. h[s] = {x, y, z}
      BY <2>1, <3>1
    <3>4. QED
      BY <3>2, <3>3, Zenon
  <2>6. QED
    BY <1>7, <2>1, <2>3, <2>5
<1>12. ASSUME NEW s \in 0 .. n - 1, NEW u \in 0 .. n - 1, s # u PROVE h[s] \cap h[u] = {}
  <2>1. ASSUME NEW r \in 0 .. 2, NEW q \in 0 .. 2 PROVE d[At(r, s)] # d[At(q, u)]
    <3>1. At(r, s) \in 1 .. 3 * n /\ At(q, u) \in 1 .. 3 * n /\ At(r, s) # At(q, u)
      BY <1>4, <1>5, <1>12
    <3>2. QED
      BY <1>8, <3>1
  <2>2. QED
    BY <1>10, <2>1
<1>13. UNION { h[s] : s \in 0 .. n - 1 } = { d[i] : i \in 1 .. 3 * n }
  <2>1. ASSUME NEW s \in 0 .. n - 1, NEW c \in h[s] PROVE \E i \in 1 .. 3 * n : c = d[i]
    <3>1. PICK r \in 0 .. 2 : c = d[At(r, s)]
      BY <1>10, <2>1
    <3>2. QED
      BY <1>4, <3>1
  <2>2. ASSUME NEW i \in 1 .. 3 * n PROVE \E s \in 0 .. n - 1 : d[i] \in h[s]
    <3>1. PICK r \in 0 .. 2, s \in 0 .. n - 1 : At(r, s) = i
      BY <1>6
    <3>2. d[i] \in h[s]
      BY <1>10, <3>1
    <3>3. QED
      BY <3>2
  <2>3. UNION { h[s] : s \in 0 .. n - 1 } \subseteq { d[i] : i \in 1 .. 3 * n }
    BY <2>1
  <2>4. ASSUME NEW c \in { d[i] : i \in 1 .. 3 * n } PROVE c \in UNION { h[s] : s \in 0 .. n - 1 }
    <3>1. PICK i \in 1 .. 3 * n : c = d[i]
      OBVIOUS
    <3>2. PICK s \in 0 .. n - 1 : c \in h[s]
      BY <2>2, <3>1
    <3>3. QED
      BY <3>2
  <2>5. QED
    BY <2>3, <2>4
<1>14. Range(SubSeq(d, 1, 3 * n)) = { d[i] : i \in 1 .. 3 * n }
  <2>1. PICK m \in Nat : m = 3 * n /\ m <= l
    BY <1>2
  <2>2. 1 \in Int /\ m \in Int /\ \A i \in 1 .. m : d[i] \in ECards
    BY <1>7, <2>1
  <2>3. PICK a : a = SubSeq(d, 1, m)
    OBVIOUS
  <2>4. /\ a \in Seq(ECards) /\ Len(a) = IF 1 <= m THEN m - 1 + 1 ELSE 0
        /\ \A i \in 1 .. m - 1 + 1 : a[i] = d[1 + i - 1]
    BY <2>2, <2>3, SubSeqProperties
  <2>5. DOMAIN a = 1 .. m /\ \A i \in 1 .. m : a[i] = d[i]
    BY <2>4
  <2>6. Range(a) = { a[i] : i \in 1 .. m }
    BY <2>5 DEF Range
  <2>7. Range(a) = { d[i] : i \in 1 .. m }
    BY <2>5, <2>6
  <2>8. QED
    BY <2>1, <2>3, <2>7
<1>15. h \in [ESeats -> SUBSET ECards]
  BY <1>3, <1>10, <1>11
<1>16. \A s \in ESeats : IsFiniteSet(h[s]) /\ Cardinality(h[s]) = 3
  BY <1>3, <1>11
<1>17. \A s, u \in ESeats : s # u => h[s] \cap h[u] = {}
  BY <1>3, <1>12
<1>18. HeldIn(h) = Range(SubSeq(d, 1, 3 * etable.seats))
  BY <1>1, <1>3, <1>13, <1>14 DEF HeldIn
<1>19. QED
  BY <1>9, <1>15, <1>16, <1>17, <1>18

-----------------------------------------------------------------------------
(* Escoba: where the cards are, and whose turn finds them.                   *)

\* The cards of the hands h, the table tb, the stock st and the piles p: no two of these
\* share one.
AllOf(h, tb, st, p) == HeldIn(h) \cup tb \cup Range(st) \cup p[0] \cup p[1]
Apart(h, tb, st, p) ==
  /\ \A s, u \in ESeats : s # u => h[s] \cap h[u] = {}
  /\ \A s \in ESeats : /\ h[s] \cap tb = {} /\ h[s] \cap Range(st) = {}
                       /\ h[s] \cap p[0] = {} /\ h[s] \cap p[1] = {}
  /\ tb \cap Range(st) = {} /\ tb \cap p[0] = {} /\ tb \cap p[1] = {}
  /\ Range(st) \cap p[0] = {} /\ Range(st) \cap p[1] = {} /\ p[0] \cap p[1] = {}

\* How many seats play before s does in a round of cards, with the seat dl dealing.
Pos(dl, s) == (s - ENext(dl) + etable.seats) % etable.seats

\* Whoever is still to play in this round holds a card more than those who have.
InStep(dl, h, turnOf, k) ==
  \A s \in ESeats : /\ IsFiniteSet(h[s])
                    /\ Cardinality(h[s]) = IF Pos(dl, s) < Pos(dl, turnOf) THEN k - 1 ELSE k

EscobaShape ==
  /\ etable \in EscobaTables /\ edealer \in ESeats /\ eturn \in ESeats
  /\ ephase \in {"none", "on", "decided"}
  /\ escore \in [ETeams -> Nat] /\ escobas \in [ETeams -> Nat]
  /\ lastTaker \in ETeams \cup {ENobody}
  /\ ehands \in [ESeats -> SUBSET ECards] /\ piles \in [ETeams -> SUBSET ECards]
  /\ table \subseteq ECards

\* The stock is so many rounds of three cards a seat.
RoundsLeft(st) == st \in Seq(ECards) /\ IsInjective(st) /\ Len(st) % (3 * etable.seats) = 0

CardsOfDeck ==
  ephase # "none" =>
    \E d \in etable.decks :
      AllOf(ehands, table, stock, piles) = Range(d) /\ Apart(ehands, table, stock, piles)

Rhythm ==
  /\ ephase = "on" => ~EscobaOver /\ \E k \in 1 .. 3 : InStep(edealer, ehands, eturn, k)
  /\ ephase # "on" => \A s \in ESeats : ehands[s] = {}

EscobaInv == EscobaShape /\ RoundsLeft(stock) /\ CardsOfDeck /\ Rhythm

\* Round the table of two or of four.
LEMMA EscobaSeats ==
  ASSUME etable \in EscobaTables, NEW dl \in ESeats
  PROVE  /\ etable.seats \in {2, 4} /\ ENext(dl) \in ESeats
         /\ ESeats = 0 .. etable.seats - 1 /\ ESeats # {}
         /\ \A s \in ESeats : /\ ENext(s) \in ESeats /\ Pos(dl, s) \in Nat
                              /\ s # dl => Pos(dl, ENext(s)) = Pos(dl, s) + 1
                              /\ s # dl => Pos(dl, s) < Pos(dl, dl)
         /\ \A s, u \in ESeats : Pos(dl, s) = Pos(dl, u) => s = u
         /\ Pos(dl, ENext(dl)) = 0
<1>1. etable.seats \in {2, 4} /\ ESeats = 0 .. etable.seats - 1
  BY EscobaAssumption DEF ESeats
<1>2. CASE etable.seats = 2
  <2>1. ESeats = {0, 1} /\ dl \in {0, 1}
    BY <1>1, <1>2
  <2>2. \A s \in {0, 1} : ENext(s) = IF s = 1 THEN 0 ELSE s + 1
    BY <1>2 DEF ENext
  <2>3. \A s \in {0, 1} : Pos(dl, s) = IF s >= ENext(dl) THEN s - ENext(dl)
                                   ELSE s - ENext(dl) + 2
    BY <1>2, <2>1, <2>2 DEF Pos
  <2>4. QED
    BY <1>1, <1>2, <2>1, <2>2, <2>3
<1>3. CASE etable.seats = 4
  <2>1. ESeats = {0, 1, 2, 3} /\ dl \in {0, 1, 2, 3}
    BY <1>1, <1>3
  <2>2. \A s \in {0, 1, 2, 3} : ENext(s) = IF s = 3 THEN 0 ELSE s + 1
    BY <1>3 DEF ENext
  <2>3. \A s \in {0, 1, 2, 3} : Pos(dl, s) = IF s >= ENext(dl) THEN s - ENext(dl)
                                         ELSE s - ENext(dl) + 4
    BY <1>3, <2>1, <2>2 DEF Pos
  <2>4. QED
    BY <1>1, <1>3, <2>1, <2>2, <2>3
<1>4. QED
  BY <1>1, <1>2, <1>3

\* A round that is under way goes on until the dealer has played, and a hand is out of
\* cards only then.
LEMMA CardPlayed ==
  ASSUME etable \in EscobaTables, NEW dl \in ESeats,
         NEW h \in [ESeats -> SUBSET ECards], NEW s \in ESeats, NEW c \in h[s],
         NEW k \in 1 .. 3, InStep(dl, h, s, k)
  PROVE  LET left == [h EXCEPT ![s] = h[s] \ {c}] IN
         \/ HandsOut(left) /\ s = dl
         \/ ~HandsOut(left) /\ \E j \in 1 .. 3 : InStep(dl, left, ENext(s), j)
<1>0. /\ \A u \in ESeats : /\ ENext(u) \in ESeats /\ Pos(dl, u) \in Nat
                           /\ u # dl => Pos(dl, ENext(u)) = Pos(dl, u) + 1
                           /\ u # dl => Pos(dl, u) < Pos(dl, dl)
      /\ \A u, v \in ESeats : Pos(dl, u) = Pos(dl, v) => u = v
      /\ Pos(dl, ENext(dl)) = 0
  BY EscobaSeats
<1>1. PICK left : left = [h EXCEPT ![s] = h[s] \ {c}]
  OBVIOUS
<1>2. /\ IsFiniteSet(left[s]) /\ Cardinality(left[s]) = k - 1
      /\ \A u \in ESeats : u # s => left[u] = h[u]
  <2>1. IsFiniteSet(h[s]) /\ Cardinality(h[s]) = k
    BY <1>0 DEF InStep
  <2>2. IsFiniteSet(h[s] \ {c}) /\ Cardinality(h[s] \ {c}) = k - 1
    BY <2>1, FS_RemoveElement
  <2>3. left[s] = h[s] \ {c}
    BY <1>1
  <2>4. QED
    BY <1>1, <2>2, <2>3
<1>3. CASE s = dl
  <2>1. \A u \in ESeats : IsFiniteSet(left[u]) /\ Cardinality(left[u]) = k - 1
    <3>1. ASSUME NEW u \in ESeats, u # s PROVE Pos(dl, u) < Pos(dl, s)
      BY <1>3, <3>1, <1>0
    <3>2. QED
      BY <1>2, <3>1 DEF InStep
  <2>2. CASE k = 1
    <3>1. \A u \in ESeats : left[u] = {}
      BY <2>1, <2>2, FS_EmptySet
    <3>2. QED
      BY <1>1, <1>3, <3>1 DEF HandsOut
  <2>3. CASE k # 1
    <3>1. k - 1 \in 1 .. 3
      BY <2>3
    <3>2. \A u \in ESeats : ~(Pos(dl, u) < Pos(dl, ENext(s)))
      BY <1>3, <1>0
    <3>3. InStep(dl, left, ENext(s), k - 1)
      BY <2>1, <3>2 DEF InStep
    <3>4. left[s] # {}
      BY <1>2, <3>1, FS_EmptySet
    <3>5. ~HandsOut(left)
      BY <3>4 DEF HandsOut
    <3>6. QED
      BY <1>1, <3>1, <3>3, <3>5
  <2>4. QED
    BY <2>2, <2>3
<1>4. CASE s # dl
  <2>1. InStep(dl, left, ENext(s), k)
    <3>1. ASSUME NEW u \in ESeats, u # s PROVE Pos(dl, u) < Pos(dl, ENext(s)) <=> Pos(dl, u) < Pos(dl, s)
      <4>1. PICK a \in Nat, b \in Nat : a = Pos(dl, u) /\ b = Pos(dl, s)
        BY <1>0
      <4>2. a # b /\ Pos(dl, ENext(s)) = b + 1
        BY <1>4, <3>1, <4>1, <1>0
      <4>3. QED
        BY <4>1, <4>2
    <3>2. Pos(dl, s) < Pos(dl, ENext(s))
      BY <1>4, <1>0
    <3>3. QED
      BY <1>2, <3>1, <3>2 DEF InStep
  <2>2. left[dl] # {}
    <3>1. ~(Pos(dl, dl) < Pos(dl, s))
      <4>1. PICK a \in Nat, b \in Nat : a = Pos(dl, dl) /\ b = Pos(dl, s)
        BY <1>0
      <4>2. QED
        BY <1>4, <4>1, <1>0
    <3>2. IsFiniteSet(left[dl]) /\ Cardinality(left[dl]) = k /\ k # 0
      BY <1>2, <1>4, <3>1 DEF InStep
    <3>3. QED
      BY <3>2, FS_EmptySet
  <2>3. ~HandsOut(left)
    BY <2>2 DEF HandsOut
  <2>4. QED
    BY <1>1, <2>1, <2>3
<1>5. QED
  BY <1>3, <1>4

\* A card that is played leaves the hand for the table, or with what it takes for the
\* pile of its team.
OneLess(h, s, c) == [h EXCEPT ![s] = h[s] \ {c}]
Onto(p, t, G)    == [p EXCEPT ![t] = p[t] \cup G]
NoneLost(h, tb, st, p, s, c, C, t) ==
  /\ Apart(OneLess(h, s, c), tb \cup {c}, st, p)
  /\ AllOf(OneLess(h, s, c), tb \cup {c}, st, p) = AllOf(h, tb, st, p)
  /\ Apart(OneLess(h, s, c), tb \ C, st, Onto(p, t, C \cup {c}))
  /\ AllOf(OneLess(h, s, c), tb \ C, st, Onto(p, t, C \cup {c})) = AllOf(h, tb, st, p)

CanPlay(h, tb, p, s, c, C) ==
  /\ h \in [ESeats -> SUBSET ECards] /\ p \in [ETeams -> SUBSET ECards]
  /\ s \in ESeats /\ c \in h[s] /\ C \subseteq tb

LEMMA MovedApart ==
  ASSUME NEW h, NEW tb, NEW st, NEW p, NEW s, NEW c, NEW C, NEW t \in ETeams,
         CanPlay(h, tb, p, s, c, C), Apart(h, tb, st, p)
  PROVE  NoneLost(h, tb, st, p, s, c, C, t)
<1>0. PICK left, swept_ : left = OneLess(h, s, c) /\ swept_ = Onto(p, t, C \cup {c})
  OBVIOUS
<1>1. left = [h EXCEPT ![s] = h[s] \ {c}]
  BY <1>0 DEF OneLess
<1> /\ h \in [ESeats -> SUBSET ECards] /\ p \in [ETeams -> SUBSET ECards]
    /\ s \in ESeats /\ c \in h[s] /\ C \subseteq tb
  BY DEF CanPlay
<1>2. /\ left[s] = h[s] \ {c} /\ \A u \in ESeats : u # s => left[u] = h[u]
      /\ \A u \in ESeats : left[u] \subseteq h[u] /\ c \notin left[u]
  BY <1>1 DEF Apart
<1>3. HeldIn(h) = HeldIn(left) \cup {c}
  <2>1. ASSUME NEW x \in HeldIn(h), x # c PROVE x \in HeldIn(left)
    <3>1. PICK u \in ESeats : x \in h[u]
      BY DEF HeldIn
    <3>2. x \in left[u]
      BY <1>2, <2>1, <3>1
    <3>3. QED
      BY <3>2 DEF HeldIn
  <2>2. HeldIn(left) \subseteq HeldIn(h)
    BY <1>2 DEF HeldIn
  <2>3. c \in HeldIn(h)
    BY DEF HeldIn
  <2>4. QED
    BY <2>1, <2>2, <2>3
<1>4. c \notin tb /\ c \notin Range(st) /\ c \notin p[0] /\ c \notin p[1]
  BY DEF Apart
<1>5. Apart(left, tb \cup {c}, st, p) /\ AllOf(left, tb \cup {c}, st, p) = AllOf(h, tb, st, p)
  <2>1. AllOf(left, tb \cup {c}, st, p) = AllOf(h, tb, st, p)
    BY <1>3 DEF AllOf
  <2>2. Apart(left, tb \cup {c}, st, p)
    BY <1>2, <1>4 DEF Apart
  <2>3. QED
    BY <2>1, <2>2
<1>6. swept_ = [p EXCEPT ![t] = p[t] \cup (C \cup {c})]
  BY <1>0 DEF Onto
<1>7. swept_[0] = (IF t = 0 THEN p[0] \cup (C \cup {c}) ELSE p[0])
        /\ swept_[1] = (IF t = 1 THEN p[1] \cup (C \cup {c}) ELSE p[1]) /\ t \in {0, 1}
  BY <1>6 DEF ETeams
<1>8. Apart(left, tb \ C, st, swept_)
  <2>1. CASE t = 0
    BY <1>2, <1>4, <1>7, <2>1 DEF Apart
  <2>2. CASE t = 1
    BY <1>2, <1>4, <1>7, <2>2 DEF Apart
  <2>3. QED
    BY <1>7, <2>1, <2>2
<1>9. AllOf(left, tb \ C, st, swept_) = AllOf(h, tb, st, p)
  <2>1. (tb \ C) \cup swept_[0] \cup swept_[1] = tb \cup p[0] \cup p[1] \cup {c}
    BY <1>7
  <2>2. QED
    BY <1>3, <2>1 DEF AllOf
<1>10. QED
  BY <1>0, <1>5, <1>8, <1>9 DEF NoneLost

\* Three more cards a seat, off the top of the stock.
LEMMA StockDealt ==
  ASSUME etable.seats \in {2, 4}, NEW st, RoundsLeft(st), st # <<>>
  PROVE  LET h == DealFrom(st) IN
         /\ h \in [ESeats -> SUBSET ECards] /\ RoundsLeft(Rest(st))
         /\ \A s \in ESeats : IsFiniteSet(h[s]) /\ Cardinality(h[s]) = 3
         /\ \A s, u \in ESeats : s # u => h[s] \cap h[u] = {}
         /\ HeldIn(h) \cap Range(Rest(st)) = {}
         /\ HeldIn(h) \cup Range(Rest(st)) = Range(st)
<1>1. PICK n \in {6, 12} : n = 3 * etable.seats
  OBVIOUS
<1>2. st \in Seq(ECards) /\ IsInjective(st)
  BY DEF RoundsLeft
<1>3. PICK l \in Nat : l = Len(st) /\ l # 0 /\ l % n = 0
  BY <1>1, <1>2 DEF RoundsLeft
<1>4. n \in Nat /\ n <= l /\ (l - n) % n = 0
  <2>1. CASE n = 6
    BY <1>3, <2>1
  <2>2. CASE n = 12
    BY <1>3, <2>2
  <2>3. QED
    BY <2>1, <2>2
<1>5. PICK h : h = DealFrom(st)
  OBVIOUS
<1>6. /\ h \in [ESeats -> SUBSET ECards]
      /\ \A s \in ESeats : IsFiniteSet(h[s]) /\ Cardinality(h[s]) = 3
      /\ \A s, u \in ESeats : s # u => h[s] \cap h[u] = {}
      /\ HeldIn(h) = Range(SubSeq(st, 1, n))
  BY <1>1, <1>2, <1>3, <1>4, <1>5, DealtRound
<1>7. PICK r : r = Rest(st) /\ r = SubSeq(st, n + 1, Len(st))
  BY <1>1 DEF Rest
<1>8. /\ r \in Seq(ECards) /\ IsInjective(r) /\ Len(r) = l - n
      /\ Range(SubSeq(st, 1, n)) \cap Range(r) = {}
      /\ Range(SubSeq(st, 1, n)) \cup Range(r) = Range(st)
  <2>1. n \in Nat /\ n <= Len(st) /\ l = Len(st)
    BY <1>3, <1>4
  <2>2. PICK a : a = SubSeq(st, 1, n)
    OBVIOUS
  <2>3. CutAt(st, n, a, r)
    BY <1>7, <2>2 DEF CutAt
  <2>4. /\ r \in Seq(ECards) /\ IsInjective(r) /\ Len(r) = Len(st) - n
        /\ Range(a) \cap Range(r) = {} /\ Range(a) \cup Range(r) = Range(st)
    BY <1>2, <2>1, <2>3, CardsCut
  <2>5. QED
    BY <2>1, <2>2, <2>4
<1>9. RoundsLeft(r)
  BY <1>1, <1>4, <1>8 DEF RoundsLeft
<1>10. QED
  BY <1>5, <1>6, <1>7, <1>8, <1>9

LEMMA RedealtApart ==
  ASSUME etable.seats \in {2, 4}, NEW h, NEW tb, NEW st, NEW p,
         RoundsLeft(st), st # <<>>, HandsOut(h), Apart(h, tb, st, p)
  PROVE  /\ Apart(DealFrom(st), tb, Rest(st), p)
         /\ AllOf(DealFrom(st), tb, Rest(st), p) = AllOf(h, tb, st, p)
<1>1. PICK g, r : g = DealFrom(st) /\ r = Rest(st)
  OBVIOUS
<1>2. /\ \A s, u \in ESeats : s # u => g[s] \cap g[u] = {}
      /\ HeldIn(g) \cap Range(r) = {}
      /\ HeldIn(g) \cup Range(r) = Range(st)
  BY <1>1, StockDealt
<1>3. \A s \in ESeats : g[s] \subseteq Range(st) /\ g[s] \cap Range(r) = {}
  <2>1. \A s \in ESeats : g[s] \subseteq HeldIn(g)
    BY DEF HeldIn
  <2>2. QED
    BY <1>2, <2>1
<1>8. Range(r) \subseteq Range(st)
  BY <1>2
<1>4. Apart(g, tb, r, p)
  BY <1>2, <1>3, <1>8 DEF Apart
<1>5. HeldIn(h) = {}
  BY DEF HandsOut, HeldIn
<1>6. AllOf(g, tb, r, p) = AllOf(h, tb, st, p)
  BY <1>2, <1>5 DEF AllOf
<1>7. QED
  BY <1>1, <1>4, <1>6

\* What is left on the table goes to the last team that took anything.
LEMMA LeftoversApart ==
  ASSUME NEW h, NEW tb, NEW st, NEW p \in [ETeams -> SUBSET ECards], NEW l \in ETeams,
         Apart(h, tb, st, p)
  PROVE  /\ Apart(h, {}, st, WithLeftovers(p, tb, l))
         /\ AllOf(h, {}, st, WithLeftovers(p, tb, l)) = AllOf(h, tb, st, p)
<1>0. PICK end : end = WithLeftovers(p, tb, l)
  OBVIOUS
<1>1. /\ end[0] = (IF l = 0 THEN p[0] \cup tb ELSE p[0])
      /\ end[1] = (IF l = 1 THEN p[1] \cup tb ELSE p[1]) /\ l \in {0, 1}
  <2>1. l \in {0, 1} /\ l # ENobody /\ DOMAIN p = {0, 1}
    BY DEF ETeams, ENobody
  <2>2. end = [p EXCEPT ![l] = p[l] \cup tb]
    BY <1>0, <2>1 DEF WithLeftovers
  <2>3. end = [t \in {0, 1} |-> IF t = l THEN p[l] \cup tb ELSE p[t]]
    BY <2>1, <2>2
  <2>4. QED
    BY <2>1, <2>3
<1>2. CASE l = 0
  <2>1. Apart(h, {}, st, end)
    BY <1>1, <1>2 DEF Apart
  <2>2. AllOf(h, {}, st, end) = AllOf(h, tb, st, p)
    BY <1>1, <1>2 DEF AllOf
  <2>3. QED
    BY <1>0, <2>1, <2>2
<1>3. CASE l = 1
  <2>1. Apart(h, {}, st, end)
    BY <1>1, <1>3 DEF Apart
  <2>2. AllOf(h, {}, st, end) = AllOf(h, tb, st, p)
    BY <1>1, <1>3 DEF AllOf
  <2>3. QED
    BY <1>0, <2>1, <2>2
<1>4. QED
  BY <1>0, <1>1, <1>2, <1>3

LEMMA PointsAreNat ==
  ASSUME NEW p, NEW e \in [ETeams -> Nat], NEW t \in ETeams
  PROVE  HandPoints(p, e, t) \in Nat
<1>1. \A a, b : Greater(a, b) \in {0, 1}
  BY DEF Greater
<1>2. e[t] \in Nat
  OBVIOUS
<1>3. PICK a \in {0, 1}, b \in {0, 1}, c \in {0, 1}, d \in {0, 1} :
        HandPoints(p, e, t) = a + b + c + d + e[t]
  <2>1. PICK d \in {0, 1} : d = IF <<7, "oro">> \in p[t] THEN 1 ELSE 0
    OBVIOUS
  <2>2. QED
    BY <1>1, <2>1 DEF HandPoints
<1>4. QED
  BY <1>2, <1>3

LEMMA EscobaInitInv == EscobaInit => EscobaInv
<1> SUFFICES ASSUME EscobaInit PROVE EscobaInv
  OBVIOUS
<1>1. etable.seats \in {2, 4} /\ 0 \in ESeats
  BY EscobaAssumption DEF EscobaInit, ESeats
<1>2. EscobaShape
  BY <1>1 DEF EscobaInit, EscobaShape
<1>3. RoundsLeft(stock)
  <2>1. stock = <<>> /\ <<>> \in Seq(ECards) /\ Len(<<>>) = 0 /\ DOMAIN <<>> = {}
    BY DEF EscobaInit
  <2>2. IsInjective(stock)
    BY <2>1 DEF IsInjective
  <2>3. PICK l \in Nat : l = Len(stock) /\ l = 0
    BY <2>1
  <2>4. l % 6 = 0 /\ l % 12 = 0
    BY <2>3
  <2>5. Len(stock) % (3 * etable.seats) = 0
    <3>1. 3 * etable.seats = 6 \/ 3 * etable.seats = 12
      BY <1>1
    <3>2. QED
      BY <2>3, <2>4, <3>1
  <2>6. QED
    BY <2>1, <2>2, <2>5 DEF RoundsLeft
<1>4. CardsOfDeck /\ Rhythm
  BY DEF EscobaInit, CardsOfDeck, Rhythm
<1>5. QED
  BY <1>2, <1>3, <1>4 DEF EscobaInv

LEMMA EscobaStartKeeps ==
  ASSUME EscobaInv, NEW d \in etable.decks, EscobaStartHand(d)
  PROVE  EscobaInv'
<1>1. etable' = etable /\ ESeats' = ESeats /\ etable \in EscobaTables
  BY DEF EscobaStartHand, EscobaInv, EscobaShape, ESeats
<1>2. etable.seats \in {2, 4} /\ edealer \in ESeats
        /\ \A s \in ESeats : ENext(s) \in ESeats
  BY EscobaSeats DEF EscobaInv, EscobaShape
<1>3. PICK n \in {6, 12} : n = 3 * etable.seats
  BY <1>2
<1>4. /\ d \in Seq(ECards) /\ IsInjective(d) /\ Len(d) > 4
      /\ (Len(d) - 4) % n = 0
  BY <1>1, <1>3, EscobaAssumption
<1>5. PICK l \in Nat : l = Len(d)
  BY <1>4
<1>0. n \in Nat /\ n + 4 <= l /\ (l - n - 4) % n = 0
  <2>0. l > 4 /\ (l - 4) % n = 0
    BY <1>4, <1>5
  <2>1. CASE n = 6
    BY <2>0, <2>1
  <2>2. CASE n = 12
    BY <2>0, <2>2
  <2>3. QED
    BY <2>1, <2>2
<1>6. n \in Nat /\ n + 4 <= l
  BY <1>0
<1>7. PICK h : h = DealFrom(d)
  OBVIOUS
<1>8. /\ h \in [ESeats -> SUBSET ECards]
      /\ \A s \in ESeats : IsFiniteSet(h[s]) /\ Cardinality(h[s]) = 3
      /\ \A s, u \in ESeats : s # u => h[s] \cap h[u] = {}
      /\ HeldIn(h) = Range(SubSeq(d, 1, n))
  <2>1. 3 * etable.seats <= Len(d)
    BY <1>3, <1>5, <1>6
  <2>2. d \in Seq(ECards) /\ IsInjective(d)
    BY <1>4
  <2>3. /\ h \in [ESeats -> SUBSET ECards]
        /\ \A s \in ESeats : IsFiniteSet(h[s]) /\ Cardinality(h[s]) = 3
        /\ \A s, u \in ESeats : s # u => h[s] \cap h[u] = {}
        /\ HeldIn(h) = Range(SubSeq(d, 1, 3 * etable.seats))
    BY <1>2, <1>7, <2>1, <2>2, DealtRound
  <2>4. QED
    BY <1>3, <2>3
<1>9. PICK r : r = Rest(d) /\ r = SubSeq(d, n + 1, Len(d))
  BY <1>3 DEF Rest
<1>10. /\ r \in Seq(ECards) /\ IsInjective(r) /\ Len(r) = l - n
       /\ Range(SubSeq(d, 1, n)) \cap Range(r) = {}
       /\ Range(SubSeq(d, 1, n)) \cup Range(r) = Range(d)
  <2>1. n <= l /\ l = Len(d)
    BY <1>5, <1>6
  <2>2. PICK a : a = SubSeq(d, 1, n)
    OBVIOUS
  <2>3. d \in Seq(ECards) /\ IsInjective(d) /\ n \in Nat /\ n <= Len(d)
    BY <1>4, <1>6, <2>1
  <2>4. CutAt(d, n, a, r)
    BY <1>9, <2>2 DEF CutAt
  <2>5. /\ r \in Seq(ECards) /\ IsInjective(r) /\ Len(r) = Len(d) - n
        /\ Range(a) \cap Range(r) = {} /\ Range(a) \cup Range(r) = Range(d)
    BY <2>3, <2>4, CardsCut
  <2>6. QED
    BY <2>1, <2>2, <2>5
<1>11. PICK m \in Nat : m = Len(r) /\ m = l - n /\ 4 <= m
  <2>1. Len(r) = l - n
    BY <1>10
  <2>2. l - n \in Nat /\ 4 <= l - n
    BY <1>6
  <2>3. QED
    BY <2>1, <2>2
<1>12. PICK open, st : open = Range(SubSeq(r, 1, 4)) /\ st = SubSeq(r, 5, Len(r))
  OBVIOUS
<1>13. /\ st \in Seq(ECards) /\ IsInjective(st) /\ Len(st) = m - 4
       /\ open \cap Range(st) = {} /\ open \cup Range(st) = Range(r) /\ open \subseteq ECards
  <2>1. PICK k \in Nat : k = 4 /\ k + 1 = 5
    OBVIOUS
  <2>2. PICK a : a = SubSeq(r, 1, k)
    OBVIOUS
  <2>6. CutAt(r, k, a, st)
    BY <1>12, <2>1, <2>2 DEF CutAt
  <2>7. r \in Seq(ECards) /\ IsInjective(r) /\ m = Len(r) /\ k <= Len(r)
    BY <1>10, <1>11, <2>1
  <2>8. /\ a \in Seq(ECards) /\ st \in Seq(ECards) /\ IsInjective(st) /\ Len(st) = Len(r) - k
        /\ Range(a) \cap Range(st) = {} /\ Range(a) \cup Range(st) = Range(r)
    BY <2>6, <2>7, CardsCut
  <2>3. /\ a = SubSeq(r, 1, 4) /\ a \in Seq(ECards)
        /\ st \in Seq(ECards) /\ IsInjective(st) /\ Len(st) = m - 4
        /\ Range(a) \cap Range(st) = {} /\ Range(a) \cup Range(st) = Range(r)
    BY <2>1, <2>2, <2>7, <2>8
  <2>4. Range(a) \subseteq ECards
    BY <2>3 DEF Range
  <2>5. QED
    BY <1>12, <2>3, <2>4
<1>14. RoundsLeft(st)
  <2>1. Len(st) = l - n - 4
    BY <1>6, <1>11, <1>13
  <2>2. QED
    BY <1>3, <1>13, <1>0, <2>1 DEF RoundsLeft
<1>15. PICK none : none = [u \in ETeams |-> {}]
  OBVIOUS
<1>16. none \in [ETeams -> SUBSET ECards] /\ none[0] = {} /\ none[1] = {}
  BY <1>15 DEF ETeams
<1>17. HeldIn(h) \cap open = {} /\ HeldIn(h) \cap Range(st) = {}
         /\ HeldIn(h) \cup open \cup Range(st) = Range(d)
  BY <1>8, <1>10, <1>13
<1>18. \A s \in ESeats : h[s] \cap open = {} /\ h[s] \cap Range(st) = {}
  <2>1. \A s \in ESeats : h[s] \subseteq HeldIn(h)
    BY DEF HeldIn
  <2>2. QED
    BY <1>17, <2>1
<1>19. Apart(h, open, st, none) /\ AllOf(h, open, st, none) = Range(d)
  <2>1. Apart(h, open, st, none)
    BY <1>8, <1>13, <1>16, <1>18 DEF Apart
  <2>2. AllOf(h, open, st, none) = Range(d)
    BY <1>16, <1>17 DEF AllOf
  <2>3. QED
    BY <2>1, <2>2
<1>20. PICK dl \in ESeats : dl = edealer'
  BY <1>2 DEF EscobaStartHand
<1>21. PICK t \in ETeams : t = ETeam(dl)
  BY <1>2, <1>20 DEF ETeam, ETeams, ESeats
<1>22. PICK swept_ \in BOOLEAN : swept_ = (SumOf(open) = 15)
  OBVIOUS
<1>23. /\ ehands' = h /\ stock' = st /\ ephase' = "on" /\ eturn' = ENext(dl) /\ escore' = escore
       /\ table' = (IF swept_ THEN {} ELSE open)
       /\ piles' = [u \in ETeams |-> IF swept_ /\ u = t THEN open ELSE {}]
       /\ escobas' = [u \in ETeams |-> IF swept_ /\ u = t THEN 1 ELSE 0]
       /\ lastTaker' = (IF swept_ THEN t ELSE ENobody)
  BY <1>7, <1>9, <1>12, <1>20, <1>21, <1>22 DEF EscobaStartHand
<1>24. EscobaShape'
  <2>1. eturn' \in ESeats /\ edealer' \in ESeats
    BY <1>2, <1>20, <1>23
  <2>2. piles' \in [ETeams -> SUBSET ECards] /\ table' \subseteq ECards
    BY <1>13, <1>23
  <2>3. escobas' \in [ETeams -> Nat] /\ lastTaker' \in ETeams \cup {ENobody}
    BY <1>23
  <2>4. QED
    BY <1>1, <1>8, <1>23, <2>1, <2>2, <2>3 DEF EscobaShape, EscobaInv
<1>25. RoundsLeft(stock)'
  BY <1>1, <1>14, <1>23 DEF RoundsLeft
<1>26. Apart(h, table', st, piles') /\ AllOf(h, table', st, piles') = Range(d)
  <2>1. CASE swept_
    <3>1. table' = {} /\ piles' = WithLeftovers(none, open, t)
      BY <1>15, <1>23, <2>1 DEF WithLeftovers, ENobody, ETeams
    <3>2. Apart(h, open, st, none) /\ none \in [ETeams -> SUBSET ECards]
      BY <1>16, <1>19
    <3>3. /\ Apart(h, {}, st, WithLeftovers(none, open, t))
          /\ AllOf(h, {}, st, WithLeftovers(none, open, t)) = AllOf(h, open, st, none)
      BY <3>2, LeftoversApart
    <3>4. QED
      BY <1>19, <3>1, <3>3
  <2>2. CASE ~swept_
    <3>1. table' = open /\ piles' = none
      BY <1>15, <1>23, <2>2
    <3>2. QED
      BY <1>19, <3>1
  <2>3. QED
    BY <2>1, <2>2
<1>27. CardsOfDeck'
  <2>2. AllOf(ehands, table, stock, piles)' = AllOf(ehands', table', stock', piles')
    BY <1>1 DEF AllOf, HeldIn
  <2>3. Apart(ehands, table, stock, piles)' <=> Apart(ehands', table', stock', piles')
    BY <1>1 DEF Apart
  <2>4. QED
    BY <1>1, <1>23, <1>26, <2>2, <2>3 DEF CardsOfDeck
<1>28. Rhythm'
  <2>1. EscobaOver' = EscobaOver /\ ~EscobaOver
    BY <1>23 DEF EscobaOver, EscobaWinner, EscobaStartHand, EscobaDeals
  <2>2. InStep(dl, h, ENext(dl), 3)
    <3>1. \A s \in ESeats : ~(Pos(dl, s) < Pos(dl, ENext(dl)))
      BY <1>1, EscobaSeats
    <3>2. QED
      BY <1>8, <3>1 DEF InStep
  <2>3. InStep(edealer, ehands, eturn, 3)' <=> InStep(dl, h, ENext(dl), 3)
    BY <1>1, <1>20, <1>23 DEF InStep, Pos, ENext
  <2>4. QED
    BY <1>23, <2>1, <2>2, <2>3 DEF Rhythm
<1>29. QED
  BY <1>24, <1>25, <1>27, <1>28 DEF EscobaInv

LEMMA EscobaPlayKeeps ==
  ASSUME EscobaInv, NEW s \in ESeats, NEW m, Play(s, m)
  PROVE  EscobaInv'
<1>1. etable' = etable /\ edealer' = edealer /\ ESeats' = ESeats /\ etable \in EscobaTables
  BY DEF Play, EscobaInv, EscobaShape, ESeats
<1>2. etable.seats \in {2, 4} /\ edealer \in ESeats /\ \A u \in ESeats : ENext(u) \in ESeats
  BY EscobaSeats DEF EscobaInv, EscobaShape
<1>3. PICK c, C : c = m[1] /\ C = m[2]
  OBVIOUS
<1>4. ephase # "none" /\ eturn = s /\ c \in ehands[s] /\ C \subseteq table
  BY <1>3 DEF Play, Accepts
<1>5. ephase = "on" /\ ~EscobaOver
  BY <1>4 DEF EscobaInv, Rhythm
<1>6. PICK k \in 1 .. 3 : InStep(edealer, ehands, s, k)
  BY <1>4, <1>5 DEF EscobaInv, Rhythm
<1>7. PICK t \in ETeams : t = ETeam(s)
  BY <1>2 DEF ETeam, ETeams, ESeats
<1>8. PICK left, tb, p, e, l :
        /\ left = [ehands EXCEPT ![s] = ehands[s] \ {c}] /\ tb = TableAfter(m)
        /\ p = [piles EXCEPT ![t] = piles[t] \cup Gained(m)]
        /\ e = escobas' /\ l = lastTaker'
  OBVIOUS
<1>9. /\ ehands \in [ESeats -> SUBSET ECards] /\ piles \in [ETeams -> SUBSET ECards]
      /\ table \subseteq ECards /\ escobas \in [ETeams -> Nat]
      /\ lastTaker \in ETeams \cup {ENobody} /\ escore \in [ETeams -> Nat]
  BY DEF EscobaInv, EscobaShape
<1>10. c \in ECards
  BY <1>4, <1>9
<1>11. /\ left \in [ESeats -> SUBSET ECards] /\ tb \subseteq ECards
       /\ p \in [ETeams -> SUBSET ECards]
  BY <1>3, <1>4, <1>8, <1>9, <1>10 DEF TableAfter, Gained
<1>12. e \in [ETeams -> Nat] /\ l \in ETeams \cup {ENobody}
  <2>1. e = escobas \/ e = [escobas EXCEPT ![t] = escobas[t] + 1]
    BY <1>3, <1>7, <1>8 DEF Play
  <2>2. l = lastTaker \/ l = t
    BY <1>3, <1>7, <1>8 DEF Play
  <2>3. QED
    BY <1>9, <2>1, <2>2
<1>13. Apart(ehands, table, stock, piles)
         /\ \E d \in etable.decks : AllOf(ehands, table, stock, piles) = Range(d)
  BY <1>4 DEF EscobaInv, CardsOfDeck
<1>14. Apart(left, tb, stock, p) /\ AllOf(left, tb, stock, p) = AllOf(ehands, table, stock, piles)
  <2>1. PICK to : to = Onto(piles, t, C \cup {c})
    OBVIOUS
  <2>2. /\ Apart(left, table \cup {c}, stock, piles)
        /\ AllOf(left, table \cup {c}, stock, piles) = AllOf(ehands, table, stock, piles)
        /\ Apart(left, table \ C, stock, to)
        /\ AllOf(left, table \ C, stock, to) = AllOf(ehands, table, stock, piles)
    <3>1. CanPlay(ehands, table, piles, s, c, C)
      BY <1>4, <1>9 DEF CanPlay
    <3>2. left = OneLess(ehands, s, c)
      BY <1>8 DEF OneLess
    <3>3. Apart(ehands, table, stock, piles)
      BY <1>13
    <3>4. NoneLost(ehands, table, stock, piles, s, c, C, t)
      BY <3>1, <3>3, MovedApart
    <3>5. QED
      BY <2>1, <3>2, <3>4 DEF NoneLost
  <2>3. CASE C = {}
    <3>1. tb = table \cup {c} /\ p = piles
      BY <1>3, <1>8, <1>9, <2>3 DEF TableAfter, Gained
    <3>2. QED
      BY <2>2, <3>1
  <2>4. CASE C # {}
    <3>1. tb = table \ C /\ p = to
      BY <1>3, <1>8, <2>1, <2>4 DEF TableAfter, Gained, Onto
    <3>2. QED
      BY <2>2, <3>1
  <2>5. QED
    BY <2>3, <2>4
<1>15. \/ HandsOut(left) /\ s = edealer
       \/ ~HandsOut(left) /\ \E j \in 1 .. 3 : InStep(edealer, left, ENext(s), j)
  BY <1>1, <1>2, <1>4, <1>6, <1>8, <1>9, CardPlayed
<1>16. Settle(left, tb, p, e, l) /\ eturn' = ENext(s)
  BY <1>3, <1>7, <1>8 DEF Play
<1>17. etable' \in EscobaTables /\ edealer' \in ESeats' /\ eturn' \in ESeats'
         /\ escobas' \in [ETeams -> Nat] /\ lastTaker' \in ETeams \cup {ENobody}
  BY <1>1, <1>2, <1>8, <1>12, <1>16
<1>18. ASSUME RoundsLeft(stock'), ehands' \in [ESeats -> SUBSET ECards],
              piles' \in [ETeams -> SUBSET ECards], table' \subseteq ECards,
              escore' \in [ETeams -> Nat],
              Apart(ehands', table', stock', piles'),
              AllOf(ehands', table', stock', piles') = AllOf(ehands, table, stock, piles),
              \/ /\ ephase' = "on" /\ escore' = escore
                 /\ \E j \in 1 .. 3 : InStep(edealer, ehands', ENext(s), j)
              \/ ephase' = "decided" /\ HandsOut(ehands')
       PROVE  EscobaInv'
  <2>1. EscobaShape'
    BY <1>1, <1>17, <1>18 DEF EscobaShape
  <2>2. RoundsLeft(stock)'
    BY <1>1, <1>18 DEF RoundsLeft
  <2>3. CardsOfDeck'
    <3>1. AllOf(ehands, table, stock, piles)' = AllOf(ehands', table', stock', piles')
      BY <1>1 DEF AllOf, HeldIn
    <3>2. Apart(ehands, table, stock, piles)' <=> Apart(ehands', table', stock', piles')
      BY <1>1 DEF Apart
    <3>3. PICK d \in etable.decks : AllOf(ehands, table, stock, piles)' = Range(d)
      BY <1>13, <1>18, <3>1
    <3>4. QED
      BY <1>1, <1>18, <3>2, <3>3 DEF CardsOfDeck
  <2>4. Rhythm'
    <3>1. CASE ephase' = "on"
      <4>1. EscobaOver' = EscobaOver
        BY <1>18, <3>1 DEF EscobaOver, EscobaWinner
      <4>2. PICK j \in 1 .. 3 : InStep(edealer, ehands', ENext(s), j)
        BY <1>18, <3>1
      <4>3. InStep(edealer, ehands, eturn, j)' <=> InStep(edealer, ehands', ENext(s), j)
        BY <1>1, <1>16 DEF InStep, Pos, ENext
      <4>4. QED
        BY <1>5, <3>1, <4>1, <4>2, <4>3 DEF Rhythm
    <3>2. CASE ephase' # "on"
      BY <1>1, <1>18, <3>2 DEF Rhythm, HandsOut
    <3>3. QED
      BY <3>1, <3>2
  <2>5. QED
    BY <2>1, <2>2, <2>3, <2>4 DEF EscobaInv
<1>19. RoundsLeft(stock)
  BY DEF EscobaInv
<1>20. CASE ~HandsOut(left)
  <2>1. /\ ehands' = left /\ stock' = stock /\ table' = tb /\ piles' = p
        /\ ephase' = ephase /\ escore' = escore
    BY <1>16, <1>20 DEF Settle, NextThree
  <2>2. QED
    BY <1>5, <1>9, <1>11, <1>14, <1>15, <1>18, <1>19, <1>20, <2>1
<1>21. CASE HandsOut(left) /\ stock # <<>>
  <2>1. PICK h, r : h = DealFrom(stock) /\ r = Rest(stock)
    OBVIOUS
  <2>2. /\ ehands' = h /\ stock' = r /\ table' = tb /\ piles' = p
        /\ ephase' = ephase /\ escore' = escore
    BY <1>16, <1>21, <2>1 DEF Settle, NextThree
  <2>3. /\ h \in [ESeats -> SUBSET ECards] /\ RoundsLeft(r)
        /\ \A u \in ESeats : IsFiniteSet(h[u]) /\ Cardinality(h[u]) = 3
    BY <1>2, <1>19, <1>21, <2>1, StockDealt
  <2>4. Apart(h, tb, r, p) /\ AllOf(h, tb, r, p) = AllOf(left, tb, stock, p)
    BY <1>2, <1>14, <1>19, <1>21, <2>1, RedealtApart
  <2>5. InStep(edealer, h, ENext(s), 3)
    <3>1. s = edealer
      BY <1>15, <1>21
    <3>2. \A u \in ESeats : ~(Pos(edealer, u) < Pos(edealer, ENext(s)))
      BY <1>1, <1>2, <3>1, EscobaSeats
    <3>3. QED
      BY <2>3, <3>2 DEF InStep
  <2>6. QED
    BY <1>5, <1>9, <1>11, <1>14, <1>18, <2>2, <2>3, <2>4, <2>5
<1>22. CASE HandsOut(left) /\ stock = <<>>
  <2>1. PICK end : end = WithLeftovers(p, tb, l)
    OBVIOUS
  <2>2. /\ ehands' = left /\ stock' = stock /\ table' = (IF l # ENobody THEN {} ELSE tb)
        /\ piles' = end /\ ephase' = "decided"
        /\ escore' = [u \in ETeams |-> escore[u] + HandPoints(end, e, u)]
    BY <1>16, <1>22, <2>1 DEF Settle, NextThree
  <2>3. escore' \in [ETeams -> Nat]
    <3>1. \A u \in ETeams : HandPoints(end, e, u) \in Nat
      BY <1>12, PointsAreNat
    <3>2. \A u \in ETeams : escore[u] + HandPoints(end, e, u) \in Nat
      BY <1>9, <3>1
    <3>3. QED
      BY <2>2, <3>2
  <2>4. CASE l = ENobody
    <3>1. end = p /\ table' = tb
      BY <2>1, <2>2, <2>4 DEF WithLeftovers
    <3>2. QED
      BY <1>11, <1>14, <1>18, <1>19, <1>22, <2>2, <2>3, <3>1
  <2>5. CASE l # ENobody
    <3>1. l \in ETeams /\ table' = {} /\ end = [p EXCEPT ![l] = p[l] \cup tb]
      BY <1>12, <2>1, <2>2, <2>5 DEF WithLeftovers
    <3>2. /\ end[0] = (IF l = 0 THEN p[0] \cup tb ELSE p[0])
          /\ end[1] = (IF l = 1 THEN p[1] \cup tb ELSE p[1])
          /\ end \in [ETeams -> SUBSET ECards]
      BY <1>11, <3>1 DEF ETeams
    <3>3. Apart(left, {}, stock, end) /\ AllOf(left, {}, stock, end) = AllOf(left, tb, stock, p)
      <4>1. l \in ETeams /\ p \in [ETeams -> SUBSET ECards] /\ Apart(left, tb, stock, p)
        BY <1>11, <1>14, <3>1
      <4>2. QED
        BY <2>1, <4>1, LeftoversApart
    <3>4. QED
      BY <1>11, <1>14, <1>18, <1>19, <1>22, <2>2, <2>3, <3>1, <3>2, <3>3
  <2>6. QED
    BY <2>4, <2>5
<1>23. QED
  BY <1>15, <1>20, <1>21, <1>22

LEMMA EscobaStepInv == EscobaInv /\ [EscobaNext]_escobaVars => EscobaInv'
<1> SUFFICES ASSUME EscobaInv, [EscobaNext]_escobaVars PROVE EscobaInv'
  OBVIOUS
<1>1. CASE UNCHANGED escobaVars
  <2>1. /\ etable' = etable /\ escore' = escore /\ edealer' = edealer /\ ephase' = ephase
        /\ eturn' = eturn /\ ehands' = ehands /\ table' = table /\ stock' = stock
        /\ piles' = piles /\ escobas' = escobas /\ lastTaker' = lastTaker /\ ESeats' = ESeats
    BY <1>1 DEF escobaVars, ESeats
  <2>2. EscobaShape'
    BY <2>1 DEF EscobaInv, EscobaShape
  <2>3. RoundsLeft(stock)'
    BY <2>1 DEF EscobaInv, RoundsLeft
  <2>4. CardsOfDeck'
    <3>1. AllOf(ehands, table, stock, piles)' = AllOf(ehands, table, stock, piles)
      BY <2>1 DEF AllOf, HeldIn
    <3>2. Apart(ehands, table, stock, piles)' <=> Apart(ehands, table, stock, piles)
      BY <2>1 DEF Apart
    <3>3. QED
      BY <2>1, <3>1, <3>2 DEF EscobaInv, CardsOfDeck
  <2>5. Rhythm'
    <3>1. EscobaOver' = EscobaOver
      BY <2>1 DEF EscobaOver, EscobaWinner
    <3>2. \A k : InStep(edealer, ehands, eturn, k)' <=> InStep(edealer, ehands, eturn, k)
      BY <2>1 DEF InStep, Pos, ENext
    <3>3. QED
      BY <2>1, <3>1, <3>2 DEF EscobaInv, Rhythm
  <2>6. QED
    BY <2>2, <2>3, <2>4, <2>5 DEF EscobaInv
<1>2. ASSUME NEW d \in etable.decks, EscobaStartHand(d) PROVE EscobaInv'
  BY <1>2, EscobaStartKeeps
<1>3. ASSUME NEW s \in ESeats, NEW m \in Choosable(s), Play(s, m) PROVE EscobaInv'
  BY <1>3, EscobaPlayKeeps
<1>4. QED
  BY <1>1, <1>2, <1>3 DEF EscobaNext

LEMMA EscobaInvTypes == EscobaInv => EscobaTypeOK
<1>1. RoundsLeft(stock) => stock \in Seq(ECards)
  BY DEF RoundsLeft
<1>2. QED
  BY <1>1 DEF EscobaInv, EscobaShape, EscobaTypeOK

LEMMA EscobaInvKeeps == EscobaInv => CardsKept
<1> SUFFICES ASSUME EscobaInv, ephase # "none" PROVE CardsKept
  BY DEF CardsKept
<1>1. Apart(ehands, table, stock, piles)
  BY DEF EscobaInv, CardsOfDeck
<1>2. PICK d \in etable.decks : AllOf(ehands, table, stock, piles) = Range(d)
  BY DEF EscobaInv, CardsOfDeck
<1>3. PICK n \in {2, 4} : n = etable.seats
  BY EscobaSeats DEF EscobaInv, EscobaShape
<1>4. Places = -4 .. n - 1 /\ ESeats = 0 .. n - 1
  BY <1>3 DEF Places, ESeats
<1>5. /\ InPlace(-1) = table /\ InPlace(-2) = Range(stock)
      /\ InPlace(-3) = piles[0] /\ InPlace(-4) = piles[1]
  BY DEF InPlace
<1>6. \A s \in ESeats : InPlace(s) = ehands[s]
  BY <1>4 DEF InPlace
<1>7. \A i \in Places : i \in ESeats \/ i = -1 \/ i = -2 \/ i = -3 \/ i = -4
  BY <1>3, <1>4
<1>8. ESeats \subseteq Places /\ -1 \in Places /\ -2 \in Places /\ -3 \in Places /\ -4 \in Places
  BY <1>3, <1>4
<1>9. UNION { InPlace(i) : i \in Places } = Range(d)
  <2>1. ASSUME NEW i \in Places PROVE InPlace(i) \subseteq Range(d)
    BY <1>2, <1>5, <1>6, <1>7 DEF AllOf, HeldIn
  <2>2. ASSUME NEW x \in Range(d) PROVE \E i \in Places : x \in InPlace(i)
    BY <1>2, <1>5, <1>6, <1>8 DEF AllOf, HeldIn
  <2>3. QED
    BY <2>1, <2>2
<1>10. ASSUME NEW i \in Places, NEW j \in Places, i # j PROVE InPlace(i) \cap InPlace(j) = {}
  BY <1>1, <1>5, <1>6, <1>7, <1>10 DEF Apart
<1>11. IsInjective(stock)
  BY DEF EscobaInv, RoundsLeft
<1>12. QED
  BY <1>9, <1>10, <1>11 DEF CardsKept

\* No card of escoba is ever lost or held twice: EscobaStartHand, Play and the settling
\* it ends with only move cards, whatever the decks, the seats and the hands dealt.
THEOREM EscobaCardsKept == EscobaSpec => []CardsKept
<1>1. EscobaSpec => []EscobaInv
  BY EscobaInitInv, EscobaStepInv, PTL DEF EscobaSpec
<1>2. QED
  BY <1>1, EscobaInvKeeps, PTL

-----------------------------------------------------------------------------
(* Generala: what is written on a card.                                      *)

\* What a box is given is a number: never the mark of an open box.
LEMMA ScoreIsNat ==
  ASSUME NEW b \in Boxes, NEW h \in [Faces -> Nat], NEW r, NEW card
  PROVE  ScoreFor(b, h, r, card) \in Nat
<1>1. CASE b \in Upper
  <2>1. h[b] \in Nat
    BY <1>1 DEF Upper, Faces
  <2>2. QED
    BY <1>1, <2>1 DEF ScoreFor, Upper
<1>2. CASE b \notin Upper
  <2>1. Armada[b] \in Nat
    BY DEF Armada, Boxes
  <2>2. QED
    BY <1>2, <2>1 DEF ScoreFor
<1>3. QED
  BY <1>1, <1>2

\* A box written by the rules keeps the card in order.
LEMMA WritingKeepsOrder ==
  ASSUME NEW card \in [Boxes -> {Open} \cup Nat], WellCrossed(card),
         NEW b \in Boxes, NEW h, NEW r, MayWrite(b, card, h, r),
         ScoreFor(b, h, r, card) \in Nat
  PROVE  WellCrossed([card EXCEPT ![b] = ScoreFor(b, h, r, card)])
<1> DEFINE v == ScoreFor(b, h, r, card)
           after == [card EXCEPT ![b] = v]
<1>1. v # Open /\ after[b] = v /\ \A x \in Boxes : x # b => after[x] = card[x]
  BY DEF Open
<1>2. v > 0 \/ \A o \in Boxes : card[o] = Open => o <= b
  BY DEF MayWrite, OpenBoxes
<1>3. ASSUME NEW x \in Boxes, NEW o \in Boxes, after[x] = 0, after[o] = Open PROVE o < x
  <2>1. o # b /\ card[o] = Open
    BY <1>1, <1>3
  <2>2. CASE x = b
    BY <1>1, <1>2, <1>3, <2>1, <2>2 DEF Boxes
  <2>3. CASE x # b
    BY <1>1, <1>3, <2>1, <2>3 DEF WellCrossed
  <2>4. QED
    BY <2>2, <2>3
<1>4. QED
  BY <1>3 DEF WellCrossed

\* A box written by the rules pays a double generala only after a generala.
LEMMA WritingEarnsDoble ==
  ASSUME NEW card \in [Boxes -> {Open} \cup Nat], DobleEarned(card),
         NEW b \in Boxes, NEW h, NEW r, MayWrite(b, card, h, r),
         ScoreFor(b, h, r, card) \in Nat
  PROVE  DobleEarned([card EXCEPT ![b] = ScoreFor(b, h, r, card)])
<1> DEFINE v == ScoreFor(b, h, r, card)
           after == [card EXCEPT ![b] = v]
<1> SUFFICES ASSUME after[Doble] > 0 PROVE after[GeneralaBox] > 0
  BY DEF DobleEarned
<1>1. card[b] = Open /\ Doble \in Boxes /\ GeneralaBox \in Boxes /\ Doble # GeneralaBox
  BY DEF MayWrite, OpenBoxes, Doble, GeneralaBox, Boxes
<1>2. CASE b = Doble
  <2>1. v > 0 /\ after[GeneralaBox] = card[GeneralaBox]
    BY <1>1, <1>2
  <2>2. Doble \notin Upper
    BY DEF Doble, Upper
  <2>3. Holds(Doble, h, card)
    BY <1>2, <2>1, <2>2 DEF ScoreFor
  <2>4. HasScoredGenerala(card)
    BY <2>3 DEF Holds, Doble, Escalera, Full, Poker, GeneralaBox
  <2>5. QED
    BY <2>1, <2>4 DEF HasScoredGenerala
<1>3. CASE b # Doble
  <2>1. card[Doble] > 0
    BY <1>1, <1>3
  <2>2. card[GeneralaBox] > 0
    BY <2>1 DEF DobleEarned
  <2>3. b # GeneralaBox
    BY <1>1, <2>2 DEF Open
  <2>4. QED
    BY <1>1, <2>2, <2>3
<1>4. QED
  BY <1>2, <1>3

-----------------------------------------------------------------------------
(* Generala: dice, turns and the boxes left.                                 *)

LEMMA SizeOf ==
  ASSUME NEW h \in [Faces -> Nat]
  PROVE  Size(h) \in Nat /\ \A f \in Faces : h[f] <= Size(h)
<1>1. Faces = {1, 2, 3, 4, 5, 6}
  BY DEF Faces
<1>2. PICK a \in Nat, b \in Nat, c \in Nat, d \in Nat, e \in Nat, f \in Nat :
        a = h[1] /\ b = h[2] /\ c = h[3] /\ d = h[4] /\ e = h[5] /\ f = h[6]
  BY <1>1
<1>3. Size(h) = a + b + c + d + e + f
  BY <1>2 DEF Size
<1>4. QED
  BY <1>1, <1>2, <1>3

\* The dice that were kept and the ones thrown again make five.
LEMMA PlusTallies ==
  ASSUME NEW h \in Tallies, NEW k \in Tallies, Size(k) = 5 - Size(h)
  PROVE  Plus(h, k) \in Tallies
<1>1. h \in [Faces -> Nat] /\ k \in [Faces -> Nat]
  BY DEF Tallies
<1>2. PICK a \in Nat, b \in Nat : a = Size(h) /\ b = Size(k) /\ a + b = 5
  BY <1>1, SizeOf
<1>3. \A f \in Faces : h[f] + k[f] \in 0 .. 5
  <2>1. ASSUME NEW f \in Faces PROVE h[f] + k[f] \in 0 .. 5
    <3>1. PICK c \in Nat, d \in Nat : c = h[f] /\ d = k[f]
      BY <1>1
    <3>2. c <= a /\ d <= b
      BY <1>1, <1>2, <3>1, SizeOf
    <3>3. c + d \in 0 .. 5
      BY <1>2, <3>2
    <3>4. QED
      BY <3>1, <3>3
  <2>2. QED
    BY <2>1
<1>4. QED
  BY <1>3 DEF Plus, Tallies

LEMMA EmptyHand == NoDice \in Tallies /\ Size(NoDice) = 0
  BY DEF NoDice, Tallies, Size, Faces

\* How many boxes a card has open.
LEMMA BoxesLeft ==
  \A card : IsFiniteSet(OpenBoxes(card)) /\ Cardinality(OpenBoxes(card)) \in Nat
<1>1. IsFiniteSet(Boxes)
  <2>1. 1 \in Int /\ 11 \in Int
    OBVIOUS
  <2>2. QED
    BY <2>1, FS_Interval DEF Boxes
<1>2. \A card : OpenBoxes(card) \subseteq Boxes
  BY DEF OpenBoxes
<1>3. QED
  BY <1>1, <1>2, FS_Subset, FS_CardinalityType

\* Of the boxes open, the one that pays most may always be written.
LEMMA SomeBoxWritable ==
  ASSUME NEW card, NEW h, NEW r, OpenBoxes(card) # {}
  PROVE  \E b \in Boxes : MayWrite(b, card, h, r)
<1>1. OpenBoxes(card) \subseteq 1 .. 11
  BY DEF OpenBoxes, Boxes
<1>2. PICK b \in OpenBoxes(card) : \A o \in OpenBoxes(card) : o <= b
  BY <1>1, GreatestNumber
<1>3. QED
  BY <1>1, <1>2 DEF MayWrite, Boxes

TurnOK ==
  /\ gphase \in {"awaiting-roll", "deciding", "servida-win"} /\ gseat \in GSeats
  /\ gtier \in [GSeats -> {"any", "normal", "hard"}]
  /\ gcards \in [GSeats -> [Boxes -> {Open} \cup Nat]]
  /\ dice \in Tallies /\ rolls \in 0 .. RollsPerTurn

\* A throw that is awaited can be made, and whoever decides has a box to write.
GeneralaMoves ==
  /\ gphase = "awaiting-roll" => Size(dice) < 5 /\ rolls < RollsPerTurn
  /\ gphase = "deciding" => ~CardFull(gcards[gseat])

\* The seats write in turn.
BoxesEven ==
  Cardinality(OpenBoxes(gcards[1])) = Cardinality(OpenBoxes(gcards[0])) + gseat

GeneralaInv == TurnOK /\ GeneralaMoves /\ BoxesEven /\ CrossedInOrder /\ DobleAfterGenerala

LEMMA GeneralaInitInv == GeneralaInit => GeneralaInv
<1> SUFFICES ASSUME GeneralaInit PROVE GeneralaInv
  OBVIOUS
<1>1. PICK t \in GeneralaTables : gcards = t.cards /\ gtier = t.tier
  BY DEF GeneralaInit
<1>2. /\ gcards \in [GSeats -> [Boxes -> {Open} \cup Nat]]
      /\ gtier \in [GSeats -> {"any", "normal", "hard"}]
      /\ \A s \in GSeats : WellCrossed(gcards[s]) /\ DobleEarned(gcards[s])
      /\ Cardinality(OpenBoxes(gcards[0])) = Cardinality(OpenBoxes(gcards[1]))
  BY <1>1, GeneralaAssumption
<1>3. /\ gphase = "awaiting-roll" /\ gseat = 0 /\ rolls = 0 /\ dice \in Tallies
      /\ Size(dice) = 0
  BY EmptyHand DEF GeneralaInit
<1>4. TurnOK /\ GeneralaMoves
  BY <1>2, <1>3 DEF TurnOK, GeneralaMoves, GSeats, RollsPerTurn
<1>5. BoxesEven
  BY <1>2, <1>3, BoxesLeft DEF BoxesEven
<1>6. QED
  BY <1>2, <1>4, <1>5 DEF GeneralaInv, CrossedInOrder, DobleAfterGenerala

\* A throw finds the seat on turn with a box still open.
LEMMA RollKeeps ==
  ASSUME GeneralaInv, NEW m, RollDice(m)
  PROVE  GeneralaInv'
<1>1. /\ gphase = "awaiting-roll" /\ ~GeneralaOver /\ m \in Tallies
      /\ Size(m) = 5 - Size(dice) /\ rolls' = rolls + 1 /\ dice' = Plus(dice, m)
      /\ gphase' \in {"deciding", "servida-win"}
      /\ gcards' = gcards /\ gseat' = gseat /\ gtier' = gtier
  BY DEF RollDice, SystemRolls, NextRoll
<1>2. TurnOK'
  <2>1. dice' \in Tallies
    BY <1>1, PlusTallies DEF GeneralaInv, TurnOK
  <2>2. rolls' \in 0 .. RollsPerTurn
    BY <1>1 DEF GeneralaInv, GeneralaMoves, TurnOK, RollsPerTurn
  <2>3. QED
    BY <1>1, <2>1, <2>2 DEF GeneralaInv, TurnOK
<1>3. ~CardFull(gcards[gseat])
  <2>1. PICK a \in Nat, b \in Nat : /\ a = Cardinality(OpenBoxes(gcards[0]))
                                    /\ b = Cardinality(OpenBoxes(gcards[1]))
    BY BoxesLeft
  <2>2. b = a + gseat /\ gseat \in {0, 1}
    BY <2>1 DEF GeneralaInv, BoxesEven, TurnOK, GSeats
  <2>3. \A card : Cardinality(OpenBoxes(card)) = 0 <=> CardFull(card)
    BY BoxesLeft, FS_EmptySet DEF CardFull
  <2>4. ~CardFull(gcards[0]) \/ ~CardFull(gcards[1])
    BY <1>1 DEF GeneralaOver, GSeats
  <2>5. a # 0 \/ b # 0
    BY <2>1, <2>3, <2>4
  <2>6. CASE gseat = 0
    BY <2>1, <2>2, <2>3, <2>5, <2>6
  <2>7. CASE gseat = 1
    <3>1. b # 0
      BY <2>2, <2>7
    <3>2. QED
      BY <2>1, <2>3, <2>7, <3>1
  <2>8. QED
    BY <2>2, <2>6, <2>7
<1>4. GeneralaMoves'
  BY <1>1, <1>3 DEF GeneralaMoves, CardFull, OpenBoxes
<1>5. BoxesEven' /\ CrossedInOrder' /\ DobleAfterGenerala'
  BY <1>1 DEF GeneralaInv, BoxesEven, CrossedInOrder, DobleAfterGenerala
<1>6. QED
  BY <1>2, <1>4, <1>5 DEF GeneralaInv

LEMMA HoldKeeps ==
  ASSUME GeneralaInv, NEW s \in GSeats, NEW k, Hold(s, k)
  PROVE  GeneralaInv'
<1>1. /\ k \in Keeps(dice) /\ rolls < RollsPerTurn /\ gphase' = "awaiting-roll" /\ dice' = k
      /\ gcards' = gcards /\ gseat' = gseat /\ gtier' = gtier /\ rolls' = rolls
  BY DEF Hold, OfferedKeeps
<1>2. k \in Tallies /\ Size(k) < 5
  <2>1. PICK n \in 0 .. 4 : k \in Multisets[n]
    BY <1>1 DEF Keeps
  <2>2. n \in 0 .. 5
    OBVIOUS
  <2>3. k \in [Faces -> 0 .. n] /\ Size(k) = n
    BY <2>1, <2>2 DEF Multisets
  <2>4. QED
    BY <2>3 DEF Tallies
<1>3. TurnOK' /\ GeneralaMoves'
  BY <1>1, <1>2 DEF GeneralaInv, TurnOK, GeneralaMoves
<1>4. BoxesEven' /\ CrossedInOrder' /\ DobleAfterGenerala'
  BY <1>1 DEF GeneralaInv, BoxesEven, CrossedInOrder, DobleAfterGenerala
<1>5. QED
  BY <1>3, <1>4 DEF GeneralaInv

LEMMA ScoreKeeps ==
  ASSUME GeneralaInv, NEW s \in GSeats, NEW b, Score(s, b)
  PROVE  GeneralaInv'
<1>1. PICK card : card = gcards[s]
  OBVIOUS
<1>2. b \in Boxes /\ MayWrite(b, card, dice, rolls) /\ gseat = s
  BY <1>1 DEF Score, OfferedBoxes, OnTurn
<1>3. card \in [Boxes -> {Open} \cup Nat] /\ dice \in [Faces -> Nat]
  BY <1>1 DEF GeneralaInv, TurnOK, Tallies
<1>4. PICK v \in Nat : v = ScoreFor(b, dice, rolls, card)
  BY <1>2, <1>3, ScoreIsNat
<1>5. PICK after : after = [card EXCEPT ![b] = v]
  OBVIOUS
<1>6. gcards' = [gcards EXCEPT ![s] = after]
  BY <1>1, <1>4, <1>5 DEF Score
<1>7. after \in [Boxes -> {Open} \cup Nat] /\ WellCrossed(after) /\ DobleEarned(after)
  <2>1. WellCrossed(card) /\ DobleEarned(card)
    BY <1>1 DEF GeneralaInv, CrossedInOrder, DobleAfterGenerala
  <2>2. QED
    BY <1>2, <1>3, <1>4, <1>5, <2>1, WritingKeepsOrder, WritingEarnsDoble
<1>8. \A u \in GSeats : gcards'[u] = IF u = s THEN after ELSE gcards[u]
  BY <1>6 DEF GeneralaInv, TurnOK
<1>9. CrossedInOrder' /\ DobleAfterGenerala'
  BY <1>7, <1>8 DEF GeneralaInv, CrossedInOrder, DobleAfterGenerala
<1>10. /\ gphase' = "awaiting-roll" /\ gseat' = 1 - s /\ rolls' = 0 /\ dice' = NoDice
       /\ gtier' = gtier
  BY DEF Score
<1>11. TurnOK' /\ GeneralaMoves'
  <2>1. gcards' \in [GSeats -> [Boxes -> {Open} \cup Nat]]
    BY <1>6, <1>7 DEF GeneralaInv, TurnOK
  <2>2. gseat' \in GSeats
    BY <1>10 DEF GSeats
  <2>3. QED
    BY <1>10, <2>1, <2>2, EmptyHand DEF GeneralaInv, TurnOK, GeneralaMoves, RollsPerTurn
<1>12. BoxesEven'
  <2>1. OpenBoxes(after) = OpenBoxes(card) \ {b} /\ b \in OpenBoxes(card)
    BY <1>2, <1>3, <1>5 DEF OpenBoxes, MayWrite, Open
  <2>2. PICK n \in Nat, l \in Nat : /\ n = Cardinality(OpenBoxes(card))
                                    /\ l = Cardinality(OpenBoxes(after))
    BY BoxesLeft
  <2>3. l = n - 1
    BY <2>1, <2>2, BoxesLeft, FS_RemoveElement
  <2>4. CASE s = 0
    <3>1. gcards'[0] = after /\ gcards'[1] = gcards[1] /\ gcards[0] = card /\ gseat' = 1
      BY <1>1, <1>8, <1>10, <2>4 DEF GSeats
    <3>2. Cardinality(OpenBoxes(gcards[1])) = n
      BY <1>2, <2>2, <2>4, <3>1 DEF GeneralaInv, BoxesEven
    <3>3. /\ Cardinality(OpenBoxes(gcards'[1])) = n
          /\ Cardinality(OpenBoxes(gcards'[0])) = l
      BY <2>2, <3>1, <3>2, Zenon
    <3>4. n = l + 1
      BY <2>3
    <3>5. QED
      BY <3>1, <3>3, <3>4 DEF BoxesEven
  <2>5. CASE s = 1
    <3>1. gcards'[1] = after /\ gcards'[0] = gcards[0] /\ gcards[1] = card /\ gseat' = 0
      BY <1>1, <1>8, <1>10, <2>5 DEF GSeats
    <3>2. PICK o \in Nat : o = Cardinality(OpenBoxes(gcards[0]))
      BY BoxesLeft
    <3>3. n = o + 1
      BY <1>2, <2>2, <2>5, <3>1, <3>2 DEF GeneralaInv, BoxesEven
    <3>4. /\ Cardinality(OpenBoxes(gcards'[1])) = l
          /\ Cardinality(OpenBoxes(gcards'[0])) = o
      BY <2>2, <3>1, <3>2, Zenon
    <3>5. l = o + 0
      BY <2>3, <3>3
    <3>6. QED
      BY <3>1, <3>4, <3>5 DEF BoxesEven
  <2>6. QED
    BY <2>4, <2>5 DEF GSeats
<1>13. QED
  BY <1>9, <1>11, <1>12 DEF GeneralaInv

LEMMA GeneralaStepInv == GeneralaInv /\ [GeneralaNext]_generalaVars => GeneralaInv'
<1> SUFFICES ASSUME GeneralaInv, [GeneralaNext]_generalaVars PROVE GeneralaInv'
  OBVIOUS
<1>1. CASE UNCHANGED generalaVars
  BY <1>1 DEF generalaVars, GeneralaInv, TurnOK, GeneralaMoves, BoxesEven, CrossedInOrder,
              DobleAfterGenerala
<1>2. CASE GeneralaNext
  BY <1>2, RollKeeps, HoldKeeps, ScoreKeeps DEF GeneralaNext
<1>3. QED
  BY <1>1, <1>2

\* Through any match and any throws, no open box pays more than a crossed one, and a
\* double generala pays only a card that scored a generala.
THEOREM GeneralaFilledInOrder == GeneralaSpec => []CardFilledInOrder
<1>1. GeneralaInv => CardFilledInOrder
  BY DEF GeneralaInv, CardFilledInOrder
<1>2. QED
  BY <1>1, GeneralaInitInv, GeneralaStepInv, PTL DEF GeneralaSpec

-----------------------------------------------------------------------------
(* The port: whose move it is, game by game.                                 *)

LEMMA TrucoKeepsPort ==
  ASSUME TrucoPortInv
  PROVE  /\ TrucoStage \in {"system", "seats", "over"} /\ TrucoActors \subseteq 0 .. 3
         /\ TrucoStage = "seats" <=> TrucoActors # {}
         /\ BotsNext => TrucoStage # "over"
<1>1. HandInv
  BY DEF TrucoPortInv
<1>2. seatCount \in {2, 4} /\ TrucoSeats = 0 .. seatCount - 1
  BY <1>1, RoundTheTable DEF HandInv, TrucoSeats
<1>3. TrucoActors \subseteq TrucoSeats
  BY DEF TrucoActors, Movers
<1>4. TrucoStage = "seats" <=> HandOn
  BY <1>1 DEF TrucoStage, SystemDeals, HandOn, HandInv, TricksOK
<1>5. ASSUME TrucoActors # {} PROVE HandOn
  <2>1. PICK s \in TrucoActors : TRUE
    BY <1>5
  <2>2. QED
    BY <2>1 DEF TrucoActors, Movers, MayCallTruco, MayAnswerTruco, MayPlay, MayAnswerEnvido,
      MayCallEnvido, MayDeclare, MayConsult, MaySignal
<1>6. ASSUME HandOn PROVE TrucoActors # {}
  <2>1. 0 \in TrucoSeats /\ 1 \in TrucoSeats /\ Team(0) = 0 /\ Team(1) = 1
    BY <1>2 DEF Team
  <2>2. turn \in TrucoSeats
    BY <1>1 DEF HandInv, SeatsOK
  <2>3. CASE envido.status = "pending"
    <3>1. envido.team \in {0, 1}
      BY <1>1, <2>3 DEF HandInv, EnvidoOK, EnvidoRecords, None, Teams
    <3>2. \E s \in TrucoSeats : MayAnswerEnvido(s)
      BY <1>6, <2>1, <2>3, <3>1 DEF MayAnswerEnvido
    <3>3. QED
      BY <3>2 DEF TrucoActors, Movers
  <2>4. CASE envido.status = "accepted"
    <3>1. Len(envido.said) \in Nat
      <4>1. envido.said \in Seq(WordsAt(TrucoSeats))
        BY <1>1, <2>4 DEF HandInv, EnvidoOK, EnvidoRecords, None
      <4>2. QED
        BY <4>1
    <3>2. Declarer \in TrucoSeats
      <4>1. mano \in 0 .. seatCount - 1
        BY <1>1, <1>2, RoundTheTable DEF HandInv
      <4>2. PICK n \in Nat : n = mano + Len(envido.said)
        BY <1>2, <3>1, <4>1
      <4>3. CASE seatCount = 2
        BY <1>2, <4>2, <4>3 DEF Declarer
      <4>4. CASE seatCount = 4
        BY <1>2, <4>2, <4>4 DEF Declarer
      <4>5. QED
        BY <1>2, <4>3, <4>4
    <3>3. MayDeclare(Declarer, "points")
      BY <1>6, <2>4 DEF MayDeclare
    <3>4. QED
      BY <3>2, <3>3 DEF TrucoActors, Movers
  <2>5. CASE ~EnvidoOpen /\ truco.status = "pending"
    <3>1. truco.team \in {0, 1}
      BY <1>1, <2>5 DEF HandInv, TrucoIInv, ChainOK, TrucoRecords, None, Teams
    <3>2. \E s \in TrucoSeats : MayAnswerTruco(s)
      BY <1>6, <2>1, <2>5, <3>1 DEF MayAnswerTruco
    <3>3. QED
      BY <3>2 DEF TrucoActors, Movers
  <2>6. CASE ~EnvidoOpen /\ truco.status # "pending"
    <3>1. hands[turn] # {}
      <4>1. PICK b \in 0 .. 2 : b = Len(tricks)
        BY <1>1, <1>6, TricksToGo
      <4>2. PICK l \in TrucoSeats : CountedFrom(l, hands, Len(plays), b, turn)
        BY <1>6, <4>1 DEF TrucoPortInv, CardsInHand
      <4>3. PICK n \in Nat : n = Len(plays) /\ n < seatCount
        <5>1. plays \in Seq(PlayAt(TrucoSeats)) /\ Len(plays) < seatCount
          BY <1>1 DEF HandInv, SeatsOK, PlaysAt
        <5>2. QED
          BY <5>1
      <4>4. Place(l, turn) = n
        BY <1>2, <4>2, <4>3, RoundOfTrick DEF CountedFrom
      <4>5. IsFiniteSet(hands[turn]) /\ Cardinality(hands[turn]) = 3 - b
        BY <2>2, <4>2, <4>3, <4>4 DEF CountedFrom
      <4>6. 3 - b # 0
        OBVIOUS
      <4>7. QED
        BY <4>5, <4>6, FS_EmptySet
    <3>2. MayPlay(turn)
      BY <1>6, <2>6 DEF MayPlay
    <3>3. QED
      BY <2>2, <3>1, <3>2 DEF TrucoActors, Movers
  <2>7. QED
    BY <2>3, <2>4, <2>5, <2>6 DEF EnvidoOpen
<1>7. ASSUME BotsNext PROVE ~TrucoOver
  <2>1. TrucoNext
    BY <1>7 DEF BotsNext, Flash, TrucoNext
  <2>2. CASE HandOn
    BY <2>2 DEF HandOn
  <2>3. CASE ~HandOn
    <3>1. ASSUME NEW s \in TrucoSeats
          PROVE  ~CallTruco(s) /\ ~ConsultPartner(s) /\ ~SendSena(s) /\ \A c : ~PlayCard(s, c)
      BY <2>3 DEF CallTruco, MayCallTruco, ConsultPartner, MayConsult, SendSena, MaySignal,
         PlayCard, MayPlay
    <3>2. ASSUME NEW s \in TrucoSeats, NEW yes \in BOOLEAN
          PROVE  ~AnswerTruco(s, yes) /\ ~AnswerEnvido(s, yes)
      BY <2>3 DEF AnswerTruco, MayAnswerTruco, AnswerEnvido, MayAnswerEnvido
    <3>3. ASSUME NEW s \in TrucoSeats
          PROVE  (\A l \in 1 .. 4 : ~CallEnvido(s, l)) /\ \A how : ~Declare(s, how)
      BY <2>3 DEF CallEnvido, MayCallEnvido, Declare, MayDeclare
    <3>4. PICK deal \in TrucoDeals(seatCount) : StartHand(deal)
      BY <2>1, <3>1, <3>2, <3>3 DEF TrucoNext, TrucoMoves
    <3>5. QED
      BY <3>4 DEF StartHand, SystemDeals
  <2>4. QED
    BY <2>2, <2>3
<1>8. TrucoStage \in {"system", "seats", "over"} /\ (~TrucoOver => TrucoStage # "over")
  BY DEF TrucoStage
<1>9. TrucoActors \subseteq 0 .. 3
  BY <1>2, <1>3
<1>10. QED
  BY <1>4, <1>5, <1>6, <1>7, <1>8, <1>9

LEMMA EscobaKeepsPort ==
  ASSUME EscobaInv
  PROVE  /\ EscobaStage \in {"system", "seats", "over"} /\ EscobaActors \subseteq 0 .. 3
         /\ EscobaStage = "seats" <=> EscobaActors # {}
         /\ EscobaNext => EscobaStage # "over"
<1>1. etable.seats \in {2, 4} /\ ESeats = 0 .. etable.seats - 1 /\ eturn \in ESeats
        /\ edealer \in ESeats
  BY EscobaSeats DEF EscobaInv, EscobaShape
<1>2. EscobaActors \subseteq 0 .. 3
  BY <1>1 DEF EscobaActors
<1>3. ephase = "on" => ~EscobaOver
  BY DEF EscobaInv, Rhythm
<1>4. ASSUME NEW s \in ESeats, Offered(s) # {} PROVE ephase = "on"
  <2>1. ehands[s] # {}
    BY <1>4 DEF Offered
  <2>2. QED
    BY <2>1 DEF EscobaInv, Rhythm
<1>5. ASSUME ephase = "on" PROVE Offered(eturn) # {}
  <2>1. PICK k \in 1 .. 3 : InStep(edealer, ehands, eturn, k)
    BY <1>5 DEF EscobaInv, Rhythm
  <2>2. Pos(edealer, eturn) \in Nat
    BY <1>1, EscobaSeats DEF EscobaInv, EscobaShape
  <2>3. IsFiniteSet(ehands[eturn]) /\ Cardinality(ehands[eturn]) = k
    BY <1>1, <2>1, <2>2 DEF InStep
  <2>4. PICK c \in ehands[eturn] : TRUE
    BY <2>3, FS_EmptySet
  <2>5. PICK moves : moves = IF Captures(c) = {} THEN {<<c, {}>>} ELSE {c} \X Captures(c)
    OBVIOUS
  <2>6. moves # {} /\ moves \subseteq Offered(eturn)
    <3>1. moves # {}
      <4>1. CASE Captures(c) = {}
        BY <2>5, <4>1
      <4>2. CASE Captures(c) # {}
        <5>1. PICK C \in Captures(c) : TRUE
          BY <4>2
        <5>2. <<c, C>> \in moves
          BY <2>5, <4>2, <5>1
        <5>3. QED
          BY <5>2
      <4>3. QED
        BY <4>1, <4>2
    <3>2. moves \subseteq Offered(eturn)
      BY <1>5, <2>5 DEF Offered
    <3>3. QED
      BY <3>1, <3>2
  <2>7. QED
    BY <2>6
<1>6. EscobaStage = "seats" <=> EscobaActors # {}
  BY <1>1, <1>3, <1>4, <1>5 DEF EscobaStage, EscobaDeals, EscobaActors
<1>7. ASSUME EscobaNext PROVE ~EscobaOver
  <2>1. CASE \E d \in etable.decks : EscobaStartHand(d)
    BY <2>1 DEF EscobaStartHand, EscobaDeals
  <2>2. ASSUME NEW s \in ESeats, NEW m \in Choosable(s), Play(s, m) PROVE ephase = "on"
    <3>1. ehands[s] # {}
      BY <2>2 DEF Play, Accepts
    <3>2. QED
      BY <3>1 DEF EscobaInv, Rhythm
  <2>3. QED
    BY <1>3, <1>7, <2>1, <2>2 DEF EscobaNext
<1>8. EscobaStage \in {"system", "seats", "over"} /\ (~EscobaOver => EscobaStage # "over")
  BY DEF EscobaStage
<1>9. QED
  BY <1>2, <1>6, <1>7, <1>8

LEMMA GeneralaKeepsPort ==
  ASSUME GeneralaInv
  PROVE  /\ GeneralaStage \in {"system", "seats", "over"} /\ GeneralaActors \subseteq 0 .. 3
         /\ GeneralaStage = "seats" <=> GeneralaActors # {}
         /\ GeneralaNext => GeneralaStage # "over"
<1>1. gphase \in {"awaiting-roll", "deciding", "servida-win"} /\ gseat \in GSeats
  BY DEF GeneralaInv, TurnOK
<1>2. gphase = "deciding" => ~CardFull(gcards[gseat])
  BY DEF GeneralaInv, GeneralaMoves
<1>3. gphase = "deciding" => ~GeneralaOver
  BY <1>1, <1>2 DEF GeneralaOver
<1>4. gphase = "awaiting-roll" => Size(dice) < 5
  BY DEF GeneralaInv, GeneralaMoves
<1>5. GeneralaStage = "seats" <=> gphase = "deciding"
  BY <1>1, <1>3, <1>4 DEF GeneralaStage, SystemRolls, GeneralaOver
<1>6. GeneralaActors # {} => gphase = "deciding"
  BY DEF GeneralaActors, OfferedBoxes, OfferedKeeps, OnTurn
<1>7. ASSUME gphase = "deciding" PROVE GeneralaActors # {}
  <2>1. PICK b \in Boxes : MayWrite(b, gcards[gseat], dice, rolls)
    BY <1>2, <1>7, SomeBoxWritable DEF CardFull
  <2>2. b \in OfferedBoxes(gseat)
    BY <1>7, <2>1 DEF OfferedBoxes, OnTurn
  <2>3. QED
    BY <1>1, <2>2 DEF GeneralaActors
<1>8. GeneralaActors \subseteq 0 .. 3
  BY DEF GeneralaActors, GSeats
<1>9. GeneralaNext => ~GeneralaOver
  BY DEF GeneralaNext, RollDice, SystemRolls, Hold, Score
<1>10. GeneralaStage \in {"system", "seats", "over"} /\ (~GeneralaOver => GeneralaStage # "over")
  BY DEF GeneralaStage
<1>11. QED
  BY <1>5, <1>6, <1>7, <1>8, <1>9, <1>10

\* Before the board is laid there is nothing to take from it.
MahjongInv ==
  /\ laid \in BOOLEAN /\ abandoned \in BOOLEAN
  /\ ~laid => Occupied = {}

LEMMA MahjongInitInv == MahjongInit => MahjongInv
  BY DEF MahjongInit, MahjongInv, Occupied

LEMMA NoPairs == Occupied = {} => Pairs = {}
<1> SUFFICES ASSUME Occupied = {}, NEW P \in Pairs PROVE FALSE
  OBVIOUS
<1>1. FreeIn(Occupied) = {}
  BY DEF FreeIn
<1>2. PICK p \in P : P \subseteq FreeIn(Occupied)
  BY DEF Pairs
<1>3. QED
  BY <1>1, <1>2

LEMMA MahjongStepInv == MahjongInv /\ [MahjongNext]_mahjongVars => MahjongInv'
<1> SUFFICES ASSUME MahjongInv, [MahjongNext]_mahjongVars PROVE MahjongInv'
  OBVIOUS
<1>1. ASSUME NEW d, LayBoard(d) PROVE MahjongInv'
  BY <1>1 DEF LayBoard, MahjongInv
<1>2. ASSUME NEW P \in Pairs, RemovePair(P) PROVE MahjongInv'
  BY <1>2, NoPairs DEF RemovePair, MahjongInv
<1>3. CASE Abandon
  BY <1>3 DEF Abandon, MahjongInv, Occupied
<1>4. CASE UNCHANGED mahjongVars
  BY <1>4 DEF mahjongVars, MahjongInv, Occupied
<1>5. QED
  BY <1>1, <1>2, <1>3, <1>4 DEF MahjongNext

LEMMA MahjongKeepsPort ==
  ASSUME MahjongInv
  PROVE  /\ MahjongStage \in {"system", "seats", "over"} /\ MahjongActors \subseteq 0 .. 3
         /\ MahjongStage = "seats" <=> MahjongActors # {}
         /\ MahjongNext => MahjongStage # "over"
<1>1. ~laid => Pairs = {}
  BY NoPairs DEF MahjongInv
<1>2. MahjongStage = "seats" <=> laid /\ ~abandoned /\ Pairs # {}
  BY DEF MahjongStage, SystemLays, MahjongOver, MahjongInv
<1>3. MahjongStage = "seats" <=> MahjongActors # {}
  BY <1>1, <1>2 DEF MahjongActors
<1>4. MahjongActors \subseteq 0 .. 3
  BY DEF MahjongActors
<1>5. MahjongNext => ~MahjongOver
  BY DEF MahjongNext, LayBoard, SystemLays, RemovePair, Abandon
<1>6. MahjongStage \in {"system", "seats", "over"} /\ (~MahjongOver => MahjongStage # "over")
  BY DEF MahjongStage
<1>7. QED
  BY <1>3, <1>4, <1>5, <1>6

-----------------------------------------------------------------------------
(* Sums.  A sum over a set takes its members in an order the fold picks; what *)
(* is said of it here says that the order is no matter.                       *)

\* What goes from the smaller parts of a set to the set goes to every finite set: the
\* sets outside G, were there any, would have a least.
LEMMA FiniteDescent ==
  ASSUME NEW S, IsFiniteSet(S), NEW G,
         \A T \in SUBSET S : (\A U \in SUBSET T : U # T => U \in G) => T \in G
  PROVE  \A T \in SUBSET S : T \in G
<1> DEFINE bad == { T \in SUBSET S : T \notin G }
<1>1. SUFFICES ASSUME bad # {} PROVE FALSE
  OBVIOUS
<1>2. IsWellFoundedOn(StrictSubsetOrdering(S), SUBSET S)
  BY FS_StrictSubsetOrderingWellFounded, FS_FiniteSubsetsOfFinite
<1>3. bad \subseteq SUBSET S
  OBVIOUS
<1> HIDE DEF bad
<1>4. PICK T \in bad : \A U \in bad : <<U, T>> \notin StrictSubsetOrdering(S)
  BY <1>1, <1>2, <1>3, WFMin
<1>5. ASSUME NEW U \in SUBSET T, U # T PROVE U \in G
  <2>1. <<U, T>> \in StrictSubsetOrdering(S)
    BY <1>3, <1>4, <1>5 DEF StrictSubsetOrdering
  <2>2. U \notin bad
    BY <1>4, <2>1
  <2>3. QED
    BY <1>3, <2>2 DEF bad
<1>6. QED
  BY <1>4, <1>5 DEF bad

LEMMA FiniteSteps ==
  ASSUME NEW S, IsFiniteSet(S), NEW G,
         \A T \in SUBSET S : (\A x \in T : T \ {x} \in G) => T \in G
  PROVE  \A T \in SUBSET S : T \in G
<1>1. \A T \in SUBSET S : (\A U \in SUBSET T : U # T => U \in G) => T \in G
  <2> SUFFICES ASSUME NEW T \in SUBSET S, \A U \in SUBSET T : U # T => U \in G
               PROVE  \A x \in T : T \ {x} \in G
    OBVIOUS
  <2>1. \A x \in T : T \ {x} \in SUBSET T /\ T \ {x} # T
    OBVIOUS
  <2>2. QED
    BY <2>1
<1>2. QED
  BY <1>1, FiniteDescent

LEMMA NaturalSteps ==
  ASSUME NEW G, 0 \in G, \A n \in Nat : n \in G => n + 1 \in G
  PROVE  \A n \in Nat : n \in G
<1>1. TAKE n \in Nat
<1> DEFINE H == { T \in SUBSET (1 .. n) : Cardinality(T) \in G }
<1>2. IsFiniteSet(1 .. n) /\ Cardinality(1 .. n) = n
  BY FS_Interval
<1>3. \A T \in SUBSET (1 .. n) : (\A x \in T : T \ {x} \in H) => T \in H
  <2> SUFFICES ASSUME NEW T \in SUBSET (1 .. n), \A x \in T : T \ {x} \in H PROVE T \in H
    OBVIOUS
  <2>1. IsFiniteSet(T)
    BY <1>2, FS_Subset
  <2>2. CASE T = {}
    BY <2>2, FS_EmptySet
  <2>3. CASE T # {}
    <3>1. PICK x \in T : TRUE
      BY <2>3
    <3>2. IsFiniteSet(T \ {x}) /\ Cardinality(T \ {x}) = Cardinality(T) - 1
      BY <2>1, FS_RemoveElement
    <3>3. Cardinality(T) \in Nat /\ Cardinality(T \ {x}) \in Nat
      BY <2>1, <3>2, FS_CardinalityType
    <3>4. Cardinality(T \ {x}) \in G
      BY <1>3
    <3>5. QED
      BY <3>2, <3>3, <3>4
  <2>4. QED
    BY <2>2, <2>3
<1> HIDE DEF H
<1>4. 1 .. n \in H
  <2>1. \A T \in SUBSET (1 .. n) : T \in H
    BY <1>2, <1>3, FiniteSteps
  <2>2. QED
    BY <2>1
<1>5. QED
  BY <1>2, <1>4 DEF H

\* The member a fold takes first.
Pick(T) == CHOOSE x \in T : TRUE

LEMMA PickIn == ASSUME NEW T, T # {} PROVE Pick(T) \in T
  BY DEF Pick

\* What a fold of op over the subsets of S works out.
Folds(it, op, base, S) ==
  \A T \in SUBSET S : it[T] = IF T = {} THEN base ELSE op[<<Pick(T), it[T \ {Pick(T)}]>>]

LEMMA FoldExists ==
  ASSUME NEW S, IsFiniteSet(S), NEW V, NEW base \in V, NEW op \in [S \X V -> V]
  PROVE  \E it \in [SUBSET S -> V] : Folds(it, op, base, S)
<1> DEFINE Taken(it, T) == IF T = {} THEN base ELSE op[<<Pick(T), it[T \ {Pick(T)}]>>]
           UpTo(it, n) == \A T \in SUBSET S : Cardinality(T) <= n => it[T] = Taken(it, T)
           G == { n \in Nat : \E it \in [SUBSET S -> V] : UpTo(it, n) }
<1>1. ASSUME NEW T \in SUBSET S
      PROVE  IsFiniteSet(T) /\ Cardinality(T) \in Nat /\ Cardinality(T) <= Cardinality(S)
  BY FS_Subset, FS_CardinalityType
<1>2. ASSUME NEW it \in [SUBSET S -> V], NEW T \in SUBSET S PROVE Taken(it, T) \in V
  <2>1. CASE T = {}
    BY <2>1
  <2>2. CASE T # {}
    <3>1. Pick(T) \in S /\ it[T \ {Pick(T)}] \in V
      BY <2>2, PickIn
    <3>2. QED
      BY <2>2, <3>1
  <2>3. QED
    BY <2>1, <2>2
<1>3. 0 \in G
  <2> DEFINE first == [T \in SUBSET S |-> base]
  <2>1. first \in [SUBSET S -> V]
    OBVIOUS
  <2>2. ASSUME NEW T \in SUBSET S, Cardinality(T) <= 0 PROVE first[T] = Taken(first, T)
    <3>1. T = {}
      BY <1>1, <2>2, FS_EmptySet
    <3>2. QED
      BY <3>1
  <2>3. QED
    BY <2>1, <2>2
<1>4. ASSUME NEW n \in Nat, n \in G PROVE n + 1 \in G
  <2>1. PICK it \in [SUBSET S -> V] : UpTo(it, n)
    BY <1>4
  <2> DEFINE jt == [T \in SUBSET S |-> IF Cardinality(T) <= n THEN it[T] ELSE Taken(it, T)]
  <2>2. jt \in [SUBSET S -> V]
    <3> HIDE DEF Taken
    <3>1. QED
      BY <1>2
  <2>3. ASSUME NEW T \in SUBSET S, Cardinality(T) <= n + 1 PROVE jt[T] = Taken(jt, T)
    <3>1. jt[T] = Taken(it, T)
      BY <2>1
    <3>2. CASE T = {}
      BY <3>1, <3>2
    <3>3. CASE T # {}
      <4>1. PICK x : x = Pick(T) /\ x \in T
        BY <3>3, PickIn
      <4>2. Cardinality(T \ {x}) = Cardinality(T) - 1
        BY <1>1, <4>1, FS_RemoveElement
      <4>3. Cardinality(T \ {x}) <= n
        BY <1>1, <2>3, <4>2
      <4>4. jt[T \ {x}] = it[T \ {x}]
        BY <4>3
      <4>5. QED
        BY <3>1, <3>3, <4>1, <4>4
    <3>4. QED
      BY <3>2, <3>3
  <2>4. UpTo(jt, n + 1)
    <3> HIDE DEF jt
    <3>1. QED
      BY <2>3
  <2> HIDE DEF jt, UpTo
  <2>5. QED
    BY <2>2, <2>4
<1> HIDE DEF G
<1>5. Cardinality(S) \in G
  BY <1>3, <1>4, FS_CardinalityType, NaturalSteps
<1>6. PICK it \in [SUBSET S -> V] : UpTo(it, Cardinality(S))
  BY <1>5 DEF G
<1>7. Folds(it, op, base, S)
  BY <1>1, <1>6 DEF Folds
<1>8. QED
  BY <1>7

\* The sum of g over S, and what its fold works out on the way.
Total(g, S) == MapThenSumSet(LAMBDA x : g[x], S)

Sums(it, g, S) ==
  /\ it \in [SUBSET S -> Int]
  /\ \A T \in SUBSET S : it[T] = IF T = {} THEN 0 ELSE g[Pick(T)] + it[T \ {Pick(T)}]

LEMMA SumsExist ==
  ASSUME NEW S, IsFiniteSet(S), NEW g, \A x \in S : g[x] \in Int
  PROVE  \E it : Sums(it, g, S)
<1> DEFINE op == [p \in S \X Int |-> g[p[1]] + p[2]]
<1>1. op \in [S \X Int -> Int]
  OBVIOUS
<1>2. 0 \in Int
  OBVIOUS
<1> HIDE DEF op
<1>3. PICK it \in [SUBSET S -> Int] : Folds(it, op, 0, S)
  BY <1>1, <1>2, FoldExists
<1>4. ASSUME NEW T \in SUBSET S
      PROVE  it[T] = IF T = {} THEN 0 ELSE g[Pick(T)] + it[T \ {Pick(T)}]
  <2>1. CASE T = {}
    BY <1>3, <2>1 DEF Folds
  <2>2. CASE T # {}
    <3>1. <<Pick(T), it[T \ {Pick(T)}]>> \in S \X Int
      BY <2>2, PickIn
    <3>2. it[T] = op[<<Pick(T), it[T \ {Pick(T)}]>>]
      BY <1>3, <2>2 DEF Folds
    <3>3. QED
      BY <2>2, <3>1, <3>2 DEF op
  <2>3. QED
    BY <2>1, <2>2
<1>5. QED
  BY <1>4 DEF Sums

SumSteps(it, g, S) ==
  /\ it = [T \in SUBSET S |-> it[T]]
  /\ \A T \in SUBSET S : it[T] = IF T = {} THEN 0 ELSE g[Pick(T)] + it[T \ {Pick(T)}]

LEMMA SumsTyped ==
  ASSUME NEW S, IsFiniteSet(S), NEW g, \A x \in S : g[x] \in Int,
         NEW it, SumSteps(it, g, S)
  PROVE  Sums(it, g, S)
<1> DEFINE G == { T \in SUBSET S : it[T] \in Int }
<1>1. \A T \in SUBSET S : (\A x \in T : T \ {x} \in G) => T \in G
  <2> SUFFICES ASSUME NEW T \in SUBSET S, \A x \in T : T \ {x} \in G PROVE it[T] \in Int
    OBVIOUS
  <2>1. CASE T = {}
    <3>1. it[T] = 0
      BY <2>1 DEF SumSteps
    <3>2. QED
      BY <3>1
  <2>2. CASE T # {}
    <3>1. PICK p : p = Pick(T) /\ p \in T
      BY <2>2, PickIn
    <3>2. it[T \ {p}] \in Int /\ g[p] \in Int
      BY <3>1
    <3>3. it[T] = g[p] + it[T \ {p}]
      BY <2>2, <3>1 DEF SumSteps
    <3>4. QED
      BY <3>2, <3>3
  <2>3. QED
    BY <2>1, <2>2
<1> HIDE DEF G
<1>2. \A T \in SUBSET S : T \in G
  BY <1>1, FiniteSteps
<1>3. \A T \in SUBSET S : it[T] \in Int
  BY <1>2 DEF G
<1>4. it \in [SUBSET S -> Int]
  BY <1>3 DEF SumSteps
<1>5. QED
  BY <1>4 DEF Sums, SumSteps

LEMMA TotalChosen ==
  ASSUME NEW S, IsFiniteSet(S), NEW g, \A x \in S : g[x] \in Int
  PROVE  \E it : Sums(it, g, S) /\ Total(g, S) = it[S]
<1> DEFINE Is(it) == it = [T \in SUBSET S |->
                             IF T = {} THEN 0 ELSE g[CHOOSE x \in T : TRUE] + it[T \ {CHOOSE x \in T : TRUE}]]
<1>1. Total(g, S) = (CHOOSE it : Is(it))[S]
  BY DEF Total, MapThenSumSet, MapThenFoldSet
<1>2. PICK it : Sums(it, g, S)
  BY SumsExist
<1>3. Is(it)
  BY <1>2 DEF Sums, Pick
<1>4. PICK jt : jt = (CHOOSE kt : Is(kt)) /\ Is(jt)
  <2> HIDE DEF Is
  <2>1. QED
    BY <1>3
<1>5. \A T \in SUBSET S : jt[T] = IF T = {} THEN 0 ELSE g[Pick(T)] + jt[T \ {Pick(T)}]
  BY <1>4 DEF Pick
<1>6. jt = [T \in SUBSET S |-> jt[T]]
  BY <1>4
<1>7. Sums(jt, g, S)
  <2>1. SumSteps(jt, g, S)
    BY <1>5, <1>6 DEF SumSteps
  <2> HIDE DEF Is
  <2>2. QED
    BY <2>1, SumsTyped
<1>8. QED
  BY <1>1, <1>4, <1>7

LEMMA SumsAgree ==
  ASSUME NEW S, NEW R, NEW g, NEW h, NEW it, NEW jt, Sums(it, g, S), Sums(jt, h, R),
         NEW C, IsFiniteSet(C), C \subseteq S, C \subseteq R, \A x \in C : g[x] = h[x]
  PROVE  it[C] = jt[C]
<1> DEFINE G == { T \in SUBSET C : it[T] = jt[T] }
<1>1. \A T \in SUBSET C : (\A x \in T : T \ {x} \in G) => T \in G
  <2> SUFFICES ASSUME NEW T \in SUBSET C, \A x \in T : T \ {x} \in G PROVE it[T] = jt[T]
    OBVIOUS
  <2>1. T \in SUBSET S /\ T \in SUBSET R
    OBVIOUS
  <2>2. CASE T = {}
    BY <2>1, <2>2 DEF Sums
  <2>3. CASE T # {}
    <3>1. PICK x : x = Pick(T) /\ x \in T
      BY <2>3, PickIn
    <3>2. it[T \ {x}] = jt[T \ {x}] /\ g[x] = h[x]
      BY <3>1
    <3>3. it[T] = g[x] + it[T \ {x}] /\ jt[T] = h[x] + jt[T \ {x}]
      BY <2>1, <2>3, <3>1 DEF Sums
    <3>4. QED
      BY <3>2, <3>3
  <2>4. QED
    BY <2>2, <2>3
<1> HIDE DEF G
<1>2. \A T \in SUBSET C : T \in G
  BY <1>1, FiniteSteps
<1>3. QED
  BY <1>2 DEF G

\* Whatever set a fold goes over, it gives each of its subsets its sum.
LEMMA TotalIs ==
  ASSUME NEW R, NEW g, NEW it, Sums(it, g, R), NEW h, NEW C, IsFiniteSet(C), C \subseteq R,
         \A x \in C : h[x] \in Int /\ g[x] = h[x]
  PROVE  Total(h, C) = it[C] /\ Total(h, C) \in Int
<1>1. PICK jt : Sums(jt, h, C) /\ Total(h, C) = jt[C]
  BY TotalChosen
<1>2. it[C] = jt[C]
  BY <1>1, SumsAgree
<1>3. QED
  BY <1>1, <1>2 DEF Sums

LEMMA TotalSame ==
  ASSUME NEW S, IsFiniteSet(S), NEW g, NEW h, \A x \in S : g[x] \in Int /\ g[x] = h[x]
  PROVE  Total(g, S) = Total(h, S) /\ Total(g, S) \in Int
<1>1. PICK it : Sums(it, g, S)
  BY SumsExist
<1>2. Total(g, S) = it[S] /\ Total(g, S) \in Int
  BY <1>1, TotalIs
<1>3. \A x \in S : h[x] \in Int /\ g[x] = h[x]
  OBVIOUS
<1>4. Total(h, S) = it[S]
  BY <1>1, <1>3, TotalIs
<1>5. QED
  BY <1>2, <1>4

\* The first step of the fold, and then any step.
LEMMA TotalPicked ==
  ASSUME NEW S, IsFiniteSet(S), NEW g, \A x \in S : g[x] \in Int
  PROVE  Total(g, S) = IF S = {} THEN 0 ELSE g[Pick(S)] + Total(g, S \ {Pick(S)})
<1>1. PICK it : Sums(it, g, S)
  BY SumsExist
<1>2. \A C \in SUBSET S : Total(g, C) = it[C]
  BY <1>1, FS_Subset, TotalIs
<1>3. it[S] = IF S = {} THEN 0 ELSE g[Pick(S)] + it[S \ {Pick(S)}]
  BY <1>1 DEF Sums
<1>4. Total(g, S) = it[S] /\ Total(g, S \ {Pick(S)}) = it[S \ {Pick(S)}]
  BY <1>2
<1>5. QED
  BY <1>3, <1>4

LEMMA TotalLess ==
  ASSUME NEW S, IsFiniteSet(S), NEW g, \A x \in S : g[x] \in Int
  PROVE  \A y \in S : Total(g, S) = g[y] + Total(g, S \ {y})
<1> DEFINE G == { T \in SUBSET S : \A y \in T : Total(g, T) = g[y] + Total(g, T \ {y}) }
<1>1. \A T \in SUBSET S : (\A x \in T : T \ {x} \in G) => T \in G
  <2> SUFFICES ASSUME NEW T \in SUBSET S, \A x \in T : T \ {x} \in G, NEW y \in T
               PROVE  Total(g, T) = g[y] + Total(g, T \ {y})
    OBVIOUS
  <2>1. IsFiniteSet(T)
    BY FS_Subset
  <2>2. PICK p : p = Pick(T) /\ p \in T
    BY PickIn
  <2>3. Total(g, T) = g[p] + Total(g, T \ {p})
    BY <2>1, <2>2, TotalPicked
  <2>4. CASE y = p
    BY <2>3, <2>4
  <2>5. CASE y # p
    <3>1. Total(g, T \ {p}) = g[y] + Total(g, (T \ {p}) \ {y})
      BY <2>2, <2>5
    <3>2. Total(g, T \ {y}) = g[p] + Total(g, (T \ {y}) \ {p})
      BY <2>2, <2>5
    <3>3. PICK U : U = (T \ {p}) \ {y} /\ U = (T \ {y}) \ {p}
      OBVIOUS
    <3>4. IsFiniteSet(U) /\ U \subseteq S
      BY <3>3, FS_Subset
    <3>5. Total(g, U) \in Int
      BY <3>4, TotalSame
    <3>6. g[p] \in Int /\ g[y] \in Int
      BY <2>2
    <3>7. Total(g, T \ {p}) = g[y] + Total(g, U) /\ Total(g, T \ {y}) = g[p] + Total(g, U)
      BY <3>1, <3>2, <3>3
    <3>8. QED
      BY <2>3, <3>5, <3>6, <3>7
  <2>6. QED
    BY <2>4, <2>5
<1> HIDE DEF G
<1>2. \A T \in SUBSET S : T \in G
  BY <1>1, FiniteSteps
<1>3. S \in G
  BY <1>2
<1>4. QED
  BY <1>3 DEF G

LEMMA TotalAdd ==
  ASSUME NEW S, IsFiniteSet(S), NEW g, NEW y, y \notin S, \A x \in S \cup {y} : g[x] \in Int
  PROVE  Total(g, S \cup {y}) = g[y] + Total(g, S)
<1>1. IsFiniteSet(S \cup {y})
  BY FS_AddElement
<1>2. (S \cup {y}) \ {y} = S
  OBVIOUS
<1>3. Total(g, S \cup {y}) = g[y] + Total(g, (S \cup {y}) \ {y})
  BY <1>1, TotalLess
<1>4. QED
  BY <1>2, <1>3

LEMMA TotalNone == ASSUME NEW g PROVE Total(g, {}) = 0
  BY TotalPicked, FS_EmptySet

\* Sums taken apart.
LEMMA TotalJoin ==
  ASSUME NEW A, NEW B, IsFiniteSet(A), IsFiniteSet(B), A \cap B = {},
         NEW g, \A x \in A \cup B : g[x] \in Int
  PROVE  Total(g, A \cup B) = Total(g, A) + Total(g, B) /\ Total(g, A \cup B) \in Int
<1> DEFINE G == { T \in SUBSET B : Total(g, A \cup T) = Total(g, A) + Total(g, T) }
<1>1. Total(g, A) \in Int /\ Total(g, A \cup B) \in Int
  <2>1. IsFiniteSet(A \cup B)
    BY FS_Union
  <2>2. \A x \in A : g[x] \in Int
    OBVIOUS
  <2>3. QED
    BY <2>1, <2>2, TotalSame
<1>2. \A T \in SUBSET B : (\A x \in T : T \ {x} \in G) => T \in G
  <2> SUFFICES ASSUME NEW T \in SUBSET B, \A x \in T : T \ {x} \in G
               PROVE  Total(g, A \cup T) = Total(g, A) + Total(g, T)
    OBVIOUS
  <2>1. CASE T = {}
    <3>1. A \cup T = A /\ Total(g, T) = 0
      BY <2>1, TotalNone
    <3>2. PICK a \in Int : a = Total(g, A)
      BY <1>1
    <3>3. Total(g, A \cup T) = a
      BY <3>1, <3>2
    <3>4. QED
      BY <3>1, <3>2, <3>3
  <2>2. CASE T # {}
    <3>1. PICK x \in T : TRUE
      BY <2>2
    <3>2. PICK U : U = T \ {x}
      OBVIOUS
    <3>3. /\ A \cup T = (A \cup U) \cup {x} /\ x \notin A \cup U /\ T = U \cup {x}
          /\ U \subseteq B
      BY <3>1, <3>2
    <3>4. IsFiniteSet(U) /\ IsFiniteSet(A \cup U)
      BY <3>3, FS_Subset, FS_Union
    <3>5. PICK C : C = A \cup U
      OBVIOUS
    <3>6. /\ x \notin C /\ IsFiniteSet(C) /\ (\A y \in C \cup {x} : g[y] \in Int)
          /\ x \notin U /\ (\A y \in U \cup {x} : g[y] \in Int)
      BY <3>1, <3>2, <3>3, <3>4, <3>5
    <3>7. PICK v, u, a \in Int : v = g[x] /\ u = Total(g, U) /\ a = Total(g, A)
      BY <1>1, <3>4, <3>6, TotalSame
    <3>8. Total(g, C \cup {x}) = v + Total(g, C)
      BY <3>6, <3>7, TotalAdd
    <3>9. Total(g, U \cup {x}) = v + u
      BY <3>4, <3>6, <3>7, TotalAdd
    <3>10. Total(g, C) = a + u
      BY <3>1, <3>2, <3>5, <3>7
    <3>11. A \cup T = C \cup {x} /\ T = U \cup {x}
      BY <3>3, <3>5
    <3>12. Total(g, A \cup T) = v + (a + u) /\ Total(g, T) = v + u
      BY <3>8, <3>9, <3>10, <3>11
    <3>13. QED
      BY <3>7, <3>12
  <2>3. QED
    BY <2>1, <2>2
<1> HIDE DEF G
<1>3. \A T \in SUBSET B : T \in G
  BY <1>2, FiniteSteps
<1>4. Total(g, A \cup B) = Total(g, A) + Total(g, B)
  BY <1>3 DEF G
<1>5. QED
  BY <1>1, <1>4

\* A sum may be taken class by class.
LEMMA TotalByClass ==
  ASSUME NEW S, IsFiniteSet(S), NEW R, IsFiniteSet(R), NEW f \in [S -> R],
         NEW g, \A x \in S : g[x] \in Int
  PROVE  Total(g, S) = Total([r \in R |-> Total(g, { x \in S : f[x] = r })], R)
<1> DEFINE Class(r) == { x \in S : f[x] = r }
           OfClasses(Q) == { x \in S : f[x] \in Q }
           h == [r \in R |-> Total(g, Class(r))]
           G == { Q \in SUBSET R : Total(g, OfClasses(Q)) = Total(h, Q) }
<1>1. ASSUME NEW Q
      PROVE  /\ OfClasses(Q) \subseteq S /\ IsFiniteSet(OfClasses(Q))
             /\ Total(g, OfClasses(Q)) \in Int
  <2>1. OfClasses(Q) \subseteq S
    OBVIOUS
  <2> HIDE DEF OfClasses
  <2>2. IsFiniteSet(OfClasses(Q))
    BY <2>1, FS_Subset
  <2>3. QED
    BY <2>1, <2>2, TotalSame
<1>2. ASSUME NEW r \in R
      PROVE  /\ Class(r) \subseteq S /\ IsFiniteSet(Class(r))
             /\ h[r] = Total(g, Class(r)) /\ h[r] \in Int
  <2>1. Class(r) \subseteq S /\ h[r] = Total(g, Class(r))
    OBVIOUS
  <2> HIDE DEF Class, h
  <2>2. IsFiniteSet(Class(r))
    BY <2>1, FS_Subset
  <2>3. QED
    BY <2>1, <2>2, TotalSame
<1> HIDE DEF h
<1>3. \A Q \in SUBSET R : (\A r \in Q : Q \ {r} \in G) => Q \in G
  <2> SUFFICES ASSUME NEW Q \in SUBSET R, \A r \in Q : Q \ {r} \in G
               PROVE  Total(g, OfClasses(Q)) = Total(h, Q)
    OBVIOUS
  <2>1. CASE Q = {}
    <3>1. OfClasses(Q) = {}
      BY <2>1
    <3>2. QED
      BY <2>1, <3>1, TotalNone
  <2>2. CASE Q # {}
    <3>1. PICK r \in Q : TRUE
      BY <2>2
    <3>2. PICK A, B : A = OfClasses(Q \ {r}) /\ B = Class(r)
      OBVIOUS
    <3>3. OfClasses(Q) = A \cup B /\ A \cap B = {}
      BY <3>1, <3>2
    <3>4. /\ A \subseteq S /\ IsFiniteSet(A)
          /\ B \subseteq S /\ IsFiniteSet(B) /\ h[r] = Total(g, B) /\ h[r] \in Int
      BY <1>1, <1>2, <3>2
    <3>5. Total(g, A \cup B) = Total(g, A) + Total(g, B)
      BY <3>3, <3>4, TotalJoin
    <3>6. Total(g, A) = Total(h, Q \ {r})
      BY <3>1, <3>2
    <3>7. IsFiniteSet(Q) /\ \A q \in Q : h[q] \in Int
      BY <1>2, FS_Subset
    <3>8. Total(h, Q) = h[r] + Total(h, Q \ {r})
      BY <3>1, <3>7, TotalLess
    <3>9. PICK a, b \in Int : a = Total(g, A) /\ b = h[r]
      BY <1>1, <3>2, <3>4
    <3>10. Total(g, OfClasses(Q)) = a + b /\ Total(h, Q) = b + a
      BY <3>3, <3>4, <3>5, <3>6, <3>8, <3>9
    <3>11. QED
      BY <3>9, <3>10
  <2>3. QED
    BY <2>1, <2>2
<1>4. OfClasses(R) = S
  OBVIOUS
<1> HIDE DEF G, OfClasses, Class
<1>5. \A Q \in SUBSET R : Q \in G
  BY <1>3, FiniteSteps
<1>6. Total(g, OfClasses(R)) = Total(h, R)
  BY <1>5 DEF G
<1>7. QED
  BY <1>4, <1>6 DEF h, Class

LEMMA TotalOfOne ==
  ASSUME NEW x, NEW g, g[x] \in Int PROVE Total(g, {x}) = g[x]
<1>1. Total(g, {} \cup {x}) = g[x] + Total(g, {})
  BY FS_EmptySet, TotalAdd
<1>2. {} \cup {x} = {x}
  OBVIOUS
<1>3. QED
  BY <1>1, <1>2, TotalNone

LEMMA TotalOfTwo ==
  ASSUME NEW x, NEW y, x # y, NEW g, g[x] \in Int, g[y] \in Int
  PROVE  Total(g, {x, y}) = g[x] + g[y]
<1>1. IsFiniteSet({x}) /\ y \notin {x} /\ \A z \in {x} \cup {y} : g[z] \in Int
  BY FS_Singleton
<1>2. Total(g, {x} \cup {y}) = g[y] + Total(g, {x})
  BY <1>1, TotalAdd
<1>3. {x} \cup {y} = {x, y}
  OBVIOUS
<1>4. Total(g, {x, y}) = g[y] + g[x]
  BY <1>2, <1>3, TotalOfOne
<1>5. QED
  BY <1>4

-----------------------------------------------------------------------------
(* Escoba: the two ways of finding what a card takes.                          *)

LEMMA ECardsFinite == IsFiniteSet(ECards)
<1>1. IsFiniteSet(1 .. 7) /\ IsFiniteSet(10 .. 12)
  <2>1. \A m, n \in Int : IsFiniteSet(m .. n)
    BY FS_Interval
  <2>2. 1 \in Int /\ 7 \in Int /\ 10 \in Int /\ 12 \in Int
    OBVIOUS
  <2>3. QED
    BY <2>1, <2>2, Zenon
<1>2. IsFiniteSet((1 .. 7) \cup (10 .. 12))
  BY <1>1, FS_Union
<1>3. IsFiniteSet({"espada"} \cup {"basto"}) /\ IsFiniteSet({"oro"} \cup {"copa"})
  BY FS_Singleton, FS_Union
<1>4. ESuits = ({"espada"} \cup {"basto"}) \cup ({"oro"} \cup {"copa"})
  BY DEF ESuits
<1>5. IsFiniteSet(ESuits)
  BY <1>3, <1>4, FS_Union
<1>6. QED
  BY <1>2, <1>5, FS_Product DEF ECards

LEMMA ValuesToTen == \A c \in ECards : Value(c) \in 1 .. 10
  BY DEF ECards, Value

ValueOf == [c \in ECards |-> Value(c)]

LEMMA SumOfIsTotal ==
  ASSUME NEW C \in SUBSET ECards
  PROVE  SumOf(C) = Total(ValueOf, C) /\ SumOf(C) \in Int
<1> DEFINE Is(it) == it = [T \in SUBSET C |->
                             IF T = {} THEN 0
                             ELSE Value(CHOOSE x \in T : TRUE) + it[T \ {CHOOSE x \in T : TRUE}]]
<1>1. SumOf(C) = (CHOOSE it : Is(it))[C]
  BY DEF SumOf, MapThenSumSet, MapThenFoldSet
<1>2. IsFiniteSet(C) /\ \A x \in C : ValueOf[x] = Value(x) /\ ValueOf[x] \in Int
  BY ECardsFinite, FS_Subset, ValuesToTen DEF ValueOf
<1>3. ASSUME NEW T \in SUBSET C, T # {}
      PROVE  Value(CHOOSE x \in T : TRUE) = ValueOf[Pick(T)]
  BY <1>2, <1>3, PickIn DEF Pick
<1>4. PICK it : Sums(it, ValueOf, C)
  BY <1>2, SumsExist
<1>5. Is(it)
  BY <1>3, <1>4 DEF Sums, Pick
<1>6. PICK jt : jt = (CHOOSE kt : Is(kt)) /\ Is(jt)
  <2> HIDE DEF Is
  <2>1. QED
    BY <1>5
<1>7. SumSteps(jt, ValueOf, C)
  <2>1. jt = [T \in SUBSET C |-> jt[T]]
    BY <1>6
  <2>2. ASSUME NEW T \in SUBSET C
        PROVE  jt[T] = IF T = {} THEN 0 ELSE ValueOf[Pick(T)] + jt[T \ {Pick(T)}]
    <3>1. jt[T] = IF T = {} THEN 0 ELSE Value(Pick(T)) + jt[T \ {Pick(T)}]
      BY <1>6 DEF Pick
    <3>2. CASE T = {}
      BY <3>1, <3>2
    <3>3. CASE T # {}
      <4>1. Value(Pick(T)) = ValueOf[Pick(T)]
        BY <1>3, <3>3 DEF Pick
      <4>2. QED
        BY <3>1, <3>3, <4>1
    <3>4. QED
      BY <3>2, <3>3
  <2>3. QED
    BY <2>1, <2>2 DEF SumSteps
<1> HIDE DEF Is
<1>8. Sums(jt, ValueOf, C)
  BY <1>2, <1>7, SumsTyped
<1>9. QED
  BY <1>1, <1>2, <1>6, <1>8, TotalIs

\* Fifteen with a card is some sum of the table, or it is not: the sums worked out card
\* by card (capture.ts) are those of its parts (legal-actions.ts).
LEMMA ReachableSums ==
  ASSUME NEW C \in SUBSET ECards
  PROVE  Reachable(C) = { SumOf(D) : D \in SUBSET C }
<1> DEFINE With(c, sums) == sums \cup { n + Value(c) : n \in sums }
           Is(it) == it = [T \in SUBSET C |->
                             IF T = {} THEN {0}
                             ELSE With(CHOOSE x \in T : TRUE, it[T \ {CHOOSE x \in T : TRUE}])]
           op == [p \in C \X SUBSET Int |-> With(p[1], p[2])]
<1>1. Reachable(C) = (CHOOSE it : Is(it))[C]
  BY DEF Reachable, FoldSet, MapThenFoldSet
<1>2. IsFiniteSet(C) /\ \A x \in C : Value(x) \in Int
  BY ECardsFinite, FS_Subset, ValuesToTen
<1>3. op \in [C \X SUBSET Int -> SUBSET Int]
  BY <1>2
<1>4. {0} \in SUBSET Int
  OBVIOUS
<1> HIDE DEF op
<1>5. PICK it \in [SUBSET C -> SUBSET Int] : Folds(it, op, {0}, C)
  BY <1>2, <1>3, <1>4, FoldExists
<1>6. ASSUME NEW T \in SUBSET C
      PROVE  it[T] = IF T = {} THEN {0} ELSE With(Pick(T), it[T \ {Pick(T)}])
  <2>1. CASE T = {}
    BY <1>5, <2>1 DEF Folds
  <2>2. CASE T # {}
    <3>1. PICK p : p = Pick(T) /\ p \in T
      BY <2>2, PickIn
    <3>2. it[T] = op[<<p, it[T \ {p}]>>]
      BY <1>5, <2>2, <3>1 DEF Folds
    <3>3. <<p, it[T \ {p}]>> \in C \X SUBSET Int
      BY <3>1
    <3>4. QED
      BY <2>2, <3>1, <3>2, <3>3 DEF op
  <2>3. QED
    BY <2>1, <2>2
<1> HIDE DEF With
<1>7. Is(it)
  BY <1>6 DEF Pick
<1>8. PICK jt : jt = (CHOOSE kt : Is(kt)) /\ Is(jt)
  <2> HIDE DEF Is
  <2>1. QED
    BY <1>7
<1>9. ASSUME NEW T \in SUBSET C
      PROVE  jt[T] = IF T = {} THEN {0} ELSE With(Pick(T), jt[T \ {Pick(T)}])
  BY <1>8 DEF Pick
<1> HIDE DEF Is
<1> DEFINE G == { T \in SUBSET C : jt[T] = { SumOf(D) : D \in SUBSET T } }
<1>10. \A T \in SUBSET C : (\A x \in T : T \ {x} \in G) => T \in G
  <2> SUFFICES ASSUME NEW T \in SUBSET C, \A x \in T : T \ {x} \in G
               PROVE  jt[T] = { SumOf(D) : D \in SUBSET T }
    OBVIOUS
  <2>1. CASE T = {}
    <3>1. jt[T] = {0}
      BY <1>9, <2>1
    <3>2. SumOf({}) = 0
      BY SumOfIsTotal, TotalNone
    <3>3. SUBSET T = {{}}
      BY <2>1
    <3>4. QED
      BY <3>1, <3>2, <3>3
  <2>2. CASE T # {}
    <3>1. PICK p : p = Pick(T) /\ p \in T
      BY <2>2, PickIn
    <3>2. jt[T] = With(p, jt[T \ {p}])
      BY <1>9, <2>2, <3>1
    <3>3. jt[T \ {p}] = { SumOf(D) : D \in SUBSET (T \ {p}) }
      BY <3>1
    <3>4. ASSUME NEW D \in SUBSET (T \ {p})
          PROVE  SumOf(D \cup {p}) = SumOf(D) + Value(p) /\ SumOf(D) \in Int
      <4>1. D \in SUBSET ECards /\ D \cup {p} \in SUBSET ECards /\ p \notin D /\ p \in ECards
        BY <3>1
      <4>2. IsFiniteSet(D) /\ \A x \in D \cup {p} : ValueOf[x] \in Int
        BY <4>1, ECardsFinite, FS_Subset, ValuesToTen DEF ValueOf
      <4>3. Total(ValueOf, D \cup {p}) = ValueOf[p] + Total(ValueOf, D)
        BY <4>1, <4>2, TotalAdd
      <4>4. SumOf(D) = Total(ValueOf, D) /\ SumOf(D \cup {p}) = Total(ValueOf, D \cup {p})
        BY <4>1, SumOfIsTotal
      <4>5. SumOf(D) \in Int
        BY <4>1, SumOfIsTotal
      <4>6. Value(p) \in Int
        BY <4>1, ValuesToTen
      <4>7. ValueOf[p] = Value(p)
        BY <4>1 DEF ValueOf
      <4>8. QED
        BY <4>3, <4>4, <4>5, <4>6, <4>7
    <3>5. ASSUME NEW n \in jt[T] PROVE n \in { SumOf(D) : D \in SUBSET T }
      <4>1. n \in jt[T \ {p}] \/ \E k \in jt[T \ {p}] : n = k + Value(p)
        BY <3>2, <3>5 DEF With
      <4>2. CASE n \in jt[T \ {p}]
        BY <3>3, <4>2
      <4>3. ASSUME NEW k \in jt[T \ {p}], n = k + Value(p)
            PROVE  n \in { SumOf(D) : D \in SUBSET T }
        <5>1. PICK D \in SUBSET (T \ {p}) : k = SumOf(D)
          BY <3>3, <4>3
        <5>2. n = SumOf(D \cup {p}) /\ D \cup {p} \in SUBSET T
          BY <3>1, <3>4, <4>3, <5>1
        <5>3. QED
          BY <5>2
      <4>4. QED
        BY <4>1, <4>2, <4>3
    <3>6. ASSUME NEW D \in SUBSET T PROVE SumOf(D) \in jt[T]
      <4>1. CASE p \notin D
        BY <3>2, <3>3, <4>1 DEF With
      <4>2. CASE p \in D
        <5>1. D \ {p} \in SUBSET (T \ {p}) /\ (D \ {p}) \cup {p} = D
          BY <4>2
        <5>2. SumOf(D \ {p}) \in jt[T \ {p}]
          BY <3>3, <5>1
        <5>3. SumOf(D) = SumOf(D \ {p}) + Value(p)
          BY <3>4, <5>1
        <5>4. QED
          BY <3>2, <5>2, <5>3 DEF With
      <4>3. QED
        BY <4>1, <4>2
    <3>7. QED
      BY <3>5, <3>6
  <2>3. QED
    BY <2>1, <2>2
<1> HIDE DEF G
<1>11. \A T \in SUBSET C : T \in G
  BY <1>2, <1>10, FiniteSteps
<1>12. jt[C] = { SumOf(D) : D \in SUBSET C }
  BY <1>11 DEF G
<1>13. QED
  BY <1>1, <1>8, <1>12
LEMMA OffersFollowRules == EscobaInv => OffersAreTheRules
<1> SUFFICES ASSUME EscobaInv, NEW s \in ESeats
             PROVE  Offered(s) = { m \in ehands[s] \X SUBSET table : Accepts(s, m[1], m[2]) }
  BY DEF OffersAreTheRules
<1>1. ehands[s] \subseteq ECards /\ table \in SUBSET ECards
  BY DEF EscobaInv, EscobaShape
<1>2. \A C \in SUBSET table : SumOf(C) \in Int
  BY <1>1, SumOfIsTotal
<1>3. \A c \in ehands[s] : Value(c) \in 1 .. 10
  BY <1>1, ValuesToTen
<1>4. SumOf({}) = 0
  BY SumOfIsTotal, TotalNone
<1>5. Reachable(table) = { SumOf(C) : C \in SUBSET table }
  BY <1>1, ReachableSums
<1>6. CASE ephase = "none" \/ eturn # s
  BY <1>6 DEF Offered, Accepts
<1>7. CASE ephase # "none" /\ eturn = s
  <2>1. ASSUME NEW c \in ehands[s], NEW C \in SUBSET table
        PROVE  Accepts(s, c, C) <=> C \in Captures(c) \/ (C = {} /\ Captures(c) = {})
    <3>1. CASE C = {}
      <4>1. Accepts(s, c, C) <=> 15 - Value(c) \notin { SumOf(D) : D \in SUBSET table }
        BY <1>5, <1>7, <3>1 DEF Accepts
      <4>2. C \notin Captures(c)
        BY <1>3, <1>4, <3>1 DEF Captures
      <4>3. Captures(c) = {} <=> 15 - Value(c) \notin { SumOf(D) : D \in SUBSET table }
        BY DEF Captures
      <4>4. QED
        BY <3>1, <4>1, <4>2, <4>3
    <3>2. CASE C # {}
      <4>1. Accepts(s, c, C) <=> SumOf(C) + Value(c) = 15
        BY <1>7, <3>2 DEF Accepts
      <4>2. C \in Captures(c) <=> SumOf(C) = 15 - Value(c)
        BY DEF Captures
      <4>3. SumOf(C) \in Int /\ Value(c) \in Int
        BY <1>2, <1>3
      <4>4. QED
        BY <3>2, <4>1, <4>2, <4>3
    <3>3. QED
      BY <3>1, <3>2
  <2>2. \A c \in ehands[s] : Captures(c) \subseteq SUBSET table
    BY DEF Captures
  <2>3. Offered(s) = UNION { IF Captures(c) = {} THEN {<<c, {}>>} ELSE {c} \X Captures(c) :
                               c \in ehands[s] }
    BY <1>7 DEF Offered
  <2>4. ASSUME NEW m \in Offered(s)
        PROVE  m \in { p \in ehands[s] \X SUBSET table : Accepts(s, p[1], p[2]) }
    <3>1. PICK c \in ehands[s] : m \in IF Captures(c) = {} THEN {<<c, {}>>} ELSE {c} \X Captures(c)
      BY <2>3
    <3>2. PICK C \in SUBSET table :
            m = <<c, C>> /\ (C \in Captures(c) \/ (C = {} /\ Captures(c) = {}))
      BY <2>2, <3>1
    <3>3. Accepts(s, c, C)
      BY <2>1, <3>2
    <3>4. QED
      BY <3>2, <3>3
  <2>5. ASSUME NEW c \in ehands[s], NEW C \in SUBSET table, Accepts(s, c, C)
        PROVE  <<c, C>> \in Offered(s)
    <3>1. C \in Captures(c) \/ (C = {} /\ Captures(c) = {})
      BY <2>1, <2>5
    <3>2. <<c, C>> \in IF Captures(c) = {} THEN {<<c, {}>>} ELSE {c} \X Captures(c)
      BY <3>1
    <3>3. QED
      BY <2>3, <3>2
  <2>6. QED
    BY <2>4, <2>5
<1>8. QED
  BY <1>6, <1>7

-----------------------------------------------------------------------------
(* Escoba: the risk of leaving a sweep.                                        *)

LEMMA FourOfAValue ==
  ASSUME NEW c \in ECards
  PROVE  { d \in ECards : Value(d) = Value(c) } = {c[1]} \X ESuits
  BY DEF ECards, Value

\* Of a value there are four cards; when one of them is elsewhere, three at most are
\* in sight.
LEMMA OneElsewhere ==
  ASSUME NEW C \in SUBSET ECards, NEW c \in ECards, c \notin C
  PROVE  Cardinality({ d \in C : Value(d) = Value(c) }) < 4
<1> DEFINE rest == { x \in ESuits : x # c[2] }
           seen == { d \in C : Value(d) = Value(c) }
<1>1. PICK a, b, e : rest \subseteq {a, b, e}
  <2>1. c[2] \in ESuits
    BY DEF ECards
  <2>2. QED
    BY <2>1 DEF ESuits
<1>2. seen \subseteq {<<c[1], a>>, <<c[1], b>>, <<c[1], e>>}
  <2>1. ASSUME NEW d \in seen PROVE d \in {<<c[1], a>>, <<c[1], b>>, <<c[1], e>>}
    <3>1. d \in {c[1]} \X ESuits
      BY FourOfAValue
    <3>2. d = <<c[1], d[2]>> /\ d[2] \in ESuits
      BY <3>1
    <3>3. c = <<c[1], c[2]>>
      BY DEF ECards
    <3>4. d[2] # c[2]
      BY <3>2, <3>3
    <3>5. d[2] \in {a, b, e}
      BY <1>1, <3>2, <3>4
    <3>6. QED
      BY <3>2, <3>5
  <2>2. QED
    BY <2>1
<1>3. ASSUME NEW x, NEW y, NEW z
      PROVE  IsFiniteSet({x, y, z}) /\ Cardinality({x, y, z}) <= 3
  <2>1. IsFiniteSet({x}) /\ Cardinality({x}) = 1
    BY FS_Singleton
  <2>2. IsFiniteSet({x} \cup {y}) /\ Cardinality({x} \cup {y}) <= 2
    BY <2>1, FS_AddElement
  <2>3. Cardinality({x} \cup {y}) \in Nat
    BY <2>2, FS_CardinalityType
  <2>4. PICK B : B = {x} \cup {y}
    OBVIOUS
  <2>5. IsFiniteSet(B \cup {z}) /\ Cardinality(B \cup {z}) <= 3
    <3>1. IsFiniteSet(B) /\ Cardinality(B) \in Nat /\ Cardinality(B) <= 2
      BY <2>2, <2>3, <2>4
    <3>2. /\ IsFiniteSet(B \cup {z})
          /\ Cardinality(B \cup {z}) = Cardinality(B) \/ Cardinality(B \cup {z}) = Cardinality(B) + 1
      BY <3>1, FS_AddElement
    <3>3. QED
      BY <3>1, <3>2
  <2>6. {x, y, z} = B \cup {z}
    BY <2>4
  <2>7. QED
    BY <2>5, <2>6
<1> HIDE DEF seen
<1>4. IsFiniteSet(seen) /\ Cardinality(seen) <= 3
  <2>1. PICK B : /\ B = {<<c[1], a>>, <<c[1], b>>, <<c[1], e>>}
                 /\ IsFiniteSet(B) /\ Cardinality(B) <= 3
    BY <1>3
  <2>2. Cardinality(B) \in Nat
    BY <2>1, FS_CardinalityType
  <2>3. IsFiniteSet(seen) /\ Cardinality(seen) <= Cardinality(B) /\ Cardinality(seen) \in Nat
    BY <1>2, <2>1, FS_Subset, FS_CardinalityType
  <2>4. QED
    BY <2>1, <2>2, <2>3
<1>5. Cardinality(seen) \in Nat
  BY <1>4, FS_CardinalityType
<1>6. QED
  BY <1>4, <1>5 DEF seen

LEMMA RiskSound == EscobaInv => RiskIsSound
<1> SUFFICES ASSUME EscobaInv, NEW s \in ESeats, NEW m \in Offered(s), ~Risky(s, m),
                    TableAfter(m) # {}, NEW c \in Unseen(s),
                    SumOf(TableAfter(m)) + Value(c) = 15
             PROVE  FALSE
  BY DEF RiskIsSound
<1>1. m \in ehands[s] \X SUBSET table
  BY OffersFollowRules DEF OffersAreTheRules
<1>2. ephase # "none"
  BY DEF Offered
<1>3. /\ ehands \in [ESeats -> SUBSET ECards] /\ piles \in [ETeams -> SUBSET ECards]
      /\ table \subseteq ECards /\ stock \in Seq(ECards)
  BY DEF EscobaInv, EscobaShape, RoundsLeft
<1>4. \A i, j \in Places : i # j => InPlace(i) \cap InPlace(j) = {}
  BY <1>2, EscobaInvKeeps DEF CardsKept
<1>5. ESeats = 0 .. etable.seats - 1 /\ etable.seats \in {2, 4}
  BY EscobaAssumption DEF ESeats, EscobaInv, EscobaShape
<1>6. /\ \A u \in ESeats : u \in Places /\ InPlace(u) = ehands[u]
      /\ {-1, -2, -3, -4} \subseteq Places
      /\ InPlace(-1) = table /\ InPlace(-2) = Range(stock)
      /\ InPlace(-3) = piles[0] /\ InPlace(-4) = piles[1]
  BY <1>5 DEF Places, InPlace
<1>7. c \in Range(stock) \/ \E o \in ESeats \ {s} : c \in ehands[o]
  BY DEF Unseen
<1>8. PICK i \in Places : c \in InPlace(i) /\ i \notin {s, -1, -3, -4}
  <2>1. CASE c \in Range(stock)
    BY <1>5, <1>6, <2>1
  <2>2. CASE \E o \in ESeats \ {s} : c \in ehands[o]
    BY <1>5, <1>6, <2>2
  <2>3. QED
    BY <1>7, <2>1, <2>2
<1>9. c \notin ehands[s] \cup table \cup piles[0] \cup piles[1]
  BY <1>4, <1>6, <1>8
<1>10. InSight(s, m) \subseteq ehands[s] \cup table \cup piles[0] \cup piles[1]
  BY <1>1 DEF InSight, TableAfter, Gained
<1>11. c \in ECards /\ InSight(s, m) \in SUBSET ECards
  <2>1. ehands[s] \cup table \cup piles[0] \cup piles[1] \subseteq ECards
    BY <1>3 DEF ETeams
  <2>2. Range(stock) \subseteq ECards
    BY <1>3 DEF Range
  <2>3. \A o \in ESeats : ehands[o] \subseteq ECards
    BY <1>3
  <2>4. c \in ECards
    BY <1>7, <2>2, <2>3
  <2>5. QED
    BY <1>10, <2>1, <2>4
<1>12. Missing(m) = Value(c) /\ Missing(m) \in 1 .. 10
  <2>1. TableAfter(m) \in SUBSET ECards
    BY <1>1, <1>3 DEF TableAfter
  <2>2. SumOf(TableAfter(m)) \in Int /\ Value(c) \in 1 .. 10
    BY <1>11, <2>1, SumOfIsTotal, ValuesToTen
  <2>3. QED
    BY <2>2 DEF Missing
<1>13. Accounted(s, m, Missing(m)) < 4
  BY <1>9, <1>10, <1>11, <1>12, OneElsewhere DEF Accounted
<1>14. QED
  BY <1>12, <1>13 DEF Risky

\* Nothing offered is refused and nothing legal withheld, at any table and with any deck.
THEOREM EscobaOffersFollowRules == EscobaSpec => []OffersAreTheRules
  BY EscobaInitInv, EscobaStepInv, OffersFollowRules, PTL DEF EscobaSpec

\* When the hard bot says that no card can sweep what it leaves, none can.
THEOREM EscobaRiskIsSound == EscobaSpec => []RiskIsSound
  BY EscobaInitInv, EscobaStepInv, RiskSound, PTL DEF EscobaSpec

-----------------------------------------------------------------------------
(* Generala: what the hard bot reckons of a hold.                              *)

LEMMA FunctionsFinite ==
  ASSUME NEW A, NEW B, IsFiniteSet(A), IsFiniteSet(B) PROVE IsFiniteSet([A -> B])
<1> DEFINE pairs == [h \in [A -> B] |-> { <<x, h[x]>> : x \in A }]
<1>1. IsFiniteSet(SUBSET (A \X B))
  BY FS_Product, FS_SUBSET
<1>2. pairs \in [[A -> B] -> SUBSET (A \X B)]
  OBVIOUS
<1>3. ASSUME NEW h \in [A -> B], NEW j \in [A -> B], pairs[h] = pairs[j] PROVE h = j
  <2>1. ASSUME NEW x \in A PROVE h[x] = j[x]
    <3>1. <<x, h[x]>> \in { <<y, j[y]>> : y \in A }
      BY <1>3
    <3>2. PICK y \in A : <<x, h[x]>> = <<y, j[y]>>
      BY <3>1
    <3>3. QED
      BY <3>2
  <2>2. QED
    BY <2>1
<1> HIDE DEF pairs
<1>4. pairs \in Injection([A -> B], SUBSET (A \X B))
  BY <1>2, <1>3 DEF Injection, IsInjective
<1>5. QED
  BY <1>1, <1>4, FS_Injection

LEMMA ThrowsTyped ==
  ASSUME NEW n \in 1 .. 2
  PROVE  /\ IsFiniteSet(Multisets[n]) /\ IsFiniteSet(Ordered(n))
         /\ \A m \in Multisets[n] : m \in [Faces -> 0 .. n] /\ m \in Tallies /\ Size(m) = n
<1>1. IsFiniteSet(1 .. n) /\ IsFiniteSet(0 .. n) /\ IsFiniteSet(Faces)
  <2>1. \A a, b \in Int : IsFiniteSet(a .. b)
    BY FS_Interval
  <2>2. 0 \in Int /\ 1 \in Int /\ 6 \in Int /\ n \in Int
    OBVIOUS
  <2>3. QED
    BY <2>1, <2>2, Zenon DEF Faces
<1>2. IsFiniteSet([Faces -> 0 .. n]) /\ IsFiniteSet(Ordered(n))
  BY <1>1, FunctionsFinite DEF Ordered
<1>3. Multisets[n] = { m \in [Faces -> 0 .. n] : Size(m) = n }
  BY DEF Multisets
<1>4. IsFiniteSet(Multisets[n])
  BY <1>2, <1>3, FS_Subset
<1>5. \A m \in [Faces -> 0 .. n] : m \in Tallies
  BY DEF Tallies
<1>6. QED
  BY <1>2, <1>3, <1>4, <1>5

LEMMA BestBoxIsNat ==
  ASSUME NEW h \in Tallies, NEW r, NEW card PROVE BestBox(h, r, card) \in Nat
<1> DEFINE T == {0} \cup { ScoreFor(b, h, r, card) : b \in OpenBoxes(card) }
<1>1. ASSUME NEW b \in OpenBoxes(card) PROVE ScoreFor(b, h, r, card) \in 0 .. 105
  <2>1. b \in Boxes
    BY DEF OpenBoxes
  <2>2. CASE b \in Upper
    <3>1. b \in 1 .. 6 /\ h[b] \in 0 .. 5
      BY <2>2 DEF Tallies, Faces, Upper
    <3>2. \A x \in 1 .. 6, y \in 0 .. 5 : x * y \in 0 .. 105
      <4>1. TAKE x \in 1 .. 6, y \in 0 .. 5
      <4>2. \/ y = 0 \/ y = 1 \/ y = 2 \/ y = 3 \/ y = 4 \/ y = 5
        OBVIOUS
      <4>3. QED
        BY <4>2
    <3>3. QED
      BY <2>2, <3>1, <3>2 DEF ScoreFor
  <2>3. CASE b \notin Upper
    <3>1. Armada[b] \in 0 .. 100
      BY <2>1 DEF Armada, Boxes
    <3>2. QED
      BY <2>3, <3>1 DEF ScoreFor
  <2>4. QED
    BY <2>2, <2>3
<1>2. T \in SUBSET (0 .. 105) /\ T # {}
  BY <1>1
<1> HIDE DEF T
<1>3. Max(T) \in T
  BY <1>2, MaxIs
<1>4. QED
  BY <1>2, <1>3 DEF BestBox, T

\* A fold that picks as Total does gives the sum.
LEMMA SumChosen ==
  ASSUME NEW S, IsFiniteSet(S), NEW g, \A x \in S : g[x] \in Int
  PROVE  (CHOOSE it : it = [T \in SUBSET S |->
            IF T = {} THEN 0 ELSE g[Pick(T)] + it[T \ {Pick(T)}]])[S] = Total(g, S)
  BY DEF Total, MapThenSumSet, MapThenFoldSet, Pick

Product(g) == FoldFunction(LAMBDA u, v : u * v, 1, g)

\* A product of ones and, once at most, a c.
LEMMA ProductOfOnes ==
  ASSUME NEW S, IsFiniteSet(S), NEW a, NEW c \in Nat, NEW g,
         S = DOMAIN g, \A x \in S : g[x] = IF x = a THEN c ELSE 1
  PROVE  Product(g) = IF a \in S THEN c ELSE 1
<1> DEFINE picked(it, T) == IF T = {} THEN 1
                            ELSE g[CHOOSE x \in T : TRUE] * it[T \ {CHOOSE x \in T : TRUE}]
           Is(it) == it = [T \in SUBSET S |-> picked(it, T)]
           it0 == [T \in SUBSET S |-> IF a \in T THEN c ELSE 1]
<1>1. Product(g) = (CHOOSE it : Is(it))[S]
  BY DEF Product, FoldFunction, FoldFunctionOnSet, MapThenFoldSet
<1>2. ASSUME NEW x \in S, NEW v, v = 1 \/ (v = c /\ x # a) PROVE g[x] * v = IF x = a THEN c ELSE v
  <2>1. CASE x = a
    <3>1. g[x] = c /\ v = 1
      BY <1>2, <2>1
    <3>2. QED
      BY <2>1, <3>1
  <2>2. CASE x # a
    <3>1. g[x] = 1 /\ v \in Nat
      BY <1>2, <2>2
    <3>2. 1 * v = v
      BY <3>1
    <3>3. QED
      BY <2>2, <3>1, <3>2
  <2>3. QED
    BY <2>1, <2>2
<1>3. Is(it0)
  <2>1. ASSUME NEW T \in SUBSET S, T # {}
        PROVE  it0[T] = g[CHOOSE x \in T : TRUE] * it0[T \ {CHOOSE x \in T : TRUE}]
    <3>1. PICK p : p = (CHOOSE x \in T : TRUE) /\ p \in T
      BY <2>1
    <3>2. PICK v : v = it0[T \ {p}] /\ v = IF a \in T /\ a # p THEN c ELSE 1
      <4>1. T \ {p} \in SUBSET S
        OBVIOUS
      <4>2. QED
        BY <4>1
    <3>3. g[p] * v = IF p = a THEN c ELSE v
      BY <1>2, <3>1, <3>2
    <3>4. it0[T] = IF a \in T THEN c ELSE 1
      OBVIOUS
    <3>5. g[p] * v = it0[T]
      BY <3>1, <3>2, <3>3, <3>4
    <3>6. QED
      BY <3>1, <3>2, <3>5
  <2>2. it0[{}] = 1
    OBVIOUS
  <2>3. \A T \in SUBSET S : it0[T] = picked(it0, T)
    BY <2>1, <2>2
  <2>4. it0 = [T \in SUBSET S |-> it0[T]]
    OBVIOUS
  <2> HIDE DEF it0, picked
  <2>5. QED
    BY <2>3, <2>4
<1>4. PICK jt : jt = (CHOOSE kt : Is(kt)) /\ Is(jt)
  <2> HIDE DEF Is, it0
  <2>1. QED
    BY <1>3
<1>5. ASSUME NEW T \in SUBSET S
      PROVE  jt[T] = IF T = {} THEN 1 ELSE g[Pick(T)] * jt[T \ {Pick(T)}]
  <2>1. jt[T] = picked(jt, T)
    <3> HIDE DEF picked
    <3>1. QED
      BY <1>4
  <2>2. QED
    BY <2>1 DEF Pick
<1> HIDE DEF Is
<1> DEFINE G == { T \in SUBSET S : jt[T] = IF a \in T THEN c ELSE 1 }
<1>6. \A T \in SUBSET S : (\A x \in T : T \ {x} \in G) => T \in G
  <2> SUFFICES ASSUME NEW T \in SUBSET S, \A x \in T : T \ {x} \in G
               PROVE  jt[T] = IF a \in T THEN c ELSE 1
    OBVIOUS
  <2>1. CASE T = {}
    BY <1>5, <2>1
  <2>2. CASE T # {}
    <3>1. PICK p : p = Pick(T) /\ p \in T
      BY <2>2, PickIn
    <3>2. PICK v : v = jt[T \ {p}] /\ v = IF a \in T /\ a # p THEN c ELSE 1
      BY <3>1
    <3>3. g[p] * v = IF p = a THEN c ELSE v
      BY <1>2, <3>1, <3>2
    <3>4. jt[T] = g[p] * v
      BY <1>5, <2>2, <3>1, <3>2
    <3>5. QED
      BY <3>1, <3>2, <3>3, <3>4
  <2>3. QED
    BY <2>1, <2>2
<1> HIDE DEF G
<1>7. S \in G
  <2>1. \A T \in SUBSET S : T \in G
    BY <1>6, FiniteSteps
  <2>2. QED
    BY <2>1
<1>8. jt[S] = IF a \in S THEN c ELSE 1
  BY <1>7 DEF G
<1>9. QED
  BY <1>1, <1>4, <1>8

LEMMA SmallFactorials == Factorial[0] = 1 /\ Factorial[1] = 1 /\ Factorial[2] = 2
<1>1. ASSUME NEW n \in 0 .. 2 PROVE Factorial[n] = IF n = 2 THEN 2 ELSE 1
  <2> DEFINE g == [i \in 1 .. n |-> i]
  <2>1. \A i \in 1 .. n : g[i] = IF i = 2 THEN 2 ELSE 1
    OBVIOUS
  <2>2. IsFiniteSet(1 .. n) /\ 1 .. n = DOMAIN g
    <3>1. 1 \in Int /\ n \in Int
      OBVIOUS
    <3>2. QED
      BY <3>1, FS_Interval
  <2>3. Factorial[n] = Product(g)
    BY DEF Factorial, Product, FoldFunction, FoldFunctionOnSet, MapThenFoldSet
  <2> HIDE DEF g
  <2>4. Product(g) = IF 2 \in 1 .. n THEN 2 ELSE 1
    <3>1. 2 \in Nat
      OBVIOUS
    <3>2. QED
      BY <2>1, <2>2, <3>1, ProductOfOnes
  <2>5. QED
    BY <2>3, <2>4
<1>2. 0 \in 0 .. 2 /\ 1 \in 0 .. 2 /\ 2 \in 0 .. 2
  OBVIOUS
<1>3. QED
  BY <1>1, <1>2

\* Two different faces come up in two orders.
TwoFaces(m) == \A f \in Faces : m[f] < 2

LEMMA WeightIs ==
  ASSUME NEW n \in 1 .. 2, NEW m \in Multisets[n]
  PROVE  Weight[m] = IF n = 2 /\ TwoFaces(m) THEN 2 ELSE 1
<1>1. m \in [Faces -> 0 .. n] /\ Size(m) = n
  BY ThrowsTyped
<1> DEFINE g == [f \in Faces |-> Factorial[m[f]]]
           made == Product(g)
<1>2. IsFiniteSet(Faces) /\ Faces = DOMAIN g
  <2>1. 1 \in Int /\ 6 \in Int
    OBVIOUS
  <2>2. QED
    BY <2>1, FS_Interval DEF Faces
<1>3. ASSUME NEW f \in Faces PROVE g[f] = IF m[f] = 2 THEN 2 ELSE 1
  <2>1. m[f] \in 0 .. 2
    BY <1>1
  <2>2. m[f] = 0 \/ m[f] = 1 \/ m[f] = 2
    BY <2>1
  <2>3. QED
    BY <2>2, SmallFactorials
<1>4. Weight[m] = Factorial[n] \div made
  <2>1. m \in UNION { Multisets[k] : k \in 0 .. 5 }
    <3>1. n \in 0 .. 5
      OBVIOUS
    <3>2. QED
      BY <3>1
  <2>2. QED
    BY <1>1, <2>1 DEF Weight, Arrangements, Product, FoldFunction, FoldFunctionOnSet,
                      MapThenFoldSet
<1> HIDE DEF g, made
<1>5. 1 \in Nat /\ 2 \in Nat
  OBVIOUS
<1>6. CASE TwoFaces(m)
  <2>1. \A f \in Faces : g[f] = IF f = 0 THEN 1 ELSE 1
    <3>1. TAKE f \in Faces
    <3>2. m[f] \in 0 .. 2 /\ m[f] < 2
      BY <1>1, <1>6 DEF TwoFaces
    <3>3. QED
      BY <1>3, <3>2
  <2>2. made = 1
    <3>1. made = IF 0 \in Faces THEN 1 ELSE 1
      BY <1>2, <1>5, <2>1, ProductOfOnes DEF made
    <3>2. QED
      BY <3>1
  <2>3. n = 1 \/ n = 2
    OBVIOUS
  <2>4. 1 \div 1 = 1 /\ 2 \div 1 = 2
    OBVIOUS
  <2>5. QED
    BY <1>4, <1>6, <2>2, <2>3, <2>4, SmallFactorials
<1>7. CASE ~TwoFaces(m)
  <2>1. PICK f \in Faces : m[f] = 2
    <3>1. PICK f \in Faces : ~(m[f] < 2)
      BY <1>7 DEF TwoFaces
    <3>2. m[f] \in 0 .. 2
      BY <1>1
    <3>3. QED
      BY <3>1, <3>2
  <2>2. n = 2
    BY <1>1, <2>1
  <2>3. \A e \in Faces : g[e] = IF e = f THEN 2 ELSE 1
    <3>1. ASSUME NEW e \in Faces, e # f PROVE m[e] # 2
      BY <1>1, <2>1, <2>2, <3>1 DEF Size, Faces
    <3>2. QED
      BY <1>3, <2>1, <3>1
  <2>4. made = 2
    BY <1>2, <1>5, <2>3, ProductOfOnes DEF made
  <2>5. 2 \div 2 = 1
    OBVIOUS
  <2>6. QED
    BY <1>4, <1>7, <2>2, <2>4, <2>5, SmallFactorials
<1>8. QED
  BY <1>6, <1>7

\* What a throw of n dice is worth to a hold k, as many times as it comes up.
Weighed(k, n, r, card) == [m \in Multisets[n] |-> Weight[m] * BestBox(Plus(k, m), r, card)]

LEMMA WeighedTyped ==
  ASSUME NEW n \in 1 .. 2, NEW k \in Tallies, Size(k) = 5 - n, NEW r, NEW card
  PROVE  /\ \A m \in Multisets[n] : Weighed(k, n, r, card)[m] \in Int
         /\ \A m \in Multisets[n] : BestBox(Plus(k, m), r, card) \in Nat
<1>1. ASSUME NEW m \in Multisets[n]
      PROVE  BestBox(Plus(k, m), r, card) \in Nat /\ Weight[m] \in Nat
  <2>1. m \in Tallies /\ Size(m) = 5 - Size(k)
    BY ThrowsTyped
  <2>2. Plus(k, m) \in Tallies
    BY <2>1, PlusTallies
  <2>3. QED
    BY <2>2, BestBoxIsNat, WeightIs
<1>2. ASSUME NEW m \in Multisets[n] PROVE Weight[m] * BestBox(Plus(k, m), r, card) \in Int
  <2>1. \A x, y \in Nat : x * y \in Int
    OBVIOUS
  <2>2. QED
    BY <1>1, <2>1
<1>3. QED
  BY <1>1, <1>2 DEF Weighed

\* The sum over throws that share their ones and twos.
Shared(k, r, card, ms) ==
  MapThenSumSet(LAMBDA m : Weight[m] * BestBox(Plus(k, m), r, card), ms)

LEMMA SharedIsTotal ==
  ASSUME NEW n \in 1 .. 2, NEW k \in Tallies, Size(k) = 5 - n, NEW r, NEW card,
         NEW ms \in SUBSET Multisets[n]
  PROVE  Shared(k, r, card, ms) = Total(Weighed(k, n, r, card), ms)
<1>1. PICK g : g = Weighed(k, n, r, card)
  OBVIOUS
<1>2. IsFiniteSet(ms) /\ \A m \in ms : g[m] \in Int
  BY <1>1, ThrowsTyped, FS_Subset, WeighedTyped
<1>3. \A m \in ms : g[m] = Weight[m] * BestBox(Plus(k, m), r, card)
  BY <1>1 DEF Weighed
<1> DEFINE val(m) == Weight[m] * BestBox(Plus(k, m), r, card)
           picked(it, T) == IF T = {} THEN 0
                            ELSE val(CHOOSE x \in T : TRUE) + it[T \ {CHOOSE x \in T : TRUE}]
           added(it, T) == IF T = {} THEN 0 ELSE g[Pick(T)] + it[T \ {Pick(T)}]
           Is(it) == it = [T \in SUBSET ms |-> picked(it, T)]
           Adds(it) == it = [T \in SUBSET ms |-> added(it, T)]
<1>4. Shared(k, r, card, ms) = (CHOOSE it : Is(it))[ms]
  BY DEF Shared, MapThenSumSet, MapThenFoldSet
<1>5. \A m \in ms : g[m] = val(m)
  BY <1>3
<1> HIDE DEF val
<1>6. ASSUME NEW it PROVE Is(it) <=> Adds(it)
  <2>1. ASSUME NEW T \in SUBSET ms, T # {}
        PROVE  val(CHOOSE x \in T : TRUE) + it[T \ {CHOOSE x \in T : TRUE}]
                 = g[Pick(T)] + it[T \ {Pick(T)}]
    <3>1. PICK p : p = (CHOOSE x \in T : TRUE) /\ p = Pick(T) /\ p \in ms
      BY <2>1, PickIn DEF Pick
    <3>2. val(p) = g[p]
      BY <1>5, <3>1
    <3>3. QED
      BY <3>1, <3>2
  <2>2. \A T \in SUBSET ms : picked(it, T) = added(it, T)
    BY <2>1
  <2> HIDE DEF picked, added
  <2>3. QED
    BY <2>2
<1>7. (CHOOSE it : Is(it)) = (CHOOSE it : Adds(it))
  <2> HIDE DEF Is, Adds
  <2>1. QED
    BY <1>6, Zenon
<1>8. (CHOOSE it : Adds(it))[ms] = Total(g, ms)
  BY <1>2, SumChosen
<1>9. QED
  BY <1>1, <1>4, <1>7, <1>8

\* The sum over all throws, taken by what they share.
Grouped(k, n, r, card) == MapThenSumSet(LAMBDA ms : Shared(k, r, card, ms), Sharing[n])

LEMMA GroupedIsTotal ==
  ASSUME NEW n \in 1 .. 2, NEW k \in Tallies, Size(k) = 5 - n, NEW r, NEW card
  PROVE  Grouped(k, n, r, card) = Total(Weighed(k, n, r, card), Multisets[n])
<1>1. PICK g, M, R : g = Weighed(k, n, r, card) /\ M = Multisets[n] /\ R = Sharing[n]
  OBVIOUS
<1>2. /\ IsFiniteSet(M) /\ \A m \in M : g[m] \in Int
      /\ \A m \in M : m[1] \in 0 .. n /\ m[2] \in 0 .. n
  BY <1>1, ThrowsTyped, WeighedTyped DEF Faces
<1> DEFINE sharing(i, j) == { m \in M : m[1] = i /\ m[2] = j }
           f == [m \in M |-> sharing(m[1], m[2])]
           G == [ms \in R |-> Total(g, { m \in M : f[m] = ms })]
<1>3. R = { sharing(i, j) : i, j \in 0 .. n } \ {{}}
  BY <1>1 DEF Sharing
<1>4. IsFiniteSet(R) /\ \A ms \in R : ms \in SUBSET M
  <2>1. \A ms \in R : ms \in SUBSET M
    BY <1>3
  <2>2. IsFiniteSet(SUBSET M)
    BY <1>2, FS_SUBSET
  <2>3. R \in SUBSET (SUBSET M)
    BY <2>1
  <2>4. QED
    BY <2>1, <2>2, <2>3, FS_Subset
<1>5. f \in [M -> R]
  <2>1. ASSUME NEW m \in M PROVE sharing(m[1], m[2]) \in R
    <3>1. m \in sharing(m[1], m[2])
      OBVIOUS
    <3>2. QED
      BY <1>2, <1>3, <3>1
  <2>2. QED
    BY <2>1
<1>6. ASSUME NEW ms \in R PROVE { m \in M : f[m] = ms } = ms
  <2>1. PICK i \in 0 .. n, j \in 0 .. n : ms = sharing(i, j) /\ ms # {}
    BY <1>3
  <2>2. PICK o \in ms : TRUE
    BY <2>1
  <2>3. ASSUME NEW m \in M PROVE f[m] = ms <=> m \in ms
    <3>1. CASE m \in ms
      BY <2>1, <3>1
    <3>2. CASE f[m] = ms
      <4>1. m \in sharing(m[1], m[2])
        OBVIOUS
      <4>2. QED
        BY <3>2, <4>1
    <3>3. QED
      BY <3>1, <3>2
  <2>4. ms \subseteq M
    BY <2>1
  <2>5. QED
    BY <2>3, <2>4
<1>7. ASSUME NEW ms \in R
      PROVE  Shared(k, r, card, ms) = G[ms] /\ G[ms] \in Int /\ G[ms] = Total(g, ms)
  <2>1. G[ms] = Total(g, ms)
    BY <1>6
  <2>2. Shared(k, r, card, ms) = Total(g, ms)
    BY <1>1, <1>4, SharedIsTotal
  <2>3. IsFiniteSet(ms) /\ \A m \in ms : g[m] \in Int
    BY <1>2, <1>4, FS_Subset
  <2>4. Total(g, ms) \in Int
    BY <2>3, TotalSame
  <2>5. QED
    BY <2>1, <2>2, <2>4
<1>8. Total(g, M) = Total(G, R)
  <2> HIDE DEF f
  <2>1. QED
    BY <1>2, <1>4, <1>5, TotalByClass
<1> HIDE DEF G, f
<1> DEFINE val(ms) == Shared(k, r, card, ms)
           picked(it, T) == IF T = {} THEN 0
                            ELSE val(CHOOSE x \in T : TRUE) + it[T \ {CHOOSE x \in T : TRUE}]
           added(it, T) == IF T = {} THEN 0 ELSE G[Pick(T)] + it[T \ {Pick(T)}]
           Is(it) == it = [T \in SUBSET R |-> picked(it, T)]
           Adds(it) == it = [T \in SUBSET R |-> added(it, T)]
<1>9. Grouped(k, n, r, card) = (CHOOSE it : Is(it))[R]
  BY <1>1 DEF Grouped, MapThenSumSet, MapThenFoldSet
<1>10. \A ms \in R : G[ms] = val(ms)
  BY <1>7
<1> HIDE DEF val
<1>11. ASSUME NEW it PROVE Is(it) <=> Adds(it)
  <2>1. ASSUME NEW T \in SUBSET R, T # {}
        PROVE  val(CHOOSE x \in T : TRUE) + it[T \ {CHOOSE x \in T : TRUE}]
                 = G[Pick(T)] + it[T \ {Pick(T)}]
    <3>1. PICK p : p = (CHOOSE x \in T : TRUE) /\ p = Pick(T) /\ p \in R
      BY <2>1, PickIn DEF Pick
    <3>2. val(p) = G[p]
      BY <1>10, <3>1
    <3>3. QED
      BY <3>1, <3>2
  <2>2. \A T \in SUBSET R : picked(it, T) = added(it, T)
    BY <2>1
  <2> HIDE DEF picked, added
  <2>3. QED
    BY <2>2
<1>12. (CHOOSE it : Is(it)) = (CHOOSE it : Adds(it))
  <2> HIDE DEF Is, Adds
  <2>1. QED
    BY <1>11, Zenon
<1>13. (CHOOSE it : Adds(it))[R] = Total(G, R)
  BY <1>4, <1>7, SumChosen
<1>14. QED
  BY <1>1, <1>8, <1>9, <1>12, <1>13

\* The tally of one throw, die by die.
LEMMA TallyIs ==
  ASSUME NEW n \in 1 .. 2, NEW t \in Ordered(n)
  PROVE  /\ \A f \in Faces : TallyOf(t)[f] = One(t[1] = f) + One(n = 2 /\ t[2] = f)
         /\ TallyOf(t) \in Multisets[n]
<1>1. n = 1 \/ n = 2
  OBVIOUS
<1>2. DOMAIN t = 1 .. n /\ (\A i \in 1 .. n : t[i] \in Faces)
  BY DEF Ordered
<1>3. ASSUME NEW f \in Faces
      PROVE  TallyOf(t)[f] = One(t[1] = f) + One(n = 2 /\ t[2] = f)
  <2>1. PICK S : S = { i \in 1 .. n : t[i] = f }
    OBVIOUS
  <2>2. S \in SUBSET (1 .. 3)
    BY <2>1
  <2>3. Cardinality(S) = One(1 \in S) + One(2 \in S) + One(3 \in S)
    BY <2>2, CountToThree
  <2>4. (1 \in S <=> t[1] = f) /\ (2 \in S <=> n = 2 /\ t[2] = f) /\ 3 \notin S
    BY <1>1, <2>1
  <2>5. TallyOf(t)[f] = Cardinality(S)
    BY <1>2, <2>1 DEF TallyOf
  <2>6. QED
    BY <2>3, <2>4, <2>5 DEF One
<1>4. TallyOf(t) \in [Faces -> 0 .. n]
  <2>1. ASSUME NEW f \in Faces PROVE TallyOf(t)[f] \in 0 .. n
    BY <1>1, <1>3 DEF One
  <2>2. TallyOf(t) = [f \in Faces |-> TallyOf(t)[f]]
    BY DEF TallyOf
  <2>3. QED
    BY <2>1, <2>2
<1>5. Size(TallyOf(t)) = n
  <2>1. PICK a \in Faces : a = t[1]
    BY <1>1, <1>2
  <2>2. CASE n = 1
    <3>1. \A f \in Faces : TallyOf(t)[f] = One(a = f)
      BY <1>3, <2>1, <2>2 DEF One
    <3>2. QED
      BY <2>2, <3>1 DEF Size, Faces, One
  <2>3. CASE n = 2
    <3>1. PICK b \in Faces : b = t[2]
      BY <1>2, <2>3
    <3>2. \A f \in Faces : TallyOf(t)[f] = One(a = f) + One(b = f)
      BY <1>3, <2>1, <2>3, <3>1 DEF One
    <3>3. QED
      BY <2>3, <3>2 DEF Size, Faces, One
  <2>4. QED
    BY <1>1, <2>2, <2>3
<1>6. QED
  BY <1>3, <1>4, <1>5 DEF Multisets

\* The faces of a throw that has m for its tally.
LEMMA FacesOf ==
  ASSUME NEW n \in 1 .. 2, NEW m \in Multisets[n]
  PROVE  \E a, b \in Faces :
           /\ \A f \in Faces : m[f] = One(a = f) + One(n = 2 /\ b = f)
           /\ TwoFaces(m) /\ n = 2 <=> n = 2 /\ a # b
<1>1. m \in [Faces -> 0 .. n] /\ Size(m) = n /\ (n = 1 \/ n = 2)
  BY ThrowsTyped
<1>2. PICK a \in Faces : m[a] # 0
  BY <1>1 DEF Size, Faces
<1>3. CASE n = 1
  <2>1. m[a] = 1 /\ \A f \in Faces : f # a => m[f] = 0
    BY <1>1, <1>2, <1>3 DEF Size, Faces
  <2>2. QED
    BY <1>3, <2>1 DEF One
<1>4. CASE n = 2 /\ m[a] = 2
  <2>1. \A f \in Faces : f # a => m[f] = 0
    BY <1>1, <1>4 DEF Size, Faces
  <2>2. ~TwoFaces(m)
    BY <1>4 DEF TwoFaces
  <2>3. QED
    BY <1>4, <2>1, <2>2 DEF One
<1>5. CASE n = 2 /\ m[a] # 2
  <2>1. m[a] = 1
    BY <1>1, <1>2, <1>5
  <2>2. PICK b \in Faces : b # a /\ m[b] # 0
    BY <1>1, <1>5, <2>1 DEF Size, Faces
  <2>3. m[b] = 1 /\ \A f \in Faces : f # a /\ f # b => m[f] = 0
    BY <1>1, <1>5, <2>1, <2>2 DEF Size, Faces
  <2>4. TwoFaces(m)
    BY <2>1, <2>3 DEF TwoFaces
  <2>5. QED
    BY <1>5, <2>1, <2>2, <2>3, <2>4 DEF One
<1>6. QED
  BY <1>1, <1>3, <1>4, <1>5

\* The throws that have m for their tally are as many as its weight says.
LEMMA ThrowsOfATally ==
  ASSUME NEW n \in 1 .. 2, NEW m \in Multisets[n], NEW v \in Int, NEW g,
         \A t \in Ordered(n) : TallyOf(t) = m => g[t] = v
  PROVE  Total(g, { t \in Ordered(n) : TallyOf(t) = m }) = Weight[m] * v
<1>1. PICK a \in Faces, b \in Faces :
         /\ \A f \in Faces : m[f] = One(a = f) + One(n = 2 /\ b = f)
         /\ TwoFaces(m) /\ n = 2 <=> n = 2 /\ a # b
  BY FacesOf
<1>2. PICK F : F = { t \in Ordered(n) : TallyOf(t) = m }
  OBVIOUS
<1>3. ASSUME NEW t \in Ordered(n)
      PROVE  t \in F <=> \A f \in Faces :
                One(t[1] = f) + One(n = 2 /\ t[2] = f) = One(a = f) + One(n = 2 /\ b = f)
  <2>1. m \in [Faces -> 0 .. n] /\ TallyOf(t) \in [Faces -> 0 .. n]
    BY TallyIs, ThrowsTyped
  <2>2. TallyOf(t) = m <=> \A f \in Faces : TallyOf(t)[f] = m[f]
    BY <2>1
  <2>3. \A f \in Faces : TallyOf(t)[f] = One(t[1] = f) + One(n = 2 /\ t[2] = f)
    BY TallyIs
  <2>4. t \in F <=> TallyOf(t) = m
    BY <1>2
  <2>5. QED
    BY <1>1, <2>2, <2>3, <2>4
<1>4. n = 1 \/ n = 2
  OBVIOUS
<1>5. CASE n = 1
  <2>1. PICK t : t = [i \in 1 .. 1 |-> a]
    OBVIOUS
  <2>2. t \in Ordered(n) /\ t[1] = a
    BY <1>5, <2>1 DEF Ordered
  <2>3. t \in F
    BY <1>3, <1>5, <2>2 DEF One
  <2>4. ASSUME NEW u \in F PROVE u = t
    <3>1. u \in Ordered(n)
      BY <1>2
    <3>2. u[1] \in Faces /\ u = [i \in 1 .. 1 |-> u[i]]
      BY <1>5, <3>1 DEF Ordered
    <3>3. u[1] = a
      BY <1>3, <1>5, <3>1, <3>2 DEF One
    <3>4. QED
      BY <2>1, <3>2, <3>3
  <2>5. F = {t} /\ g[t] = v
    BY <1>2, <2>2, <2>3, <2>4
  <2>6. Total(g, F) = v
    BY <2>5, TotalOfOne
  <2>7. Weight[m] = 1
    BY <1>5, WeightIs
  <2>8. QED
    BY <1>2, <2>6, <2>7
<1>6. CASE n = 2
  <2>1. PICK t, s : t = [i \in 1 .. 2 |-> IF i = 1 THEN a ELSE b]
                    /\ s = [i \in 1 .. 2 |-> IF i = 1 THEN b ELSE a]
    OBVIOUS
  <2>2. /\ t \in Ordered(n) /\ t[1] = a /\ t[2] = b
        /\ s \in Ordered(n) /\ s[1] = b /\ s[2] = a
    BY <1>6, <2>1 DEF Ordered
  <2>3. t \in F /\ s \in F
    BY <1>3, <1>6, <2>2 DEF One
  <2>4. ASSUME NEW u \in F PROVE u = t \/ u = s
    <3>1. u \in Ordered(n)
      BY <1>2
    <3>2. u[1] \in Faces /\ u[2] \in Faces /\ u = [i \in 1 .. 2 |-> u[i]]
      BY <1>6, <3>1 DEF Ordered
    <3>3. \A f \in Faces : One(u[1] = f) + One(u[2] = f) = One(a = f) + One(b = f)
      BY <1>3, <1>6, <3>1 DEF One
    <3>4. One(u[1] = u[1]) + One(u[2] = u[1]) = One(a = u[1]) + One(b = u[1])
      BY <3>2, <3>3
    <3>5. One(u[1] = a) + One(u[2] = a) = One(a = a) + One(b = a)
      BY <3>3
    <3>6. One(u[1] = b) + One(u[2] = b) = One(a = b) + One(b = b)
      BY <3>3
    <3>7. (u[1] = a /\ u[2] = b) \/ (u[1] = b /\ u[2] = a)
      BY <3>4, <3>5, <3>6 DEF One
    <3>8. QED
      BY <2>1, <3>2, <3>7
  <2>5. F = {t, s} /\ g[t] = v /\ g[s] = v
    BY <1>2, <2>2, <2>3, <2>4
  <2>6. CASE a = b
    <3>1. t = s
      BY <2>1, <2>6
    <3>2. F = {t}
      BY <2>5, <3>1
    <3>3. Total(g, F) = v
      BY <2>5, <3>2, TotalOfOne
    <3>4. Weight[m] = 1
      BY <1>1, <1>6, <2>6, WeightIs
    <3>5. QED
      BY <1>2, <3>3, <3>4
  <2>7. CASE a # b
    <3>1. t # s
      BY <2>2, <2>7
    <3>2. Total(g, F) = v + v
      BY <2>5, <3>1, TotalOfTwo
    <3>3. Weight[m] = 2
      BY <1>1, <1>6, <2>7, WeightIs
    <3>4. QED
      BY <1>2, <3>2, <3>3
  <2>8. QED
    BY <2>6, <2>7
<1>7. QED
  BY <1>4, <1>5, <1>6

\* The sum over ordered throws.
Thrown(k, n, r, card) ==
  MapThenSumSet(LAMBDA t : BestBox(Plus(k, TallyOf(t)), r, card), Ordered(n))

LEMMA ThrownIsTotal ==
  ASSUME NEW n \in 1 .. 2, NEW k \in Tallies, Size(k) = 5 - n, NEW r, NEW card
  PROVE  Thrown(k, n, r, card) = Total(Weighed(k, n, r, card), Multisets[n])
<1>1. PICK w, M, S : w = Weighed(k, n, r, card) /\ M = Multisets[n] /\ S = Ordered(n)
  OBVIOUS
<1> DEFINE val(t) == BestBox(Plus(k, TallyOf(t)), r, card)
           f == [t \in S |-> TallyOf(t)]
           g == [t \in S |-> val(t)]
           G == [m \in M |-> Total(g, { t \in S : f[t] = m })]
<1>2. IsFiniteSet(S) /\ IsFiniteSet(M) /\ \A m \in M : w[m] \in Int
  BY <1>1, ThrowsTyped, WeighedTyped
<1>3. f \in [S -> M]
  BY <1>1, TallyIs
<1>4. \A t \in S : g[t] \in Int /\ g[t] = val(t)
  BY <1>1, TallyIs, WeighedTyped
<1>5. Total(g, S) = Total(G, M)
  <2> HIDE DEF f, g
  <2>1. QED
    BY <1>2, <1>3, <1>4, TotalByClass
<1>6. ASSUME NEW m \in M PROVE G[m] = w[m] /\ G[m] \in Int
  <2>1. PICK v : v = BestBox(Plus(k, m), r, card)
    OBVIOUS
  <2>2. v \in Int
    BY <1>1, <2>1, WeighedTyped
  <2>3. \A t \in Ordered(n) : TallyOf(t) = m => g[t] = v
    BY <1>1, <2>1
  <2>4. G[m] = Total(g, { t \in Ordered(n) : TallyOf(t) = m })
    <3>1. { t \in S : f[t] = m } = { t \in Ordered(n) : TallyOf(t) = m }
      BY <1>1
    <3> HIDE DEF f, g
    <3>2. G[m] = Total(g, { t \in S : f[t] = m })
      OBVIOUS
    <3>3. QED
      BY <3>1, <3>2
  <2>5. w[m] = Weight[m] * v
    BY <1>1, <2>1 DEF Weighed
  <2> HIDE DEF g, G
  <2>6. Total(g, { t \in Ordered(n) : TallyOf(t) = m }) = Weight[m] * v
    BY <1>1, <2>2, <2>3, ThrowsOfATally
  <2>7. QED
    BY <1>2, <2>4, <2>5, <2>6
<1> HIDE DEF f, g, G, val
<1>7. Total(G, M) = Total(w, M)
  BY <1>2, <1>6, TotalSame
<1> DEFINE picked(it, T) == IF T = {} THEN 0
                            ELSE val(CHOOSE x \in T : TRUE) + it[T \ {CHOOSE x \in T : TRUE}]
           added(it, T) == IF T = {} THEN 0 ELSE g[Pick(T)] + it[T \ {Pick(T)}]
           Is(it) == it = [T \in SUBSET S |-> picked(it, T)]
           Adds(it) == it = [T \in SUBSET S |-> added(it, T)]
<1>8. Thrown(k, n, r, card) = (CHOOSE it : Is(it))[S]
  BY <1>1 DEF Thrown, MapThenSumSet, MapThenFoldSet, val
<1>9. ASSUME NEW it PROVE Is(it) <=> Adds(it)
  <2>1. ASSUME NEW T \in SUBSET S, T # {}
        PROVE  val(CHOOSE x \in T : TRUE) + it[T \ {CHOOSE x \in T : TRUE}]
                 = g[Pick(T)] + it[T \ {Pick(T)}]
    <3>1. PICK p : p = (CHOOSE x \in T : TRUE) /\ p = Pick(T) /\ p \in S
      BY <2>1, PickIn DEF Pick
    <3>2. val(p) = g[p]
      BY <1>4, <3>1
    <3>3. QED
      BY <3>1, <3>2
  <2>2. \A T \in SUBSET S : picked(it, T) = added(it, T)
    BY <2>1
  <2> HIDE DEF picked, added
  <2>3. QED
    BY <2>2
<1>10. (CHOOSE it : Is(it)) = (CHOOSE it : Adds(it))
  <2> HIDE DEF Is, Adds
  <2>1. QED
    BY <1>9, Zenon
<1>11. (CHOOSE it : Adds(it))[S] = Total(g, S)
  BY <1>2, <1>4, SumChosen
<1>12. QED
  BY <1>1, <1>5, <1>7, <1>8, <1>10, <1>11

\* The price the hard bot works out from the throws' weights is the sum over ordered ones.
LEMMA HoldsPriced == GeneralaInv => HoldsPricedRight
<1> SUFFICES ASSUME GeneralaInv, NEW s \in GSeats, NEW k \in OfferedKeeps(s), Size(k) >= 3
             PROVE  ExpectedSum(s, k) =
                      MapThenSumSet(LAMBDA t : BestBox(Plus(k, TallyOf(t)), rolls + 1, gcards[s]),
                                    Ordered(5 - Size(k)))
  BY DEF HoldsPricedRight
<1>1. k \in Tallies /\ Size(k) \in 0 .. 4
  <2>1. PICK n \in 0 .. 4 : k \in Multisets[n]
    BY DEF OfferedKeeps, Keeps
  <2>2. k \in [Faces -> 0 .. n] /\ Size(k) = n
    BY <2>1 DEF Multisets
  <2>3. QED
    BY <2>2 DEF Tallies
<1>2. PICK n \in 1 .. 2 : n = 5 - Size(k) /\ Size(k) = 5 - n
  <2>1. 5 - Size(k) \in 1 .. 2 /\ Size(k) = 5 - (5 - Size(k))
    BY <1>1
  <2>2. QED
    BY <2>1
<1>3. ExpectedSum(s, k) = Grouped(k, 5 - Size(k), rolls + 1, gcards[s])
  BY DEF ExpectedSum, Grouped, Shared
<1>4. Grouped(k, n, rolls + 1, gcards[s]) = Thrown(k, n, rolls + 1, gcards[s])
  <2>1. ASSUME NEW r, NEW card PROVE Grouped(k, n, r, card) = Thrown(k, n, r, card)
    <3>1. Grouped(k, n, r, card) = Total(Weighed(k, n, r, card), Multisets[n])
      BY <1>1, <1>2, GroupedIsTotal
    <3>2. Thrown(k, n, r, card) = Total(Weighed(k, n, r, card), Multisets[n])
      BY <1>1, <1>2, ThrownIsTotal
    <3>3. QED
      BY <3>1, <3>2
  <2>2. QED
    BY <2>1
<1>5. ExpectedSum(s, k) = Thrown(k, 5 - Size(k), rolls + 1, gcards[s])
  BY <1>2, <1>3, <1>4
<1>6. QED
  BY <1>5 DEF Thrown

\* What the hard bot reckons of a hold of three or four dice is right, at every table.
THEOREM GeneralaHoldsPricedRight == GeneralaSpec => []HoldsPricedRight
  BY GeneralaInitInv, GeneralaStepInv, HoldsPriced, PTL DEF GeneralaSpec

-----------------------------------------------------------------------------
(* What is worked out of a set from its smaller parts is well defined: F gives, *)
(* from what g says of them, what to say of every set.                          *)

\* F looks at nothing but the smaller parts of a set.
LooksDown(F, S, V) ==
  \A g, h \in [SUBSET S -> V] : \A T \in SUBSET S :
    (\A U \in SUBSET T : U # T => g[U] = h[U]) => F[g][T] = F[h][T]

Recursion(F, S, V) ==
  IsFiniteSet(S) /\ V # {} /\ F \in [[SUBSET S -> V] -> [SUBSET S -> V]] /\ LooksDown(F, S, V)

Solved(F, S, V) == \E g \in [SUBSET S -> V] : g = F[g]

LEMMA RecursionSolved ==
  ASSUME NEW F, NEW S, NEW V, Recursion(F, S, V) PROVE Solved(F, S, V)
<1>1. /\ IsFiniteSet(S) /\ V # {} /\ F \in [[SUBSET S -> V] -> [SUBSET S -> V]]
      /\ LooksDown(F, S, V)
  BY DEF Recursion
<1> DEFINE UpTo(g, n) == \A T \in SUBSET S : Cardinality(T) <= n => g[T] = F[g][T]
           G == { n \in Nat : \E g \in [SUBSET S -> V] : UpTo(g, n) }
<1>2. ASSUME NEW T \in SUBSET S
      PROVE  IsFiniteSet(T) /\ Cardinality(T) \in Nat /\ Cardinality(T) <= Cardinality(S)
  BY <1>1, FS_Subset, FS_CardinalityType
<1>3. 0 \in G
  <2>1. PICK v \in V : TRUE
    BY <1>1
  <2> DEFINE g == [T \in SUBSET S |-> v]
  <2>2. g \in [SUBSET S -> V]
    BY <2>1
  <2> HIDE DEF g
  <2>3. F[g] \in [SUBSET S -> V]
    BY <1>1, <2>2
  <2>4. PICK h : h = F[g] /\ h \in [SUBSET S -> V]
    BY <2>3
  <2>5. ASSUME NEW T \in SUBSET S, Cardinality(T) <= 0 PROVE h[T] = F[h][T]
    <3>1. T = {}
      BY <1>2, <2>5, FS_EmptySet
    <3>2. \A U \in SUBSET T : U # T => g[U] = h[U]
      BY <3>1
    <3>3. F[g][T] = F[h][T]
      BY <1>1, <2>2, <2>4, <3>2 DEF LooksDown
    <3>4. QED
      BY <2>4, <3>3
  <2>6. UpTo(h, 0)
    BY <2>5
  <2> HIDE DEF UpTo
  <2>7. QED
    BY <2>4, <2>6
<1>4. ASSUME NEW n \in Nat, n \in G PROVE n + 1 \in G
  <2>1. PICK g \in [SUBSET S -> V] : UpTo(g, n)
    BY <1>4
  <2>2. PICK h : h = F[g] /\ h \in [SUBSET S -> V]
    BY <1>1
  <2>3. ASSUME NEW T \in SUBSET S, Cardinality(T) <= n + 1 PROVE h[T] = F[h][T]
    <3>1. ASSUME NEW U \in SUBSET T, U # T PROVE g[U] = h[U]
      <4>1. Cardinality(U) < Cardinality(T)
        BY <1>2, <3>1, FS_Subset
      <4>2. U \in SUBSET S /\ Cardinality(U) \in Nat /\ Cardinality(T) \in Nat
        BY <1>2
      <4>3. Cardinality(U) <= n
        BY <2>3, <4>1, <4>2
      <4>4. QED
        BY <2>1, <2>2, <4>2, <4>3
    <3>2. F[g][T] = F[h][T]
      BY <1>1, <2>1, <2>2, <3>1 DEF LooksDown
    <3>3. QED
      BY <2>2, <3>2
  <2>4. UpTo(h, n + 1)
    BY <2>3
  <2> HIDE DEF UpTo
  <2>5. QED
    BY <2>2, <2>4
<1> HIDE DEF G
<1>5. Cardinality(S) \in G
  BY <1>1, <1>3, <1>4, FS_CardinalityType, NaturalSteps
<1>6. PICK g \in [SUBSET S -> V] : UpTo(g, Cardinality(S))
  BY <1>5 DEF G
<1>7. \A T \in SUBSET S : g[T] = F[g][T]
  BY <1>2, <1>6
<1>8. PICK h : h = F[g] /\ h \in [SUBSET S -> V]
  BY <1>1
<1>9. g = h
  BY <1>7, <1>8
<1>10. QED
  BY <1>8, <1>9 DEF Solved
-----------------------------------------------------------------------------
(* Mahjong: what the generator walks.                                          *)

LEMMA PairsWithin ==
  ASSUME NEW occ \in SUBSET Layout, NEW p \in SolvablePairs(occ)
  PROVE  /\ p \in occ \X occ /\ p[1] # p[2] /\ p[1] \in FreeIn(occ) /\ p[2] \in FreeIn(occ)
         /\ Range(p) = {p[1], p[2]} /\ p \in Layout \X Layout
<1>1. FreeIn(occ) \subseteq occ
  BY DEF FreeIn
<1>2. p \in FreeIn(occ) \X FreeIn(occ) /\ p[1] # p[2]
  BY DEF SolvablePairs
<1>3. \A i : i \in DOMAIN p <=> i \in {1, 2}
  BY <1>2
<1>4. Range(p) = {p[1], p[2]}
  BY <1>3 DEF Range
<1>5. QED
  BY <1>1, <1>2, <1>4

Walk == Seq(Layout \X Layout)
Onward(p, R) == { <<p>> \o rest : rest \in R }

WalksFrom(g, occ) ==
  IF occ = {} THEN {<<>>}
  ELSE UNION { Onward(p, g[occ \ Range(p)]) : p \in SolvablePairs(occ) }

LEMMA SolutionsWalk ==
  \A occ \in SUBSET Layout : Solutions[occ] = WalksFrom(Solutions, occ)
<1> DEFINE V == SUBSET Walk
           F == [g \in [SUBSET Layout -> V] |-> [occ \in SUBSET Layout |-> WalksFrom(g, occ)]]
<1>1. IsFiniteSet(Layout)
  BY MahjongAssumption
<1>2. V # {}
  OBVIOUS
<1>3. ASSUME NEW g \in [SUBSET Layout -> V], NEW occ \in SUBSET Layout
      PROVE  WalksFrom(g, occ) \in V
  <2>1. CASE occ = {}
    BY <2>1 DEF Walk, WalksFrom
  <2>2. CASE occ # {}
    <3>1. ASSUME NEW p \in SolvablePairs(occ) PROVE Onward(p, g[occ \ Range(p)]) \subseteq Walk
      <4>1. p \in Layout \X Layout
        BY PairsWithin
      <4>2. g[occ \ Range(p)] \subseteq Walk
        OBVIOUS
      <4>3. ASSUME NEW rest \in Walk PROVE <<p>> \o rest \in Walk
        BY <4>1 DEF Walk
      <4>4. QED
        BY <4>2, <4>3 DEF Onward
    <3>2. QED
      BY <2>2, <3>1 DEF WalksFrom
  <2>3. QED
    BY <2>1, <2>2
<1>4. LooksDown(F, Layout, V)
  <2> HIDE DEF V
  <2>1. \A g \in [SUBSET Layout -> V] : \A occ \in SUBSET Layout : F[g][occ] = WalksFrom(g, occ)
    OBVIOUS
  <2> HIDE DEF F
  <2>2. ASSUME NEW g \in [SUBSET Layout -> V], NEW h \in [SUBSET Layout -> V],
               NEW occ \in SUBSET Layout, \A U \in SUBSET occ : U # occ => g[U] = h[U]
        PROVE  F[g][occ] = F[h][occ]
    <3>1. ASSUME NEW p \in SolvablePairs(occ) PROVE g[occ \ Range(p)] = h[occ \ Range(p)]
      BY <2>2, PairsWithin
    <3>2. WalksFrom(g, occ) = WalksFrom(h, occ)
      BY <3>1 DEF WalksFrom
    <3>3. QED
      BY <2>1, <3>2
  <2>3. QED
    BY <2>2 DEF LooksDown
<1>5. F \in [[SUBSET Layout -> V] -> [SUBSET Layout -> V]]
  <2> HIDE DEF V
  <2>1. QED
    BY <1>3
<1> HIDE DEF V, F
<1>6. Solved(F, Layout, V)
  BY <1>1, <1>2, <1>4, <1>5, RecursionSolved DEF Recursion
<1>12. PICK g \in [SUBSET Layout -> V] : g = F[g]
  BY <1>6 DEF Solved
<1> DEFINE Is(f) == f = [occ \in SUBSET Layout |->
                 IF occ = {} THEN {<<>>}
                 ELSE UNION { { <<p>> \o rest : rest \in f[occ \ Range(p)] } : p \in SolvablePairs(occ) }]
<1>7. Solutions = CHOOSE f : Is(f)
  BY DEF Solutions
<1>8. ASSUME NEW f PROVE Is(f) <=> f = [occ \in SUBSET Layout |-> WalksFrom(f, occ)]
  BY DEF WalksFrom, Onward
<1> HIDE DEF Is
<1>9. Is(g)
  BY <1>12, <1>8 DEF F
<1>10. Is(Solutions)
  BY <1>7, <1>9
<1>11. Solutions = [occ \in SUBSET Layout |-> WalksFrom(Solutions, occ)]
  BY <1>8, <1>10
<1>13. QED
  BY <1>11

\* A walk takes two at a time, both free among what is left, until nothing is.
TwoOf(q) == {q[1], q[2]}
Left(s, i) == { p \in Layout : \E j \in i .. Len(s) : p \in TwoOf(s[j]) }
Peels(s, occ) ==
  /\ s \in Walk /\ Left(s, 1) = occ /\ Cardinality(occ) = 2 * Len(s)
  /\ \A i \in 1 .. Len(s) : s[i][1] # s[i][2] /\ TwoOf(s[i]) \subseteq FreeIn(Left(s, i))
  /\ \A i, j \in 1 .. Len(s) : i # j => TwoOf(s[i]) \cap TwoOf(s[j]) = {}

LEMMA PeeledOnward ==
  ASSUME NEW occ \in SUBSET Layout, NEW p \in SolvablePairs(occ), NEW rest,
         Peels(rest, occ \ TwoOf(p))
  PROVE  Peels(<<p>> \o rest, occ)
<1>1. /\ p \in occ \X occ /\ p[1] # p[2] /\ p[1] \in FreeIn(occ) /\ p[2] \in FreeIn(occ)
      /\ p \in Layout \X Layout
  BY PairsWithin
<1>2. rest \in Seq(Layout \X Layout)
  BY DEF Peels, Walk
<1>3. PICK n : n = Len(rest) /\ n \in Nat
  BY <1>2
<1>4. PICK s : s = <<p>> \o rest
  OBVIOUS
<1>5. /\ s \in Walk /\ Len(s) = n + 1 /\ s[1] = p
      /\ \A i \in 1 .. n : s[i + 1] = rest[i]
  BY <1>1, <1>2, <1>3, <1>4 DEF Walk
<1>6. \A i \in 2 .. n + 1 : i - 1 \in 1 .. n /\ s[i] = rest[i - 1]
  <2>1. TAKE i \in 2 .. n + 1
  <2>2. i - 1 \in 1 .. n /\ (i - 1) + 1 = i
    BY <1>3
  <2>3. QED
    BY <1>5, <2>2
<1>7. ASSUME NEW i \in 2 .. n + 1 PROVE Left(s, i) = Left(rest, i - 1)
  <2>1. ASSUME NEW q \in Layout, NEW j \in i .. n + 1, q \in TwoOf(s[j])
        PROVE  q \in Left(rest, i - 1)
    <3>1. j \in 2 .. n + 1 /\ j - 1 \in (i - 1) .. n
      BY <1>3
    <3>2. QED
      BY <1>3, <1>6, <2>1, <3>1 DEF Left
  <2>2. ASSUME NEW q \in Layout, NEW j \in (i - 1) .. n, q \in TwoOf(rest[j])
        PROVE  q \in Left(s, i)
    <3>1. j \in 1 .. n /\ j + 1 \in i .. n + 1
      BY <1>3
    <3>2. QED
      BY <1>5, <2>2, <3>1 DEF Left
  <2>3. QED
    BY <1>3, <1>5, <2>1, <2>2 DEF Left
<1>8. Left(s, 1) = occ
  <2>1. Left(rest, 1) = occ \ TwoOf(p)
    BY DEF Peels
  <2>2. ASSUME NEW q \in Left(s, 1) PROVE q \in occ
    <3>1. PICK j \in 1 .. n + 1 : q \in TwoOf(s[j]) /\ q \in Layout
      BY <1>5 DEF Left
    <3>2. CASE j = 1
      BY <1>1, <1>5, <3>1, <3>2 DEF TwoOf
    <3>3. CASE j # 1
      <4>1. j \in 2 .. n + 1
        BY <1>3, <3>3
      <4>2. q \in Left(rest, 1)
        BY <1>3, <1>6, <3>1, <4>1 DEF Left
      <4>3. QED
        BY <2>1, <4>2
    <3>4. QED
      BY <3>2, <3>3
  <2>3. ASSUME NEW q \in occ PROVE q \in Left(s, 1)
    <3>1. 1 \in 1 .. n + 1
      BY <1>3
    <3>2. CASE q \in TwoOf(p)
      BY <1>5, <3>1, <3>2 DEF Left
    <3>3. CASE q \notin TwoOf(p)
      <4>1. PICK j \in 1 .. n : q \in TwoOf(rest[j])
        BY <1>3, <2>1, <3>3 DEF Left
      <4>2. j + 1 \in 1 .. n + 1
        BY <1>3
      <4>3. QED
        BY <1>5, <4>1, <4>2 DEF Left
    <3>4. QED
      BY <3>2, <3>3
  <2>4. QED
    BY <2>2, <2>3
<1>9. Cardinality(occ) = 2 * Len(s)
  <2>1. PICK rem : rem = occ \ {p[1]}
    OBVIOUS
  <2>2. IsFiniteSet(occ) /\ IsFiniteSet(rem)
    BY <2>1, MahjongAssumption, FS_Subset
  <2>3. Cardinality(rem) = Cardinality(occ) - 1
    BY <1>1, <2>1, <2>2, FS_RemoveElement
  <2>4. Cardinality(occ \ TwoOf(p)) = Cardinality(rem) - 1
    <3>1. p[2] \in rem /\ occ \ TwoOf(p) = rem \ {p[2]}
      BY <1>1, <2>1 DEF TwoOf
    <3>2. Cardinality(rem \ {p[2]}) = Cardinality(rem) - 1
      BY <2>2, <3>1, FS_RemoveElement
    <3>3. QED
      BY <3>1, <3>2
  <2>5. Cardinality(occ \ TwoOf(p)) = 2 * n
    BY <1>3 DEF Peels
  <2>6. Cardinality(occ) \in Nat
    BY <2>2, FS_CardinalityType
  <2>7. Len(s) = n + 1 /\ n \in Nat
    BY <1>3, <1>5
  <2>8. 2 * n = (Cardinality(occ) - 1) - 1
    BY <2>3, <2>4, <2>5
  <2>9. QED
    BY <2>6, <2>7, <2>8
<1>10. ASSUME NEW i \in 1 .. n + 1
       PROVE  s[i][1] # s[i][2] /\ TwoOf(s[i]) \subseteq FreeIn(Left(s, i))
  <2>1. CASE i = 1
    BY <1>1, <1>5, <1>8, <2>1 DEF TwoOf
  <2>2. CASE i # 1
    <3>1. i \in 2 .. n + 1
      BY <1>3, <2>2
    <3>2. /\ rest[i - 1][1] # rest[i - 1][2]
          /\ TwoOf(rest[i - 1]) \subseteq FreeIn(Left(rest, i - 1))
      BY <1>3, <1>6, <3>1 DEF Peels
    <3>3. QED
      BY <1>6, <1>7, <3>1, <3>2
  <2>3. QED
    BY <2>1, <2>2
<1>11. ASSUME NEW i \in 2 .. n + 1 PROVE TwoOf(s[i]) \cap TwoOf(p) = {}
  <2>1. i - 1 \in 1 .. n /\ s[i] = rest[i - 1]
    BY <1>6
  <2>2. TwoOf(rest[i - 1]) \subseteq Left(rest, i - 1)
    BY <1>3, <2>1 DEF Peels, FreeIn
  <2>3. Left(rest, i - 1) \subseteq Left(rest, 1)
    BY <1>3, <2>1 DEF Left
  <2>4. QED
    BY <2>1, <2>2, <2>3 DEF Peels
<1>12. ASSUME NEW i \in 1 .. n + 1, NEW j \in 1 .. n + 1, i # j
       PROVE  TwoOf(s[i]) \cap TwoOf(s[j]) = {}
  <2>1. CASE i = 1
    <3>1. j \in 2 .. n + 1
      BY <1>3, <1>12, <2>1
    <3>2. QED
      BY <1>5, <1>11, <2>1, <3>1
  <2>2. CASE j = 1
    <3>1. i \in 2 .. n + 1
      BY <1>3, <1>12, <2>2
    <3>2. QED
      BY <1>5, <1>11, <2>2, <3>1
  <2>3. CASE i # 1 /\ j # 1
    <3>1. i \in 2 .. n + 1 /\ j \in 2 .. n + 1
      BY <1>3, <2>3
    <3>2. i - 1 # j - 1
      BY <1>3, <1>12, <3>1
    <3>3. QED
      BY <1>3, <1>6, <3>1, <3>2 DEF Peels
  <2>4. QED
    BY <2>1, <2>2, <2>3
<1>13. QED
  BY <1>4, <1>5, <1>8, <1>9, <1>10, <1>12 DEF Peels

LEMMA SolutionsPeel ==
  \A occ \in SUBSET Layout : \A s \in Solutions[occ] : Peels(s, occ)
<1> DEFINE G == { occ \in SUBSET Layout : \A s \in Solutions[occ] : Peels(s, occ) }
<1>1. \A occ \in SUBSET Layout : (\A U \in SUBSET occ : U # occ => U \in G) => occ \in G
  <2> SUFFICES ASSUME NEW occ \in SUBSET Layout, \A U \in SUBSET occ : U # occ => U \in G,
                      NEW s \in Solutions[occ]
               PROVE  Peels(s, occ)
    OBVIOUS
  <2>1. s \in WalksFrom(Solutions, occ)
    BY SolutionsWalk
  <2>2. CASE occ = {}
    <3>1. s = <<>>
      BY <2>1, <2>2 DEF WalksFrom
    <3>2. Left(s, 1) = {} /\ s \in Walk /\ Len(s) = 0 /\ Cardinality(occ) = 0
      BY <2>2, <3>1, FS_EmptySet DEF Left, Walk
    <3>3. QED
      BY <2>2, <3>2 DEF Peels
  <2>3. CASE occ # {}
    <3>1. PICK p \in SolvablePairs(occ) : s \in Onward(p, Solutions[occ \ Range(p)])
      BY <2>1, <2>3 DEF WalksFrom
    <3>2. PICK rest \in Solutions[occ \ Range(p)] : s = <<p>> \o rest
      BY <3>1 DEF Onward
    <3>3. p[1] \in occ /\ Range(p) = TwoOf(p)
      BY PairsWithin DEF TwoOf
    <3>4. occ \ TwoOf(p) \in SUBSET occ /\ occ \ TwoOf(p) # occ
      BY <3>3 DEF TwoOf
    <3>5. Peels(rest, occ \ TwoOf(p))
      BY <3>2, <3>3, <3>4
    <3>6. QED
      BY <3>2, <3>5, PeeledOnward
  <2>4. QED
    BY <2>2, <2>3
<1> HIDE DEF G
<1>2. \A occ \in SUBSET Layout : occ \in G
  BY <1>1, MahjongAssumption, FiniteDescent
<1>3. QED
  BY <1>2 DEF G
\* A board clears from what is left when a matching pair can be taken and the rest clears.
Clears(board, c, occ) ==
  \/ occ = {}
  \/ \E p, q \in FreeIn(occ) : p # q /\ Matches(board[p], board[q]) /\ c[occ \ {p, q}]

LEMMA ClearableIs ==
  ASSUME NEW board
  PROVE  \E c : /\ Clearable(board) <=> c[Layout]
                /\ \A occ \in SUBSET Layout : c[occ] = Clears(board, c, occ)
<1> DEFINE F == [c \in [SUBSET Layout -> BOOLEAN] |-> [occ \in SUBSET Layout |-> Clears(board, c, occ)]]
<1>1. IsFiniteSet(Layout)
  BY MahjongAssumption
<1>2. \A c \in [SUBSET Layout -> BOOLEAN] : \A occ \in SUBSET Layout :
        F[c][occ] = Clears(board, c, occ)
  OBVIOUS
<1>3. F \in [[SUBSET Layout -> BOOLEAN] -> [SUBSET Layout -> BOOLEAN]]
  <2>1. ASSUME NEW c, NEW occ PROVE Clears(board, c, occ) \in BOOLEAN
    BY DEF Clears
  <2>2. QED
    BY <2>1
<1> HIDE DEF F
<1>4. LooksDown(F, Layout, BOOLEAN)
  <2>1. ASSUME NEW g \in [SUBSET Layout -> BOOLEAN], NEW h \in [SUBSET Layout -> BOOLEAN],
               NEW occ \in SUBSET Layout, \A U \in SUBSET occ : U # occ => g[U] = h[U]
        PROVE  F[g][occ] = F[h][occ]
    <3>1. ASSUME NEW p \in FreeIn(occ), NEW q \in FreeIn(occ)
          PROVE  g[occ \ {p, q}] = h[occ \ {p, q}]
      <4>1. p \in occ
        BY DEF FreeIn
      <4>2. QED
        BY <2>1, <4>1
    <3>2. Clears(board, g, occ) = Clears(board, h, occ)
      BY <3>1 DEF Clears
    <3>3. QED
      BY <1>2, <3>2
  <2>2. QED
    BY <2>1 DEF LooksDown
<1>5. Solved(F, Layout, BOOLEAN)
  BY <1>1, <1>3, <1>4, RecursionSolved DEF Recursion
<1>6. PICK g \in [SUBSET Layout -> BOOLEAN] : g = F[g]
  BY <1>5 DEF Solved
<1> DEFINE Is(f) == f = [occ \in SUBSET Layout |->
                           \/ occ = {}
                           \/ \E p, q \in FreeIn(occ) :
                                p # q /\ Matches(board[p], board[q]) /\ f[occ \ {p, q}]]
<1>7. Clearable(board) <=> (CHOOSE f : Is(f))[Layout]
  BY DEF Clearable
<1>8. ASSUME NEW f PROVE Is(f) <=> f = [occ \in SUBSET Layout |-> Clears(board, f, occ)]
  BY DEF Clears
<1> HIDE DEF Is
<1>9. Is(g)
  BY <1>6, <1>8 DEF F
<1>10. PICK c : c = (CHOOSE f : Is(f)) /\ Is(c)
  BY <1>9
<1>11. c = [occ \in SUBSET Layout |-> Clears(board, c, occ)]
  BY <1>8, <1>10
<1>12. \A occ \in SUBSET Layout : c[occ] = Clears(board, c, occ)
  BY <1>11
<1>13. QED
  BY <1>7, <1>10, <1>12

LEMMA WalkClears ==
  ASSUME NEW s, Peels(s, Layout), NEW board,
         \A i \in 1 .. Len(s) : Matches(board[s[i][1]], board[s[i][2]])
  PROVE  Clearable(board)
<1>1. PICK c : /\ Clearable(board) <=> c[Layout]
               /\ \A occ \in SUBSET Layout : c[occ] = Clears(board, c, occ)
  BY ClearableIs
<1>2. PICK n : n = Len(s) /\ n \in Nat
  BY DEF Peels, Walk
<1> DEFINE G == { k \in Nat : k <= n => c[Left(s, n + 1 - k)] }
<1>3. 0 \in G
  <2>1. Left(s, n + 1) = {}
    BY <1>2 DEF Left
  <2>2. Clears(board, c, {})
    BY DEF Clears
  <2>3. n + 1 - 0 = n + 1
    BY <1>2
  <2>4. QED
    BY <1>1, <2>1, <2>2, <2>3
<1>4. ASSUME NEW k \in Nat, k \in G PROVE k + 1 \in G
  <2> SUFFICES ASSUME k + 1 <= n PROVE c[Left(s, n + 1 - (k + 1))]
    OBVIOUS
  <2>1. PICK i : i = n - k /\ i \in 1 .. n /\ n + 1 - k = i + 1 /\ n + 1 - (k + 1) = i
    BY <1>2
  <2>2. c[Left(s, i + 1)]
    BY <1>2, <1>4, <2>1
  <2>3. s[i][1] # s[i][2] /\ TwoOf(s[i]) \subseteq FreeIn(Left(s, i))
    BY <1>2, <2>1 DEF Peels
  <2>4. Left(s, i + 1) = Left(s, i) \ TwoOf(s[i])
    <3>1. ASSUME NEW q \in Left(s, i), q \notin TwoOf(s[i]) PROVE q \in Left(s, i + 1)
      <4>1. PICK j \in i .. n : q \in TwoOf(s[j]) /\ q \in Layout
        BY <1>2 DEF Left
      <4>2. j # i
        BY <3>1, <4>1
      <4>3. j \in i + 1 .. n
        BY <1>2, <2>1, <4>2
      <4>4. QED
        BY <1>2, <4>1, <4>3 DEF Left
    <3>2. ASSUME NEW q \in Left(s, i + 1) PROVE q \in Left(s, i) /\ q \notin TwoOf(s[i])
      <4>1. PICK j \in i + 1 .. n : q \in TwoOf(s[j]) /\ q \in Layout
        BY <1>2 DEF Left
      <4>2. j \in i .. n /\ j # i /\ j \in 1 .. n
        BY <1>2, <2>1
      <4>3. TwoOf(s[i]) \cap TwoOf(s[j]) = {}
        BY <1>2, <2>1, <4>2 DEF Peels
      <4>4. QED
        BY <1>2, <4>1, <4>2, <4>3 DEF Left
    <3>3. QED
      BY <3>1, <3>2
  <2>5. Left(s, i) \in SUBSET Layout
    BY DEF Left
  <2>6. Clears(board, c, Left(s, i))
    <3>1. PICK p, q : p = s[i][1] /\ q = s[i][2]
      OBVIOUS
    <3>2. p \in FreeIn(Left(s, i)) /\ q \in FreeIn(Left(s, i)) /\ p # q
      BY <2>3, <3>1 DEF TwoOf
    <3>3. Matches(board[p], board[q])
      BY <1>2, <2>1, <3>1
    <3>4. c[Left(s, i) \ {p, q}]
      BY <2>2, <2>4, <3>1 DEF TwoOf
    <3>5. QED
      BY <3>2, <3>3, <3>4 DEF Clears
  <2>7. QED
    BY <1>1, <2>1, <2>5, <2>6
<1> HIDE DEF G
<1>5. n \in G
  BY <1>2, <1>3, <1>4, NaturalSteps
<1>6. c[Left(s, 1)]
  <2>1. n + 1 - n = 1
    BY <1>2
  <2>2. QED
    BY <1>2, <1>5, <2>1 DEF G
<1>7. QED
  BY <1>1, <1>6 DEF Peels
\* The pairs of a key that came before take two faces each from the end of its pool, and
\* leave two.
LEMMA FacesLeft ==
  ASSUME NEW n \in Nat, NEW o \in [1 .. n -> MatchKeys],
         \A k \in MatchKeys : 2 * Cardinality({ i \in 1 .. n : o[i] = k }) = Len(Wall[k]),
         NEW i \in 1 .. n, NEW b \in {1, 2}
  PROVE  LET pool == Wall[o[i]]
             used == 2 * Cardinality({ j \in 1 .. i - 1 : o[j] = o[i] }) IN
         pool[Len(pool) - used - b + 1] \in Range(pool)
<1> DEFINE pool == Wall[o[i]]
           past == { j \in 1 .. i - 1 : o[j] = o[i] }
           all  == { j \in 1 .. n : o[j] = o[i] }
<1>1. IsFiniteSet(1 .. n)
  BY FS_Interval
<1>2. IsFiniteSet(all) /\ IsFiniteSet(past \cup {i}) /\ IsFiniteSet(past)
  <2>1. all \subseteq 1 .. n /\ past \cup {i} \subseteq 1 .. n /\ past \subseteq 1 .. n
    OBVIOUS
  <2>2. QED
    BY <1>1, <2>1, FS_Subset
<1>3. i \notin past /\ past \cup {i} \subseteq all
  OBVIOUS
<1>4. pool \in Seq(WallFaces) /\ 2 * Cardinality(all) = Len(pool)
  BY MahjongAssumption
<1> HIDE DEF pool, past, all
<1>5. Cardinality(past \cup {i}) = Cardinality(past) + 1
  BY <1>2, <1>3, FS_AddElement
<1>6. Cardinality(past \cup {i}) <= Cardinality(all)
  BY <1>2, <1>3, FS_Subset
<1>7. Cardinality(past) \in Nat /\ Cardinality(all) \in Nat /\ Cardinality(past \cup {i}) \in Nat
  BY <1>2, FS_CardinalityType
<1>8. PICK u \in Nat : u = Cardinality(past) /\ 2 * u + 2 <= Len(pool)
  BY <1>4, <1>5, <1>6, <1>7
<1>9. Len(pool) - 2 * u - b + 1 \in 1 .. Len(pool)
  BY <1>4, <1>8
<1>10. DOMAIN pool = 1 .. Len(pool)
  BY <1>4
<1>11. pool[Len(pool) - 2 * u - b + 1] \in Range(pool)
  BY <1>9, <1>10 DEF Range
<1>12. QED
  BY <1>8, <1>11 DEF pool, past

LEMMA PlacedFaces ==
  ASSUME NEW o \in PairOrders, NEW s \in Solutions[Layout], NEW i \in 1 .. Len(s),
         NEW p \in TwoOf(s[i])
  PROVE  /\ i \in DOMAIN o /\ o[i] \in MatchKeys /\ p \in Layout
         /\ Placements(o, s)[p] \in Range(Wall[o[i]])
<1>1. Peels(s, Layout)
  BY SolutionsPeel
<1>2. PICK n : n = Len(s) /\ n \in Nat
  BY <1>1 DEF Peels, Walk
<1>3. n = Cardinality(Layout) \div 2
  BY <1>1, <1>2 DEF Peels
<1>4. /\ o \in [1 .. n -> MatchKeys]
      /\ \A k \in MatchKeys : 2 * Cardinality({ j \in 1 .. n : o[j] = k }) = Len(Wall[k])
  BY <1>3 DEF PairOrders
<1>5. p \in Layout
  BY <1>1, <1>2 DEF Peels, FreeIn, Left
<1>6. \A j \in 1 .. n : Range(s[j]) = TwoOf(s[j])
  <2>1. TAKE j \in 1 .. n
  <2>2. s[j] \in Layout \X Layout
    BY <1>1, <1>2 DEF Peels, Walk
  <2>3. \A k : k \in DOMAIN s[j] <=> k \in {1, 2}
    BY <2>2
  <2>4. QED
    BY <2>3 DEF Range, TwoOf
<1>7. (CHOOSE j \in DOMAIN o : p \in Range(s[j])) = i
  <2>1. DOMAIN o = 1 .. n /\ i \in 1 .. n
    BY <1>2, <1>4
  <2>2. \A j \in 1 .. n : p \in Range(s[j]) <=> j = i
    BY <1>1, <1>2, <1>6 DEF Peels
  <2>3. QED
    BY <2>1, <2>2
<1>8. PICK b \in {1, 2} : b = IF s[i][1] = p THEN 1 ELSE 2
  OBVIOUS
<1>9. Placements(o, s)[p] =
        LET pool == Wall[o[i]]
            used == 2 * Cardinality({ j \in 1 .. i - 1 : o[j] = o[i] })
        IN  pool[Len(pool) - used - b + 1]
  BY <1>5, <1>7, <1>8 DEF Placements
<1>10. Placements(o, s)[p] \in Range(Wall[o[i]])
  BY <1>2, <1>4, <1>9, FacesLeft
<1>11. QED
  BY <1>2, <1>4, <1>5, <1>10

\* What the generator hands over has a face of the wall on every position.
LEMMA BoardsTyped == Boards \subseteq [Layout -> WallFaces]
<1> SUFFICES ASSUME NEW o \in PairOrders, NEW s \in Solutions[Layout]
             PROVE  Placements(o, s) \in [Layout -> WallFaces]
  BY DEF Boards
<1>1. Left(s, 1) = Layout
  BY SolutionsPeel DEF Peels
<1>2. ASSUME NEW p \in Layout PROVE Placements(o, s)[p] \in WallFaces
  <2>1. PICK i \in 1 .. Len(s) : p \in TwoOf(s[i])
    BY <1>1 DEF Left
  <2>2. o[i] \in MatchKeys /\ Placements(o, s)[p] \in Range(Wall[o[i]])
    BY <2>1, PlacedFaces
  <2>3. QED
    BY <2>2 DEF WallFaces
<1>3. Placements(o, s) = [p \in Layout |-> Placements(o, s)[p]]
  BY DEF Placements
<1>4. QED
  BY <1>2, <1>3

\* And can be cleared, by the walk it was dealt along.
LEMMA BoardsClear == ASSUME NEW d \in Boards PROVE Clearable(d)
<1>1. PICK o \in PairOrders, s \in Solutions[Layout] : d = Placements(o, s)
  BY DEF Boards
<1>2. Peels(s, Layout)
  BY SolutionsPeel
<1>3. ASSUME NEW i \in 1 .. Len(s) PROVE Matches(d[s[i][1]], d[s[i][2]])
  <2>1. s[i][1] \in TwoOf(s[i]) /\ s[i][2] \in TwoOf(s[i])
    BY DEF TwoOf
  <2>2. /\ o[i] \in MatchKeys
        /\ d[s[i][1]] \in Range(Wall[o[i]]) /\ d[s[i][2]] \in Range(Wall[o[i]])
    BY <1>1, <2>1, PlacedFaces
  <2>3. QED
    BY <2>2 DEF Matches
<1>4. QED
  BY <1>2, <1>3, WalkClears

\* A board with every tile on it is the board as it was dealt.
Untouched == laid => (Occupied = Layout => tiles \in Boards) /\ DOMAIN tiles = Layout

\* Whatever the generator draws, for any layout and any wall, the board it hands over
\* can be cleared by pairs the rules offer.
THEOREM MahjongBoardsClear ==
  MahjongSpec => [](laid /\ Occupied = Layout => Clearable(tiles))
<1>1. MahjongInit => Untouched
  BY DEF MahjongInit, Untouched
<1>2. Untouched /\ [MahjongNext]_mahjongVars => Untouched'
  <2> SUFFICES ASSUME Untouched, [MahjongNext]_mahjongVars PROVE Untouched'
    OBVIOUS
  <2>1. ASSUME NEW d \in Boards, LayBoard(d) PROVE Untouched'
    BY <2>1, BoardsTyped DEF LayBoard, Untouched
  <2>2. ASSUME NEW P \in Pairs, RemovePair(P) PROVE Untouched'
    <3>1. PICK p \in P : p \in FreeIn(Occupied)
      BY DEF Pairs
    <3>2. p \in Layout
      BY <3>1 DEF FreeIn, Occupied
    <3>3. tiles'[p] = NoTile
      BY <2>2, <3>2 DEF RemovePair
    <3>4. Occupied' # Layout
      BY <3>2, <3>3 DEF Occupied
    <3>5. QED
      BY <2>2, <3>4 DEF RemovePair, Untouched
  <2>3. ASSUME UNCHANGED <<tiles, laid>> PROVE Untouched'
    BY <2>3 DEF Untouched, Occupied
  <2>4. QED
    BY <2>1, <2>2, <2>3 DEF MahjongNext, mahjongVars, Abandon
<1>3. Untouched => (laid /\ Occupied = Layout => Clearable(tiles))
  BY BoardsClear DEF Untouched
<1>4. QED
  BY <1>1, <1>2, <1>3, PTL DEF MahjongSpec

\* Where two free positions are always left to peel, a solution is always found.
CanPeel(c, occ) ==
  occ = {} \/ (SolvablePairs(occ) # {} /\ \A p \in SolvablePairs(occ) : c[occ \ Range(p)])

LEMMA PeelableIs == \A occ \in SUBSET Layout : Peelable[occ] = CanPeel(Peelable, occ)
<1> DEFINE F == [c \in [SUBSET Layout -> BOOLEAN] |-> [occ \in SUBSET Layout |-> CanPeel(c, occ)]]
<1>1. IsFiniteSet(Layout)
  BY MahjongAssumption
<1>2. \A c \in [SUBSET Layout -> BOOLEAN] : \A occ \in SUBSET Layout : F[c][occ] = CanPeel(c, occ)
  OBVIOUS
<1>3. F \in [[SUBSET Layout -> BOOLEAN] -> [SUBSET Layout -> BOOLEAN]]
  <2>1. ASSUME NEW c, NEW occ PROVE CanPeel(c, occ) \in BOOLEAN
    BY DEF CanPeel
  <2>2. QED
    BY <2>1
<1> HIDE DEF F
<1>4. LooksDown(F, Layout, BOOLEAN)
  <2>1. ASSUME NEW g \in [SUBSET Layout -> BOOLEAN], NEW h \in [SUBSET Layout -> BOOLEAN],
               NEW occ \in SUBSET Layout, \A U \in SUBSET occ : U # occ => g[U] = h[U]
        PROVE  F[g][occ] = F[h][occ]
    <3>1. ASSUME NEW p \in SolvablePairs(occ) PROVE g[occ \ Range(p)] = h[occ \ Range(p)]
      BY <2>1, PairsWithin
    <3>2. CanPeel(g, occ) = CanPeel(h, occ)
      BY <3>1 DEF CanPeel
    <3>3. QED
      BY <1>2, <3>2
  <2>2. QED
    BY <2>1 DEF LooksDown
<1>5. Solved(F, Layout, BOOLEAN)
  BY <1>1, <1>3, <1>4, RecursionSolved DEF Recursion
<1>6. PICK g \in [SUBSET Layout -> BOOLEAN] : g = F[g]
  BY <1>5 DEF Solved
<1> DEFINE Is(f) == f = [occ \in SUBSET Layout |->
                           \/ occ = {}
                           \/ /\ SolvablePairs(occ) # {}
                              /\ \A p \in SolvablePairs(occ) : f[occ \ Range(p)]]
<1>7. Peelable = CHOOSE f : Is(f)
  BY DEF Peelable
<1>8. ASSUME NEW f PROVE Is(f) <=> f = [occ \in SUBSET Layout |-> CanPeel(f, occ)]
  BY DEF CanPeel
<1> HIDE DEF Is
<1>9. Is(g)
  BY <1>6, <1>8 DEF F
<1>10. Is(Peelable)
  BY <1>7, <1>9
<1>11. Peelable = [occ \in SUBSET Layout |-> CanPeel(Peelable, occ)]
  BY <1>8, <1>10
<1>12. QED
  BY <1>11

\* A generator that is never left without two free positions finds a solution.
THEOREM MahjongGeneratorFinishes == Peelable[Layout] => Solutions[Layout] # {}
<1> DEFINE G == { occ \in SUBSET Layout : Peelable[occ] => Solutions[occ] # {} }
<1>1. \A occ \in SUBSET Layout : (\A U \in SUBSET occ : U # occ => U \in G) => occ \in G
  <2> SUFFICES ASSUME NEW occ \in SUBSET Layout, \A U \in SUBSET occ : U # occ => U \in G,
                      Peelable[occ]
               PROVE  Solutions[occ] # {}
    OBVIOUS
  <2>1. CanPeel(Peelable, occ) /\ Solutions[occ] = WalksFrom(Solutions, occ)
    BY PeelableIs, SolutionsWalk
  <2>2. CASE occ = {}
    BY <2>1, <2>2 DEF WalksFrom
  <2>3. CASE occ # {}
    <3>1. PICK p \in SolvablePairs(occ) : Peelable[occ \ Range(p)]
      BY <2>1, <2>3 DEF CanPeel
    <3>2. occ \ Range(p) \in SUBSET occ /\ occ \ Range(p) # occ
      BY PairsWithin
    <3>3. PICK rest : rest \in Solutions[occ \ Range(p)]
      BY <3>1, <3>2
    <3>4. PICK s : s \in Onward(p, Solutions[occ \ Range(p)])
      BY <3>3 DEF Onward
    <3> DEFINE all == { Onward(q, Solutions[occ \ Range(q)]) : q \in SolvablePairs(occ) }
    <3>5. Solutions[occ] = UNION all
      BY <2>1, <2>3 DEF WalksFrom
    <3>6. PICK R : R = Onward(p, Solutions[occ \ Range(p)])
      OBVIOUS
    <3>7. R \in all
      BY <3>6
    <3> HIDE DEF all
    <3>8. s \in UNION all
      BY <3>4, <3>6, <3>7
    <3>9. QED
      BY <3>5, <3>8
  <2>4. QED
    BY <2>2, <2>3
<1> HIDE DEF G
<1>2. Layout \in G
  BY <1>1, MahjongAssumption, FiniteDescent
<1>3. QED
  BY <1>2 DEF G

-----------------------------------------------------------------------------
(* Mahjong: when the generator is left with a pair to take.                    *)

LEMMA HighestOf ==
  ASSUME NEW T \in SUBSET Nat, IsFiniteSet(T), T # {}
  PROVE  \E m \in T : \A n \in T : n <= m
<1> DEFINE G == { U \in SUBSET T : U = {} \/ \E m \in U : \A n \in U : n <= m }
<1>1. \A U \in SUBSET T : (\A x \in U : U \ {x} \in G) => U \in G
  <2> SUFFICES ASSUME NEW U \in SUBSET T, \A x \in U : U \ {x} \in G, U # {}
               PROVE  \E m \in U : \A n \in U : n <= m
    OBVIOUS
  <2>1. PICK x \in U : x \in Nat
    OBVIOUS
  <2>2. CASE U = {x}
    <3>1. \A n \in U : n <= x
      BY <2>1, <2>2
    <3>2. QED
      BY <2>1, <3>1
  <2>3. CASE U # {x}
    <3>1. PICK m \in U \ {x} : \A n \in U \ {x} : n <= m
      <4>1. U \ {x} \in G /\ U \ {x} # {}
        BY <2>1, <2>3
      <4>2. QED
        BY <4>1
    <3>2. CASE x <= m
      BY <3>1, <3>2
    <3>3. CASE ~(x <= m)
      <4>1. \A n \in U \ {x} : n \in Nat /\ m \in Nat /\ n <= x
        BY <2>1, <3>1, <3>3
      <4>2. \A n \in U : n <= x
        BY <2>1, <4>1
      <4>3. QED
        BY <2>1, <4>2
    <3>4. QED
      BY <3>2, <3>3
  <2>4. QED
    BY <2>2, <2>3
<1> HIDE DEF G
<1>2. T \in G
  BY <1>1, FiniteSteps
<1>3. QED
  BY <1>2 DEF G

LEMMA TopIs ==
  ASSUME NEW occ \in SUBSET Layout, occ # {}
  PROVE  /\ TopOf(occ) # {} /\ TopOf(occ) \subseteq occ
         /\ \A p \in TopOf(occ), q \in occ :
              /\ p \in Nat \X Nat \X Nat /\ q \in Nat \X Nat \X Nat /\ q[3] <= p[3]
              /\ q \in TopOf(occ) <=> q[3] = p[3]
<1> DEFINE heights == { p[3] : p \in occ }
<1>1. \A p \in occ : p \in Nat \X Nat \X Nat
  BY MahjongAssumption
<1>2. IsFiniteSet(heights)
  <2>1. IsFiniteSet(occ)
    BY MahjongAssumption, FS_Subset
  <2>2. [p \in occ |-> p[3]] \in Surjection(occ, heights)
    BY DEF Surjection
  <2>3. QED
    BY <2>1, <2>2, FS_Surjection
<1>3. heights \in SUBSET Nat /\ heights # {}
  BY <1>1
<1>4. PICK z \in heights : \A n \in heights : n <= z
  <2> HIDE DEF heights
  <2>1. QED
    BY <1>2, <1>3, HighestOf
<1>5. Max(heights) \in heights /\ \A n \in heights : Max(heights) >= n
  <2>1. \A n \in heights : z >= n
    BY <1>3, <1>4
  <2> HIDE DEF heights
  <2>2. QED
    BY <1>4, <2>1 DEF Max
<1>6. TopOf(occ) = { p \in occ : p[3] = Max(heights) }
  BY DEF TopOf
<1>7. PICK m : m = Max(heights)
  OBVIOUS
<1>8. /\ m \in Nat /\ (\A p \in occ : p[3] <= m) /\ (\E p \in occ : p[3] = m)
      /\ TopOf(occ) = { p \in occ : p[3] = m }
  BY <1>3, <1>5, <1>6, <1>7
<1>9. QED
  BY <1>1, <1>8

\* Of the highest layer, the tile furthest to the left is free, and so is the one furthest
\* to the right.
LEMMA EndsAreFree ==
  ASSUME NEW occ \in SUBSET Layout, NEW l \in TopOf(occ),
         (\A t \in TopOf(occ) : l[1] <= t[1]) \/ (\A t \in TopOf(occ) : t[1] <= l[1])
  PROVE  l \in FreeIn(occ)
<1>1. occ # {} /\ l \in occ
  BY DEF TopOf
<1>2. \A q \in occ : /\ l \in Nat \X Nat \X Nat /\ q \in Nat \X Nat \X Nat /\ q[3] <= l[3]
                     /\ q \in TopOf(occ) <=> q[3] = l[3]
  BY <1>1, TopIs
<1>3. ~Covered(l, occ)
  BY <1>2 DEF Covered, Above
<1>4. CASE \A t \in TopOf(occ) : l[1] <= t[1]
  <2>1. SUFFICES ASSUME Blocked(l, occ, l[1] - 1) PROVE FALSE
    BY <1>1, <1>3 DEF FreeIn, IsFree
  <2>2. PICK q \in occ : q[3] = l[3] /\ (l[1] - 1) - q[1] \in {0, 1}
    BY <2>1 DEF Blocked
  <2>3. l[1] <= q[1] /\ l[1] \in Nat /\ q[1] \in Nat
    BY <1>2, <1>4, <2>2
  <2>4. QED
    BY <2>2, <2>3
<1>5. CASE \A t \in TopOf(occ) : t[1] <= l[1]
  <2>1. SUFFICES ASSUME Blocked(l, occ, l[1] + 2) PROVE FALSE
    BY <1>1, <1>3 DEF FreeIn, IsFree
  <2>2. PICK q \in occ : q[3] = l[3] /\ (l[1] + 2) - q[1] \in {0, 1}
    BY <2>1 DEF Blocked
  <2>3. q[1] <= l[1] /\ l[1] \in Nat /\ q[1] \in Nat
    BY <1>2, <1>5, <2>2
  <2>4. QED
    BY <2>2, <2>3
<1>6. QED
  BY <1>4, <1>5

\* Two tiles or more on the highest layer always leave the generator a pair: the case
\* that deal.ts:97-103 argues, for any layout.
THEOREM MahjongTopLayerPairs ==
  ASSUME NEW occ \in SUBSET Layout, NEW p \in TopOf(occ), NEW q \in TopOf(occ), p # q
  PROVE  \E a, b \in FreeIn(occ) \cap TopOf(occ) : a # b /\ <<a, b>> \in SolvablePairs(occ)
<1>1. occ # {}
  BY DEF TopOf
<1>2. PICK X : X = { t[1] : t \in TopOf(occ) }
  OBVIOUS
<1>3. TopOf(occ) \subseteq occ /\ \A t \in TopOf(occ) : t[1] \in Nat
  BY <1>1, TopIs
<1>4. X \in SUBSET Nat /\ X # {} /\ IsFiniteSet(X)
  <2>1. IsFiniteSet(TopOf(occ))
    BY <1>3, MahjongAssumption, FS_Subset
  <2>2. [t \in TopOf(occ) |-> t[1]] \in Surjection(TopOf(occ), X)
    BY <1>2 DEF Surjection
  <2>3. IsFiniteSet(X)
    BY <2>1, <2>2, FS_Surjection
  <2>4. QED
    BY <1>2, <1>3, <2>3
<1>5. PICK l \in TopOf(occ) : \A t \in TopOf(occ) : l[1] <= t[1]
  <2>1. PICK x \in X : \A y \in X : x <= y
    BY <1>4, LeastNumber
  <2>2. QED
    BY <1>2, <2>1
<1>6. PICK r \in TopOf(occ) : \A t \in TopOf(occ) : t[1] <= r[1]
  <2>1. PICK x \in X : \A y \in X : y <= x
    BY <1>4, HighestOf
  <2>2. QED
    BY <1>2, <2>1
<1>7. \E a, b \in FreeIn(occ) \cap TopOf(occ) : a # b
  <2>1. CASE l # r
    BY <1>5, <1>6, <2>1, EndsAreFree
  <2>2. CASE l = r
    <3>1. \A t, u \in TopOf(occ) : t[1] <= u[1]
      BY <1>3, <1>5, <1>6, <2>2
    <3>2. p \in FreeIn(occ) /\ q \in FreeIn(occ)
      BY <3>1, EndsAreFree
    <3>3. QED
      BY <3>2
  <2>3. QED
    BY <2>1, <2>2
<1>8. ASSUME NEW a \in FreeIn(occ) \cap TopOf(occ), NEW b \in FreeIn(occ) \cap TopOf(occ), a # b
      PROVE  <<a, b>> \in SolvablePairs(occ)
  BY <1>8 DEF SolvablePairs
<1>9. QED
  BY <1>7, <1>8

\* And the last layer of a board always comes off, whatever is drawn: deal.ts:110-112.
OneLayer(occ) == \A p, q \in occ : p[3] = q[3]

THEOREM MahjongLastLayerPeels ==
  \A occ \in SUBSET Layout : OneLayer(occ) /\ Cardinality(occ) % 2 = 0 => Peelable[occ]
<1> DEFINE G == { occ \in SUBSET Layout :
                    OneLayer(occ) /\ Cardinality(occ) % 2 = 0 => Peelable[occ] }
<1>1. \A occ \in SUBSET Layout : (\A U \in SUBSET occ : U # occ => U \in G) => occ \in G
  <2> SUFFICES ASSUME NEW occ \in SUBSET Layout, \A U \in SUBSET occ : U # occ => U \in G,
                      OneLayer(occ), Cardinality(occ) % 2 = 0
               PROVE  Peelable[occ]
    OBVIOUS
  <2>1. SUFFICES ASSUME occ # {} PROVE CanPeel(Peelable, occ)
    BY PeelableIs DEF CanPeel
  <2>2. IsFiniteSet(occ) /\ Cardinality(occ) \in Nat
    BY MahjongAssumption, FS_Subset, FS_CardinalityType
  <2>3. PICK p \in occ : TRUE
    BY <2>1
  <2>4. PICK q \in occ : q # p
    <3>1. ASSUME occ = {p} PROVE FALSE
      <4>1. Cardinality(occ) = 1
        BY <3>1, FS_Singleton
      <4>2. QED
        BY <4>1
    <3>2. QED
      BY <2>3, <3>1
  <2>5. p \in TopOf(occ) /\ q \in TopOf(occ)
    <3>1. PICK t \in TopOf(occ) : t \in occ
      BY <2>1, TopIs
    <3>2. p[3] = t[3] /\ q[3] = t[3]
      BY <3>1 DEF OneLayer
    <3>3. QED
      BY <2>1, <3>1, <3>2, TopIs
  <2>6. SolvablePairs(occ) # {}
    BY <2>4, <2>5, MahjongTopLayerPairs
  <2>7. ASSUME NEW d \in SolvablePairs(occ) PROVE Peelable[occ \ Range(d)]
    <3>1. /\ d[1] \in occ /\ d[2] \in occ /\ d[1] # d[2] /\ Range(d) = {d[1], d[2]}
      BY PairsWithin
    <3>2. PICK U, V : U = occ \ {d[1]} /\ V = U \ {d[2]}
      OBVIOUS
    <3>3. V = occ \ Range(d) /\ V \in SUBSET occ /\ V # occ /\ d[2] \in U
      BY <3>1, <3>2
    <3>4. IsFiniteSet(U) /\ Cardinality(U) = Cardinality(occ) - 1
      BY <2>2, <3>1, <3>2, FS_RemoveElement
    <3>5. IsFiniteSet(V) /\ Cardinality(V) = Cardinality(U) - 1
      <4>1. IsFiniteSet(U \ {d[2]}) /\ Cardinality(U \ {d[2]}) = Cardinality(U) - 1
        BY <3>3, <3>4, FS_RemoveElement
      <4>2. QED
        BY <3>2, <4>1
    <3>6. Cardinality(V) = Cardinality(occ) - 2
      BY <2>2, <3>4, <3>5
    <3>7. Cardinality(V) % 2 = 0
      <4>1. PICK c \in Nat : c = Cardinality(occ) /\ c % 2 = 0
        BY <2>2
      <4>2. PICK d2 \in Nat : d2 = Cardinality(V)
        BY <3>5, FS_CardinalityType
      <4>3. d2 = c - 2
        BY <3>6, <4>1, <4>2
      <4>4. d2 % 2 = 0
        BY <4>1, <4>3
      <4>5. QED
        BY <4>2, <4>4
    <3>8. OneLayer(V)
      BY <3>3 DEF OneLayer
    <3>9. V \in G
      BY <3>3
    <3>10. QED
      BY <3>3, <3>7, <3>8, <3>9
  <2>8. QED
    BY <2>6, <2>7 DEF CanPeel
<1> HIDE DEF G
<1>2. TAKE occ \in SUBSET Layout
<1>3. IsFiniteSet(Layout)
  BY MahjongAssumption
<1>4. \A U \in SUBSET Layout : U \in G
  BY <1>1, <1>3, FiniteDescent
<1>5. QED
  BY <1>4 DEF G

\* On a layout that can be peeled whatever is drawn, no deal is ever left half made, and
\* every board dealt can be cleared.
THEOREM MahjongDealSolvable ==
  ASSUME Peelable[Layout] PROVE MahjongSpec => []DealSolvable
<1>1. (laid /\ Occupied = Layout => Clearable(tiles)) => DealSolvable
  BY DEF DealSolvable
<1>2. QED
  BY <1>1, MahjongBoardsClear, PTL

-----------------------------------------------------------------------------
(* The four games together.                                                  *)

\* A match is of one game, and the other three stand still: what is proved of each
\* game by itself holds of every match.
LEMMA OneGameAtATime ==
  [GamesNext]_gamesVars =>
    /\ [TrucoNext]_trucoVars /\ [EscobaNext]_escobaVars
    /\ [GeneralaNext]_generalaVars /\ [MahjongNext]_mahjongVars
<1> SUFFICES ASSUME [GamesNext]_gamesVars
             PROVE  /\ [TrucoNext]_trucoVars /\ [EscobaNext]_escobaVars
                    /\ [GeneralaNext]_generalaVars /\ [MahjongNext]_mahjongVars
  OBVIOUS
<1>1. BotsNext => TrucoNext
  BY DEF BotsNext, Flash, TrucoNext
<1>2. CASE GamesNext
  BY <1>1, <1>2 DEF GamesNext, PlayTruco, PlayEscoba, PlayGenerala, PlayMahjong
<1>3. CASE UNCHANGED gamesVars
  BY <1>3 DEF gamesVars
<1>4. QED
  BY <1>2, <1>3

THEOREM GamesAreTheirGames ==
  GamesSpec => TrucoSpec /\ EscobaSpec /\ GeneralaSpec /\ MahjongSpec
<1>1. GamesInit => TrucoInit /\ EscobaInit /\ GeneralaInit /\ MahjongInit
  BY DEF GamesInit, BotsInit
<1>2. QED
  BY <1>1, OneGameAtATime, PTL DEF GamesSpec, TrucoSpec, EscobaSpec, GeneralaSpec, MahjongSpec

LEMMA GameIdStays == playing \in GameIds /\ [GamesNext]_gamesVars => (playing \in GameIds)'
  BY DEF gamesVars, GamesNext, PlayTruco, PlayEscoba, PlayGenerala, PlayMahjong

GamesInv == playing \in GameIds /\ TrucoPortInv /\ EscobaInv /\ GeneralaInv /\ MahjongInv

LEMMA GamesInvariant == GamesSpec => []GamesInv
<1>1. GamesInit => GamesInv
  BY TrucoPortInit, EscobaInitInv, GeneralaInitInv, MahjongInitInv
     DEF GamesInit, BotsInit, GamesInv
<1>2. GamesInv /\ [GamesNext]_gamesVars => GamesInv'
  BY OneGameAtATime, GameIdStays, TrucoPortStep, EscobaStepInv, GeneralaStepInv, MahjongStepInv
     DEF GamesInv
<1>3. QED
  BY <1>1, <1>2, PTL DEF GamesSpec

LEMMA PortIsSound == GamesInv => Port!Sound
<1> SUFFICES ASSUME GamesInv PROVE Port!Sound
  OBVIOUS
<1>1. CASE playing = "truco"
  BY <1>1, TrucoKeepsPort DEF GamesInv, Port!Sound, Port!Stages, Stage, Actors
<1>2. CASE playing = "escoba"
  BY <1>2, EscobaKeepsPort DEF GamesInv, Port!Sound, Port!Stages, Stage, Actors
<1>3. CASE playing = "generala"
  BY <1>3, GeneralaKeepsPort DEF GamesInv, Port!Sound, Port!Stages, Stage, Actors
<1>4. CASE playing = "mahjong"
  BY <1>4, MahjongKeepsPort DEF GamesInv, Port!Sound, Port!Stages, Stage, Actors
<1>5. QED
  BY <1>1, <1>2, <1>3, <1>4 DEF GamesInv, GameIds

\* Nothing moves a match that is over.
LEMMA OverIsOver == GamesInv /\ GamesNext => Stage # "over"
<1> SUFFICES ASSUME GamesInv, GamesNext PROVE Stage # "over"
  OBVIOUS
<1>1. CASE PlayTruco
  BY <1>1, TrucoKeepsPort DEF GamesInv, PlayTruco, Stage
<1>2. CASE PlayEscoba
  BY <1>2, EscobaKeepsPort DEF GamesInv, PlayEscoba, Stage
<1>3. CASE PlayGenerala
  BY <1>3, GeneralaKeepsPort DEF GamesInv, PlayGenerala, Stage
<1>4. CASE PlayMahjong
  BY <1>4, MahjongKeepsPort DEF GamesInv, PlayMahjong, Stage
<1>5. QED
  BY <1>1, <1>2, <1>3, <1>4 DEF GamesNext

LEMMA StageStands == UNCHANGED gamesVars => Stage' = Stage
<1> SUFFICES ASSUME UNCHANGED gamesVars PROVE Stage' = Stage
  OBVIOUS
<1>1. TrucoStage' = TrucoStage
  BY DEF gamesVars, trucoVars, TrucoStage, TrucoOver, MatchWinner, SystemDeals
<1>2. EscobaStage' = EscobaStage
  BY DEF gamesVars, escobaVars, EscobaStage, EscobaOver, EscobaWinner, EscobaDeals
<1>3. GeneralaStage' = GeneralaStage
  BY DEF gamesVars, generalaVars, GeneralaStage, GeneralaOver, SystemRolls, CardFull, Size
<1>4. MahjongStage' = MahjongStage
  <2>1. tiles' = tiles /\ laid' = laid /\ abandoned' = abandoned
    BY DEF gamesVars, mahjongVars
  <2>2. Occupied' = Occupied
    BY <2>1 DEF Occupied
  <2>3. Pairs' = Pairs
    BY <2>1, <2>2 DEF Pairs
  <2>4. QED
    BY <2>1, <2>3 DEF MahjongStage, MahjongOver, SystemLays
<1>5. playing' = playing
  BY DEF gamesVars
<1>6. QED
  BY <1>1, <1>2, <1>3, <1>4, <1>5 DEF Stage

\* Every match of every game keeps the platform's bargain (platform-contract/src/
\* contract.ts): it is the system's move exactly when no seat is offered anything, some
\* seat is offered something whenever the system has nothing to do, and a match that is
\* over never goes on.
THEOREM GamesKeepPort == GamesSpec => KeepsPort
<1>1. GamesInit /\ GamesInv => Port!Init
  <2> SUFFICES ASSUME GamesInit, GamesInv PROVE Stage = "system"
    BY PortIsSound DEF Port!Init
  <2>1. CASE playing = "truco"
    <3>1. \A t \in Teams : ~(score[t] >= PointsToWin)
      BY TrucoAssumption DEF GamesInit, BotsInit, TrucoInit, Teams
    <3>2. MatchWinner = NoTeam /\ ~dealt
      BY <3>1 DEF MatchWinner, GamesInit, BotsInit, TrucoInit
    <3>3. QED
      BY <2>1, <3>2 DEF Stage, TrucoStage, TrucoOver, SystemDeals
  <2>2. CASE playing = "escoba"
    <3>1. EscobaWinner = ENobody /\ ephase = "none"
      BY DEF EscobaWinner, GamesInit, EscobaInit, ETeams
    <3>2. QED
      BY <2>2, <3>1 DEF Stage, EscobaStage, EscobaOver, EscobaDeals
  <2>3. CASE playing = "generala"
    <3>1. gphase = "awaiting-roll" /\ Size(dice) = 0
      BY EmptyHand DEF GamesInit, GeneralaInit
    <3>2. ~CardFull(gcards[0])
      BY GeneralaAssumption DEF GamesInit, GeneralaInit, CardFull
    <3>3. ~GeneralaOver
      BY <3>1, <3>2 DEF GeneralaOver, GSeats
    <3>4. QED
      BY <2>3, <3>1, <3>3 DEF Stage, GeneralaStage, SystemRolls
  <2>4. CASE playing = "mahjong"
    BY <2>4 DEF Stage, MahjongStage, MahjongOver, SystemLays, GamesInit, MahjongInit
  <2>5. QED
    BY <2>1, <2>2, <2>3, <2>4 DEF GamesInv, GameIds
<1>2. GamesInv /\ Port!Sound /\ Port!Sound' /\ [GamesNext]_gamesVars
        => [Port!Next]_<<Stage, Actors>>
  <2> SUFFICES ASSUME GamesInv, Port!Sound, Port!Sound', [GamesNext]_gamesVars
               PROVE  [Port!Next]_<<Stage, Actors>>
    OBVIOUS
  <2>1. CASE Stage # "over"
    BY <2>1 DEF Port!Next, Port!SystemMove, Port!SeatMove, Port!Sound, Port!Stages
  <2>2. CASE Stage = "over"
    <3>1. Stage' = Stage
      BY <2>2, OverIsOver, StageStands
    <3>2. Actors' = {} /\ Actors = {}
      BY <2>2, <3>1 DEF Port!Sound
    <3>3. QED
      BY <3>1, <3>2
  <2>3. QED
    BY <2>1, <2>2
<1>3. QED
  BY <1>1, <1>2, GamesInvariant, PortIsSound, PTL DEF GamesSpec, KeepsPort, Port!Spec

-----------------------------------------------------------------------------
(* Types, and what each game promises, of every match.                       *)

LEMMA MahjongTypes == MahjongSpec => []MahjongTypeOK
<1>1. MahjongInit => MahjongTypeOK
  BY DEF MahjongInit, MahjongTypeOK
<1>2. Boards \subseteq [Layout -> WallFaces \cup {NoTile}]
  BY BoardsTyped
<1>3. MahjongTypeOK /\ [MahjongNext]_mahjongVars => MahjongTypeOK'
  BY <1>2 DEF MahjongTypeOK, MahjongNext, mahjongVars, LayBoard, RemovePair, Abandon
<1>4. QED
  BY <1>1, <1>3, PTL DEF MahjongSpec

\* Every field of every game keeps its type: hands and piles hold cards, a card of
\* generala never goes back to an open box, five dice and three throws are never
\* exceeded, and nothing but faces of the wall is ever on the board.
THEOREM GamesWellTyped == GamesSpec => []GamesTypeOK
<1>1. GamesInv => playing \in GameIds /\ TrucoTypeOK /\ EscobaTypeOK /\ GeneralaTypeOK
  <2>1. GeneralaInv => GeneralaTypeOK
    BY DEF GeneralaInv, TurnOK, GeneralaTypeOK
  <2>2. QED
    BY <2>1, HandInvTypes, EscobaInvTypes DEF GamesInv, TrucoPortInv
<1>2. GamesSpec => []MahjongTypeOK
  BY MahjongTypes, GamesAreTheirGames, PTL
<1>3. QED
  BY <1>1, <1>2, GamesInvariant, PTL DEF GamesTypeOK

\* In every match of every game: one side at most at the target of truco, a hand decided
\* by its tricks, an envido won on the numbers dealt, no card of escoba lost, and a card
\* of generala filled in order.
THEOREM GamesKeepTheirRules ==
  GamesSpec => [](OneWinner /\ TricksDecide /\ EnvidoIsFair /\ CardsKept /\ CardFilledInOrder)
  BY GamesAreTheirGames, TrucoOneWinner, TrucoTricksDecide, TrucoEnvidoIsFair, EscobaCardsKept,
     GeneralaFilledInOrder, PTL

\* A hand of truco pays once in every match, and nothing in a match of another game; and
\* a call is gone on with by the side it waits for alone.
THEOREM GamesSettleCalls == GamesSpec => CallsRunTheirCourse
  BY GamesAreTheirGames, TrucoHandPaysOnce, TrucoOnlyTheAskedGoOn, PTL DEF CallsRunTheirCourse

\* And so in every match of the platform.
THEOREM BotsReadEveryTable == GamesSpec => []TrucoBotsRight
<1>1. GamesInit => BotsInit
  BY DEF GamesInit
<1>2. [GamesNext]_gamesVars => [BotsNext]_<<trucoVars, watched>>
  BY DEF GamesNext, PlayTruco, PlayEscoba, PlayGenerala, PlayMahjong, gamesVars
<1>3. QED
  BY <1>1, <1>2, BotsReadTheTable, PTL DEF GamesSpec, BotsSpec

\* What escoba offers is what its rules say, and what its hard bot calls safe is safe, in
\* every match of the platform.
THEOREM GamesOfferByTheRules == GamesSpec => [](OffersAreTheRules /\ RiskIsSound)
  BY GamesAreTheirGames, EscobaOffersFollowRules, EscobaRiskIsSound, PTL

\* And every board dealt there can be cleared, on a layout that can be peeled.
THEOREM GamesDealSolvable ==
  ASSUME Peelable[Layout] PROVE GamesSpec => []DealSolvable
  BY GamesAreTheirGames, MahjongDealSolvable, PTL

\* What the bots of the four games reckon is right, in every match of the platform.
THEOREM BotsReckonRightEverywhere == GamesSpec => []BotsReckonRight
<1>1. RiskIsSound /\ HoldsPricedRight /\ TrucoBotsRight => BotsReckonRight
  BY DEF BotsReckonRight
<1>2. QED
  BY <1>1, GamesAreTheirGames, EscobaRiskIsSound, GeneralaHoldsPricedRight, BotsReadEveryTable,
     PTL
=============================================================================
