-------------------------------- MODULE Mahjong --------------------------------
(***************************************************************************)
(* Mahjong solitaire: packages/games/mahjong-solitaire-engine, and the     *)
(* generator and GameModule of packages/games/mahjong-solitaire-module.    *)
(*                                                                         *)
(* One player takes pairs of free, matching tiles off a stack.  The stack  *)
(* is dealt backwards from a solution: positions are peeled two by two,    *)
(* each two free together, and faces are handed to them pair by pair.      *)
(* A position is where a tile's two by two footprint starts, <<x, y, z>>,  *)
(* in half tiles; the wall is given as the faces of each match key.        *)
(***************************************************************************)
EXTENDS Integers, Sequences, FiniteSets, FiniteSetsExt, SequencesExt

CONSTANTS
  Layout,   \* LAYOUT, as a set of positions
  Wall      \* the pools of idsByMatchKey: for every match key, its faces in order

MatchKeys == DOMAIN Wall
WallFaces == UNION { Range(Wall[k]) : k \in MatchKeys }

ASSUME MahjongAssumption ==
  /\ Layout \subseteq Nat \X Nat \X Nat /\ IsFiniteSet(Layout)
  /\ \A k \in MatchKeys : Wall[k] \in Seq(WallFaces) /\ Len(Wall[k]) % 2 = 0
  /\ \A k, l \in MatchKeys : k # l => Range(Wall[k]) \cap Range(Wall[l]) = {}
  /\ Cardinality(Layout) = MapThenSumSet(LAMBDA k : Len(Wall[k]), MatchKeys)

VARIABLES
  tiles,      \* board.tiles: the face on each position, NoTile where there is none
  laid,       \* board is not null
  abandoned   \* abandoned

mahjongVars == <<tiles, laid, abandoned>>

NoTile == "no-tile"
Occupied == { p \in Layout : tiles[p] # NoTile }

-----------------------------------------------------------------------------
(* Freedom. *)

Above(p, q)   == q[3] > p[3]
Overlap(a, b) == a - b \in -1 .. 1

\* coveredFromAbove: by any higher layer
Covered(p, occ) ==
  \E q \in occ : Above(p, q) /\ Overlap(p[1], q[1]) /\ Overlap(p[2], q[2])

\* blocksColumn
Blocked(p, occ, column) ==
  \E q \in occ \ {p} : q[3] = p[3] /\ column - q[1] \in {0, 1} /\ Overlap(p[2], q[2])

\* isFree
IsFree(p, occ) ==
  /\ ~Covered(p, occ)
  /\ ~Blocked(p, occ, p[1] - 1) \/ ~Blocked(p, occ, p[1] + 2)

FreeIn(occ) == { p \in occ : IsFree(p, occ) }

-----------------------------------------------------------------------------
(* The deal. *)

TopOf(occ) == LET z == Max({ p[3] : p \in occ }) IN { p \in occ : p[3] = z }

\* takeSolvablePair: two free positions of the top layer, or its only free one and
\* any other that is free
SolvablePairs(occ) ==
  LET top == FreeIn(occ) \cap TopOf(occ)
      partners == IF Cardinality(top) >= 2 THEN top ELSE FreeIn(occ)
  IN  { p \in top \X partners : p[1] # p[2] }

\* shuffledPairKeys: every order of the wall's pairs, pairKeys
PairOrders ==
  LET n == Cardinality(Layout) \div 2
  IN  { o \in [1 .. n -> MatchKeys] :
          \A k \in MatchKeys : 2 * Cardinality({ i \in 1 .. n : o[i] = k }) = Len(Wall[k]) }

\* generateDeal: the solutions it may walk, each an order of pairs that empties occ
Solutions[occ \in SUBSET Layout] ==
  IF occ = {} THEN {<<>>}
  ELSE UNION { { <<p>> \o rest : rest \in Solutions[occ \ Range(p)] } : p \in SolvablePairs(occ) }

\* The board a solution and an order of keys make: the faces of a key are taken
\* from the end of its pool, two for each of its pairs.
Placements(order, solution) ==
  LET used(i) == 2 * Cardinality({ j \in 1 .. i - 1 : order[j] = order[i] })
      face(i, n) == LET pool == Wall[order[i]] IN pool[Len(pool) - used(i) - n + 1]
  IN  [p \in Layout |->
         LET i == CHOOSE j \in DOMAIN order : p \in Range(solution[j])
         IN  face(i, IF solution[i][1] = p THEN 1 ELSE 2)]

Boards == { Placements(o, s) : o \in PairOrders, s \in Solutions[Layout] }

-----------------------------------------------------------------------------
(* Play. *)

\* Seeded fault: a face pairs only with its own name.
SameFace(f, g) == f = g

\* matchKey: any flower with any flower, and every other face with its copies
Matches(f, g) == \E k \in MatchKeys : {f, g} \subseteq Range(Wall[k])

\* getLegalActions
Pairs == { P \in SUBSET FreeIn(Occupied) :
             \E p, q \in P : p # q /\ P = {p, q} /\ Matches(tiles[p], tiles[q]) }

\* getOutcome: cleared, stuck, or walked away from
MahjongOver == abandoned \/ (laid /\ Pairs = {})
\* requestMahjongSolitaireSystemAction
SystemLays == ~laid /\ ~MahjongOver

MahjongActors == IF abandoned \/ Pairs = {} THEN {} ELSE {0}
MahjongStage == IF MahjongOver THEN "over" ELSE IF SystemLays THEN "system" ELSE "seats"

MahjongInit ==
  /\ tiles = [p \in Layout |-> NoTile]
  /\ laid = FALSE /\ abandoned = FALSE

\* applyAction of a deal-board
LayBoard(d) ==
  /\ SystemLays
  /\ tiles' = d /\ laid' = TRUE
  /\ UNCHANGED abandoned

\* applyAction of a remove-pair
RemovePair(P) ==
  /\ ~MahjongOver /\ P \in Pairs
  /\ tiles' = [p \in Layout |-> IF p \in P THEN NoTile ELSE tiles[p]]
  /\ UNCHANGED <<laid, abandoned>>

\* getAbandonedSeatAction, which the room applies when the seat is given up
Abandon ==
  /\ ~MahjongOver
  /\ abandoned' = TRUE
  /\ UNCHANGED <<tiles, laid>>

MahjongNext ==
  \/ \E d \in Boards : LayBoard(d)
  \/ \E P \in Pairs : RemovePair(P)
  \/ Abandon

MahjongSpec == MahjongInit /\ [][MahjongNext]_mahjongVars

-----------------------------------------------------------------------------
(* Properties. *)

MahjongTypeOK ==
  /\ tiles \in [Layout -> WallFaces \cup {NoTile}]
  /\ laid \in BOOLEAN /\ abandoned \in BOOLEAN

\* Whatever the generator draws, it is never left without two free positions (the
\* case its own comment calls measured and not proved, deal.ts:104-107), and the
\* board it hands over can be cleared by pairs the rules offer, the flowers and
\* the seasons included.
Peelable[occ \in SUBSET Layout] ==
  \/ occ = {}
  \/ /\ SolvablePairs(occ) # {}
     /\ \A p \in SolvablePairs(occ) : Peelable[occ \ Range(p)]
Clearable(board) ==
  LET clear[occ \in SUBSET Layout] ==
        \/ occ = {}
        \/ \E p, q \in FreeIn(occ) :
             p # q /\ Matches(board[p], board[q]) /\ clear[occ \ {p, q}]
  IN  clear[Layout]
DealSolvable == IF laid THEN Occupied = Layout => Clearable(tiles) ELSE Peelable[Layout]
=============================================================================
