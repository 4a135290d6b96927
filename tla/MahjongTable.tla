------------------------------ MODULE MahjongTable ------------------------------
(***************************************************************************)
(* The solitaire board on its player's screen: elements added and removed  *)
(* in place (mahjong-solitaire-ui/src/board.ts), two presses to a move     *)
(* (pair-selection.ts), the time it has taken (chronometer.ts,             *)
(* elapsed-readout.ts) and the panel that ends it (match-over-view.ts), as *)
(* game-ui-registry.ts, createMahjongRenderer, holds them together.  The   *)
(* match is the one of Mahjong.  Time is counted in ticks of the readout.  *)
(***************************************************************************)
EXTENDS Mahjong, GameTable

CONSTANT MaxTime   \* bound on the ticks of a match

ASSUME ChronometerAssumption == MaxTime \in Nat

NoTime == -1
NoPlace == <<>>

VARIABLES
  selected,   \* selected: the position pressed first, NoPlace if none
  msent,      \* pairs on their way to the room
  drawn,      \* elements: the positions a tile is drawn on
  shown,      \* highlighted: the position whose element wears the mark
  chron,      \* the chronometer: running (or null, for a match taken up again), its
              \* startedAt and finishedAt, and what the readout and the panel say
  now

mTableVars == <<selected, msent, drawn, shown, chron, now>>
mScreenVars == <<mahjongVars, mTableVars>>

\* createChronometer
Chronometer(resumed) ==
  [running |-> ~resumed, start |-> now, finish |-> NoTime, readout |-> NoTime, panel |-> NoTime]

\* finish: finishedAt is taken once
Finish(c) ==
  LET at == IF c.finish = NoTime THEN now ELSE c.finish
  IN  [c EXCEPT !.finish = at, !.panel = at - c.start]

\* elapsed
Elapsed(c, t) == (IF c.finish = NoTime THEN t ELSE c.finish) - c.start

StillThere(occ) == IF selected \in occ THEN selected ELSE NoPlace

\* highlight, over the elements there are
Mark1(place, places) == IF place \in places THEN place ELSE NoPlace

\* What painting a view does: elements whose tile went are taken out, or all are
\* drawn anew, and the mark is put where the selection is.
MPaint ==
  /\ selected' = StillThere(Occupied')
  /\ drawn' = IF drawn = {} THEN Occupied' ELSE drawn \cap Occupied'
  /\ shown' = Mark1(selected', drawn')
  /\ chron' = IF MahjongOver' /\ chron.running THEN Finish(chron) ELSE chron
  /\ UNCHANGED now

-----------------------------------------------------------------------------
\* onPickTile, resolvePress
SamePlace(p)  == selected = p
OfferedWith(p) == selected # NoPlace /\ {selected, p} \in Pairs

Press(p) ==
  /\ p \in drawn /\ ~MahjongOver
  /\ \/ \* the second of a pair that is offered
        /\ ~SamePlace(p) /\ OfferedWith(p) /\ MayPress(msent)
        /\ msent' = Append(msent, {selected, p})
        /\ selected' = NoPlace
        /\ UNCHANGED shown
     \/ \* anything else: the first press, if the tile can be lifted, or no selection
        /\ SamePlace(p) \/ ~OfferedWith(p)
        /\ selected' = IF selected = NoPlace /\ IsFree(p, Occupied) THEN p ELSE NoPlace
        /\ shown' = Mark1(selected', drawn)
        /\ UNCHANGED msent
  /\ UNCHANGED <<mahjongVars, drawn, chron, now>>

\* The pair gets to the room: taken off, or action-rejected.
MArrives ==
  /\ msent # <<>>
  /\ msent' = Tail(msent)
  /\ \/ RemovePair(Head(msent)) /\ MPaint
     \/ /\ MahjongOver \/ Head(msent) \notin Pairs
        /\ UNCHANGED <<mahjongVars, selected, drawn, shown, chron, now>>

\* The board is dealt, or the seat given up.
MLays == (\E d \in Boards : LayBoard(d)) /\ UNCHANGED msent /\ MPaint
MAbandons == Abandon /\ UNCHANGED msent /\ MPaint

\* A view of a match that has not moved.
MViewAgain == UNCHANGED <<mahjongVars, msent>> /\ MPaint

\* The page is loaded again and the match taken up by a new renderer.
MTakenUp ==
  /\ chron' = Chronometer(TRUE)
  /\ selected' = NoPlace /\ msent' = <<>> /\ shown' = NoPlace
  /\ drawn' = Occupied
  /\ UNCHANGED <<mahjongVars, now>>

\* The tick of the readout.
MTicks ==
  /\ now < MaxTime
  /\ now' = now + 1
  /\ chron' = IF ~chron.running THEN chron
              ELSE [chron EXCEPT !.readout = Elapsed(chron, now')]
  /\ UNCHANGED <<mahjongVars, selected, msent, drawn, shown>>

MTableInit ==
  /\ MahjongInit
  /\ selected = NoPlace /\ msent = <<>> /\ drawn = {} /\ shown = NoPlace /\ now = 0
  /\ chron = [running |-> TRUE, start |-> 0, finish |-> NoTime, readout |-> 0, panel |-> NoTime]

MTableNext ==
  \/ \E p \in Layout : Press(p)
  \/ MArrives \/ MLays \/ MAbandons \/ MViewAgain \/ MTakenUp \/ MTicks

MTableSpec == MTableInit /\ [][MTableNext]_mScreenVars

-----------------------------------------------------------------------------
(* Properties. *)

MTableTypeOK ==
  /\ {selected, shown} \subseteq Layout \cup {NoPlace}
  /\ msent \in Seq(SUBSET Layout) /\ drawn \subseteq Layout
  /\ now \in 0 .. MaxTime /\ chron.running \in BOOLEAN
  /\ {chron.start, chron.finish, chron.readout, chron.panel} \subseteq NoTime .. MaxTime

\* What is drawn is the board, what is selected can be lifted, and a tile that wears
\* the mark is selected or in a move on its way, across pairs taken off, pressed twice or refused (board.ts:158-186,
\* game-ui-registry.ts "a mark cannot outlive the tile it is on").
SelectionLives ==
  /\ drawn = Occupied
  /\ selected # NoPlace => selected \in FreeIn(Occupied)
  /\ shown \notin {selected, NoPlace} => msent # <<>>

\* The time a match took is said once and for all: however often the panel is
\* painted, and whatever the readout says after it (chronometer.ts:176-182).
TimeStands == chron.panel # NoTime => chron.readout <= chron.panel
=============================================================================
