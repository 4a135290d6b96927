------------------------------ MODULE ScreensProofs ------------------------------
(***************************************************************************)
(* What stays true of every screen: the player's page, the tables of the   *)
(* four games and the admin panel.  Each has an inductive invariant of its *)
(* own, and no step of one touches another.                                *)
(***************************************************************************)
EXTENDS Screens, GamesProofs, FunctionTheorems

-----------------------------------------------------------------------------
(* The solitaire board.                                                      *)

LEMMA NoPlaceIsNone == NoPlace \notin Layout
<1> SUFFICES ASSUME NoPlace \in Layout PROVE FALSE
  OBVIOUS
<1>1. NoPlace \in Nat \X Nat \X Nat
  BY MahjongAssumption
<1>2. PICK x \in Nat, y \in Nat, z \in Nat : NoPlace = <<x, y, z>>
  BY <1>1
<1>3. Len(NoPlace) = 0
  BY DEF NoPlace
<1>4. QED
  BY <1>2, <1>3

\* A tile that can be lifted can still be when others are gone.
LEMMA StillFree ==
  ASSUME NEW occ, NEW fewer \in SUBSET occ, NEW p \in fewer, p \in FreeIn(occ)
  PROVE  p \in FreeIn(fewer)
<1>1. IsFree(p, occ)
  BY DEF FreeIn
<1>2. ~Covered(p, fewer)
  BY <1>1 DEF IsFree, Covered
<1>3. \A column : ~Blocked(p, occ, column) => ~Blocked(p, fewer, column)
  BY DEF Blocked
<1>4. IsFree(p, fewer)
  BY <1>1, <1>2, <1>3 DEF IsFree
<1>5. QED
  BY <1>4 DEF FreeIn

\* The board is drawn as it stands, and what is selected can be lifted.
BoardDrawn ==
  /\ drawn = Occupied
  /\ selected # NoPlace => selected \in FreeIn(Occupied)

\* A mark that is not on the selection is of the last pair sent, which is offered yet.
MarkSent ==
  /\ msent \in Seq(SUBSET Layout) /\ shown \in Layout \cup {NoPlace}
  /\ shown \notin {selected, NoPlace} =>
       msent # <<>> /\ msent[Len(msent)] \in Pairs /\ ~MahjongOver

\* The panel is painted with the time that is taken then, which the readout never passes.
ChronOK ==
  /\ now \in 0 .. MaxTime
  /\ chron \in [running : BOOLEAN, start : Int, finish : Int, readout : Int, panel : Int]
  /\ chron.start \in 0 .. now /\ chron.readout \in NoTime .. now - chron.start
  /\ chron.finish = NoTime => chron.panel = NoTime
  /\ chron.finish # NoTime => /\ chron.finish \in chron.start .. now
                              /\ chron.panel = chron.finish - chron.start
                              /\ chron.readout <= chron.panel

MTableInv == MahjongInv /\ BoardDrawn /\ MarkSent /\ ChronOK

LEMMA MTableInitInv == MTableInit => MTableInv
<1> SUFFICES ASSUME MTableInit PROVE MTableInv
  OBVIOUS
<1>1. MahjongInv
  BY MahjongInitInv DEF MTableInit
<1>2. Occupied = {}
  BY DEF MTableInit, MahjongInit, Occupied
<1>3. QED
  BY <1>1, <1>2, ChronometerAssumption
  DEF MTableInit, MTableInv, BoardDrawn, MarkSent, ChronOK, NoTime

\* The chronometer keeps its word whether or not the view that is painted ends a match.
LEMMA PaintKeepsChron ==
  ASSUME ChronOK, MPaint
  PROVE  ChronOK'
<1>1. now' = now
  BY DEF MPaint
<1>2. CASE chron' = chron
  BY <1>1, <1>2 DEF ChronOK
<1>3. CASE chron' = Finish(chron)
  <2>1. PICK at : at = IF chron.finish = NoTime THEN now ELSE chron.finish
    OBVIOUS
  <2>2. at \in chron.start .. now /\ chron.readout <= at - chron.start
    BY <2>1 DEF ChronOK, NoTime
  <2>3. chron' = [chron EXCEPT !.finish = at, !.panel = at - chron.start]
    BY <1>3, <2>1 DEF Finish
  <2>4. /\ chron' \in [running : BOOLEAN, start : Int, finish : Int, readout : Int, panel : Int]
        /\ chron'.start = chron.start /\ chron'.readout = chron.readout
        /\ chron'.finish = at /\ chron'.panel = at - chron.start
    <3>1. at \in Int /\ at - chron.start \in Int
      BY <2>2 DEF ChronOK
    <3>2. PICK took \in Int : took = at - chron.start
      BY <3>1
    <3>3. QED
      BY <2>3, <3>1, <3>2 DEF ChronOK
  <2>5. QED
    BY <1>1, <2>2, <2>4 DEF ChronOK, NoTime
<1>4. QED
  BY <1>2, <1>3 DEF MPaint

LEMMA PaintKeepsMark ==
  ASSUME NoPlace \notin Layout, Occupied' \subseteq Layout, drawn = Occupied,
         drawn # {} => Occupied' \subseteq Occupied,
         selected # NoPlace => selected \in FreeIn(Occupied), MPaint
  PROVE  /\ BoardDrawn' /\ shown' \in {selected', NoPlace} /\ shown' \in Layout \cup {NoPlace}
<1>1. drawn' = Occupied'
  BY DEF MPaint
<1>2. ASSUME selected' # NoPlace PROVE selected' \in FreeIn(Occupied')
  <2>1. selected' = selected /\ selected \in Occupied' /\ selected \in FreeIn(Occupied)
    BY <1>2 DEF MPaint, StillThere
  <2>2. Occupied' \subseteq Occupied
    BY <2>1 DEF FreeIn
  <2>3. QED
    BY <2>1, <2>2, StillFree
<1>3. QED
  BY <1>1, <1>2 DEF MPaint, Mark1, BoardDrawn

LEMMA MTableStepInv == MTableInv /\ [MTableNext]_mScreenVars => MTableInv'
<1> SUFFICES ASSUME MTableInv, [MTableNext]_mScreenVars PROVE MTableInv'
  OBVIOUS
<1> USE NoPlaceIsNone
<1>0. Occupied \subseteq Layout /\ Occupied' \subseteq Layout
  BY DEF Occupied
<1>1. ASSUME NEW p \in Layout, Press(p) PROVE MTableInv'
  <2>1. UNCHANGED <<mahjongVars, Occupied, FreeIn(Occupied), Pairs, MahjongOver, drawn, chron, now>>
    BY <1>1 DEF Press, mahjongVars, Occupied, FreeIn, IsFree, Covered, Blocked, Above, Overlap, Pairs,
                MahjongOver, Matches
  <2>2. MahjongInv' /\ ChronOK'
    BY <2>1 DEF MTableInv, MahjongInv, ChronOK, mahjongVars
  <2>3. CASE /\ OfferedWith(p) /\ msent' = Append(msent, {selected, p})
             /\ selected' = NoPlace /\ shown' = shown
    <3>1. {selected, p} \in Pairs /\ ~MahjongOver /\ {selected, p} \in SUBSET Layout
      BY <1>0, <1>1, <2>3 DEF OfferedWith, Press, Pairs, FreeIn
    <3>2. /\ msent' \in Seq(SUBSET Layout) /\ msent' # <<>>
          /\ msent'[Len(msent')] = {selected, p}
      BY <2>3, <3>1 DEF MTableInv, MarkSent
    <3>3. BoardDrawn'
      BY <2>1, <2>3 DEF MTableInv, BoardDrawn
    <3>4. MarkSent'
      BY <2>1, <2>3, <3>1, <3>2 DEF MTableInv, MarkSent
    <3>5. QED
      BY <2>2, <3>3, <3>4 DEF MTableInv
  <2>4. CASE /\ selected' = IF selected = NoPlace /\ IsFree(p, Occupied) THEN p ELSE NoPlace
             /\ shown' = Mark1(selected', drawn) /\ msent' = msent
    <3>1. p \in Occupied
      BY <1>1 DEF Press, MTableInv, BoardDrawn
    <3>2. BoardDrawn'
      BY <2>1, <2>4, <3>1 DEF MTableInv, BoardDrawn, FreeIn
    <3>3. MarkSent'
      BY <1>0, <2>4, <3>1 DEF MTableInv, MarkSent, Mark1
    <3>4. QED
      BY <2>2, <3>2, <3>3 DEF MTableInv
  <2>5. QED
    BY <1>1, <2>3, <2>4 DEF Press
<1>2. ASSUME MahjongInv', MPaint, msent' \in Seq(SUBSET Layout), drawn # {} => Occupied' \subseteq Occupied
      PROVE  MTableInv'
  <2>1. ChronOK'
    BY <1>2, PaintKeepsChron DEF MTableInv
  <2>2. BoardDrawn' /\ MarkSent'
    BY <1>0, <1>2, PaintKeepsMark DEF MTableInv, BoardDrawn, MarkSent
  <2>3. QED
    BY <1>2, <2>1, <2>2 DEF MTableInv
<1>3. ASSUME MArrives PROVE MTableInv'
  <2>1. msent # <<>> /\ msent' = Tail(msent) /\ msent' \in Seq(SUBSET Layout)
    BY <1>3 DEF MArrives, MTableInv, MarkSent
  <2>2. CASE RemovePair(Head(msent)) /\ MPaint
    <3>1. MahjongInv'
      <4>1. Head(msent) \in Pairs
        BY <2>2 DEF RemovePair
      <4>2. MahjongNext
        BY <2>2, <4>1 DEF MahjongNext
      <4>3. QED
        BY <4>2, MahjongStepInv DEF MTableInv
    <3>2. Occupied' \subseteq Occupied
      BY <2>2 DEF RemovePair, Occupied
    <3>3. QED
      BY <1>2, <2>1, <2>2, <3>1, <3>2
  <2>3. CASE /\ MahjongOver \/ Head(msent) \notin Pairs
             /\ UNCHANGED <<mahjongVars, selected, drawn, shown, chron, now>>
    <3>1. UNCHANGED <<mahjongVars, Occupied, FreeIn(Occupied), Pairs, MahjongOver, drawn, chron, now>>
      BY <2>3 DEF mahjongVars, Occupied, FreeIn, IsFree, Covered, Blocked, Above, Overlap, Pairs,
                  MahjongOver, Matches
    <3>2. MahjongInv' /\ ChronOK' /\ BoardDrawn'
      BY <2>3, <3>1 DEF MTableInv, MahjongInv, ChronOK, mahjongVars, BoardDrawn
    <3>3. ASSUME shown \notin {selected, NoPlace}
          PROVE  msent' # <<>> /\ msent'[Len(msent')] = msent[Len(msent)]
      <4>1. msent[Len(msent)] \in Pairs /\ ~MahjongOver /\ Head(msent) \notin Pairs
        BY <2>3, <3>3 DEF MTableInv, MarkSent
      <4>2. Len(msent) > 1
        BY <2>1, <4>1 DEF MTableInv, MarkSent
      <4>3. QED
        BY <2>1, <4>2 DEF MTableInv, MarkSent
    <3>4. MarkSent'
      BY <2>1, <2>3, <3>1, <3>3 DEF MTableInv, MarkSent
    <3>5. QED
      BY <3>2, <3>4 DEF MTableInv
  <2>4. QED
    BY <1>3, <2>2, <2>3 DEF MArrives
<1>4. ASSUME MLays PROVE MTableInv'
  <2>1. MahjongNext /\ MPaint /\ msent' = msent
    BY <1>4 DEF MLays, MahjongNext
  <2>2. MahjongInv'
    BY <2>1, MahjongStepInv DEF MTableInv
  <2>3. drawn = {}
    BY <1>4 DEF MLays, LayBoard, SystemLays, MTableInv, MahjongInv, BoardDrawn
  <2>4. QED
    BY <1>2, <2>1, <2>2, <2>3 DEF MTableInv, MarkSent
<1>5. ASSUME MAbandons PROVE MTableInv'
  <2>1. MahjongNext /\ MPaint /\ msent' = msent /\ Occupied' = Occupied
    BY <1>5 DEF MAbandons, MahjongNext, Abandon, Occupied
  <2>2. MahjongInv'
    BY <2>1, MahjongStepInv DEF MTableInv
  <2>3. QED
    BY <1>2, <2>1, <2>2 DEF MTableInv, MarkSent
<1>6. ASSUME MViewAgain PROVE MTableInv'
  <2>1. MPaint /\ msent' = msent /\ Occupied' = Occupied /\ MahjongInv'
    BY <1>6 DEF MViewAgain, mahjongVars, Occupied, MTableInv, MahjongInv
  <2>2. QED
    BY <1>2, <2>1 DEF MTableInv, MarkSent
<1>7. ASSUME UNCHANGED mahjongVars PROVE UNCHANGED <<Occupied, FreeIn(Occupied), Pairs, MahjongOver>> /\ MahjongInv'
  BY <1>7 DEF mahjongVars, Occupied, FreeIn, IsFree, Covered, Blocked, Above, Overlap, Pairs,
              MahjongOver, Matches, MTableInv, MahjongInv
<1>8. ASSUME MTakenUp PROVE MTableInv'
  <2>1. BoardDrawn' /\ MarkSent'
    BY <1>7, <1>8 DEF MTakenUp, BoardDrawn, MarkSent
  <2>2. ChronOK'
    BY <1>8 DEF MTakenUp, Chronometer, ChronOK, NoTime, MTableInv
  <2>3. QED
    BY <1>7, <1>8, <2>1, <2>2 DEF MTakenUp, MTableInv
<1>9. ASSUME MTicks PROVE MTableInv'
  <2>1. BoardDrawn' /\ MarkSent'
    BY <1>7, <1>9 DEF MTicks, MTableInv, BoardDrawn, MarkSent
  <2>2. ChronOK'
    BY <1>9, ChronometerAssumption DEF MTicks, Elapsed, ChronOK, NoTime, MTableInv
  <2>3. QED
    BY <1>7, <1>9, <2>1, <2>2 DEF MTicks, MTableInv
<1>10. CASE UNCHANGED mScreenVars
  <2>1. BoardDrawn' /\ MarkSent' /\ ChronOK'
    BY <1>7, <1>10 DEF mScreenVars, mTableVars, MTableInv, BoardDrawn, MarkSent, ChronOK
  <2>2. QED
    BY <1>7, <1>10, <2>1 DEF mScreenVars, MTableInv
<1>11. QED
  BY <1>1, <1>3, <1>4, <1>5, <1>6, <1>8, <1>9, <1>10 DEF MTableNext

LEMMA MTableInvSays == MTableInv => SelectionLives /\ TimeStands /\ MTableTypeOK
<1> SUFFICES ASSUME MTableInv PROVE SelectionLives /\ TimeStands /\ MTableTypeOK
  OBVIOUS
<1>1. SelectionLives
  BY DEF MTableInv, BoardDrawn, MarkSent, SelectionLives
<1>2. TimeStands
  BY DEF MTableInv, ChronOK, TimeStands
<1>3. drawn \subseteq Layout /\ selected \in Layout \cup {NoPlace}
  BY DEF MTableInv, BoardDrawn, Occupied, FreeIn
<1>4. {chron.start, chron.finish, chron.readout, chron.panel} \subseteq NoTime .. MaxTime
  BY ChronometerAssumption DEF MTableInv, ChronOK, NoTime
<1>5. QED
  BY <1>1, <1>2, <1>3, <1>4 DEF MTableInv, MarkSent, ChronOK, MTableTypeOK

-----------------------------------------------------------------------------
(* The generala board.                                                       *)

\* What is held is of this throw, face by face.
TrayOK ==
  /\ held \in Tallies
  /\ held # NoDice => OfferedKeeps(Me) # {} /\ \A f \in Faces : held[f] <= dice[f]

\* The time of a throw counts as said when it was, and so does its warning.
ThrowClockOK ==
  /\ gclock \in [announced : BOOLEAN, warned : BOOLEAN, said : Nat, warnings : Nat]
  /\ gclock.said = IF gclock.announced THEN 1 ELSE 0
  /\ gclock.warnings = IF gclock.warned THEN 1 ELSE 0

GMoves == ({"hold"} \X Tallies) \cup ({"score"} \X Boxes)
NoticeOK ==
  /\ gsent \in Seq(GMoves)
  /\ {claimed, autoplayed, byBot} \subseteq 0 .. Doble
  /\ AutoplayIsTold

GTableInv == GeneralaInv /\ TrayOK /\ ThrowClockOK /\ NoticeOK

LEMMA GTableInitInv == GTableInit => GTableInv
<1> SUFFICES ASSUME GTableInit PROVE GTableInv
  OBVIOUS
<1>1. GeneralaInv
  BY GeneralaInitInv DEF GTableInit
<1>2. TrayOK
  BY EmptyHand DEF GTableInit, TrayOK
<1>3. ThrowClockOK
  BY DEF GTableInit, ThrowClockOK, Unheard
<1>4. NoticeOK
  BY DEF GTableInit, NoticeOK, AutoplayIsTold, Doble
<1>5. QED
  BY <1>1, <1>2, <1>3, <1>4 DEF GTableInv

LEMMA PaintKeepsClock ==
  ASSUME ThrowClockOK, NEW changed, NEW box, NEW fresh, GPaint(changed, box, fresh)
  PROVE  ThrowClockOK'
<1>1. PICK c : c = IF fresh THEN Unheard ELSE gclock
  OBVIOUS
<1>2. /\ c \in [announced : BOOLEAN, warned : BOOLEAN, said : Nat, warnings : Nat]
      /\ c.said = IF c.announced THEN 1 ELSE 0
      /\ c.warnings = IF c.warned THEN 1 ELSE 0
  BY <1>1 DEF ThrowClockOK, Unheard
<1>3. gclock' = IF OnTurn(Me)' THEN SayStart(c) ELSE c
  BY <1>1 DEF GPaint
<1>4. CASE gclock' = c
  BY <1>2, <1>4 DEF ThrowClockOK
<1>5. CASE ~c.announced /\ gclock' = [c EXCEPT !.announced = TRUE, !.said = @ + 1]
  <2>1. c.said = 0 /\ gclock' = [c EXCEPT !.announced = TRUE, !.said = 1]
    BY <1>2, <1>5
  <2>2. /\ gclock' \in [announced : BOOLEAN, warned : BOOLEAN, said : Nat, warnings : Nat]
        /\ gclock'.announced = TRUE /\ gclock'.said = 1
        /\ gclock'.warned = c.warned /\ gclock'.warnings = c.warnings
    BY <1>2, <2>1
  <2>3. QED
    BY <1>2, <2>2 DEF ThrowClockOK
<1>6. QED
  BY <1>3, <1>4, <1>5 DEF SayStart

\* A view with a new throw takes the marks away.
LEMMA PaintKeepsTray ==
  ASSUME NEW box, NEW fresh, GPaint(TRUE, box, fresh)
  PROVE  TrayOK'
  BY EmptyHand DEF GPaint, Marks, TrayOK

LEMMA PaintKeepsNotice ==
  ASSUME NoticeOK, NEW changed, NEW box \in 0 .. Doble, NEW fresh, GPaint(changed, box, fresh),
         gsent' \in Seq(GMoves),
         \/ byBot' = 0
         \/ box = 0 /\ byBot' = byBot
         \/ byBot' = box
  PROVE  NoticeOK'
<1>1. claimed' = claimed /\ autoplayed' = (IF box # claimed /\ box # 0 THEN box ELSE autoplayed)
  BY DEF GPaint, Stands
<1>2. {claimed', autoplayed', byBot'} \subseteq 0 .. Doble
  BY <1>1 DEF NoticeOK, Doble
<1>3. AutoplayIsTold'
  BY <1>1 DEF NoticeOK, AutoplayIsTold
<1>4. QED
  BY <1>2, <1>3 DEF NoticeOK

LEMMA GTableStepInv == GTableInv /\ [GTableNext]_gScreenVars => GTableInv'
<1> SUFFICES ASSUME GTableInv, [GTableNext]_gScreenVars PROVE GTableInv'
  OBVIOUS
<1>1. ASSUME NEW s, NEW k, Hold(s, k) PROVE GeneralaInv'
  <2>1. s \in GSeats
    BY <1>1 DEF Hold, OfferedKeeps, OnTurn, GTableInv, GeneralaInv, TurnOK
  <2>2. QED
    BY <1>1, <2>1, HoldKeeps DEF GTableInv
<1>2. ASSUME NEW s, NEW b, Score(s, b) PROVE GeneralaInv' /\ b \in Boxes
  <2>1. s \in GSeats /\ b \in Boxes
    BY <1>2 DEF Score, OfferedBoxes, OnTurn, GTableInv, GeneralaInv, TurnOK
  <2>2. QED
    BY <1>2, <2>1, ScoreKeeps DEF GTableInv
<1>3. ASSUME UNCHANGED generalaVars PROVE GeneralaInv'
  BY <1>3, GeneralaStepInv DEF GTableInv
<1>4. ASSUME GeneralaInv', NEW box \in 0 .. Doble, GPaint(TRUE, box, TRUE),
             gsent' \in Seq(GMoves),
             \/ byBot' = 0
             \/ box = 0 /\ byBot' = byBot
             \/ byBot' = box
      PROVE  GTableInv'
  BY <1>4, PaintKeepsClock, PaintKeepsTray, PaintKeepsNotice DEF GTableInv
<1>9. gsent \in Seq(GMoves)
  BY DEF GTableInv, NoticeOK
<1>20. 0 \in 0 .. Doble /\ Boxes \subseteq 0 .. Doble
  BY DEF Doble, Boxes
<1>5. ASSUME NEW f \in Faces, Mark(f) PROVE GTableInv'
  <2>1. PICK n \in 0 .. dice[f] : held' = [held EXCEPT ![f] = n]
    BY <1>5 DEF Mark
  <2>2. GeneralaInv' /\ ThrowClockOK' /\ NoticeOK'
    BY <1>3, <1>5 DEF Mark, GTableInv, ThrowClockOK, NoticeOK, AutoplayIsTold
  <2>3. \A g \in Faces : held[g] <= dice[g]
    BY DEF GTableInv, TrayOK, NoDice, GeneralaInv, TurnOK, Tallies
  <2>4. held' \in Tallies /\ \A g \in Faces : held'[g] <= dice[g]
    BY <2>1, <2>3 DEF GTableInv, TrayOK, GeneralaInv, TurnOK, Tallies
  <2>5. OfferedKeeps(Me)' # {} /\ dice' = dice
    BY <1>5 DEF Mark, generalaVars, OfferedKeeps, OnTurn, Keeps
  <2>6. TrayOK'
    BY <2>4, <2>5 DEF TrayOK
  <2>7. QED
    BY <2>2, <2>6 DEF GTableInv
<1>6. ASSUME PressRoll PROVE GTableInv'
  <2>1. GeneralaInv' /\ ThrowClockOK' /\ TrayOK'
    BY <1>3, <1>6, EmptyHand DEF PressRoll, GTableInv, ThrowClockOK, TrayOK
  <2>2. <<"hold", held>> \in GMoves
    BY DEF GTableInv, TrayOK, GMoves
  <2>3. NoticeOK'
    <3>1. gsent' \in Seq(GMoves)
      BY <1>6, <1>9, <2>2 DEF PressRoll
    <3>2. {claimed', autoplayed', byBot'} \subseteq 0 .. Doble
      BY <1>6 DEF PressRoll, GTableInv, NoticeOK, Doble
    <3>3. QED
      BY <1>6, <3>1, <3>2 DEF PressRoll, NoticeOK, AutoplayIsTold
  <2>4. QED
    BY <2>1, <2>3 DEF GTableInv
<1>7. ASSUME NEW b \in Boxes, PressBox(b) PROVE GTableInv'
  <2>1. GeneralaInv' /\ ThrowClockOK'
    BY <1>3, <1>7 DEF PressBox, GTableInv, ThrowClockOK
  <2>2. <<"score", b>> \in GMoves /\ b \in 0 .. Doble
    BY DEF GMoves, Boxes, Doble
  <2>3. NoticeOK'
    <3>1. gsent' \in Seq(GMoves)
      BY <1>7, <1>9, <2>2 DEF PressBox
    <3>2. {claimed', autoplayed', byBot'} \subseteq 0 .. Doble
      BY <1>7, <2>2 DEF PressBox, Doble
    <3>3. QED
      BY <1>7, <3>1, <3>2 DEF PressBox, NoticeOK, AutoplayIsTold
  <2>4. TrayOK'
    BY <1>7 DEF PressBox, GTableInv, TrayOK, generalaVars, OfferedKeeps, OnTurn, Keeps
  <2>5. QED
    BY <2>1, <2>3, <2>4 DEF GTableInv
<1>8. ASSUME UNCHANGED <<generalaVars, held, claimed, autoplayed, byBot>>, gsent' \in Seq(GMoves),
             ThrowClockOK'
      PROVE  GTableInv'
  <2>1. GeneralaInv' /\ NoticeOK'
    BY <1>3, <1>8 DEF GTableInv, NoticeOK, AutoplayIsTold
  <2>2. TrayOK'
    BY <1>8 DEF GTableInv, TrayOK, generalaVars, OfferedKeeps, OnTurn, Keeps
  <2>3. QED
    BY <1>8, <2>1, <2>2 DEF GTableInv
<1>10. ASSUME GArrives PROVE GTableInv'
  <2>1. gsent # <<>> /\ gsent' = Tail(gsent) /\ gsent' \in Seq(GMoves)
    BY <1>9, <1>10 DEF GArrives
  <2>2. PICK which : which = Head(gsent)[2]
    OBVIOUS
  <2>3. CASE Hold(Me, which) /\ GPaint(TRUE, 0, TRUE) /\ byBot' = byBot
    BY <1>1, <1>4, <1>20, <2>1, <2>3
  <2>4. CASE Score(Me, which) /\ GPaint(TRUE, which, TRUE) /\ byBot' = 0
    BY <1>2, <1>4, <1>20, <2>1, <2>4
  <2>5. CASE UNCHANGED <<generalaVars, held, claimed, autoplayed, byBot, gclock>>
    BY <1>8, <2>1, <2>5 DEF GTableInv, ThrowClockOK
  <2>6. QED
    BY <1>10, <2>2, <2>3, <2>4, <2>5 DEF GArrives
<1>11. ASSUME GExpires PROVE GTableInv'
  <2>1. gsent' \in Seq(GMoves)
    BY <1>9, <1>11 DEF GExpires
  <2>2. ASSUME NEW k, Hold(Me, k), GPaint(TRUE, 0, TRUE), byBot' = byBot PROVE GTableInv'
    BY <1>1, <1>4, <1>20, <2>1, <2>2
  <2>3. ASSUME NEW b, Score(Me, b), GPaint(TRUE, b, TRUE), byBot' = b PROVE GTableInv'
    BY <1>2, <1>4, <1>20, <2>1, <2>3
  <2>4. QED
    BY <1>11, <2>2, <2>3 DEF GExpires
<1>12. ASSUME GRolls PROVE GTableInv'
  <2>1. GeneralaInv'
    BY <1>12, RollKeeps DEF GRolls, GTableInv
  <2>2. QED
    BY <1>4, <1>9, <1>12, <1>20, <2>1 DEF GRolls
<1>13. ASSUME GRival PROVE GTableInv'
  <2>1. GeneralaInv'
    BY <1>1, <1>2, <1>13 DEF GRival
  <2>2. QED
    BY <1>4, <1>9, <1>13, <1>20, <2>1 DEF GRival
<1>14. ASSUME GViewAgain PROVE GTableInv'
  <2>1. ThrowClockOK'
    BY <1>14, PaintKeepsClock DEF GViewAgain, GTableInv
  <2>2. UNCHANGED <<generalaVars, held, claimed, autoplayed, byBot>> /\ gsent' \in Seq(GMoves)
    BY <1>9, <1>14 DEF GViewAgain, GPaint, Marks, Stands
  <2>3. QED
    BY <1>8, <2>1, <2>2
<1>15. ASSUME GWarn PROVE GTableInv'
  <2>1. ThrowClockOK'
    <3>1. gclock.warnings = 0 /\ gclock' = [gclock EXCEPT !.warned = TRUE, !.warnings = 1]
      BY <1>15 DEF GWarn, GTableInv, ThrowClockOK
    <3>2. /\ gclock' \in [announced : BOOLEAN, warned : BOOLEAN, said : Nat, warnings : Nat]
          /\ gclock'.announced = gclock.announced /\ gclock'.said = gclock.said
          /\ gclock'.warned = TRUE /\ gclock'.warnings = 1
      BY <3>1 DEF GTableInv, ThrowClockOK
    <3>3. QED
      BY <3>2 DEF GTableInv, ThrowClockOK
  <2>2. QED
    BY <1>8, <1>9, <1>15, <2>1 DEF GWarn
<1>16. CASE UNCHANGED gScreenVars
  BY <1>8, <1>9, <1>16 DEF gScreenVars, gTableVars, GTableInv, ThrowClockOK
<1>17. QED
  BY <1>5, <1>6, <1>7, <1>10, <1>11, <1>12, <1>13, <1>14, <1>15, <1>16 DEF GTableNext

LEMMA GTableInvSays ==
  GTableInv => GTableTypeOK /\ HeldIsOfThisThrow /\ AutoplayIsTold /\ ThrowTimedOnce
  BY DEF GTableInv, TrayOK, ThrowClockOK, NoticeOK, GMoves, GTableTypeOK, HeldIsOfThisThrow,
         ThrowTimedOnce

-----------------------------------------------------------------------------
(* The escoba table.                                                         *)

\* A hand is on the region as decided, and the match as over, when they are.
ScoreSaid ==
  /\ scored \in [decided : BOOLEAN, over : BOOLEAN, text : {"", "scoring"}, said : Nat, focused : Nat]
  /\ scored.decided <=> ephase = "decided"
  /\ scored.over <=> EscobaOver

EMoves == ECards \X SUBSET ECards
ETableInv == EscobaInv /\ MarksAreTakeable /\ ScoreSaid /\ HandToldOnce /\ esent \in Seq(EMoves)

LEMMA ETableInitInv == ETableInit => ETableInv
<1> SUFFICES ASSUME ETableInit PROVE ETableInv
  OBVIOUS
<1>1. EscobaInv /\ ephase = "none"
  BY EscobaInitInv DEF ETableInit, EscobaInit
<1>2. ~EscobaOver
  BY DEF ETableInit, EscobaInit, EscobaOver, EscobaWinner, ETeams
<1>3. scored = [decided |-> FALSE, over |-> FALSE, text |-> "", said |-> 0, focused |-> 0]
  BY DEF ETableInit, NoScore
<1>4. ScoreSaid /\ HandToldOnce
  BY <1>1, <1>2, <1>3 DEF ScoreSaid, HandToldOnce
<1>5. MarksAreTakeable /\ esent \in Seq(EMoves)
  BY DEF ETableInit, MarksAreTakeable
<1>6. QED
  BY <1>1, <1>4, <1>5 DEF ETableInv

\* Nothing is played or dealt in a match that is over.
LEMMA NoMoveWhenOver ==
  ASSUME EscobaInv, \/ \E s, m : Play(s, m)
                    \/ \E d : EscobaStartHand(d)
  PROVE  ~EscobaOver
<1>1. ASSUME NEW s, NEW m, Play(s, m) PROVE ephase = "on"
  <2>1. ephase # "none" /\ eturn = s /\ m[1] \in ehands[s] /\ s \in ESeats
    BY <1>1 DEF Play, Accepts, EscobaInv, EscobaShape
  <2>2. QED
    BY <2>1 DEF EscobaInv, EscobaShape, Rhythm
<1>2. QED
  BY <1>1 DEF EscobaInv, Rhythm, EscobaStartHand, EscobaDeals

LEMMA PaintKeepsScore ==
  ASSUME ScoreSaid, HandToldOnce, EscobaOver => EscobaOver', EPaint
  PROVE  ScoreSaid' /\ HandToldOnce'
<1>1. PICK decided \in BOOLEAN : decided <=> ephase' = "decided"
  OBVIOUS
<1>2. PICK over \in BOOLEAN : over <=> EscobaOver'
  OBVIOUS
<1>3. PICK told :
        told = IF decided /\ ~scored.decided THEN [scored EXCEPT !.text = "scoring", !.said = @ + 1]
               ELSE scored
  OBVIOUS
<1>4. /\ told \in [decided : BOOLEAN, over : BOOLEAN, text : {"", "scoring"}, said : Nat, focused : Nat]
      /\ decided => told.text = "scoring" /\ told.said = 1
      /\ told.over = scored.over /\ told.focused = scored.focused
  <2>1. CASE decided /\ ~scored.decided
    <3>1. told = [scored EXCEPT !.text = "scoring", !.said = 1]
      <4>1. scored.said = 0
        BY <2>1 DEF ScoreSaid, HandToldOnce
      <4>2. QED
        BY <1>3, <2>1, <4>1
    <3>2. QED
      BY <3>1 DEF ScoreSaid
  <2>2. CASE ~(decided /\ ~scored.decided)
    BY <1>3, <2>2 DEF ScoreSaid, HandToldOnce
  <2>3. QED
    BY <2>1, <2>2
<1>5. PICK f \in Nat : f = told.focused + (IF over /\ ~scored.over THEN 1 ELSE 0)
  <2>1. told.focused \in Nat
    BY <1>4
  <2>2. PICK more \in Nat : more = IF over /\ ~scored.over THEN 1 ELSE 0
    OBVIOUS
  <2>3. QED
    BY <2>1, <2>2
<1>6. f = IF over THEN 1 ELSE 0
  <2>1. scored.over \in BOOLEAN /\ (scored.over => over)
    BY <1>2 DEF ScoreSaid
  <2>2. told.focused = IF scored.over THEN 1 ELSE 0
    BY <1>4 DEF ScoreSaid, HandToldOnce
  <2>3. QED
    BY <1>5, <2>1, <2>2
<1>7. scored' = [Tracks(told, decided) EXCEPT !.over = over, !.focused = f]
  <2>1. scored' = Scores(scored, decided, over)
    BY <1>1, <1>2 DEF EPaint
  <2>2. told.focused \in Nat /\ Tracks(told, decided).focused = told.focused
    BY <1>4 DEF Tracks
  <2>3. QED
    BY <1>3, <1>5, <2>1, <2>2 DEF Scores
<1>8. /\ scored' \in [decided : BOOLEAN, over : BOOLEAN, text : {"", "scoring"}, said : Nat, focused : Nat]
      /\ scored'.decided = decided /\ scored'.over = over /\ scored'.focused = f
      /\ scored'.said = (IF decided THEN 1 ELSE 0)
      /\ scored'.text = (IF decided THEN "scoring" ELSE "")
  BY <1>4, <1>7 DEF Tracks
<1>9. QED
  BY <1>1, <1>2, <1>6, <1>8 DEF ScoreSaid, HandToldOnce

LEMMA ETableStepInv == ETableInv /\ [ETableNext]_eScreenVars => ETableInv'
<1> SUFFICES ASSUME ETableInv, [ETableNext]_eScreenVars PROVE ETableInv'
  OBVIOUS
<1>1. ASSUME UNCHANGED escobaVars
      PROVE  EscobaInv' /\ UNCHANGED <<Markable, table, ephase, EscobaOver>>
  <2>1. EscobaInv'
    BY <1>1, EscobaStepInv DEF ETableInv
  <2>2. UNCHANGED <<table, ephase, eturn, ehands>>
    BY <1>1 DEF escobaVars
  <2>3. Offered(Me)' = Offered(Me)
    BY <2>2 DEF Offered, Captures
  <2>4. EscobaOver' = EscobaOver
    BY <1>1 DEF escobaVars, EscobaOver, EscobaWinner
  <2>5. QED
    BY <2>1, <2>2, <2>3, <2>4 DEF Markable
<1>2. ASSUME EscobaInv', EPaint, EscobaOver => EscobaOver', esent' \in Seq(EMoves)
      PROVE  ETableInv'
  <2>1. MarksAreTakeable'
    BY <1>2 DEF EPaint, StillMarkable, MarksAreTakeable
  <2>2. QED
    BY <1>2, <2>1, PaintKeepsScore DEF ETableInv
<1>3. ASSUME UNCHANGED escobaVars, UNCHANGED scored, esent' \in Seq(EMoves),
             marked' \subseteq Markable \cap table
      PROVE  ETableInv'
  <2>1. EscobaInv' /\ MarksAreTakeable'
    BY <1>1, <1>3 DEF ETableInv, MarksAreTakeable
  <2>2. ScoreSaid' /\ HandToldOnce'
    <3>1. scored' = scored /\ ephase' = ephase /\ (EscobaOver' <=> EscobaOver)
      BY <1>1, <1>3
    <3>2. QED
      BY <3>1 DEF ETableInv, ScoreSaid, HandToldOnce
  <2>3. QED
    BY <1>3, <2>1, <2>2 DEF ETableInv
<1>4. esent \in Seq(EMoves) /\ marked \subseteq Markable \cap table /\ table \subseteq ECards
  BY DEF ETableInv, MarksAreTakeable, EscobaInv, EscobaShape
<1>5. ASSUME NEW s, NEW m, Play(s, m), EPaint, esent' \in Seq(EMoves) PROVE ETableInv'
  <2>1. s \in ESeats
    BY <1>5 DEF Play, Accepts, ETableInv, EscobaInv, EscobaShape
  <2>2. EscobaInv' /\ ~EscobaOver
    BY <1>5, <2>1, EscobaPlayKeeps, NoMoveWhenOver DEF ETableInv
  <2>3. QED
    BY <1>2, <1>5, <2>2
<1>6. ASSUME NEW c \in table, Toggle(c) PROVE ETableInv'
  BY <1>3, <1>4, <1>6 DEF Toggle
<1>7. ASSUME NEW c \in ehands[Me], PressCard(c) PROVE ETableInv'
  <2>1. Me \in ESeats
    BY <1>7 DEF PressCard, Offered, ETableInv, EscobaInv, EscobaShape
  <2>2. c \in ECards
    BY <2>1 DEF ETableInv, EscobaInv, EscobaShape
  <2>3. <<c, marked>> \in EMoves
    BY <1>4, <2>2 DEF EMoves
  <2>4. QED
    BY <1>3, <1>4, <1>7, <2>3 DEF PressCard
<1>8. ASSUME EArrives PROVE ETableInv'
  <2>1. esent' \in Seq(EMoves)
    BY <1>4, <1>8 DEF EArrives
  <2>2. CASE Play(Me, Head(esent)) /\ EPaint
    BY <1>5, <2>1, <2>2
  <2>3. CASE UNCHANGED <<escobaVars, marked, scored>>
    BY <1>3, <1>4, <2>1, <2>3
  <2>4. QED
    BY <1>8, <2>2, <2>3 DEF EArrives
<1>9. ASSUME ESeatPlays PROVE ETableInv'
  BY <1>4, <1>5, <1>9 DEF ESeatPlays
<1>10. ASSUME EDeals PROVE ETableInv'
  <2>1. PICK d \in etable.decks : EscobaStartHand(d)
    BY <1>10 DEF EDeals
  <2>2. EscobaInv' /\ ~EscobaOver
    BY <2>1, EscobaStartKeeps, NoMoveWhenOver DEF ETableInv
  <2>3. QED
    BY <1>2, <1>4, <1>10, <2>2 DEF EDeals
<1>11. ASSUME EViewAgain PROVE ETableInv'
  BY <1>1, <1>2, <1>4, <1>11 DEF EViewAgain
<1>12. CASE UNCHANGED eScreenVars
  BY <1>3, <1>4, <1>12 DEF eScreenVars, eTableVars
<1>13. QED
  BY <1>6, <1>7, <1>8, <1>9, <1>10, <1>11, <1>12 DEF ETableNext

LEMMA ETableInvSays == ETableInv => ETableTypeOK /\ MarksAreTakeable /\ HandToldOnce
  BY DEF ETableInv, ScoreSaid, EMoves, EscobaInv, EscobaShape, ETableTypeOK, MarksAreTakeable

(* Lists put end to end. *)

\* What FlattenSeq computes on the way: the first i lists put together.
EndToEnd(f, ss) == f = [i \in 1 .. Len(ss) |-> IF i = 1 THEN ss[i] ELSE f[i - 1] \o ss[i]]

Starts(ss, tt) ==
  /\ Len(ss) \in Nat /\ Len(tt) \in Nat /\ Len(ss) <= Len(tt)
  /\ \A i \in 1 .. Len(ss) : ss[i] = tt[i]

LEMMA JoinedOnce ==
  ASSUME NEW ss, NEW tt, NEW f, NEW g, EndToEnd(f, ss), EndToEnd(g, tt), Starts(ss, tt)
  PROVE  \A i \in 1 .. Len(ss) : f[i] = g[i]
<1> USE DEF Starts
<1> DEFINE T == { i \in 1 .. Len(ss) : f[i] # g[i] }
<1>1. ASSUME T # {} PROVE FALSE
  <2>1. T \in SUBSET Nat
    OBVIOUS
  <2>2. PICK m \in T : \A n \in T : m <= n
    <3> HIDE DEF T
    <3> QED BY <1>1, <2>1, LeastNumber
  <2>3. m \in 1 .. Len(ss) /\ m \in 1 .. Len(tt) /\ f[m] # g[m]
    OBVIOUS
  <2>4. CASE m = 1
    <3>1. f[m] = ss[m]
      BY <2>3, <2>4 DEF EndToEnd
    <3>2. g[m] = tt[m]
      BY <2>3, <2>4 DEF EndToEnd
    <3>3. QED
      BY <2>3, <3>1, <3>2
  <2>5. CASE m # 1
    <3>1. m - 1 \in 1 .. Len(ss) /\ m - 1 \notin T
      BY <2>2, <2>3, <2>5
    <3>2. f[m - 1] = g[m - 1]
      BY <3>1
    <3>3. f[m] = f[m - 1] \o ss[m]
      BY <2>3, <2>5 DEF EndToEnd
    <3>4. g[m] = g[m - 1] \o tt[m]
      BY <2>3, <2>5 DEF EndToEnd
    <3>5. QED
      BY <2>3, <3>2, <3>3, <3>4
  <2>6. QED
    BY <2>4, <2>5
<1>2. QED
  BY <1>1

LEMMA JoinedExtends ==
  ASSUME NEW ss, Len(ss) \in Nat, NEW tt, Len(tt) = Len(ss) + 1, NEW f, EndToEnd(f, ss),
         \A i \in 1 .. Len(ss) : ss[i] = tt[i]
  PROVE  \E g : EndToEnd(g, tt)
<1> DEFINE n == Len(ss)
           g == [i \in 1 .. n + 1 |->
                   IF i <= n THEN f[i] ELSE IF n = 0 THEN tt[i] ELSE f[n] \o tt[i]]
<1>1. ASSUME NEW i \in 1 .. n + 1
      PROVE  g[i] = IF i = 1 THEN tt[i] ELSE g[i - 1] \o tt[i]
  <2>1. CASE i <= n
    <3>1. i \in 1 .. Len(ss) /\ g[i] = f[i] /\ tt[i] = ss[i]
      BY <2>1
    <3>2. f[i] = IF i = 1 THEN ss[i] ELSE f[i - 1] \o ss[i]
      BY <3>1 DEF EndToEnd
    <3>3. i # 1 => i - 1 \in 1 .. n + 1 /\ i - 1 <= n /\ g[i - 1] = f[i - 1]
      BY <2>1
    <3>4. QED
      BY <3>1, <3>2, <3>3
  <2>2. CASE i = n + 1
    BY <2>2
  <2>3. QED
    BY <2>1, <2>2
<1>2. g = [i \in 1 .. n + 1 |-> IF i = 1 THEN tt[i] ELSE g[i - 1] \o tt[i]]
  <2> HIDE DEF g
  <2>1. g = [i \in 1 .. n + 1 |-> g[i]]
    BY DEF g
  <2>2. QED
    BY <1>1, <2>1
<1>3. EndToEnd(g, tt)
  <2> HIDE DEF g
  <2> QED BY <1>2 DEF EndToEnd
<1>4. QED
  BY <1>3

LEMMA JoinedIs ==
  ASSUME NEW S, NEW ss \in Seq(S)
  PROVE  \E f : EndToEnd(f, ss)
<1> DEFINE Reaches(n) == \E f : EndToEnd(f, SubSeq(ss, 1, n))
           T == { n \in 0 .. Len(ss) : ~Reaches(n) }
<1>1. ASSUME T # {} PROVE FALSE
  <2>1. T \in SUBSET Nat
    OBVIOUS
  <2>2. PICK m \in T : \A n \in T : m <= n
    <3> HIDE DEF T
    <3> QED BY <1>1, <2>1, LeastNumber
  <2>3. m \in 0 .. Len(ss) /\ ~Reaches(m)
    OBVIOUS
  <2>4. m # 0
    <3>1. EndToEnd(<<>>, <<>>)
      BY DEF EndToEnd
    <3>2. SubSeq(ss, 1, 0) = <<>>
      OBVIOUS
    <3>3. QED
      BY <2>3, <3>1, <3>2
  <2>5. m - 1 \in 0 .. Len(ss) /\ m - 1 \notin T
    BY <2>2, <2>3, <2>4
  <2>6. PICK f : EndToEnd(f, SubSeq(ss, 1, m - 1))
    BY <2>5
  <2>7. /\ Len(SubSeq(ss, 1, m - 1)) = m - 1 /\ Len(SubSeq(ss, 1, m)) = m
        /\ \A i \in 1 .. m - 1 : SubSeq(ss, 1, m - 1)[i] = SubSeq(ss, 1, m)[i]
        /\ m - 1 \in Nat /\ m = (m - 1) + 1
    BY <2>3, <2>4
  <2>8. \E g : EndToEnd(g, SubSeq(ss, 1, m))
    BY <2>6, <2>7, JoinedExtends
  <2>9. QED
    BY <2>3, <2>8
<1>2. Len(ss) \in 0 .. Len(ss) /\ SubSeq(ss, 1, Len(ss)) = ss
  OBVIOUS
<1>3. Reaches(Len(ss))
  BY <1>1, <1>2
<1>4. QED
  BY <1>2, <1>3

LEMMA FlattenIs ==
  ASSUME NEW S, NEW ss \in Seq(S), Len(ss) # 0
  PROVE  \E f : EndToEnd(f, ss) /\ FlattenSeq(ss) = f[Len(ss)]
<1> DEFINE h == CHOOSE f : f = [i \in 1 .. Len(ss) |-> IF i = 1 THEN ss[i] ELSE f[i - 1] \o ss[i]]
<1>1. \E f : f = [i \in 1 .. Len(ss) |-> IF i = 1 THEN ss[i] ELSE f[i - 1] \o ss[i]]
  BY JoinedIs DEF EndToEnd
<1>2. h = [i \in 1 .. Len(ss) |-> IF i = 1 THEN ss[i] ELSE h[i - 1] \o ss[i]]
  BY <1>1
<1>3. FlattenSeq(ss) = h[Len(ss)]
  BY DEF FlattenSeq
<1> HIDE DEF h
<1>4. EndToEnd(h, ss)
  BY <1>2 DEF EndToEnd
<1>5. QED
  BY <1>3, <1>4

\* A list of lists with one more has that one at its end.
LEMMA FlattenOneMore ==
  ASSUME NEW S, NEW ss \in Seq(Seq(S)), NEW r \in Seq(S)
  PROVE  FlattenSeq(Append(ss, r)) = FlattenSeq(ss) \o r
<1> DEFINE tt == Append(ss, r)
<1>1. /\ tt \in Seq(Seq(S)) /\ Len(tt) = Len(ss) + 1 /\ Len(tt) # 0 /\ Len(ss) \in Nat
      /\ tt[Len(ss) + 1] = r /\ \A i \in 1 .. Len(ss) : ss[i] = tt[i]
  OBVIOUS
<1> HIDE DEF tt
<1>2. PICK g : EndToEnd(g, tt) /\ FlattenSeq(tt) = g[Len(tt)]
  BY <1>1, FlattenIs
<1>3. Len(ss) + 1 \in 1 .. Len(tt)
  BY <1>1
<1>4. g[Len(ss) + 1] = IF Len(ss) + 1 = 1 THEN tt[Len(ss) + 1] ELSE g[Len(ss) + 1 - 1] \o tt[Len(ss) + 1]
  <2>1. g = [i \in 1 .. Len(tt) |-> IF i = 1 THEN tt[i] ELSE g[i - 1] \o tt[i]]
    BY <1>2 DEF EndToEnd
  <2>2. \A i \in 1 .. Len(tt) : g[i] = IF i = 1 THEN tt[i] ELSE g[i - 1] \o tt[i]
    BY <2>1
  <2>3. QED
    BY <1>3, <2>2
<1>5. CASE Len(ss) = 0
  <2>1. FlattenSeq(tt) = r
    BY <1>1, <1>2, <1>4, <1>5
  <2>2. FlattenSeq(ss) = <<>>
    BY <1>5 DEF FlattenSeq
  <2>3. <<>> \o r = r
    OBVIOUS
  <2>4. QED
    BY <2>1, <2>2, <2>3 DEF tt
<1>6. CASE Len(ss) # 0
  <2>1. PICK f : EndToEnd(f, ss) /\ FlattenSeq(ss) = f[Len(ss)]
    BY <1>6, FlattenIs
  <2>2. Len(ss) \in 1 .. Len(ss) /\ Len(tt) \in Nat /\ Len(ss) <= Len(tt)
    BY <1>1, <1>6
  <2>3. \A i \in 1 .. Len(ss) : f[i] = g[i]
    <3>1. EndToEnd(f, ss) /\ EndToEnd(g, tt)
      BY <1>2, <2>1
    <3>2. Starts(ss, tt)
      BY <1>1, <2>2 DEF Starts
    <3>3. QED
      BY <3>1, <3>2, JoinedOnce
  <2>4. Len(ss) + 1 # 1 /\ Len(ss) + 1 - 1 = Len(ss)
    BY <1>1, <1>6
  <2>5. FlattenSeq(tt) = f[Len(ss)] \o r
    BY <1>1, <1>2, <1>4, <2>2, <2>3, <2>4
  <2>6. QED
    BY <2>1, <2>5 DEF tt
<1>7. QED
  BY <1>5, <1>6

-----------------------------------------------------------------------------
(* The truco table: between two views it keeps what may still be taken away, *)
(* said or answered, and nothing else.                                       *)

Words   == {"truco", "envido", "answers truco", "answers envido", "points", "sonBuenas"}
CallSet == Int \X Words

Standing == [up |-> TRUE, timers |-> 1]
Gone     == [up |-> FALSE, timers |-> 0]
LanesOK  == notices \in [Lanes -> {Standing, Gone}]

FeedbackOK == feedback \in [text : Seq(Outcomes), seen : 0 .. 3]

Since == {"none", "this", "old"}
SpokenOK(s) ==
  /\ s \in [said : Since, warned : Since, asked : BOOLEAN, told : {0, 1}, warnings : {0, 1}]
  /\ s.said # "this" => s.told = 0
  /\ s.warned # "this" => s.warnings = 0
  /\ s.warned = "this" => s.said = "this"

CallLogOK ==
  /\ events \in Seq(CallSet) /\ heard \in Seq(CallSet)
  /\ mounted =>
       /\ history \in [closed : Seq(Seq(CallSet)), open : Seq(CallSet)]
       /\ history.open = events
       /\ FlattenSeq(history.closed) \in Seq(CallSet)
       /\ heard = FlattenSeq(history.closed) \o events

ClocksOK == clock \in TrucoSeats \cup {Nobody} /\ consult \in TrucoSeats \cup {Nobody}

Channels == [asking : BOOLEAN, advice : BOOLEAN, askOfMe : BOOLEAN,
             sent : {"", "pending-call", "envido"}, back : Seq({"advice", "view"})]
ChannelOK ==
  /\ channel \in Channels
  /\ ~mounted => channel = Idle
  /\ AskedWhileOpen

TTableInv ==
  /\ HandInv /\ mounted \in BOOLEAN
  /\ LanesOK /\ FeedbackOK /\ SpokenOK(spoken) /\ CallLogOK /\ ClocksOK /\ ChannelOK

LEMMA MySeat == SeatsOK => Me \in TrucoSeats /\ Partner(Me) # Nobody /\ Me # Nobody
  BY TrucoTableAssumption, TrucoAssumption DEF SeatsOK, TrucoSeats, Partner, Nobody

\* The seat whose clock is wound sits at the table.
LEMMA OwingSits == SeatsOK => FirstOwing \in TrucoSeats \cup {Nobody}
<1> SUFFICES ASSUME SeatsOK, Movers # {} PROVE Min(Movers) \in TrucoSeats
  BY DEF FirstOwing
<1>1. TrucoSeats \subseteq Nat
  BY TrucoAssumption DEF SeatsOK, TrucoSeats
<1>2. Movers \subseteq TrucoSeats
  BY DEF Movers
<1>3. Min(Movers) \in Movers
  <2>1. Movers \in SUBSET Nat
    BY <1>1, <1>2
  <2> HIDE DEF Movers
  <2>2. QED
    BY <2>1, MinIs
<1>4. QED
  BY <1>2, <1>3

LEMMA SpeakKeeps ==
  ASSUME NEW s, SpokenOK(s), NEW d, NEW a, NEW o \in BOOLEAN, NEW sh
  PROVE  SpokenOK(Speak(s, d, a, o, sh)) /\ SpokenOK(Speak(Renewed(s), d, a, o, sh))
<1> DEFINE r == Renewed(s)
<1>1. SpokenOK(r)
  <2>1. PICK sa \in {"none", "old"}, wa \in {"none", "old"} : sa = Aged(s.said) /\ wa = Aged(s.warned)
    BY DEF Aged
  <2>2. r = [s EXCEPT !.said = sa, !.warned = wa, !.told = 0, !.warnings = 0]
    BY <2>1 DEF Renewed
  <2> HIDE DEF r
  <2>3. r \in [said : Since, warned : Since, asked : BOOLEAN, told : {0, 1}, warnings : {0, 1}]
    BY <2>2 DEF SpokenOK, Since
  <2>4. r.said = sa /\ r.warned = wa /\ r.told = 0 /\ r.warnings = 0
    BY <2>2 DEF SpokenOK
  <2>5. QED
    BY <2>3, <2>4 DEF SpokenOK
<1>2. ASSUME NEW q, SpokenOK(q) PROVE SpokenOK(Speak(q, d, a, o, sh))
  <2>1. CASE d = "none" \/ ~a
    BY <2>1 DEF Speak, Silent, SpokenOK, Since
  <2>2. CASE ~(d = "none" \/ ~a) /\ MustTell(q, o)
    <3>1. q.told = 0 /\ q.said # "this" /\ q.warnings = 0 /\ q.warned # "this"
      BY <1>2, <2>2 DEF MustTell, SpokenOK
    <3>2. Speak(q, d, a, o, sh) = [q EXCEPT !.said = "this", !.told = @ + 1, !.asked = o,
                                           !.warned = IF sh THEN "this" ELSE @]
      BY <2>2 DEF Speak
    <3>3. PICK wa \in Since : wa = IF sh THEN "this" ELSE q.warned
      BY <1>2 DEF SpokenOK, Since
    <3>4. PICK v : v = [q EXCEPT !.said = "this", !.told = 1, !.asked = o, !.warned = wa]
      OBVIOUS
    <3>5. Speak(q, d, a, o, sh) = v
      BY <3>1, <3>2, <3>3, <3>4
    <3>6. v \in [said : Since, warned : Since, asked : BOOLEAN, told : {0, 1}, warnings : {0, 1}]
      BY <1>2, <3>4 DEF SpokenOK, Since
    <3>7. v.said = "this" /\ v.told = 1 /\ v.warnings = 0
      BY <1>2, <3>1, <3>4 DEF SpokenOK
    <3>8. QED
      BY <3>5, <3>6, <3>7 DEF SpokenOK
  <2>3. CASE ~(d = "none" \/ ~a) /\ ~MustTell(q, o)
    <3>1. Speak(q, d, a, o, sh) = [q EXCEPT !.asked = o]
      BY <2>3 DEF Speak
    <3>2. QED
      BY <1>2, <3>1 DEF SpokenOK
  <2>4. QED
    BY <2>1, <2>2, <2>3
<1> HIDE DEF r
<1>3. SpokenOK(Speak(r, d, a, o, sh))
  BY <1>1, <1>2
<1>4. QED
  BY <1>2, <1>3 DEF r

LEMMA PaintKeepsLanes ==
  ASSUME LanesOK, NEW R, notices' = Noticed(R)
  PROVE  LanesOK'
<1>1. \A l \in Lanes : (IF l \in R THEN Arm(notices[l]) ELSE notices[l]) \in {Standing, Gone}
  BY DEF Arm, Standing, LanesOK
<1>2. QED
  BY <1>1 DEF Noticed, LanesOK

LEMMA PaintKeepsFeedback ==
  ASSUME NEW f \in [text : Seq(Outcomes), seen : 0 .. 3], NEW ts \in Seq(Outcomes), Len(ts) <= 3, NEW ps
  PROVE  Told(f, ts, ps) \in [text : Seq(Outcomes), seen : 0 .. 3]
<1>1. Len(ts) \in 0 .. 3
  <2>1. PICK n \in Nat : n = Len(ts)
    OBVIOUS
  <2>2. QED
    BY <2>1
<1>2. ASSUME Len(ts) > f.seen PROVE <<Last(ts)>> \in Seq(Outcomes)
  <2>1. Len(ts) # 0
    BY <1>1, <1>2
  <2>2. ts[Len(ts)] \in Outcomes
    BY <2>1
  <2>3. QED
    BY <2>2 DEF Last
<1>3. <<>> \in Seq(Outcomes) /\ f.text \in Seq(Outcomes)
  OBVIOUS
<1>4. QED
  BY <1>1, <1>2, <1>3 DEF Told

\* What the room has said since, this table has heard.
GoesOn(log) == log = <<>> \/ log = events \/ \E c \in CallSet : log = Append(events, c)

\* One more at the end of two lists is one more at the end of the second.
LEMMA AppendAfter ==
  ASSUME NEW s \in Seq(CallSet), NEW t \in Seq(CallSet), NEW c \in CallSet
  PROVE  Append(s \o t, c) = s \o Append(t, c)
<1>0. PICK u : u = <<c>>
  OBVIOUS
<1>1. u = <<c>> /\ u \in Seq(CallSet)
  BY <1>0
<1>2. Append(t, c) = t \o u /\ Append(s \o t, c) = (s \o t) \o u
  BY <1>1, AppendIsConcat
<1>3. (s \o t) \o u = s \o (t \o u)
  BY ConcatAssociative
<1>4. QED
  BY <1>2, <1>3

LEMMA PaintKeepsLog ==
  ASSUME CallLogOK, mounted, mounted', GoesOn(events'),
         history' = Advance(history, events'),
         heard' = IF Len(events') > Len(events) THEN Append(heard, Last(events')) ELSE heard
  PROVE  CallLogOK'
<1> DEFINE old == FlattenSeq(history.closed)
<1>1. /\ events \in Seq(CallSet) /\ heard \in Seq(CallSet) /\ history.open = events
      /\ history \in [closed : Seq(Seq(CallSet)), open : Seq(CallSet)]
      /\ old \in Seq(CallSet) /\ heard = old \o events
  BY DEF CallLogOK
<1> HIDE DEF old
<1>2. ASSUME NEW c \in CallSet, events' = Append(events, c) PROVE CallLogOK'
  <2>1. /\ events' \in Seq(CallSet) /\ Len(events') > Len(events) /\ Last(events') = c
        /\ Len(events) <= Len(events') /\ SubSeq(events', 1, Len(events)) = SubSeq(events, 1, Len(events))
    BY <1>1, <1>2 DEF Last
  <2>2. history' = [history EXCEPT !.open = events']
    BY <1>1, <2>1 DEF Advance, Continues, IsPrefix
  <2>3. heard' = Append(heard, c)
    BY <2>1
  <2>4. Append(old \o events, c) = old \o Append(events, c)
    <3>1. old \in Seq(CallSet) /\ events \in Seq(CallSet)
      BY <1>1
    <3>2. QED
      BY <1>2, <3>1, AppendAfter
  <2>5. /\ history'.open = events' /\ history'.closed = history.closed
        /\ history' \in [closed : Seq(Seq(CallSet)), open : Seq(CallSet)]
    BY <1>1, <2>1, <2>2
  <2>6. heard' \in Seq(CallSet) /\ heard' = old \o events'
    <3>1. Append(heard, c) \in Seq(CallSet)
      BY <1>1
    <3>2. QED
      BY <1>1, <1>2, <2>3, <2>4, <3>1
  <2>7. QED
    BY <1>1, <2>1, <2>5, <2>6 DEF CallLogOK, old
<1>3. CASE events' = events
  <2>1. Continues(events, events')
    BY <1>1, <1>3 DEF Continues, IsPrefix
  <2>2. history' = [history EXCEPT !.open = events']
    BY <1>1, <2>1 DEF Advance
  <2>3. heard' = heard
    BY <1>1, <1>3
  <2>4. history' = history
    BY <1>1, <1>3, <2>2
  <2>5. QED
    BY <1>3, <2>3, <2>4 DEF CallLogOK
<1>4. CASE events' = <<>> /\ events # <<>>
  <2>1. Len(events) > 0 /\ Len(events') = 0 /\ events' \in Seq(CallSet)
    BY <1>1, <1>4
  <2>2. ~Continues(events, events')
    BY <2>1, <1>4 DEF Continues, IsPrefix
  <2>3. history' = [closed |-> Append(history.closed, events), open |-> <<>>]
    BY <1>1, <1>4, <2>2 DEF Advance, Close
  <2>4. heard' = heard
    BY <1>1, <2>1
  <2>5. FlattenSeq(history'.closed) = old \o events
    BY <1>1, <2>3, FlattenOneMore DEF old
  <2>6. (old \o events) \o <<>> = old \o events /\ old \o events \in Seq(CallSet)
    BY <1>1
  <2>7. Append(history.closed, events) \in Seq(Seq(CallSet)) /\ <<>> \in Seq(CallSet)
    BY <1>1
  <2>8. history' \in [closed : Seq(Seq(CallSet)), open : Seq(CallSet)] /\ history'.open = events'
    <3>1. PICK e \in Seq(CallSet), cs \in Seq(Seq(CallSet)) : e = <<>> /\ cs = Append(history.closed, events)
      BY <2>7
    <3>2. history' = [closed |-> cs, open |-> e]
      BY <2>3, <3>1
    <3>3. history' \in [closed : Seq(Seq(CallSet)), open : Seq(CallSet)] /\ history'.open = e
      BY <3>2
    <3>4. events' = e
      BY <1>4, <3>1
    <3>5. QED
      BY <3>3, <3>4
  <2>9. QED
    BY <1>1, <1>4, <2>1, <2>4, <2>5, <2>6, <2>8 DEF CallLogOK
<1>5. QED
  BY <1>2, <1>3, <1>4 DEF GoesOn

LEMMA PaintKeeps ==
  ASSUME LanesOK, FeedbackOK, SpokenOK(spoken), CallLogOK, mounted, mounted', TricksOK',
         GoesOn(events'), NEW fresh, NEW signed, Paint(fresh, signed)
  PROVE  LanesOK' /\ FeedbackOK' /\ SpokenOK(spoken)' /\ CallLogOK'
<1>1. LanesOK'
  BY PaintKeepsLanes DEF Paint
<1>2. FeedbackOK'
  <2>1. tricks' \in Seq(Outcomes) /\ Len(tricks') <= 3
    BY DEF TricksOK
  <2>2. feedback' = Told(feedback, tricks', plays')
    BY DEF Paint
  <2>3. QED
    BY <2>1, <2>2, PaintKeepsFeedback DEF FeedbackOK
<1>3. SpokenOK(spoken)'
  <2>1. PICK short \in BOOLEAN :
          spoken' = Speak(IF fresh THEN Renewed(spoken) ELSE spoken, MountedDeadline',
                          AnchorActive(Me)', consult' # Nobody, short)
    BY DEF Paint
  <2>2. SpokenOK(Speak(spoken, MountedDeadline', AnchorActive(Me)', consult' # Nobody, short))
        /\ SpokenOK(Speak(Renewed(spoken), MountedDeadline', AnchorActive(Me)', consult' # Nobody, short))
    BY SpeakKeeps
  <2>3. SpokenOK(spoken')
    BY <2>1, <2>2
  <2>4. QED
    BY <2>3 DEF SpokenOK
<1>4. CallLogOK'
  BY PaintKeepsLog DEF Paint
<1>5. QED
  BY <1>1, <1>2, <1>3, <1>4

LEMMA OnViewIs ==
  ASSUME NEW c \in Channels, NEW o \in BOOLEAN
  PROVE  /\ OnView(c, o) \in Channels
         /\ OnView(c, o).askOfMe = (c.askOfMe /\ o)
         /\ OnView(c, o).back = c.back /\ OnView(c, o).sent = c.sent
<1>1. PICK a \in BOOLEAN, q \in BOOLEAN : a = (c.advice /\ c.asking) /\ q = (c.askOfMe /\ o)
  OBVIOUS
<1>2. OnView(c, o) = [c EXCEPT !.advice = a, !.askOfMe = q]
  BY <1>1 DEF OnView
<1>3. PICK v : v = [c EXCEPT !.advice = a, !.askOfMe = q]
  OBVIOUS
<1>4. v \in Channels /\ v.askOfMe = q /\ v.back = c.back /\ v.sent = c.sent
  BY <1>3 DEF Channels
<1>5. QED
  BY <1>1, <1>2, <1>3, <1>4

LEMMA IdleIs == Idle \in Channels /\ ~Idle.askOfMe /\ Idle.sent = "" /\ Idle.back = <<>>
  BY DEF Idle, Channels

\* A repainting that the room has not moved for.
LEMMA RepaintKeeps ==
  ASSUME NEW c, LanesOK, FeedbackOK, SpokenOK(spoken), CallLogOK, UNCHANGED <<events, mounted>>,
         Repaint(c)
  PROVE  /\ LanesOK' /\ FeedbackOK' /\ SpokenOK(spoken)' /\ CallLogOK'
         /\ channel' = IF mounted THEN c ELSE channel
<1>1. LanesOK' /\ FeedbackOK' /\ CallLogOK' /\ channel' = IF mounted THEN c ELSE channel
  BY DEF Repaint, LanesOK, FeedbackOK, CallLogOK
<1>2. SpokenOK(spoken)'
  <2>1. CASE mounted
    <3>1. PICK short \in BOOLEAN :
            spoken' = Speak(spoken, MountedDeadline', AnchorActive(Me)', consult' # Nobody, short)
      BY <2>1 DEF Repaint
    <3>2. SpokenOK(spoken')
      BY <3>1, SpeakKeeps
    <3>3. QED
      BY <3>2 DEF SpokenOK
  <2>2. CASE ~mounted
    BY <2>2 DEF Repaint, SpokenOK
  <2>3. QED
    BY <2>1, <2>2
<1>3. QED
  BY <1>1, <1>2

LEMMA BroadcastKeeps ==
  ASSUME TTableInv, HandInv', seatCount' = seatCount, NEW actor, NEW log, GoesOn(log), NEW signed,
         Broadcast(actor, log, signed)
  PROVE  TTableInv'
<1> USE DEF TTableInv
<1>1. events' = log /\ mounted' = mounted /\ ~ViewComing /\ clock' = FirstOwing'
  BY DEF Broadcast
<1>2. PICK expired :
        LET fresh == expired \/ clock' # clock
        IN  /\ consult' = IF fresh THEN Nobody ELSE consult
            /\ IF mounted
                 THEN /\ Paint(fresh, signed)
                      /\ channel' = OnView(channel, consult' # Nobody)
                 ELSE UNCHANGED <<notices, feedback, history, spoken, heard, channel>>
  BY DEF Broadcast
<1>3. consult' \in {consult, Nobody}
  BY <1>2
<1>4. ClocksOK'
  <2>1. FirstOwing' \in TrucoSeats' \cup {Nobody}
    <3>1. (SeatsOK => FirstOwing \in TrucoSeats \cup {Nobody})'
      BY OwingSits, PTL
    <3>2. QED
      BY <3>1 DEF HandInv
  <2>2. TrucoSeats' = TrucoSeats
    BY DEF TrucoSeats
  <2>3. QED
    BY <1>1, <1>3, <2>1, <2>2 DEF ClocksOK
<1>5. LanesOK' /\ FeedbackOK' /\ SpokenOK(spoken)' /\ CallLogOK'
  <2>1. CASE mounted
    <3>1. Paint(expired \/ clock' # clock, signed)
      BY <1>2, <2>1
    <3>2. QED
      BY <1>1, <2>1, <3>1, PaintKeeps DEF HandInv
  <2>2. CASE ~mounted
    <3>1. events' \in Seq(CallSet)
      <4>1. events \in Seq(CallSet)
        BY DEF CallLogOK
      <4>2. log = <<>> \/ log = events \/ \E c \in CallSet : log = Append(events, c)
        BY DEF GoesOn
      <4>5. <<>> \in Seq(CallSet) /\ \A c \in CallSet : Append(events, c) \in Seq(CallSet)
        BY <4>1
      <4>3. log \in Seq(CallSet)
        BY <4>1, <4>2, <4>5, Zenon
      <4>4. QED
        BY <1>1, <4>3
    <3>2. QED
      BY <1>1, <1>2, <2>2, <3>1 DEF LanesOK, FeedbackOK, SpokenOK, CallLogOK
  <2>3. QED
    BY <2>1, <2>2
<1>6. ChannelOK'
  <2>1. CASE mounted
    <3>1. channel \in Channels /\ (channel.askOfMe => consult = Partner(Me))
      BY <1>1 DEF ChannelOK, AskedWhileOpen
    <3>2. channel' = OnView(channel, consult' # Nobody)
      BY <1>2, <2>1
    <3>3. channel' \in Channels /\ channel'.askOfMe = (channel.askOfMe /\ consult' # Nobody)
      BY <3>1, <3>2, OnViewIs
    <3>4. channel'.askOfMe => consult' = Partner(Me)
      BY <1>3, <3>1, <3>3
    <3>5. QED
      BY <1>1, <2>1, <3>3, <3>4 DEF ChannelOK, AskedWhileOpen
  <2>2. CASE ~mounted
    <3>1. channel' = channel /\ channel = Idle
      BY <1>2, <2>2 DEF ChannelOK
    <3>2. QED
      BY <1>1, <3>1, IdleIs DEF ChannelOK, AskedWhileOpen
  <2>3. QED
    BY <2>1, <2>2
<1>7. QED
  BY <1>1, <1>4, <1>5, <1>6

\* Nothing the player or the clocks of the screen do is a move.
LEMMA TableStays ==
  ASSUME TTableInv, UNCHANGED <<trucoVars, roomVars>>
  PROVE  HandInv' /\ ClocksOK' /\ (UNCHANGED <<heard, history, mounted>> => CallLogOK')
<1>1. HandInv'
  <2>1. [TrucoNext]_trucoVars
    OBVIOUS
  <2>2. QED
    BY <2>1, HandStepInv DEF TTableInv
<1>2. ClocksOK' /\ (UNCHANGED <<heard, history, mounted>> => CallLogOK')
  BY DEF TTableInv, ClocksOK, CallLogOK, roomVars, trucoVars, TrucoSeats
<1>3. QED
  BY <1>1, <1>2

LEMMA MountKeeps == TTableInv /\ Mount => TTableInv'
<1> SUFFICES ASSUME TTableInv, Mount PROVE TTableInv'
  OBVIOUS
<1> USE DEF TTableInv, Mount
<1>1. HandInv' /\ ClocksOK' /\ mounted' \in BOOLEAN
  BY TableStays
<1>2. LanesOK'
  BY DEF LanesOK, Quiet, Gone
<1>3. FeedbackOK'
  <2>1. NoFeedback \in [text : Seq(Outcomes), seen : 0 .. 3]
    BY DEF NoFeedback
  <2>2. feedback' \in [text : Seq(Outcomes), seen : 0 .. 3]
    BY <2>1, PaintKeepsFeedback DEF HandInv, TricksOK
  <2>3. QED
    BY <2>2 DEF FeedbackOK
<1>4. SpokenOK(spoken)'
  <2>1. SpokenOK(Silent)
    BY DEF SpokenOK, Silent, Since
  <2>2. SpokenOK(spoken')
    BY <2>1, SpeakKeeps
  <2>3. QED
    BY <2>2 DEF SpokenOK
<1>5. CallLogOK'
  <2>1. events \in Seq(CallSet) /\ events' = events /\ heard' = events /\ mounted'
    BY DEF CallLogOK, roomVars
  <2>2. <<>> \in Seq(Seq(CallSet)) /\ <<>> \in Seq(CallSet)
    OBVIOUS
  <2>3. PICK cs \in Seq(Seq(CallSet)) : cs = <<>>
    BY <2>2
  <2>4. history' = [closed |-> cs, open |-> events]
    BY <2>3 DEF Advance, NoHistory
  <2>5. FlattenSeq(cs) = <<>>
    BY <2>3 DEF FlattenSeq
  <2>6. <<>> \o events = events
    BY <2>1
  <2>7. history' \in [closed : Seq(Seq(CallSet)), open : Seq(CallSet)]
          /\ history'.closed = cs /\ history'.open = events
    BY <2>1, <2>4
  <2>8. QED
    BY <2>1, <2>2, <2>5, <2>6, <2>7 DEF CallLogOK
<1>6. ChannelOK'
  BY IdleIs DEF ChannelOK, AskedWhileOpen
<1>7. QED
  BY <1>1, <1>2, <1>3, <1>4, <1>5, <1>6

LEMMA LeaveKeeps == TTableInv /\ Leave => TTableInv'
<1> SUFFICES ASSUME TTableInv, Leave PROVE TTableInv'
  OBVIOUS
<1> USE DEF TTableInv, Leave
<1>1. HandInv' /\ ClocksOK' /\ mounted' \in BOOLEAN
  BY TableStays
<1>2. LanesOK' /\ FeedbackOK'
  BY DEF LanesOK, Quiet, Gone, FeedbackOK, NoFeedback
<1>3. SpokenOK(spoken)'
  BY DEF SpokenOK, Silent, Since
<1>4. CallLogOK'
  BY DEF CallLogOK, roomVars
<1>5. ChannelOK'
  BY IdleIs DEF ChannelOK, AskedWhileOpen
<1>6. QED
  BY <1>1, <1>2, <1>3, <1>4, <1>5

LEMMA SeatCountStays == [TrucoNext]_trucoVars => seatCount' = seatCount
  BY DEF TrucoNext, TrucoMoves, StartHand, CallTruco, AnswerTruco, AnswerEnvido, CallEnvido, Declare,
         PlayCard, ConsultPartner, SendSena, Spend, trucoVars

LEMMA SpendKeeps ==
  ASSUME TTableInv, NEW s \in TrucoSeats, ConsultPartner(s), clock' = clock, consult' \in {s, consult}
  PROVE  HandInv' /\ ClocksOK'
<1>1. TrucoNext
  BY DEF TrucoNext, TrucoMoves
<1>2. HandInv' /\ seatCount' = seatCount
  BY <1>1, HandStepInv, SeatCountStays DEF TTableInv
<1>3. ClocksOK'
  BY <1>2 DEF TTableInv, ClocksOK, TrucoSeats
<1>4. QED
  BY <1>2, <1>3

\* What comes back in front of the opinion, or behind it.
LEMMA ComingBack ==
  ASSUME NEW b \in Seq({"advice", "view"})
  PROVE  /\ Append(b, "advice") \in Seq({"advice", "view"})
         /\ "view" \in Range(Append(b, "advice")) <=> "view" \in Range(b)
         /\ b \o <<"advice", "view">> \in Seq({"advice", "view"})
         /\ "view" \in Range(b \o <<"advice", "view">>)
         /\ b # <<>> => /\ Tail(b) \in Seq({"advice", "view"})
                        /\ Head(b) = "advice" /\ "view" \in Range(b) => "view" \in Range(Tail(b))
<1>1. Append(b, "advice") \in Seq({"advice", "view"}) /\ b \o <<"advice", "view">> \in Seq({"advice", "view"})
  OBVIOUS
<1>2. "view" \in Range(Append(b, "advice")) <=> "view" \in Range(b)
  <2>1. Range(Append(b, "advice")) = Range(b) \cup {"advice"}
    BY RangeOfAppend
  <2>2. QED
    BY <2>1
<1>3. "view" \in Range(b \o <<"advice", "view">>)
  <2>1. (b \o <<"advice", "view">>)[Len(b) + 2] = "view"
        /\ Len(b) + 2 \in DOMAIN (b \o <<"advice", "view">>)
    OBVIOUS
  <2>2. QED
    BY <2>1 DEF Range
<1>4. ASSUME b # <<>>
      PROVE  /\ Tail(b) \in Seq({"advice", "view"})
             /\ Head(b) = "advice" /\ "view" \in Range(b) => "view" \in Range(Tail(b))
  <2>1. Tail(b) \in Seq({"advice", "view"}) /\ Len(Tail(b)) = Len(b) - 1 /\ Head(b) = b[1]
    BY <1>4
  <2>2. ASSUME Head(b) = "advice", "view" \in Range(b) PROVE "view" \in Range(Tail(b))
    <3>1. PICK i \in DOMAIN b : b[i] = "view"
      BY <2>2 DEF Range
    <3>2. i \in 1 .. Len(b) /\ i # 1
      BY <2>1, <2>2, <3>1
    <3>3. i - 1 \in 1 .. Len(Tail(b)) /\ Tail(b)[i - 1] = "view"
      BY <1>4, <2>1, <3>1, <3>2
    <3>4. i - 1 \in DOMAIN Tail(b)
      BY <2>1, <3>3
    <3>5. QED
      BY <3>3, <3>4 DEF Range
  <2>3. QED
    BY <2>1, <2>2
<1>5. QED
  BY <1>1, <1>2, <1>3, <1>4

LEMMA AskKeeps ==
  ASSUME TTableInv, NEW about \in {"pending-call", "envido"}, Ask(about)
  PROVE  TTableInv'
<1> USE DEF TTableInv, Ask
<1>1. HandInv' /\ ClocksOK' /\ CallLogOK' /\ mounted' \in BOOLEAN
  BY TableStays
<1>2. LanesOK' /\ FeedbackOK' /\ SpokenOK(spoken)'
  BY DEF LanesOK, FeedbackOK, SpokenOK
<1>3. ChannelOK'
  <2>1. PICK c : c = [channel EXCEPT !.asking = TRUE, !.advice = FALSE, !.sent = about]
    OBVIOUS
  <2>2. c \in Channels /\ c.askOfMe = channel.askOfMe /\ c.back = channel.back
    BY <2>1 DEF ChannelOK, Channels
  <2>3. channel' = c /\ consult' = consult /\ mounted'
    BY <2>1 DEF roomVars
  <2>4. QED
    BY <2>2, <2>3 DEF ChannelOK, AskedWhileOpen, ViewComing
<1>4. QED
  BY <1>1, <1>2, <1>3

LEMMA AskedKeeps == TTableInv /\ Asked => TTableInv'
<1> SUFFICES ASSUME TTableInv, Asked PROVE TTableInv'
  OBVIOUS
<1> USE DEF TTableInv
<1>1. /\ channel.sent # "" /\ ~ViewComing /\ UNCHANGED <<clock, events, mounted>>
      /\ mounted /\ channel \in Channels /\ channel.sent \in {"pending-call", "envido"}
      /\ (channel.askOfMe => consult = Partner(Me)) /\ channel.back \in Seq({"advice", "view"})
      /\ Me \in TrucoSeats /\ Partner(Me) # Nobody /\ Me # Nobody
  BY IdleIs, MySeat DEF Asked, ChannelOK, AskedWhileOpen, Channels, HandInv
<1>2. CASE MayConsult(Me, channel.sent)
  <2>1. /\ Spend(Me) /\ consult' = Opened(Me)
        /\ Repaint([OnView(channel, consult' # Nobody) EXCEPT !.sent = "",
                      !.back = IF consult = Nobody /\ clock # Nobody THEN @ ELSE Append(@, "advice")])
    BY <1>2 DEF Asked
  <2>2. ConsultPartner(Me) /\ consult' \in {Me, consult} /\ (consult # Nobody => consult' = consult)
    BY <1>1, <1>2, <2>1 DEF ConsultPartner, Opened
  <2>3. HandInv' /\ ClocksOK'
    BY <1>1, <2>2, SpendKeeps
  <2>4. PICK v : v = OnView(channel, consult' # Nobody)
    OBVIOUS
  <2>5. v \in Channels /\ v.askOfMe = (channel.askOfMe /\ consult' # Nobody) /\ v.back = channel.back
    BY <1>1, <2>4, OnViewIs
  <2>6. PICK b \in Seq({"advice", "view"}) :
          /\ b = IF consult = Nobody /\ clock # Nobody THEN v.back ELSE Append(v.back, "advice")
          /\ "view" \in Range(b) <=> "view" \in Range(channel.back)
    BY <1>1, <2>5, ComingBack
  <2>7. PICK c : c = [v EXCEPT !.sent = "", !.back = b]
    OBVIOUS
  <2>8. c \in Channels /\ c.askOfMe = v.askOfMe /\ c.back = b
    BY <2>5, <2>7 DEF Channels
  <2>9. Repaint(c)
    BY <2>1, <2>4, <2>6, <2>7
  <2>10. LanesOK' /\ FeedbackOK' /\ SpokenOK(spoken)' /\ CallLogOK' /\ channel' = c
    BY <1>1, <2>9, RepaintKeeps
  <2>11. ChannelOK'
    <3>1. channel'.askOfMe => consult' = Partner(Me)
      BY <1>1, <2>2, <2>5, <2>8, <2>10
    <3>2. QED
      BY <1>1, <2>8, <2>10, <3>1 DEF ChannelOK, AskedWhileOpen
  <2>12. QED
    BY <1>1, <2>3, <2>10, <2>11
<1>3. CASE ~MayConsult(Me, channel.sent)
  <2>1. /\ channel' = [channel EXCEPT !.sent = ""]
        /\ UNCHANGED <<trucoVars, consult, notices, feedback, history, spoken, heard>>
    BY <1>3 DEF Asked
  <2>2. HandInv' /\ ClocksOK' /\ CallLogOK'
    BY <1>1, <2>1, TableStays DEF roomVars
  <2>3. LanesOK' /\ FeedbackOK' /\ SpokenOK(spoken)'
    BY <2>1 DEF LanesOK, FeedbackOK, SpokenOK
  <2>4. channel' \in Channels /\ channel'.askOfMe = channel.askOfMe /\ channel'.back = channel.back
    BY <1>1, <2>1 DEF Channels
  <2>5. ChannelOK'
    BY <1>1, <2>1, <2>4 DEF ChannelOK, AskedWhileOpen, ViewComing
  <2>6. QED
    BY <1>1, <2>2, <2>3, <2>5
<1>4. QED
  BY <1>2, <1>3

LEMMA AskedByKeeps ==
  ASSUME TTableInv, NEW s \in TrucoSeats, AskedBy(s)
  PROVE  TTableInv'
<1> USE DEF TTableInv
<1>1. /\ ~ViewComing /\ UNCHANGED <<clock, events, mounted>> /\ ConsultPartner(s)
      /\ consult' = Opened(s) /\ channel \in Channels
      /\ (channel.askOfMe => consult = Partner(Me))
      /\ Partner(Me) # Nobody
  BY MySeat DEF AskedBy, ChannelOK, AskedWhileOpen, Channels, HandInv
<1>2. consult' \in {s, consult} /\ (consult # Nobody => consult' = consult)
  BY <1>1 DEF Opened
<1>3. HandInv' /\ ClocksOK'
  BY <1>1, <1>2, SpendKeeps
<1>4. PICK v : v = OnView(channel, consult' # Nobody)
  OBVIOUS
<1>5. v \in Channels /\ v.askOfMe = (channel.askOfMe /\ consult' # Nobody)
  BY <1>1, <1>4, OnViewIs
<1>6. PICK q \in BOOLEAN : q = (v.askOfMe \/ (s = Partner(Me) /\ consult # s /\ consult' = s))
  OBVIOUS
<1>7. PICK c : c = [v EXCEPT !.askOfMe = q]
  OBVIOUS
<1>8. c \in Channels /\ c.askOfMe = q /\ c.back = v.back
  BY <1>5, <1>7 DEF Channels
<1>9. Repaint(c)
  BY <1>4, <1>6, <1>7 DEF AskedBy
<1>10. /\ LanesOK' /\ FeedbackOK' /\ SpokenOK(spoken)' /\ CallLogOK'
       /\ channel' = IF mounted THEN c ELSE channel
  BY <1>1, <1>9, RepaintKeeps
<1>11. ChannelOK'
  <2>1. CASE mounted
    <3>1. q => consult' = Partner(Me)
      <4>1. CASE v.askOfMe
        <5>1. channel.askOfMe
          BY <1>5, <4>1
        <5>2. consult = Partner(Me)
          BY <1>1, <5>1
        <5>3. QED
          BY <1>1, <1>2, <5>2
      <4>2. CASE ~v.askOfMe
        BY <1>6, <4>2
      <4>3. QED
        BY <4>1, <4>2
    <3>2. QED
      BY <1>1, <1>8, <1>10, <2>1, <3>1 DEF ChannelOK, AskedWhileOpen
  <2>2. CASE ~mounted
    BY <1>1, <1>10, <2>2, IdleIs DEF ChannelOK, AskedWhileOpen
  <2>3. QED
    BY <2>1, <2>2
<1>12. QED
  BY <1>1, <1>3, <1>10, <1>11

LEMMA ResolveKeeps == TTableInv /\ Resolve => TTableInv'
<1> SUFFICES ASSUME TTableInv, Resolve PROVE TTableInv'
  OBVIOUS
<1> USE DEF TTableInv
<1>1. consult' = Nobody /\ UNCHANGED <<trucoVars, clock, events, mounted>> /\ channel \in Channels
  BY DEF Resolve, ChannelOK
<1>2. HandInv' /\ ClocksOK'
  <2>1. [TrucoNext]_trucoVars
    BY <1>1
  <2>2. HandInv' /\ seatCount' = seatCount
    BY <2>1, HandStepInv, SeatCountStays
  <2>3. QED
    BY <1>1, <2>2 DEF ClocksOK, TrucoSeats
<1>3. CASE consult = Me /\ mounted
  <2>1. /\ channel' = [channel EXCEPT !.back = @ \o <<"advice", "view">>]
        /\ UNCHANGED <<notices, feedback, history, spoken, heard>>
    BY <1>3 DEF Resolve
  <2>2. LanesOK' /\ FeedbackOK' /\ SpokenOK(spoken)' /\ CallLogOK'
    BY <1>1, <2>1 DEF LanesOK, FeedbackOK, SpokenOK, CallLogOK
  <2>3. PICK b \in Seq({"advice", "view"}) :
          b = channel.back \o <<"advice", "view">> /\ "view" \in Range(b)
    BY <1>1, ComingBack DEF Channels
  <2>4. channel' = [channel EXCEPT !.back = b]
    BY <2>1, <2>3
  <2>5. channel' \in Channels /\ channel'.back = b
    BY <1>1, <2>4 DEF Channels
  <2>6. ChannelOK'
    BY <1>1, <1>3, <2>3, <2>5 DEF ChannelOK, AskedWhileOpen, ViewComing
  <2>7. QED
    BY <1>1, <1>2, <2>2, <2>6
<1>4. CASE ~(consult = Me /\ mounted)
  <2>1. Repaint(OnView(channel, FALSE))
    BY <1>4 DEF Resolve
  <2>2. /\ LanesOK' /\ FeedbackOK' /\ SpokenOK(spoken)' /\ CallLogOK'
        /\ channel' = IF mounted THEN OnView(channel, FALSE) ELSE channel
    BY <1>1, <2>1, RepaintKeeps
  <2>3. OnView(channel, FALSE) \in Channels /\ ~OnView(channel, FALSE).askOfMe
    BY <1>1, OnViewIs
  <2>4. ChannelOK'
    BY <1>1, <2>2, <2>3, IdleIs DEF ChannelOK, AskedWhileOpen
  <2>5. QED
    BY <1>1, <1>2, <2>2, <2>4
<1>5. QED
  BY <1>3, <1>4

LEMMA AdviceKeeps == TTableInv /\ AdviceArrives => TTableInv'
<1> SUFFICES ASSUME TTableInv, AdviceArrives PROVE TTableInv'
  OBVIOUS
<1> USE DEF TTableInv, AdviceArrives
<1>1. HandInv' /\ ClocksOK' /\ CallLogOK' /\ mounted' \in BOOLEAN
  BY TableStays
<1>2. LanesOK' /\ FeedbackOK' /\ SpokenOK(spoken)'
  BY DEF LanesOK, FeedbackOK, SpokenOK
<1>3. ChannelOK'
  <2>1. PICK b \in Seq({"advice", "view"}) :
          b = Tail(channel.back) /\ ("view" \in Range(channel.back) => "view" \in Range(b))
    BY ComingBack DEF ChannelOK, Channels
  <2>2. channel' = [channel EXCEPT !.asking = FALSE, !.advice = TRUE, !.back = b]
    BY <2>1
  <2>3. channel' \in Channels /\ channel'.askOfMe = channel.askOfMe /\ channel'.back = b
    BY <2>2 DEF ChannelOK, Channels
  <2>4. mounted /\ mounted' = mounted /\ consult' = consult
    BY IdleIs DEF ChannelOK, roomVars
  <2>5. QED
    BY <2>1, <2>3, <2>4 DEF ChannelOK, AskedWhileOpen, ViewComing
<1>4. QED
  BY <1>1, <1>2, <1>3

LEMMA ViewKeeps == TTableInv /\ ViewArrives => TTableInv'
<1> SUFFICES ASSUME TTableInv, ViewArrives PROVE TTableInv'
  OBVIOUS
<1> USE DEF TTableInv
<1>1. /\ UNCHANGED <<trucoVars, roomVars, mounted>> /\ channel.back # <<>> /\ channel \in Channels
      /\ Repaint([OnView(channel, FALSE) EXCEPT !.back = Tail(@)])
  BY DEF ViewArrives, ChannelOK
<1>2. HandInv' /\ ClocksOK'
  BY <1>1, TableStays
<1>3. PICK v : v = OnView(channel, FALSE)
  OBVIOUS
<1>4. v \in Channels /\ ~v.askOfMe /\ v.back = channel.back
  BY <1>1, <1>3, OnViewIs
<1>5. PICK b \in Seq({"advice", "view"}) : b = Tail(v.back)
  BY <1>1, <1>4, ComingBack DEF Channels
<1>6. PICK c : c = [v EXCEPT !.back = b]
  OBVIOUS
<1>7. c \in Channels /\ ~c.askOfMe
  BY <1>4, <1>6 DEF Channels
<1>8. Repaint(c) /\ UNCHANGED <<events, mounted>>
  BY <1>1, <1>3, <1>5, <1>6 DEF roomVars
<1>9. /\ LanesOK' /\ FeedbackOK' /\ SpokenOK(spoken)' /\ CallLogOK'
      /\ channel' = IF mounted THEN c ELSE channel
  BY <1>8, RepaintKeeps
<1>10. ChannelOK'
  BY <1>1, <1>7, <1>9, IdleIs DEF ChannelOK, AskedWhileOpen
<1>11. QED
  BY <1>1, <1>2, <1>9, <1>10

LEMMA TimePassesOnTable ==
  ASSUME TTableInv, Warn \/ \E l \in Lanes : Fades(l)
  PROVE  TTableInv'
<1> USE DEF TTableInv
<1>1. CASE Warn
  <2>1. HandInv' /\ ClocksOK' /\ CallLogOK' /\ mounted' \in BOOLEAN
    BY <1>1, TableStays DEF Warn
  <2>2. LanesOK' /\ FeedbackOK' /\ ChannelOK'
    BY <1>1 DEF Warn, LanesOK, FeedbackOK, ChannelOK, AskedWhileOpen, ViewComing, roomVars
  <2>3. spoken.warnings = 0 /\ spoken.said = "this" /\ spoken.warned # "this"
    BY <1>1 DEF Warn, SpokenOK
  <2>4. spoken' = [spoken EXCEPT !.warned = "this", !.warnings = 1]
    BY <1>1, <2>3 DEF Warn
  <2>5. spoken' \in [said : Since, warned : Since, asked : BOOLEAN, told : {0, 1}, warnings : {0, 1}]
    BY <2>4 DEF SpokenOK, Since
  <2>6. spoken'.said = "this" /\ spoken'.warned = "this"
    BY <2>3, <2>4 DEF SpokenOK
  <2>7. SpokenOK(spoken')
    BY <2>5, <2>6 DEF SpokenOK
  <2>8. SpokenOK(spoken)'
    BY <2>7 DEF SpokenOK
  <2>9. QED
    BY <2>1, <2>2, <2>8
<1>2. ASSUME NEW l \in Lanes, Fades(l) PROVE TTableInv'
  <2>1. HandInv' /\ ClocksOK' /\ CallLogOK' /\ mounted' \in BOOLEAN
    BY <1>2, TableStays DEF Fades
  <2>2. FeedbackOK' /\ ChannelOK' /\ SpokenOK(spoken)'
    BY <1>2 DEF Fades, FeedbackOK, ChannelOK, AskedWhileOpen, ViewComing, roomVars, SpokenOK
  <2>3. notices[l].timers = 1
    BY <1>2 DEF Fades, LanesOK, Standing, Gone
  <2>4. notices' = [notices EXCEPT ![l] = Gone]
    BY <1>2, <2>3 DEF Fades, Gone
  <2>5. LanesOK'
    BY <2>4 DEF LanesOK
  <2>6. QED
    BY <2>1, <2>2, <2>5
<1>3. QED
  BY <1>1, <1>2
LEMMA TTableInitInv == TableInit => TTableInv
<1> SUFFICES ASSUME TableInit PROVE TTableInv
  OBVIOUS
<1> USE DEF TableInit
<1>1. HandInv
  BY HandInitInv
<1>2. LanesOK /\ FeedbackOK /\ SpokenOK(spoken)
  BY DEF LanesOK, Quiet, Gone, FeedbackOK, NoFeedback, SpokenOK, Silent, Since
<1>3. CallLogOK /\ ClocksOK
  BY DEF CallLogOK, ClocksOK
<1>4. ChannelOK
  BY IdleIs DEF ChannelOK, AskedWhileOpen
<1>5. QED
  BY <1>1, <1>2, <1>3, <1>4 DEF TTableInv

\* A move that is broadcast.
LEMMA MoveKeeps ==
  ASSUME TTableInv, TrucoNext, NEW actor, NEW log, GoesOn(log), NEW signed, Broadcast(actor, log, signed)
  PROVE  TTableInv'
<1>1. HandInv' /\ seatCount' = seatCount
  BY HandStepInv, SeatCountStays DEF TTableInv
<1>2. QED
  BY <1>1, BroadcastKeeps

LEMMA TTableStepInv == TTableInv /\ [TableNext]_screenVars => TTableInv'
<1> SUFFICES ASSUME TTableInv, [TableNext]_screenVars PROVE TTableInv'
  OBVIOUS
<1>1. GoesOn(<<>>) /\ GoesOn(events)
  BY DEF GoesOn
<1>2. ASSUME NEW s \in TrucoSeats, NEW what \in Words PROVE GoesOn(Append(events, <<s, what>>))
  <2>1. s \in Int
    BY TrucoAssumption DEF TTableInv, HandInv, SeatsOK, TrucoSeats
  <2>2. <<s, what>> \in CallSet
    BY <2>1 DEF CallSet
  <2>3. QED
    BY <2>2 DEF GoesOn
<1>3. ASSUME NEW deal \in TrucoDeals(seatCount), StartHand(deal), Broadcast(Nobody, <<>>, FALSE)
      PROVE  TTableInv'
  <2>1. TrucoNext
    BY <1>3 DEF TrucoNext, TrucoMoves
  <2>2. QED
    BY <1>1, <1>3, <2>1, MoveKeeps
<1>4. ASSUME NEW s \in TrucoSeats, NEW c \in hands[s], PlayCard(s, c), Broadcast(s, events, FALSE)
      PROVE  TTableInv'
  <2>1. TrucoNext
    BY <1>4 DEF TrucoNext, TrucoMoves
  <2>2. QED
    BY <1>1, <1>4, <2>1, MoveKeeps
<1>5. ASSUME NEW s \in TrucoSeats, SendSena(s), Broadcast(s, events, s = Partner(Me))
      PROVE  TTableInv'
  <2>1. TrucoNext
    BY <1>5 DEF TrucoNext
  <2>2. QED
    BY <1>1, <1>5, <2>1, MoveKeeps
<1>6. ASSUME NEW s \in TrucoSeats, NEW what \in Words, TrucoNext, Says(s, what)
      PROVE  TTableInv'
  BY <1>2, <1>6, MoveKeeps DEF Says
<1>7. ASSUME NEW s \in TrucoSeats, NEW yes \in BOOLEAN,
             \/ AnswerTruco(s, yes) /\ Says(s, "answers truco")
             \/ AnswerEnvido(s, yes) /\ Says(s, "answers envido")
      PROVE  TTableInv'
  <2>1. TrucoNext
    BY <1>7 DEF TrucoNext, TrucoMoves
  <2>2. Says(s, "answers truco") \/ Says(s, "answers envido")
    BY <1>7
  <2>3. QED
    BY <1>6, <2>1, <2>2 DEF Words
<1>8. ASSUME NEW s \in Callers(seatCount),
             \/ CallTruco(s) /\ Says(s, "truco")
             \/ \E l \in Calls : CallEnvido(s, l) /\ Says(s, "envido")
      PROVE  TTableInv'
  <2>1. s \in TrucoSeats /\ Calls \subseteq 1 .. 4
    BY TrucoTableAssumption DEF TTableInv, HandInv, SeatsOK, TrucoSeats
  <2>2. TrucoNext
    BY <1>8, <2>1 DEF TrucoNext, TrucoMoves
  <2>3. Says(s, "truco") \/ Says(s, "envido")
    BY <1>8
  <2>4. QED
    BY <1>6, <2>1, <2>2, <2>3 DEF Words
<1>9. ASSUME NEW s \in TrucoSeats, NEW how \in {"points", "sonBuenas"}, Declare(s, how), Says(s, how)
      PROVE  TTableInv'
  <2>1. TrucoNext
    BY <1>9 DEF TrucoNext, TrucoMoves
  <2>2. how \in Words
    BY DEF Words
  <2>3. QED
    BY <1>6, <1>9, <2>1, <2>2
<1>10. CASE UNCHANGED screenVars
  <2>1. UNCHANGED <<trucoVars, roomVars>> /\ UNCHANGED tableVars
    BY <1>10 DEF screenVars
  <2>2. HandInv' /\ ClocksOK' /\ CallLogOK'
    BY <2>1, TableStays DEF tableVars
  <2>3. QED
    BY <2>1, <2>2 DEF TTableInv, tableVars, roomVars, LanesOK, FeedbackOK, SpokenOK, ChannelOK,
                      AskedWhileOpen, ViewComing
<1>11. QED
  BY <1>3, <1>4, <1>5, <1>7, <1>8, <1>9, <1>10, MountKeeps, LeaveKeeps, AskKeeps, AskedKeeps,
     AskedByKeeps, ResolveKeeps, AdviceKeeps, ViewKeeps, TimePassesOnTable DEF TableNext

LEMMA TTableInvSays ==
  TTableInv => TableTypeOK /\ NoticesHaveTimers /\ ClockSaidOnce /\ CallsLogged /\ AskedWhileOpen
<1> SUFFICES ASSUME TTableInv
             PROVE  TableTypeOK /\ NoticesHaveTimers /\ ClockSaidOnce /\ CallsLogged /\ AskedWhileOpen
  OBVIOUS
<1> USE DEF TTableInv
<1>1. notices \in [Lanes -> [up : BOOLEAN, timers : Nat]] /\ NoticesHaveTimers
  <2>1. Standing \in [up : BOOLEAN, timers : Nat] /\ Gone \in [up : BOOLEAN, timers : Nat]
    BY DEF Standing, Gone
  <2>2. ASSUME NEW l \in Lanes
        PROVE  /\ notices[l] \in [up : BOOLEAN, timers : Nat]
               /\ notices[l].timers = IF notices[l].up THEN 1 ELSE 0
    <3>1. notices[l] = Standing \/ notices[l] = Gone
      BY DEF LanesOK
    <3>2. CASE notices[l] = Standing
      BY <2>1, <3>2 DEF Standing
    <3>3. CASE notices[l] = Gone
      BY <2>1, <3>3 DEF Gone
    <3>4. QED
      BY <3>1, <3>2, <3>3
  <2>3. notices \in [Lanes -> [up : BOOLEAN, timers : Nat]]
    BY <2>2 DEF LanesOK
  <2>4. QED
    BY <2>2, <2>3 DEF NoticesHaveTimers
<1>2. feedback.text \in Seq(Teams \cup {NoTeam}) /\ feedback.seen \in 0 .. 3
  BY DEF FeedbackOK, Outcomes
<1>3. /\ spoken.said \in {"none", "this", "old"} /\ spoken.warned \in {"none", "this", "old"}
      /\ ClockSaidOnce
  BY DEF SpokenOK, Since, ClockSaidOnce
<1>4. /\ channel.sent \in {"", "pending-call", "envido"}
      /\ channel.back \in Seq({"advice", "view"}) /\ AskedWhileOpen
  BY DEF ChannelOK, Channels
<1>5. CallsLogged
  BY DEF CallLogOK, CallsLogged, Printed
<1>6. {clock, consult} \subseteq TrucoSeats \cup {Nobody}
  BY DEF ClocksOK
<1>7. QED
  BY <1>1, <1>2, <1>3, <1>4, <1>5, <1>6 DEF TableTypeOK

-----------------------------------------------------------------------------
(* The page.                                                                 *)

InFlight == {"token", "joining", "queued", "taking"}
Whereabouts   == InFlight \cup {"live", "dropped", "left", "failed", "lost"}
Attempts == [game : Games0, rival : {"person", "bot"}, at : Whereabouts]
Kinds    == {"blank", "families", "lobby", "status", "error", "table"}

\* A family of several games has others beside it: the one page whose only family has
\* several modes paints counts from its first watcher on (screens_lobby).
NotOneFamilyOfModes(c) == Len(c) = 1 \/ Cardinality({ FamilyOf[g] : g \in ToSet(c) }) # 1

Pages ==
  [boot : {"hello", "resume", "watch", "done", "dead"}, tried : 0 .. Retries,
   resumed : BOOLEAN, watching : 0 .. Len(catalog), known : SUBSET Games0,
   opened : Families \cup {NoFamily}, departed : BOOLEAN]

PageTyped ==
  /\ catalog \in Catalogs /\ storing \in BOOLEAN
  /\ frame \in {"loading", "greeted", "gone"} /\ layout \in {"inline", "fullscreen"}
  /\ tries \in Seq(Attempts) /\ session \in 0 .. Len(tries)
  /\ page \in Pages
  /\ screen \in [kind : Kinds, games : SUBSET Games0, of : 0 .. Len(tries)]
  /\ screen.games \subseteq page.known

\* What boot has painted: nothing, until a match is taken up or the last watcher is on.
BootPaints ==
  /\ page.boot = "hello" <=> frame # "greeted"
  /\ page.boot = "hello" => screen.kind = "blank"
  /\ page.boot = "resume" => session # 0 /\ screen.kind = "blank"
  /\ page.boot \in {"watch", "dead"} /\ ~page.resumed => screen.kind = "blank"
  /\ page.boot \in {"hello", "resume"} => page.watching = 0
  /\ page.boot = "watch" /\ catalog # <<>> => page.watching < Len(catalog)
  /\ screen.kind = "blank" =>
       /\ ~page.departed /\ ~page.resumed /\ page.boot # "done"
       /\ page.opened = FreshPage.opened
       /\ Cardinality(Families) = 1 => page.watching = 0
       /\ page.boot \in {"watch", "dead"} => session = 0

\* The attempts that may still paint: waiting for the server, or in a match.
MayPaint(n) == tries[n].at \in InFlight \cup {"live"}

\* Which attempt a screen is of, and what is stored meanwhile.
OnScreen ==
  /\ layout = "fullscreen" <=> screen.kind = "table"
  /\ session # 0 => tries[session].at \in {"live", "dropped"}
  /\ screen.kind \in {"blank", "families", "lobby"} =>
       ~page.departed /\ \A n \in DOMAIN tries : ~MayPaint(n)
  /\ screen.kind \in {"families", "lobby", "status", "error"} => session = 0
  /\ screen.kind = "status" =>
       /\ page.departed
       /\ \A n \in DOMAIN tries : MayPaint(n) => n = Len(tries) /\ tries[n].at \in InFlight
  /\ screen.kind = "error" =>
       /\ page.departed /\ screen.of \in DOMAIN tries
       /\ \A n \in DOMAIN tries : ~MayPaint(n)
  /\ screen.kind = "table" =>
       /\ page.departed /\ screen.of \in DOMAIN tries /\ screen.games = {}
       /\ session \in {0, screen.of} /\ tries[screen.of].at \in {"live", "dropped"}
       /\ \A n \in DOMAIN tries : MayPaint(n) => n = screen.of

WidgetInv == PageTyped /\ BootPaints /\ OnScreen

LEMMA FamiliesOfCatalog ==
  ASSUME catalog \in Catalogs
  PROVE  /\ catalog \in Seq(Games0) /\ Len(catalog) \in Nat
         /\ \A g \in Games0 : FamilyOf[g] \in Families /\ FamilyOf[g] # NoFamily
         /\ FreshPage \in Pages /\ FreshPage.boot = "hello" /\ ~FreshPage.resumed
         /\ FreshPage.watching = 0 /\ FreshPage.known = {} /\ ~FreshPage.departed
         /\ Cardinality(Families) # 1 => FreshPage.opened = NoFamily
<1>1. catalog \in Seq(DOMAIN FamilyOf)
  BY WidgetAssumption
<1>2. catalog \in Seq(Games0) /\ Games0 \subseteq DOMAIN FamilyOf /\ Len(catalog) \in Nat
  BY <1>1 DEF Games0, ToSet
<1>3. \A g \in Games0 : FamilyOf[g] \in Families /\ FamilyOf[g] # NoFamily
  BY <1>2, WidgetAssumption DEF Families
<1>4. Cardinality(Families) = 1 => OnlyFamily \in Families
  <2>1. Cardinality(Families) = 1 => Families # {}
    BY FS_EmptySet
  <2>2. QED
    BY <2>1 DEF OnlyFamily
<1>5. PICK o : o = IF Cardinality(Families) = 1 THEN OnlyFamily ELSE NoFamily
  OBVIOUS
<1>6. o \in Families \cup {NoFamily} /\ (Cardinality(Families) # 1 => o = NoFamily)
  BY <1>4, <1>5
<1>7. FreshPage = [boot |-> "hello", tried |-> 0, resumed |-> FALSE, watching |-> 0,
                   known |-> {}, opened |-> o, departed |-> FALSE]
  BY <1>5 DEF FreshPage
<1>8. 0 \in 0 .. Retries /\ 0 \in 0 .. Len(catalog)
  BY <1>2, WidgetAssumption
<1>9. FreshPage \in Pages
  BY <1>6, <1>7, <1>8 DEF Pages
<1>10. QED
  BY <1>2, <1>3, <1>6, <1>7, <1>9

LEMMA ScreensPainted ==
  /\ Blank.kind = "blank" /\ Blank.games = {} /\ Blank.of = 0
  /\ Blank \in [kind : Kinds, games : SUBSET Games0, of : {0}]
  /\ Searching.kind = "status" /\ Searching.games = {} /\ Searching.of = 0
  /\ Searching \in [kind : Kinds, games : SUBSET Games0, of : {0}]
  /\ \A n : /\ Retry(n).kind = "error" /\ Retry(n).games = {} /\ Retry(n).of = n
            /\ Retry(n) \in [kind : Kinds, games : SUBSET Games0, of : {n}]
            /\ Table(n).kind = "table" /\ Table(n).games = {} /\ Table(n).of = n
            /\ Table(n) \in [kind : Kinds, games : SUBSET Games0, of : {n}]
  /\ \A family, known : /\ Lobby(family, known).kind \in {"families", "lobby"}
                        /\ Lobby(family, known).games \subseteq known
                        /\ Lobby(family, known).of = 0
  BY DEF Blank, Searching, Retry, Table, Lobby, Screen, Kinds

LEMMA LobbyTyped ==
  ASSUME NEW family, NEW known \in SUBSET Games0
  PROVE  Lobby(family, known) \in [kind : Kinds, games : SUBSET Games0, of : {0}]
  BY DEF Lobby, Screen, Kinds

\* An attempt that takes a step, and no other one with it.
LEMMA OneTakesAStep ==
  ASSUME tries \in Seq(Attempts), NEW n \in DOMAIN tries, NEW place \in Whereabouts, Doing(n, place)
  PROVE  /\ tries' \in Seq(Attempts) /\ Len(tries') = Len(tries) /\ DOMAIN tries' = DOMAIN tries
         /\ tries'[n].at = place
         /\ \A m \in DOMAIN tries : m # n => tries'[m] = tries[m]
<1>1. tries' = [tries EXCEPT ![n] = [tries[n] EXCEPT !.at = place]]
  BY DEF Doing
<1>2. tries[n] \in Attempts
  OBVIOUS
<1>3. [tries[n] EXCEPT !.at = place] \in Attempts /\ [tries[n] EXCEPT !.at = place].at = place
  BY <1>2 DEF Attempts
<1>4. n \in 1 .. Len(tries) /\ DOMAIN tries = 1 .. Len(tries)
  OBVIOUS
<1>5. tries' \in Seq(Attempts) /\ Len(tries') = Len(tries)
  BY <1>1, <1>3, <1>4, ExceptSeq
<1>6. QED
  BY <1>1, <1>3, <1>4, <1>5

LEMMA WidgetInitInv == WidgetInit => WidgetInv
<1> SUFFICES ASSUME WidgetInit PROVE WidgetInv
  OBVIOUS
<1>1. catalog \in Catalogs
  BY DEF WidgetInit
<1>2. /\ session = 0 /\ tries = <<>> /\ frame = "loading" /\ layout = "inline"
      /\ screen = Blank /\ page = FreshPage /\ storing \in BOOLEAN
  BY DEF WidgetInit
<1>3. PageTyped
  BY <1>1, <1>2, FamiliesOfCatalog, ScreensPainted DEF PageTyped
<1>4. BootPaints
  BY <1>1, <1>2, FamiliesOfCatalog, ScreensPainted DEF BootPaints
<1>5. OnScreen
  BY <1>1, <1>2, FamiliesOfCatalog, ScreensPainted DEF OnScreen
<1>6. QED
  BY <1>3, <1>4, <1>5 DEF WidgetInv

LEMMA CatalogStays ==
  ASSUME UNCHANGED embedVars
  PROVE  UNCHANGED <<catalog, storing, Games0, Families, FreshPage, Pages, Attempts>>
  BY DEF embedVars, Games0, Families, FreshPage, OnlyFamily, Pages, Attempts

\* A step that leaves the attempts, the session and what is painted.
LEMMA BootStep ==
  ASSUME PageTyped, OnScreen, UNCHANGED <<embedVars, tries, layout, screen>>,
         session' \in {0, session}, session' # session => screen.kind # "table",
         frame' \in {"loading", "greeted", "gone"},
         page' \in Pages, page'.departed = page.departed, page.known \subseteq page'.known
  PROVE  PageTyped' /\ OnScreen'
<1>1. PageTyped'
  BY CatalogStays DEF PageTyped
<1>2. OnScreen'
  BY DEF OnScreen, PageTyped, MayPaint
<1>3. QED
  BY <1>1, <1>2

LEMMA Booting ==
  ASSUME WidgetInv, HostHello \/ ReadyTimeout \/ ResumeRefused \/ WatchRefused
  PROVE  WidgetInv'
<1> USE DEF WidgetInv
<1>1. UNCHANGED <<embedVars, tries, layout, screen>> /\ page \in Pages
  BY DEF HostHello, ReadyTimeout, ResumeRefused, WatchRefused, PageTyped
<1>2. UNCHANGED <<catalog, Families, FreshPage, Pages>> /\ catalog \in Catalogs
  BY <1>1, CatalogStays DEF PageTyped
<1>3. CASE HostHello
  <2>1. page' \in Pages /\ page' = [page EXCEPT !.boot = page'.boot]
    BY <1>1, <1>3 DEF HostHello, Pages
  <2>2. PageTyped' /\ OnScreen'
    BY <1>1, <1>3, <2>1, BootStep DEF HostHello, Pages
  <2>3. BootPaints'
    <3>1. catalog # <<>> => 0 < Len(catalog)
      BY <1>2, FamiliesOfCatalog
    <3>2. QED
      BY <1>1, <1>2, <1>3, <2>1, <3>1 DEF HostHello, BootPaints, Pages
  <2>4. QED
    BY <2>2, <2>3
<1>4. CASE ReadyTimeout
  <2>1. PageTyped' /\ OnScreen'
    BY <1>1, <1>4, BootStep DEF ReadyTimeout
  <2>2. BootPaints'
    BY <1>1, <1>2, <1>4 DEF ReadyTimeout, BootPaints
  <2>3. QED
    BY <2>1, <2>2
<1>5. CASE ResumeRefused
  <2>1. /\ page' \in Pages /\ page'.departed = page.departed /\ page'.known = page.known
        /\ page'.resumed = page.resumed /\ page'.watching = page.watching
        /\ page'.opened = page.opened
    BY <1>1, <1>5, WidgetAssumption DEF ResumeRefused, Pages
  <2>2. PageTyped' /\ OnScreen'
    BY <1>1, <1>5, <2>1, BootStep DEF ResumeRefused, BootPaints, PageTyped
  <2>3. BootPaints'
    <3>1. catalog # <<>> => 0 < Len(catalog)
      BY <1>2, FamiliesOfCatalog
    <3>2. page'.boot \in {"resume", "watch"} /\ (page'.boot = "resume" => session' # 0)
          /\ (page'.boot = "watch" => session' = 0)
      BY <1>5, <1>1 DEF ResumeRefused, BootPaints, Pages
    <3>3. QED
      BY <1>1, <1>2, <1>5, <2>1, <3>1, <3>2 DEF ResumeRefused, BootPaints
  <2>4. QED
    BY <2>2, <2>3
<1>6. CASE WatchRefused
  <2>1. page' \in Pages /\ page' = [page EXCEPT !.boot = "dead"]
    BY <1>1, <1>6 DEF WatchRefused, Pages
  <2>2. PageTyped' /\ OnScreen'
    BY <1>1, <1>6, <2>1, BootStep DEF WatchRefused, Pages, PageTyped
  <2>3. BootPaints'
    BY <1>1, <1>2, <1>6, <2>1 DEF WatchRefused, BootPaints, Pages
  <2>4. QED
    BY <2>2, <2>3
<1>7. QED
  BY <1>3, <1>4, <1>5, <1>6

\* A match taken up again.
LEMMA Resuming ==
  ASSUME WidgetInv, Resumed
  PROVE  WidgetInv'
<1> USE DEF WidgetInv
<1>0. UNCHANGED <<catalog, Games0, Families, FreshPage, Pages, Attempts>> /\ catalog \in Catalogs
  BY CatalogStays DEF Resumed, PageTyped
<1>1. /\ page.boot = "resume" /\ session # 0 /\ session \in DOMAIN tries
      /\ tries[session].at = "dropped" /\ Doing(session, "live")
      /\ session' \in {0, session} /\ screen' = Table(session) /\ layout' = "fullscreen"
      /\ frame = "greeted" /\ frame' = frame /\ storing' = storing
      /\ screen.kind = "blank" /\ page.watching = 0
  BY DEF Resumed, EnterMatch, Persist, BootPaints, PageTyped, Loaded, embedVars
<1>2. /\ page' \in Pages /\ page'.boot = "watch" /\ page'.resumed /\ page'.departed
      /\ page'.watching = page.watching /\ page'.known = page.known
  BY <1>0 DEF Resumed, PageTyped, Pages
<1>3. /\ tries' \in Seq(Attempts) /\ Len(tries') = Len(tries) /\ DOMAIN tries' = DOMAIN tries
      /\ tries'[session].at = "live"
      /\ \A m \in DOMAIN tries : m # session => tries'[m] = tries[m]
  BY <1>1, OneTakesAStep DEF PageTyped, Whereabouts
<1>4. screen'.kind = "table" /\ screen'.games = {} /\ screen'.of = session
  BY <1>1, ScreensPainted
<1>5. screen' \in [kind : Kinds, games : SUBSET Games0, of : {session}]
  BY <1>1, ScreensPainted
<1>6. PageTyped'
  BY <1>0, <1>1, <1>2, <1>3, <1>4, <1>5 DEF PageTyped
<1>7. BootPaints'
  <2>1. catalog # <<>> => 0 < Len(catalog)
    BY <1>0, FamiliesOfCatalog
  <2>2. QED
    BY <1>0, <1>1, <1>2, <1>4, <2>1 DEF BootPaints
<1>8. \A n \in DOMAIN tries : n # session => ~MayPaint(n)'
  BY <1>1, <1>3 DEF OnScreen, MayPaint
<1>9. OnScreen'
  BY <1>1, <1>2, <1>3, <1>4, <1>8 DEF OnScreen
<1>10. QED
  BY <1>6, <1>7, <1>9

\* The lobby is painted, where it may be.
LEMMA LobbyStep ==
  ASSUME WidgetInv, UNCHANGED <<embedVars, tries, frame, layout, session>>,
         screen.kind \in {"blank", "families", "lobby"}, session = 0, layout = "inline",
         page' \in Pages, page'.departed = page.departed,
         screen' = Lobby(page'.opened, page'.known)
  PROVE  PageTyped' /\ OnScreen' /\ screen'.kind \in {"families", "lobby"}
<1> USE DEF WidgetInv
<1>0. UNCHANGED <<catalog, Games0, Families, FreshPage, Pages, Attempts>> /\ catalog \in Catalogs
  BY CatalogStays DEF PageTyped
<1>1. screen'.kind \in {"families", "lobby"} /\ screen'.games \subseteq page'.known /\ screen'.of = 0
  BY ScreensPainted
<1>2. screen' \in [kind : Kinds, games : SUBSET Games0, of : {0}]
  <2>1. page'.known \in SUBSET Games0
    BY DEF Pages
  <2>2. QED
    BY <2>1, LobbyTyped
<1>3. PageTyped'
  BY <1>0, <1>1, <1>2 DEF PageTyped, embedVars
<1>4. OnScreen'
  BY <1>1 DEF OnScreen, PageTyped, MayPaint
<1>5. QED
  BY <1>1, <1>3, <1>4

LEMMA Watching ==
  ASSUME WidgetInv, Watch, NotOneFamilyOfModes(catalog)
  PROVE  WidgetInv'
<1> USE DEF WidgetInv
<1>0. /\ UNCHANGED <<catalog, Games0, Families, FreshPage, Pages, Attempts>> /\ catalog \in Catalogs
      /\ catalog \in Seq(Games0) /\ Len(catalog) \in Nat
  BY CatalogStays, FamiliesOfCatalog DEF Watch, PageTyped
<1>1. PICK n : n = IF catalog = <<>> THEN 0 ELSE page.watching + 1
  OBVIOUS
<1>2. /\ page.boot = "watch" /\ frame = "greeted"
      /\ page' = [page EXCEPT !.watching = n, !.boot = IF n = Len(catalog) THEN "done" ELSE @]
      /\ screen' = IF n = Len(catalog) /\ ~page.resumed THEN Lobby(page.opened, page.known) ELSE screen
      /\ UNCHANGED <<embedVars, tries, frame, layout, session>>
  BY <1>1 DEF Watch, LobbyAtEnd, Loaded
<1>3. n \in 0 .. Len(catalog) /\ (catalog = <<>> => n = Len(catalog))
  BY <1>0, <1>1, <1>2 DEF BootPaints, PageTyped, Pages
<1>4. /\ page' \in Pages /\ page'.departed = page.departed /\ page'.known = page.known
      /\ page'.opened = page.opened /\ page'.resumed = page.resumed /\ page'.watching = n
      /\ page'.boot = IF n = Len(catalog) THEN "done" ELSE "watch"
  BY <1>0, <1>2, <1>3 DEF PageTyped, Pages
<1>5. CASE n = Len(catalog) /\ ~page.resumed
  <2>1. /\ screen.kind = "blank" /\ session = 0 /\ layout = "inline"
    BY <1>2, <1>5 DEF BootPaints, OnScreen, PageTyped
  <2>2. PageTyped' /\ OnScreen' /\ screen'.kind \in {"families", "lobby"}
    BY <1>2, <1>4, <1>5, <2>1, LobbyStep
  <2>3. BootPaints'
    BY <1>2, <1>4, <1>5, <2>2 DEF BootPaints
  <2>4. QED
    BY <2>2, <2>3
<1>6. CASE ~(n = Len(catalog) /\ ~page.resumed)
  <2>1. screen' = screen
    BY <1>2, <1>6
  <2>2. PageTyped' /\ OnScreen'
    BY <1>2, <1>4, <2>1, BootStep DEF PageTyped
  <2>3. screen.kind = "blank" => Cardinality(Families) # 1
    <3>1. Len(catalog) = 1 => n = Len(catalog)
      BY <1>0, <1>1, <1>2, <1>3 DEF BootPaints, PageTyped, Pages
    <3>2. screen.kind = "blank" => ~page.resumed
      BY DEF BootPaints
    <3>3. QED
      BY <1>6, <3>1, <3>2 DEF PageTyped, NotOneFamilyOfModes, Families, Games0
  <2>4. BootPaints'
    BY <1>0, <1>2, <1>3, <1>4, <1>6, <2>1, <2>3 DEF BootPaints
  <2>5. QED
    BY <2>2, <2>4
<1>7. QED
  BY <1>5, <1>6

LEMMA Reloads ==
  ASSUME WidgetInv, Reload
  PROVE  WidgetInv'
<1> USE DEF WidgetInv
<1>0. /\ UNCHANGED <<catalog, Games0, Families, FreshPage, Pages, Attempts>> /\ catalog \in Catalogs
      /\ storing' = storing /\ session' = session
  BY CatalogStays DEF Reload, PageTyped, embedVars
<1>1. frame' = "loading" /\ layout' = "inline" /\ screen' = Blank /\ page' = FreshPage
  BY DEF Reload
<1>2. /\ tries' \in Seq(Attempts) /\ Len(tries') = Len(tries) /\ DOMAIN tries' = DOMAIN tries
      /\ \A n \in DOMAIN tries :
           tries'[n].at = IF tries[n].at \in {"live", "dropped"} THEN "dropped" ELSE "lost"
  <2>1. PICK k \in Nat : DOMAIN tries = 1 .. k /\ k = Len(tries)
    BY DEF PageTyped
  <2>2. \A n \in 1 .. k : tries[n] \in Attempts
    BY <2>1 DEF PageTyped
  <2>3. tries' = [n \in 1 .. k |->
           [tries[n] EXCEPT !.at = IF tries[n].at \in {"live", "dropped"} THEN "dropped" ELSE "lost"]]
    BY <2>1 DEF Reload
  <2>4. ASSUME NEW n \in 1 .. k
        PROVE  /\ tries'[n] \in Attempts
               /\ tries'[n].at = IF tries[n].at \in {"live", "dropped"} THEN "dropped" ELSE "lost"
    BY <2>2, <2>3, <2>4 DEF Attempts, Whereabouts
  <2>5. tries' \in [1 .. k -> Attempts]
    BY <2>3, <2>4
  <2>6. tries' \in Seq(Attempts) /\ Len(tries') = k
    BY <2>5
  <2>7. QED
    BY <2>1, <2>3, <2>4, <2>6
<1>3. screen'.kind = "blank" /\ screen'.games = {} /\ screen'.of = 0
      /\ screen' \in [kind : Kinds, games : SUBSET Games0, of : {0}]
  BY <1>1, ScreensPainted
<1>4. PageTyped'
  BY <1>0, <1>1, <1>2, <1>3, FamiliesOfCatalog DEF PageTyped
<1>5. BootPaints'
  BY <1>0, <1>1, <1>3, FamiliesOfCatalog DEF BootPaints
<1>6. \A n \in DOMAIN tries : ~MayPaint(n)'
  BY <1>2 DEF MayPaint, InFlight
<1>7. OnScreen'
  BY <1>0, <1>1, <1>2, <1>3, <1>6, FamiliesOfCatalog DEF OnScreen, PageTyped
<1>8. QED
  BY <1>4, <1>5, <1>7

LEMMA Counting ==
  ASSUME WidgetInv, NEW g \in Games0, Counts(g)
  PROVE  WidgetInv'
<1> USE DEF WidgetInv
<1>0. /\ UNCHANGED <<catalog, Games0, Families, FreshPage, Pages, Attempts>> /\ catalog \in Catalogs
      /\ FamilyOf[g] # NoFamily /\ FamilyOf[g] \in Families
  BY CatalogStays, FamiliesOfCatalog DEF Counts, PageTyped
<1>1. /\ frame = "greeted" /\ page.watching > 0
      /\ page' = [page EXCEPT !.known = @ \cup {g}]
      /\ screen' = IF ~page.departed /\ page.opened = FamilyOf[g]
                     THEN Lobby(page.opened, page'.known) ELSE screen
      /\ UNCHANGED <<embedVars, tries, frame, layout, session>>
  BY DEF Counts, CountsPaint, Affects, Loaded, PageTyped, Pages
<1>2. /\ page' \in Pages /\ page'.departed = page.departed /\ page.known \subseteq page'.known
      /\ page'.opened = page.opened /\ page'.resumed = page.resumed /\ page'.watching = page.watching
      /\ page'.boot = page.boot
  BY <1>0, <1>1 DEF PageTyped, Pages
<1>3. CASE ~page.departed /\ page.opened = FamilyOf[g]
  <2>1. screen.kind # "blank"
    <3>1. Cardinality(Families) # 1 => FreshPage.opened = NoFamily
      BY <1>0, FamiliesOfCatalog
    <3>2. QED
      BY <1>0, <1>1, <1>3, <3>1 DEF BootPaints
  <2>2. screen.kind \in {"families", "lobby"}
    BY <1>3, <2>1 DEF OnScreen, PageTyped, Kinds
  <2>3. session = 0 /\ layout = "inline"
    BY <2>2 DEF OnScreen, PageTyped
  <2>4. PageTyped' /\ OnScreen' /\ screen'.kind \in {"families", "lobby"}
    BY <1>1, <1>2, <1>3, <2>2, <2>3, LobbyStep
  <2>5. BootPaints'
    BY <1>0, <1>1, <1>2, <2>2, <2>4 DEF BootPaints
  <2>6. QED
    BY <2>4, <2>5
<1>4. CASE ~(~page.departed /\ page.opened = FamilyOf[g])
  <2>1. screen' = screen
    BY <1>1, <1>4
  <2>2. PageTyped' /\ OnScreen'
    BY <1>1, <1>2, <2>1, BootStep DEF PageTyped
  <2>3. BootPaints'
    BY <1>0, <1>1, <1>2, <2>1 DEF BootPaints
  <2>4. QED
    BY <2>2, <2>3
<1>5. QED
  BY <1>3, <1>4

\* From the list of games to one of them, and back.
LEMMA Showing ==
  ASSUME WidgetInv, screen.kind \in {"families", "lobby"}, frame = "greeted",
         NEW family \in Families \cup {NoFamily}, Show(family)
  PROVE  WidgetInv'
<1> USE DEF WidgetInv
<1>0. UNCHANGED <<catalog, Games0, Families, FreshPage, Pages, Attempts>>
  BY CatalogStays DEF Show
<1>1. /\ page' = [page EXCEPT !.opened = family] /\ screen' = Lobby(family, page.known)
      /\ UNCHANGED <<embedVars, tries, frame, layout, session>>
  BY DEF Show
<1>2. /\ page' \in Pages /\ page'.departed = page.departed /\ page.known = page'.known
      /\ page'.opened = family /\ page'.resumed = page.resumed /\ page'.watching = page.watching
      /\ page'.boot = page.boot
  BY <1>1 DEF PageTyped, Pages
<1>3. session = 0 /\ layout = "inline"
  BY DEF OnScreen, PageTyped
<1>4. PageTyped' /\ OnScreen' /\ screen'.kind \in {"families", "lobby"}
  BY <1>1, <1>2, <1>3, LobbyStep
<1>5. BootPaints'
  BY <1>0, <1>1, <1>2, <1>4 DEF BootPaints
<1>6. QED
  BY <1>4, <1>5

\* An attempt is made from the lobby or from the error of the one before.
LEMMA Attempting ==
  ASSUME WidgetInv, screen.kind \in {"lobby", "error"}, frame = "greeted",
         NEW g \in Games0, NEW rival \in {"person", "bot"}, Attempt(g, rival),
         UNCHANGED <<embedVars, session, frame, layout>>,
         page' = [page EXCEPT !.departed = TRUE]
  PROVE  WidgetInv'
<1> USE DEF WidgetInv
<1>0. UNCHANGED <<catalog, Games0, Families, FreshPage, Pages, Attempts>>
  BY CatalogStays DEF PageTyped
<1>1. /\ page' \in Pages /\ page'.departed /\ page.known = page'.known
      /\ page'.opened = page.opened /\ page'.resumed = page.resumed /\ page'.watching = page.watching
      /\ page'.boot = page.boot
  BY DEF PageTyped, Pages
<1>2. /\ screen'.kind = "status" /\ screen'.games = {} /\ screen'.of = 0
      /\ screen' \in [kind : Kinds, games : SUBSET Games0, of : {0}]
  BY ScreensPainted DEF Attempt
<1>3. [game |-> g, rival |-> rival, at |-> "token"] \in Attempts
  BY DEF Attempts, Whereabouts, InFlight
<1>4. /\ tries' \in Seq(Attempts) /\ Len(tries') = Len(tries) + 1
      /\ \A n \in DOMAIN tries : tries'[n] = tries[n]
      /\ tries'[Len(tries) + 1].at = "token"
      /\ DOMAIN tries' = DOMAIN tries \cup {Len(tries) + 1}
  BY <1>3 DEF Attempt, PageTyped
<1>5. PageTyped'
  BY <1>0, <1>1, <1>2, <1>4 DEF PageTyped, embedVars
<1>6. BootPaints'
  BY <1>0, <1>1, <1>2 DEF BootPaints
<1>7. \A n \in DOMAIN tries : ~MayPaint(n)'
  BY <1>4 DEF OnScreen, MayPaint
<1>8. session = 0
  BY DEF OnScreen
<1>9. OnScreen'
  BY <1>1, <1>2, <1>4, <1>7, <1>8 DEF OnScreen, InFlight
<1>10. QED
  BY <1>5, <1>6, <1>9

LEMMA Pressing ==
  ASSUME WidgetInv,
         \/ \E g \in Games0, rival \in {"person", "bot"} : PressPlay(g, rival)
         \/ \E f \in Families : OpenGame(f)
         \/ Back \/ TryAgain
  PROVE  WidgetInv'
<1>1. ASSUME NEW g \in Games0, NEW rival \in {"person", "bot"}, PressPlay(g, rival) PROVE WidgetInv'
  BY <1>1, Attempting DEF PressPlay, Loaded
<1>2. ASSUME NEW f \in Families, OpenGame(f) PROVE WidgetInv'
  BY <1>2, Showing DEF OpenGame, Loaded
<1>3. CASE Back
  BY <1>3, Showing DEF Back, Loaded
<1>4. CASE TryAgain
  <2>1. screen.of \in DOMAIN tries /\ page.departed
    BY <1>4 DEF TryAgain, WidgetInv, OnScreen
  <2>2. tries[screen.of] \in Attempts
    BY <2>1 DEF WidgetInv, PageTyped
  <2>3. page' = [page EXCEPT !.departed = TRUE]
    BY <1>4, <2>1 DEF TryAgain, WidgetInv, PageTyped, Pages
  <2>4. QED
    BY <1>4, <2>2, <2>3, Attempting DEF TryAgain, Loaded, Attempts
<1>5. QED
  BY <1>1, <1>2, <1>3, <1>4

\* A step of an attempt: what it leaves of the others, and of the page.
LEMMA AttemptStep ==
  ASSUME WidgetInv, NEW n \in DOMAIN tries, NEW place \in Whereabouts, Doing(n, place),
         UNCHANGED <<embedVars, frame, page>>, session' \in {0, n, session},
         layout' \in {"inline", "fullscreen"}, screen'.games = {},
         screen' \in [kind : Kinds, games : SUBSET Games0, of : {0, n}],
         page.boot \notin {"hello", "resume"}, screen.kind # "blank", screen'.kind # "blank"
  PROVE  /\ PageTyped' /\ BootPaints' /\ DOMAIN tries' = DOMAIN tries
         /\ tries'[n].at = place /\ Len(tries') = Len(tries)
         /\ \A m \in DOMAIN tries : m # n => tries'[m] = tries[m]
<1>0. UNCHANGED <<catalog, Games0, Families, FreshPage, Pages, Attempts>>
  BY CatalogStays DEF WidgetInv, PageTyped
<1>1. /\ tries' \in Seq(Attempts) /\ Len(tries') = Len(tries) /\ DOMAIN tries' = DOMAIN tries
      /\ tries'[n].at = place
      /\ \A m \in DOMAIN tries : m # n => tries'[m] = tries[m]
  BY OneTakesAStep DEF WidgetInv, PageTyped
<1>2. {0, n} \subseteq 0 .. Len(tries)
  BY DEF WidgetInv, PageTyped
<1>3. PageTyped'
  BY <1>0, <1>1, <1>2 DEF WidgetInv, PageTyped, embedVars
<1>4. BootPaints'
  BY <1>0 DEF WidgetInv, BootPaints
<1>5. QED
  BY <1>1, <1>3, <1>4

LEMMA Playing ==
  ASSUME WidgetInv, NEW n \in DOMAIN tries,
         Answered(n) \/ Joined(n) \/ Failed(n) \/ View(n) \/ Drop(n)
  PROVE  WidgetInv'
<1> USE DEF WidgetInv
<1>0. frame = "greeted" /\ UNCHANGED <<embedVars, frame, page>> /\ MayPaint(n)
  BY DEF Answered, Joined, Failed, View, Drop, Loaded, MayPaint, InFlight, Follows
<1>1. screen.kind \in {"status", "table"}
  BY <1>0 DEF OnScreen, PageTyped, Kinds
<1>2. page.boot \notin {"hello", "resume"}
  BY <1>1 DEF BootPaints
<1>3. ASSUME tries[n].at \in InFlight
      PROVE  /\ screen.kind = "status" /\ session = 0 /\ page.departed
             /\ \A m \in DOMAIN tries : m # n => ~MayPaint(m)
  BY <1>1, <1>3, <1>0 DEF OnScreen, InFlight
<1>4. CASE Answered(n)
  <2>1. PICK place \in InFlight : Doing(n, place) /\ tries[n].at \in InFlight
    BY <1>4 DEF Answered, Follows, InFlight
  <2>2. screen' = screen /\ layout' = layout /\ session' = session /\ page' = page
    BY <1>4 DEF Answered
  <2>3. CASE n = Len(tries)
    <3>1. tries \in Seq(Attempts) /\ screen \in [kind : Kinds, games : SUBSET Games0, of : 0 .. Len(tries)]
      BY DEF PageTyped
    <3>2. /\ tries' \in Seq(Attempts) /\ Len(tries') = Len(tries) /\ DOMAIN tries' = DOMAIN tries
          /\ tries'[n].at = place
          /\ \A m \in DOMAIN tries : m # n => tries'[m] = tries[m]
      BY <2>1, <3>1, OneTakesAStep DEF Whereabouts
    <3>3. PageTyped'
      BY <1>0, <2>2, <3>2, CatalogStays DEF PageTyped
    <3>4. BootPaints'
      BY <1>0, <2>2, CatalogStays DEF BootPaints
    <3>5. OnScreen'
      BY <1>3, <2>1, <2>2, <2>3, <3>2 DEF OnScreen, MayPaint
    <3>6. QED
      BY <3>3, <3>4, <3>5
  <2>4. n = Len(tries)
    BY <1>0, <1>3, <2>1 DEF OnScreen
  <2>5. QED
    BY <2>3, <2>4
<1>5. CASE Joined(n)
  <2>1. /\ tries[n].at \in InFlight /\ Doing(n, "live") /\ layout' = "fullscreen"
        /\ screen' = Table(n) /\ session' \in {0, n, session}
    BY <1>5 DEF Joined, EnterMatch, Persist, InFlight
  <2>2. screen'.kind = "table" /\ screen'.games = {} /\ screen'.of = n
        /\ screen' \in [kind : Kinds, games : SUBSET Games0, of : {n}]
    BY <2>1, ScreensPainted
  <2>3. /\ PageTyped' /\ BootPaints' /\ DOMAIN tries' = DOMAIN tries /\ tries'[n].at = "live"
        /\ \A m \in DOMAIN tries : m # n => tries'[m] = tries[m]
    BY <1>0, <1>1, <1>2, <2>1, <2>2, AttemptStep DEF Whereabouts
  <2>4. OnScreen'
    BY <1>0, <1>3, <2>1, <2>2, <2>3 DEF OnScreen, MayPaint
  <2>5. QED
    BY <2>3, <2>4
<1>6. CASE Failed(n)
  <2>1. /\ tries[n].at \in InFlight /\ Doing(n, "failed") /\ layout' = layout
        /\ screen' = Retry(n) /\ session' = session
    BY <1>6 DEF Failed, InFlight
  <2>2. screen'.kind = "error" /\ screen'.games = {} /\ screen'.of = n
        /\ screen' \in [kind : Kinds, games : SUBSET Games0, of : {n}]
    BY <2>1, ScreensPainted
  <2>3. /\ PageTyped' /\ BootPaints' /\ DOMAIN tries' = DOMAIN tries /\ tries'[n].at = "failed"
        /\ \A m \in DOMAIN tries : m # n => tries'[m] = tries[m]
    BY <1>0, <1>1, <1>2, <2>1, <2>2, AttemptStep DEF Whereabouts, PageTyped
  <2>4. \A m \in DOMAIN tries : ~MayPaint(m)'
    BY <1>3, <2>1, <2>3 DEF MayPaint, InFlight
  <2>5. OnScreen'
    BY <1>0, <1>3, <2>1, <2>2, <2>3, <2>4 DEF OnScreen
  <2>6. QED
    BY <2>3, <2>5
<1>7. ASSUME tries[n].at = "live"
      PROVE  screen.kind = "table" /\ screen.of = n /\ screen = Table(n)
  <2>1. screen.kind = "table" /\ screen.of = n /\ screen.games = {}
    BY <1>0, <1>1, <1>7 DEF OnScreen, InFlight
  <2>2. screen = [kind |-> "table", games |-> {}, of |-> n]
    BY <2>1 DEF PageTyped
  <2>3. QED
    BY <2>1, <2>2 DEF Table, Screen
<1>8. CASE View(n)
  <2>1. UNCHANGED <<embedVars, session, frame, layout, page, tries, screen>>
    BY <1>7, <1>8 DEF View
  <2>2. PageTyped' /\ BootPaints' /\ OnScreen'
    BY <2>1, CatalogStays DEF PageTyped, BootPaints, OnScreen, MayPaint
  <2>3. QED
    BY <2>2
<1>9. CASE Drop(n)
  <2>1. /\ tries[n].at = "live" /\ Doing(n, "dropped") /\ UNCHANGED <<session, layout, screen, page>>
    BY <1>9 DEF Drop
  <2>2. screen.kind = "table" /\ screen.of = n /\ screen.games = {}
    BY <1>7, <2>1 DEF OnScreen
  <2>3. screen' \in [kind : Kinds, games : SUBSET Games0, of : {0, n}]
    BY <2>1, <2>2 DEF PageTyped
  <2>4. /\ PageTyped' /\ BootPaints' /\ DOMAIN tries' = DOMAIN tries /\ tries'[n].at = "dropped"
        /\ \A m \in DOMAIN tries : m # n => tries'[m] = tries[m]
    BY <1>0, <1>2, <2>1, <2>2, <2>3, AttemptStep DEF Whereabouts, PageTyped
  <2>5. OnScreen'
    BY <2>1, <2>2, <2>4 DEF OnScreen, MayPaint
  <2>6. QED
    BY <2>4, <2>5
<1>10. QED
  BY <1>4, <1>5, <1>6, <1>8, <1>9

LEMMA Returning ==
  ASSUME WidgetInv, ReturnToSelection
  PROVE  WidgetInv'
<1> USE DEF WidgetInv
<1>0. /\ UNCHANGED <<catalog, Games0, Families, FreshPage, Pages, Attempts>>
      /\ UNCHANGED <<storing, frame>>
  BY CatalogStays DEF ReturnToSelection, PageTyped, embedVars
<1>1. /\ frame = "greeted" /\ screen.kind = "table" /\ screen.of \in DOMAIN tries
      /\ Doing(screen.of, "left") /\ session' = 0 /\ layout' = "inline"
      /\ page' = [page EXCEPT !.departed = FALSE] /\ screen' = Lobby(page.opened, page.known)
  BY DEF ReturnToSelection, OnScreen, Loaded, ClearedSession
<1>2. /\ tries' \in Seq(Attempts) /\ Len(tries') = Len(tries) /\ DOMAIN tries' = DOMAIN tries
      /\ tries'[screen.of].at = "left"
      /\ \A m \in DOMAIN tries : m # screen.of => tries'[m] = tries[m]
  BY <1>1, OneTakesAStep DEF PageTyped, Whereabouts
<1>3. /\ page' \in Pages /\ ~page'.departed /\ page.known = page'.known
      /\ page'.opened = page.opened /\ page'.resumed = page.resumed /\ page'.watching = page.watching
      /\ page'.boot = page.boot
  BY <1>1 DEF PageTyped, Pages
<1>4. /\ screen'.kind \in {"families", "lobby"} /\ screen'.games \subseteq page.known /\ screen'.of = 0
  BY <1>1, ScreensPainted
<1>5. screen' \in [kind : Kinds, games : SUBSET Games0, of : {0}]
  <2>1. page.known \in SUBSET Games0
    BY DEF PageTyped, Pages
  <2>2. QED
    BY <1>1, <2>1, LobbyTyped
<1>6. PageTyped'
  BY <1>0, <1>1, <1>2, <1>3, <1>4, <1>5 DEF PageTyped
<1>7. BootPaints'
  BY <1>0, <1>1, <1>3, <1>4 DEF BootPaints
<1>8. \A m \in DOMAIN tries : ~MayPaint(m)'
  BY <1>1, <1>2 DEF OnScreen, MayPaint, InFlight
<1>9. OnScreen'
  BY <1>1, <1>2, <1>3, <1>4, <1>8 DEF OnScreen
<1>10. QED
  BY <1>6, <1>7, <1>9

LEMMA WidgetStepInv ==
  ASSUME \A c \in Catalogs : NotOneFamilyOfModes(c)
  PROVE  WidgetInv /\ [WidgetNext]_widgetVars => WidgetInv'
<1> SUFFICES ASSUME WidgetInv, [WidgetNext]_widgetVars PROVE WidgetInv'
  OBVIOUS
<1>0. NotOneFamilyOfModes(catalog)
  BY DEF WidgetInv, PageTyped
<1>1. CASE WidgetNext
  BY <1>0, <1>1, Booting, Resuming, Watching, Reloads, Counting, Pressing, Playing, Returning DEF WidgetNext
<1>2. CASE UNCHANGED widgetVars
  <2>1. UNCHANGED <<embedVars, session, frame, layout, page, screen, tries>>
    BY <1>2 DEF widgetVars
  <2>2. PageTyped' /\ BootPaints' /\ OnScreen'
    BY <2>1, CatalogStays DEF WidgetInv, PageTyped, BootPaints, OnScreen, MayPaint
  <2>3. QED
    BY <2>2 DEF WidgetInv
<1>3. QED
  BY <1>1, <1>2

LEMMA WidgetInvSays ==
  WidgetInv => WidgetTypeOK /\ LobbyStaysAway /\ OneMatchInSight /\ SessionFollowsMatch
<1> SUFFICES ASSUME WidgetInv
             PROVE  WidgetTypeOK /\ LobbyStaysAway /\ OneMatchInSight /\ SessionFollowsMatch
  OBVIOUS
<1>1. ASSUME NEW n \in DOMAIN tries, tries[n].at = "live"
      PROVE  screen = Table(n) /\ session \in {0, n}
  <2>1. screen.kind = "table" /\ screen.of = n /\ screen.games = {} /\ session \in {0, n}
    BY <1>1 DEF WidgetInv, OnScreen, PageTyped, Kinds, MayPaint, InFlight
  <2>2. screen = [kind |-> "table", games |-> {}, of |-> n]
    BY <2>1 DEF WidgetInv, PageTyped
  <2>3. QED
    BY <2>1, <2>2 DEF Table, Screen
<1>2. WidgetTypeOK
  <2>1. \A n \in DOMAIN tries : tries[n].game \in Games0
    <3>1. \A n \in DOMAIN tries : tries[n] \in Attempts
      BY DEF WidgetInv, PageTyped
    <3>2. QED
      BY <3>1 DEF Attempts
  <2>2. QED
    BY <2>1 DEF WidgetInv, PageTyped, Pages, Kinds, WidgetTypeOK
<1>3. LobbyStaysAway
  BY DEF WidgetInv, OnScreen, LobbyStaysAway
<1>4. QED
  BY <1>1, <1>2, <1>3 DEF WidgetInv, OnScreen, OneMatchInSight, SessionFollowsMatch

\* What the page is whatever it is embedded with: no more watchers than there are games,
\* and an error is of an attempt that was made.
WidgetShape ==
  /\ PageTyped /\ (frame = "loading" => page.boot = "hello")
  /\ page.boot \in {"hello", "resume"} => page.watching = 0
  /\ page.boot = "watch" /\ catalog # <<>> => page.watching < Len(catalog)
  /\ screen.kind = "error" => screen.of \in DOMAIN tries

\* An attempt that takes a step, or one there is not, which takes none.
LEMMA StepOf ==
  ASSUME tries \in Seq(Attempts), NEW n \in 0 .. Len(tries), NEW place \in Whereabouts, Doing(n, place)
  PROVE  tries' \in Seq(Attempts) /\ Len(tries') = Len(tries)
<1>1. CASE n \in DOMAIN tries
  BY <1>1, OneTakesAStep
<1>2. CASE n \notin DOMAIN tries
  <2>1. PICK x : tries' = [tries EXCEPT ![n] = x]
    BY DEF Doing
  <2>2. tries' = [m \in DOMAIN tries |-> tries[m]]
    BY <1>2, <2>1
  <2>3. tries' = tries
    BY <2>2
  <2>4. QED
    BY <2>3
<1>3. QED
  BY <1>1, <1>2

LEMMA WidgetShapeInit == WidgetInit => WidgetShape
<1> SUFFICES ASSUME WidgetInit PROVE WidgetShape
  OBVIOUS
<1>1. WidgetInv
  BY WidgetInitInv
<1>2. screen.kind = "blank" /\ page.boot = "hello"
  BY ScreensPainted, FamiliesOfCatalog DEF WidgetInit
<1>3. QED
  BY <1>1, <1>2 DEF WidgetInv, WidgetShape, BootPaints

LEMMA WidgetShapeStep == WidgetShape /\ [WidgetNext]_widgetVars => WidgetShape'
<1> SUFFICES ASSUME WidgetShape, [WidgetNext]_widgetVars PROVE WidgetShape'
  OBVIOUS
<1>0. /\ catalog \in Catalogs /\ catalog \in Seq(Games0) /\ Len(catalog) \in Nat
      /\ (catalog # <<>> => 0 < Len(catalog))
      /\ tries \in Seq(Attempts) /\ session \in 0 .. Len(tries) /\ page \in Pages
      /\ screen.of \in 0 .. Len(tries) /\ screen.games \subseteq page.known /\ page.known \in SUBSET Games0
      /\ screen \in [kind : Kinds, games : SUBSET Games0, of : 0 .. Len(tries)]
      /\ DOMAIN tries = 1 .. Len(tries) /\ Len(tries) \in Nat
  BY FamiliesOfCatalog DEF WidgetShape, PageTyped, Pages
\* What a step has to leave.
<1>1. ASSUME UNCHANGED embedVars, frame' \in {"loading", "greeted", "gone"}, layout' \in {"inline", "fullscreen"},
             tries' \in Seq(Attempts), Len(tries) <= Len(tries'), session' \in 0 .. Len(tries), page' \in Pages,
             screen' \in [kind : Kinds, games : SUBSET Games0, of : 0 .. Len(tries)],
             screen'.games \subseteq page'.known,
             frame' = "loading" => page'.boot = "hello",
             page'.boot \in {"hello", "resume"} => page'.watching = 0,
             page'.boot = "watch" /\ catalog # <<>> => page'.watching < Len(catalog),
             screen'.kind = "error" => screen'.of \in DOMAIN tries
      PROVE  WidgetShape'
  <2>1. UNCHANGED <<catalog, storing, Games0, Families, FreshPage, Pages, Attempts>>
    BY <1>1, CatalogStays
  <2>2. Len(tries') \in Nat /\ DOMAIN tries' = 1 .. Len(tries')
    BY <1>1
  <2>3. 0 .. Len(tries) \subseteq 0 .. Len(tries') /\ DOMAIN tries \subseteq DOMAIN tries'
    BY <1>0, <1>1, <2>2
  <2>4. QED
    BY <1>0, <1>1, <2>1, <2>3 DEF WidgetShape, PageTyped
<1>2. CASE UNCHANGED widgetVars
  <2>1. UNCHANGED <<embedVars, session, frame, layout, page, screen, tries>>
    BY <1>2 DEF widgetVars
  <2>2. QED
    BY <2>1, CatalogStays DEF WidgetShape, PageTyped
<1>3. CASE HostHello \/ ReadyTimeout \/ ResumeRefused \/ WatchRefused
  <2>1. UNCHANGED <<embedVars, tries, layout, screen>> /\ frame' \in {"loading", "greeted", "gone"}
        /\ layout \in {"inline", "fullscreen"} /\ session' \in {0, session}
    BY <1>3 DEF HostHello, ReadyTimeout, ResumeRefused, WatchRefused, WidgetShape, PageTyped
  <2>2. page' \in Pages /\ page'.known = page.known /\ page'.watching = page.watching
    <3>1. CASE HostHello \/ ReadyTimeout \/ WatchRefused
      BY <1>0, <3>1 DEF HostHello, ReadyTimeout, WatchRefused, Pages
    <3>2. CASE page.tried < Retries /\ page' = [page EXCEPT !.tried = @ + 1]
      <4>1. page.tried + 1 \in 0 .. Retries
        BY <1>0, <3>2, WidgetAssumption DEF Pages
      <4>2. QED
        BY <1>0, <3>2, <4>1 DEF Pages
    <3>3. CASE page' = [page EXCEPT !.boot = "watch"]
      BY <1>0, <3>3 DEF Pages
    <3>4. QED
      BY <1>3, <3>1, <3>2, <3>3 DEF ResumeRefused
  <2>3. /\ page'.boot \in {"hello", "resume"} => page.watching = 0
        /\ frame' = "loading" => page'.boot = "hello"
        /\ page'.boot = "watch" /\ catalog # <<>> => page.watching < Len(catalog)
    BY <1>0, <1>3 DEF HostHello, ReadyTimeout, ResumeRefused, WatchRefused, Pages, WidgetShape, Loaded
  <2>4. QED
    BY <1>0, <1>1, <2>1, <2>2, <2>3 DEF WidgetShape
<1>4. CASE Resumed
  <2>1. /\ Doing(session, "live") /\ session' \in {0, session} /\ screen' = Table(session) /\ layout' = "fullscreen"
        /\ UNCHANGED <<embedVars, frame>> /\ page.boot = "resume"
        /\ frame = "greeted"
    BY <1>4 DEF Resumed, EnterMatch, Persist, Loaded
  <2>2. page' \in Pages /\ page'.boot = "watch" /\ page'.watching = page.watching /\ page'.known = page.known
    BY <1>0, <1>4 DEF Resumed, Pages
  <2>3. tries' \in Seq(Attempts) /\ Len(tries') = Len(tries)
    BY <1>0, <2>1, StepOf DEF Whereabouts
  <2>4. screen' \in [kind : Kinds, games : SUBSET Games0, of : {session}] /\ screen'.games = {} /\ screen'.kind = "table"
    BY <2>1, ScreensPainted
  <2>5. screen' \in [kind : Kinds, games : SUBSET Games0, of : 0 .. Len(tries)]
    BY <1>0, <2>4
  <2>6. page'.watching = 0
    BY <2>1, <2>2 DEF WidgetShape
  <2>7. frame' \in {"loading", "greeted", "gone"} /\ session' \in 0 .. Len(tries)
    BY <1>0, <2>1 DEF WidgetShape, PageTyped
  <2>8. QED
    BY <1>0, <1>1, <2>1, <2>2, <2>3, <2>4, <2>5, <2>6, <2>7
<1>5. CASE Watch
  <2>1. PICK n : n = IF catalog = <<>> THEN 0 ELSE page.watching + 1
    OBVIOUS
  <2>2. /\ page.boot = "watch"
        /\ page' = [page EXCEPT !.watching = n, !.boot = IF n = Len(catalog) THEN "done" ELSE @]
        /\ screen' = screen \/ screen' = Lobby(page.opened, page.known)
        /\ UNCHANGED <<embedVars, tries, frame, layout, session>>
    BY <1>5, <2>1 DEF Watch
  <2>3. n \in 0 .. Len(catalog)
    BY <1>0, <2>1, <2>2 DEF WidgetShape, PageTyped, Pages
  <2>4. /\ page' \in Pages /\ page'.known = page.known /\ page'.watching = n
        /\ page'.boot = IF n = Len(catalog) THEN "done" ELSE "watch"
    BY <1>0, <2>2, <2>3 DEF Pages
  <2>5. screen' \in [kind : Kinds, games : SUBSET Games0, of : 0 .. Len(tries)]
        /\ screen'.games \subseteq page.known /\ (screen'.kind = "error" => screen'.of \in DOMAIN tries)
    <3>1. Lobby(page.opened, page.known) \in [kind : Kinds, games : SUBSET Games0, of : {0}]
      BY <1>0, LobbyTyped
    <3>2. QED
      BY <1>0, <2>2, <3>1, ScreensPainted DEF WidgetShape
  <2>6. QED
    BY <1>0, <1>1, <2>2, <2>3, <2>4, <2>5 DEF WidgetShape, PageTyped
<1>6. CASE Reload
  <2>1. frame' = "loading" /\ layout' = "inline" /\ screen' = Blank /\ page' = FreshPage
        /\ UNCHANGED <<embedVars, session>>
    BY <1>6 DEF Reload
  <2>2. tries' \in Seq(Attempts) /\ Len(tries') = Len(tries)
    <3>1. \A n \in 1 .. Len(tries) : tries[n] \in Attempts
      BY <1>0
    <3>2. tries' = [n \in 1 .. Len(tries) |->
             [tries[n] EXCEPT !.at = IF tries[n].at \in {"live", "dropped"} THEN "dropped" ELSE "lost"]]
      BY <1>0, <1>6 DEF Reload
    <3>3. ASSUME NEW n \in 1 .. Len(tries) PROVE tries'[n] \in Attempts
      BY <3>1, <3>2 DEF Attempts, Whereabouts
    <3>4. tries' \in [1 .. Len(tries) -> Attempts]
      BY <3>2, <3>3
    <3>5. QED
      BY <1>0, <3>4
  <2>3. screen' \in [kind : Kinds, games : SUBSET Games0, of : {0}] /\ screen'.games = {} /\ screen'.kind = "blank"
    BY <2>1, ScreensPainted
  <2>4. screen' \in [kind : Kinds, games : SUBSET Games0, of : 0 .. Len(tries)]
    BY <1>0, <2>3
  <2>5. page' \in Pages /\ page'.boot = "hello" /\ page'.watching = 0
    BY <1>0, <2>1, FamiliesOfCatalog
  <2>6. QED
    BY <1>0, <1>1, <2>1, <2>2, <2>3, <2>4, <2>5
<1>7. CASE (\E g \in Games0 : Counts(g)) \/ (\E f \in Families : OpenGame(f)) \/ Back
  <2>1. UNCHANGED <<embedVars, session, frame, layout, tries>>
    BY <1>7 DEF Counts, OpenGame, Back, Show
  <2>2. /\ page' \in Pages /\ page'.boot = page.boot /\ page'.watching = page.watching
        /\ page.known \subseteq page'.known
        /\ screen' = screen \/ \E family : screen' = Lobby(family, page'.known)
    <3>1. CASE \E g \in Games0 : Counts(g)
      <4>1. PICK g \in Games0 : Counts(g)
        BY <3>1
      <4>2. PICK k : k = page.known \cup {g}
        OBVIOUS
      <4>3. page' = [page EXCEPT !.known = k] /\ k \in SUBSET Games0
        BY <1>0, <4>1, <4>2 DEF Counts
      <4>4. /\ page' \in Pages /\ page'.boot = page.boot /\ page'.watching = page.watching
            /\ page'.known = k
        BY <1>0, <4>3 DEF Pages
      <4>5. screen' = screen \/ screen' = Lobby(page.opened, page'.known)
        BY <4>1 DEF Counts
      <4>6. QED
        BY <4>2, <4>4, <4>5
    <3>2. CASE (\E f \in Families : OpenGame(f)) \/ Back
      <4>1. PICK f \in Families \cup {NoFamily} : Show(f)
        BY <3>2 DEF OpenGame, Back
      <4>2. /\ page' \in Pages /\ page'.boot = page.boot /\ page'.watching = page.watching
            /\ page'.known = page.known
        BY <1>0, <4>1 DEF Show, Pages
      <4>3. QED
        BY <4>1, <4>2 DEF Show
    <3>3. QED
      BY <1>7, <3>1, <3>2
  <2>3. screen' \in [kind : Kinds, games : SUBSET Games0, of : 0 .. Len(tries)]
        /\ screen'.games \subseteq page'.known /\ (screen'.kind = "error" => screen'.of \in DOMAIN tries)
    <3>1. page'.known \in SUBSET Games0
      BY <2>2 DEF Pages
    <3>2. \A family : Lobby(family, page'.known) \in [kind : Kinds, games : SUBSET Games0, of : {0}]
      BY <3>1, LobbyTyped
    <3>3. QED
      BY <1>0, <2>2, <3>2, ScreensPainted DEF WidgetShape
  <2>4. QED
    BY <1>0, <1>1, <2>1, <2>2, <2>3 DEF WidgetShape, PageTyped
<1>8. CASE (\E g \in Games0, rival \in {"person", "bot"} : PressPlay(g, rival)) \/ TryAgain
  <2>1. PICK g \in Games0, rival \in {"person", "bot"} : Attempt(g, rival)
    <3>1. ASSUME TryAgain PROVE \E g \in Games0, rival \in {"person", "bot"} : Attempt(g, rival)
      <4>1. tries[screen.of] \in Attempts
        BY <1>0, <3>1 DEF TryAgain, WidgetShape
      <4>2. QED
        BY <3>1, <4>1 DEF TryAgain, Attempts
    <3>2. QED
      BY <1>8, <3>1 DEF PressPlay
  <2>2. page' \in Pages /\ page'.boot = page.boot /\ page'.watching = page.watching /\ page'.known = page.known
        /\ UNCHANGED <<embedVars, session, frame, layout>>
    BY <1>0, <1>8 DEF PressPlay, TryAgain, Pages
  <2>3. screen'.kind = "status" /\ screen'.games = {} /\ screen' \in [kind : Kinds, games : SUBSET Games0, of : {0}]
    BY <2>1, ScreensPainted DEF Attempt
  <2>4. screen' \in [kind : Kinds, games : SUBSET Games0, of : 0 .. Len(tries)]
    BY <1>0, <2>3
  <2>5. [game |-> g, rival |-> rival, at |-> "token"] \in Attempts
    BY DEF Attempts, Whereabouts, InFlight
  <2>6. tries' \in Seq(Attempts) /\ Len(tries) <= Len(tries')
    BY <1>0, <2>1, <2>5 DEF Attempt
  <2>7. QED
    BY <1>0, <1>1, <2>2, <2>3, <2>4, <2>6 DEF WidgetShape, PageTyped
<1>9. ASSUME NEW n \in DOMAIN tries, Answered(n) \/ Joined(n) \/ Failed(n) \/ View(n) \/ Drop(n)
      PROVE  WidgetShape'
  <2>1. UNCHANGED <<embedVars, frame, page>> /\ session' \in {0, n, session} /\ layout' \in {"inline", "fullscreen"}
    BY <1>9 DEF Answered, Joined, Failed, View, Drop, EnterMatch, Persist, WidgetShape, PageTyped
  <2>2. tries' \in Seq(Attempts) /\ Len(tries') = Len(tries)
    <3>1. tries' = tries \/ \E place \in Whereabouts : Doing(n, place)
      BY <1>9 DEF Answered, Joined, Failed, View, Drop, EnterMatch, Whereabouts, InFlight, Follows
    <3>2. QED
      BY <1>0, <3>1, StepOf
  <2>3. screen' = screen \/ screen' = Table(n) \/ screen' = Retry(n)
    BY <1>9 DEF Answered, Joined, Failed, View, Drop, EnterMatch
  <2>4. screen' \in [kind : Kinds, games : SUBSET Games0, of : 0 .. Len(tries)]
        /\ screen'.games \subseteq page.known /\ (screen'.kind = "error" => screen'.of \in DOMAIN tries)
    BY <1>0, <2>3, ScreensPainted DEF WidgetShape
  <2>5. session' \in 0 .. Len(tries)
    BY <1>0, <2>1
  <2>7. QED
    BY <1>0, <1>1, <2>1, <2>2, <2>4, <2>5 DEF WidgetShape, PageTyped
<1>10. CASE ReturnToSelection
  <2>1. /\ Doing(screen.of, "left") /\ session' = 0 /\ layout' = "inline"
        /\ page' = [page EXCEPT !.departed = FALSE] /\ screen' = Lobby(page.opened, page.known)
        /\ UNCHANGED <<embedVars, frame>>
    BY <1>10 DEF ReturnToSelection, ClearedSession
  <2>2. tries' \in Seq(Attempts) /\ Len(tries') = Len(tries)
    BY <1>0, <2>1, StepOf DEF Whereabouts
  <2>3. page' \in Pages /\ page'.boot = page.boot /\ page'.watching = page.watching /\ page'.known = page.known
    BY <1>0, <2>1 DEF Pages
  <2>4. screen' \in [kind : Kinds, games : SUBSET Games0, of : {0}]
    BY <1>0, <2>1, LobbyTyped
  <2>5. screen' \in [kind : Kinds, games : SUBSET Games0, of : 0 .. Len(tries)]
        /\ screen'.games \subseteq page.known /\ screen'.kind # "error"
    BY <1>0, <2>1, <2>4, ScreensPainted
  <2>6. QED
    BY <1>0, <1>1, <2>1, <2>2, <2>3, <2>5 DEF WidgetShape, PageTyped
<1>11. QED
  BY <1>2, <1>3, <1>4, <1>5, <1>6, <1>7, <1>8, <1>9, <1>10 DEF WidgetNext

LEMMA WidgetShapeSays == WidgetShape => WidgetTypeOK
<1> SUFFICES ASSUME WidgetShape PROVE WidgetTypeOK
  OBVIOUS
<1>1. \A n \in DOMAIN tries : tries[n] \in Attempts
  BY DEF WidgetShape, PageTyped
<1>2. QED
  BY <1>1 DEF WidgetShape, PageTyped, Pages, Kinds, Attempts, WidgetTypeOK

-----------------------------------------------------------------------------
(* The panel: what is on its way answers for what the screen waits for, and, *)
(* when one thing is asked at a time, for what it does not show yet.         *)

RowsOf    == [Fields \cup {"key"} -> 0 .. MaxClicks]
Entered   == DOMAIN server.rows
Statuses  == {"200", "400", "401", "403", "404", "409", "500", "lost"}
Writes    == {"create", "save", "hire", "toggle", "password"}
AskedFor  == {"list", "logout", "login", "detail", "operators", "audit"} \cup Writes

\* The screen that asks for it.
ScreenOf(what) ==
  CASE what \in {"detail", "save"}               -> "detail"
    [] what \in {"operators", "hire", "toggle"}  -> "operators"
    [] what = "password"                         -> "account"
    [] OTHER                                     -> what

ServerOK(srv) ==
  /\ srv = [live |-> srv.live, may |-> srv.may, rows |-> srv.rows, staff |-> srv.staff,
            entries |-> srv.entries]
  /\ srv.live \in BOOLEAN
  /\ DOMAIN srv.rows \subseteq PanelTenants
  /\ srv.rows \in [DOMAIN srv.rows -> RowsOf]
  /\ Self \in DOMAIN srv.staff

ShellOK(s, ids) ==
  s \in [kind : {"loading", "login", "tenants", "missing-permission", "error"},
         rows : SUBSET [id : ids, key : 0 .. MaxClicks],
         nav : {"tenants", "operators", "audit", "account"},
         creating : BOOLEAN, selected : ids \cup {NoTenant}]

States == {"idle", "saving", "error"}
LoadedOK(b, ids) ==
  /\ b = [at |-> "loaded", id |-> b.id, row |-> b.row, saves |-> b.saves, rotate |-> b.rotate,
          warned |-> b.warned]
  /\ b.id \in ids /\ b.row \in RowsOf /\ b.saves \in [Fields -> States]
BodyOK(view, b, ids) ==
  CASE view = "detail" -> (b.at = "loaded" /\ LoadedOK(b, ids))
                          \/ b \in [at : {"loading", "denied", "failed"}]
    [] view = "operators" ->
         /\ b = [at |-> b.at, rows |-> b.rows, rowError |-> b.rowError, form |-> b.form]
         /\ b.at \in {"loading", "loaded", "denied", "failed"}
    [] view = "audit" ->
         \/ b.at = "loaded" /\ b = [at |-> "loaded", filter |-> b.filter, shown |-> b.shown]
         \/ b.at \in {"loading", "denied", "failed"} /\ b = [at |-> b.at, filter |-> b.filter]
    [] view \in {"login", "create", "account"} -> b \in [at : {"idle", "busy", "error", "done"}]
    [] OTHER -> b = [at |-> "none"]

\* A request, and its answer if it has one.
RequestOK(r, ids) ==
  /\ r = [what |-> r.what, by |-> r.by, arg |-> r.arg, answer |-> r.answer]
  /\ r.what \in AskedFor /\ r.by \in {"shell", "screen", "section", "nobody"}
  /\ \/ r.answer = Waiting
     \/ r.answer = [status |-> r.answer.status, data |-> r.answer.data] /\ r.answer.status \in Statuses
  /\ CASE r.what = "create" -> r.arg \in PanelTenants /\ (Ok(r) => r.arg \in ids)
       [] r.what = "detail" ->
            /\ r.arg \in ids
            /\ Ok(r) => r.answer.data.id = r.arg /\ r.answer.data.row \in RowsOf
       [] r.what = "save" ->
            /\ r.arg.id \in ids /\ r.arg.field \in Fields \cup {"key"} /\ r.arg.value \in 0 .. MaxClicks
            /\ Ok(r) => r.answer.data.id = r.arg.id /\ r.answer.data.row \in RowsOf
       [] r.what = "list" -> Ok(r) => r.answer.data \subseteq [id : ids, key : 0 .. MaxClicks]
       [] OTHER -> TRUE

\* Who is to hear it is still there.
HeardBy(r, s) ==
  /\ r.what \in {"list", "logout"} <=> r.by = "shell"
  /\ r.by = "screen" => ScreenOf(r.what) = ViewOf(s) /\ (r.what = "detail" => r.arg = s.selected)
  /\ r.by = "section" => r.what = "save" /\ ViewOf(s) = "detail"

Flight(A) == { A[w] : w \in Wires } \ {NoAsk}

\* EveryWaitIsAsked, of a shell, a screen and the requests on their way.
AskedIn(F, what, by) == \E r \in F : r.what = what /\ r.by = by
ShellWaits(s, F) == s.kind = "loading" => AskedIn(F, "list", "shell")
Saving(F, f) == \E r \in F : r.what = "save" /\ r.by = "section" /\ r.arg.field = f
BodyWaits(view, b, F) ==
  /\ b.at = "loading" => AskedIn(F, view, "screen")
  /\ b.at = "busy" => \E what \in {"login", "create", "password"} : AskedIn(F, what, "screen")
  /\ view = "operators" /\ b.form = "busy" => AskedIn(F, "hire", "screen")
  /\ view = "detail" /\ b.at = "loaded" =>
       /\ \A f \in Fields : b.saves[f] = "saving" => Saving(F, f)
       /\ b.rotate = "rotating" => Saving(F, "key")
  /\ view = "detail" /\ b.at # "loaded" => \A r \in F : r.by # "section"

\* What the answer on its way says, and who is to hear it, when it is the only one.
TrueAnswer(r, s, b, srv) ==
  LET view == ViewOf(s) IN
  /\ r.answer.status \notin {"500", "lost"}
  /\ r.what = "list" => /\ Ok(r) => r.answer.data = Listing(srv.rows)
                        /\ r.answer.status \notin {"none", "200", "403"} => ~srv.live
  /\ r.what = "logout" /\ r.answer # Waiting => ~srv.live
  /\ r.what = "detail" /\ Ok(r) => r.answer.data.row = srv.rows[r.arg]
  /\ r.what = "save" => /\ r.by = "section" /\ s.selected = r.arg.id
                        /\ Ok(r) => r.answer.data.row = srv.rows[r.arg.id]
  /\ r.what = "operators" /\ Ok(r) => r.answer.data = Directory(srv.staff)
  /\ r.what \in {"hire", "toggle"} /\ view = "operators" => r.by = "screen"
  /\ r.what = "audit" => /\ Ok(r) => r.answer.data = [filter |-> r.arg, entries |-> srv.entries]
                         /\ r.by = "screen" => r.arg = b.filter
  /\ view = "audit" => r.what \notin Writes

Done200(F, what) == \E r \in F : r.what = what /\ Ok(r)

LoginIsTrue(s, F, srv) == ViewOf(s) = "login" /\ srv.live => Done200(F, "login")
ListIsTrue(s, F, srv) ==
  s.kind = "tenants" /\ s.selected = NoTenant => s.rows = Listing(srv.rows) \/ Done200(F, "create")
ScreenIsTrue(s, b, F, srv) ==
  /\ ViewOf(s) = "detail" /\ b.at = "loaded" =>
       b.id = s.selected /\ (b.row = srv.rows[b.id] \/ Done200(F, "save"))
  /\ ViewOf(s) = "operators" /\ b.at = "loaded" =>
       b.rows = Directory(srv.staff) \/ Done200(F, "hire") \/ Done200(F, "toggle")
  /\ ViewOf(s) = "audit" /\ b.at = "loaded" => b.shown = [filter |-> b.filter, entries |-> srv.entries]
TrueSoFar(s, b, F, srv) ==
  /\ \A r \in F : TrueAnswer(r, s, b, srv)
  /\ LoginIsTrue(s, F, srv) /\ ListIsTrue(s, F, srv) /\ ScreenIsTrue(s, b, F, srv)

Alone(A) == \A v, w \in Wires : A[v] # NoAsk /\ A[w] # NoAsk => v = w

PanelShape ==
  /\ clicks \in 0 .. MaxClicks
  /\ ServerOK(server) /\ ShellOK(shell, Entered) /\ BodyOK(ViewOf(shell), body, Entered)
  /\ DOMAIN asks = Wires /\ asks = [w \in Wires |-> asks[w]]
  /\ \A r \in Flight(asks) : RequestOK(r, Entered) /\ HeardBy(r, shell)
PanelWaits == ShellWaits(shell, Flight(asks)) /\ BodyWaits(ViewOf(shell), body, Flight(asks))
PanelQuiet == orderly => Alone(asks) /\ TrueSoFar(shell, body, Flight(asks), server)
PanelInv == PanelShape /\ orderly \in BOOLEAN /\ PanelWaits /\ PanelQuiet

IsAsks(A) == A = [w \in Wires |-> A[w]]

LEMMA NoAskIs == NoAsk.what = "none" /\ Waiting.status = "none" /\ "none" \notin AskedFor
                 /\ "none" \notin Statuses
  BY DEF NoAsk, Waiting, AskedFor, Writes, Statuses

\* A request somebody else is to hear.
LEMMA TurnedIs ==
  ASSUME NEW r, NEW ids, RequestOK(r, ids), NEW h \in {"shell", "screen", "section", "nobody"},
         NEW q, q = [r EXCEPT !.by = h]
  PROVE  /\ q.what = r.what /\ q.arg = r.arg /\ q.answer = r.answer /\ q.by = h
         /\ RequestOK(q, ids) /\ q # NoAsk
<1>1. r = [what |-> r.what, by |-> r.by, arg |-> r.arg, answer |-> r.answer] /\ r.what \in AskedFor
  BY DEF RequestOK
<1>2. q = [what |-> r.what, by |-> h, arg |-> r.arg, answer |-> r.answer]
  BY <1>1
<1>3. q.what = r.what /\ q.arg = r.arg /\ q.answer = r.answer /\ q.by = h
  BY <1>2
<1>4. q # NoAsk
  BY <1>1, <1>3, NoAskIs
<1>5. RequestOK(q, ids)
  BY <1>2, <1>3 DEF RequestOK, Ok
<1>6. QED
  BY <1>3, <1>4, <1>5

LEMMA RequestIs ==
  ASSUME NEW r, NEW ids, RequestOK(r, ids)
  PROVE  r # NoAsk
  BY NoAskIs DEF RequestOK

LEMMA SentIs ==
  ASSUME NEW A, IsAsks(A), Room(A), NEW r, r # NoAsk
  PROVE  /\ IsAsks(Sent(A, r)) /\ Flight(Sent(A, r)) = Flight(A) \cup {r}
         /\ (A = [w \in Wires |-> NoAsk] => Alone(Sent(A, r)) /\ Flight(A) = {})
<1> DEFINE v == Spare(A)
<1>1. v \in Wires /\ A[v] = NoAsk
  BY DEF Spare, Room
<1> HIDE DEF v
<1>2. Sent(A, r) = [A EXCEPT ![v] = r]
  BY DEF Sent, v
<1>3. \A w \in Wires : Sent(A, r)[w] = IF w = v THEN r ELSE A[w]
  BY <1>1, <1>2 DEF IsAsks
<1>4. IsAsks(Sent(A, r))
  BY <1>2 DEF IsAsks
<1>5. Flight(Sent(A, r)) = Flight(A) \cup {r}
  BY <1>1, <1>3 DEF Flight
<1>6. ASSUME A = [w \in Wires |-> NoAsk] PROVE Alone(Sent(A, r)) /\ Flight(A) = {}
  BY <1>3, <1>6 DEF Alone, Flight
<1>7. QED
  BY <1>4, <1>5, <1>6

\* Nothing is on its way exactly when no request is.
LEMMA NothingFlies ==
  ASSUME NEW A, IsAsks(A)
  PROVE  Flight(A) = {} <=> A = [w \in Wires |-> NoAsk]
<1>1. ASSUME Flight(A) = {} PROVE A = [w \in Wires |-> NoAsk]
  <2>1. \A w \in Wires : A[w] = NoAsk
    BY <1>1 DEF Flight
  <2>2. QED
    BY <2>1 DEF IsAsks
<1>2. ASSUME A = [w \in Wires |-> NoAsk] PROVE Flight(A) = {}
  BY <1>2 DEF Flight
<1>3. QED
  BY <1>1, <1>2

\* What is on its way after an answer has been taken.
LEMMA WithoutIs ==
  ASSUME NEW w \in Wires, IsAsks(asks)
  PROVE  /\ IsAsks(Without(w)) /\ Flight(Without(w)) \subseteq Flight(asks)
         /\ \A r \in Flight(asks) : r = asks[w] \/ r \in Flight(Without(w))
         /\ (Alone(asks) /\ Flying(w) => Without(w) = [v \in Wires |-> NoAsk] /\ Flight(Without(w)) = {})
         /\ (Alone(asks) => Alone(Without(w)))
<1>1. Without(w) = [v \in Wires |-> IF v = w THEN NoAsk ELSE asks[v]]
  BY DEF Without, IsAsks
<1> DEFINE A == Without(w)
<1>2. \A v \in Wires : A[v] = IF v = w THEN NoAsk ELSE asks[v]
  BY <1>1
<1>3. IsAsks(A)
  BY <1>1 DEF IsAsks
<1> HIDE DEF A
<1>4. Flight(A) \subseteq Flight(asks) /\ \A r \in Flight(asks) : r = asks[w] \/ r \in Flight(A)
  BY <1>2 DEF Flight
<1>5. ASSUME Alone(asks), Flying(w) PROVE A = [v \in Wires |-> NoAsk]
  <2>1. \A v \in Wires : A[v] = NoAsk
    BY <1>2, <1>5 DEF Alone, Flying
  <2>2. QED
    BY <1>3, <2>1 DEF IsAsks
<1>6. Alone(asks) => Alone(A)
  BY <1>2 DEF Alone
<1>7. QED
  BY <1>3, <1>4, <1>5, <1>6, NothingFlies DEF A

-----------------------------------------------------------------------------
(* One commit. *)

\* The same component, with the same tenant in it.
Steady(s) == ViewOf(s) = ViewOf(shell) /\ (ViewOf(s) = "detail" => s.selected = shell.selected)

Reheard(A, s) ==
  IF ViewOf(s) # ViewOf(shell) THEN NoLongerHeard(A, {"screen", "section"})
  ELSE IF ~Steady(s) THEN Cancelled(A) ELSE A

AsksOf(R, s) == R \cup IF Steady(s) THEN {} ELSE MountRequest(ViewOf(s), s)

LEMMA RenderedIs ==
  ASSUME NEW s, NEW b, NEW A, NEW R, Rendered(s, b, A, R)
  PROVE  /\ shell' = s
         /\ body' = IF Steady(s) THEN b ELSE Fresh(ViewOf(s))
         /\ AsksOf(R, s) = {} => asks' = Reheard(A, s) /\ orderly' = orderly
         /\ AsksOf(R, s) # {} =>
              \E r \in AsksOf(R, s) :
                /\ Room(Reheard(A, s)) /\ asks' = Sent(Reheard(A, s), r)
                /\ orderly' = (Reheard(A, s) = [w \in Wires |-> NoAsk] /\ (orderly \/ r.what = "list"))
<1> DEFINE view  == ViewOf(s)
           moved == view # ViewOf(shell)
           other == view = "detail" /\ s.selected # shell.selected
           A2    == IF moved THEN NoLongerHeard(A, {"screen", "section"}) ELSE IF other THEN Cancelled(A) ELSE A
           R2    == R \cup IF moved \/ other THEN MountRequest(view, s) ELSE {}
<1>1. /\ shell' = s
      /\ body' = IF moved \/ other THEN Fresh(view) ELSE b
      /\ IF R2 = {} THEN asks' = A2 /\ UNCHANGED orderly
         ELSE \E r \in R2 :
               /\ Room(A2)
               /\ asks' = Sent(A2, r)
               /\ orderly' = (A2 = [w \in Wires |-> NoAsk] /\ (orderly \/ r.what = "list"))
  BY DEF Rendered
<1>2. Steady(s) <=> ~(moved \/ other)
  BY DEF Steady
<1>3. A2 = Reheard(A, s)
  BY <1>2 DEF Reheard
<1>4. R2 = AsksOf(R, s)
  BY <1>2 DEF AsksOf
<1>5. body' = IF Steady(s) THEN b ELSE Fresh(ViewOf(s))
  BY <1>1, <1>2
<1> HIDE DEF A2, R2, moved, other
<1>6. QED
  BY <1>1, <1>3, <1>4, <1>5

\* Every request that was on its way still is, and nothing of it is another but who
\* is to hear it.
SameAsk(q, r) == q.what = r.what /\ q.arg = r.arg /\ q.answer = r.answer

LEMMA ReheardIs ==
  ASSUME NEW s, NEW A, IsAsks(A), NEW ids, \A r \in Flight(A) : RequestOK(r, ids) /\ HeardBy(r, shell)
  PROVE  LET F == Flight(Reheard(A, s)) IN
         /\ IsAsks(Reheard(A, s))
         /\ Steady(s) => Reheard(A, s) = A
         /\ \A w \in Wires : A[w] = NoAsk <=> Reheard(A, s)[w] = NoAsk
         /\ \A q \in F : RequestOK(q, ids) /\ HeardBy(q, s)
         /\ \A q \in F : \E r \in Flight(A) :
              /\ SameAsk(q, r)
              /\ ViewOf(s) # ViewOf(shell) => q.by = IF r.by = "shell" THEN "shell" ELSE "nobody"
         /\ \A r \in Flight(A) : \E q \in F : SameAsk(q, r)
         /\ \A r \in Flight(A) : r.by = "shell" => r \in F
         /\ ~Steady(s) => \A q \in F : q.by # "section"
<1> DEFINE B == Reheard(A, s)
<1>1. ASSUME NEW w \in Wires, A[w] # NoAsk
      PROVE  /\ RequestOK(A[w], ids) /\ HeardBy(A[w], shell) /\ A[w] \in Flight(A)
             /\ A[w].by \in {"shell", "screen", "section", "nobody"}
  BY <1>1 DEF Flight, RequestOK
<1>2. CASE ViewOf(s) # ViewOf(shell)
  <2>1. B = [w \in Wires |-> IF A[w] # NoAsk /\ A[w].by \in {"screen", "section"}
                               THEN [A[w] EXCEPT !.by = "nobody"] ELSE A[w]]
    BY <1>2 DEF Reheard, NoLongerHeard
  <2> HIDE DEF B
  <2>2. ASSUME NEW w \in Wires, A[w] # NoAsk
        PROVE  /\ B[w] # NoAsk /\ SameAsk(B[w], A[w]) /\ RequestOK(B[w], ids) /\ HeardBy(B[w], s)
               /\ B[w].by = IF A[w].by = "shell" THEN "shell" ELSE "nobody"
               /\ A[w].by = "shell" => B[w] = A[w]
    <3>1. CASE A[w].by \in {"screen", "section"}
      <4>1. B[w] = [A[w] EXCEPT !.by = "nobody"]
        BY <2>1, <2>2, <3>1
      <4>2. /\ SameAsk(B[w], A[w]) /\ B[w].by = "nobody" /\ RequestOK(B[w], ids) /\ B[w] # NoAsk
        BY <1>1, <2>2, <4>1, TurnedIs DEF SameAsk
      <4>3. A[w].what \notin {"list", "logout"}
        BY <1>1, <2>2, <3>1 DEF HeardBy
      <4>4. HeardBy(B[w], s)
        BY <4>2, <4>3 DEF HeardBy, SameAsk
      <4>5. QED
        BY <3>1, <4>2, <4>4
    <3>2. CASE A[w].by \notin {"screen", "section"}
      <4>1. B[w] = A[w]
        BY <2>1, <2>2, <3>2
      <4>2. HeardBy(B[w], s)
        BY <1>1, <2>2, <3>2, <4>1 DEF HeardBy
      <4>3. QED
        BY <1>1, <2>2, <3>2, <4>1, <4>2 DEF SameAsk
    <3>3. QED
      BY <3>1, <3>2
  <2>3. ASSUME NEW w \in Wires, A[w] = NoAsk PROVE B[w] = NoAsk
    BY <2>1, <2>3
  <2>4. IsAsks(B)
    BY <2>1 DEF IsAsks
  <2>5. ASSUME NEW q \in Flight(B)
        PROVE  \E w \in Wires : A[w] # NoAsk /\ q = B[w]
    BY <2>3, <2>5 DEF Flight
  <2>6. ASSUME NEW r \in Flight(A), r.by = "shell" PROVE r \in Flight(B)
    <3>1. PICK w \in Wires : r = A[w] /\ A[w] # NoAsk
      BY DEF Flight
    <3>2. r = B[w] /\ B[w] # NoAsk
      BY <2>2, <2>6, <3>1
    <3>3. QED
      BY <3>2 DEF Flight
  <2>9. ASSUME NEW r \in Flight(A) PROVE \E q \in Flight(B) : SameAsk(q, r)
    <3>1. PICK w \in Wires : r = A[w] /\ A[w] # NoAsk
      BY DEF Flight
    <3>2. B[w] \in Flight(B) /\ SameAsk(B[w], r)
      BY <2>2, <3>1 DEF Flight
    <3>3. QED
      BY <3>2
  <2>7. ~Steady(s)
    BY <1>2 DEF Steady
  <2>8. QED
    BY <1>1, <1>2, <2>2, <2>3, <2>4, <2>5, <2>6, <2>7, <2>9 DEF B
<1>3. CASE ViewOf(s) = ViewOf(shell) /\ ~Steady(s)
  <2>0. ViewOf(s) = "detail" /\ ViewOf(shell) = "detail"
    BY <1>3 DEF Steady
  <2>1. B = [w \in Wires |->
                IF A[w] # NoAsk /\ A[w].what = "detail" /\ A[w].by = "screen"
                  THEN [A[w] EXCEPT !.by = "nobody"] ELSE SectionsGone(A)[w]]
    BY <1>3 DEF Reheard, Cancelled
  <2>2. \A w \in Wires : SectionsGone(A)[w] = IF A[w] # NoAsk /\ A[w].by = "section"
                                                THEN [A[w] EXCEPT !.by = "screen"] ELSE A[w]
    BY DEF SectionsGone
  <2> HIDE DEF B
  <2>3. ASSUME NEW w \in Wires, A[w] # NoAsk
        PROVE  /\ B[w] # NoAsk /\ SameAsk(B[w], A[w]) /\ RequestOK(B[w], ids) /\ HeardBy(B[w], s)
               /\ B[w].by # "section"
               /\ A[w].by = "shell" => B[w] = A[w]
    <3>1. CASE A[w].what = "detail" /\ A[w].by = "screen"
      <4>1. B[w] = [A[w] EXCEPT !.by = "nobody"]
        BY <2>1, <2>3, <3>1
      <4>2. SameAsk(B[w], A[w]) /\ B[w].by = "nobody" /\ RequestOK(B[w], ids) /\ B[w] # NoAsk
        BY <1>1, <2>3, <4>1, TurnedIs DEF SameAsk
      <4>3. HeardBy(B[w], s)
        BY <3>1, <4>2 DEF HeardBy, SameAsk
      <4>4. QED
        BY <3>1, <4>2, <4>3
    <3>2. CASE A[w].by = "section"
      <4>1. B[w] = [A[w] EXCEPT !.by = "screen"]
        BY <2>1, <2>2, <2>3, <3>2
      <4>2. SameAsk(B[w], A[w]) /\ B[w].by = "screen" /\ RequestOK(B[w], ids) /\ B[w] # NoAsk
        BY <1>1, <2>3, <4>1, TurnedIs DEF SameAsk
      <4>3. A[w].what = "save"
        BY <1>1, <2>3, <3>2 DEF HeardBy
      <4>4. HeardBy(B[w], s)
        BY <2>0, <4>2, <4>3 DEF HeardBy, SameAsk, ScreenOf
      <4>5. QED
        BY <3>2, <4>2, <4>4
    <3>3. CASE ~(A[w].what = "detail" /\ A[w].by = "screen") /\ A[w].by # "section"
      <4>1. B[w] = A[w]
        BY <2>1, <2>2, <2>3, <3>3
      <4>2. HeardBy(B[w], s)
        BY <1>1, <1>3, <2>3, <3>3, <4>1 DEF HeardBy
      <4>3. QED
        BY <1>1, <2>3, <3>3, <4>1, <4>2 DEF SameAsk
    <3>4. QED
      BY <3>1, <3>2, <3>3
  <2>4. ASSUME NEW w \in Wires, A[w] = NoAsk PROVE B[w] = NoAsk
    BY <2>1, <2>2, <2>4
  <2>5. IsAsks(B)
    BY <2>1 DEF IsAsks
  <2>6. ASSUME NEW q \in Flight(B)
        PROVE  \E w \in Wires : A[w] # NoAsk /\ q = B[w]
    BY <2>4, <2>6 DEF Flight
  <2>7. ASSUME NEW r \in Flight(A), r.by = "shell" PROVE r \in Flight(B)
    <3>1. PICK w \in Wires : r = A[w] /\ A[w] # NoAsk
      BY DEF Flight
    <3>2. r = B[w] /\ B[w] # NoAsk
      BY <2>3, <2>7, <3>1
    <3>3. QED
      BY <3>2 DEF Flight
  <2>9. ASSUME NEW r \in Flight(A) PROVE \E q \in Flight(B) : SameAsk(q, r)
    <3>1. PICK w \in Wires : r = A[w] /\ A[w] # NoAsk
      BY DEF Flight
    <3>2. B[w] \in Flight(B) /\ SameAsk(B[w], r)
      BY <2>3, <3>1 DEF Flight
    <3>3. QED
      BY <3>2
  <2>8. QED
    BY <1>1, <1>3, <2>3, <2>4, <2>5, <2>6, <2>7, <2>9 DEF B
<1>4. CASE Steady(s)
  <2>1. B = A
    BY <1>4 DEF Reheard, Steady
  <2>2. \A r \in Flight(A) : HeardBy(r, s)
    BY <1>4 DEF HeardBy, Steady, ScreenOf
  <2>3. QED
    BY <1>4, <2>1, <2>2 DEF SameAsk, Steady
<1>5. QED
  BY <1>2, <1>3, <1>4

Ready(A) == IsAsks(A) /\ \A r \in Flight(A) : RequestOK(r, Entered) /\ HeardBy(r, shell)

\* What a handler asks for: nothing, or one thing for a component that stays, or the list.
AsksRight(R, s) ==
  \/ R = {}
  \/ \E r : R = {r} /\ RequestOK(r, Entered) /\ HeardBy(r, s) /\ r.answer = Waiting /\ Steady(s)
  \/ R = {ListRequest} /\ ViewOf(s) = "loading"

LEMMA ListRequestIs ==
  /\ RequestOK(ListRequest, Entered) /\ ListRequest.what = "list" /\ ListRequest.by = "shell"
  /\ ListRequest.answer = Waiting /\ \A s : HeardBy(ListRequest, s)
<1>1. ListRequest = [what |-> "list", by |-> "shell", arg |-> 0, answer |-> Waiting]
  BY DEF ListRequest, Request
<1>2. ~Ok(ListRequest)
  BY <1>1 DEF Ok, Waiting
<1>3. RequestOK(ListRequest, Entered)
  BY <1>1, <1>2 DEF RequestOK, AskedFor
<1>4. QED
  BY <1>1, <1>3 DEF HeardBy

\* What a view says of the shell.
LEMMA ViewIs ==
  ASSUME NEW s, NEW ids, ShellOK(s, ids)
  PROVE  /\ ViewOf(s) = "loading" <=> s.kind = "loading"
         /\ ViewOf(s) = "login" <=> s.kind = "login"
         /\ ViewOf(s) \in {"operators", "audit", "account"} <=>
              s.kind \notin {"loading", "login"} /\ s.nav = ViewOf(s)
         /\ ViewOf(s) \in {"create", "detail", "list", "no-list"} <=>
              s.kind \notin {"loading", "login"} /\ s.nav = "tenants"
         /\ ViewOf(s) = "create" => s.creating
         /\ ViewOf(s) = "detail" => ~s.creating /\ s.selected # NoTenant
         /\ ViewOf(s) \in {"list", "no-list"} => ~s.creating /\ s.selected = NoTenant
         /\ ViewOf(s) = "list" => s.kind = "tenants"
         /\ ViewOf(s) = "no-list" => s.kind # "tenants"
<1>1. s.nav \in {"tenants", "operators", "audit", "account"} /\ s.creating \in BOOLEAN
      /\ s.kind \in {"loading", "login", "tenants", "missing-permission", "error"}
  BY DEF ShellOK
<1>2. CASE s.kind \in {"loading", "login"}
  <2>1. ViewOf(s) = s.kind
    BY <1>2 DEF ViewOf
  <2>2. QED
    BY <1>1, <1>2, <2>1
<1>3. CASE s.kind \notin {"loading", "login"} /\ s.nav # "tenants"
  <2>1. ViewOf(s) = s.nav
    BY <1>3 DEF ViewOf
  <2>2. QED
    BY <1>1, <1>3, <2>1
<1>4. CASE s.kind \notin {"loading", "login"} /\ s.nav = "tenants"
  BY <1>1, <1>4 DEF ViewOf
<1>5. QED
  BY <1>2, <1>3, <1>4

LEMMA MountRequestIs ==
  ASSUME NEW s, ShellOK(s, Entered)
  PROVE  \/ MountRequest(ViewOf(s), s) = {} /\ ViewOf(s) \notin {"detail", "operators", "audit"}
         \/ \E r : /\ MountRequest(ViewOf(s), s) = {r} /\ RequestOK(r, Entered) /\ HeardBy(r, s)
                   /\ r.answer = Waiting /\ r.by = "screen" /\ r.what = ViewOf(s)
                   /\ ViewOf(s) \in {"detail", "operators", "audit"}
                   /\ (r.what = "audit" => r.arg = FALSE)
                   /\ (r.what = "detail" => r.arg = s.selected)
<1>1. CASE ViewOf(s) = "detail"
  <2> DEFINE r == Request("detail", "screen", s.selected)
  <2>1. s.selected \in Entered \cup {NoTenant}
    BY DEF ShellOK
  <2>2. s.selected # NoTenant
    BY <1>1, ViewIs
  <2>3. r = [what |-> "detail", by |-> "screen", arg |-> s.selected, answer |-> Waiting]
    BY DEF Request
  <2> HIDE DEF r
  <2>4. ~Ok(r)
    BY <2>3 DEF Ok, Waiting
  <2>5. RequestOK(r, Entered)
    BY <2>1, <2>2, <2>3, <2>4 DEF RequestOK, AskedFor
  <2>6. HeardBy(r, s)
    BY <1>1, <2>3 DEF HeardBy, ScreenOf
  <2>7. MountRequest(ViewOf(s), s) = {r}
    BY <1>1 DEF MountRequest, r
  <2>8. QED
    BY <1>1, <2>3, <2>5, <2>6, <2>7
<1>2. CASE ViewOf(s) \in {"operators", "audit"}
  <2>1. PICK x : MountRequest(ViewOf(s), s) = {Request(ViewOf(s), "screen", x)}
                 /\ (ViewOf(s) = "audit" => x = FALSE)
    BY <1>2 DEF MountRequest
  <2> DEFINE r == Request(ViewOf(s), "screen", x)
  <2>3. r = [what |-> ViewOf(s), by |-> "screen", arg |-> x, answer |-> Waiting]
    BY DEF Request
  <2> HIDE DEF r
  <2>5. RequestOK(r, Entered)
    BY <1>2, <2>3 DEF RequestOK, AskedFor
  <2>6. HeardBy(r, s)
    BY <1>2, <2>3 DEF HeardBy, ScreenOf
  <2>7. MountRequest(ViewOf(s), s) = {r}
    BY <2>1 DEF r
  <2>8. QED
    BY <1>2, <2>1, <2>3, <2>5, <2>6, <2>7
<1>3. CASE ViewOf(s) \notin {"detail", "operators", "audit"}
  BY <1>3 DEF MountRequest
<1>4. QED
  BY <1>1, <1>2, <1>3

LEMMA AsksOfIs ==
  ASSUME NEW s, ShellOK(s, Entered), NEW R, AsksRight(R, s)
  PROVE  /\ Steady(s) \/ ViewOf(s) = "loading" => AsksOf(R, s) = R
         /\ \/ AsksOf(R, s) = {} /\ R = {}
               /\ (Steady(s) \/ ViewOf(s) \notin {"detail", "operators", "audit"})
            \/ \E r : /\ AsksOf(R, s) = {r} /\ RequestOK(r, Entered) /\ HeardBy(r, s)
                      /\ r.answer = Waiting /\ (R = {} \/ R = {r})
                      /\ ~Steady(s) =>
                           \/ r = ListRequest /\ ViewOf(s) = "loading" /\ R = {r}
                           \/ /\ R = {} /\ r.by = "screen" /\ r.what = ViewOf(s)
                              /\ ViewOf(s) \in {"detail", "operators", "audit"}
                              /\ (r.what = "audit" => r.arg = FALSE)
                              /\ (r.what = "detail" => r.arg = s.selected)
<1>1. CASE Steady(s)
  <2>1. AsksOf(R, s) = R
    BY <1>1 DEF AsksOf
  <2>2. R = {} \/ \E r : R = {r} /\ RequestOK(r, Entered) /\ HeardBy(r, s) /\ r.answer = Waiting
    BY ListRequestIs DEF AsksRight
  <2>3. QED
    BY <1>1, <2>1, <2>2
<1>2. CASE ~Steady(s) /\ ViewOf(s) = "loading"
  <2>1. MountRequest(ViewOf(s), s) = {}
    BY <1>2 DEF MountRequest
  <2>2. AsksOf(R, s) = R
    BY <2>1 DEF AsksOf
  <2>3. R = {} \/ R = {ListRequest}
    BY <1>2 DEF AsksRight
  <2>4. QED
    BY <1>2, <2>2, <2>3, ListRequestIs
<1>3. CASE ~Steady(s) /\ ViewOf(s) # "loading"
  <2>1. R = {}
    BY <1>3 DEF AsksRight
  <2>2. AsksOf(R, s) = MountRequest(ViewOf(s), s)
    BY <1>3, <2>1 DEF AsksOf
  <2>3. QED
    BY <1>3, <2>1, <2>2, MountRequestIs
<1>4. QED
  BY <1>1, <1>2, <1>3

\* What a commit leaves on its way, and when it goes on being one thing at a time.
LEMMA CommitIs ==
  ASSUME NEW s, NEW b, NEW A, NEW R, Rendered(s, b, A, R), Ready(A), ShellOK(s, Entered),
         AsksRight(R, s), orderly \in BOOLEAN
  PROVE  LET N == AsksOf(R, s) IN
         /\ shell' = s /\ body' = IF Steady(s) THEN b ELSE Fresh(ViewOf(s))
         /\ IsAsks(asks') /\ Flight(asks') = Flight(Reheard(A, s)) \cup N /\ orderly' \in BOOLEAN
         /\ \A q \in Flight(asks') : RequestOK(q, Entered) /\ HeardBy(q, s)
         /\ N = {} => orderly' = orderly /\ (Alone(A) => Alone(asks'))
         /\ N # {} /\ orderly' =>
              Flight(A) = {} /\ Flight(asks') = N /\ Alone(asks') /\ (orderly \/ \E r \in N : r.what = "list")
<1> DEFINE B == Reheard(A, s)
           N == AsksOf(R, s)
<1>1. /\ shell' = s /\ body' = IF Steady(s) THEN b ELSE Fresh(ViewOf(s))
      /\ N = {} => asks' = B /\ orderly' = orderly
      /\ N # {} => \E r \in N : /\ Room(B) /\ asks' = Sent(B, r)
                                /\ orderly' = (B = [w \in Wires |-> NoAsk] /\ (orderly \/ r.what = "list"))
  BY RenderedIs
<1>2. IsAsks(B) /\ (\A w \in Wires : A[w] = NoAsk <=> B[w] = NoAsk)
      /\ \A q \in Flight(B) : RequestOK(q, Entered) /\ HeardBy(q, s)
  <2>1. IsAsks(A) /\ \A r \in Flight(A) : RequestOK(r, Entered) /\ HeardBy(r, shell)
    BY DEF Ready
  <2>2. QED
    BY <2>1, ReheardIs
<1>3. N = {} \/ \E r : N = {r} /\ RequestOK(r, Entered) /\ HeardBy(r, s)
  BY AsksOfIs
<1>4. Flight(B) = {} => Flight(A) = {}
  BY <1>2 DEF Flight
<1> HIDE DEF B, N
<1>5. CASE N = {}
  <2>1. asks' = B /\ orderly' = orderly
    BY <1>1, <1>5
  <2>2. Alone(A) => Alone(asks')
    BY <1>2, <2>1 DEF Alone
  <2>3. Flight(asks') = Flight(B)
    BY <2>1 DEF Flight
  <2>4. IsAsks(asks')
    BY <1>2, <2>1
  <2>5. QED
    BY <1>1, <1>2, <1>5, <2>1, <2>2, <2>3, <2>4 DEF B, N
<1>6. CASE N # {}
  <2>1. PICK r : N = {r} /\ RequestOK(r, Entered) /\ HeardBy(r, s)
    BY <1>3, <1>6
  <2>2. Room(B) /\ asks' = Sent(B, r)
        /\ orderly' = (B = [w \in Wires |-> NoAsk] /\ (orderly \/ r.what = "list"))
    BY <1>1, <1>6, <2>1
  <2>3. r # NoAsk
    BY <2>1, RequestIs
  <2>4. IsAsks(asks') /\ Flight(asks') = Flight(B) \cup {r}
        /\ (B = [w \in Wires |-> NoAsk] => Alone(asks') /\ Flight(B) = {})
    BY <1>2, <2>2, <2>3, SentIs
  <2>5. orderly' \in BOOLEAN
    BY <2>2
  <2>6. ASSUME orderly' PROVE Flight(A) = {} /\ Flight(asks') = N /\ Alone(asks') /\ (orderly \/ r.what = "list")
    <3>1. B = [w \in Wires |-> NoAsk] /\ (orderly \/ r.what = "list")
      BY <2>2, <2>6
    <3>2. QED
      BY <1>4, <2>1, <2>4, <3>1
  <2>7. \A q \in Flight(asks') : RequestOK(q, Entered) /\ HeardBy(q, s)
    BY <1>2, <2>1, <2>4
  <2>8. QED
    BY <1>1, <1>6, <2>1, <2>4, <2>5, <2>6, <2>7 DEF B, N
<1>7. QED
  BY <1>5, <1>6

\* One thing at a time, after the commit as before it.
StillOrderly(A, R) ==
  IF R = {} THEN orderly ELSE Flight(A) = {} /\ (orderly \/ \E r \in R : r.what = "list")

LEMMA FreshIs ==
  ASSUME NEW view
  PROVE  /\ BodyOK(view, Fresh(view), Entered) /\ Fresh(view).at \in {"loading", "idle", "none"}
         /\ Fresh(view).at = "loading" => view \in {"detail", "operators", "audit"}
         /\ view = "operators" => Fresh(view).form = "idle"
         /\ view = "audit" => Fresh(view).filter = FALSE
<1>1. CASE view = "detail"
  BY <1>1 DEF Fresh, BodyOK
<1>2. CASE view = "operators"
  BY <1>2 DEF Fresh, BodyOK
<1>3. CASE view = "audit"
  BY <1>3 DEF Fresh, BodyOK
<1>4. CASE view \in {"login", "create", "account"}
  BY <1>4 DEF Fresh, BodyOK
<1>5. CASE view \notin {"detail", "operators", "audit", "login", "create", "account"}
  BY <1>5 DEF Fresh, BodyOK
<1>6. QED
  BY <1>1, <1>2, <1>3, <1>4, <1>5

\* What the screen waits for once a handler is through is on its way.
LEMMA CommitWaits ==
  ASSUME NEW s, NEW b, NEW A, NEW R, Rendered(s, b, A, R), Ready(A), ShellOK(s, Entered),
         AsksRight(R, s), orderly \in BOOLEAN,
         ShellWaits(s, Flight(A) \cup R),
         Steady(s) => BodyWaits(ViewOf(s), b, Flight(A) \cup R)
  PROVE  ShellWaits(shell', Flight(asks')) /\ BodyWaits(ViewOf(shell'), body', Flight(asks'))
<1> DEFINE B == Reheard(A, s)
           N == AsksOf(R, s)
           G == Flight(asks')
<1>1. /\ shell' = s /\ body' = IF Steady(s) THEN b ELSE Fresh(ViewOf(s))
      /\ G = Flight(B) \cup N
  BY CommitIs
<1>2. /\ Steady(s) => B = A
      /\ \A r \in Flight(A) : r.by = "shell" => r \in Flight(B)
      /\ ~Steady(s) => \A q \in Flight(B) : q.by # "section"
  <2>1. IsAsks(A) /\ \A r \in Flight(A) : RequestOK(r, Entered) /\ HeardBy(r, shell)
    BY DEF Ready
  <2>2. QED
    BY <2>1, ReheardIs
<1>3. /\ Steady(s) => N = R
      /\ R \subseteq N
      /\ ~Steady(s) =>
           \/ N = R /\ \A r \in N : r.by = "shell"
           \/ R = {} /\ \E r : N = {r} /\ r.by = "screen" /\ r.what = ViewOf(s)
      /\ ~Steady(s) /\ ViewOf(s) \in {"detail", "operators", "audit"} =>
           \E r \in N : r.by = "screen" /\ r.what = ViewOf(s)
  <2>1. CASE Steady(s)
    <3>1. N = R
      BY <2>1, AsksOfIs
    <3>2. QED
      BY <2>1, <3>1
  <2>2. CASE ~Steady(s) /\ N = {}
    <3>1. R = {} /\ ViewOf(s) \notin {"detail", "operators", "audit"}
      BY <2>2, AsksOfIs
    <3>2. QED
      BY <2>2, <3>1
  <2>3. CASE ~Steady(s) /\ N # {}
    <3>0. PICK r : /\ AsksOf(R, s) = {r} /\ RequestOK(r, Entered) /\ HeardBy(r, s)
                   /\ r.answer = Waiting /\ (R = {} \/ R = {r})
                   /\ ~Steady(s) =>
                           \/ r = ListRequest /\ ViewOf(s) = "loading" /\ R = {r}
                           \/ /\ R = {} /\ r.by = "screen" /\ r.what = ViewOf(s)
                              /\ ViewOf(s) \in {"detail", "operators", "audit"}
                              /\ (r.what = "audit" => r.arg = FALSE)
                              /\ (r.what = "detail" => r.arg = s.selected)
      BY <2>3, AsksOfIs
    <3>1. /\ N = {r}
          /\ \/ r = ListRequest /\ ViewOf(s) = "loading" /\ R = {r}
             \/ R = {} /\ r.by = "screen" /\ r.what = ViewOf(s)
      BY <2>3, <3>0
    <3>2. ListRequest.by = "shell"
      BY ListRequestIs
    <3>3. CASE r = ListRequest /\ ViewOf(s) = "loading" /\ R = {r}
      BY <2>3, <3>1, <3>2, <3>3
    <3>4. CASE R = {} /\ r.by = "screen" /\ r.what = ViewOf(s)
      BY <2>3, <3>1, <3>4
    <3>5. QED
      BY <3>1, <3>3, <3>4
  <2>4. QED
    BY <2>1, <2>2, <2>3
<1> HIDE DEF B, N, G
<1>4. ShellWaits(s, G)
  BY <1>1, <1>2, <1>3 DEF ShellWaits, AskedIn
<1>5. CASE Steady(s)
  <2>1. Flight(B) = Flight(A)
    BY <1>2, <1>5 DEF Flight
  <2>2. BodyWaits(ViewOf(s), b, G)
    BY <1>1, <1>3, <1>5, <2>1
  <2>3. QED
    BY <1>1, <1>4, <1>5, <2>2 DEF G
<1>6. CASE ~Steady(s)
  <2> DEFINE f == Fresh(ViewOf(s))
  <2>1. /\ f.at \in {"loading", "idle", "none"}
        /\ f.at = "loading" => ViewOf(s) \in {"detail", "operators", "audit"}
        /\ ViewOf(s) = "operators" => f.form = "idle"
    BY FreshIs
  <2> HIDE DEF f
  <2>2. \A r \in G : r.by # "section"
    BY <1>1, <1>2, <1>3, <1>6
  <2>3. f.at = "loading" => AskedIn(G, ViewOf(s), "screen")
    BY <1>1, <1>3, <1>6, <2>1 DEF AskedIn
  <2>4. BodyWaits(ViewOf(s), f, G)
    BY <2>1, <2>2, <2>3 DEF BodyWaits
  <2>5. QED
    BY <1>1, <1>4, <1>6, <2>4 DEF f, G
<1>7. QED
  BY <1>5, <1>6

\* What a component that has just been mounted shows is true, if what it finds is.
LEMMA FreshIsTrue ==
  ASSUME NEW s, NEW F, ShellOK(s, Entered),
         LoginIsTrue(s, F, server), ListIsTrue(s, F, server),
         \A r \in F : TrueAnswer(r, s, Fresh(ViewOf(s)), server)
  PROVE  TrueSoFar(s, Fresh(ViewOf(s)), F, server)
<1>1. Fresh(ViewOf(s)).at # "loaded"
  BY FreshIs
<1>2. QED
  BY <1>1 DEF TrueSoFar, ScreenIsTrue

\* What was true stays true of what is still on its way.
LEMMA KeptIsTrue ==
  ASSUME NEW s, NEW A, Ready(A), ViewOf(s) \notin {"detail", "operators", "audit"}, ~Steady(s),
         \A r \in Flight(A) : TrueAnswer(r, shell, body, server) /\ r.what # "save"
  PROVE  \A q \in Flight(Reheard(A, s)) : TrueAnswer(q, s, Fresh(ViewOf(s)), server)
<1> SUFFICES ASSUME NEW q \in Flight(Reheard(A, s))
             PROVE  TrueAnswer(q, s, Fresh(ViewOf(s)), server)
  OBVIOUS
<1>0. IsAsks(A) /\ \A r \in Flight(A) : RequestOK(r, Entered) /\ HeardBy(r, shell)
  BY DEF Ready
<1>1. PICK r \in Flight(A) : SameAsk(q, r)
  BY <1>0, ReheardIs
<1>2. HeardBy(q, s)
  BY <1>0, ReheardIs
<1>3. q.what = r.what /\ q.arg = r.arg /\ q.answer = r.answer /\ (Ok(q) <=> Ok(r))
  BY <1>1 DEF SameAsk, Ok
<1>4. TrueAnswer(r, shell, body, server) /\ r.what # "save"
  OBVIOUS
<1>5. q.what = "audit" => q.by # "screen"
  BY <1>2 DEF HeardBy, ScreenOf
<1>6. QED
  BY <1>3, <1>4, <1>5 DEF TrueAnswer

LEMMA CommitTrue ==
  ASSUME NEW s, NEW b, NEW A, NEW R, Rendered(s, b, A, R), Ready(A), ShellOK(s, Entered),
         AsksRight(R, s), orderly \in BOOLEAN,
         Steady(s) /\ StillOrderly(A, R) => TrueSoFar(s, b, Flight(A) \cup R, server),
         orderly /\ ~Steady(s) /\ R = {} =>
           /\ LoginIsTrue(s, Flight(A), server) /\ ListIsTrue(s, Flight(A), server)
           /\ \A r \in Flight(A) : r.what # "save",
         orderly => Alone(A) /\ \A r \in Flight(A) : TrueAnswer(r, shell, body, server),
         orderly'
  PROVE  Alone(asks') /\ TrueSoFar(s, body', Flight(asks'), server)
<1> DEFINE B == Reheard(A, s)
           N == AsksOf(R, s)
           G == Flight(asks')
<1>1. /\ body' = IF Steady(s) THEN b ELSE Fresh(ViewOf(s))
      /\ G = Flight(B) \cup N
      /\ N = {} => orderly' = orderly /\ (Alone(A) => Alone(asks'))
      /\ N # {} /\ orderly' =>
              Flight(A) = {} /\ G = N /\ Alone(asks') /\ (orderly \/ \E r \in N : r.what = "list")
  BY CommitIs
<1>2. Steady(s) => N = R
  BY DEF AsksOf
<1>3. CASE N = {} /\ Steady(s)
  <2>1. R = {} /\ orderly
    BY <1>1, <1>2, <1>3
  <2>2. B = A
    BY <1>3 DEF Reheard, Steady
  <2>3. G = Flight(A) \cup R
    BY <1>1, <1>3, <2>1, <2>2
  <2>4. StillOrderly(A, R)
    BY <2>1 DEF StillOrderly
  <2>5. TrueSoFar(s, b, G, server)
    BY <1>3, <2>3, <2>4
  <2>6. QED
    BY <1>1, <1>3, <2>1, <2>5
<1>4. CASE N = {} /\ ~Steady(s)
  <2>1. R = {} /\ ViewOf(s) \notin {"detail", "operators", "audit"}
    BY <1>4, AsksOfIs
  <2>2. orderly /\ G = Flight(B)
    BY <1>1, <1>4
  <2>3. \A q \in G : TrueAnswer(q, s, Fresh(ViewOf(s)), server)
    BY <1>4, <2>1, <2>2, KeptIsTrue
  <2>4. \A r \in Flight(A) : \E q \in G : SameAsk(q, r)
    <3>1. IsAsks(A) /\ \A r \in Flight(A) : RequestOK(r, Entered) /\ HeardBy(r, shell)
      BY DEF Ready
    <3>2. QED
      BY <2>2, <3>1, ReheardIs
  <2> HIDE DEF G
  <2>5. LoginIsTrue(s, G, server) /\ ListIsTrue(s, G, server)
    <3>1. LoginIsTrue(s, Flight(A), server) /\ ListIsTrue(s, Flight(A), server)
      BY <1>4, <2>1, <2>2
    <3>2. \A what : Done200(Flight(A), what) => Done200(G, what)
      BY <2>4 DEF Done200, SameAsk, Ok
    <3>3. QED
      BY <3>1, <3>2 DEF LoginIsTrue, ListIsTrue
  <2>6. TrueSoFar(s, Fresh(ViewOf(s)), G, server)
    BY <2>3, <2>5, FreshIsTrue
  <2>7. QED
    BY <1>1, <1>4, <2>2, <2>6 DEF G
<1>5. CASE N # {}
  <2>1. Flight(A) = {} /\ G = N /\ Alone(asks') /\ (orderly \/ \E r \in N : r.what = "list")
    BY <1>1, <1>5
  <2>2. PICK r : /\ AsksOf(R, s) = {r} /\ RequestOK(r, Entered) /\ HeardBy(r, s)
                 /\ r.answer = Waiting /\ (R = {} \/ R = {r})
                 /\ ~Steady(s) =>
                           \/ r = ListRequest /\ ViewOf(s) = "loading" /\ R = {r}
                           \/ /\ R = {} /\ r.by = "screen" /\ r.what = ViewOf(s)
                              /\ ViewOf(s) \in {"detail", "operators", "audit"}
                              /\ (r.what = "audit" => r.arg = FALSE)
                              /\ (r.what = "detail" => r.arg = s.selected)
    BY <1>5, AsksOfIs
  <2>3. r.answer.status \notin {"500", "lost", "200"} /\ r.answer.status = "none" /\ ~Ok(r)
    BY <2>2 DEF Waiting, Ok
  <2>4. CASE Steady(s)
    <3>1. N = R /\ Flight(A) \cup R = G
      BY <1>2, <2>1, <2>4
    <3>2. StillOrderly(A, R)
      BY <1>5, <2>1, <3>1 DEF StillOrderly
    <3>3. TrueSoFar(s, b, G, server)
      BY <2>4, <3>1, <3>2
    <3>4. QED
      BY <1>1, <2>1, <2>4, <3>3
  <2>5. CASE ~Steady(s) /\ r = ListRequest /\ ViewOf(s) = "loading"
    <3>1. G = {r} /\ r.what = "list"
      BY <2>1, <2>2, <2>5, ListRequestIs
    <3>2. s.kind = "loading"
      BY <2>5, ViewIs
    <3> HIDE DEF G
    <3>3. LoginIsTrue(s, G, server) /\ ListIsTrue(s, G, server)
      BY <2>5, <3>2 DEF LoginIsTrue, ListIsTrue
    <3>4. \A q \in G : TrueAnswer(q, s, Fresh(ViewOf(s)), server)
      BY <2>2, <2>3, <2>5, <3>1 DEF TrueAnswer
    <3>5. TrueSoFar(s, Fresh(ViewOf(s)), G, server)
      BY <3>3, <3>4, FreshIsTrue
    <3>6. QED
      BY <1>1, <2>1, <2>5, <3>5 DEF G
  <2>6. CASE /\ ~Steady(s) /\ R = {} /\ r.by = "screen" /\ r.what = ViewOf(s)
             /\ ViewOf(s) \in {"detail", "operators", "audit"}
             /\ (r.what = "audit" => r.arg = FALSE)
    <3>1. G = {r} /\ orderly
      BY <2>1, <2>2, <2>6
    <3>2. LoginIsTrue(s, {}, server) /\ ListIsTrue(s, {}, server)
      BY <2>1, <2>6, <3>1
    <3> HIDE DEF G
    <3>3. LoginIsTrue(s, G, server) /\ ListIsTrue(s, G, server)
      BY <3>2 DEF LoginIsTrue, ListIsTrue, Done200
    <3>4. ViewOf(s) = "audit" => Fresh(ViewOf(s)).filter = FALSE
      BY FreshIs
    <3>5. r.what \notin Writes
      BY <2>6 DEF Writes
    <3>6. \A q \in G : TrueAnswer(q, s, Fresh(ViewOf(s)), server)
      BY <2>2, <2>3, <2>6, <3>1, <3>4, <3>5 DEF TrueAnswer
    <3>7. TrueSoFar(s, Fresh(ViewOf(s)), G, server)
      BY <3>3, <3>6, FreshIsTrue
    <3>8. QED
      BY <1>1, <2>1, <2>6, <3>7 DEF G
  <2>7. QED
    BY <2>2, <2>4, <2>5, <2>6
<1>6. QED
  BY <1>3, <1>4, <1>5

LEMMA ViewsAre ==
  ASSUME NEW s, NEW ids, ShellOK(s, ids)
  PROVE  ViewOf(s) \in {"loading", "login", "tenants", "operators", "audit", "account",
                        "create", "detail", "list", "no-list"}
<1>1. s.nav \in {"tenants", "operators", "audit", "account"} /\ s.creating \in BOOLEAN
      /\ s.kind \in {"loading", "login", "tenants", "missing-permission", "error"}
  BY DEF ShellOK
<1>2. QED
  BY <1>1 DEF ViewOf

\* A commit that answers for what it shows and asks keeps the panel as it was.
LEMMA CommitKeeps ==
  ASSUME PanelInv, NEW s, NEW b, NEW A, NEW R, Rendered(s, b, A, R), Ready(A), ShellOK(s, Entered),
         AsksRight(R, s), server' = server, clicks' \in 0 .. MaxClicks,
         Steady(s) => BodyOK(ViewOf(s), b, Entered),
         ShellWaits(s, Flight(A) \cup R),
         Steady(s) => BodyWaits(ViewOf(s), b, Flight(A) \cup R),
         Steady(s) /\ StillOrderly(A, R) => TrueSoFar(s, b, Flight(A) \cup R, server),
         orderly /\ ~Steady(s) /\ R = {} =>
           /\ LoginIsTrue(s, Flight(A), server) /\ ListIsTrue(s, Flight(A), server)
           /\ \A r \in Flight(A) : r.what # "save",
         orderly => Alone(A) /\ \A r \in Flight(A) : TrueAnswer(r, shell, body, server)
  PROVE  PanelInv'
<1>1. orderly \in BOOLEAN /\ ServerOK(server)
  BY DEF PanelInv, PanelShape
<1>3. /\ shell' = s /\ body' = IF Steady(s) THEN b ELSE Fresh(ViewOf(s))
      /\ IsAsks(asks') /\ orderly' \in BOOLEAN
      /\ \A q \in Flight(asks') : RequestOK(q, Entered) /\ HeardBy(q, s)
  BY <1>1, CommitIs
<1>4. BodyOK(ViewOf(s), body', Entered)
  BY <1>3, FreshIs
<1>5. ShellWaits(shell', Flight(asks')) /\ BodyWaits(ViewOf(shell'), body', Flight(asks'))
  BY <1>1, CommitWaits
<1>6. ASSUME orderly' PROVE Alone(asks') /\ TrueSoFar(s, body', Flight(asks'), server)
  BY <1>1, <1>6, CommitTrue
<1>7. Entered' = Entered
  BY DEF Entered
<1>8. PanelShape'
  <2>1. ServerOK(server')
    BY <1>1
  <2>2. ShellOK(shell', Entered') /\ BodyOK(ViewOf(shell'), body', Entered')
    BY <1>3, <1>4, <1>7
  <2>3. \A r \in Flight(asks') : RequestOK(r, Entered') /\ HeardBy(r, shell')
    BY <1>3, <1>7
  <2>4. DOMAIN asks' = Wires /\ asks' = [w \in Wires |-> asks'[w]]
    BY <1>3 DEF IsAsks
  <2>5. QED
    BY <2>1, <2>2, <2>3, <2>4 DEF PanelShape
<1>9. PanelWaits'
  BY <1>5 DEF PanelWaits
<1>10. PanelQuiet'
  BY <1>3, <1>6 DEF PanelQuiet
<1>11. QED
  BY <1>3, <1>8, <1>9, <1>10 DEF PanelInv

-----------------------------------------------------------------------------
(* What the operator does. *)

LEMMA PanelIs ==
  ASSUME PanelInv
  PROVE  /\ Ready(asks) /\ IsAsks(asks) /\ ShellOK(shell, Entered) /\ BodyOK(ViewOf(shell), body, Entered)
         /\ ServerOK(server) /\ Steady(shell) /\ orderly \in BOOLEAN /\ clicks \in 0 .. MaxClicks
         /\ ShellWaits(shell, Flight(asks)) /\ BodyWaits(ViewOf(shell), body, Flight(asks))
         /\ orderly => Alone(asks) /\ TrueSoFar(shell, body, Flight(asks), server)
                       /\ \A r \in Flight(asks) : TrueAnswer(r, shell, body, server)
         /\ ViewOf(shell) \in {"loading", "login", "tenants", "operators", "audit", "account",
                               "create", "detail", "list", "no-list"}
<1>1. PanelShape /\ PanelWaits /\ PanelQuiet /\ orderly \in BOOLEAN
  BY DEF PanelInv
<1>2. /\ IsAsks(asks) /\ ShellOK(shell, Entered) /\ BodyOK(ViewOf(shell), body, Entered)
      /\ ServerOK(server) /\ clicks \in 0 .. MaxClicks
      /\ \A r \in Flight(asks) : RequestOK(r, Entered) /\ HeardBy(r, shell)
  BY <1>1 DEF PanelShape, IsAsks
<1>3. Steady(shell)
  BY DEF Steady
<1>4. ViewOf(shell) \in {"loading", "login", "tenants", "operators", "audit", "account",
                         "create", "detail", "list", "no-list"}
  BY <1>2, ViewsAre
<1>5. QED
  BY <1>1, <1>2, <1>3, <1>4 DEF Ready, PanelWaits, PanelQuiet, TrueSoFar

LEMMA ClickIs ==
  ASSUME PanelInv, Click
  PROVE  clicks' \in 0 .. MaxClicks /\ server' = server /\ clicks > 0 /\ clicks \in 0 .. MaxClicks
  BY PanelIs, PanelAssumption DEF Click

LEMMA WaitsMore ==
  ASSUME NEW s, NEW view, NEW b, NEW F, NEW q, ShellWaits(s, F)
  PROVE  /\ ShellWaits(s, F \cup {q}) /\ ShellWaits(s, F \cup {})
         /\ BodyWaits(view, b, F) /\ q.by # "section" => BodyWaits(view, b, F \cup {q})
         /\ BodyWaits(view, b, F) /\ b.at = "loaded" => BodyWaits(view, b, F \cup {q})
<1>1. \A what, by : AskedIn(F, what, by) => AskedIn(F \cup {q}, what, by)
  BY DEF AskedIn
<1>2. \A f : Saving(F, f) => Saving(F \cup {q}, f)
  BY DEF Saving
<1>3. ShellWaits(s, F \cup {q}) /\ ShellWaits(s, F \cup {})
  BY <1>1 DEF ShellWaits
<1>4. ASSUME BodyWaits(view, b, F), q.by # "section" \/ b.at = "loaded" PROVE BodyWaits(view, b, F \cup {q})
  BY <1>1, <1>2, <1>4 DEF BodyWaits
<1>5. QED
  BY <1>3, <1>4

\* What is asked for where nothing was leaves what is shown as true as it was.
LEMMA AskedIsTrue ==
  ASSUME NEW q, NEW b, TrueSoFar(shell, body, {}, server), ScreenIsTrue(shell, b, {}, server),
         q.answer = Waiting,
         q.what = "save" => q.by = "section" /\ shell.selected = q.arg.id,
         q.what \in {"hire", "toggle"} => q.by = "screen",
         q.what = "audit" => q.arg = b.filter,
         ViewOf(shell) = "audit" => q.what \notin Writes
  PROVE  TrueSoFar(shell, b, {q}, server)
<1>1. q.answer.status = "none" /\ ~Ok(q)
  BY DEF Waiting, Ok
<1>2. TrueAnswer(q, shell, b, server)
  BY <1>1 DEF TrueAnswer
<1>3. LoginIsTrue(shell, {q}, server) /\ ListIsTrue(shell, {q}, server) /\ ScreenIsTrue(shell, b, {q}, server)
  BY DEF TrueSoFar, LoginIsTrue, ListIsTrue, ScreenIsTrue, Done200
<1>4. QED
  BY <1>2, <1>3 DEF TrueSoFar

LEMMA PressAsksKeep ==
  ASSUME PanelInv, NEW b, NEW what, NEW by, NEW arg, NEW q, q = Request(what, by, arg),
         AskingWith(b, what, by, arg),
         RequestOK(q, Entered), HeardBy(q, shell), what # "list",
         BodyOK(ViewOf(shell), b, Entered), BodyWaits(ViewOf(shell), b, Flight(asks) \cup {q}),
         orderly /\ Flight(asks) = {} => ScreenIsTrue(shell, b, {}, server),
         what = "save" => by = "section" /\ shell.selected = arg.id,
         what \in {"hire", "toggle"} => by = "screen",
         what = "audit" => arg = b.filter,
         ViewOf(shell) = "audit" => what \notin Writes
  PROVE  PanelInv'
<1>1. Click /\ Rendered(shell, b, asks, {q})
  BY DEF AskingWith
<1>2. clicks' \in 0 .. MaxClicks /\ server' = server
  BY <1>1, ClickIs
<1>3. q.what = what /\ q.by = by /\ q.arg = arg /\ q.answer = Waiting
  BY DEF Request
<1>4. AsksRight({q}, shell)
  BY <1>3, PanelIs DEF AsksRight
<1>5. ShellWaits(shell, Flight(asks) \cup {q})
  BY PanelIs, WaitsMore
<1>6. ASSUME StillOrderly(asks, {q}) PROVE TrueSoFar(shell, b, Flight(asks) \cup {q}, server)
  <2>1. Flight(asks) = {} /\ orderly
    BY <1>3, <1>6 DEF StillOrderly
  <2>2. TrueSoFar(shell, body, {}, server) /\ ScreenIsTrue(shell, b, {}, server)
    BY <2>1, PanelIs
  <2>3. TrueSoFar(shell, b, {q}, server)
    BY <1>3, <2>2, AskedIsTrue
  <2>4. Flight(asks) \cup {q} = {q}
    BY <2>1
  <2>5. QED
    BY <2>3, <2>4
<1>7. {q} # {}
  OBVIOUS
<1>8. QED
  BY <1>1, <1>2, <1>4, <1>5, <1>6, <1>7, PanelIs, CommitKeeps

\* A press that only changes what the component there shows.
LEMMA StayKeeps ==
  ASSUME PanelInv, NEW b, Click, Rendered(shell, b, asks, {}),
         BodyOK(ViewOf(shell), b, Entered), BodyWaits(ViewOf(shell), b, Flight(asks)),
         orderly => ScreenIsTrue(shell, b, Flight(asks), server),
         ViewOf(shell) # "audit"
  PROVE  PanelInv'
<1>1. clicks' \in 0 .. MaxClicks /\ server' = server
  BY ClickIs
<1>2. AsksRight({}, shell)
  BY DEF AsksRight
<1>3. ShellWaits(shell, Flight(asks) \cup {}) /\ BodyWaits(ViewOf(shell), b, Flight(asks) \cup {})
  <2>1. Flight(asks) \cup {} = Flight(asks)
    OBVIOUS
  <2>2. QED
    BY <2>1, PanelIs
<1>4. ASSUME StillOrderly(asks, {}) PROVE TrueSoFar(shell, b, Flight(asks) \cup {}, server)
  <2>1. orderly
    BY <1>4 DEF StillOrderly
  <2>2. TrueSoFar(shell, body, Flight(asks), server) /\ ScreenIsTrue(shell, b, Flight(asks), server)
    BY <2>1, PanelIs
  <2>3. \A r \in Flight(asks) : TrueAnswer(r, shell, b, server)
    <3>1. TAKE r \in Flight(asks)
    <3>2. TrueAnswer(r, shell, body, server) /\ HeardBy(r, shell)
      BY <2>2, PanelIs DEF TrueSoFar, Ready
    <3>3. r.what = "audit" => r.by # "screen"
      BY <3>2 DEF HeardBy, ScreenOf
    <3>4. QED
      BY <3>2, <3>3 DEF TrueAnswer
  <2>4. TrueSoFar(shell, b, Flight(asks), server)
    BY <2>2, <2>3 DEF TrueSoFar
  <2>5. Flight(asks) \cup {} = Flight(asks)
    OBVIOUS
  <2>6. QED
    BY <2>4, <2>5
<1>5. QED
  BY <1>1, <1>2, <1>3, <1>4, PanelIs, CommitKeeps

LEMMA AskingKeeps ==
  ASSUME PanelInv, NEW what \in {"login", "create", "password"}, NEW arg,
         ViewOf(shell) = ScreenOf(what), what = "create" => arg \in PanelTenants, Asking(what, arg)
  PROVE  PanelInv'
<1> DEFINE q == Request(what, "screen", arg)
           b == [body EXCEPT !.at = "busy"]
<1>1. q = [what |-> what, by |-> "screen", arg |-> arg, answer |-> Waiting]
  BY DEF Request
<1>2. q.what = what /\ q.by = "screen" /\ q.arg = arg /\ q.answer = Waiting /\ ~Ok(q)
  BY <1>1 DEF Waiting, Ok
<1>3. RequestOK(q, Entered)
  BY <1>1, <1>2 DEF RequestOK, AskedFor, Writes
<1>4. HeardBy(q, shell)
  BY <1>2 DEF HeardBy
<1>5. ViewOf(shell) \in {"login", "create", "account"}
  BY DEF ScreenOf
<1>6. body \in [at : {"idle", "busy", "error", "done"}]
  BY <1>5, PanelIs DEF BodyOK
<1>7. b \in [at : {"idle", "busy", "error", "done"}] /\ b.at = "busy"
  BY <1>6
<1>8. AskingWith(b, what, "screen", arg)
  BY DEF Asking
<1> HIDE DEF q, b
<1>9. BodyOK(ViewOf(shell), b, Entered)
  BY <1>5, <1>7 DEF BodyOK
<1>10. AskedIn(Flight(asks) \cup {q}, what, "screen")
  BY <1>2 DEF AskedIn
<1>11. BodyWaits(ViewOf(shell), b, Flight(asks) \cup {q})
  BY <1>5, <1>7, <1>10 DEF BodyWaits
<1>12. ScreenIsTrue(shell, b, {}, server)
  BY <1>5 DEF ScreenIsTrue
<1>13. what # "list" /\ what # "save" /\ what \notin {"hire", "toggle"} /\ what # "audit"
       /\ ViewOf(shell) # "audit"
  BY <1>5
<1>14. QED
  BY <1>3, <1>4, <1>8, <1>9, <1>11, <1>12, <1>13, PressAsksKeep DEF q

LEMMA PressLogoutKeeps == PanelInv /\ PressLogout => PanelInv'
<1> SUFFICES ASSUME PanelInv, PressLogout PROVE PanelInv'
  OBVIOUS
<1> DEFINE q == Request("logout", "shell", 0)
<1>1. q = [what |-> "logout", by |-> "shell", arg |-> 0, answer |-> Waiting]
  BY DEF Request
<1>2. q.what = "logout" /\ q.by = "shell" /\ q.answer = Waiting /\ ~Ok(q)
  BY <1>1 DEF Waiting, Ok
<1>3. RequestOK(q, Entered)
  BY <1>1, <1>2 DEF RequestOK, AskedFor
<1>4. HeardBy(q, shell)
  BY <1>2 DEF HeardBy
<1>5. AskingWith(body, "logout", "shell", 0)
  BY DEF PressLogout
<1>6. BodyOK(ViewOf(shell), body, Entered)
  BY PanelIs
<1> HIDE DEF q
<1>7. BodyWaits(ViewOf(shell), body, Flight(asks) \cup {q})
  BY <1>2, PanelIs, WaitsMore
<1>8. orderly /\ Flight(asks) = {} => ScreenIsTrue(shell, body, {}, server)
  BY PanelIs DEF TrueSoFar
<1>9. "logout" \notin Writes
  BY DEF Writes
<1>10. QED
  BY <1>3, <1>4, <1>5, <1>6, <1>7, <1>8, <1>9, PressAsksKeep DEF q

\* The list is to be read anew.
LEMMA ReloadKeeps ==
  ASSUME PanelInv, Click, NEW s, ShellOK(s, Entered), s.kind = "loading", ViewOf(shell) # "loading",
         Rendered(s, body, asks, {ListRequest})
  PROVE  PanelInv'
<1>1. clicks' \in 0 .. MaxClicks /\ server' = server
  BY ClickIs
<1>2. ViewOf(s) = "loading"
  BY ViewIs
<1>3. ~Steady(s)
  BY <1>2 DEF Steady
<1>4. AsksRight({ListRequest}, s)
  BY <1>2 DEF AsksRight
<1>5. ShellWaits(s, Flight(asks) \cup {ListRequest})
  BY ListRequestIs DEF ShellWaits, AskedIn
<1>6. QED
  BY <1>1, <1>3, <1>4, <1>5, PanelIs, CommitKeeps

\* Another screen, at the same list.
LEMMA MoveKeepsPanel ==
  ASSUME PanelInv, Click, NEW s, ShellOK(s, Entered), ViewOf(s) # ViewOf(shell),
         s.kind = shell.kind, s.rows = shell.rows, s.selected = NoTenant => shell.selected = NoTenant,
         ViewOf(shell) \notin {"loading", "login", "detail"},
         Rendered(s, body, asks, {})
  PROVE  PanelInv'
<1>1. clicks' \in 0 .. MaxClicks /\ server' = server
  BY ClickIs
<1>2. ~Steady(s)
  BY DEF Steady
<1>3. AsksRight({}, s)
  BY DEF AsksRight
<1>4. shell.kind # "loading" /\ shell.kind # "login"
  BY ViewIs, PanelIs
<1>5. ShellWaits(s, Flight(asks) \cup {})
  BY <1>4 DEF ShellWaits
<1>6. ASSUME orderly
      PROVE  /\ LoginIsTrue(s, Flight(asks), server) /\ ListIsTrue(s, Flight(asks), server)
             /\ \A r \in Flight(asks) : r.what # "save"
  <2>1. ListIsTrue(shell, Flight(asks), server)
    BY <1>6, PanelIs DEF TrueSoFar
  <2>2. ListIsTrue(s, Flight(asks), server)
    BY <2>1 DEF ListIsTrue
  <2>3. ViewOf(s) # "login"
    BY <1>4, ViewIs
  <2>4. \A r \in Flight(asks) : r.what # "save"
    <3>1. SUFFICES ASSUME NEW r \in Flight(asks), r.what = "save" PROVE FALSE
      OBVIOUS
    <3>2. TrueAnswer(r, shell, body, server) /\ HeardBy(r, shell)
      BY <1>6, PanelIs DEF Ready
    <3>3. r.by = "section"
      BY <3>1, <3>2 DEF TrueAnswer
    <3>4. QED
      BY <3>2, <3>3 DEF HeardBy
  <2>5. QED
    BY <2>2, <2>3, <2>4 DEF LoginIsTrue
<1>7. QED
  BY <1>1, <1>2, <1>3, <1>5, <1>6, PanelIs, CommitKeeps

LEMMA ShellIs ==
  ASSUME PanelInv
  PROVE  /\ shell = [kind |-> shell.kind, rows |-> shell.rows, nav |-> shell.nav,
                     creating |-> shell.creating, selected |-> shell.selected]
         /\ shell.kind \in {"loading", "login", "tenants", "missing-permission", "error"}
         /\ shell.rows \in SUBSET [id : Entered, key : 0 .. MaxClicks]
         /\ shell.nav \in {"tenants", "operators", "audit", "account"}
         /\ shell.creating \in BOOLEAN /\ shell.selected \in Entered \cup {NoTenant}
<1>1. ShellOK(shell, Entered)
  BY PanelIs
<1>2. QED
  BY <1>1 DEF ShellOK

LEMMA ReloadingIs ==
  ASSUME PanelInv
  PROVE  /\ ShellOK(Reloading, Entered) /\ Reloading.kind = "loading"
         /\ ShellOK([Reloading EXCEPT !.selected = NoTenant], Entered)
         /\ [Reloading EXCEPT !.selected = NoTenant].kind = "loading"
<1> DEFINE s == [Reloading EXCEPT !.selected = NoTenant]
<1>1. ShellOK(shell, Entered)
  BY PanelIs
<1>2. ShellOK(Reloading, Entered) /\ Reloading.kind = "loading"
  BY <1>1 DEF ShellOK, Reloading
<1>3. ShellOK(s, Entered)
  BY <1>2 DEF ShellOK
<1>4. s.kind = "loading"
  BY <1>2 DEF ShellOK
<1>5. QED
  BY <1>2, <1>3, <1>4

LEMMA ShellPressesKeep ==
  ASSUME PanelInv, \/ PressRetry \/ OpenForm \/ BackFromDetail \/ BackFromForm
                   \/ \E n \in {"tenants", "operators", "audit", "account"} : PressNav(n)
                   \/ \E t \in PanelTenants : OpenTenant(t)
  PROVE  PanelInv'
<1>1. CASE PressRetry
  <2>1. ViewOf(shell) # "loading"
    BY <1>1 DEF PressRetry
  <2>2. Click /\ Rendered(Reloading, body, asks, {ListRequest})
    BY <1>1 DEF PressRetry
  <2>3. QED
    BY <2>1, <2>2, ReloadingIs, ReloadKeeps
<1>2. CASE BackFromDetail
  <2>1. ViewOf(shell) # "loading"
    BY <1>2 DEF BackFromDetail
  <2>2. Click /\ Rendered([Reloading EXCEPT !.selected = NoTenant], body, asks, {ListRequest})
    BY <1>2 DEF BackFromDetail
  <2>3. QED
    BY <2>1, <2>2, ReloadingIs, ReloadKeeps
<1>3. CASE OpenForm
  <2> DEFINE s == [shell EXCEPT !.creating = TRUE]
  <2>1. ShellOK(shell, Entered)
    BY PanelIs
  <2>2. ShellOK(s, Entered)
    BY <2>1 DEF ShellOK
  <2>3. ViewOf(shell) \in {"list", "no-list"} /\ Click /\ Rendered(s, body, asks, {})
    BY <1>3 DEF OpenForm
  <2>4. s.kind = shell.kind /\ s.rows = shell.rows /\ s.selected = shell.selected /\ s.creating
    BY <2>1 DEF ShellOK
  <2> HIDE DEF s
  <2>5. ViewOf(s) \notin {"list", "no-list"}
    BY <2>2, <2>4, ViewIs
  <2>6. ViewOf(s) # ViewOf(shell) /\ ViewOf(shell) \notin {"loading", "login", "detail"}
    BY <2>3, <2>5
  <2>7. QED
    BY <2>2, <2>3, <2>4, <2>6, MoveKeepsPanel
<1>4. CASE BackFromForm
  <2> DEFINE s == [shell EXCEPT !.creating = FALSE]
  <2>1. ShellOK(shell, Entered)
    BY PanelIs
  <2>2. ShellOK(s, Entered)
    BY <2>1 DEF ShellOK
  <2>3. ViewOf(shell) = "create" /\ Click /\ Rendered(s, body, asks, {})
    BY <1>4 DEF BackFromForm
  <2>4. s.kind = shell.kind /\ s.rows = shell.rows /\ s.selected = shell.selected /\ ~s.creating
    BY <2>1 DEF ShellOK
  <2> HIDE DEF s
  <2>5. ViewOf(s) # "create"
    BY <2>2, <2>4, ViewIs
  <2>6. ViewOf(s) # ViewOf(shell) /\ ViewOf(shell) \notin {"loading", "login", "detail"}
    BY <2>3, <2>5
  <2>7. QED
    BY <2>2, <2>3, <2>4, <2>6, MoveKeepsPanel
<1>5. ASSUME NEW n \in {"tenants", "operators", "audit", "account"}, PressNav(n) PROVE PanelInv'
  <2> DEFINE s == [shell EXCEPT !.nav = n]
  <2>1. s = [kind |-> shell.kind, rows |-> shell.rows, nav |-> n, creating |-> shell.creating,
             selected |-> shell.selected]
    BY ShellIs
  <2>2. ShellOK(s, Entered)
    BY <2>1, ShellIs DEF ShellOK
  <2>3. ViewOf(shell) \in {"list", "no-list", "operators", "audit", "account"} /\ n # shell.nav
        /\ Click /\ Rendered(s, body, asks, {})
    BY <1>5 DEF PressNav, HasNav
  <2>4. s.kind = shell.kind /\ s.rows = shell.rows /\ s.selected = shell.selected /\ s.nav = n
    BY <2>1
  <2> HIDE DEF s
  <2>5. ViewOf(s) # ViewOf(shell)
    <3>1. ShellOK(shell, Entered)
      BY PanelIs
    <3>2. CASE n = "tenants"
      <4>1. ViewOf(s) \notin {"operators", "audit", "account"}
        BY <2>2, <2>4, <3>2, ViewIs
      <4>2. shell.nav # "tenants"
        BY <2>3, <3>2
      <4>3. ViewOf(shell) \notin {"list", "no-list"}
        BY <3>1, <4>2, ViewIs
      <4>4. QED
        BY <2>3, <4>1, <4>3
    <3>3. CASE n # "tenants"
      <4>1. ViewOf(s) = n \/ ViewOf(s) \notin {"operators", "audit", "account"}
        BY <2>2, <2>4, ViewIs
      <4>2. ViewOf(s) \notin {"list", "no-list"}
        BY <2>2, <2>4, <3>3, ViewIs
      <4>3. ViewOf(shell) \in {"operators", "audit", "account"} => ViewOf(shell) = shell.nav
        BY <3>1, ViewIs
      <4>4. QED
        BY <2>3, <4>1, <4>2, <4>3
    <3>4. QED
      BY <3>2, <3>3
  <2>6. ViewOf(shell) \notin {"loading", "login", "detail"}
    BY <2>3
  <2>7. QED
    BY <2>2, <2>3, <2>4, <2>5, <2>6, MoveKeepsPanel
<1>6. ASSUME NEW t \in PanelTenants, OpenTenant(t) PROVE PanelInv'
  <2> DEFINE s == [shell EXCEPT !.selected = t]
  <2>1. s = [kind |-> shell.kind, rows |-> shell.rows, nav |-> shell.nav, creating |-> shell.creating,
             selected |-> t]
    BY ShellIs
  <2>2. ViewOf(shell) = "list" /\ Click /\ Rendered(s, body, asks, {})
    BY <1>6 DEF OpenTenant
  <2>3. t \in Entered
    <3>1. PICK row \in shell.rows : row.id = t
      BY <1>6 DEF OpenTenant
    <3>2. row \in [id : Entered, key : 0 .. MaxClicks]
      BY <3>1, ShellIs
    <3>3. QED
      BY <3>1, <3>2
  <2>4. ShellOK(s, Entered)
    BY <2>1, <2>3, ShellIs DEF ShellOK
  <2>5. s.kind = shell.kind /\ s.rows = shell.rows /\ s.selected = t
    BY <2>1
  <2>6. t # NoTenant
    BY <1>6, PanelAssumption
  <2> HIDE DEF s
  <2>7. ViewOf(s) # "list"
    BY <2>4, <2>5, <2>6, ViewIs
  <2>8. ViewOf(s) # ViewOf(shell) /\ ViewOf(shell) \notin {"loading", "login", "detail"}
    BY <2>2, <2>7
  <2>9. s.selected = NoTenant => shell.selected = NoTenant
    BY <2>5, <2>6
  <2>10. QED
    BY <2>2, <2>4, <2>5, <2>8, <2>9, MoveKeepsPanel
<1>7. QED
  BY <1>1, <1>2, <1>3, <1>4, <1>5, <1>6

LEMMA DetailIs ==
  ASSUME PanelInv, OnDetail
  PROVE  /\ ViewOf(shell) = "detail" /\ body.at = "loaded" /\ LoadedOK(body, Entered)
         /\ shell.selected \in Entered
<1>1. ViewOf(shell) = "detail" /\ body.at = "loaded"
  BY DEF OnDetail
<1>2. BodyOK("detail", body, Entered)
  BY <1>1, PanelIs
<1>3. LoadedOK(body, Entered)
  BY <1>1, <1>2 DEF BodyOK
<1>4. shell.selected # NoTenant
  BY <1>1, PanelIs, ViewIs
<1>5. QED
  BY <1>1, <1>3, <1>4, ShellIs

\* A section is asked to save.
LEMMA SectionKeeps ==
  ASSUME PanelInv, OnDetail, NEW f \in Fields \cup {"key"}, NEW b, LoadedOK(b, Entered),
         b.id = body.id, b.row = body.row,
         \A g \in Fields : b.saves[g] = "saving" => g = f \/ body.saves[g] = "saving",
         b.rotate = "rotating" => f = "key" \/ body.rotate = "rotating",
         AskingWith(b, "save", "section", [id |-> shell.selected, field |-> f, value |-> clicks])
  PROVE  PanelInv'
<1> DEFINE arg == [id |-> shell.selected, field |-> f, value |-> clicks]
           q == Request("save", "section", arg)
<1>1. arg.id = shell.selected /\ arg.field = f /\ arg.value = clicks
  OBVIOUS
<1> HIDE DEF arg
<1>2. q = [what |-> "save", by |-> "section", arg |-> arg, answer |-> Waiting]
  BY DEF Request
<1>3. q.what = "save" /\ q.by = "section" /\ q.arg = arg /\ q.answer = Waiting /\ ~Ok(q)
  BY <1>2 DEF Waiting, Ok
<1>4. ViewOf(shell) = "detail" /\ shell.selected \in Entered /\ b.at = "loaded"
  BY DetailIs DEF LoadedOK
<1>5. RequestOK(q, Entered)
  BY <1>1, <1>2, <1>3, <1>4, PanelIs DEF RequestOK, AskedFor, Writes
<1>6. HeardBy(q, shell)
  BY <1>3, <1>4 DEF HeardBy
<1> HIDE DEF q
<1>7. BodyOK(ViewOf(shell), b, Entered)
  BY <1>4 DEF BodyOK
<1>8. BodyWaits(ViewOf(shell), b, Flight(asks) \cup {q})
  <2>1. BodyWaits("detail", body, Flight(asks)) /\ body.at = "loaded"
    BY <1>4, PanelIs, DetailIs
  <2>2. \A g : Saving(Flight(asks), g) \/ g = f => Saving(Flight(asks) \cup {q}, g)
    BY <1>1, <1>3 DEF Saving
  <2>3. \A g \in Fields : b.saves[g] = "saving" => Saving(Flight(asks) \cup {q}, g)
    BY <2>1, <2>2 DEF BodyWaits
  <2>4. b.rotate = "rotating" => Saving(Flight(asks) \cup {q}, "key")
    BY <2>1, <2>2 DEF BodyWaits
  <2>5. QED
    BY <1>4, <2>3, <2>4 DEF BodyWaits
<1>9. ASSUME orderly /\ Flight(asks) = {} PROVE ScreenIsTrue(shell, b, {}, server)
  <2>1. ScreenIsTrue(shell, body, {}, server)
    BY <1>9, PanelIs DEF TrueSoFar
  <2>2. QED
    BY <1>4, <2>1, DetailIs DEF ScreenIsTrue
<1>10. QED
  BY <1>1, <1>4, <1>5, <1>6, <1>7, <1>8, <1>9, PressAsksKeep DEF q, arg

\* A section shows something else.
LEMMA SectionStays ==
  ASSUME PanelInv, OnDetail, Click, NEW b, LoadedOK(b, Entered), b.id = body.id, b.row = body.row,
         \A g \in Fields : b.saves[g] = "saving" => body.saves[g] = "saving",
         b.rotate = "rotating" => body.rotate = "rotating",
         Rendered(shell, b, asks, {})
  PROVE  PanelInv'
<1>1. ViewOf(shell) = "detail" /\ b.at = "loaded" /\ body.at = "loaded"
  BY DetailIs DEF LoadedOK
<1>2. BodyOK(ViewOf(shell), b, Entered)
  BY <1>1 DEF BodyOK
<1>3. BodyWaits(ViewOf(shell), b, Flight(asks))
  <2>1. BodyWaits("detail", body, Flight(asks))
    BY <1>1, PanelIs
  <2>2. QED
    BY <1>1, <2>1 DEF BodyWaits
<1>4. ASSUME orderly PROVE ScreenIsTrue(shell, b, Flight(asks), server)
  <2>1. ScreenIsTrue(shell, body, Flight(asks), server)
    BY <1>4, PanelIs DEF TrueSoFar
  <2>2. QED
    BY <1>1, <2>1 DEF ScreenIsTrue
<1>5. QED
  BY <1>1, <1>2, <1>3, <1>4, StayKeeps

LEMMA LoadedIs ==
  ASSUME NEW b, NEW ids, LoadedOK(b, ids), NEW sv \in [Fields -> States], NEW ro, NEW wa, NEW c,
         c = [at |-> "loaded", id |-> b.id, row |-> b.row, saves |-> sv, rotate |-> ro, warned |-> wa]
  PROVE  LoadedOK(c, ids) /\ c.id = b.id /\ c.row = b.row /\ c.saves = sv /\ c.rotate = ro
  BY DEF LoadedOK

LEMMA SavesOf ==
  ASSUME NEW b, NEW ids, LoadedOK(b, ids), NEW f \in Fields, NEW x \in States
  PROVE  /\ [b.saves EXCEPT ![f] = x] \in [Fields -> States]
         /\ \A g \in Fields : [b.saves EXCEPT ![f] = x][g] = IF g = f THEN x ELSE b.saves[g]
  BY DEF LoadedOK

LEMMA PressSaveKeeps == ASSUME PanelInv, NEW f \in Fields, PressSave(f) PROVE PanelInv'
<1> DEFINE b == [body EXCEPT !.saves[f] = "saving", !.warned = @ /\ f # "theme"]
           sv == [body.saves EXCEPT ![f] = "saving"]
<1>1. OnDetail /\ AskingWith(b, "save", "section", [id |-> shell.selected, field |-> f, value |-> clicks])
  BY DEF PressSave
<1>2. LoadedOK(body, Entered)
  BY <1>1, DetailIs
<1>3. PICK wa : wa = (body.warned /\ f # "theme")
  OBVIOUS
<1>4. b = [body EXCEPT !.saves = sv, !.warned = wa]
  BY <1>3
<1>5. body = [at |-> "loaded", id |-> body.id, row |-> body.row, saves |-> body.saves,
              rotate |-> body.rotate, warned |-> body.warned]
  BY <1>2 DEF LoadedOK
<1> HIDE DEF b, sv
<1>6. b = [at |-> "loaded", id |-> body.id, row |-> body.row, saves |-> sv, rotate |-> body.rotate,
           warned |-> wa]
  <2> DEFINE c == [body EXCEPT !.saves = sv]
  <2>1. c = [at |-> "loaded", id |-> body.id, row |-> body.row, saves |-> sv, rotate |-> body.rotate,
             warned |-> body.warned]
    BY <1>5
  <2>2. b = [c EXCEPT !.warned = wa]
    BY <1>4
  <2> HIDE DEF c
  <2>3. QED
    BY <2>1, <2>2
<1>7. sv \in [Fields -> States] /\ \A g \in Fields : sv[g] = IF g = f THEN "saving" ELSE body.saves[g]
  <2>1. "saving" \in States
    BY DEF States
  <2>2. QED
    BY <1>2, <2>1, SavesOf DEF sv
<1>8. LoadedOK(b, Entered) /\ b.id = body.id /\ b.row = body.row /\ b.saves = sv /\ b.rotate = body.rotate
  BY <1>2, <1>6, <1>7, LoadedIs
<1>9. QED
  BY <1>1, <1>7, <1>8, SectionKeeps

LEMMA PressRotateKeeps ==
  ASSUME PanelInv, NEW a \in {"confirming", "idle", "rotating"}, PressRotate(a) PROVE PanelInv'
<1> DEFINE b == [body EXCEPT !.rotate = a]
           R == IF a # "rotating" THEN {}
                ELSE {Request("save", "section", [id |-> shell.selected, field |-> "key", value |-> clicks])}
<1>1. OnDetail /\ Click /\ Rendered(shell, b, asks, R)
  BY DEF PressRotate
<1>2. LoadedOK(body, Entered)
  BY <1>1, DetailIs
<1>3. body = [at |-> "loaded", id |-> body.id, row |-> body.row, saves |-> body.saves,
              rotate |-> body.rotate, warned |-> body.warned] /\ body.saves \in [Fields -> States]
  BY <1>2 DEF LoadedOK
<1>4. b = [at |-> "loaded", id |-> body.id, row |-> body.row, saves |-> body.saves, rotate |-> a,
           warned |-> body.warned]
  BY <1>3
<1> HIDE DEF b
<1>5. LoadedOK(b, Entered) /\ b.id = body.id /\ b.row = body.row /\ b.saves = body.saves /\ b.rotate = a
  BY <1>2, <1>3, <1>4, LoadedIs
<1>6. CASE a # "rotating"
  <2>1. Rendered(shell, b, asks, {})
    BY <1>1, <1>6
  <2>2. QED
    BY <1>1, <1>5, <1>6, <2>1, SectionStays
<1>7. CASE a = "rotating"
  <2>1. AskingWith(b, "save", "section", [id |-> shell.selected, field |-> "key", value |-> clicks])
    BY <1>1, <1>7 DEF AskingWith
  <2>2. "key" \in Fields \cup {"key"}
    OBVIOUS
  <2>3. QED
    BY <1>1, <1>5, <1>7, <2>1, <2>2, SectionKeeps
<1>8. QED
  BY <1>6, <1>7

-----------------------------------------------------------------------------

LEMMA StaffScreenIs ==
  ASSUME PanelInv, ViewOf(shell) = "operators"
  PROVE  /\ body = [at |-> body.at, rows |-> body.rows, rowError |-> body.rowError, form |-> body.form]
         /\ body.at \in {"loading", "loaded", "denied", "failed"}
<1>1. BodyOK("operators", body, Entered)
  BY PanelIs
<1>2. QED
  BY <1>1 DEF BodyOK

LEMMA StaffAskKeeps ==
  ASSUME PanelInv, ViewOf(shell) = "operators", NEW at \in {"loading", "loaded", "denied", "failed"},
         NEW e, NEW form, NEW b, b = [at |-> at, rows |-> body.rows, rowError |-> e, form |-> form],
         NEW what \in {"operators", "hire", "toggle"}, NEW arg,
         at = body.at \/ (at = "loading" /\ what = "operators"),
         form = "busy" => body.form = "busy" \/ what = "hire",
         AskingWith(b, what, "screen", arg)
  PROVE  PanelInv'
<1> DEFINE q == Request(what, "screen", arg)
<1>1. q = [what |-> what, by |-> "screen", arg |-> arg, answer |-> Waiting]
  BY DEF Request
<1>2. q.what = what /\ q.by = "screen" /\ q.arg = arg /\ q.answer = Waiting /\ ~Ok(q)
  BY <1>1 DEF Waiting, Ok
<1>3. RequestOK(q, Entered)
  BY <1>1, <1>2 DEF RequestOK, AskedFor, Writes
<1>4. HeardBy(q, shell)
  BY <1>2 DEF HeardBy, ScreenOf
<1> HIDE DEF q
<1>5. b.at = at /\ b.form = form /\ b.rows = body.rows /\ b.rowError = e
  OBVIOUS
<1>6. BodyOK(ViewOf(shell), b, Entered)
  BY <1>5 DEF BodyOK
<1>7. BodyWaits(ViewOf(shell), b, Flight(asks) \cup {q})
  <2>1. BodyWaits("operators", body, Flight(asks))
    BY PanelIs
  <2>2. \A x : AskedIn(Flight(asks), x, "screen") \/ x = what => AskedIn(Flight(asks) \cup {q}, x, "screen")
    BY <1>2 DEF AskedIn
  <2>3. b.at = "loading" => AskedIn(Flight(asks) \cup {q}, "operators", "screen")
    BY <1>5, <2>1, <2>2 DEF BodyWaits
  <2>4. b.form = "busy" => AskedIn(Flight(asks) \cup {q}, "hire", "screen")
    BY <1>5, <2>1, <2>2 DEF BodyWaits
  <2>5. b.at # "busy"
    BY <1>5
  <2>6. QED
    BY <2>3, <2>4, <2>5 DEF BodyWaits
<1>8. ASSUME orderly /\ Flight(asks) = {} PROVE ScreenIsTrue(shell, b, {}, server)
  <2>1. ScreenIsTrue(shell, body, {}, server)
    BY <1>8, PanelIs DEF TrueSoFar
  <2>2. QED
    BY <1>5, <2>1 DEF ScreenIsTrue
<1>9. QED
  BY <1>3, <1>4, <1>6, <1>7, <1>8, PressAsksKeep DEF q

LEMMA StaffPressesKeep ==
  ASSUME PanelInv, \/ PressReloadStaff \/ \E o \in Staff : PressHire(o)
                   \/ \E o \in Staff, c \in {"enabled", "manages"} : PressToggle(o, c)
  PROVE  PanelInv'
<1>1. ViewOf(shell) = "operators"
  BY DEF PressReloadStaff, PressHire, PressToggle, OnOperators
<1>2. body = [at |-> body.at, rows |-> body.rows, rowError |-> body.rowError, form |-> body.form]
      /\ body.at \in {"loading", "loaded", "denied", "failed"}
  BY <1>1, StaffScreenIs
<1>3. CASE PressReloadStaff
  <2> DEFINE b == [body EXCEPT !.at = "loading"]
  <2>1. AskingWith(b, "operators", "screen", 0)
    BY <1>3 DEF PressReloadStaff
  <2>2. b = [at |-> "loading", rows |-> body.rows, rowError |-> body.rowError, form |-> body.form]
    BY <1>2
  <2> HIDE DEF b
  <2>3. QED
    BY <1>1, <2>1, <2>2, StaffAskKeeps
<1>4. ASSUME NEW o \in Staff, PressHire(o) PROVE PanelInv'
  <2> DEFINE b == [body EXCEPT !.form = "busy"]
  <2>1. AskingWith(b, "hire", "screen", o)
    BY <1>4 DEF PressHire
  <2>2. b = [at |-> body.at, rows |-> body.rows, rowError |-> body.rowError, form |-> "busy"]
    BY <1>2
  <2> HIDE DEF b
  <2>3. QED
    BY <1>1, <1>2, <2>1, <2>2, StaffAskKeeps
<1>5. ASSUME NEW o \in Staff, NEW c \in {"enabled", "manages"}, PressToggle(o, c) PROVE PanelInv'
  <2> DEFINE b == [body EXCEPT !.rowError = FALSE]
  <2>1. PICK arg : AskingWith(b, "toggle", "screen", arg)
    BY <1>5 DEF PressToggle
  <2>2. PICK e : e = FALSE
    OBVIOUS
  <2>3. b = [body EXCEPT !.rowError = e]
    BY <2>2
  <2> HIDE DEF b
  <2>4. b = [at |-> body.at, rows |-> body.rows, rowError |-> e, form |-> body.form]
    BY <1>2, <2>3
  <2>5. QED
    BY <1>1, <1>2, <2>1, <2>4, StaffAskKeeps
<1>6. QED
  BY <1>3, <1>4, <1>5

LEMMA PressFilterKeeps == ASSUME PanelInv, NEW x \in BOOLEAN, PressFilter(x) PROVE PanelInv'
<1> DEFINE b == [at |-> "loading", filter |-> x]
           q == Request("audit", "screen", x)
<1>1. ViewOf(shell) = "audit" /\ AskingWith(b, "audit", "screen", x)
  BY DEF PressFilter
<1>2. q = [what |-> "audit", by |-> "screen", arg |-> x, answer |-> Waiting]
  BY DEF Request
<1>3. q.what = "audit" /\ q.by = "screen" /\ q.arg = x /\ q.answer = Waiting /\ ~Ok(q)
  BY <1>2 DEF Waiting, Ok
<1>4. RequestOK(q, Entered)
  BY <1>2, <1>3 DEF RequestOK, AskedFor
<1>5. HeardBy(q, shell)
  BY <1>1, <1>3 DEF HeardBy, ScreenOf
<1>6. b.at = "loading" /\ b.filter = x /\ b = [at |-> b.at, filter |-> b.filter]
  OBVIOUS
<1> HIDE DEF q, b
<1>7. BodyOK(ViewOf(shell), b, Entered)
  BY <1>1, <1>6 DEF BodyOK
<1>8. BodyWaits(ViewOf(shell), b, Flight(asks) \cup {q})
  BY <1>1, <1>3, <1>6 DEF BodyWaits, AskedIn
<1>9. ScreenIsTrue(shell, b, {}, server)
  BY <1>1, <1>6 DEF ScreenIsTrue
<1>10. "audit" \notin Writes
  BY DEF Writes
<1>11. QED
  BY <1>1, <1>4, <1>5, <1>6, <1>7, <1>8, <1>9, <1>10, PressAsksKeep DEF q

LEMMA PressIncompleteKeeps == PanelInv /\ PressIncomplete => PanelInv'
<1> SUFFICES ASSUME PanelInv, PressIncomplete PROVE PanelInv'
  OBVIOUS
<1>0. Click
  BY DEF PressIncomplete
<1>1. ASSUME ViewOf(shell) \in {"login", "create", "account"}, Rendered(shell, [body EXCEPT !.at = "error"], asks, {})
      PROVE  PanelInv'
  <2> DEFINE b == [body EXCEPT !.at = "error"]
  <2>1. body \in [at : {"idle", "busy", "error", "done"}]
    BY <1>1, PanelIs DEF BodyOK
  <2>2. b \in [at : {"idle", "busy", "error", "done"}] /\ b.at = "error"
    BY <2>1
  <2>3. Rendered(shell, b, asks, {})
    BY <1>1
  <2> HIDE DEF b
  <2>4. BodyOK(ViewOf(shell), b, Entered)
    BY <1>1, <2>2 DEF BodyOK
  <2>5. BodyWaits(ViewOf(shell), b, Flight(asks))
    BY <1>1, <2>2 DEF BodyWaits
  <2>6. ScreenIsTrue(shell, b, Flight(asks), server)
    BY <1>1 DEF ScreenIsTrue
  <2>7. QED
    BY <1>0, <1>1, <2>3, <2>4, <2>5, <2>6, StayKeeps
<1>2. ASSUME ViewOf(shell) = "operators", Rendered(shell, [body EXCEPT !.form = "error"], asks, {})
      PROVE  PanelInv'
  <2> DEFINE b == [body EXCEPT !.form = "error"]
  <2>1. body = [at |-> body.at, rows |-> body.rows, rowError |-> body.rowError, form |-> body.form]
        /\ body.at \in {"loading", "loaded", "denied", "failed"}
    BY <1>2, StaffScreenIs
  <2>2. b = [at |-> body.at, rows |-> body.rows, rowError |-> body.rowError, form |-> "error"]
    BY <2>1
  <2>3. Rendered(shell, b, asks, {})
    BY <1>2
  <2> HIDE DEF b
  <2>4. b.at = body.at /\ b.form = "error" /\ b.rows = body.rows /\ b.rowError = body.rowError
    BY <2>2
  <2>5. BodyOK(ViewOf(shell), b, Entered)
    BY <1>2, <2>1, <2>2, <2>4 DEF BodyOK
  <2>6. BodyWaits(ViewOf(shell), b, Flight(asks))
    <3>1. BodyWaits("operators", body, Flight(asks))
      BY <1>2, PanelIs
    <3>2. QED
      BY <1>2, <2>4, <3>1 DEF BodyWaits
  <2>7. orderly => ScreenIsTrue(shell, b, Flight(asks), server)
    <3>1. orderly => ScreenIsTrue(shell, body, Flight(asks), server)
      BY PanelIs DEF TrueSoFar
    <3>2. QED
      BY <1>2, <2>4, <3>1 DEF ScreenIsTrue
  <2>8. QED
    BY <1>0, <1>2, <2>3, <2>5, <2>6, <2>7, StayKeeps
<1>3. ASSUME OnDetail, "window" \in Fields, Rendered(shell, [body EXCEPT !.saves["window"] = "error"], asks, {})
      PROVE  PanelInv'
  <2> DEFINE b == [body EXCEPT !.saves["window"] = "error"]
             sv == [body.saves EXCEPT !["window"] = "error"]
  <2>1. LoadedOK(body, Entered)
    BY <1>3, DetailIs
  <2>2. body = [at |-> "loaded", id |-> body.id, row |-> body.row, saves |-> body.saves,
                rotate |-> body.rotate, warned |-> body.warned]
    BY <2>1 DEF LoadedOK
  <2>3. b = [at |-> "loaded", id |-> body.id, row |-> body.row, saves |-> sv, rotate |-> body.rotate,
             warned |-> body.warned]
    BY <2>2
  <2>4. sv \in [Fields -> States]
        /\ \A g \in Fields : sv[g] = IF g = "window" THEN "error" ELSE body.saves[g]
    <3>1. "error" \in States
      BY DEF States
    <3>2. QED
      BY <1>3, <2>1, <3>1, SavesOf
  <2>5. Rendered(shell, b, asks, {})
    BY <1>3
  <2> HIDE DEF sv, b
  <2>6. LoadedOK(b, Entered) /\ b.id = body.id /\ b.row = body.row /\ b.saves = sv /\ b.rotate = body.rotate
    BY <2>1, <2>3, <2>4, LoadedIs
  <2>7. \A g \in Fields : b.saves[g] = "saving" => body.saves[g] = "saving"
    BY <2>4, <2>6
  <2>8. b.rotate = "rotating" => body.rotate = "rotating"
    BY <2>6
  <2>9. QED
    BY <1>0, <1>3, <2>5, <2>6, <2>7, <2>8, SectionStays
<1>4. QED
  BY <1>1, <1>2, <1>3 DEF PressIncomplete, OnOperators

\* Whatever the operator presses, at whatever moment.
LEMMA PressedKeeps == PanelInv /\ Pressed => PanelInv'
<1> SUFFICES ASSUME PanelInv, Pressed PROVE PanelInv'
  OBVIOUS
<1>1. CASE PressLogin
  <2>1. ViewOf(shell) = ScreenOf("login") /\ Asking("login", 0)
    BY <1>1 DEF PressLogin, ScreenOf
  <2>2. QED
    BY <2>1, AskingKeeps
<1>2. ASSUME NEW t \in PanelTenants, PressCreate(t) PROVE PanelInv'
  <2>1. ViewOf(shell) = ScreenOf("create") /\ Asking("create", t)
    BY <1>2 DEF PressCreate, ScreenOf
  <2>2. QED
    BY <1>2, <2>1, AskingKeeps
<1>3. CASE PressPassword
  <2>1. ViewOf(shell) = ScreenOf("password") /\ Asking("password", 0)
    BY <1>3 DEF PressPassword, ScreenOf
  <2>2. QED
    BY <2>1, AskingKeeps
<1>4. QED
  BY <1>1, <1>2, <1>3, PressLogoutKeeps, ShellPressesKeep, PressSaveKeeps, PressRotateKeeps,
     StaffPressesKeep, PressFilterKeeps, PressIncompleteKeeps DEF Pressed

-----------------------------------------------------------------------------
(* Answers. *)

LEMMA AnswerIs ==
  ASSUME PanelInv, NEW w \in Wires, Flying(w), NEW r, r = asks[w]
  PROVE  /\ r \in Flight(asks) /\ RequestOK(r, Entered) /\ HeardBy(r, shell)
         /\ r = [what |-> r.what, by |-> r.by, arg |-> r.arg, answer |-> r.answer]
         /\ r.by \in {"shell", "screen", "section", "nobody"}
         /\ r.by = "section" => r.what = "save"
         /\ r.by = "shell" <=> r.what \in {"list", "logout"}
         /\ r.answer # Waiting => r.answer.status \in Statuses
         /\ Ready(Without(w)) /\ Flight(Without(w)) \subseteq Flight(asks)
         /\ orderly => /\ TrueSoFar(shell, body, {r}, server) /\ TrueAnswer(r, shell, body, server)
                       /\ Flight(Without(w)) = {} /\ Alone(Without(w))
<1>1. r \in Flight(asks)
  BY DEF Flying, Flight
<1>2. RequestOK(r, Entered) /\ HeardBy(r, shell) /\ IsAsks(asks)
  BY <1>1, PanelIs DEF Ready
<1>3. /\ IsAsks(Without(w)) /\ Flight(Without(w)) \subseteq Flight(asks)
      /\ (Alone(asks) => Flight(Without(w)) = {} /\ Alone(Without(w)))
      /\ \A q \in Flight(asks) : q = r \/ q \in Flight(Without(w))
  BY <1>2, WithoutIs
<1>4. Ready(Without(w))
  BY <1>3, PanelIs DEF Ready
<1>5. ASSUME orderly
      PROVE  /\ TrueSoFar(shell, body, {r}, server) /\ TrueAnswer(r, shell, body, server)
             /\ Flight(Without(w)) = {} /\ Alone(Without(w))
  <2>1. Flight(Without(w)) = {} /\ Alone(Without(w))
    BY <1>3, <1>5, PanelIs
  <2>2. Flight(asks) = {r}
    BY <1>1, <1>3, <2>1
  <2>3. QED
    BY <1>1, <1>5, <2>1, <2>2, PanelIs
<1>6. r = [what |-> r.what, by |-> r.by, arg |-> r.arg, answer |-> r.answer]
      /\ r.by \in {"shell", "screen", "section", "nobody"}
  BY <1>2 DEF RequestOK
<1>7. r.answer # Waiting => r.answer.status \in Statuses
  BY <1>2 DEF RequestOK
<1>8. (r.by = "section" => r.what = "save") /\ (r.by = "shell" <=> r.what \in {"list", "logout"})
  BY <1>2 DEF HeardBy
<1>9. QED
  BY <1>1, <1>2, <1>3, <1>4, <1>5, <1>6, <1>7, <1>8

\* What is still asked for when one answer has been taken.
LEMMA StillAsked ==
  ASSUME PanelInv, NEW w \in Wires, Flying(w), NEW r, r = asks[w]
  PROVE  LET F == Flight(Without(w)) IN
         /\ \A what, by : AskedIn(Flight(asks), what, by) /\ (r.what # what \/ r.by # by) => AskedIn(F, what, by)
         /\ \A f : Saving(Flight(asks), f) /\ ~(r.by = "section" /\ r.arg.field = f) => Saving(F, f)
         /\ r.what # "list" => ShellWaits(shell, F)
         /\ \A view, b : BodyWaits(view, b, Flight(asks)) /\ r.by \in {"shell", "nobody"} => BodyWaits(view, b, F)
<1> DEFINE F == Flight(Without(w))
<1>1. F \subseteq Flight(asks) /\ \A q \in Flight(asks) : q = r \/ q \in F
  BY PanelIs, WithoutIs
<1> HIDE DEF F
<1>2. \A what, by : AskedIn(Flight(asks), what, by) /\ (r.what # what \/ r.by # by) => AskedIn(F, what, by)
  BY <1>1 DEF AskedIn
<1>3. \A f : Saving(Flight(asks), f) /\ ~(r.by = "section" /\ r.arg.field = f) => Saving(F, f)
  BY <1>1 DEF Saving
<1>4. r.what # "list" => ShellWaits(shell, F)
  <2>1. ShellWaits(shell, Flight(asks))
    BY PanelIs
  <2>2. QED
    BY <1>2, <2>1 DEF ShellWaits
<1>5. ASSUME NEW view, NEW b, BodyWaits(view, b, Flight(asks)), r.by \in {"shell", "nobody"}
      PROVE  BodyWaits(view, b, F)
  <2>1. \A what : AskedIn(Flight(asks), what, "screen") => AskedIn(F, what, "screen")
    BY <1>2, <1>5
  <2>2. \A f : Saving(Flight(asks), f) => Saving(F, f)
    BY <1>3, <1>5
  <2>3. QED
    BY <1>1, <1>5, <2>1, <2>2 DEF BodyWaits
<1>6. QED
  BY <1>2, <1>3, <1>4, <1>5 DEF F

\* An answer after which nothing more is asked for.
LEMMA HeardKeeps ==
  ASSUME PanelInv, NEW w \in Wires, Flying(w), NEW s, NEW b, Heard(s, b, w, {}), ShellOK(s, Entered),
         Steady(s) => BodyOK(ViewOf(s), b, Entered),
         ShellWaits(s, Flight(Without(w))),
         Steady(s) => BodyWaits(ViewOf(s), b, Flight(Without(w))),
         orderly => LoginIsTrue(s, {}, server) /\ ListIsTrue(s, {}, server),
         orderly /\ Steady(s) => ScreenIsTrue(s, b, {}, server)
  PROVE  PanelInv'
<1> DEFINE A == Without(w)
<1>1. Rendered(s, b, A, {}) /\ server' = server /\ clicks' = clicks
  BY DEF Heard
<1>2. /\ Ready(A) /\ Flight(A) \subseteq Flight(asks)
      /\ orderly => Flight(A) = {} /\ Alone(A)
  BY AnswerIs
<1> HIDE DEF A
<1>3. clicks' \in 0 .. MaxClicks
  BY <1>1, PanelIs
<1>4. AsksRight({}, s)
  BY DEF AsksRight
<1>5. ShellWaits(s, Flight(A) \cup {}) /\ (Steady(s) => BodyWaits(ViewOf(s), b, Flight(A) \cup {}))
  <2>1. Flight(A) \cup {} = Flight(A)
    OBVIOUS
  <2>2. QED
    BY <2>1 DEF A
<1>6. ASSUME Steady(s) /\ StillOrderly(A, {}) PROVE TrueSoFar(s, b, Flight(A) \cup {}, server)
  <2>1. orderly /\ Flight(A) \cup {} = {}
    BY <1>2, <1>6 DEF StillOrderly
  <2>2. LoginIsTrue(s, {}, server) /\ ListIsTrue(s, {}, server) /\ ScreenIsTrue(s, b, {}, server)
    BY <1>6, <2>1
  <2>3. TrueSoFar(s, b, {}, server)
    BY <2>2 DEF TrueSoFar
  <2>4. QED
    BY <2>1, <2>3
<1>7. ASSUME orderly
      PROVE  /\ LoginIsTrue(s, Flight(A), server) /\ ListIsTrue(s, Flight(A), server)
             /\ \A r \in Flight(A) : r.what # "save" /\ TrueAnswer(r, shell, body, server)
             /\ Alone(A)
  BY <1>2, <1>7
<1>8. QED
  BY <1>1, <1>2, <1>3, <1>4, <1>5, <1>6, <1>7, CommitKeeps

\* The shell stays as it is.
LEMMA HereKeeps ==
  ASSUME PanelInv, NEW w \in Wires, Flying(w), NEW r, r = asks[w], r.what # "list", NEW b,
         Heard(shell, b, w, {}), BodyOK(ViewOf(shell), b, Entered),
         BodyWaits(ViewOf(shell), b, Flight(Without(w))),
         r.what \in {"login", "create"} => ~Ok(r),
         orderly => ScreenIsTrue(shell, b, {}, server)
  PROVE  PanelInv'
<1>1. ShellWaits(shell, Flight(Without(w)))
  BY StillAsked
<1>2. ASSUME orderly PROVE LoginIsTrue(shell, {}, server) /\ ListIsTrue(shell, {}, server)
  <2>1. LoginIsTrue(shell, {r}, server) /\ ListIsTrue(shell, {r}, server)
    BY <1>2, AnswerIs DEF TrueSoFar
  <2>2. ~Done200({r}, "login") /\ ~Done200({r}, "create")
    BY DEF Done200
  <2>3. QED
    BY <2>1, <2>2 DEF LoginIsTrue, ListIsTrue
<1>3. QED
  BY <1>1, <1>2, PanelIs, HeardKeeps

\* Nobody is there to hear it.
LEMMA NobodyKeeps ==
  ASSUME PanelInv, NEW w \in Wires, Flying(w), NEW r, r = asks[w], r.by = "nobody",
         r.what \in {"login", "create"} => ~Ok(r), Heard(shell, body, w, {})
  PROVE  PanelInv'
<1>1. r.what # "list"
  BY AnswerIs
<1>2. BodyWaits(ViewOf(shell), body, Flight(Without(w)))
  BY StillAsked, PanelIs
<1>3. ASSUME orderly PROVE ScreenIsTrue(shell, body, {}, server)
  <2>1. ScreenIsTrue(shell, body, {r}, server) /\ TrueAnswer(r, shell, body, server)
    BY <1>3, AnswerIs DEF TrueSoFar
  <2>2. ~Done200({r}, "save")
    BY <2>1 DEF Done200, TrueAnswer
  <2>3. ViewOf(shell) = "operators" => ~Done200({r}, "hire") /\ ~Done200({r}, "toggle")
    BY <2>1 DEF Done200, TrueAnswer
  <2>4. QED
    BY <2>1, <2>2, <2>3 DEF ScreenIsTrue
<1>4. QED
  BY <1>1, <1>2, <1>3, PanelIs, HereKeeps

LEMMA BusyKeeps ==
  ASSUME PanelInv, NEW w \in Wires, Flying(w), NEW r, r = asks[w], r.what \in {"login", "create", "password"},
         r.what \in {"login", "create"} => ~Ok(r), NEW how \in {"error", "done"},
         Heard(shell, Busy(r, how), w, {})
  PROVE  PanelInv'
<1>1. CASE r.by # "screen"
  <2>1. Heard(shell, body, w, {})
    BY <1>1 DEF Busy
  <2>2. r.by = "nobody"
    BY <1>1, AnswerIs
  <2>3. QED
    BY <2>1, <2>2, NobodyKeeps
<1>2. CASE r.by = "screen"
  <2> DEFINE b == [body EXCEPT !.at = how]
  <2>1. Heard(shell, b, w, {})
    BY <1>2 DEF Busy
  <2>2. ViewOf(shell) \in {"login", "create", "account"}
    <3>1. HeardBy(r, shell)
      BY AnswerIs
    <3>2. QED
      BY <1>2, <3>1 DEF HeardBy, ScreenOf
  <2>3. body \in [at : {"idle", "busy", "error", "done"}]
    BY <2>2, PanelIs DEF BodyOK
  <2>4. b \in [at : {"idle", "busy", "error", "done"}] /\ b.at = how
    BY <2>3
  <2> HIDE DEF b
  <2>5. BodyOK(ViewOf(shell), b, Entered)
    BY <2>2, <2>4 DEF BodyOK
  <2>6. BodyWaits(ViewOf(shell), b, Flight(Without(w)))
    BY <2>2, <2>4 DEF BodyWaits
  <2>7. ScreenIsTrue(shell, b, {}, server)
    BY <2>2 DEF ScreenIsTrue
  <2>8. r.what # "list"
    OBVIOUS
  <2>9. QED
    BY <2>1, <2>5, <2>6, <2>7, <2>8, HereKeeps
<1>3. QED
  BY <1>1, <1>2

LEMMA ListAnsweredKeeps == ASSUME PanelInv, NEW w \in Wires, ListAnswered(w) PROVE PanelInv'
<1>1. PICK r : r = asks[w]
  OBVIOUS
<1> DEFINE k == Probed(r.answer.status)
           rows == IF Ok(r) THEN r.answer.data ELSE {}
           s == [shell EXCEPT !.kind = k, !.rows = rows]
<1>2. Flying(w) /\ r.answer # Waiting /\ r.what = "list" /\ Heard(s, body, w, {})
  BY <1>1 DEF ListAnswered, Arrived
<1>3. k \in {"login", "tenants", "missing-permission", "error"}
      /\ (k = "tenants" => Ok(r)) /\ (k = "login" => r.answer.status \notin {"200", "403", "lost"})
  BY DEF Probed, Ok
<1>4. rows \in SUBSET [id : Entered, key : 0 .. MaxClicks]
  BY <1>1, <1>2, AnswerIs DEF RequestOK
<1> HIDE DEF k, rows
<1>5. ShellOK(s, Entered) /\ s.kind = k /\ s.rows = rows /\ s.selected = shell.selected
  <2>1. ShellOK(shell, Entered)
    BY PanelIs
  <2>2. s.kind = k /\ s.rows = rows /\ s.selected = shell.selected
    BY <2>1 DEF ShellOK
  <2>3. ShellOK(s, Entered)
    BY <1>3, <1>4, <2>1 DEF ShellOK
  <2>4. QED
    BY <2>2, <2>3
<1> HIDE DEF s
<1>6. r.by = "shell" /\ r.answer.status \in Statuses
  BY <1>1, <1>2, AnswerIs
<1>7. Steady(s) => BodyOK(ViewOf(s), body, Entered) /\ BodyWaits(ViewOf(s), body, Flight(Without(w)))
  BY <1>1, <1>2, <1>6, StillAsked, PanelIs DEF Steady
<1>8. ShellWaits(s, Flight(Without(w)))
  BY <1>3, <1>5 DEF ShellWaits
<1>9. ASSUME orderly
      PROVE  LoginIsTrue(s, {}, server) /\ ListIsTrue(s, {}, server)
             /\ (Steady(s) => ScreenIsTrue(s, body, {}, server))
  <2>1. TrueAnswer(r, shell, body, server) /\ TrueSoFar(shell, body, {r}, server)
    BY <1>1, <1>2, <1>9, AnswerIs
  <2>2. Ok(r) => r.answer.data = Listing(server.rows)
    BY <1>2, <2>1 DEF TrueAnswer
  <2>3. r.answer.status \notin {"none", "200", "403"} => ~server.live
    BY <1>2, <2>1 DEF TrueAnswer
  <2>4. LoginIsTrue(s, {}, server)
    <3>1. ASSUME ViewOf(s) = "login" PROVE ~server.live
      <4>1. k = "login"
        BY <1>5, <3>1, ViewIs
      <4>2. r.answer.status # "none"
        BY <1>6, NoAskIs
      <4>3. QED
        BY <1>3, <2>3, <4>1, <4>2
    <3>2. QED
      BY <3>1 DEF LoginIsTrue
  <2>5. ListIsTrue(s, {}, server)
    BY <1>3, <1>5, <2>2 DEF ListIsTrue, rows
  <2>6. ASSUME Steady(s) PROVE ScreenIsTrue(s, body, {}, server)
    <3>1. ScreenIsTrue(shell, body, {r}, server)
      BY <2>1 DEF TrueSoFar
    <3>2. ViewOf(s) = ViewOf(shell) /\ s.selected = shell.selected
      BY <1>5, <2>6 DEF Steady
    <3>3. QED
      BY <1>2, <3>1, <3>2 DEF ScreenIsTrue, Done200
  <2>7. QED
    BY <2>4, <2>5, <2>6
<1>10. QED
  BY <1>2, <1>5, <1>7, <1>8, <1>9, HeardKeeps

LEMMA LogoutAnsweredKeeps == ASSUME PanelInv, NEW w \in Wires, LogoutAnswered(w) PROVE PanelInv'
<1>1. PICK r : r = asks[w]
  OBVIOUS
<1> DEFINE s == [shell EXCEPT !.kind = "login", !.rows = {}]
<1>2. Flying(w) /\ r.answer # Waiting /\ r.what = "logout" /\ Heard(s, body, w, {})
  BY <1>1 DEF LogoutAnswered, Arrived
<1>5. ShellOK(s, Entered) /\ s.kind = "login" /\ s.selected = shell.selected
  <2>1. ShellOK(shell, Entered)
    BY PanelIs
  <2>2. s.kind = "login" /\ s.selected = shell.selected
    BY <2>1 DEF ShellOK
  <2>3. ShellOK(s, Entered)
    BY <2>1 DEF ShellOK
  <2>4. QED
    BY <2>2, <2>3
<1> HIDE DEF s
<1>6. r.by = "shell"
  BY <1>1, <1>2, AnswerIs
<1>7. Steady(s) => BodyOK(ViewOf(s), body, Entered) /\ BodyWaits(ViewOf(s), body, Flight(Without(w)))
  BY <1>1, <1>2, <1>6, StillAsked, PanelIs DEF Steady
<1>8. ShellWaits(s, Flight(Without(w)))
  BY <1>5 DEF ShellWaits
<1>9. ASSUME orderly
      PROVE  LoginIsTrue(s, {}, server) /\ ListIsTrue(s, {}, server) /\ ScreenIsTrue(s, body, {}, server)
  <2>1. ~server.live
    BY <1>1, <1>2, <1>9, AnswerIs DEF TrueAnswer
  <2>2. ViewOf(s) = "login"
    BY <1>5, ViewIs
  <2>3. QED
    BY <1>5, <2>1, <2>2 DEF LoginIsTrue, ListIsTrue, ScreenIsTrue
<1>10. QED
  BY <1>2, <1>5, <1>7, <1>8, <1>9, HeardKeeps

LEMMA LoginAnsweredKeeps == ASSUME PanelInv, NEW w \in Wires, LoginAnswered(w) PROVE PanelInv'
<1>1. PICK r : r = asks[w]
  OBVIOUS
<1>2. Flying(w) /\ r.what = "login"
  BY <1>1 DEF LoginAnswered, Arrived
<1>3. CASE ~Ok(r)
  <2>1. Heard(shell, Busy(r, "error"), w, {})
    BY <1>1, <1>3 DEF LoginAnswered
  <2>2. QED
    BY <1>1, <1>2, <1>3, <2>1, BusyKeeps
<1>4. CASE Ok(r)
  <2> DEFINE s == Reloading
             A == Without(w)
  <2>1. Rendered(s, body, A, {ListRequest}) /\ server' = server /\ clicks' = clicks
    BY <1>1, <1>4 DEF LoginAnswered, Heard
  <2>2. ShellOK(s, Entered) /\ s.kind = "loading"
    BY ReloadingIs
  <2>3. /\ Ready(A)
        /\ orderly => Flight(A) = {} /\ Alone(A)
    BY <1>2, AnswerIs
  <2> HIDE DEF s, A
  <2>4. ViewOf(s) = "loading"
    BY <2>2, ViewIs
  <2>5. AsksRight({ListRequest}, s)
    BY <2>4 DEF AsksRight
  <2>6. ShellWaits(s, Flight(A) \cup {ListRequest})
    BY ListRequestIs DEF ShellWaits, AskedIn
  <2>7. ASSUME Steady(s)
        PROVE  /\ BodyOK(ViewOf(s), body, Entered) /\ BodyWaits(ViewOf(s), body, Flight(A) \cup {ListRequest})
               /\ StillOrderly(A, {ListRequest}) => TrueSoFar(s, body, Flight(A) \cup {ListRequest}, server)
    <3>1. BodyOK(ViewOf(s), body, Entered)
      BY <2>7, PanelIs DEF Steady
    <3>2. body.at = "none"
      BY <2>4, <3>1 DEF BodyOK
    <3>3. BodyWaits(ViewOf(s), body, Flight(A) \cup {ListRequest})
      BY <2>4, <3>2 DEF BodyWaits
    <3>4. ASSUME StillOrderly(A, {ListRequest}) PROVE TrueSoFar(s, body, Flight(A) \cup {ListRequest}, server)
      <4>1. Flight(A) \cup {ListRequest} = {ListRequest}
        BY <3>4 DEF StillOrderly
      <4>2. TrueAnswer(ListRequest, s, body, server)
        <5>1. ListRequest.answer.status = "none" /\ ListRequest.what = "list" /\ ~Ok(ListRequest)
          BY ListRequestIs DEF Waiting, Ok
        <5>2. QED
          BY <2>4, <5>1 DEF TrueAnswer
      <4>3. LoginIsTrue(s, {ListRequest}, server) /\ ListIsTrue(s, {ListRequest}, server)
            /\ ScreenIsTrue(s, body, {ListRequest}, server)
        BY <2>2, <2>4 DEF LoginIsTrue, ListIsTrue, ScreenIsTrue
      <4>4. TrueSoFar(s, body, {ListRequest}, server)
        BY <4>2, <4>3 DEF TrueSoFar
      <4>5. QED
        BY <4>1, <4>4
    <3>5. QED
      BY <3>1, <3>3, <3>4
  <2>8. clicks' \in 0 .. MaxClicks
    BY <2>1, PanelIs
  <2>9. QED
    BY <2>1, <2>2, <2>3, <2>5, <2>6, <2>7, <2>8, CommitKeeps
<1>5. QED
  BY <1>3, <1>4

LEMMA CreateAnsweredKeeps == ASSUME PanelInv, NEW w \in Wires, CreateAnswered(w) PROVE PanelInv'
<1>1. PICK r : r = asks[w]
  OBVIOUS
<1>2. Flying(w) /\ r.what = "create"
  BY <1>1 DEF CreateAnswered, Arrived
<1>3. CASE ~Ok(r)
  <2>1. Heard(shell, Busy(r, "error"), w, {})
    BY <1>1, <1>3 DEF CreateAnswered
  <2>2. QED
    BY <1>1, <1>2, <1>3, <2>1, BusyKeeps
<1>4. CASE Ok(r)
  <2> DEFINE s == [shell EXCEPT !.creating = FALSE, !.selected = r.arg]
  <2>1. Heard(s, body, w, {})
    BY <1>1, <1>4 DEF CreateAnswered
  <2>2. r.arg \in Entered /\ r.arg \in PanelTenants
    BY <1>1, <1>2, <1>4, AnswerIs DEF RequestOK
  <2>3. ShellOK(s, Entered) /\ s.kind = shell.kind /\ s.selected = r.arg /\ ~s.creating
    <3>1. ShellOK(shell, Entered)
      BY PanelIs
    <3>2. s.kind = shell.kind /\ s.selected = r.arg /\ ~s.creating
      BY <3>1 DEF ShellOK
    <3>3. ShellOK(s, Entered)
      BY <2>2, <3>1 DEF ShellOK
    <3>4. QED
      BY <3>2, <3>3
  <2> HIDE DEF s
  <2>4. ViewOf(s) # "create" /\ (ViewOf(s) = "login" <=> ViewOf(shell) = "login")
    <3>1. ShellOK(shell, Entered)
      BY PanelIs
    <3>2. ViewOf(s) # "create"
      BY <2>3, ViewIs
    <3>3. ViewOf(s) = "login" <=> s.kind = "login"
      BY <2>3, ViewIs
    <3>4. ViewOf(shell) = "login" <=> shell.kind = "login"
      BY <3>1, ViewIs
    <3>5. QED
      BY <2>3, <3>2, <3>3, <3>4
  <2>5. Steady(s) => BodyOK(ViewOf(s), body, Entered)
    BY PanelIs DEF Steady
  <2>6. ShellWaits(s, Flight(Without(w)))
    <3>1. ShellWaits(shell, Flight(Without(w)))
      BY <1>1, <1>2, StillAsked
    <3>2. QED
      BY <2>3, <3>1 DEF ShellWaits
  <2>7. ASSUME Steady(s) PROVE BodyWaits(ViewOf(s), body, Flight(Without(w)))
    <3>1. r.by # "screen"
      <4>1. HeardBy(r, shell)
        BY <1>1, <1>2, AnswerIs
      <4>2. QED
        BY <1>2, <2>4, <2>7, <4>1 DEF HeardBy, ScreenOf, Steady
    <3>2. r.by \in {"shell", "nobody"}
      BY <1>1, <1>2, <3>1, AnswerIs
    <3>3. QED
      BY <1>1, <1>2, <2>7, <3>2, StillAsked, PanelIs DEF Steady
  <2>8. ASSUME orderly
        PROVE  LoginIsTrue(s, {}, server) /\ ListIsTrue(s, {}, server)
               /\ (Steady(s) => ScreenIsTrue(s, body, {}, server))
    <3>1. TrueSoFar(shell, body, {r}, server)
      BY <1>1, <1>2, <2>8, AnswerIs
    <3>2. LoginIsTrue(s, {}, server)
      BY <1>2, <2>4, <3>1 DEF TrueSoFar, LoginIsTrue, Done200
    <3>3. ListIsTrue(s, {}, server)
      BY <2>2, <2>3, PanelAssumption DEF ListIsTrue
    <3>4. ASSUME Steady(s) PROVE ScreenIsTrue(s, body, {}, server)
      <4>1. ScreenIsTrue(shell, body, {r}, server)
        BY <3>1 DEF TrueSoFar
      <4>2. ViewOf(s) = ViewOf(shell) /\ (ViewOf(s) = "detail" => s.selected = shell.selected)
        BY <3>4 DEF Steady
      <4>3. QED
        BY <1>2, <4>1, <4>2 DEF ScreenIsTrue, Done200
    <3>5. QED
      BY <3>2, <3>3, <3>4
  <2>9. QED
    BY <1>2, <2>1, <2>3, <2>5, <2>6, <2>7, <2>8, HeardKeeps
<1>5. QED
  BY <1>3, <1>4

LEMMA PasswordAnsweredKeeps == ASSUME PanelInv, NEW w \in Wires, PasswordAnswered(w) PROVE PanelInv'
<1>1. PICK r : r = asks[w]
  OBVIOUS
<1>2. Flying(w) /\ r.what = "password"
  BY <1>1 DEF PasswordAnswered, Arrived
<1>3. CASE Ok(r)
  <2>1. Heard(shell, Busy(r, "done"), w, {})
    BY <1>1, <1>3 DEF PasswordAnswered
  <2>2. QED
    BY <1>1, <1>2, <2>1, BusyKeeps
<1>4. CASE ~Ok(r)
  <2>1. Heard(shell, Busy(r, "error"), w, {})
    BY <1>1, <1>4 DEF PasswordAnswered
  <2>2. QED
    BY <1>1, <1>2, <2>1, BusyKeeps
<1>5. QED
  BY <1>3, <1>4

-----------------------------------------------------------------------------

LEMMA StaffHears ==
  ASSUME PanelInv, NEW w \in Wires, Flying(w), NEW r, r = asks[w], r.what \in {"operators", "hire", "toggle"},
         r.by # "nobody"
  PROVE  /\ r.by = "screen" /\ ViewOf(shell) = "operators"
         /\ body = [at |-> body.at, rows |-> body.rows, rowError |-> body.rowError, form |-> body.form]
         /\ body.at \in {"loading", "loaded", "denied", "failed"}
<1>1. r.by = "screen" /\ HeardBy(r, shell)
  BY AnswerIs
<1>2. ViewOf(shell) = "operators"
  BY <1>1 DEF HeardBy, ScreenOf
<1>3. QED
  BY <1>1, <1>2, StaffScreenIs

\* The directory after an answer.
LEMMA DirectoryKeeps ==
  ASSUME PanelInv, NEW w \in Wires, Flying(w), NEW r, r = asks[w], r.what \in {"operators", "hire", "toggle"},
         r.by = "screen", ViewOf(shell) = "operators",
         NEW at \in {"loading", "loaded", "denied", "failed"}, NEW rows, NEW e, NEW form, NEW b,
         b = [at |-> at, rows |-> rows, rowError |-> e, form |-> form],
         at = "loading" => body.at = "loading" /\ r.what # "operators",
         form = "busy" => body.form = "busy" /\ r.what # "hire",
         orderly /\ at = "loaded" => rows = Directory(server.staff),
         Heard(shell, b, w, {})
  PROVE  PanelInv'
<1>1. b.at = at /\ b.rows = rows /\ b.rowError = e /\ b.form = form
  OBVIOUS
<1>2. BodyOK(ViewOf(shell), b, Entered)
  BY <1>1 DEF BodyOK
<1>3. BodyWaits(ViewOf(shell), b, Flight(Without(w)))
  <2>1. BodyWaits("operators", body, Flight(asks))
    BY PanelIs
  <2>2. at = "loading" => AskedIn(Flight(Without(w)), "operators", "screen")
    BY <2>1, StillAsked DEF BodyWaits
  <2>3. form = "busy" => AskedIn(Flight(Without(w)), "hire", "screen")
    BY <2>1, StillAsked DEF BodyWaits
  <2>4. QED
    BY <1>1, <2>2, <2>3 DEF BodyWaits
<1>4. orderly => ScreenIsTrue(shell, b, {}, server)
  BY <1>1 DEF ScreenIsTrue
<1>5. r.what # "list" /\ r.what \notin {"login", "create"}
  OBVIOUS
<1>6. QED
  BY <1>2, <1>3, <1>4, <1>5, HereKeeps

LEMMA StaffAnsweredKeeps == ASSUME PanelInv, NEW w \in Wires, StaffAnswered(w) PROVE PanelInv'
<1>1. PICK r : r = asks[w]
  OBVIOUS
<1>2. Flying(w) /\ r.what = "operators"
  BY <1>1 DEF StaffAnswered, Arrived
<1>3. CASE r.by = "nobody"
  <2>1. Heard(shell, body, w, {})
    BY <1>1, <1>3 DEF StaffAnswered
  <2>2. QED
    BY <1>1, <1>2, <1>3, <2>1, NobodyKeeps
<1>4. CASE r.by # "nobody" /\ Ok(r)
  <2> DEFINE b == [body EXCEPT !.at = "loaded", !.rows = r.answer.data]
  <2>1. Heard(shell, b, w, {})
    BY <1>1, <1>4 DEF StaffAnswered
  <2>2. r.by = "screen" /\ ViewOf(shell) = "operators"
        /\ body = [at |-> body.at, rows |-> body.rows, rowError |-> body.rowError, form |-> body.form]
    BY <1>1, <1>2, <1>4, StaffHears
  <2>3. b = [at |-> "loaded", rows |-> r.answer.data, rowError |-> body.rowError, form |-> body.form]
    <3> DEFINE c == [body EXCEPT !.at = "loaded"]
    <3>1. c = [at |-> "loaded", rows |-> body.rows, rowError |-> body.rowError, form |-> body.form]
      BY <2>2
    <3>2. b = [c EXCEPT !.rows = r.answer.data]
      BY <2>2
    <3> HIDE DEF c, b
    <3>3. QED
      BY <3>1, <3>2
  <2> HIDE DEF b
  <2>4. orderly => r.answer.data = Directory(server.staff)
    BY <1>1, <1>2, <1>4, AnswerIs DEF TrueAnswer
  <2>5. QED
    BY <1>1, <1>2, <2>1, <2>2, <2>3, <2>4, DirectoryKeeps
<1>5. CASE r.by # "nobody" /\ ~Ok(r)
  <2> DEFINE at == Outcome(r.answer.status)
             b == [body EXCEPT !.at = at]
  <2>1. Heard(shell, b, w, {})
    BY <1>1, <1>5 DEF StaffAnswered
  <2>2. r.by = "screen" /\ ViewOf(shell) = "operators"
        /\ body = [at |-> body.at, rows |-> body.rows, rowError |-> body.rowError, form |-> body.form]
    BY <1>1, <1>2, <1>5, StaffHears
  <2>3. at \in {"denied", "failed"}
    BY <1>5 DEF Outcome, Ok
  <2> HIDE DEF at
  <2>4. b = [at |-> at, rows |-> body.rows, rowError |-> body.rowError, form |-> body.form]
    BY <2>2
  <2> HIDE DEF b
  <2>5. QED
    BY <1>1, <1>2, <2>1, <2>2, <2>3, <2>4, DirectoryKeeps
<1>6. QED
  BY <1>3, <1>4, <1>5

LEMMA ChangeAnsweredKeeps == ASSUME PanelInv, NEW w \in Wires, ChangeAnswered(w) PROVE PanelInv'
<1>1. PICK r : r = asks[w]
  OBVIOUS
<1>2. Flying(w) /\ r.what \in {"hire", "toggle"}
  BY <1>1 DEF ChangeAnswered, Arrived
<1> DEFINE form == IF r.what = "toggle" THEN body.form ELSE IF Ok(r) THEN "idle" ELSE "error"
<1>3. CASE r.by = "nobody"
  <2>1. Heard(shell, body, w, {})
    BY <1>1, <1>3 DEF ChangeAnswered
  <2>2. QED
    BY <1>1, <1>2, <1>3, <2>1, NobodyKeeps
<1>4. r.by # "nobody" =>
        /\ r.by = "screen" /\ ViewOf(shell) = "operators"
        /\ body = [at |-> body.at, rows |-> body.rows, rowError |-> body.rowError, form |-> body.form]
        /\ body.at \in {"loading", "loaded", "denied", "failed"}
  BY <1>1, <1>2, StaffHears
<1>5. form = "busy" => body.form = "busy" /\ r.what # "hire"
  BY <1>2
<1>6. CASE r.by # "nobody" /\ ~Ok(r)
  <2>1. PICK e : e = (body.rowError \/ r.what = "toggle")
    OBVIOUS
  <2> DEFINE b == [body EXCEPT !.form = form, !.rowError = @ \/ r.what = "toggle"]
  <2>2. Heard(shell, b, w, {})
    BY <1>1, <1>6 DEF ChangeAnswered
  <2>3. b = [body EXCEPT !.form = form, !.rowError = e]
    BY <2>1
  <2> HIDE DEF form, b
  <2>4. b = [at |-> body.at, rows |-> body.rows, rowError |-> e, form |-> form]
    <3> DEFINE c == [body EXCEPT !.form = form]
    <3>1. c = [at |-> body.at, rows |-> body.rows, rowError |-> body.rowError, form |-> form]
      BY <1>4, <1>6
    <3>2. b = [c EXCEPT !.rowError = e]
      BY <1>4, <1>6, <2>3
    <3> HIDE DEF c
    <3>3. QED
      BY <3>1, <3>2
  <2>5. ASSUME orderly, body.at = "loaded" PROVE body.rows = Directory(server.staff)
    <3>1. ScreenIsTrue(shell, body, {r}, server)
      BY <1>1, <1>2, <2>5, AnswerIs DEF TrueSoFar
    <3>2. QED
      BY <1>4, <1>6, <2>5, <3>1 DEF ScreenIsTrue, Done200
  <2>6. body.at = "loading" => r.what # "operators"
    BY <1>2
  <2>7. QED
    BY <1>1, <1>2, <1>4, <1>5, <1>6, <2>2, <2>4, <2>5, <2>6, DirectoryKeeps
<1>7. CASE r.by # "nobody" /\ Ok(r)
  <2> DEFINE q == Request("operators", "screen", 0)
             b == [body EXCEPT !.form = form, !.at = "loading"]
             A == Without(w)
  <2>1. Heard(shell, b, w, {q})
    BY <1>1, <1>4, <1>7 DEF ChangeAnswered
  <2> HIDE DEF form
  <2>2. b = [at |-> "loading", rows |-> body.rows, rowError |-> body.rowError, form |-> form]
    <3> DEFINE c == [body EXCEPT !.form = form]
    <3>1. c = [at |-> body.at, rows |-> body.rows, rowError |-> body.rowError, form |-> form]
      BY <1>4, <1>7
    <3>2. b = [c EXCEPT !.at = "loading"]
      BY <1>4, <1>7
    <3> HIDE DEF c, b
    <3>3. QED
      BY <3>1, <3>2
  <2> HIDE DEF b
  <2>3. b.at = "loading" /\ b.form = form /\ b = [at |-> b.at, rows |-> b.rows, rowError |-> b.rowError, form |-> b.form]
    BY <2>2
  <2>4. q = [what |-> "operators", by |-> "screen", arg |-> 0, answer |-> Waiting]
    BY DEF Request
  <2>5. q.what = "operators" /\ q.by = "screen" /\ q.answer = Waiting /\ ~Ok(q)
    BY <2>4 DEF Waiting, Ok
  <2>6. RequestOK(q, Entered)
    BY <2>4, <2>5 DEF RequestOK, AskedFor
  <2>7. HeardBy(q, shell)
    BY <1>4, <1>7, <2>5 DEF HeardBy, ScreenOf
  <2> HIDE DEF q
  <2>8. Rendered(shell, b, A, {q}) /\ server' = server /\ clicks' = clicks
    BY <2>1 DEF Heard
  <2>9. /\ Ready(A)
        /\ orderly => Flight(A) = {} /\ Alone(A)
    BY <1>2, AnswerIs
  <2>10. AsksRight({q}, shell)
    BY <2>5, <2>6, <2>7, PanelIs DEF AsksRight
  <2>11. BodyOK(ViewOf(shell), b, Entered)
    BY <1>4, <1>7, <2>3 DEF BodyOK
  <2>12. ShellWaits(shell, Flight(A) \cup {q})
    <3>1. ShellWaits(shell, Flight(A))
      BY <1>1, <1>2, StillAsked
    <3>2. QED
      BY <3>1, WaitsMore
  <2>13. BodyWaits(ViewOf(shell), b, Flight(A) \cup {q})
    <3>1. BodyWaits("operators", body, Flight(asks))
      BY <1>4, <1>7, PanelIs
    <3>2. b.form = "busy" => AskedIn(Flight(A), "hire", "screen")
      BY <1>1, <1>2, <1>5, <2>3, <3>1, StillAsked DEF BodyWaits, form
    <3>3. AskedIn(Flight(A) \cup {q}, "operators", "screen")
      BY <2>5 DEF AskedIn
    <3>4. b.form = "busy" => AskedIn(Flight(A) \cup {q}, "hire", "screen")
      BY <3>2 DEF AskedIn
    <3> HIDE DEF A
    <3>5. QED
      BY <1>4, <1>7, <2>3, <3>3, <3>4 DEF BodyWaits
  <2>14. ASSUME StillOrderly(A, {q}) PROVE TrueSoFar(shell, b, Flight(A) \cup {q}, server)
    <3>1. orderly /\ Flight(A) \cup {q} = {q}
      BY <2>5, <2>14 DEF StillOrderly
    <3>2. TrueSoFar(shell, body, {r}, server)
      BY <1>1, <1>2, <3>1, AnswerIs
    <3>3. LoginIsTrue(shell, {q}, server) /\ ListIsTrue(shell, {q}, server)
      BY <1>2, <3>2 DEF TrueSoFar, LoginIsTrue, ListIsTrue, Done200
    <3>4. ScreenIsTrue(shell, b, {q}, server)
      BY <1>4, <1>7, <2>3 DEF ScreenIsTrue
    <3>5. TrueAnswer(q, shell, b, server)
      <4>1. q.answer.status = "none"
        BY <2>5 DEF Waiting
      <4>2. QED
        BY <1>4, <1>7, <2>5, <4>1 DEF TrueAnswer
    <3>6. TrueSoFar(shell, b, {q}, server)
      BY <3>3, <3>4, <3>5 DEF TrueSoFar
    <3>7. QED
      BY <3>1, <3>6
  <2>15. clicks' \in 0 .. MaxClicks /\ {q} # {}
    BY <2>8, PanelIs
  <2>16. orderly => Alone(A) /\ \A x \in Flight(A) : TrueAnswer(x, shell, body, server)
    BY <2>9
  <2> HIDE DEF A
  <2>17. QED
    BY <2>8, <2>9, <2>10, <2>11, <2>12, <2>13, <2>14, <2>15, <2>16, PanelIs, CommitKeeps
<1>8. QED
  BY <1>3, <1>6, <1>7

LEMMA AuditAnsweredKeeps == ASSUME PanelInv, NEW w \in Wires, AuditAnswered(w) PROVE PanelInv'
<1>1. PICK r : r = asks[w]
  OBVIOUS
<1>2. Flying(w) /\ r.what = "audit"
  BY <1>1 DEF AuditAnswered, Arrived
<1>3. CASE r.by = "nobody"
  <2>1. Heard(shell, body, w, {})
    BY <1>1, <1>3 DEF AuditAnswered
  <2>2. QED
    BY <1>1, <1>2, <1>3, <2>1, NobodyKeeps
<1>4. CASE r.by # "nobody"
  <2>1. r.by = "screen" /\ HeardBy(r, shell)
    BY <1>1, <1>2, <1>4, AnswerIs
  <2>2. ViewOf(shell) = "audit"
    BY <1>2, <2>1 DEF HeardBy, ScreenOf
  <2>3. PICK b : /\ Heard(shell, b, w, {})
                 /\ \/ b = [at |-> "loaded", filter |-> body.filter, shown |-> r.answer.data] /\ Ok(r)
                    \/ b = [at |-> Outcome(r.answer.status), filter |-> body.filter] /\ ~Ok(r)
    <3>1. CASE Ok(r)
      BY <1>1, <1>4, <3>1 DEF AuditAnswered
    <3>2. CASE ~Ok(r)
      BY <1>1, <1>4, <3>2 DEF AuditAnswered
    <3>3. QED
      BY <3>1, <3>2
  <2>4. ~Ok(r) => Outcome(r.answer.status) \in {"denied", "failed"}
    BY DEF Outcome, Ok
  <2>5. BodyOK(ViewOf(shell), b, Entered) /\ b.at \in {"loaded", "denied", "failed"}
    <3>1. CASE b = [at |-> "loaded", filter |-> body.filter, shown |-> r.answer.data]
      BY <2>2, <3>1 DEF BodyOK
    <3>2. CASE b = [at |-> Outcome(r.answer.status), filter |-> body.filter] /\ ~Ok(r)
      BY <2>2, <2>4, <3>2 DEF BodyOK
    <3>3. QED
      BY <2>3, <3>1, <3>2
  <2>6. BodyWaits(ViewOf(shell), b, Flight(Without(w)))
    BY <2>2, <2>5 DEF BodyWaits
  <2>7. ASSUME orderly PROVE ScreenIsTrue(shell, b, {}, server)
    <3>1. TrueAnswer(r, shell, body, server)
      BY <1>1, <1>2, <2>7, AnswerIs
    <3>2. (Ok(r) => r.answer.data = [filter |-> r.arg, entries |-> server.entries]) /\ r.arg = body.filter
      BY <1>2, <2>1, <3>1 DEF TrueAnswer
    <3>3. CASE b = [at |-> "loaded", filter |-> body.filter, shown |-> r.answer.data] /\ Ok(r)
      <4>1. b.filter = body.filter /\ b.shown = r.answer.data
        BY <3>3
      <4>2. b.shown = [filter |-> b.filter, entries |-> server.entries]
        BY <3>2, <3>3, <4>1
      <4>3. QED
        BY <2>2, <4>2 DEF ScreenIsTrue
    <3>4. CASE b = [at |-> Outcome(r.answer.status), filter |-> body.filter] /\ ~Ok(r)
      BY <2>2, <2>4, <3>4 DEF ScreenIsTrue
    <3>5. QED
      BY <2>3, <3>3, <3>4
  <2>8. r.what # "list" /\ r.what \notin {"login", "create"}
    BY <1>2
  <2>9. QED
    BY <1>1, <1>2, <2>3, <2>5, <2>6, <2>7, <2>8, HereKeeps
<1>5. QED
  BY <1>3, <1>4

\* What the sections show of what they wait for, F being on its way.
SectionsWait(sec, F) ==
  /\ sec = [saves |-> sec.saves, rotate |-> sec.rotate, warned |-> sec.warned]
  /\ sec.saves \in [Fields -> States]
  /\ \A f \in Fields : sec.saves[f] = "saving" => Saving(F, f)
  /\ sec.rotate = "rotating" => Saving(F, "key")

LEMMA SectionsAre ==
  ASSUME PanelInv, ViewOf(shell) = "detail"
  PROVE  SectionsWait(Sections, Flight(asks))
<1>1. BodyOK("detail", body, Entered) /\ BodyWaits("detail", body, Flight(asks))
  BY PanelIs
<1>2. CASE body.at = "loaded"
  <2> DEFINE sec == [saves |-> body.saves, rotate |-> body.rotate, warned |-> body.warned]
  <2>1. Sections = sec
    BY <1>2 DEF Sections
  <2>2. sec.saves = body.saves /\ sec.rotate = body.rotate /\ sec.warned = body.warned
    OBVIOUS
  <2>3. sec = [saves |-> sec.saves, rotate |-> sec.rotate, warned |-> sec.warned]
    OBVIOUS
  <2> HIDE DEF sec
  <2>4. LoadedOK(body, Entered)
    BY <1>1, <1>2 DEF BodyOK
  <2>5. SectionsWait(sec, Flight(asks))
    BY <1>1, <1>2, <2>2, <2>3, <2>4 DEF SectionsWait, LoadedOK, BodyWaits
  <2>6. QED
    BY <2>1, <2>5
<1>3. CASE body.at # "loaded"
  <2>1. Sections = [saves |-> NoErrors, rotate |-> "idle", warned |-> FALSE]
    BY <1>3 DEF Sections, NewSections
  <2>2. NoErrors \in [Fields -> States] /\ \A f \in Fields : NoErrors[f] = "idle"
    BY DEF NoErrors, States
  <2>3. Sections.saves = NoErrors /\ Sections.rotate = "idle" /\ Sections.warned = FALSE
    BY <2>1
  <2>4. QED
    BY <2>1, <2>2, <2>3 DEF SectionsWait
<1>4. QED
  BY <1>2, <1>3

LEMMA SectionsLess ==
  ASSUME PanelInv, NEW w \in Wires, Flying(w), NEW r, r = asks[w], ViewOf(shell) = "detail"
  PROVE  r.by # "section" => SectionsWait(Sections, Flight(Without(w)))
<1>1. SectionsWait(Sections, Flight(asks))
  BY SectionsAre
<1>2. r.by # "section" => \A f : Saving(Flight(asks), f) => Saving(Flight(Without(w)), f)
  BY StillAsked
<1>3. QED
  BY <1>1, <1>2 DEF SectionsWait

LEMMA OneFieldOf ==
  ASSUME NEW sec, sec = [saves |-> sec.saves, rotate |-> sec.rotate, warned |-> sec.warned], NEW sv, NEW ro, NEW wa
  PROVE  /\ [sec EXCEPT !.saves = sv] = [saves |-> sv, rotate |-> sec.rotate, warned |-> sec.warned]
         /\ [sec EXCEPT !.rotate = ro] = [saves |-> sec.saves, rotate |-> ro, warned |-> sec.warned]
         /\ [sec EXCEPT !.saves = sv, !.warned = wa] = [saves |-> sv, rotate |-> sec.rotate, warned |-> wa]
<1> DEFINE c == [sec EXCEPT !.saves = sv]
<1>1. c = [saves |-> sv, rotate |-> sec.rotate, warned |-> sec.warned]
  OBVIOUS
<1>2. [sec EXCEPT !.rotate = ro] = [saves |-> sec.saves, rotate |-> ro, warned |-> sec.warned]
  OBVIOUS
<1>3. [sec EXCEPT !.saves = sv, !.warned = wa] = [c EXCEPT !.warned = wa]
  OBVIOUS
<1> HIDE DEF c
<1>4. [c EXCEPT !.warned = wa] = [saves |-> sv, rotate |-> sec.rotate, warned |-> wa]
  BY <1>1
<1>5. QED
  BY <1>1, <1>2, <1>3, <1>4 DEF c

\* The section that was answered says it is through, and the others what they said.
LEMMA AnsweredSection ==
  ASSUME PanelInv, NEW w \in Wires, Flying(w), NEW r, r = asks[w], ViewOf(shell) = "detail",
         NEW ok \in BOOLEAN
  PROVE  SectionsWait(TheSection(r, ok), Flight(Without(w)))
<1> DEFINE F == Flight(Without(w))
<1>1. SectionsWait(Sections, Flight(asks))
  BY SectionsAre
<1>2. \A f : Saving(Flight(asks), f) /\ ~(r.by = "section" /\ r.arg.field = f) => Saving(F, f)
  BY StillAsked
<1>3. CASE r.by # "section"
  <2>1. TheSection(r, ok) = Sections
    BY <1>3 DEF TheSection
  <2>2. QED
    BY <1>3, <2>1, SectionsLess
<1>4. CASE r.by = "section"
  <2> DEFINE sec == Sections
             x == IF ok THEN "idle" ELSE "error"
             sv == [sec.saves EXCEPT ![r.arg.field] = x]
  <2>1. sec = [saves |-> sec.saves, rotate |-> sec.rotate, warned |-> sec.warned]
        /\ sec.saves \in [Fields -> States]
    BY <1>1 DEF SectionsWait
  <2>2. x \in States /\ x # "saving"
    BY DEF States
  <2>3. r.arg.field \in Fields \cup {"key"} /\ "key" \notin Fields
    <3>1. RequestOK(r, Entered) /\ r.what = "save"
      BY <1>4, AnswerIs
    <3>2. QED
      BY <3>1, PanelAssumption DEF RequestOK
  <2> HIDE DEF sec, x, F
  <2>4. CASE r.arg.field = "key"
    <3>1. TheSection(r, ok) = [sec EXCEPT !.rotate = IF ok THEN "rotated" ELSE "error"]
      BY <1>4, <2>4 DEF TheSection, sec
    <3>2. PICK ro : ro = (IF ok THEN "rotated" ELSE "error") /\ ro # "rotating"
      OBVIOUS
    <3>3. TheSection(r, ok) = [saves |-> sec.saves, rotate |-> ro, warned |-> sec.warned]
      BY <2>1, <3>1, <3>2, OneFieldOf
    <3>4. \A f \in Fields : sec.saves[f] = "saving" => Saving(F, f)
      BY <1>1, <1>2, <2>3, <2>4 DEF SectionsWait, sec
    <3> DEFINE s2 == TheSection(r, ok)
    <3>5. s2.saves = sec.saves /\ s2.rotate = ro /\ s2.warned = sec.warned
      BY <3>3
    <3>6. s2 = [saves |-> s2.saves, rotate |-> s2.rotate, warned |-> s2.warned]
      BY <3>3, <3>5
    <3> HIDE DEF s2
    <3>7. SectionsWait(s2, F)
      BY <2>1, <3>2, <3>4, <3>5, <3>6 DEF SectionsWait
    <3>8. QED
      BY <3>7 DEF s2, F
  <2>5. CASE r.arg.field # "key"
    <3>1. PICK wa : \/ TheSection(r, ok) = [sec EXCEPT !.saves = sv, !.warned = wa]
                    \/ TheSection(r, ok) = [sec EXCEPT !.saves = sv]
      <4>1. CASE r.arg.field = "theme"
        <5>1. PICK wa : wa = (IF ok THEN r.answer.data.warned ELSE sec.warned)
          OBVIOUS
        <5>2. TheSection(r, ok) = [sec EXCEPT !.saves["theme"] = x, !.warned = wa]
          BY <1>4, <4>1, <5>1 DEF TheSection, sec, x
        <5>3. TheSection(r, ok) = [sec EXCEPT !.saves = sv, !.warned = wa]
          BY <4>1, <5>2
        <5>4. QED
          BY <5>3
      <4>2. CASE r.arg.field # "theme"
        <5>1. TheSection(r, ok) = [sec EXCEPT !.saves[r.arg.field] = x]
          BY <1>4, <2>5, <4>2 DEF TheSection, sec, x
        <5>2. TheSection(r, ok) = [sec EXCEPT !.saves = sv]
          BY <5>1
        <5>3. QED
          BY <5>2
      <4>3. QED
        BY <4>1, <4>2
    <3>2. sv \in [Fields -> States]
          /\ \A g \in Fields : sv[g] = IF g = r.arg.field THEN x ELSE sec.saves[g]
      BY <2>1, <2>2, <2>3, <2>5
    <3> HIDE DEF sv
    <3>3. PICK v : TheSection(r, ok) = [saves |-> sv, rotate |-> sec.rotate, warned |-> v]
      <4>1. CASE TheSection(r, ok) = [sec EXCEPT !.saves = sv, !.warned = wa]
        BY <2>1, <4>1, OneFieldOf
      <4>2. CASE TheSection(r, ok) = [sec EXCEPT !.saves = sv]
        BY <2>1, <4>2, OneFieldOf
      <4>3. QED
        BY <3>1, <4>1, <4>2
    <3>4. \A f \in Fields : sv[f] = "saving" => Saving(F, f)
      BY <1>1, <1>2, <2>2, <3>2 DEF SectionsWait, sec
    <3>5. sec.rotate = "rotating" => Saving(F, "key")
      BY <1>1, <1>2, <2>5 DEF SectionsWait, sec
    <3> DEFINE s2 == TheSection(r, ok)
    <3>6. s2.saves = sv /\ s2.rotate = sec.rotate /\ s2.warned = v
      BY <3>3
    <3>7. s2 = [saves |-> s2.saves, rotate |-> s2.rotate, warned |-> s2.warned]
      BY <3>3, <3>6
    <3> HIDE DEF s2
    <3>8. SectionsWait(s2, F)
      BY <3>2, <3>4, <3>5, <3>6, <3>7 DEF SectionsWait
    <3>9. QED
      BY <3>8 DEF s2, F
  <2>6. QED
    BY <2>4, <2>5
<1>5. QED
  BY <1>3, <1>4

\* A row is painted, with the sections sec.
LEMMA PaintedKeeps ==
  ASSUME PanelInv, NEW w \in Wires, Flying(w), NEW r, r = asks[w], r.what \in {"detail", "save"},
         ViewOf(shell) = "detail", NEW id \in Entered, NEW row \in RowsOf, NEW sec,
         SectionsWait(sec, Flight(Without(w))),
         orderly => id = shell.selected /\ row = server.rows[id],
         Heard(shell, LoadedDetail(id, row, sec), w, {})
  PROVE  PanelInv'
<1> DEFINE b == LoadedDetail(id, row, sec)
<1>1. b = [at |-> "loaded", id |-> id, row |-> row, saves |-> sec.saves, rotate |-> sec.rotate,
           warned |-> sec.warned]
  BY DEF LoadedDetail
<1>2. Heard(shell, b, w, {})
  OBVIOUS
<1> HIDE DEF b
<1>3. /\ b.at = "loaded" /\ b.id = id /\ b.row = row /\ b.saves = sec.saves /\ b.rotate = sec.rotate
      /\ b.warned = sec.warned
  BY <1>1
<1>4. LoadedOK(b, Entered)
  BY <1>1, <1>3 DEF LoadedOK, SectionsWait
<1>5. BodyOK(ViewOf(shell), b, Entered)
  BY <1>3, <1>4 DEF BodyOK
<1>6. BodyWaits(ViewOf(shell), b, Flight(Without(w)))
  BY <1>3 DEF BodyWaits, SectionsWait
<1>7. orderly => ScreenIsTrue(shell, b, {}, server)
  BY <1>3 DEF ScreenIsTrue
<1>8. r.what # "list" /\ r.what \notin {"login", "create"}
  OBVIOUS
<1>9. QED
  BY <1>2, <1>5, <1>6, <1>7, <1>8, HereKeeps

LEMMA SaveAnsweredKeeps == ASSUME PanelInv, NEW w \in Wires, SaveAnswered(w) PROVE PanelInv'
<1>1. PICK r : r = asks[w]
  OBVIOUS
<1>2. Flying(w) /\ r.what = "save"
  BY <1>1 DEF SaveAnswered, Arrived
<1>3. RequestOK(r, Entered) /\ HeardBy(r, shell) /\ r.by \in {"screen", "section", "nobody"}
  <2>1. RequestOK(r, Entered) /\ HeardBy(r, shell) /\ r.by \in {"shell", "screen", "section", "nobody"}
        /\ (r.by = "shell" <=> r.what \in {"list", "logout"})
    BY <1>1, <1>2, AnswerIs
  <2>2. QED
    BY <1>2, <2>1
<1>4. r.by # "nobody" => ViewOf(shell) = "detail"
  BY <1>2, <1>3 DEF HeardBy, ScreenOf
<1>5. orderly => r.by = "section" /\ shell.selected = r.arg.id
                 /\ (Ok(r) => r.answer.data.row = server.rows[r.arg.id])
  BY <1>1, <1>2, AnswerIs DEF TrueAnswer
<1>6. CASE r.by = "nobody"
  <2>1. Heard(shell, body, w, {})
    BY <1>1, <1>6 DEF SaveAnswered
  <2>2. QED
    BY <1>1, <1>2, <1>6, <2>1, NobodyKeeps
<1>7. CASE r.by # "nobody" /\ Ok(r)
  <2> DEFINE id == r.answer.data.id
             row == r.answer.data.row
  <2>1. Heard(shell, LoadedDetail(id, row, TheSection(r, TRUE)), w, {})
    BY <1>1, <1>7 DEF SaveAnswered
  <2>2. id = r.arg.id /\ id \in Entered /\ row \in RowsOf
    BY <1>2, <1>3, <1>7 DEF RequestOK
  <2>3. SectionsWait(TheSection(r, TRUE), Flight(Without(w)))
    BY <1>1, <1>2, <1>4, <1>7, AnsweredSection
  <2>4. orderly => id = shell.selected /\ row = server.rows[id]
    BY <1>5, <1>7, <2>2
  <2> HIDE DEF id, row
  <2>5. QED
    BY <1>1, <1>2, <1>4, <1>7, <2>1, <2>2, <2>3, <2>4, PaintedKeeps
<1>8. CASE r.by = "section" /\ ~Ok(r)
  <2>1. Heard(shell, LoadedDetail(body.id, body.row, TheSection(r, FALSE)), w, {})
    BY <1>1, <1>8 DEF SaveAnswered
  <2>2. body.at = "loaded"
    <3>1. BodyWaits("detail", body, Flight(asks)) /\ r \in Flight(asks)
      BY <1>1, <1>2, <1>4, <1>8, PanelIs, AnswerIs
    <3>2. QED
      BY <1>8, <3>1 DEF BodyWaits
  <2>3. body.id \in Entered /\ body.row \in RowsOf
    <3>1. LoadedOK(body, Entered)
      BY <1>4, <1>8, <2>2, DetailIs DEF OnDetail
    <3>2. QED
      BY <3>1 DEF LoadedOK
  <2>4. SectionsWait(TheSection(r, FALSE), Flight(Without(w)))
    BY <1>1, <1>2, <1>4, <1>8, AnsweredSection
  <2>5. ASSUME orderly PROVE body.id = shell.selected /\ body.row = server.rows[body.id]
    <3>1. ScreenIsTrue(shell, body, {r}, server)
      BY <1>1, <1>2, <2>5, AnswerIs DEF TrueSoFar
    <3>2. QED
      BY <1>4, <1>8, <2>2, <3>1 DEF ScreenIsTrue, Done200
  <2>6. QED
    BY <1>1, <1>2, <1>4, <1>8, <2>1, <2>3, <2>4, <2>5, PaintedKeeps
<1>9. CASE r.by = "screen" /\ ~Ok(r)
  <2>1. Heard(shell, body, w, {})
    BY <1>1, <1>9 DEF SaveAnswered
  <2>2. BodyWaits(ViewOf(shell), body, Flight(Without(w)))
    <3>1. BodyWaits("detail", body, Flight(asks)) /\ BodyOK("detail", body, Entered)
      BY <1>4, <1>9, PanelIs
    <3>2. AskedIn(Flight(asks), "detail", "screen") => AskedIn(Flight(Without(w)), "detail", "screen")
      BY <1>1, <1>2, StillAsked
    <3>3. \A f : Saving(Flight(asks), f) => Saving(Flight(Without(w)), f)
      BY <1>1, <1>2, <1>9, StillAsked
    <3>4. Flight(Without(w)) \subseteq Flight(asks)
      BY <1>1, <1>2, AnswerIs
    <3>5. body.at # "busy"
      BY <3>1 DEF BodyOK
    <3>6. QED
      BY <1>4, <1>9, <3>1, <3>2, <3>3, <3>4, <3>5 DEF BodyWaits
  <2>3. orderly => ScreenIsTrue(shell, body, {}, server)
    BY <1>5, <1>9
  <2>4. r.what # "list" /\ r.what \notin {"login", "create"}
    BY <1>2
  <2>5. QED
    BY <1>1, <1>2, <2>1, <2>2, <2>3, <2>4, PanelIs, HereKeeps
<1>10. QED
  BY <1>3, <1>6, <1>7, <1>8, <1>9

-----------------------------------------------------------------------------

\* The sections are gone, and the screen hears what they asked for.
LEMMA SectionsGoneIs ==
  ASSUME NEW A, Ready(A), ViewOf(shell) = "detail"
  PROVE  /\ Ready(SectionsGone(A)) /\ \A r \in Flight(SectionsGone(A)) : r.by # "section"
         /\ \A what : AskedIn(Flight(A), what, "shell") => AskedIn(Flight(SectionsGone(A)), what, "shell")
         /\ Flight(A) = {} => Flight(SectionsGone(A)) = {} /\ Alone(SectionsGone(A))
<1> DEFINE B == SectionsGone(A)
<1>1. B = [w \in Wires |-> IF A[w] # NoAsk /\ A[w].by = "section" THEN [A[w] EXCEPT !.by = "screen"] ELSE A[w]]
  BY DEF SectionsGone
<1>2. IsAsks(A) /\ \A r \in Flight(A) : RequestOK(r, Entered) /\ HeardBy(r, shell)
  BY DEF Ready
<1> HIDE DEF B
<1>3. ASSUME NEW w \in Wires, A[w] # NoAsk
      PROVE  /\ B[w] # NoAsk /\ RequestOK(B[w], Entered) /\ HeardBy(B[w], shell) /\ B[w].by # "section"
             /\ A[w].by = "shell" => B[w] = A[w]
  <2>1. RequestOK(A[w], Entered) /\ HeardBy(A[w], shell)
    BY <1>2, <1>3 DEF Flight
  <2>2. CASE A[w].by = "section"
    <3>1. B[w] = [A[w] EXCEPT !.by = "screen"]
      BY <1>1, <1>3, <2>2
    <3>2. /\ B[w].what = A[w].what /\ B[w].arg = A[w].arg /\ B[w].by = "screen" /\ RequestOK(B[w], Entered)
          /\ B[w] # NoAsk
      BY <2>1, <3>1, TurnedIs
    <3>3. A[w].what = "save"
      BY <2>1, <2>2 DEF HeardBy
    <3>4. HeardBy(B[w], shell)
      BY <3>2, <3>3 DEF HeardBy, ScreenOf
    <3>5. QED
      BY <2>2, <3>2, <3>4
  <2>3. CASE A[w].by # "section"
    <3>1. B[w] = A[w]
      BY <1>1, <2>3
    <3>2. QED
      BY <1>3, <2>1, <2>3, <3>1
  <2>4. QED
    BY <2>2, <2>3
<1>4. ASSUME NEW w \in Wires, A[w] = NoAsk PROVE B[w] = NoAsk
  BY <1>1, <1>4
<1>5. IsAsks(B)
  BY <1>1 DEF IsAsks
<1>6. \A r \in Flight(B) : RequestOK(r, Entered) /\ HeardBy(r, shell) /\ r.by # "section"
  BY <1>3, <1>4 DEF Flight
<1>7. ASSUME NEW what, AskedIn(Flight(A), what, "shell") PROVE AskedIn(Flight(B), what, "shell")
  <2>1. PICK r \in Flight(A) : r.what = what /\ r.by = "shell"
    BY <1>7 DEF AskedIn
  <2>2. PICK w \in Wires : r = A[w] /\ A[w] # NoAsk
    BY DEF Flight
  <2>3. B[w] = r /\ B[w] # NoAsk
    BY <1>3, <2>1, <2>2
  <2>4. r \in Flight(B)
    BY <2>3 DEF Flight
  <2>5. QED
    BY <2>1, <2>4 DEF AskedIn
<1>8. ASSUME Flight(A) = {} PROVE Flight(B) = {} /\ Alone(B)
  <2>1. \A w \in Wires : B[w] = NoAsk
    BY <1>4, <1>8 DEF Flight
  <2>2. QED
    BY <2>1 DEF Flight, Alone
<1>9. QED
  BY <1>5, <1>6, <1>7, <1>8 DEF B, Ready

LEMMA DetailAnsweredKeeps == ASSUME PanelInv, NEW w \in Wires, DetailAnswered(w) PROVE PanelInv'
<1>1. PICK r : r = asks[w]
  OBVIOUS
<1>2. Flying(w) /\ r.what = "detail"
  BY <1>1 DEF DetailAnswered, Arrived
<1>3. RequestOK(r, Entered) /\ HeardBy(r, shell) /\ r.by \in {"screen", "nobody"}
  <2>1. RequestOK(r, Entered) /\ HeardBy(r, shell) /\ r.by \in {"shell", "screen", "section", "nobody"}
        /\ (r.by = "shell" <=> r.what \in {"list", "logout"}) /\ (r.by = "section" => r.what = "save")
    BY <1>1, <1>2, AnswerIs
  <2>2. QED
    BY <1>2, <2>1
<1>4. r.by = "screen" => ViewOf(shell) = "detail" /\ r.arg = shell.selected
  BY <1>2, <1>3 DEF HeardBy, ScreenOf
<1>5. CASE r.by = "nobody"
  <2>1. Heard(shell, body, w, {})
    BY <1>1, <1>5 DEF DetailAnswered
  <2>2. QED
    BY <1>1, <1>2, <1>5, <2>1, NobodyKeeps
<1>6. CASE r.by = "screen" /\ Ok(r)
  <2> DEFINE id == r.answer.data.id
             row == r.answer.data.row
  <2>1. Heard(shell, LoadedDetail(id, row, Sections), w, {})
    BY <1>1, <1>6 DEF DetailAnswered
  <2>2. id = r.arg /\ id \in Entered /\ row \in RowsOf
    BY <1>2, <1>3, <1>6 DEF RequestOK
  <2>3. SectionsWait(Sections, Flight(Without(w)))
    BY <1>1, <1>2, <1>4, <1>6, SectionsLess
  <2>4. ASSUME orderly PROVE id = shell.selected /\ row = server.rows[id]
    <3>1. TrueAnswer(r, shell, body, server)
      BY <1>1, <1>2, <2>4, AnswerIs
    <3>2. row = server.rows[r.arg]
      BY <1>2, <1>6, <3>1 DEF TrueAnswer
    <3>3. QED
      BY <1>4, <1>6, <2>2, <3>2
  <2> HIDE DEF id, row
  <2>5. QED
    BY <1>1, <1>2, <1>4, <1>6, <2>1, <2>2, <2>3, <2>4, PaintedKeeps
<1>7. CASE r.by = "screen" /\ ~Ok(r)
  <2> DEFINE b == [at |-> Outcome(r.answer.status)]
             A == SectionsGone(Without(w))
  <2>1. Rendered(shell, b, A, {}) /\ server' = server /\ clicks' = clicks
    BY <1>1, <1>7 DEF DetailAnswered
  <2>2. b.at \in {"denied", "failed"} /\ b = [at |-> b.at]
    BY <1>7 DEF Outcome, Ok
  <2>3. Ready(Without(w)) /\ (orderly => Flight(Without(w)) = {})
    BY <1>2, AnswerIs
  <2>4. /\ Ready(A) /\ \A q \in Flight(A) : q.by # "section"
        /\ \A what : AskedIn(Flight(Without(w)), what, "shell") => AskedIn(Flight(A), what, "shell")
        /\ orderly => Flight(A) = {} /\ Alone(A)
    BY <1>4, <1>7, <2>3, SectionsGoneIs
  <2> HIDE DEF b, A
  <2>5. BodyOK(ViewOf(shell), b, Entered)
    BY <1>4, <1>7, <2>2 DEF BodyOK
  <2>6. Flight(A) \cup {} = Flight(A)
    OBVIOUS
  <2>7. ShellWaits(shell, Flight(A) \cup {})
    <3>1. ShellWaits(shell, Flight(Without(w)))
      BY <1>1, <1>2, StillAsked
    <3>2. QED
      BY <2>4, <2>6, <3>1 DEF ShellWaits
  <2>8. BodyWaits(ViewOf(shell), b, Flight(A) \cup {})
    BY <1>4, <1>7, <2>2, <2>4, <2>6 DEF BodyWaits
  <2>9. ASSUME StillOrderly(A, {}) PROVE TrueSoFar(shell, b, Flight(A) \cup {}, server)
    <3>1. orderly
      BY <2>9 DEF StillOrderly
    <3>2. Flight(A) \cup {} = {}
      BY <2>4, <3>1
    <3>3. TrueSoFar(shell, body, {r}, server)
      BY <1>1, <1>2, <3>1, AnswerIs
    <3>4. LoginIsTrue(shell, {}, server) /\ ListIsTrue(shell, {}, server)
      BY <1>2, <3>3 DEF TrueSoFar, LoginIsTrue, ListIsTrue, Done200
    <3>5. ScreenIsTrue(shell, b, {}, server)
      BY <1>4, <1>7, <2>2 DEF ScreenIsTrue
    <3>6. TrueSoFar(shell, b, {}, server)
      BY <3>4, <3>5 DEF TrueSoFar
    <3>7. QED
      BY <3>2, <3>6
  <2>10. clicks' \in 0 .. MaxClicks
    BY <2>1, PanelIs
  <2>11. AsksRight({}, shell)
    BY DEF AsksRight
  <2>12. orderly => Alone(A) /\ \A x \in Flight(A) : TrueAnswer(x, shell, body, server)
    BY <2>4
  <2>13. QED
    BY <2>1, <2>4, <2>5, <2>7, <2>8, <2>9, <2>10, <2>11, <2>12, PanelIs, CommitKeeps
<1>8. QED
  BY <1>3, <1>5, <1>6, <1>7

LEMMA AnswerArrivesKeeps == ASSUME PanelInv, NEW w \in Wires, AnswerArrives(w) PROVE PanelInv'
  BY ListAnsweredKeeps, LogoutAnsweredKeeps, LoginAnsweredKeeps, CreateAnsweredKeeps, DetailAnsweredKeeps,
     SaveAnsweredKeeps, StaffAnsweredKeeps, ChangeAnsweredKeeps, AuditAnsweredKeeps, PasswordAnsweredKeeps
     DEF AnswerArrives

-----------------------------------------------------------------------------
(* The process. *)

\* What an answer a says of the request r it is given to, and the rows srv it leaves.
AnswerShape(a) == a = [status |-> a.status, data |-> a.data]
                  /\ a.status \in {"200", "400", "401", "403", "404", "409"}
RowsAfter(r, srv, a) ==
  /\ Entered \subseteq DOMAIN srv.rows
  /\ \/ srv.rows = server.rows
     \/ a.status = "200" /\ r.what = "create" /\ \A t \in Entered : srv.rows[t] = server.rows[t]
     \/ a.status = "200" /\ r.what = "save"
  /\ srv.staff = server.staff \/ (a.status = "200" /\ r.what \in {"hire", "toggle"})
  /\ srv.entries = server.entries \/ r.what \in Writes
SaysTrue(r, srv, a) ==
  /\ srv.live => server.live \/ (r.what = "login" /\ a.status = "200")
  /\ r.what = "logout" => ~srv.live
  /\ r.what = "list" => (a.status = "200" => a.data = Listing(srv.rows)) /\ (a.status \notin {"200", "403"} => ~srv.live)
  /\ r.what = "detail" /\ a.status = "200" => a.data.id = r.arg /\ a.data.row = srv.rows[r.arg]
  /\ r.what = "create" /\ a.status = "200" => r.arg \in DOMAIN srv.rows
  /\ r.what = "save" /\ a.status = "200" => a.data.id = r.arg.id /\ a.data.row = srv.rows[r.arg.id]
  /\ r.what = "operators" /\ a.status = "200" => a.data = Directory(srv.staff)
  /\ r.what = "audit" /\ a.status = "200" => a.data = [filter |-> r.arg, entries |-> srv.entries]
AnsweredWith(r, srv, a) == ServerOK(srv) /\ AnswerShape(a) /\ RowsAfter(r, srv, a) /\ SaysTrue(r, srv, a)

LEMMA ReplyIs ==
  ASSUME NEW srv, NEW st, NEW data
  PROVE  /\ Reply(srv, st, data).server = srv
         /\ Reply(srv, st, data).answer = [status |-> st, data |-> data]
         /\ Reply(srv, st, data).answer.status = st /\ Reply(srv, st, data).answer.data = data
  BY DEF Reply

LEMMA RefusalIs ==
  ASSUME ServerOK(server), NEW r, NEW st \in {"400", "401", "403", "404", "409"}, r.what # "logout",
         r.what = "list" => st = "403" \/ ~server.live,
         NEW reply \in Refusal(st)
  PROVE  AnsweredWith(r, reply.server, reply.answer)
<1>1. reply.server = server /\ reply.answer = [status |-> st, data |-> 0]
      /\ reply.answer.status = st /\ reply.answer.data = 0
  BY ReplyIs DEF Refusal
<1>2. AnswerShape(reply.answer)
  BY <1>1 DEF AnswerShape
<1>3. RowsAfter(r, server, reply.answer)
  BY DEF RowsAfter, Entered
<1>4. SaysTrue(r, server, reply.answer)
  BY <1>1 DEF SaysTrue
<1>5. QED
  BY <1>1, <1>2, <1>3, <1>4 DEF AnsweredWith

LEMMA DataIs ==
  ASSUME ServerOK(server), NEW r, NEW data, NEW reply, reply = Reply(server, "200", data),
         r.what \notin {"logout", "create", "save"},
         r.what = "list" => data = Listing(server.rows),
         r.what = "detail" => data.id = r.arg /\ data.row = server.rows[r.arg],
         r.what = "operators" => data = Directory(server.staff),
         r.what = "audit" => data = [filter |-> r.arg, entries |-> server.entries]
  PROVE  AnsweredWith(r, reply.server, reply.answer)
<1>1. reply.server = server /\ reply.answer = [status |-> "200", data |-> data]
      /\ reply.answer.status = "200" /\ reply.answer.data = data
  BY ReplyIs
<1>2. AnswerShape(reply.answer)
  BY <1>1 DEF AnswerShape
<1>3. RowsAfter(r, server, reply.answer)
  BY DEF RowsAfter, Entered
<1>4. SaysTrue(r, server, reply.answer)
  BY <1>1 DEF SaysTrue
<1>5. QED
  BY <1>1, <1>2, <1>3, <1>4 DEF AnsweredWith

\* One column of what the process holds is another.
LEMMA ServerFields ==
  ASSUME NEW srv,
         srv = [live |-> srv.live, may |-> srv.may, rows |-> srv.rows, staff |-> srv.staff, entries |-> srv.entries],
         NEW x
  PROVE  /\ [srv EXCEPT !.live = x] = [live |-> x, may |-> srv.may, rows |-> srv.rows,
                                       staff |-> srv.staff, entries |-> srv.entries]
         /\ [srv EXCEPT !.rows = x] = [live |-> srv.live, may |-> srv.may, rows |-> x,
                                       staff |-> srv.staff, entries |-> srv.entries]
         /\ [srv EXCEPT !.staff = x] = [live |-> srv.live, may |-> srv.may, rows |-> srv.rows,
                                        staff |-> x, entries |-> srv.entries]
         /\ [srv EXCEPT !.entries = x] = [live |-> srv.live, may |-> srv.may, rows |-> srv.rows,
                                          staff |-> srv.staff, entries |-> x]
  OBVIOUS

LEMMA ServerOf ==
  ASSUME NEW live \in BOOLEAN, NEW may, NEW rows, NEW staff, NEW entries, NEW srv,
         srv = [live |-> live, may |-> may, rows |-> rows, staff |-> staff, entries |-> entries],
         DOMAIN rows \subseteq PanelTenants, rows \in [DOMAIN rows -> RowsOf], Self \in DOMAIN staff
  PROVE  /\ ServerOK(srv)
         /\ srv.live = live /\ srv.may = may /\ srv.rows = rows /\ srv.staff = staff /\ srv.entries = entries
<1>1. srv.live = live /\ srv.may = may /\ srv.rows = rows /\ srv.staff = staff /\ srv.entries = entries
  OBVIOUS
<1>2. srv = [live |-> srv.live, may |-> srv.may, rows |-> srv.rows, staff |-> srv.staff, entries |-> srv.entries]
  BY <1>1
<1>3. srv.live \in BOOLEAN
  BY <1>1
<1>4. QED
  BY <1>1, <1>2, <1>3 DEF ServerOK

\* The same, and one more entry in the log.
LEMMA DoneIs ==
  ASSUME NEW live \in BOOLEAN, NEW may, NEW rows, NEW staff, NEW entries, NEW srv,
         srv = [live |-> live, may |-> may, rows |-> rows, staff |-> staff, entries |-> entries],
         DOMAIN rows \subseteq PanelTenants, rows \in [DOMAIN rows -> RowsOf], Self \in DOMAIN staff,
         NEW data, NEW reply \in Done(srv, data)
  PROVE  /\ ServerOK(reply.server) /\ AnswerShape(reply.answer)
         /\ reply.answer.status = "200" /\ reply.answer.data = data
         /\ reply.server.live = live /\ reply.server.rows = rows /\ reply.server.staff = staff
<1> DEFINE srv2 == [srv EXCEPT !.entries = @ + 1]
<1>1. reply.server = srv2 /\ reply.answer = [status |-> "200", data |-> data]
      /\ reply.answer.status = "200" /\ reply.answer.data = data
  BY ReplyIs DEF Done
<1>2. PICK e : e = srv.entries + 1
  OBVIOUS
<1>3. srv2 = [srv EXCEPT !.entries = e]
  BY <1>2
<1>4. srv2 = [live |-> live, may |-> may, rows |-> rows, staff |-> staff, entries |-> e]
  BY <1>3
<1> HIDE DEF srv2
<1>5. ServerOK(srv2) /\ srv2.live = live /\ srv2.rows = rows /\ srv2.staff = staff
  BY <1>4, ServerOf
<1>6. AnswerShape(reply.answer)
  BY <1>1 DEF AnswerShape
<1>7. QED
  BY <1>1, <1>5, <1>6

LEMMA ServerParts ==
  ASSUME ServerOK(server)
  PROVE  /\ server = [live |-> server.live, may |-> server.may, rows |-> server.rows, staff |-> server.staff,
                      entries |-> server.entries]
         /\ server.live \in BOOLEAN /\ DOMAIN server.rows \subseteq PanelTenants
         /\ server.rows \in [DOMAIN server.rows -> RowsOf] /\ Self \in DOMAIN server.staff
  BY DEF ServerOK

LEMMA LogInIs ==
  ASSUME ServerOK(server), NEW r, r.what = "login", NEW reply \in LogIn
  PROVE  AnsweredWith(r, reply.server, reply.answer)
<1>1. CASE reply \in Refusal("401")
  BY <1>1, RefusalIs
<1>2. CASE reply \notin Refusal("401")
  <2> DEFINE srv == [server EXCEPT !.live = TRUE]
  <2>1. reply = Reply(srv, "200", 0)
    BY <1>2 DEF LogIn
  <2>2. PICK x \in BOOLEAN : x = TRUE
    OBVIOUS
  <2>3. srv = [server EXCEPT !.live = x]
    BY <2>2
  <2> HIDE DEF srv
  <2>4. srv = [live |-> x, may |-> server.may, rows |-> server.rows, staff |-> server.staff,
               entries |-> server.entries]
    BY <2>3, ServerParts, ServerFields
  <2>5. ServerOK(srv) /\ srv.rows = server.rows /\ srv.staff = server.staff /\ srv.entries = server.entries
    BY <2>4, ServerParts, ServerOf
  <2>6. reply.server = srv /\ reply.answer = [status |-> "200", data |-> 0] /\ reply.answer.status = "200"
        /\ reply.answer.data = 0
    BY <2>1, ReplyIs
  <2>7. AnswerShape(reply.answer)
    BY <2>6 DEF AnswerShape
  <2>8. RowsAfter(r, srv, reply.answer) /\ SaysTrue(r, srv, reply.answer)
    BY <2>5, <2>6 DEF RowsAfter, SaysTrue, Entered
  <2>9. QED
    BY <2>5, <2>6, <2>7, <2>8 DEF AnsweredWith
<1>3. QED
  BY <1>1, <1>2

LEMMA LogOutIs ==
  ASSUME ServerOK(server), NEW r, r.what = "logout", NEW reply,
         reply = Reply([server EXCEPT !.live = FALSE], "200", 0)
  PROVE  AnsweredWith(r, reply.server, reply.answer)
<1> DEFINE srv == [server EXCEPT !.live = FALSE]
<1>2. PICK x \in BOOLEAN : x = FALSE
  OBVIOUS
<1>3. srv = [server EXCEPT !.live = x]
  BY <1>2
<1>1. reply = Reply(srv, "200", 0)
  OBVIOUS
<1> HIDE DEF srv
<1>4. srv = [live |-> x, may |-> server.may, rows |-> server.rows, staff |-> server.staff,
             entries |-> server.entries]
  BY <1>3, ServerParts, ServerFields
<1>5. ServerOK(srv) /\ srv.live = x /\ srv.rows = server.rows /\ srv.staff = server.staff
      /\ srv.entries = server.entries
  BY <1>4, ServerParts, ServerOf
<1>6. reply.server = srv /\ reply.answer = [status |-> "200", data |-> 0] /\ reply.answer.status = "200"
      /\ reply.answer.data = 0
  BY <1>1, ReplyIs
<1>7. AnswerShape(reply.answer)
  BY <1>6 DEF AnswerShape
<1>8. RowsAfter(r, srv, reply.answer) /\ SaysTrue(r, srv, reply.answer)
  BY <1>2, <1>5, <1>6 DEF RowsAfter, SaysTrue, Entered
<1>9. QED
  BY <1>5, <1>6, <1>7, <1>8 DEF AnsweredWith

LEMMA CreateIs ==
  ASSUME ServerOK(server), NEW r, r.what = "create", r.arg \in PanelTenants, NEW reply \in CreateTenant(r.arg)
  PROVE  AnsweredWith(r, reply.server, reply.answer)
<1>1. CASE r.arg \in DOMAIN server.rows
  BY <1>1, RefusalIs DEF CreateTenant
<1>2. CASE r.arg \notin DOMAIN server.rows
  <2> DEFINE rows == [u \in DOMAIN server.rows \cup {r.arg} |-> IF u = r.arg THEN NewRow ELSE server.rows[u]]
             srv == [server EXCEPT !.rows = rows]
  <2>1. reply \in Done(srv, 0)
    BY <1>2 DEF CreateTenant
  <2>2. NewRow \in RowsOf
    BY PanelAssumption DEF NewRow, RowsOf
  <2>3. /\ rows \in [DOMAIN rows -> RowsOf] /\ DOMAIN rows \subseteq PanelTenants /\ Entered \subseteq DOMAIN rows
        /\ r.arg \in DOMAIN rows /\ \A t \in Entered : rows[t] = server.rows[t]
    BY <1>2, <2>2, ServerParts DEF Entered
  <2> HIDE DEF rows
  <2>4. srv = [live |-> server.live, may |-> server.may, rows |-> rows, staff |-> server.staff,
               entries |-> server.entries]
    BY ServerParts, ServerFields
  <2> HIDE DEF srv
  <2>5. /\ ServerOK(reply.server) /\ AnswerShape(reply.answer) /\ reply.answer.status = "200"
        /\ reply.server.live = server.live /\ reply.server.rows = rows /\ reply.server.staff = server.staff
    BY <2>1, <2>3, <2>4, ServerParts, DoneIs
  <2>6. RowsAfter(r, reply.server, reply.answer)
    BY <2>3, <2>5 DEF RowsAfter, Writes
  <2>7. SaysTrue(r, reply.server, reply.answer)
    BY <2>3, <2>5 DEF SaysTrue
  <2>8. QED
    BY <2>5, <2>6, <2>7 DEF AnsweredWith
<1>3. QED
  BY <1>1, <1>2

LEMMA SaveIs ==
  ASSUME ServerOK(server), NEW r, r.what = "save", NEW id \in Entered, NEW f \in Fields \cup {"key"},
         NEW value \in 0 .. MaxClicks, r.arg.id = id, NEW reply \in SaveTenant(id, f, value)
  PROVE  AnsweredWith(r, reply.server, reply.answer)
<1>1. CASE reply \in Refusal("400")
  BY <1>1, RefusalIs
<1>2. CASE reply \notin Refusal("400")
  <2>1. PICK kept \in BOOLEAN :
           reply \in Done([server EXCEPT !.rows[id] = [server.rows[id] EXCEPT ![f] = IF kept THEN value ELSE 0]],
                          [id |-> id, row |-> [server.rows[id] EXCEPT ![f] = IF kept THEN value ELSE 0],
                           warned |-> ~kept])
    BY <1>2 DEF SaveTenant
  <2>2. PICK v \in 0 .. MaxClicks : v = IF kept THEN value ELSE 0
    BY PanelAssumption
  <2> DEFINE row == [server.rows[id] EXCEPT ![f] = v]
             rows == [server.rows EXCEPT ![id] = row]
             srv == [server EXCEPT !.rows = rows]
             data == [id |-> id, row |-> row, warned |-> ~kept]
  <2>3. reply \in Done(srv, data)
    BY <2>1, <2>2
  <2>4. server.rows[id] \in RowsOf /\ id \in DOMAIN server.rows
    BY ServerParts DEF Entered
  <2>5. row \in RowsOf
    BY <2>4 DEF RowsOf
  <2>6. data.id = id /\ data.row = row
    OBVIOUS
  <2> HIDE DEF row, data
  <2>7. /\ rows \in [DOMAIN rows -> RowsOf] /\ DOMAIN rows = Entered /\ DOMAIN rows \subseteq PanelTenants
        /\ rows[id] = row
    BY <2>4, <2>5, ServerParts DEF Entered
  <2> HIDE DEF rows
  <2>8. srv = [live |-> server.live, may |-> server.may, rows |-> rows, staff |-> server.staff,
               entries |-> server.entries]
    BY ServerParts, ServerFields
  <2> HIDE DEF srv
  <2>9. /\ ServerOK(reply.server) /\ AnswerShape(reply.answer) /\ reply.answer.status = "200"
        /\ reply.answer.data = data
        /\ reply.server.live = server.live /\ reply.server.rows = rows /\ reply.server.staff = server.staff
    BY <2>3, <2>7, <2>8, ServerParts, DoneIs
  <2>10. RowsAfter(r, reply.server, reply.answer)
    BY <2>7, <2>9 DEF RowsAfter, Writes
  <2>11. SaysTrue(r, reply.server, reply.answer)
    BY <2>6, <2>7, <2>9 DEF SaysTrue
  <2>12. QED
    BY <2>9, <2>10, <2>11 DEF AnsweredWith
<1>3. QED
  BY <1>1, <1>2

LEMMA HireIs ==
  ASSUME ServerOK(server), NEW r, r.what = "hire", NEW reply \in Hire(r.arg)
  PROVE  AnsweredWith(r, reply.server, reply.answer)
<1>1. CASE r.arg \in DOMAIN server.staff
  BY <1>1, RefusalIs DEF Hire
<1>2. CASE r.arg \notin DOMAIN server.staff
  <2> DEFINE staff == [p \in DOMAIN server.staff \cup {r.arg} |->
                         IF p = r.arg THEN [enabled |-> TRUE, manages |-> FALSE] ELSE server.staff[p]]
             srv == [server EXCEPT !.staff = staff]
  <2>1. reply \in Done(srv, 0)
    BY <1>2 DEF Hire
  <2>2. Self \in DOMAIN staff
    BY ServerParts
  <2> HIDE DEF staff
  <2>4. srv = [live |-> server.live, may |-> server.may, rows |-> server.rows, staff |-> staff,
               entries |-> server.entries]
    BY ServerParts, ServerFields
  <2> HIDE DEF srv
  <2>5. /\ ServerOK(reply.server) /\ AnswerShape(reply.answer) /\ reply.answer.status = "200"
        /\ reply.server.live = server.live /\ reply.server.rows = server.rows
    BY <2>1, <2>2, <2>4, ServerParts, DoneIs
  <2>6. RowsAfter(r, reply.server, reply.answer)
    BY <2>5 DEF RowsAfter, Writes, Entered
  <2>7. SaysTrue(r, reply.server, reply.answer)
    BY <2>5 DEF SaysTrue
  <2>8. QED
    BY <2>5, <2>6, <2>7 DEF AnsweredWith
<1>3. QED
  BY <1>1, <1>2

LEMMA SetColumnIs ==
  ASSUME ServerOK(server), NEW r, r.what = "toggle", NEW o, NEW column, NEW to,
         NEW reply \in SetColumn(o, column, to)
  PROVE  AnsweredWith(r, reply.server, reply.answer)
<1> DEFINE staff == [server.staff EXCEPT ![o][column] = to]
           live2 == server.live /\ ~(o = Self /\ column = "enabled" /\ ~to)
           srv == [server EXCEPT !.staff = staff, !.live = @ /\ ~(o = Self /\ column = "enabled" /\ ~to)]
<1>1. reply \in Refusal("409") \/ reply \in Refusal("404") \/ reply \in Done(srv, 0)
  BY DEF SetColumn
<1>2. CASE reply \in Refusal("409") \/ reply \in Refusal("404")
  BY <1>2, RefusalIs
<1>3. CASE reply \in Done(srv, 0)
  <2>1. DOMAIN staff = DOMAIN server.staff
    OBVIOUS
  <2>2. PICK x \in BOOLEAN : x = live2
    BY ServerParts
  <2>3. srv = [server EXCEPT !.staff = staff, !.live = x]
    BY <2>2
  <2>4. x => server.live
    BY <2>2
  <2> HIDE DEF staff, srv, live2
  <2>5. srv = [live |-> x, may |-> server.may, rows |-> server.rows, staff |-> staff, entries |-> server.entries]
    <3> DEFINE c == [server EXCEPT !.staff = staff]
    <3>1. c = [live |-> server.live, may |-> server.may, rows |-> server.rows, staff |-> staff,
               entries |-> server.entries]
      BY ServerParts, ServerFields
    <3>2. srv = [c EXCEPT !.live = x]
      BY <2>3, ServerParts
    <3> HIDE DEF c
    <3>3. QED
      BY <3>1, <3>2
  <2>6. /\ ServerOK(reply.server) /\ AnswerShape(reply.answer) /\ reply.answer.status = "200"
        /\ reply.server.live = x /\ reply.server.rows = server.rows
    BY <1>3, <2>1, <2>5, ServerParts, DoneIs
  <2>7. RowsAfter(r, reply.server, reply.answer)
    BY <2>6 DEF RowsAfter, Writes, Entered
  <2>8. SaysTrue(r, reply.server, reply.answer)
    BY <2>4, <2>6 DEF SaysTrue
  <2>9. QED
    BY <2>6, <2>7, <2>8 DEF AnsweredWith
<1>4. QED
  BY <1>1, <1>2, <1>3

LEMMA ChangePasswordIs ==
  ASSUME ServerOK(server), NEW r, r.what = "password", NEW reply \in ChangePassword
  PROVE  AnsweredWith(r, reply.server, reply.answer)
<1>1. CASE reply \in Refusal("401")
  BY <1>1, RefusalIs
<1>2. CASE reply \in Done(server, 0)
  <2>1. /\ ServerOK(reply.server) /\ AnswerShape(reply.answer) /\ reply.answer.status = "200"
        /\ reply.server.live = server.live /\ reply.server.rows = server.rows /\ reply.server.staff = server.staff
    BY <1>2, ServerParts, DoneIs
  <2>2. RowsAfter(r, reply.server, reply.answer)
    BY <2>1 DEF RowsAfter, Writes, Entered
  <2>3. SaysTrue(r, reply.server, reply.answer)
    BY <2>1 DEF SaysTrue
  <2>4. QED
    BY <2>1, <2>2, <2>3 DEF AnsweredWith
<1>3. QED
  BY <1>1, <1>2 DEF ChangePassword

LEMMA HandledIs ==
  ASSUME ServerOK(server), NEW r, RequestOK(r, Entered), NEW reply \in Handled(r)
  PROVE  AnsweredWith(r, reply.server, reply.answer)
<1>1. CASE r.what = "login"
  BY <1>1, LogInIs DEF Handled
<1>2. CASE r.what = "logout"
  <2>1. reply \in {Reply([server EXCEPT !.live = FALSE], "200", 0)}
    BY <1>2 DEF Handled
  <2>2. reply = Reply([server EXCEPT !.live = FALSE], "200", 0)
    BY <2>1
  <2>3. QED
    BY <1>2, <2>2, LogOutIs
<1>3. CASE r.what \notin {"login", "logout"} /\ ~server.live
  <2>1. reply \in Refusal("401")
    BY <1>3 DEF Handled
  <2>2. QED
    BY <1>3, <2>1, RefusalIs
<1>4. CASE r.what \notin {"login", "logout"} /\ server.live /\ ~Permitted(r)
  <2>1. reply \in Refusal("403")
    BY <1>4 DEF Handled
  <2>2. QED
    BY <1>4, <2>1, RefusalIs
<1>5. CASE r.what \notin {"login", "logout"} /\ server.live /\ Permitted(r)
  <2>1. reply \in CarriedOut(r)
    BY <1>5 DEF Handled
  <2>2. CASE r.what = "list"
    <3>1. reply \in {Reply(server, "200", Listing(server.rows))}
      BY <2>1, <2>2 DEF CarriedOut
    <3>2. QED
      BY <2>2, <3>1, DataIs
  <2>3. CASE r.what = "detail"
    <3> DEFINE data == [id |-> r.arg, row |-> server.rows[r.arg]]
    <3>1. reply \in {Reply(server, "200", data)}
      BY <2>1, <2>3 DEF CarriedOut
    <3>2. data.id = r.arg /\ data.row = server.rows[r.arg]
      OBVIOUS
    <3> HIDE DEF data
    <3>3. QED
      BY <2>3, <3>1, <3>2, DataIs
  <2>4. CASE r.what = "operators"
    <3>1. reply \in {Reply(server, "200", Directory(server.staff))}
      BY <2>1, <2>4 DEF CarriedOut
    <3>2. QED
      BY <2>4, <3>1, DataIs
  <2>5. CASE r.what = "audit"
    <3>1. reply \in {Reply(server, "200", AuditPage(r.arg))}
      BY <2>1, <2>5 DEF CarriedOut
    <3>2. AuditPage(r.arg) = [filter |-> r.arg, entries |-> server.entries]
      BY DEF AuditPage
    <3>3. QED
      BY <2>5, <3>1, <3>2, DataIs
  <2>6. CASE r.what = "create"
    <3>1. reply \in CreateTenant(r.arg)
      BY <2>1, <2>6 DEF CarriedOut
    <3>2. r.arg \in PanelTenants
      BY <2>6 DEF RequestOK
    <3>3. QED
      BY <2>6, <3>1, <3>2, CreateIs
  <2>7. CASE r.what = "save"
    <3>1. reply \in SaveTenant(r.arg.id, r.arg.field, r.arg.value)
      BY <2>1, <2>7 DEF CarriedOut
    <3>2. r.arg.id \in Entered /\ r.arg.field \in Fields \cup {"key"} /\ r.arg.value \in 0 .. MaxClicks
      BY <2>7 DEF RequestOK
    <3>3. QED
      BY <2>7, <3>1, <3>2, SaveIs
  <2>8. CASE r.what = "hire"
    <3>1. reply \in Hire(r.arg)
      BY <2>1, <2>8 DEF CarriedOut
    <3>2. QED
      BY <2>8, <3>1, HireIs
  <2>9. CASE r.what = "toggle"
    <3>1. reply \in SetColumn(r.arg.who, r.arg.column, r.arg.to)
      BY <2>1, <2>9 DEF CarriedOut
    <3>2. QED
      BY <2>9, <3>1, SetColumnIs
  <2>10. CASE r.what = "password"
    <3>1. reply \in ChangePassword
      BY <2>1, <2>10 DEF CarriedOut
    <3>2. QED
      BY <2>10, <3>1, ChangePasswordIs
  <2>11. r.what \in AskedFor
    BY DEF RequestOK
  <2>12. QED
    BY <1>5, <2>2, <2>3, <2>4, <2>5, <2>6, <2>7, <2>8, <2>9, <2>10, <2>11 DEF AskedFor, Writes
<1>6. QED
  BY <1>1, <1>2, <1>3, <1>4, <1>5

\* A request that has been given an answer.
LEMMA GivenIs ==
  ASSUME PanelInv, NEW w \in Wires, Flying(w), NEW q, asks' = [asks EXCEPT ![w] = q],
         q.what = asks[w].what, q.by = asks[w].by, q.arg = asks[w].arg
  PROVE  /\ IsAsks(asks') /\ HeardBy(q, shell)
         /\ \A x \in Flight(asks') : x = q \/ x \in Flight(asks)
         /\ ShellWaits(shell, Flight(asks')) /\ BodyWaits(ViewOf(shell), body, Flight(asks'))
         /\ Alone(asks) => Alone(asks') /\ Flight(asks') = {q}
<1>0. PICK r : r = asks[w]
  OBVIOUS
<1>1. RequestOK(r, Entered) /\ HeardBy(r, shell) /\ r \in Flight(asks)
      /\ r = [what |-> r.what, by |-> r.by, arg |-> r.arg, answer |-> r.answer]
  BY <1>0, AnswerIs
<1>3. q.what = r.what /\ q.by = r.by /\ q.arg = r.arg
  BY <1>0
<1>4. q # NoAsk
  BY <1>1, <1>3, NoAskIs DEF RequestOK
<1>5. asks' = [v \in Wires |-> IF v = w THEN q ELSE asks[v]]
  BY PanelIs DEF IsAsks
<1>6. IsAsks(asks') /\ \A v \in Wires : asks'[v] = IF v = w THEN q ELSE asks[v]
  BY <1>5 DEF IsAsks
<1>7. HeardBy(q, shell)
  BY <1>1, <1>3 DEF HeardBy
<1>8. /\ \A x \in Flight(asks') : x = q \/ x \in Flight(asks)
      /\ \A y \in Flight(asks) : y = r \/ y \in Flight(asks')
      /\ q \in Flight(asks')
  BY <1>0, <1>4, <1>6 DEF Flight
<1>9. \A what, by : AskedIn(Flight(asks), what, by) => AskedIn(Flight(asks'), what, by)
  BY <1>3, <1>8 DEF AskedIn
<1>10. \A f : Saving(Flight(asks), f) => Saving(Flight(asks'), f)
  BY <1>3, <1>8 DEF Saving
<1>11. ShellWaits(shell, Flight(asks'))
  BY <1>9, PanelIs DEF ShellWaits
<1>12. BodyWaits(ViewOf(shell), body, Flight(asks'))
  <2>1. BodyWaits(ViewOf(shell), body, Flight(asks))
    BY PanelIs
  <2>2. (\A y \in Flight(asks) : y.by # "section") => (\A x \in Flight(asks') : x.by # "section")
    BY <1>1, <1>3, <1>8
  <2>3. QED
    BY <1>9, <1>10, <2>1, <2>2 DEF BodyWaits
<1>13. ASSUME Alone(asks) PROVE Alone(asks') /\ Flight(asks') = {q}
  <2>1. \A v \in Wires : v = w \/ asks[v] = NoAsk
    BY <1>13 DEF Alone, Flying
  <2>2. QED
    BY <1>4, <1>6, <2>1 DEF Alone, Flight
<1>14. QED
  BY <1>6, <1>7, <1>8, <1>11, <1>12, <1>13

\* A request whose answer is a refusal, or carries nothing that is read, is as it was.
LEMMA RepliedIs ==
  ASSUME NEW r, NEW ids, RequestOK(r, ids), NEW a, a = [status |-> a.status, data |-> a.data], a.status \in Statuses,
         NEW q, q = [what |-> r.what, by |-> r.by, arg |-> r.arg, answer |-> a],
         a.status = "200" => r.what \notin {"list", "detail", "create", "save"}
  PROVE  RequestOK(q, ids)
<1>1. /\ q.what = r.what /\ q.by = r.by /\ q.arg = r.arg /\ q.answer = a
      /\ q = [what |-> q.what, by |-> q.by, arg |-> q.arg, answer |-> q.answer]
  OBVIOUS
<1>2. Ok(q) => q.what \notin {"list", "detail", "create", "save"}
  BY <1>1 DEF Ok
<1>3. q.answer = [status |-> q.answer.status, data |-> q.answer.data] /\ q.answer.status \in Statuses
  BY <1>1
<1>4. q.what \in AskedFor /\ q.by \in {"shell", "screen", "section", "nobody"}
  BY <1>1 DEF RequestOK
<1>5. CASE q.what = "create"
  BY <1>1, <1>2, <1>3, <1>4, <1>5 DEF RequestOK
<1>6. CASE q.what = "detail"
  BY <1>1, <1>2, <1>3, <1>4, <1>6 DEF RequestOK
<1>7. CASE q.what = "save"
  BY <1>1, <1>2, <1>3, <1>4, <1>7 DEF RequestOK
<1>8. CASE q.what = "list"
  BY <1>1, <1>2, <1>3, <1>4, <1>8 DEF RequestOK
<1>9. CASE q.what \in {"logout", "login", "operators", "audit"}
  BY <1>1, <1>2, <1>3, <1>4, <1>9 DEF RequestOK
<1>10. CASE q.what \in Writes \ {"create", "save"}
  BY <1>1, <1>2, <1>3, <1>4, <1>10 DEF RequestOK, Writes
<1>11. QED
  BY <1>4, <1>5, <1>6, <1>7, <1>8, <1>9, <1>10 DEF AskedFor, Writes

LEMMA LoseKeeps == ASSUME PanelInv, NEW w \in Wires, NEW st \in {"500", "lost"}, Lose(w, st) PROVE PanelInv'
<1>0. PICK a : a = [status |-> st, data |-> 0]
  OBVIOUS
<1>1. Flying(w) /\ asks' = [asks EXCEPT ![w].answer = a] /\ orderly' = FALSE
      /\ UNCHANGED <<shell, body, server, clicks>>
  BY <1>0 DEF Lose
<1>2. PICK r : r = asks[w]
  OBVIOUS
<1>3. PICK q : q = [r EXCEPT !.answer = a]
  OBVIOUS
<1>4. a = [status |-> a.status, data |-> a.data] /\ a.status = st /\ st \in Statuses /\ st # "200"
  BY <1>0 DEF Statuses
<1>14. RequestOK(r, Entered) /\ r = [what |-> r.what, by |-> r.by, arg |-> r.arg, answer |-> r.answer]
  BY <1>1, <1>2, AnswerIs
<1>15. q = [what |-> r.what, by |-> r.by, arg |-> r.arg, answer |-> a]
  BY <1>3, <1>14
<1>16. q.what = r.what /\ q.by = r.by /\ q.arg = r.arg /\ q.answer = a
  BY <1>15
<1>5. /\ IsAsks(asks') /\ HeardBy(q, shell)
      /\ \A x \in Flight(asks') : x = q \/ x \in Flight(asks)
      /\ ShellWaits(shell, Flight(asks')) /\ BodyWaits(ViewOf(shell), body, Flight(asks'))
      /\ Alone(asks) => Alone(asks') /\ Flight(asks') = {q}
  <2>1. asks' = [asks EXCEPT ![w] = q]
    BY <1>1, <1>2, <1>3
  <2>2. Flying(w) /\ q.what = asks[w].what /\ q.by = asks[w].by /\ q.arg = asks[w].arg
    BY <1>1, <1>2, <1>16
  <2>3. QED
    BY <2>1, <2>2, GivenIs
<1>6. RequestOK(q, Entered)
  BY <1>4, <1>14, <1>15, <1>16, RepliedIs
<1>7. Entered' = Entered
  BY <1>1 DEF Entered
<1>8. PanelShape'
  <2>1. \A x \in Flight(asks') : RequestOK(x, Entered') /\ HeardBy(x, shell')
    BY <1>1, <1>5, <1>6, <1>7, PanelIs DEF Ready
  <2>2. ServerOK(server') /\ ShellOK(shell', Entered') /\ BodyOK(ViewOf(shell'), body', Entered')
        /\ clicks' \in 0 .. MaxClicks
    BY <1>1, <1>7, PanelIs
  <2>3. QED
    BY <1>5, <2>1, <2>2 DEF PanelShape, IsAsks
<1>9. PanelWaits'
  BY <1>1, <1>5 DEF PanelWaits
<1>10. PanelQuiet'
  BY <1>1 DEF PanelQuiet
<1>11. orderly' \in BOOLEAN
  BY <1>1
<1>12. QED
  BY <1>8, <1>9, <1>10, <1>11 DEF PanelInv

\* Rows are added, none goes.
LEMMA MoreRows ==
  ASSUME NEW ids, NEW more, ids \subseteq more
  PROVE  /\ \A r : RequestOK(r, ids) => RequestOK(r, more)
         /\ \A s : ShellOK(s, ids) => ShellOK(s, more)
         /\ \A view, b : BodyOK(view, b, ids) => BodyOK(view, b, more)
<1>1. ASSUME NEW r, RequestOK(r, ids) PROVE RequestOK(r, more)
  <2>1. [id : ids, key : 0 .. MaxClicks] \subseteq [id : more, key : 0 .. MaxClicks]
    OBVIOUS
  <2>2. QED
    BY <1>1, <2>1 DEF RequestOK
<1>2. ASSUME NEW s, ShellOK(s, ids) PROVE ShellOK(s, more)
  BY <1>2 DEF ShellOK
<1>3. ASSUME NEW view, NEW b, BodyOK(view, b, ids) PROVE BodyOK(view, b, more)
  BY <1>3 DEF BodyOK, LoadedOK
<1>4. QED
  BY <1>1, <1>2, <1>3

LEMMA ListingIs ==
  ASSUME NEW srv, ServerOK(srv)
  PROVE  Listing(srv.rows) \subseteq [id : DOMAIN srv.rows, key : 0 .. MaxClicks]
<1>1. \A t \in DOMAIN srv.rows : srv.rows[t].key \in 0 .. MaxClicks
  BY DEF ServerOK, RowsOf
<1>2. QED
  BY <1>1 DEF Listing

LEMMA AnsweredIs ==
  ASSUME PanelInv, NEW r, RequestOK(r, Entered), NEW srv, NEW a, AnsweredWith(r, srv, a), NEW q,
         q = [what |-> r.what, by |-> r.by, arg |-> r.arg, answer |-> a],
         q.what = r.what /\ q.by = r.by /\ q.arg = r.arg /\ q.answer = a
  PROVE  RequestOK(q, DOMAIN srv.rows) /\ (Ok(q) <=> a.status = "200")
<1>1. RequestOK(r, DOMAIN srv.rows)
  BY MoreRows DEF AnsweredWith, RowsAfter
<1>2. a = [status |-> a.status, data |-> a.data] /\ a.status \in Statuses
  BY DEF AnsweredWith, AnswerShape, Statuses
<1>3. Ok(q) <=> a.status = "200"
  BY DEF Ok
<1>4. \A t \in DOMAIN srv.rows : srv.rows[t] \in RowsOf
  BY DEF AnsweredWith, ServerOK
<1>5. Listing(srv.rows) \subseteq [id : DOMAIN srv.rows, key : 0 .. MaxClicks]
  BY ListingIs DEF AnsweredWith
<1>6. SaysTrue(r, srv, a)
  BY DEF AnsweredWith
<1>7. CASE r.what = "list"
  BY <1>1, <1>2, <1>3, <1>5, <1>6, <1>7 DEF RequestOK, SaysTrue
<1>8. CASE r.what = "detail"
  BY <1>1, <1>2, <1>3, <1>4, <1>6, <1>8 DEF RequestOK, SaysTrue
<1>9. CASE r.what = "create"
  BY <1>1, <1>2, <1>3, <1>6, <1>9 DEF RequestOK, SaysTrue
<1>10. CASE r.what = "save"
  BY <1>1, <1>2, <1>3, <1>4, <1>6, <1>10 DEF RequestOK, SaysTrue
<1>11. CASE r.what \notin {"list", "detail", "create", "save"}
  BY <1>1, <1>2, <1>3, <1>11, RepliedIs
<1>12. QED
  BY <1>3, <1>7, <1>8, <1>9, <1>10, <1>11

\* What was told of what the process held is told of what it holds now, or is on its way.
LEMMA AnsweredIsTrue ==
  ASSUME PanelInv, NEW r, r.answer = Waiting, HeardBy(r, shell), TrueSoFar(shell, body, {r}, server), NEW srv, NEW a,
         AnsweredWith(r, srv, a), NEW q, q.what = r.what /\ q.by = r.by /\ q.arg = r.arg /\ q.answer = a
  PROVE  TrueSoFar(shell, body, {q}, srv)
<1>1. ~Ok(r) /\ (Ok(q) <=> a.status = "200")
  BY DEF Ok, Waiting
<1>2. TrueAnswer(r, shell, body, server)
  BY DEF TrueSoFar
<1>3. RowsAfter(r, srv, a) /\ SaysTrue(r, srv, a)
      /\ a.status \in {"200", "400", "401", "403", "404", "409"}
  BY DEF AnsweredWith, AnswerShape
<1>4. TrueAnswer(q, shell, body, srv)
  <2>1. q.answer.status \notin {"500", "lost"}
    BY <1>3
  <2>2. q.what = "list" => /\ Ok(q) => q.answer.data = Listing(srv.rows)
                           /\ q.answer.status \notin {"none", "200", "403"} => ~srv.live
    BY <1>1, <1>3 DEF SaysTrue
  <2>3. q.what = "logout" => ~srv.live
    BY <1>3 DEF SaysTrue
  <2>4. q.what = "detail" /\ Ok(q) => q.answer.data.row = srv.rows[q.arg]
    BY <1>1, <1>3 DEF SaysTrue
  <2>5. q.what = "save" => /\ q.by = "section" /\ shell.selected = q.arg.id
                           /\ Ok(q) => q.answer.data.row = srv.rows[q.arg.id]
    BY <1>1, <1>2, <1>3 DEF SaysTrue, TrueAnswer
  <2>6. q.what = "operators" /\ Ok(q) => q.answer.data = Directory(srv.staff)
    BY <1>1, <1>3 DEF SaysTrue
  <2>7. q.what = "audit" => /\ Ok(q) => q.answer.data = [filter |-> q.arg, entries |-> srv.entries]
                            /\ q.by = "screen" => q.arg = body.filter
    BY <1>1, <1>2, <1>3 DEF SaysTrue, TrueAnswer
  <2>8. (q.what \in {"hire", "toggle"} /\ ViewOf(shell) = "operators" => q.by = "screen")
        /\ (ViewOf(shell) = "audit" => q.what \notin Writes)
    BY <1>2 DEF TrueAnswer
  <2>9. QED
    BY <2>1, <2>2, <2>3, <2>4, <2>5, <2>6, <2>7, <2>8 DEF TrueAnswer
<1>5. LoginIsTrue(shell, {q}, srv)
  <2>1. ViewOf(shell) = "login" => ~server.live
    BY <1>1 DEF TrueSoFar, LoginIsTrue, Done200
  <2>2. QED
    BY <1>1, <1>3, <2>1 DEF LoginIsTrue, Done200, SaysTrue
<1>6. ListIsTrue(shell, {q}, srv)
  <2>1. shell.kind = "tenants" /\ shell.selected = NoTenant => shell.rows = Listing(server.rows)
    BY <1>1 DEF TrueSoFar, ListIsTrue, Done200
  <2>2. CASE srv.rows = server.rows
    BY <2>1, <2>2 DEF ListIsTrue
  <2>3. CASE a.status = "200" /\ r.what = "create"
    BY <1>1, <2>3 DEF ListIsTrue, Done200
  <2>4. CASE a.status = "200" /\ r.what = "save"
    <3>1. shell.selected # NoTenant
      <4>1. r.by = "section" /\ shell.selected = r.arg.id
        BY <1>2, <2>4 DEF TrueAnswer
      <4>2. ViewOf(shell) = "detail"
        BY <2>4, <4>1 DEF HeardBy
      <4>3. QED
        BY <4>2, PanelIs, ViewIs
    <3>2. QED
      BY <3>1 DEF ListIsTrue
  <2>5. QED
    BY <1>3, <2>2, <2>3, <2>4 DEF RowsAfter
<1>7. ScreenIsTrue(shell, body, {q}, srv)
  <2>1. ScreenIsTrue(shell, body, {r}, server)
    BY DEF TrueSoFar
  <2>2. ASSUME ViewOf(shell) = "detail", body.at = "loaded"
        PROVE  body.id = shell.selected /\ (body.row = srv.rows[body.id] \/ Done200({q}, "save"))
    <3>1. body.id = shell.selected /\ body.row = server.rows[body.id]
      BY <1>1, <2>1, <2>2 DEF ScreenIsTrue, Done200
    <3>2. body.id \in Entered
      BY <2>2, DetailIs DEF OnDetail, LoadedOK
    <3>3. CASE a.status = "200" /\ r.what = "save"
      BY <1>1, <3>1, <3>3 DEF Done200
    <3>4. CASE ~(a.status = "200" /\ r.what = "save")
      BY <1>3, <3>1, <3>2, <3>4 DEF RowsAfter
    <3>5. QED
      BY <3>3, <3>4
  <2>3. ASSUME ViewOf(shell) = "operators", body.at = "loaded"
        PROVE  body.rows = Directory(srv.staff) \/ Done200({q}, "hire") \/ Done200({q}, "toggle")
    <3>1. body.rows = Directory(server.staff)
      BY <1>1, <2>1, <2>3 DEF ScreenIsTrue, Done200
    <3>2. QED
      BY <1>1, <1>3, <3>1 DEF RowsAfter, Done200
  <2>4. ASSUME ViewOf(shell) = "audit", body.at = "loaded"
        PROVE  body.shown = [filter |-> body.filter, entries |-> srv.entries]
    <3>1. body.shown = [filter |-> body.filter, entries |-> server.entries]
      BY <2>1, <2>4 DEF ScreenIsTrue
    <3>2. r.what \notin Writes
      BY <1>2, <2>4 DEF TrueAnswer
    <3>3. QED
      BY <1>3, <3>1, <3>2 DEF RowsAfter
  <2>5. QED
    BY <2>2, <2>3, <2>4 DEF ScreenIsTrue
<1>8. QED
  BY <1>4, <1>5, <1>6, <1>7 DEF TrueSoFar

LEMMA ServeKeeps == ASSUME PanelInv, NEW w \in Wires, Serve(w) PROVE PanelInv'
<1>1. PICK r : r = asks[w]
  OBVIOUS
<1>2. PICK reply \in Handled(r) : server' = reply.server /\ asks' = [asks EXCEPT ![w].answer = reply.answer]
  BY <1>1 DEF Serve
<1>3. Flying(w) /\ r.answer = Waiting /\ UNCHANGED <<shell, body, orderly, clicks>>
  BY <1>1 DEF Serve
<1>4. PICK srv : srv = reply.server
  OBVIOUS
<1>5. PICK a : a = reply.answer
  OBVIOUS
<1>6. PICK q : q = [r EXCEPT !.answer = a]
  OBVIOUS
<1>7. /\ RequestOK(r, Entered) /\ HeardBy(r, shell)
      /\ r = [what |-> r.what, by |-> r.by, arg |-> r.arg, answer |-> r.answer]
  BY <1>1, <1>3, AnswerIs
<1>8. AnsweredWith(r, srv, a)
  BY <1>4, <1>5, <1>7, PanelIs, HandledIs
<1>9. q = [what |-> r.what, by |-> r.by, arg |-> r.arg, answer |-> a]
  BY <1>6, <1>7
<1>10. q.what = r.what /\ q.by = r.by /\ q.arg = r.arg /\ q.answer = a
  BY <1>9
<1>11. /\ IsAsks(asks') /\ HeardBy(q, shell)
       /\ \A x \in Flight(asks') : x = q \/ x \in Flight(asks)
       /\ ShellWaits(shell, Flight(asks')) /\ BodyWaits(ViewOf(shell), body, Flight(asks'))
       /\ Alone(asks) => Alone(asks') /\ Flight(asks') = {q}
  <2>1. asks' = [asks EXCEPT ![w] = q]
    BY <1>1, <1>2, <1>5, <1>6
  <2>2. q.what = asks[w].what /\ q.by = asks[w].by /\ q.arg = asks[w].arg
    BY <1>1, <1>10
  <2>3. QED
    BY <1>3, <2>1, <2>2, GivenIs
<1>12. PICK more : more = DOMAIN srv.rows
  OBVIOUS
<1>13. RequestOK(q, more)
  BY <1>7, <1>8, <1>9, <1>10, <1>12, AnsweredIs
<1>14. Entered' = more /\ Entered \subseteq more
  BY <1>2, <1>4, <1>8, <1>12 DEF Entered, AnsweredWith, RowsAfter
<1>15. PanelShape'
  <2>1. \A x \in Flight(asks) : RequestOK(x, more) /\ HeardBy(x, shell)
    BY <1>14, PanelIs, MoreRows DEF Ready
  <2>2. \A x \in Flight(asks') : RequestOK(x, Entered') /\ HeardBy(x, shell')
    BY <1>3, <1>11, <1>13, <1>14, <2>1
  <2>3. ServerOK(server')
    BY <1>2, <1>4, <1>8 DEF AnsweredWith
  <2>4. ShellOK(shell, more) /\ BodyOK(ViewOf(shell), body, more)
    BY <1>14, PanelIs, MoreRows
  <2>5. ShellOK(shell', Entered') /\ BodyOK(ViewOf(shell'), body', Entered') /\ clicks' \in 0 .. MaxClicks
    BY <1>3, <1>14, <2>4, PanelIs
  <2>6. QED
    BY <1>11, <2>2, <2>3, <2>5 DEF PanelShape, IsAsks
<1>16. PanelWaits'
  BY <1>3, <1>11 DEF PanelWaits
<1>17. PanelQuiet'
  <2>1. SUFFICES ASSUME orderly PROVE Alone(asks') /\ TrueSoFar(shell, body, Flight(asks'), server')
    BY <1>3 DEF PanelQuiet
  <2>2. Alone(asks') /\ Flight(asks') = {q}
    BY <1>11, <2>1, PanelIs
  <2>3. TrueSoFar(shell, body, {r}, server)
    BY <1>1, <1>3, <2>1, AnswerIs
  <2>4. TrueSoFar(shell, body, {q}, srv)
    BY <1>3, <1>7, <1>8, <1>10, <2>3, AnsweredIsTrue
  <2>5. QED
    BY <1>2, <1>4, <2>2, <2>4
<1>18. orderly' \in BOOLEAN
  BY <1>3, PanelIs
<1>19. QED
  BY <1>15, <1>16, <1>17, <1>18 DEF PanelInv

\* The session has ended: nothing that was told is less true.
LEMMA SessionEndsKeeps == PanelInv /\ SessionEnds => PanelInv'
<1> SUFFICES ASSUME PanelInv, SessionEnds PROVE PanelInv'
  OBVIOUS
<1>1. server' = [server EXCEPT !.live = FALSE] /\ UNCHANGED <<shell, body, asks, orderly, clicks>>
  BY DEF SessionEnds
<1>2. /\ ServerOK(server') /\ server'.live = FALSE /\ server'.rows = server.rows
      /\ server'.staff = server.staff /\ server'.entries = server.entries
  BY <1>1, PanelIs DEF ServerOK
<1>3. Entered' = Entered
  BY <1>2 DEF Entered
<1>4. PanelShape'
  BY <1>1, <1>2, <1>3 DEF PanelInv, PanelShape
<1>5. PanelWaits'
  BY <1>1 DEF PanelInv, PanelWaits
<1>6. PanelQuiet'
  <2>1. SUFFICES ASSUME orderly PROVE Alone(asks) /\ TrueSoFar(shell, body, Flight(asks), server')
    BY <1>1 DEF PanelQuiet
  <2>2. Alone(asks) /\ TrueSoFar(shell, body, Flight(asks), server)
    BY <2>1, PanelIs
  <2>3. ASSUME NEW r, TrueAnswer(r, shell, body, server) PROVE TrueAnswer(r, shell, body, server')
    BY <1>2, <2>3 DEF TrueAnswer
  <2>4. LoginIsTrue(shell, Flight(asks), server')
    BY <1>2 DEF LoginIsTrue
  <2>5. ListIsTrue(shell, Flight(asks), server')
    BY <1>2, <2>2 DEF TrueSoFar, ListIsTrue
  <2>6. ScreenIsTrue(shell, body, Flight(asks), server')
    BY <1>2, <2>2 DEF TrueSoFar, ScreenIsTrue
  <2>7. QED
    BY <2>2, <2>3, <2>4, <2>5, <2>6 DEF TrueSoFar
<1>7. QED
  BY <1>1, <1>4, <1>5, <1>6 DEF PanelInv

LEMMA PanelStepInv == PanelInv /\ [PanelNext]_panelVars => PanelInv'
<1>1. PanelInv /\ UNCHANGED panelVars => PanelInv'
  BY DEF PanelInv, PanelShape, PanelWaits, PanelQuiet, panelVars, Entered
<1>2. QED
  BY <1>1, PressedKeeps, SessionEndsKeeps, ServeKeeps, AnswerArrivesKeeps, LoseKeeps DEF PanelNext

LEMMA PanelInitInv == PanelInit => PanelInv
<1> SUFFICES ASSUME PanelInit PROVE PanelInv
  OBVIOUS
<1>1. /\ shell = [kind |-> "loading", rows |-> {}, nav |-> "tenants", creating |-> FALSE, selected |-> NoTenant]
      /\ body = Fresh("loading") /\ orderly = TRUE /\ clicks = MaxClicks
  BY DEF PanelInit
<1>2. PICK may \in Grants, manages \in BOOLEAN, live \in BOOLEAN :
        server = [live |-> live, may |-> may, rows |-> [t \in {FirstTenant} |-> NewRow],
                  staff |-> [o \in {Self} |-> [enabled |-> TRUE, manages |-> manages]], entries |-> 0]
  BY DEF PanelInit
<1>3. PICK A : A = [w \in Wires |-> NoAsk]
  OBVIOUS
<1>4. asks = Sent(A, ListRequest)
  BY <1>3 DEF PanelInit
<1>5. Room(A) /\ IsAsks(A) /\ Flight(A) = {}
  BY <1>3, PanelAssumption DEF Room, IsAsks, Flight
<1>6. PICK r : r = ListRequest
  OBVIOUS
<1>7. /\ r = [what |-> "list", by |-> "shell", arg |-> 0, answer |-> Waiting]
      /\ r.what = "list" /\ r.by = "shell" /\ r.answer = Waiting
  BY <1>6 DEF ListRequest, Request
<1>8. RequestOK(r, Entered) /\ HeardBy(r, shell) /\ TrueAnswer(r, shell, body, server) /\ r # NoAsk
  <2>1. ViewOf(shell) = "loading"
    BY <1>1 DEF ViewOf
  <2>2. ~Ok(r) /\ Waiting.status = "none"
    BY <1>7, NoAskIs DEF Ok
  <2>3. RequestOK(r, Entered)
    BY <1>7, <2>2 DEF RequestOK, AskedFor
  <2>4. HeardBy(r, shell)
    BY <1>7 DEF HeardBy
  <2>5. TrueAnswer(r, shell, body, server)
    BY <1>7, <2>1, <2>2 DEF TrueAnswer, Writes
  <2>6. QED
    BY <1>7, <2>3, <2>4, <2>5, NoAskIs
<1>9. IsAsks(asks) /\ Flight(asks) = {r} /\ Alone(asks)
  BY <1>3, <1>4, <1>5, <1>6, <1>8, SentIs
<1>10. ServerOK(server) /\ Entered = {FirstTenant}
  <2>1. PICK rows : rows = [t \in {FirstTenant} |-> NewRow]
    OBVIOUS
  <2>2. PICK staff : staff = [o \in {Self} |-> [enabled |-> TRUE, manages |-> manages]]
    OBVIOUS
  <2>3. DOMAIN rows = {FirstTenant} /\ rows \in [DOMAIN rows -> RowsOf] /\ Self \in DOMAIN staff
    <3>1. NewRow \in RowsOf
      BY PanelAssumption DEF NewRow, RowsOf
    <3>2. QED
      BY <2>1, <2>2, <3>1
  <2>4. server = [live |-> live, may |-> may, rows |-> rows, staff |-> staff, entries |-> 0]
    BY <1>2, <2>1, <2>2
  <2>5. FirstTenant \in PanelTenants
    BY PanelAssumption
  <2>6. ServerOK(server) /\ server.rows = rows
    BY <2>3, <2>4, <2>5, ServerOf
  <2>7. QED
    BY <2>3, <2>6 DEF Entered
<1>11. ShellOK(shell, Entered)
  BY <1>1 DEF ShellOK
<1>12. ViewOf(shell) = "loading" /\ body = [at |-> "none"]
  BY <1>1 DEF ViewOf, Fresh
<1>13. BodyOK(ViewOf(shell), body, Entered)
  BY <1>12 DEF BodyOK
<1>14. clicks \in 0 .. MaxClicks
  BY <1>1, PanelAssumption
<1>15. PanelShape
  BY <1>8, <1>9, <1>10, <1>11, <1>13, <1>14 DEF PanelShape, IsAsks
<1>16. PanelWaits
  BY <1>7, <1>9, <1>12 DEF PanelWaits, ShellWaits, BodyWaits, AskedIn
<1>17. PanelQuiet
  <2>1. LoginIsTrue(shell, Flight(asks), server) /\ ScreenIsTrue(shell, body, Flight(asks), server)
    BY <1>12 DEF LoginIsTrue, ScreenIsTrue
  <2>2. ListIsTrue(shell, Flight(asks), server)
    BY <1>1 DEF ListIsTrue
  <2>3. QED
    BY <1>8, <1>9, <2>1, <2>2 DEF PanelQuiet, TrueSoFar
<1>18. QED
  BY <1>1, <1>15, <1>16, <1>17 DEF PanelInv

\* What a request on its way is, is a wire that carries it.
LEMMA CarriedBy ==
  ASSUME NEW what, NEW by, AskedIn(Flight(asks), what, by)
  PROVE  \E w \in Wires : Flying(w) /\ asks[w].what = what /\ asks[w].by = by
  BY DEF AskedIn, Flight, Flying

LEMMA PanelInvSays == PanelInv => PanelTypeOK /\ PanelTellsTheTruth
<1> SUFFICES ASSUME PanelInv PROVE PanelTypeOK /\ PanelTellsTheTruth
  OBVIOUS
<1>1. \A w \in Wires : Flying(w) => asks[w] \in Flight(asks) /\ RequestOK(asks[w], Entered) /\ HeardBy(asks[w], shell)
  BY PanelIs DEF Ready, Flight, Flying
<1>2. PanelTypeOK
  <2>1. /\ shell.kind \in {"loading", "login", "tenants", "missing-permission", "error"}
        /\ shell.nav \in {"tenants", "operators", "audit", "account"}
        /\ shell.selected \in Entered \cup {NoTenant}
    BY PanelIs DEF ShellOK
  <2>2. DOMAIN server.rows \subseteq PanelTenants /\ Self \in DOMAIN server.staff
    BY PanelIs DEF ServerOK
  <2>3. ViewOf(shell) = "detail" /\ body.at = "loaded" => body.id \in Entered /\ body.row \in RowsOf
    BY DetailIs DEF OnDetail, LoadedOK
  <2>4. \A w \in Wires : Flying(w) => asks[w].by \in {"shell", "screen", "section", "nobody"}
    BY <1>1 DEF RequestOK
  <2>5. QED
    BY <2>1, <2>2, <2>3, <2>4 DEF PanelTypeOK, Entered, RowsOf
<1>3. EveryWaitIsAsked
  <2>1. shell.kind = "loading" => \E w \in Wires : Flying(w) /\ asks[w].what = "list" /\ asks[w].by = "shell"
    BY PanelIs, CarriedBy DEF ShellWaits
  <2>2. ASSUME body.at = "loading"
        PROVE  \E w \in Wires : /\ Flying(w) /\ asks[w].what = ViewOf(shell) /\ asks[w].by = "screen"
                                /\ ViewOf(shell) = "detail" => asks[w].arg = shell.selected
    <3>1. PICK w \in Wires : Flying(w) /\ asks[w].what = ViewOf(shell) /\ asks[w].by = "screen"
      BY <2>2, PanelIs, CarriedBy DEF BodyWaits
    <3>2. ViewOf(shell) = "detail" => asks[w].arg = shell.selected
      BY <1>1, <3>1 DEF HeardBy
    <3>3. QED
      BY <3>1, <3>2
  <2>3. ASSUME body.at = "busy"
        PROVE  \E w \in Wires : Flying(w) /\ asks[w].what \in {"login", "create", "password"} /\ asks[w].by = "screen"
    <3>1. PICK what \in {"login", "create", "password"} : AskedIn(Flight(asks), what, "screen")
      BY <2>3, PanelIs DEF BodyWaits
    <3>2. QED
      BY <3>1, CarriedBy
  <2>4. ViewOf(shell) = "operators" /\ body.form = "busy" =>
          \E w \in Wires : Flying(w) /\ asks[w].what = "hire" /\ asks[w].by = "screen"
    BY PanelIs, CarriedBy DEF BodyWaits
  <2>5. ASSUME NEW f, Saving(Flight(asks), f)
        PROVE  \E w \in Wires : Flying(w) /\ asks[w].what = "save" /\ asks[w].by = "section" /\ asks[w].arg.field = f
    BY <2>5 DEF Saving, Flight, Flying
  <2>6. OnDetail => /\ \A f \in Fields : body.saves[f] = "saving" => Saving(Flight(asks), f)
                    /\ body.rotate = "rotating" => Saving(Flight(asks), "key")
    BY PanelIs DEF BodyWaits, OnDetail
  <2>7. QED
    BY <2>1, <2>2, <2>3, <2>4, <2>5, <2>6 DEF EveryWaitIsAsked
<1>4. QuietPanelIsTrue
  <2>1. SUFFICES ASSUME \A w \in Wires : ~Flying(w), orderly
                 PROVE  /\ ViewOf(shell) = "login" => ~server.live
                        /\ ViewOf(shell) = "list" => shell.rows = Listing(server.rows)
                        /\ OnDetail => body.id = shell.selected /\ body.row = server.rows[body.id]
                        /\ OnOperators => body.rows = Directory(server.staff)
                        /\ ViewOf(shell) = "audit" /\ body.at = "loaded" => body.shown = AuditPage(body.filter)
    BY DEF QuietPanelIsTrue, OnDetail, OnOperators
  <2>2. Flight(asks) = {}
    BY <2>1 DEF Flight, Flying
  <2>3. LoginIsTrue(shell, {}, server) /\ ListIsTrue(shell, {}, server) /\ ScreenIsTrue(shell, body, {}, server)
    BY <2>1, <2>2, PanelIs DEF TrueSoFar
  <2>4. ViewOf(shell) = "list" => shell.kind = "tenants" /\ shell.selected = NoTenant
    BY PanelIs, ViewIs
  <2>5. QED
    BY <2>3, <2>4 DEF LoginIsTrue, ListIsTrue, ScreenIsTrue, Done200, OnDetail, OnOperators, AuditPage
<1>5. QED
  BY <1>2, <1>3, <1>4 DEF PanelTellsTheTruth

-----------------------------------------------------------------------------
(* The screens together.                                                     *)

\* A step of one screen leaves the others.
LEMMA EachByItself ==
  [ScreensNext]_screensVars =>
    /\ scene' = scene
    /\ [WidgetNext]_widgetVars /\ [TableNext]_screenVars /\ [ETableNext]_eScreenVars
    /\ [GTableNext]_gScreenVars /\ [MTableNext]_mScreenVars /\ [PanelNext]_panelVars
<1> SUFFICES ASSUME [ScreensNext]_screensVars
             PROVE  /\ scene' = scene
                    /\ [WidgetNext]_widgetVars /\ [TableNext]_screenVars /\ [ETableNext]_eScreenVars
                    /\ [GTableNext]_gScreenVars /\ [MTableNext]_mScreenVars /\ [PanelNext]_panelVars
  OBVIOUS
<1>1. CASE UNCHANGED screensVars
  BY <1>1 DEF screensVars
<1>2. CASE ThePage
  BY <1>2 DEF ThePage
<1>3. CASE TheTrucoTable
  BY <1>3 DEF TheTrucoTable
<1>4. CASE TheEscobaTable
  BY <1>4 DEF TheEscobaTable
<1>5. CASE TheGeneralaTable
  BY <1>5 DEF TheGeneralaTable
<1>6. CASE TheMahjongTable
  BY <1>6 DEF TheMahjongTable
<1>7. CASE ThePanel
  BY <1>7 DEF ThePanel
<1>8. QED
  BY <1>1, <1>2, <1>3, <1>4, <1>5, <1>6, <1>7 DEF ScreensNext

\* The tables, the panel and the shape of the page.
ScreensInv ==
  /\ scene \in Scenes
  /\ WidgetShape /\ TTableInv /\ ETableInv /\ GTableInv /\ MTableInv /\ PanelInv

\* Together they go from one state to the next, whatever is on screen.
THEOREM ScreensStayOK == ScreensSpec => []ScreensInv
<1>1. ScreensInit => ScreensInv
  BY WidgetShapeInit, TTableInitInv, ETableInitInv, GTableInitInv, MTableInitInv, PanelInitInv
     DEF ScreensInit, ScreensInv
<1>2. ScreensInv /\ [ScreensNext]_screensVars => ScreensInv'
  BY EachByItself, WidgetShapeStep, TTableStepInv, ETableStepInv, GTableStepInv, MTableStepInv, PanelStepInv
     DEF ScreensInv
<1>3. QED
  BY <1>1, <1>2, PTL DEF ScreensSpec

\* Every screen holds what it may hold: the page its games and attempts, a table the
\* cards, dice and tiles it is shown, the panel the rows and requests there are
\* (main.ts, the four tables, AppShell.tsx).
THEOREM ScreensWellTyped == ScreensSpec => []ScreensTypeOK
<1>1. ScreensInv => ScreensTypeOK
  BY WidgetShapeSays, TTableInvSays, ETableInvSays, GTableInvSays, MTableInvSays, PanelInvSays
     DEF ScreensInv, ScreensTypeOK
<1>2. QED
  BY <1>1, ScreensStayOK, PTL

\* No mark of a player outlives the view it was made on, no question of a partner the
\* room has closed stays up, and every notice has the timer that takes it away, under
\* any views a room may send and whichever of them are skipped (table.ts, the tables of
\* escoba, generala and solitaire).
THEOREM NothingStale == ScreensSpec => []NothingStaleOnTheTable
<1>1. ScreensInv => NothingStaleOnTheTable
  BY TTableInvSays, ETableInvSays, GTableInvSays, MTableInvSays
     DEF ScreensInv, NothingStaleOnTheTable, MarksAreOfThisView
<1>2. QED
  BY <1>1, ScreensStayOK, PTL

\* What a table says it says once, and no call of the match nor any move a bot made in
\* the player's place goes unsaid (table.ts, score-region.ts, autoplay notices).
THEOREM TellsOnce == ScreensSpec => []ToldOnce
<1>1. ScreensInv => ToldOnce
  BY TTableInvSays, ETableInvSays, GTableInvSays, MTableInvSays DEF ScreensInv, ToldOnce, SaidOnce
<1>2. QED
  BY <1>1, ScreensStayOK, PTL

\* Whatever the panel says it is waiting for is on its way; used at one request at a
\* time, with none lost, what it shows at rest is what the process holds, for any
\* number of tenants, operators, fields and requests under way (AppShell.tsx,
\* TenantDetailScreen.tsx, OperatorsScreen.tsx, AuditViewerScreen.tsx, index.ts).
THEOREM PanelIsTruthful == ScreensSpec => []PanelTellsTheTruth
<1>1. ScreensInv => PanelTellsTheTruth
  BY PanelInvSays DEF ScreensInv
<1>2. QED
  BY <1>1, ScreensStayOK, PTL

\* The page shows one thing and the right one, and what it stores for a reload is that
\* match or none, embedded with any catalog but those whose only family has several
\* modes: of those, screens_lobby shows the lobby come back over a match (main.ts,
\* join-flow.ts, lobby-screen.ts).
THEOREM OneThingInSight ==
  ASSUME \A c \in Catalogs : NotOneFamilyOfModes(c)
  PROVE  ScreensSpec => []OneThingOnThePage
<1>1. ScreensInit => WidgetInv
  BY WidgetInitInv DEF ScreensInit
<1>2. WidgetInv /\ [ScreensNext]_screensVars => WidgetInv'
  BY EachByItself, WidgetStepInv
<1>3. WidgetInv => OneThingOnThePage
  BY WidgetInvSays DEF OneThingOnThePage
<1>4. QED
  BY <1>1, <1>2, <1>3, PTL DEF ScreensSpec
=================================================================================
