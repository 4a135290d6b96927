------------------------------- MODULE EscobaTable -------------------------------
(***************************************************************************)
(* The escoba table on one seat's screen: cards of the table are marked    *)
(* and then a card of the hand is played with them                         *)
(* (escoba-ui/src/mark-then-play.ts), and the renderer that also says how  *)
(* a hand was scored and that the match is over (game-ui-registry.ts,      *)
(* createEscobaRenderer).  The match is the one of Escoba.                 *)
(***************************************************************************)
EXTENDS Escoba, GameTable

VARIABLES
  marked,   \* marked: the cards of the table set aside, which outlive a painting
  esent,    \* the player's moves on their way: a card and what it is to take
  scored    \* previousHandDecided and matchOverShown; the text of breakdownAnnouncer;
            \* how often this hand's was put there, and how often the overlay took focus

eTableVars == <<marked, esent, scored>>
eScreenVars == <<escobaVars, eTableVars>>

NoScore == [decided |-> FALSE, over |-> FALSE, text |-> "", said |-> 0, focused |-> 0]

\* markableCardIds
Markable == UNION { m[2] : m \in Offered(Me) }

StillMarkable(M, now, at) == M \cap now \cap at

\* previousHandDecided: the scoring is put in the region when the hand is decided,
\* and taken out of it when a hand is not
Tracks(s, now) ==
  IF now THEN [s EXCEPT !.decided = TRUE]
  ELSE [s EXCEPT !.decided = FALSE, !.text = "", !.said = 0]

Scores(s, now, over) ==
  LET told == IF now /\ ~s.decided THEN [s EXCEPT !.text = "scoring", !.said = @ + 1] ELSE s
  IN  [Tracks(told, now) EXCEPT
         !.over = over, !.focused = @ + (IF over /\ ~s.over THEN 1 ELSE 0)]

\* What painting a view does.
EPaint ==
  /\ marked' = StillMarkable(marked, Markable', table')
  /\ scored' = Scores(scored, ephase' = "decided", EscobaOver')

-----------------------------------------------------------------------------
\* onToggle
Toggle(c) ==
  /\ c \in Markable \cap table
  /\ marked' = IF c \in marked THEN marked \ {c} ELSE marked \cup {c}
  /\ UNCHANGED <<escobaVars, esent, scored>>

\* A card of the hand that the marks make a move of; they are gone before the answer.
PressCard(c) ==
  /\ MayPress(esent) /\ <<c, marked>> \in Offered(Me)
  /\ esent' = Append(esent, <<c, marked>>)
  /\ marked' = {}
  /\ UNCHANGED <<escobaVars, scored>>

\* The next of the player's moves gets to the room: played, or action-rejected.
EArrives ==
  /\ esent # <<>>
  /\ esent' = Tail(esent)
  /\ \/ Play(Me, Head(esent)) /\ EPaint
     \/ /\ Head(esent) \notin Offered(Me)
        /\ UNCHANGED <<escobaVars, marked, scored>>

\* Another seat plays, or a bot for this one when its clock runs out.
ESeatPlays ==
  /\ \E s \in ESeats : \E m \in Choosable(s) : Play(s, m)
  /\ UNCHANGED esent
  /\ EPaint

EDeals ==
  /\ \E d \in etable.decks : EscobaStartHand(d)
  /\ UNCHANGED esent
  /\ EPaint

\* Somebody comes back to the match: everyone is sent the same view again.
EViewAgain ==
  /\ UNCHANGED <<escobaVars, esent>>
  /\ EPaint

ETableInit == EscobaInit /\ marked = {} /\ esent = <<>> /\ scored = NoScore

ETableNext ==
  \/ \E c \in table : Toggle(c)
  \/ \E c \in ehands[Me] : PressCard(c)
  \/ EArrives \/ ESeatPlays \/ EDeals \/ EViewAgain

ETableSpec == ETableInit /\ [][ETableNext]_eScreenVars

-----------------------------------------------------------------------------
(* Properties. *)

ETableTypeOK ==
  /\ marked \subseteq ECards
  /\ esent \in Seq(ECards \X SUBSET ECards)
  /\ scored.decided \in BOOLEAN /\ scored.over \in BOOLEAN
  /\ scored.text \in {"", "scoring"} /\ {scored.said, scored.focused} \subseteq Nat

\* What is marked can still be taken: the marks are of cards on the table that some
\* card of this hand takes now, whoever played since, and on nobody else's turn
\* (mark-then-play.ts:96-98).
MarksAreTakeable == marked \subseteq Markable \cap table

\* How a hand was scored is said once, it stays there until the next hand is dealt,
\* and the end of the match takes the focus once, however often the same view comes
\* (game-ui-registry.ts, previousHandDecided and matchOverShown).
HandToldOnce ==
  /\ scored.said = IF ephase = "decided" THEN 1 ELSE 0
  /\ scored.text = IF ephase = "decided" THEN "scoring" ELSE ""
  /\ scored.focused = IF EscobaOver THEN 1 ELSE 0
=============================================================================
