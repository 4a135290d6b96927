------------------------------ MODULE GeneralaTable ------------------------------
(***************************************************************************)
(* The generala board on one seat's screen: the tray of dice and its holds *)
(* (generala-ui/src/tray.ts), the voice that says what happened and finds  *)
(* out who wrote a box (announcer.ts), the notice of what the bot played   *)
(* for an absent player (autoplay-notice.ts), and the renderer that holds  *)
(* them together (game-ui-registry.ts, createGeneralaRenderer).  The match *)
(* is the one of Generala.  Dice are held by place and counted here by     *)
(* face, as in the match: every throw fills places that were empty, so any *)
(* move changes what some place shows.                                     *)
(***************************************************************************)
EXTENDS Generala, GameTable

VARIABLES
  held,       \* held: the dice set aside on the screen, as a tally
  gsent,      \* the player's moves on their way: a hold's tally, or a box
  claimed,    \* claimed: the box last pressed, 0 before the first
  autoplayed, \* autoplayed: the box of the notice on screen, 0 when there is none
  byBot,      \* the box the bot wrote for this seat since its player's last press
  gclock      \* this throw's deadline: whether announced and warned hold it, and how
              \* often each was said

gTableVars == <<held, gsent, claimed, autoplayed, byBot, gclock>>
gScreenVars == <<generalaVars, gTableVars>>

Unheard == [announced |-> FALSE, warned |-> FALSE, said |-> 0, warnings |-> 0]

\* holdsIn, matchingHold: the throw the dice set aside stand for, if it is one
Throwable == held \in OfferedKeeps(Me)

\* tray render: a selection is about the faces it was made on
Marks(changed) == IF changed THEN NoDice ELSE held

\* turn-clock.ts render: the start of a deadline is said to the seat on turn
SayStart(c) == IF c.announced THEN c ELSE [c EXCEPT !.announced = TRUE, !.said = @ + 1]

\* autoplayed = announce(view) ?? autoplayed
Stands(box) == IF box = 0 THEN autoplayed ELSE box

\* What painting a view does, when box is what it shows newly written on my card (0
\* if nothing), and fresh says that the deadline in it is a new one.
GPaint(changed, box, fresh) ==
  /\ held' = Marks(changed)
  /\ autoplayed' = Stands(IF box # claimed THEN box ELSE 0)
  /\ LET c == IF fresh THEN Unheard ELSE gclock
     IN  gclock' = IF OnTurn(Me)' THEN SayStart(c) ELSE c
  /\ UNCHANGED claimed

-----------------------------------------------------------------------------
(* The player. *)

\* toggle: a die goes into the hold or out of it
Mark(f) ==
  /\ OfferedKeeps(Me) # {}
  /\ \E n \in {held[f] - 1, held[f] + 1} \cap 0 .. dice[f] : held' = [held EXCEPT ![f] = n]
  /\ UNCHANGED <<generalaVars, gsent, claimed, autoplayed, byBot, gclock>>

\* throwThem: the marks are gone before the answer; the button stays
PressRoll ==
  /\ MayPress(gsent) /\ Throwable
  /\ gsent' = Append(gsent, <<"hold", held>>)
  /\ held' = NoDice
  /\ autoplayed' = 0 /\ byBot' = 0
  /\ UNCHANGED <<generalaVars, claimed, gclock>>

\* the press on a box: claim, readIt, dispatch
PressBox(b) ==
  /\ MayPress(gsent) /\ b \in OfferedBoxes(Me)
  /\ gsent' = Append(gsent, <<"score", b>>)
  /\ claimed' = b
  /\ autoplayed' = 0 /\ byBot' = 0
  /\ UNCHANGED <<generalaVars, held, gclock>>

-----------------------------------------------------------------------------
(* The room. *)

\* The next of the player's moves gets there.
GArrives ==
  /\ gsent # <<>>
  /\ gsent' = Tail(gsent)
  /\ LET what == Head(gsent)[1]  which == Head(gsent)[2]
     IN  \/ /\ what = "hold" /\ Hold(Me, which)
            /\ GPaint(TRUE, 0, TRUE) /\ UNCHANGED byBot
         \/ /\ what = "score" /\ Score(Me, which)
            /\ GPaint(TRUE, which, TRUE) /\ byBot' = 0
         \/ \* it is not offered any more: action-rejected
            /\ IF what = "hold" THEN which \notin OfferedKeeps(Me) ELSE which \notin OfferedBoxes(Me)
            /\ UNCHANGED <<generalaVars, held, claimed, autoplayed, byBot, gclock>>

\* The clock of the seat runs out, and a bot plays for it.
GExpires ==
  /\ \/ \E k \in ChosenKeeps(Me) : Hold(Me, k) /\ GPaint(TRUE, 0, TRUE) /\ UNCHANGED byBot
     \/ \E b \in ChosenBoxes(Me) : Score(Me, b) /\ GPaint(TRUE, b, TRUE) /\ byBot' = b
  /\ UNCHANGED gsent

GRolls ==
  /\ \E m \in Throws(5 - Size(dice)) : RollDice(m)
  /\ GPaint(TRUE, 0, TRUE)
  /\ UNCHANGED <<gsent, byBot>>

GRival ==
  /\ \E s \in GSeats \ {Me} : \/ \E k \in ChosenKeeps(s) : Hold(s, k)
                              \/ \E b \in ChosenBoxes(s) : Score(s, b)
  /\ GPaint(TRUE, 0, TRUE)
  /\ UNCHANGED <<gsent, byBot>>

\* A player comes back to the match: everyone is sent the same view again.
GViewAgain ==
  /\ UNCHANGED <<generalaVars, gsent, byBot>>
  /\ GPaint(FALSE, 0, FALSE)

\* warnIfLow, from the interval of the clock
GWarn ==
  /\ OnTurn(Me) /\ gclock.announced /\ ~gclock.warned
  /\ gclock' = [gclock EXCEPT !.warned = TRUE, !.warnings = @ + 1]
  /\ UNCHANGED <<generalaVars, held, gsent, claimed, autoplayed, byBot>>

GTableInit ==
  /\ GeneralaInit
  /\ held = NoDice /\ gsent = <<>> /\ claimed = 0 /\ autoplayed = 0 /\ byBot = 0
  /\ gclock = Unheard

GTableNext ==
  \/ \E f \in Faces : Mark(f)
  \/ PressRoll \/ (\E b \in Boxes : PressBox(b))
  \/ GArrives \/ GExpires \/ GRolls \/ GRival \/ GViewAgain \/ GWarn

GTableSpec == GTableInit /\ [][GTableNext]_gScreenVars

-----------------------------------------------------------------------------
(* Properties. *)

GTableTypeOK ==
  /\ held \in Tallies
  /\ gsent \in Seq(({"hold"} \X Tallies) \cup ({"score"} \X Boxes))
  /\ {claimed, autoplayed, byBot} \subseteq 0 .. Doble

\* Dice look held only while the throw they were marked on is on the table and may be
\* thrown again (tray.ts:269-272: "a mark left over from the previous throw would be
\* a hold nobody chose"): whatever the bot, the rival or an earlier press of the
\* player does in the meantime, and however often the same view is painted.
HeldIsOfThisThrow ==
  held # NoDice => OfferedKeeps(Me) # {} /\ \A f \in Faces : held[f] <= dice[f]

\* What the bot wrote for a player stays on that player's screen until they press
\* something themselves (game-ui-registry.ts:1008-1012): the views that follow say
\* nothing of it, and whoever it is for was not looking.  Silent only if it wrote
\* the very box they had pressed.
AutoplayIsTold == byBot \notin {0, claimed} => autoplayed = byBot

\* The seat on turn hears the time of a throw once, and at most one warning.
ThrowTimedOnce == gclock.said <= 1 /\ gclock.warnings <= 1
=============================================================================
