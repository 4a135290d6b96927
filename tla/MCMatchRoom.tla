----------------------------- MODULE MCMatchRoom -----------------------------
(***************************************************************************)
(* MatchRoom at a small table.  The game is the smallest one that has what *)
(* the room treats specially in truco: cards played in turn; a call that   *)
(* every member of the answering side is offered at once and that people   *)
(* answer first (respond-truco); a raise the answering side may make once  *)
(* the call is accepted, whoever's turn it is (call-truco at the next      *)
(* level); a question to a team-mate that costs the asker's one seña       *)
(* (consult-partner); a seña legal out of turn (send-sena); and a deal     *)
(* only the system makes (start-hand), which a player could have stacked.  *)
(***************************************************************************)
EXTENDS MatchRoom, TLC

CONSTANTS
  Hands,       \* hands in a match; 0 for a table that never finishes
  Callers,     \* the seats that may call
  Raisers,     \* the seats that may raise an accepted call
  Askers,      \* the seats that may ask their team-mate
  Signallers,  \* the seats that may send a seña
  Resigners    \* the seats whose leaving ends the match (getAbandonedSeatAction)

\* The last seat plays alone; the other one, or the other two, are its rivals.
Alone == SeatCount - 1
Rivals(s, t) == (s = Alone) # (t = Alone)
Mate(s) == IF s = Alone \/ SeatCount < 3 THEN NoSeat ELSE 1 - s

Move(type, s) == [type |-> type, seat |-> s]
Deals == { Move("deal", NoSeat), Move("stacked deal", NoSeat) }
TableActions ==
  { Move(y, s) : y \in {"card", "call", "raise", "accept", "reject", "ask", "sena", "resign"},
                 s \in Seats } \cup Deals

TableStates == [phase : {"deal", "play", "call", "over"}, hand : {1} \cup 1 .. Hands,
                turn : Seats, stake : 0 .. 2, caller : Seats, spent : SUBSET Seats]
Fresh(phase, hand) == [phase |-> phase, hand |-> hand, turn |-> 0, stake |-> 0,
                       caller |-> 0, spent |-> {}]
TableFirst == Fresh("deal", 1)

MovesOf(y, s, may) == IF may THEN {Move(y, s)} ELSE {}

TableLegal(g, s) ==
  IF g.phase = "play"
    THEN MovesOf("card", s, g.turn = s)
           \cup MovesOf("call", s, g.turn = s /\ g.stake = 0 /\ s \in Callers)
           \cup MovesOf("raise", s, g.stake = 1 /\ Rivals(s, g.caller) /\ s \in Raisers)
           \cup MovesOf("sena", s, s \in Signallers \ g.spent)
  ELSE IF g.phase = "call" /\ Rivals(s, g.caller)
    THEN {Move("accept", s), Move("reject", s)}
           \cup MovesOf("ask", s, s \in Askers \ g.spent)
  ELSE {}

HandOver(g) == IF Hands = 0 THEN Fresh("deal", 1)
               ELSE IF g.hand = Hands THEN Fresh("over", Hands) ELSE Fresh("deal", g.hand + 1)

TableApply(g, a) ==
  CASE a \in Deals -> IF g.phase # "deal" THEN Refused
                      ELSE [g EXCEPT !.phase = "play",
                                     !.spent = IF a.type = "deal" THEN {} ELSE Seats]
    [] a.type = "resign" -> IF g.phase = "over" THEN Refused ELSE Fresh("over", g.hand)
    [] OTHER ->
         IF a \notin TableLegal(g, a.seat) THEN Refused
         ELSE CASE a.type = "card" -> IF g.turn = SeatCount - 1 THEN HandOver(g)
                                        ELSE [g EXCEPT !.turn = g.turn + 1]
                [] a.type \in {"call", "raise"} ->
                     [g EXCEPT !.phase = "call", !.stake = @ + 1, !.caller = a.seat]
                [] a.type = "accept" -> [g EXCEPT !.phase = "play"]
                [] a.type = "reject" -> HandOver(g)
                [] a.type \in {"ask", "sena"} -> [g EXCEPT !.spent = @ \cup {a.seat}]

TableOver(g) == g.phase = "over"
TableSystemMoves(g) == IF g.phase = "deal" THEN {Move("deal", NoSeat)} ELSE {}
TableAbandonedMove(g, s) == IF s \in Resigners THEN Move("resign", s) ELSE NoMove
TablePartner(g, s, q) == IF g.phase = "call" /\ Rivals(s, g.caller) THEN Mate(s) ELSE NoSeat
TableType(a) == a.type
TableSubject(a) == IF a.type = "ask" THEN "pending-call" ELSE "nothing"
OfType(T) == { a \in TableActions : a.type \in T }
TableNonBlocking == OfType({"sena"})
TableHumanPriority == OfType({"accept", "reject"})
TablePaidQuestion == OfType({"ask"})

\* The answering side is asked together, and nobody else moves until it has answered.
ASSUME TableAsksOneSide == OneSideIsAsked
=============================================================================
