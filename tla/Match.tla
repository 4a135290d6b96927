-------------------------------- MODULE Match --------------------------------
(***************************************************************************)
(* What the authoritative room promises of a match, whoever holds the      *)
(* seats and whatever the sockets, clocks and bots do: it starts from the  *)
(* module's own createMatch; from there it changes only by a move its      *)
(* module offered to a seat, by a move the registry's getSystemAction      *)
(* returned for the state it is applied to, or by the module's answer to   *)
(* an abandoned seat; and a decided match is never touched again.          *)
(***************************************************************************)
CONSTANTS Seats, Actions, FirstState, Legal(_, _), Apply(_, _), Over(_),
          SystemMoves(_), AbandonedMove(_, _), NotStarted, Refused, NoMove

VARIABLE game

Init == game = NotStarted

Start == game = NotStarted /\ game' = FirstState

Live == game # NotStarted /\ ~Over(game)

Play(a) == Apply(game, a) # Refused /\ game' = Apply(game, a)

Offered   == Live /\ \E s \in Seats : \E a \in Legal(game, s) : Play(a)
System    == Live /\ \E a \in SystemMoves(game) : Play(a)
Abandoned == Live /\ \E s \in Seats : /\ AbandonedMove(game, s) # NoMove
                                      /\ Play(AbandonedMove(game, s))

Next == Start \/ Offered \/ System \/ Abandoned

Spec == Init /\ [][Next]_game
=============================================================================
