------------------------------- MODULE GamePort -------------------------------
(***************************************************************************)
(* What the platform may assume of a match of any registered game:         *)
(* platform-contract/src/contract.ts, its conformance suite, and the       *)
(* places where match-room.ts relies on them.                              *)
(*                                                                         *)
(* runAdvanceOnce takes "no seat is offered anything" as its cue to ask    *)
(* the registry for a system action, and waits for a seat otherwise.  So a *)
(* match is always in one of three stages: the system owes a move and no   *)
(* seat is offered one; some seat is offered a move and the system has     *)
(* none; or it is over and nobody has.  A match in any other condition     *)
(* would stop for ever or be dealt over the heads of its players.          *)
(***************************************************************************)
CONSTANT Seats

VARIABLES
  stage,    \* whose move it is: "system", "seats" or "over"
  actors    \* the seats getLegalActions offers something to

Stages == {"system", "seats", "over"}

Sound ==
  /\ stage \in Stages
  /\ actors \subseteq Seats
  /\ stage = "seats" <=> actors # {}

Init == stage = "system" /\ Sound

SystemMove == stage = "system" /\ Sound'
SeatMove   == stage = "seats" /\ Sound'

Next == SystemMove \/ SeatMove

Spec == Init /\ [][Next]_<<stage, actors>>
=============================================================================
