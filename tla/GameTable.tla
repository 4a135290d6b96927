--------------------------------- MODULE GameTable ---------------------------------
(***************************************************************************)
(* What the tables of the four games have in common.  A table belongs to   *)
(* one seat.  A press on it is a message to the room, which may be late;   *)
(* the room admits it only if the game offers that move to that seat when  *)
(* it gets there (handleAction), and answers every move with a view, which *)
(* the table paints over the one it has.  Views come in order and at once. *)
(***************************************************************************)
EXTENDS Integers, Sequences

CONSTANTS
  Me,          \* the seat of this screen
  MaxPresses   \* bound on the moves a player makes ahead of the room

\* Another move may be on its way: nothing on a table waits for the last one.
MayPress(sent) == Len(sent) < MaxPresses
=============================================================================
