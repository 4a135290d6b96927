-------------------------------- MODULE MCTruco --------------------------------
EXTENDS TrucoBots, TLC

-----------------------------------------------------------------------------
(* Truco: one deal for two, with an envido of each kind of hand in it, and one  *)
(* for four in which partners hold the numbers and the cards.                   *)

DealForTwo ==
  0 :> {<<1, "espada">>, <<6, "espada">>, <<4, "copa">>}
  @@ 1 :> {<<3, "oro">>, <<7, "copa">>, <<4, "basto">>}

DealForFour ==
  0 :> {<<3, "copa">>, <<2, "copa">>, <<4, "oro">>}
  @@ 1 :> {<<1, "oro">>, <<3, "oro">>, <<4, "basto">>}
  @@ 2 :> {<<1, "espada">>, <<6, "basto">>, <<4, "copa">>}
  @@ 3 :> {<<1, "basto">>, <<12, "oro">>, <<4, "espada">>}

MCTrucoDeals(n) == IF n = 2 THEN {DealForTwo} ELSE {DealForFour}
MCChoosers(n)   == IF n = 2 THEN {0, 1} ELSE {}
MCClaims == {"asDeEspada"}
=============================================================================
