------------------------------- MODULE MCScreens -------------------------------
EXTENDS Screens, TLC

-----------------------------------------------------------------------------
(* The page: embedded with two families of games, one of them with two modes,  *)
(* with a single game or with none; one game has no renderer in this build.    *)

MCCatalogs  == { <<"duel", "teams", "tiles">>, <<"duel">>, <<>> }
MCOneFamily == { <<"duel", "teams">> }
MCFamilyOf  == "duel" :> "truco" @@ "teams" :> "truco" @@ "tiles" :> "mahjong"
MCHasUi     == {"duel", "teams"}

-----------------------------------------------------------------------------
(* Truco: one deal for two, which is my screen's and its rival's, and one for  *)
(* four, in which the screen's rival calls; envidos of one level.              *)

DealForTwo ==
  0 :> {<<1, "espada">>, <<6, "espada">>, <<4, "copa">>}
  @@ 1 :> {<<3, "oro">>, <<7, "copa">>, <<4, "basto">>}

DealForFour ==
  DealForTwo @@ 2 :> {<<3, "copa">>, <<6, "copa">>, <<4, "oro">>}
             @@ 3 :> {<<1, "basto">>, <<5, "copa">>, <<12, "oro">>}

MCTrucoDeals(n) == IF n = 2 THEN {DealForTwo} ELSE {DealForFour}
MCChoosers(n)   == {}
MCCallers(n)    == IF n = 2 THEN {0, 1} ELSE {1}

-----------------------------------------------------------------------------
(* Escoba: a hand of sixteen cards, and the next one, against the hard bot.    *)

CardAt(n) == << <<1, 2, 3, 4, 5, 6, 7, 10, 11, 12>>[(n % 10) + 1],
                <<"espada", "basto", "oro", "copa">>[(n \div 10) + 1] >>
MCEscobaTables ==
  { [seats |-> 2, tier |-> 0 :> "any" @@ 1 :> "hard",
     decks |-> { [i \in 1 .. 16 |-> CardAt((i * 3 + 3) % 40)] }] }

-----------------------------------------------------------------------------
(* Generala: both cards have two boxes open.                                   *)

MCGeneralaTables ==
  { [cards |-> [s \in GSeats |-> <<Open, Open, 9, 12, 15, 18, 20, 30, 40, 50, 0>>],
     tier |-> [s \in GSeats |-> "normal"]] }

Thrown(t) == [f \in Faces |-> IF f \in DOMAIN t THEN t[f] ELSE 0]
MCThrows(n) ==
  CASE n = 5 -> {Thrown(<<2, 0, 0, 0, 0, 3>>)}
    [] n = 0 -> {}
    [] OTHER -> {Thrown(<<0, 0, 0, 0, 0, n>>)}

-----------------------------------------------------------------------------
(* Mahjong: six tiles in two layers.                                           *)

Steps  == { <<x, 0, 0>> : x \in {0, 2, 4, 6} } \cup {<<1, 0, 1>>, <<3, 0, 1>>}
MCWall == "five" :> <<"five", "five">>
          @@ "flower" :> <<"plum", "orchid", "chrysanthemum", "bamboo">>

-----------------------------------------------------------------------------
(* The panel: an operator who may do everything to a tenant, or only create one. *)

MCGrants == { {"tenant.create", "tenant.origins.edit", "tenant.embed-key.rotate",
               "tenant.games.edit", "tenant.window.edit", "audit.view"}, {"tenant.create"} }
=============================================================================
