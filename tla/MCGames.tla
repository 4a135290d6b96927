-------------------------------- MODULE MCGames --------------------------------
EXTENDS Games, MCTruco

-----------------------------------------------------------------------------
(* Escoba: decks cut from a full one taken in strides. *)

CardAt(n) == << <<1, 2, 3, 4, 5, 6, 7, 10, 11, 12>>[(n % 10) + 1],
                <<"espada", "basto", "oro", "copa">>[(n \div 10) + 1] >>
Strided(k) == [i \in 1 .. 40 |-> CardAt((i * k + 3) % 40)]
Cut(k, n)  == SubSeq(Strided(k), 1, n)

MCEscobaTables ==
  { [seats |-> 2, tier |-> [s \in 0 .. 1 |-> "any"], decks |-> {Cut(7, 16)}],
    [seats |-> 2, tier |-> 0 :> "hard" @@ 1 :> "normal", decks |-> {Strided(7)}],
    [seats |-> 2, tier |-> [s \in 0 .. 1 |-> "hard"], decks |-> {Strided(13)}],
    [seats |-> 4, tier |-> [s \in 0 .. 3 |-> IF s = 1 THEN "any" ELSE "hard"],
     decks |-> {Cut(17, 16)}] }

-----------------------------------------------------------------------------
(* Generala: matches taken up with three or two boxes a card still open. *)

CardOf(boxes) == [b \in Boxes |-> IF b \in DOMAIN boxes THEN boxes[b] ELSE Open]
Late(boxes, a, b) == [cards |-> [s \in GSeats |-> CardOf(boxes)], tier |-> 0 :> a @@ 1 :> b]

MCGeneralaTables ==
  { Late(<<Open, 6, 9, 12, 15, 18, 20, 30, 40>>, "any", "normal"),
    Late(<<3, Open, 9, 12, 15, 18, 20, 30, 40, 50, 0>>, "hard", "normal") }

Thrown(t) == [f \in Faces |-> IF f \in DOMAIN t THEN t[f] ELSE 0]
MCThrows(n) ==
  CASE n = 5 -> {Thrown(<<2, 0, 0, 0, 0, 3>>), Thrown(<<0, 0, 0, 0, 0, 5>>)}
    [] n = 0 -> {}
    [] OTHER -> {Thrown(<<0, 0, 0, 0, 0, n>>), Thrown(<<n>>)}

-----------------------------------------------------------------------------
(* Mahjong: a ridge three layers high and a wall of two match keys, one of them *)
(* with four different faces.                                                   *)

Ridge == { <<x, 0, 0>> : x \in {0, 2, 4, 6, 8} } \cup {<<1, 0, 1>>, <<3, 0, 1>>, <<2, 0, 2>>}
MCWall == "five" :> <<"five", "five", "five", "five">>
          @@ "flower" :> <<"plum", "orchid", "chrysanthemum", "bamboo">>
=============================================================================
