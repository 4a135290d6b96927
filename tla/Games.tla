--------------------------------- MODULE Games ---------------------------------
(***************************************************************************)
(* The four registered games behind the one door the platform has to them: *)
(* a match is of one game for its whole life, and the registry             *)
(* (platform-core/src/registry.ts) sends every call of the room to that    *)
(* game's module.                                                          *)
(***************************************************************************)
EXTENDS TrucoBots, Escoba, Generala, Mahjong

VARIABLE playing   \* matchParams.gameId: the module this match was created with

gamesVars == <<playing, trucoVars, watched, escobaVars, generalaVars, mahjongVars>>

GameIds == {"truco", "escoba", "generala", "mahjong"}

\* createMatch of the module; the state the other modules would keep stays as it
\* was, and is no part of the match
GamesInit ==
  /\ playing \in GameIds
  /\ BotsInit /\ EscobaInit /\ GeneralaInit /\ MahjongInit
  /\ playing # "truco"    => seatCount = Max(TrucoTables)
  /\ playing # "escoba"   => etable = CHOOSE t \in EscobaTables : TRUE
  /\ playing # "generala" =>
       LET t == CHOOSE u \in GeneralaTables : TRUE IN gcards = t.cards /\ gtier = t.tier

PlayTruco ==
  playing = "truco" /\ BotsNext
  /\ UNCHANGED <<playing, escobaVars, generalaVars, mahjongVars>>
PlayEscoba ==
  playing = "escoba" /\ EscobaNext
  /\ UNCHANGED <<playing, trucoVars, watched, generalaVars, mahjongVars>>
PlayGenerala ==
  playing = "generala" /\ GeneralaNext
  /\ UNCHANGED <<playing, trucoVars, watched, escobaVars, mahjongVars>>
PlayMahjong ==
  playing = "mahjong" /\ MahjongNext
  /\ UNCHANGED <<playing, trucoVars, watched, escobaVars, generalaVars>>

GamesNext == PlayTruco \/ PlayEscoba \/ PlayGenerala \/ PlayMahjong

\* The room drives a match on: a turn left alone is played when its time is up, a
\* bot's at once, and the system's by the chain that follows every action.
GamesSpec == GamesInit /\ [][GamesNext]_gamesVars /\ WF_gamesVars(GamesNext)

\* getOutcome, requestSystemAction and getLegalActions of the game played
Stage == CASE playing = "truco"    -> TrucoStage
           [] playing = "escoba"   -> EscobaStage
           [] playing = "generala" -> GeneralaStage
           [] playing = "mahjong"  -> MahjongStage
Actors == CASE playing = "truco"    -> TrucoActors
            [] playing = "escoba"   -> EscobaActors
            [] playing = "generala" -> GeneralaActors
            [] playing = "mahjong"  -> MahjongActors

-----------------------------------------------------------------------------
(* Properties. *)

GamesTypeOK ==
  playing \in GameIds /\ TrucoTypeOK /\ EscobaTypeOK /\ GeneralaTypeOK /\ MahjongTypeOK

\* Every game keeps the platform's bargain: it is always somebody's move, and the
\* system's exactly when no seat is offered anything - in the middle of a truco
\* called over an envido, when a stock is dealt out between two plays
\* (escoba-module/src/index.ts:75-80), while dice are in the air, and after a board
\* is walked away from.
Port == INSTANCE GamePort WITH Seats <- 0 .. 3, stage <- Stage, actors <- Actors
KeepsPort == Port!Spec

\* The bots reckon right: what a hold of dice is worth and whether the rival can sweep
\* the table, both counted in a shorter way than their definitions; and, in truco, what
\* is hidden, what is won already and what is still to win, and whom to ask about what.
BotsReckonRight == RiskIsSound /\ HoldsPricedRight /\ TrucoBotsRight

\* What is dealt is played to an end: no call, hold, redeal or question can be
\* repeated for ever.  (A match of escoba may go on from one hand to the next; the
\* number of hands it takes has no bound in the code.)
MatchEnds ==
  Stage = "seats" ~> (Stage = "over" \/ (playing = "escoba" /\ Stage = "system"))
=============================================================================
