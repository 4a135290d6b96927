------------------------------- MODULE MCPlatform -------------------------------
EXTENDS Platform, TLC

CONSTANTS t1, t2, k1, k2, g1, a1, page, widget

-----------------------------------------------------------------------------
(* Scenes: how many saves, visits and runs of the migrations there are, and     *)
(* how long the clock runs.                                                     *)

Bound(saves, visits, runs, time, stores) ==
  [saves |-> saves, visits |-> visits, runs |-> runs, time |-> time, stores |-> stores]
MCBounds(s) ==
  CASE s = "saves"  -> Bound(2, 0, 0, 1, {FALSE})
    [] s = "door"   -> Bound(1, 2, 0, 2, {TRUE})
    [] s = "replay" -> Bound(0, 3, 0, 2, BOOLEAN)
    [] s = "limits" -> Bound(0, 5, 0, 2, BOOLEAN)
    [] s = "schema" -> Bound(0, 0, 3, 0, {FALSE})

\* A tenant paid through a day: -1, whose evening the clock begins in and which is over
\* one tick later, or a later one.
Standing(from, day) ==
  [embedKey |-> k1, allowedOrigins |-> {page}, entitledGames |-> {g1}, theme |-> NoTheme,
   validFrom |-> from, validUntil |-> PaidThroughToInstant(day)]

MCTenantsAtFirst(s) ==
  CASE s = "saves"  -> { [t \in {t1} |-> Standing(0, 0)] }
    [] s = "door"   -> { [t \in {t1} |-> Standing(Unset, -1)], [t \in {t1} |-> Standing(1, 1)] }
    [] s = "replay" -> { [t \in {t1} |-> Standing(Unset, 1)] }
    [] OTHER        -> { [t \in {} |-> 0] }

Change(kind, value) == [kind |-> kind, id |-> t1, value |-> value]
MCAsksIn(s) ==
  IF s = "saves" THEN Asks
  ELSE { Change("games", {}), Change("origins", {}), Change("rotate", k2),
         Change("window", PaidThroughToInstant(1)) }

Request(kind, ip, key, origin) == [kind |-> kind, ip |-> ip, key |-> key, origin |-> origin]
MCRequestsIn(s) ==
  CASE s = "limits" -> { Request("embed", a1, k1, page), Request("renew", NoAddress, k2, page) }
    [] s = "replay" -> { Request("embed", a1, k1, page) }
    [] OTHER        -> { Request("embed", NoAddress, k1, page),
                         Request("renew", NoAddress, k1, widget) }
MCJoinsIn(s) ==
  IF s = "replay" THEN { [ip |-> a1, origin |-> widget, game |-> g1],
                         [ip |-> NoAddress, origin |-> page, game |-> g1] }
  ELSE { [ip |-> NoAddress, origin |-> widget, game |-> g1] }
=============================================================================
