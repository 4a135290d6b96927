----------------------------- MODULE PresenceRoom -----------------------------
(***************************************************************************)
(* The lobby: packages/transport-colyseus/src/presence-room.ts over the    *)
(* Redis-backed pool of packages/platform-core/src/                        *)
(* redis-matchmaking-pool.ts, for one game and one modality (queues of     *)
(* different modalities share nothing).                                    *)
(*                                                                         *)
(* Every pool call is one script, atomic at Redis, and clients come and go *)
(* and other rooms make their calls while a room awaits one.  A script and *)
(* the code its answer resumes are one step here: what a room does in      *)
(* between reads only that room's state, and may as well have happened     *)
(* before the script.  In the same way JOIN and LRANGE, called without     *)
(* looking at any state, are one step from the start.  The order in which  *)
(* one connection delivers the calls of different handlers is not kept:    *)
(* every order is tried.  The in-memory pool is the case in which nothing  *)
(* happens between a call and its answer.                                  *)
(***************************************************************************)
EXTENDS Integers, Sequences, FiniteSets, SequencesExt

CONSTANTS
  MaxClients, \* bound: connections, numbered as they come; each joins once
  Rooms,      \* PresenceRoom instances of the game, each in its own process
  SeatCount,  \* metadata.seatCount
  MaxTicks,   \* bound: degradation calls of one room under way at once
  NoRoom

ASSUME LobbyAssumption ==
  /\ SeatCount \in Nat /\ SeatCount >= 2
  /\ MaxClients \in Nat /\ MaxTicks \in Nat
  /\ NoRoom \notin Rooms

Clients == 1..MaxClients

VARIABLES
  conn,      \* "away", then "here", then "gone"
  home,      \* the room a client joined
  waiting,   \* each room's own record of who waits
  pool,      \* the Redis list, oldest first
  owed,      \* per room: onJoin calls that have yet to try forming a group
  leaving,   \* onLeave calls awaiting LEAVE
  degrading, \* per room: the group sizes degradation has asked for
  sweeping,  \* per room: what a sweep has still to go through; first the dead
             \* client whose LEAVE it awaits
  tables     \* the groups popped so far, and what became of them

client == <<conn, home>>
calls  == <<owed, leaving, degrading, sweeping>>
vars   == <<client, waiting, pool, calls, tables>>

\* `known` are the members the popping room tracked; `filled` asks for bots.
Table == [players : Seq(Clients), known : SUBSET Clients, filled : BOOLEAN,
          at : {"popped", "paired", "failed"}]

TypeOK ==
  /\ conn \in [Clients -> {"away", "here", "gone"}]
  /\ home \in [Clients -> Rooms \cup {NoRoom}]
  /\ waiting \in [Rooms -> SUBSET Clients]
  /\ pool \in Seq(Clients) /\ IsInjective(pool)
  /\ owed \in [Rooms -> SUBSET Clients]
  /\ leaving \subseteq Clients
  /\ degrading \in [Rooms -> Seq(1..SeatCount-1)]
  /\ sweeping \in [Rooms -> Seq(Clients)]
  /\ tables \subseteq Table

Init ==
  /\ conn = [c \in Clients |-> "away"]
  /\ home = [c \in Clients |-> NoRoom]
  /\ waiting = [r \in Rooms |-> {}]
  /\ pool = <<>>
  /\ owed = [r \in Rooms |-> {}]
  /\ leaving = {}
  /\ degrading = [r \in Rooms |-> <<>>]
  /\ sweeping = [r \in Rooms |-> <<>>]
  /\ tables = {}

-----------------------------------------------------------------------------
(* Clients come and go. *)

\* onJoin and JOIN_SCRIPT.  A client that left before the answer came was not yet
\* tracked: its onLeave did nothing, and onJoin goes on all the same.
OnJoin(c, r) ==
  /\ conn[c] = "away" /\ \A d \in 1..c-1 : conn[d] # "away"
  /\ conn' \in { [conn EXCEPT ![c] = s] : s \in {"here", "gone"} }
  /\ home' = [home EXCEPT ![c] = r]
  /\ pool' = Append(pool, c)
  /\ waiting' = [waiting EXCEPT ![r] = @ \cup {c}]
  /\ owed' = [owed EXCEPT ![r] = @ \cup {c}]
  /\ UNCHANGED <<leaving, degrading, sweeping, tables>>

\* Once its group is popped, a client's connection is only ever sent to.
InLobby(c) == conn[c] = "here" /\ \A t \in tables : ~Contains(t.players, c)

\* onLeave, up to its `await pool.leave`; it has nothing to do for a client that
\* is not tracked.
OnLeave(c) ==
  /\ InLobby(c)
  /\ conn' = [conn EXCEPT ![c] = "gone"]
  /\ leaving' = IF c \in waiting[home[c]] THEN leaving \cup {c} ELSE leaving
  /\ UNCHANGED <<home, waiting, pool, owed, degrading, sweeping, tables>>

\* LEAVE_SCRIPT; onLeave goes on.
Left(c) ==
  /\ c \in leaving
  /\ leaving' = leaving \ {c}
  /\ pool' = RemoveFirst(pool, c)
  /\ waiting' = [waiting EXCEPT ![home[c]] = @ \ {c}]
  /\ UNCHANGED <<client, owed, degrading, sweeping, tables>>

\* A connection closes and the transport never delivers its onLeave.
Vanish(c) ==
  /\ InLobby(c)
  /\ conn' = [conn EXCEPT ![c] = "gone"]
  /\ UNCHANGED <<home, waiting, pool, calls, tables>>

-----------------------------------------------------------------------------
(* Groups. *)

\* Seeded fault: the last of the group is left at the head of the list.
PopShort(n) == SubSeq(pool, n, Len(pool))
\* TRY_PAIR_SEATS_SCRIPT's LPOPs
Pop(n) == SubSeq(pool, n + 1, Len(pool))

\* Seeded fault: the members of a group stay in `waiting`.
KeptIn(r, group) == waiting[r]
StillWaiting(r, group) == waiting[r] \ ToSet(group)

\* TRY_PAIR_SEATS_SCRIPT, and its caller takes the group out of `waiting`.
TryPairSeats(r, n) ==
  LET group == SubSeq(pool, 1, n)
  IN  IF Len(pool) < n
        THEN UNCHANGED <<pool, waiting, tables>>
        ELSE /\ pool' = Pop(n)
             /\ waiting' = [waiting EXCEPT ![r] = StillWaiting(r, group)]
             /\ tables' = tables \cup
                  {[players |-> group, known |-> ToSet(group) \cap waiting[r],
                    filled |-> n < SeatCount, at |-> "popped"]}

\* tryFormGroup, once onJoin's broadcastCounts has run
TryFormGroup(r, c) ==
  /\ c \in owed[r]
  /\ owed' = [owed EXCEPT ![r] = @ \ {c}]
  /\ TryPairSeats(r, SeatCount)
  /\ UNCHANGED <<client, leaving, degrading, sweeping>>

\* handOffToMatch.  A member this room does not track fails the whole group; so
\* does a failing createRoom, or any one seat that cannot be reserved.  Nobody is
\* told before.
HandOff(t) ==
  /\ t.at = "popped"
  /\ \E how \in {"paired", "failed"} :
       /\ how = "paired" => t.known = ToSet(t.players)
       /\ tables' = (tables \ {t}) \cup {[t EXCEPT !.at = how]}
  /\ UNCHANGED <<client, waiting, pool, calls>>

-----------------------------------------------------------------------------
(* The interval: degradation and the zombie sweep. *)

\* Seeded fault: degradation, too, asks for a whole table but one.
AlmostTable(r) == SeatCount - 1
\* Seeded fault: it counts the shared queue, not the clients it tracks.
QueuePresent(r) == Len(pool)
HumansPresent(r) == Cardinality(waiting[r])

\* degradeLongWaits, when the oldest waiter has waited long enough, up to its
\* `await pool.tryPairSeats`; a tick does not wait for the one before.
DegradeLongWaits(r) ==
  /\ SeatCount > 2
  /\ waiting[r] # {} /\ Cardinality(waiting[r]) < SeatCount
  /\ Len(degrading[r]) < MaxTicks
  /\ degrading' = [degrading EXCEPT ![r] = Append(@, HumansPresent(r))]
  /\ UNCHANGED <<client, waiting, pool, owed, leaving, sweeping, tables>>

Degraded(r) ==
  /\ degrading[r] # <<>>
  /\ degrading' = [degrading EXCEPT ![r] = Tail(@)]
  /\ TryPairSeats(r, Head(degrading[r]))
  /\ UNCHANGED <<client, owed, leaving, sweeping>>

\* isAlive says no: a tracked client, no longer connected
Dead(r, c) == c \in waiting[r] /\ conn[c] # "here"

\* The loop of sweep: isAlive forgets the next dead client, and LEAVE is asked.
Resume(r, ids) ==
  LET dead == { i \in DOMAIN ids : Dead(r, ids[i]) }
  IN  \/ dead = {} /\ sweeping' = [sweeping EXCEPT ![r] = <<>>] /\ UNCHANGED waiting
      \/ \E next \in dead :
           /\ \A i \in dead : next <= i
           /\ sweeping' = [sweeping EXCEPT ![r] = SubSeq(ids, next, Len(ids))]
           /\ waiting' = [waiting EXCEPT ![r] = @ \ {ids[next]}]

\* sweepZombies and LRANGE, when there is somebody to find; a sweep is over
\* before the sweeper's interval lets the next one start.
SweepZombies(r) ==
  /\ sweeping[r] = <<>>
  /\ \E c \in ToSet(pool) : Dead(r, c)
  /\ Resume(r, pool)
  /\ UNCHANGED <<client, pool, owed, leaving, degrading, tables>>

\* LEAVE_SCRIPT for a dead client; the sweep goes on.
Swept(r) ==
  /\ sweeping[r] # <<>>
  /\ pool' = RemoveFirst(pool, Head(sweeping[r]))
  /\ Resume(r, Tail(sweeping[r]))
  /\ UNCHANGED <<client, owed, leaving, degrading, tables>>

-----------------------------------------------------------------------------

Next ==
  \/ \E c \in Clients : \/ OnLeave(c) \/ Left(c) \/ Vanish(c)
                        \/ \E r \in Rooms : OnJoin(c, r) \/ TryFormGroup(r, c)
  \/ \E r \in Rooms : DegradeLongWaits(r) \/ Degraded(r) \/ SweepZombies(r) \/ Swept(r)
  \/ \E t \in tables : HandOff(t)

Spec == Init /\ [][Next]_vars

\* Redis answers, promises settle, and the interval keeps firing.
FairSpec ==
  /\ Spec
  /\ \A r \in Rooms :
       /\ WF_vars(DegradeLongWaits(r)) /\ WF_vars(Degraded(r))
       /\ WF_vars(SweepZombies(r)) /\ WF_vars(Swept(r))
       /\ \A c \in Clients : WF_vars(TryFormGroup(r, c))
  /\ \A c \in Clients : WF_vars(Left(c))
  /\ WF_vars(\E t \in tables : HandOff(t))

-----------------------------------------------------------------------------
(* Properties. *)

\* Nobody is handed to two matches, and nobody at a table is still queued: a pop
\* takes a whole group, and whoever it takes is out of the queue for good.
SeatedOnce ==
  /\ \A t, u \in tables : t # u => ToSet(t.players) \cap ToSet(u.players) = {}
  /\ \A t \in tables : ToSet(t.players) \cap ToSet(pool) = {}

\* A connected client its room holds as waiting is in the shared queue: somebody
\* can still be matched with it.
NobodyForgotten ==
  \A r \in Rooms : \A c \in waiting[r] : conn[c] = "here" => Contains(pool, c)

Told(c) == \E t \in tables : t.at \in {"paired", "failed"} /\ c \in t.known

\* In a game of more than two seats everyone who queues and stays is told
\* something, however few come: degradation rescues whoever is left over.
WaitEnds == \A c \in Clients : conn[c] = "here" ~> Told(c) \/ conn[c] = "gone"
=============================================================================
