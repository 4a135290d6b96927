-------------------------- MODULE PresenceRoomProofs --------------------------
(***************************************************************************)
(* Nobody is seated twice, for any number of rooms, of clients and of      *)
(* seats.                                                                  *)
(*                                                                         *)
(* A client is put into the queue once, when it joins, and a pop takes the *)
(* head of the queue into a group of its own.  What makes that inductive   *)
(* is that only clients who have come are queued or seated (OnlyArrivals), *)
(* so whoever joins is neither, and that the queue holds each of them once *)
(* (a part of TypeOK).                                                     *)
(***************************************************************************)
EXTENDS PresenceRoom, FiniteSetTheorems, SequenceTheorems, TLAPS

Come(c) == conn[c] # "away"

OnlyArrivals ==
  /\ \A c \in ToSet(pool) : Come(c)
  /\ \A t \in tables : \A c \in ToSet(t.players) : Come(c)

LobbyIInv == TypeOK /\ OnlyArrivals /\ SeatedOnce

-----------------------------------------------------------------------------
(* The queue: what APPEND, LREM and LPOP do to it. *)

\* A client at the end, where it was not queued before.
LEMMA QueueGains ==
  ASSUME NEW S, NEW s \in Seq(S), NEW e \in S, IsInjective(s), e \notin ToSet(s)
  PROVE  /\ Append(s, e) \in Seq(S) /\ IsInjective(Append(s, e))
         /\ ToSet(Append(s, e)) = ToSet(s) \cup {e}
<1>1. \A i \in DOMAIN s : s[i] # e
  BY DEF ToSet
<1>2. /\ Append(s, e) \in Seq(S) /\ DOMAIN Append(s, e) = 1 .. Len(s) + 1
      /\ DOMAIN s = 1 .. Len(s) /\ Len(s) \in Nat
      /\ \A i \in 1 .. Len(s) : Append(s, e)[i] = s[i]
      /\ Append(s, e)[Len(s) + 1] = e
  OBVIOUS
<1>3. IsInjective(Append(s, e))
  BY <1>1, <1>2 DEF IsInjective
<1>4. ToSet(Append(s, e)) = ToSet(s) \cup {e}
  BY <1>2 DEF ToSet
<1>5. QED
  BY <1>2, <1>3, <1>4

\* A stretch of the queue is a queue of some of its clients.
LEMMA QueuePart ==
  ASSUME NEW S, NEW s \in Seq(S), IsInjective(s),
         NEW m \in 1 .. Len(s) + 1, NEW n \in 0 .. Len(s)
  PROVE  /\ SubSeq(s, m, n) \in Seq(S) /\ IsInjective(SubSeq(s, m, n))
         /\ ToSet(SubSeq(s, m, n)) = { s[i] : i \in m .. n }
<1> DEFINE part == SubSeq(s, m, n)
<1>1. /\ DOMAIN s = 1 .. Len(s) /\ Len(s) \in Nat
      /\ \A i \in 1 .. Len(s) : s[i] \in S
  OBVIOUS
<1>2. /\ part \in Seq(S)
      /\ Len(part) = IF m <= n THEN n - m + 1 ELSE 0
      /\ \A i \in 1 .. n - m + 1 : part[i] = s[m + i - 1]
  BY <1>1, SubSeqProperties
<1>3. DOMAIN part = 1 .. n - m + 1
  BY <1>2, <1>1
<1> HIDE DEF part
<1>4. IsInjective(part)
  <2> SUFFICES ASSUME NEW i \in DOMAIN part, NEW j \in DOMAIN part, part[i] = part[j]
               PROVE  i = j
    BY DEF IsInjective
  <2>1. m + i - 1 \in DOMAIN s /\ m + j - 1 \in DOMAIN s
    BY <1>1, <1>3
  <2>2. s[m + i - 1] = s[m + j - 1]
    BY <1>2, <1>3
  <2>3. m + i - 1 = m + j - 1
    BY <2>1, <2>2 DEF IsInjective
  <2>4. QED
    BY <2>3, <1>3
<1>5. ToSet(part) = { s[i] : i \in m .. n }
  <2>1. ASSUME NEW i \in m .. n PROVE s[i] \in ToSet(part)
    <3> DEFINE q == i - m + 1
    <3>1. q \in 1 .. n - m + 1 /\ m + q - 1 = i
      BY <1>1
    <3> HIDE DEF q
    <3>2. part[q] = s[i]
      BY <1>2, <3>1
    <3>3. QED
      BY <1>3, <3>1, <3>2 DEF ToSet
  <2>2. ASSUME NEW i \in DOMAIN part PROVE part[i] \in { s[j] : j \in m .. n }
    <3>1. i \in 1 .. n - m + 1
      BY <1>3
    <3>2. m + i - 1 \in m .. n
      BY <1>1, <3>1
    <3>3. part[i] = s[m + i - 1]
      BY <1>2, <3>1
    <3>4. QED
      BY <3>2, <3>3
  <2>3. QED
    BY <2>1, <2>2 DEF ToSet
<1>6. QED
  BY <1>2, <1>4, <1>5 DEF part

\* LREM takes the client it names out, and nobody else in or twice.
LEMMA QueueLoses ==
  ASSUME NEW S, NEW s \in Seq(S), IsInjective(s), NEW e
  PROVE  /\ RemoveFirst(s, e) \in Seq(S) /\ IsInjective(RemoveFirst(s, e))
         /\ ToSet(RemoveFirst(s, e)) = ToSet(s) \ {e}
<1>1. CASE ~ \E i \in 1 .. Len(s) : s[i] = e
  BY <1>1 DEF RemoveFirst, ToSet
<1>2. CASE \E i \in 1 .. Len(s) : s[i] = e
  <2>1. PICK k \in 1 .. Len(s) : s[k] = e
    BY <1>2
  <2> DEFINE I == { i \in 1 .. Len(s) : s[i] = e }
             front == SubSeq(s, 1, k - 1)
             rest  == SubSeq(s, k + 1, Len(s))
  <2>2. DOMAIN s = 1 .. Len(s) /\ Len(s) \in Nat
    OBVIOUS
  <2>3. I = {k}
    BY <2>1, <2>2 DEF IsInjective
  <2>4. Min(I) = k
    BY <2>3 DEF Min
  <2>5. RemoveFirst(s, e) = front \o rest
    BY <1>2, <2>1, <2>4 DEF RemoveFirst, RemoveAt, SelectInSeq
  <2>6. /\ front \in Seq(S) /\ IsInjective(front)
        /\ ToSet(front) = { s[i] : i \in 1 .. k - 1 }
    BY <2>1, <2>2, QueuePart
  <2>7. /\ rest \in Seq(S) /\ IsInjective(rest)
        /\ ToSet(rest) = { s[i] : i \in k + 1 .. Len(s) }
    BY <2>1, <2>2, QueuePart
  <2>8. ToSet(front) \cap ToSet(rest) = {}
    BY <2>1, <2>2, <2>6, <2>7 DEF IsInjective
  <2>9. ToSet(front) \cup ToSet(rest) = ToSet(s) \ {e}
    <3>1. ToSet(s) = { s[i] : i \in 1 .. Len(s) }
      BY <2>2 DEF ToSet
    <3>2. \A i \in 1 .. Len(s) : s[i] = e <=> i = k
      BY <2>1, <2>2 DEF IsInjective
    <3>3. QED
      BY <3>1, <3>2, <2>1, <2>2, <2>6, <2>7
  <2> HIDE DEF front, rest
  <2> DEFINE both == front \o rest
  <2>10. /\ both \in Seq(S) /\ DOMAIN both = 1 .. Len(front) + Len(rest)
         /\ Len(front) \in Nat /\ Len(rest) \in Nat
         /\ DOMAIN front = 1 .. Len(front) /\ DOMAIN rest = 1 .. Len(rest)
         /\ \A i \in DOMAIN both :
              both[i] = IF i <= Len(front) THEN front[i] ELSE rest[i - Len(front)]
    BY <2>6, <2>7, ConcatProperties
  <2> HIDE DEF both
  <2>11. \A i \in DOMAIN both :
           \/ i \in DOMAIN front /\ both[i] = front[i] /\ both[i] \in ToSet(front)
           \/ /\ i > Len(front) /\ i - Len(front) \in DOMAIN rest
              /\ both[i] = rest[i - Len(front)] /\ both[i] \in ToSet(rest)
    BY <2>10 DEF ToSet
  <2>12. IsInjective(both)
    <3> SUFFICES ASSUME NEW i \in DOMAIN both, NEW j \in DOMAIN both, both[i] = both[j]
                 PROVE  i = j
      BY DEF IsInjective
    <3>1. CASE i \in DOMAIN front /\ j \in DOMAIN front
      BY <3>1, <2>6, <2>10 DEF IsInjective
    <3>2. CASE i > Len(front) /\ j > Len(front)
      BY <3>2, <2>7, <2>10, <2>11 DEF IsInjective
    <3>3. CASE (i \in DOMAIN front /\ j > Len(front)) \/ (j \in DOMAIN front /\ i > Len(front))
      BY <3>3, <2>8, <2>10, <2>11
    <3>4. QED
      BY <3>1, <3>2, <3>3, <2>11
  <2>13. ToSet(both) = ToSet(front) \cup ToSet(rest)
    <3>1. ASSUME NEW i \in DOMAIN front PROVE front[i] \in ToSet(both)
      <4>1. i \in DOMAIN both /\ both[i] = front[i]
        BY <2>10
      <4>2. QED
        BY <4>1 DEF ToSet
    <3>2. ASSUME NEW i \in DOMAIN rest PROVE rest[i] \in ToSet(both)
      <4>1. i + Len(front) \in DOMAIN both /\ both[i + Len(front)] = rest[i]
        BY <2>10
      <4>2. QED
        BY <4>1 DEF ToSet
    <3>3. ToSet(both) \subseteq ToSet(front) \cup ToSet(rest)
      BY <2>11 DEF ToSet
    <3>4. QED
      BY <3>1, <3>2, <3>3 DEF ToSet
  <2>14. QED
    BY <2>5, <2>9, <2>10, <2>12, <2>13 DEF both
<1>3. QED
  BY <1>1, <1>2

-----------------------------------------------------------------------------
(* What a pop leaves behind. *)

\* The group and the rest of the queue share nobody, and are of the queue.
LEMMA PopSplits ==
  ASSUME TypeOK, NEW n \in 1 .. SeatCount, Len(pool) >= n
  PROVE  LET group == SubSeq(pool, 1, n) IN
         /\ group \in Seq(Clients) /\ Pop(n) \in Seq(Clients) /\ IsInjective(Pop(n))
         /\ ToSet(group) \cap ToSet(Pop(n)) = {}
         /\ ToSet(group) \cup ToSet(Pop(n)) = ToSet(pool)
<1> DEFINE group == SubSeq(pool, 1, n)
<1> USE LobbyAssumption
<1>1. /\ pool \in Seq(Clients) /\ IsInjective(pool) /\ Len(pool) \in Nat
      /\ DOMAIN pool = 1 .. Len(pool) /\ n \in Nat /\ n <= Len(pool)
  BY DEF TypeOK
<1>2. group \in Seq(Clients) /\ ToSet(group) = { pool[i] : i \in 1 .. n }
  BY <1>1, QueuePart
<1>3. /\ Pop(n) \in Seq(Clients) /\ IsInjective(Pop(n))
      /\ ToSet(Pop(n)) = { pool[i] : i \in n + 1 .. Len(pool) }
  BY <1>1, QueuePart DEF Pop
<1>4. ToSet(group) \cap ToSet(Pop(n)) = {}
  BY <1>1, <1>2, <1>3 DEF IsInjective
<1>5. ToSet(pool) = { pool[i] : i \in 1 .. Len(pool) }
  BY <1>1 DEF ToSet
<1>6. ToSet(group) \cup ToSet(Pop(n)) = ToSet(pool)
  BY <1>1, <1>2, <1>3, <1>5
<1>7. QED
  BY <1>2, <1>3, <1>4, <1>6

\* TRY_PAIR_SEATS_SCRIPT, for whatever size it is asked.
LEMMA PairKeeps ==
  ASSUME LobbyIInv, NEW r \in Rooms, NEW n \in 1 .. SeatCount, TryPairSeats(r, n), conn' = conn
  PROVE  /\ pool' \in Seq(Clients) /\ IsInjective(pool')
         /\ waiting' \in [Rooms -> SUBSET Clients] /\ tables' \subseteq Table
         /\ OnlyArrivals' /\ SeatedOnce'
<1> USE DEF LobbyIInv
<1>1. CASE Len(pool) < n
  BY <1>1 DEF TryPairSeats, TypeOK, OnlyArrivals, SeatedOnce, Come
<1>2. CASE ~ (Len(pool) < n)
  <2> DEFINE group == SubSeq(pool, 1, n)
             new   == [players |-> group, known |-> ToSet(group) \cap waiting[r],
                       filled |-> n < SeatCount, at |-> "popped"]
  <2>1. /\ pool' = Pop(n) /\ tables' = tables \cup {new}
        /\ waiting' = [waiting EXCEPT ![r] = StillWaiting(r, group)]
    BY <1>2 DEF TryPairSeats
  <2>2. n \in Nat /\ Len(pool) \in Nat
    BY LobbyAssumption DEF TypeOK
  <2>3. /\ group \in Seq(Clients) /\ Pop(n) \in Seq(Clients) /\ IsInjective(Pop(n))
        /\ ToSet(group) \cap ToSet(Pop(n)) = {}
        /\ ToSet(group) \cup ToSet(Pop(n)) = ToSet(pool)
    BY <1>2, <2>2, PopSplits
  <2> HIDE DEF group
  <2>4. new \in Table
    BY <2>3 DEF Table, TypeOK
  <2>5. waiting' \in [Rooms -> SUBSET Clients]
    BY <2>1 DEF TypeOK, StillWaiting
  <2>6. OnlyArrivals'
    BY <2>1, <2>3 DEF OnlyArrivals, Come
  <2>7. SeatedOnce'
    <3>1. ASSUME NEW t \in tables
          PROVE  /\ ToSet(t.players) \cap ToSet(group) = {}
                 /\ ToSet(t.players) \cap ToSet(Pop(n)) = {}
      BY <2>3 DEF SeatedOnce
    <3>2. new.players = group
      OBVIOUS
    <3> HIDE DEF new
    <3>3. ASSUME NEW t \in tables', NEW u \in tables', t # u
          PROVE  ToSet(t.players) \cap ToSet(u.players) = {}
      <4>1. CASE t \in tables /\ u \in tables
        BY <3>3, <4>1 DEF SeatedOnce
      <4>2. CASE t = new \/ u = new
        BY <3>1, <3>2, <3>3, <4>2, <2>1
      <4>3. QED
        BY <4>1, <4>2, <2>1
    <3>4. \A t \in tables' : ToSet(t.players) \cap ToSet(pool') = {}
      BY <3>1, <3>2, <2>1, <2>3
    <3>5. QED
      BY <3>3, <3>4 DEF SeatedOnce
  <2>8. QED
    BY <2>1, <2>3, <2>4, <2>5, <2>6, <2>7 DEF TypeOK
<1>3. QED
  BY <1>1, <1>2

-----------------------------------------------------------------------------
(* The invariant. *)

\* An empty queue, and nobody has come.
THEOREM LobbyInitInv == Init => LobbyIInv
<1> SUFFICES ASSUME Init PROVE LobbyIInv
  OBVIOUS
<1> USE LobbyAssumption
<1>1. ToSet(<<>>) = {} /\ IsInjective(<<>>)
  BY DEF ToSet, IsInjective
<1>2. TypeOK
  BY <1>1 DEF Init, TypeOK
<1>3. OnlyArrivals /\ SeatedOnce
  BY <1>1 DEF Init, OnlyArrivals, SeatedOnce
<1>4. QED
  BY <1>2, <1>3 DEF LobbyIInv

\* A client that has come does not become one that has not, and where queue and
\* groups stay, so does what is said of them.
LEMMA QueueStays ==
  ASSUME LobbyIInv, pool' = pool, tables' = tables,
         \A c \in Clients : Come(c) => Come(c)'
  PROVE  OnlyArrivals' /\ SeatedOnce'
<1>1. ToSet(pool) \subseteq Clients
  BY DEF LobbyIInv, TypeOK, ToSet
<1>2. \A t \in tables : ToSet(t.players) \subseteq Clients
  BY DEF LobbyIInv, TypeOK, Table, ToSet
<1>3. QED
  BY <1>1, <1>2 DEF LobbyIInv, OnlyArrivals, SeatedOnce

\* A client leaves the queue.
LEMMA LeavingKeeps ==
  ASSUME LobbyIInv, NEW c, pool' = RemoveFirst(pool, c), tables' = tables, conn' = conn
  PROVE  pool' \in Seq(Clients) /\ IsInjective(pool') /\ OnlyArrivals' /\ SeatedOnce'
<1>1. /\ RemoveFirst(pool, c) \in Seq(Clients) /\ IsInjective(RemoveFirst(pool, c))
      /\ ToSet(RemoveFirst(pool, c)) = ToSet(pool) \ {c}
  BY QueueLoses DEF LobbyIInv, TypeOK
<1>2. QED
  BY <1>1 DEF LobbyIInv, OnlyArrivals, SeatedOnce, Come

\* onJoin: who comes was neither queued nor seated.
LEMMA JoinKeeps ==
  ASSUME LobbyIInv, NEW c \in Clients, NEW r \in Rooms, OnJoin(c, r)
  PROVE  LobbyIInv'
<1> USE DEF LobbyIInv
<1>1. c \notin ToSet(pool) /\ \A t \in tables : c \notin ToSet(t.players)
  BY DEF OnJoin, OnlyArrivals, Come
<1>2. /\ pool' \in Seq(Clients) /\ IsInjective(pool') /\ ToSet(pool') = ToSet(pool) \cup {c}
  BY <1>1, QueueGains DEF OnJoin, TypeOK
<1>3. /\ conn' \in [Clients -> {"away", "here", "gone"}]
      /\ conn'[c] # "away" /\ \A d \in Clients \ {c} : conn'[d] = conn[d]
  BY DEF OnJoin, TypeOK
<1>4. TypeOK'
  BY <1>2, <1>3 DEF OnJoin, TypeOK
<1>5. ToSet(pool) \subseteq Clients /\ \A t \in tables : ToSet(t.players) \subseteq Clients
  BY DEF TypeOK, Table, ToSet
<1>6. tables' = tables
  BY DEF OnJoin
<1>7. OnlyArrivals'
  BY <1>2, <1>3, <1>5, <1>6 DEF OnlyArrivals, Come
<1>8. SeatedOnce'
  BY <1>1, <1>2, <1>6 DEF SeatedOnce
<1>9. QED
  BY <1>4, <1>7, <1>8

\* A client is gone, with or without its onLeave.
LEMMA DepartureKeeps ==
  ASSUME LobbyIInv, NEW c \in Clients, OnLeave(c) \/ Vanish(c)
  PROVE  LobbyIInv'
<1>1. conn' = [conn EXCEPT ![c] = "gone"] /\ pool' = pool /\ tables' = tables
  BY DEF OnLeave, Vanish
<1>2. \A d \in Clients : Come(d) => Come(d)'
  BY <1>1 DEF LobbyIInv, TypeOK, Come
<1>3. OnlyArrivals' /\ SeatedOnce'
  BY <1>1, <1>2, QueueStays
<1>4. TypeOK'
  BY DEF LobbyIInv, TypeOK, OnLeave, Vanish, calls
<1>5. QED
  BY <1>3, <1>4 DEF LobbyIInv

\* onLeave, after its LREM.
LEMMA LeftKeeps ==
  ASSUME LobbyIInv, NEW c \in Clients, Left(c)
  PROVE  LobbyIInv'
<1>1. pool' = RemoveFirst(pool, c) /\ tables' = tables /\ conn' = conn
  BY DEF Left, client
<1>2. pool' \in Seq(Clients) /\ IsInjective(pool') /\ OnlyArrivals' /\ SeatedOnce'
  BY <1>1, LeavingKeeps
<1>3. waiting' \in [Rooms -> SUBSET Clients]
  BY DEF LobbyIInv, TypeOK, Left
<1>4. TypeOK'
  BY <1>2, <1>3 DEF LobbyIInv, TypeOK, Left, client
<1>5. QED
  BY <1>2, <1>4 DEF LobbyIInv

\* tryFormGroup asks for a whole table.
LEMMA FormingKeeps ==
  ASSUME LobbyIInv, NEW r \in Rooms, NEW c \in Clients, TryFormGroup(r, c)
  PROVE  LobbyIInv'
<1>1. SeatCount \in 1 .. SeatCount /\ conn' = conn
  BY LobbyAssumption DEF TryFormGroup, client
<1>2. /\ pool' \in Seq(Clients) /\ IsInjective(pool')
      /\ waiting' \in [Rooms -> SUBSET Clients] /\ tables' \subseteq Table
      /\ OnlyArrivals' /\ SeatedOnce'
  BY <1>1, PairKeeps DEF TryFormGroup
<1>3. TypeOK'
  BY <1>2 DEF LobbyIInv, TypeOK, TryFormGroup, client
<1>4. QED
  BY <1>2, <1>3 DEF LobbyIInv

\* The size degradation asks for: at least the client that has waited longest, and
\* less than a table.
LEMMA DegradingKeeps ==
  ASSUME LobbyIInv, NEW r \in Rooms, DegradeLongWaits(r)
  PROVE  LobbyIInv'
<1> USE DEF LobbyIInv
<1>1. IsFiniteSet(waiting[r])
  <2>1. IsFiniteSet(Clients)
    BY FS_Interval, LobbyAssumption DEF Clients
  <2>2. waiting[r] \subseteq Clients
    BY DEF TypeOK
  <2>3. QED
    BY <2>1, <2>2, FS_Subset
<1>2. Cardinality(waiting[r]) \in 1 .. SeatCount - 1
  <2>1. Cardinality(waiting[r]) \in Nat /\ Cardinality(waiting[r]) # 0
    BY <1>1, FS_CardinalityType, FS_EmptySet DEF DegradeLongWaits
  <2>2. QED
    BY <2>1, LobbyAssumption DEF DegradeLongWaits
<1>3. degrading' \in [Rooms -> Seq(1 .. SeatCount - 1)]
  BY <1>2 DEF DegradeLongWaits, TypeOK, HumansPresent
<1>4. TypeOK'
  BY <1>3 DEF TypeOK, DegradeLongWaits, client
<1>5. OnlyArrivals' /\ SeatedOnce'
  BY QueueStays DEF DegradeLongWaits, client, Come
<1>6. QED
  BY <1>4, <1>5

\* degradeLongWaits asks for the size it counted, whatever the queue is by now.
LEMMA DegradedKeeps ==
  ASSUME LobbyIInv, NEW r \in Rooms, Degraded(r)
  PROVE  LobbyIInv'
<1>1. /\ Head(degrading[r]) \in 1 .. SeatCount - 1
      /\ Tail(degrading[r]) \in Seq(1 .. SeatCount - 1)
  BY HeadTailProperties DEF LobbyIInv, TypeOK, Degraded
<1>2. Head(degrading[r]) \in 1 .. SeatCount /\ conn' = conn
  BY <1>1, LobbyAssumption DEF Degraded, client
<1>3. /\ pool' \in Seq(Clients) /\ IsInjective(pool')
      /\ waiting' \in [Rooms -> SUBSET Clients] /\ tables' \subseteq Table
      /\ OnlyArrivals' /\ SeatedOnce'
  BY <1>2, PairKeeps DEF Degraded
<1>4. degrading' \in [Rooms -> Seq(1 .. SeatCount - 1)]
  BY <1>1 DEF LobbyIInv, TypeOK, Degraded
<1>5. TypeOK'
  BY <1>3, <1>4 DEF LobbyIInv, TypeOK, Degraded, client
<1>6. QED
  BY <1>3, <1>5 DEF LobbyIInv

\* The loop of a sweep only forgets.
LEMMA ResumeTypes ==
  ASSUME TypeOK, NEW r \in Rooms, NEW ids \in Seq(Clients), Resume(r, ids)
  PROVE  /\ sweeping' \in [Rooms -> Seq(Clients)]
         /\ waiting' \in [Rooms -> SUBSET Clients]
         /\ \A q \in Rooms : waiting'[q] \subseteq waiting[q]
         /\ sweeping'[r] # <<>> => Dead(r, Head(sweeping'[r]))
         /\ \A q \in Rooms : q # r => sweeping'[q] = sweeping[q]
<1> DEFINE dead == { i \in DOMAIN ids : Dead(r, ids[i]) }
<1>1. CASE dead = {} /\ sweeping' = [sweeping EXCEPT ![r] = <<>>] /\ UNCHANGED waiting
  BY <1>1 DEF TypeOK
<1>2. ASSUME NEW next \in dead,
             sweeping' = [sweeping EXCEPT ![r] = SubSeq(ids, next, Len(ids))],
             waiting' = [waiting EXCEPT ![r] = @ \ {ids[next]}]
      PROVE  /\ sweeping' \in [Rooms -> Seq(Clients)]
             /\ waiting' \in [Rooms -> SUBSET Clients]
             /\ \A q \in Rooms : waiting'[q] \subseteq waiting[q]
             /\ Dead(r, Head(sweeping'[r]))
             /\ \A q \in Rooms : q # r => sweeping'[q] = sweeping[q]
  <2>1. next \in 1 .. Len(ids) /\ Len(ids) \in Nat /\ Dead(r, ids[next]) /\ ids[next] \in Clients
    OBVIOUS
  <2> DEFINE left == SubSeq(ids, next, Len(ids))
  <2>2. left \in Seq(Clients) /\ Head(left) = ids[next]
    BY <2>1, HeadTailOfSubSeq, SubSeqProperties
  <2> HIDE DEF left, dead
  <2>3. QED
    BY <1>2, <2>1, <2>2 DEF TypeOK, left
<1>3. QED
  BY <1>1, <1>2 DEF Resume

\* A sweep begins.
LEMMA SweepKeeps ==
  ASSUME LobbyIInv, NEW r \in Rooms, SweepZombies(r)
  PROVE  LobbyIInv'
<1>1. /\ sweeping' \in [Rooms -> Seq(Clients)] /\ waiting' \in [Rooms -> SUBSET Clients]
  BY ResumeTypes DEF LobbyIInv, TypeOK, SweepZombies
<1>2. TypeOK'
  BY <1>1 DEF LobbyIInv, TypeOK, SweepZombies, client
<1>3. OnlyArrivals' /\ SeatedOnce'
  BY QueueStays DEF SweepZombies, client, Come
<1>4. QED
  BY <1>2, <1>3 DEF LobbyIInv

\* A sweep removes its dead client and goes on.
LEMMA SweptKeeps ==
  ASSUME LobbyIInv, NEW r \in Rooms, Swept(r)
  PROVE  LobbyIInv'
<1>1. Tail(sweeping[r]) \in Seq(Clients)
  BY HeadTailProperties DEF LobbyIInv, TypeOK, Swept
<1>2. sweeping' \in [Rooms -> Seq(Clients)] /\ waiting' \in [Rooms -> SUBSET Clients]
  BY <1>1, ResumeTypes DEF LobbyIInv, Swept
<1>3. pool' = RemoveFirst(pool, Head(sweeping[r])) /\ tables' = tables /\ conn' = conn
  BY DEF Swept, client
<1>4. pool' \in Seq(Clients) /\ IsInjective(pool') /\ OnlyArrivals' /\ SeatedOnce'
  BY <1>3, LeavingKeeps
<1>5. TypeOK'
  BY <1>2, <1>4 DEF LobbyIInv, TypeOK, Swept, client
<1>6. QED
  BY <1>4, <1>5 DEF LobbyIInv

\* Whatever becomes of a group, it is the same clients.
LEMMA HandOffKeeps ==
  ASSUME LobbyIInv, NEW t \in tables, HandOff(t)
  PROVE  LobbyIInv'
<1>1. PICK how \in {"paired", "failed"} : tables' = (tables \ {t}) \cup {[t EXCEPT !.at = how]}
  BY DEF HandOff
<1> DEFINE u == [t EXCEPT !.at = how]
<1>2. t \in Table
  BY DEF LobbyIInv, TypeOK
<1>3. u \in Table /\ u.players = t.players
  BY <1>2 DEF Table
<1> HIDE DEF u
<1>4. /\ conn' = conn /\ pool' = pool /\ UNCHANGED <<client, waiting, calls>>
  BY DEF HandOff, client
<1>5. tables' = (tables \ {t}) \cup {u}
  BY <1>1 DEF u
<1>6. TypeOK'
  BY <1>3, <1>4, <1>5 DEF LobbyIInv, TypeOK, client, calls
<1>7. OnlyArrivals'
  BY <1>3, <1>4, <1>5 DEF LobbyIInv, OnlyArrivals, Come
<1>8. SeatedOnce'
  BY <1>3, <1>4, <1>5 DEF LobbyIInv, SeatedOnce
<1>9. QED
  BY <1>6, <1>7, <1>8 DEF LobbyIInv

\* Every step of any room or client keeps the queue injective and the groups apart.
THEOREM LobbyStepInv == LobbyIInv /\ [Next]_vars => LobbyIInv'
<1> SUFFICES ASSUME LobbyIInv, [Next]_vars PROVE LobbyIInv'
  OBVIOUS
<1>1. ASSUME NEW c \in Clients, OnLeave(c) \/ Left(c) \/ Vanish(c) PROVE LobbyIInv'
  BY <1>1, DepartureKeeps, LeftKeeps
<1>2. ASSUME NEW c \in Clients, NEW r \in Rooms, OnJoin(c, r) \/ TryFormGroup(r, c)
      PROVE  LobbyIInv'
  BY <1>2, JoinKeeps, FormingKeeps
<1>3. ASSUME NEW r \in Rooms,
             DegradeLongWaits(r) \/ Degraded(r) \/ SweepZombies(r) \/ Swept(r)
      PROVE  LobbyIInv'
  BY <1>3, DegradingKeeps, DegradedKeeps, SweepKeeps, SweptKeeps
<1>4. ASSUME NEW t \in tables, HandOff(t) PROVE LobbyIInv'
  BY <1>4, HandOffKeeps
<1>5. CASE UNCHANGED vars
  BY <1>5 DEF vars, client, calls, LobbyIInv, TypeOK, OnlyArrivals, SeatedOnce, Come, Table
<1>6. QED
  BY <1>1, <1>2, <1>3, <1>4, <1>5 DEF Next

-----------------------------------------------------------------------------
(* The results. *)

\* Queue, records and groups are of the types the code gives them, and nobody is queued
\* twice, however the calls of any number of rooms interleave.
THEOREM LobbyTyped == Spec => []TypeOK
<1>1. LobbyIInv => TypeOK
  BY DEF LobbyIInv
<1>2. QED
  BY <1>1, LobbyInitInv, LobbyStepInv, PTL DEF Spec

\* Nobody is handed to two matches, nor is anybody at a table still queued, with any
\* number of rooms over one queue, any number of clients and tables of any size.
THEOREM NobodySeatedTwice == Spec => []SeatedOnce
<1>1. LobbyIInv => SeatedOnce
  BY DEF LobbyIInv
<1>2. QED
  BY <1>1, LobbyInitInv, LobbyStepInv, PTL DEF Spec
----------------------------------------------------------------
-----------------------------------------------------------------------------
(* With one room nobody is forgotten.                                       *)
(*                                                                          *)
(* The room's record and the queue are written at different moments: what   *)
(* is taken out of the queue only is somebody whose connection is closed    *)
(* (Departed), and a group is taken out of both at once, which is where the *)
(* argument needs that no other room keeps a record of its members.         *)

OnlyComeWait == \A r \in Rooms : \A c \in waiting[r] : Come(c)

Departed ==
  /\ \A c \in leaving : conn[c] = "gone"
  /\ \A r \in Rooms : sweeping[r] # <<>> => conn[Head(sweeping[r])] = "gone"

Queued == \A r \in Rooms : \A c \in waiting[r] : conn[c] = "here" => c \in ToSet(pool)

QueuedIInv == LobbyIInv /\ OnlyComeWait /\ Departed /\ Queued

\* NobodyForgotten in terms of the set of those queued.
LEMMA QueuedIsFound == LobbyIInv /\ Queued => NobodyForgotten
  BY DEF LobbyIInv, TypeOK, Queued, NobodyForgotten, Contains, ToSet

\* At first nobody waits.
LEMMA QueuedInit == Init => QueuedIInv
<1> SUFFICES ASSUME Init PROVE QueuedIInv
  OBVIOUS
<1>1. OnlyComeWait /\ Departed /\ Queued
  BY DEF Init, OnlyComeWait, Departed, Queued
<1>2. QED
  BY <1>1, LobbyInitInv DEF QueuedIInv

\* A pop of the only room there is.
LEMMA PairFindsAll ==
  ASSUME QueuedIInv, NEW r \in Rooms, Rooms = {r}, NEW n \in 1 .. SeatCount,
         TryPairSeats(r, n), conn' = conn
  PROVE  OnlyComeWait' /\ Queued'
<1> USE DEF QueuedIInv
<1>1. CASE Len(pool) < n
  BY <1>1 DEF TryPairSeats, OnlyComeWait, Queued, Come
<1>2. CASE ~ (Len(pool) < n)
  <2> DEFINE group == SubSeq(pool, 1, n)
  <2>1. /\ pool' = Pop(n)
        /\ waiting' = [waiting EXCEPT ![r] = waiting[r] \ ToSet(group)]
    BY <1>2 DEF TryPairSeats, StillWaiting
  <2>2. n \in Nat /\ Len(pool) \in Nat
    BY LobbyAssumption DEF LobbyIInv, TypeOK
  <2>3. ToSet(group) \cup ToSet(Pop(n)) = ToSet(pool)
    BY <1>2, <2>2, PopSplits DEF LobbyIInv
  <2> HIDE DEF group
  <2>4. waiting'[r] = waiting[r] \ ToSet(group)
    BY <2>1 DEF LobbyIInv, TypeOK
  <2>5. QED
    BY <2>1, <2>3, <2>4 DEF OnlyComeWait, Queued, Come
<1>3. QED
  BY <1>1, <1>2

\* Somebody who is gone leaves the queue; the record only shrinks.
LEMMA LeavingFindsAll ==
  ASSUME QueuedIInv, NEW c, conn[c] = "gone", pool' = RemoveFirst(pool, c), conn' = conn,
         \A r \in Rooms : waiting'[r] \subseteq waiting[r]
  PROVE  OnlyComeWait' /\ Queued'
<1>1. ToSet(RemoveFirst(pool, c)) = ToSet(pool) \ {c}
  BY QueueLoses DEF QueuedIInv, LobbyIInv, TypeOK
<1>2. QED
  BY <1>1 DEF QueuedIInv, OnlyComeWait, Queued, Come

\* Every step of the only room and its clients.
LEMMA QueuedStep ==
  ASSUME NEW r, Rooms = {r}, QueuedIInv, [Next]_vars
  PROVE  QueuedIInv'
<1> USE DEF QueuedIInv
<1>1. LobbyIInv'
  BY LobbyStepInv
<1>2. ASSUME NEW c \in Clients, OnJoin(c, r) PROVE QueuedIInv'
  <2>1. c \notin ToSet(pool) /\ c \notin leaving /\ conn[c] = "away"
    BY <1>2 DEF OnJoin, LobbyIInv, OnlyArrivals, Come, Departed
  <2>2. ToSet(pool') = ToSet(pool) \cup {c}
    BY <1>2, <2>1, QueueGains DEF OnJoin, LobbyIInv, TypeOK
  <2>3. /\ conn'[c] # "away" /\ \A d \in Clients \ {c} : conn'[d] = conn[d]
        /\ waiting'[r] = waiting[r] \cup {c}
        /\ leaving' = leaving /\ sweeping' = sweeping
    BY <1>2 DEF OnJoin, LobbyIInv, TypeOK
  <2>4. waiting[r] \subseteq Clients /\ leaving \subseteq Clients
    BY DEF LobbyIInv, TypeOK
  <2>5. sweeping[r] # <<>> => Head(sweeping[r]) \in Clients \ {c}
    BY <2>1, HeadTailProperties DEF LobbyIInv, TypeOK, Departed
  <2>6. OnlyComeWait' /\ Queued'
    BY <2>2, <2>3, <2>4 DEF OnlyComeWait, Queued, Come
  <2>7. Departed'
    BY <2>1, <2>3, <2>4, <2>5 DEF Departed
  <2>8. QED
    BY <1>1, <2>6, <2>7
<1>3. ASSUME NEW c \in Clients, OnLeave(c) \/ Vanish(c) PROVE QueuedIInv'
  <2>1. /\ conn' = [conn EXCEPT ![c] = "gone"] /\ pool' = pool /\ waiting' = waiting
        /\ leaving' \subseteq leaving \cup {c} /\ sweeping' = sweeping
    BY <1>3 DEF OnLeave, Vanish, calls
  <2>2. waiting[r] \subseteq Clients /\ leaving \subseteq Clients
    BY DEF LobbyIInv, TypeOK
  <2>3. conn'[c] = "gone" /\ \A d \in Clients \ {c} : conn'[d] = conn[d]
    BY <2>1 DEF LobbyIInv, TypeOK
  <2>4. sweeping[r] # <<>> => Head(sweeping[r]) \in Clients
    BY HeadTailProperties DEF LobbyIInv, TypeOK
  <2>5. OnlyComeWait' /\ Queued' /\ Departed'
    BY <2>1, <2>2, <2>3, <2>4 DEF OnlyComeWait, Queued, Departed, Come
  <2>6. QED
    BY <1>1, <2>5
<1>4. ASSUME NEW c \in Clients, Left(c) PROVE QueuedIInv'
  <2>1. /\ conn' = conn /\ conn[c] = "gone" /\ pool' = RemoveFirst(pool, c)
        /\ leaving' \subseteq leaving /\ sweeping' = sweeping
    BY <1>4 DEF Left, client, Departed
  <2>2. waiting'[r] \subseteq waiting[r]
    BY <1>4 DEF Left, LobbyIInv, TypeOK
  <2>3. OnlyComeWait' /\ Queued'
    BY <2>1, <2>2, LeavingFindsAll
  <2>4. Departed'
    BY <2>1 DEF Departed
  <2>5. QED
    BY <1>1, <2>3, <2>4
<1>5. ASSUME NEW c \in Clients, TryFormGroup(r, c) PROVE QueuedIInv'
  <2>1. /\ conn' = conn /\ leaving' = leaving /\ sweeping' = sweeping
        /\ TryPairSeats(r, SeatCount) /\ SeatCount \in 1 .. SeatCount
    BY <1>5, LobbyAssumption DEF TryFormGroup, client
  <2>2. OnlyComeWait' /\ Queued'
    BY <2>1, PairFindsAll
  <2>3. Departed'
    BY <2>1 DEF Departed
  <2>4. QED
    BY <1>1, <2>2, <2>3
<1>6. CASE Degraded(r)
  <2>1. Head(degrading[r]) \in 1 .. SeatCount - 1
    BY <1>6, HeadTailProperties DEF LobbyIInv, TypeOK, Degraded
  <2>2. /\ conn' = conn /\ leaving' = leaving /\ sweeping' = sweeping
        /\ TryPairSeats(r, Head(degrading[r])) /\ Head(degrading[r]) \in 1 .. SeatCount
    BY <1>6, <2>1, LobbyAssumption DEF Degraded, client
  <2>3. OnlyComeWait' /\ Queued'
    BY <2>2, PairFindsAll
  <2>4. Departed'
    BY <2>2 DEF Departed
  <2>5. QED
    BY <1>1, <2>3, <2>4
<1>7. CASE SweepZombies(r)
  <2>1. /\ conn' = conn /\ pool' = pool /\ leaving' = leaving /\ Resume(r, pool)
    BY <1>7 DEF SweepZombies, client
  <2>2. /\ waiting'[r] \subseteq waiting[r]
        /\ sweeping'[r] # <<>> => Dead(r, Head(sweeping'[r]))
    BY <2>1, ResumeTypes DEF LobbyIInv, TypeOK
  <2>3. OnlyComeWait' /\ Queued'
    BY <2>1, <2>2 DEF OnlyComeWait, Queued, Come
  <2>4. \A c \in waiting[r] : conn[c] \in {"here", "gone"}
    BY DEF OnlyComeWait, Come, LobbyIInv, TypeOK
  <2>5. Departed'
    BY <2>1, <2>2, <2>4 DEF Departed, Dead
  <2>6. QED
    BY <1>1, <2>3, <2>5
<1>8. CASE Swept(r)
  <2>1. /\ conn' = conn /\ leaving' = leaving /\ Resume(r, Tail(sweeping[r]))
        /\ conn[Head(sweeping[r])] = "gone"
        /\ pool' = RemoveFirst(pool, Head(sweeping[r])) /\ Tail(sweeping[r]) \in Seq(Clients)
    BY <1>8, HeadTailProperties DEF Swept, client, Departed, LobbyIInv, TypeOK
  <2>2. /\ waiting'[r] \subseteq waiting[r]
        /\ sweeping'[r] # <<>> => Dead(r, Head(sweeping'[r]))
    BY <2>1, ResumeTypes DEF LobbyIInv
  <2>3. OnlyComeWait' /\ Queued'
    BY <2>1, <2>2, LeavingFindsAll
  <2>4. \A c \in waiting[r] : conn[c] \in {"here", "gone"}
    BY DEF OnlyComeWait, Come, LobbyIInv, TypeOK
  <2>5. Departed'
    BY <2>1, <2>2, <2>4 DEF Departed, Dead
  <2>6. QED
    BY <1>1, <2>3, <2>5
<1>9. CASE DegradeLongWaits(r) \/ (\E t \in tables : HandOff(t)) \/ UNCHANGED vars
  <2>1. conn' = conn /\ pool' = pool /\ waiting' = waiting /\ leaving' = leaving /\ sweeping' = sweeping
    BY <1>9 DEF DegradeLongWaits, HandOff, vars, client, calls
  <2>2. OnlyComeWait' /\ Queued' /\ Departed'
    BY <2>1 DEF OnlyComeWait, Queued, Departed, Come
  <2>3. QED
    BY <1>1, <2>2
<1>10. QED
  BY <1>2, <1>3, <1>4, <1>5, <1>6, <1>7, <1>8, <1>9 DEF Next

\* Where one room has the queue to itself, a connected client that it holds as waiting
\* can always be matched, through any leaves, sweeps and degradations.  With two rooms
\* that is false.
THEOREM OneRoomForgetsNobody ==
  ASSUME NEW r, Rooms = {r}
  PROVE  Spec => []NobodyForgotten
<1>1. QueuedIInv => NobodyForgotten
  BY QueuedIsFound DEF QueuedIInv
<1>2. QueuedIInv /\ [Next]_vars => QueuedIInv'
  BY QueuedStep
<1>3. QED
  BY <1>1, <1>2, QueuedInit, PTL DEF Spec
=============================================================================
