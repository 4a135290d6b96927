--------------------------- MODULE MatchRoomProofs ---------------------------
(***************************************************************************)
(* Proofs about MatchRoom, for any number of seats and any game that meets *)
(* GameAssumption and ModuleAssumption.                                    *)
(***************************************************************************)
EXTENDS MatchRoom, FiniteSetTheorems, TLAPS

-----------------------------------------------------------------------------
(* Operators. *)

\* The seat FirstIn picks is one of those asked for, or none.
LEMMA FirstInType ==
  ASSUME NEW o \in Seq(Seats), NEW S
  PROVE  /\ FirstIn(o, S) \in Seats \cup {NoSeat}
         /\ FirstIn(o, S) # NoSeat => FirstIn(o, S) \in S
<1> DEFINE Leads(i) == o[i] \in S /\ \A j \in 1 .. i - 1 : o[j] \notin S
<1> DEFINE c == CHOOSE i \in DOMAIN o : Leads(i)
<1>3. (\E i \in DOMAIN o : Leads(i)) => c \in DOMAIN o /\ Leads(c)
  BY Zenon
<1>4. FirstIn(o, S) = IF \E i \in DOMAIN o : Leads(i) THEN o[c] ELSE NoSeat
  BY Zenon DEF FirstIn
<1>5. \A i \in DOMAIN o : o[i] \in Seats
  OBVIOUS
<1>6. QED
  BY <1>3, <1>4, <1>5

\* The seat due a clock is a seat, and only a live match has one.
LEMMA DueType ==
  ASSUME NEW g \in GameStates, NEW o \in Seq(Seats), NEW k
  PROVE  /\ Due(g, o, k) \in Seats \cup {NoSeat}
         /\ Due(g, o, k) # NoSeat => ~Over(g)
BY FirstInType, GameAssumption DEF Due, SeatOnTheClock, Finished

\* A broadcast of a match leaves a clock only on a live one, a consult only
\* under a clock, and neither in a disposed room that had neither.
LEMMA BroadcastSafe ==
  ASSUME NEW g \in GameStates, NEW o \in Seq(Seats), NEW k,
         NEW c \in Consult \cup {NoConsult},
         clock \in Seats \cup {NoSeat},
         NothingOutlivesRoom,
         disposed => c = NoConsult,
         BroadcastTo(g, o, k, c)
  PROVE  /\ clock' \in Seats \cup {NoSeat}
         /\ consult' \in {c, NoConsult}
         /\ clock' # NoSeat => ~Over(g)
         /\ consult' # NoConsult => clock' # NoSeat
         /\ disposed => clock' = NoSeat /\ consult' = NoConsult
<1>1. g # NotStarted
  BY GameAssumption
<1>2. CASE disposed
  BY <1>1, <1>2 DEF BroadcastTo, NothingOutlivesRoom
<1>3. CASE ~disposed
  BY <1>1, <1>3, DueType DEF BroadcastTo, Arm
<1>4. QED
  BY <1>2, <1>3

-----------------------------------------------------------------------------
(* The inductive invariant, one part per group of variables. *)

TableOK ==
  /\ game \in GameStates \cup {NotStarted}
  /\ clock \in Seats \cup {NoSeat}
  /\ consult \in Consult \cup {NoConsult}
  /\ disposed \in BOOLEAN
  /\ ClockOnLiveMatch /\ ConsultUnderClock /\ NothingOutlivesRoom

PeopleOK ==
  /\ order \in Seq(Seats)
  /\ kind \in [Seats -> {"empty", "human", "bot"}]
  /\ link \in [Seats -> {"none", "live", "window", "gone"}]

QueueOK ==
  /\ chain \in Seq(Task)
  /\ \A i \in DOMAIN chain :
       chain[i].kind = "advance" /\ chain[i].reply # NoReply => Started

JobOK ==
  /\ job \in Job
  /\ Owing(job) => Started
  /\ HeldMovesWereLegal

AdviceOK ==
  /\ consultSeq \in Nat
  /\ opinions \subseteq Opinion
  /\ advised \in Seq(Nat \ {0})
  /\ bought \subseteq Seats
  /\ ConsultsCounted /\ AnsweredOnce

RoomInv == TableOK /\ PeopleOK /\ QueueOK /\ JobOK /\ AdviceOK

LEMMA Initially == Init => RoomInv
<1> SUFFICES ASSUME Init PROVE RoomInv
  OBVIOUS
<1> USE RoomAssumption, GameAssumption
<1>1. TableOK
  BY DEF Init, TableOK, ClockOnLiveMatch, ConsultUnderClock, NothingOutlivesRoom
<1>2. PeopleOK
  <2>1. order \in Seq(Seats)
    BY DEF Init, Seats
  <2>2. QED
    BY <2>1 DEF Init, PeopleOK, Seats
<1>3. QueueOK
  BY DEF Init, QueueOK
<1>4. JobOK
  BY DEF Init, JobOK, Idle, Job, Owing, HeldMovesWereLegal
<1>5. AdviceOK
  BY DEF Init, AdviceOK, ConsultsCounted, AnsweredOnce
<1>6. QED
  BY <1>1, <1>2, <1>3, <1>4, <1>5 DEF RoomInv

\* Showing a state of the game keeps the table in order.
LEMMA ShowSafe ==
  ASSUME RoomInv, disposed' = disposed, NEW g \in GameStates, Show(g)
  PROVE  /\ TableOK'
         /\ consult' \in {consult, NoConsult}
         /\ Started'
<1>1. /\ clock \in Seats \cup {NoSeat}
      /\ consult \in Consult \cup {NoConsult}
      /\ order \in Seq(Seats)
      /\ NothingOutlivesRoom
      /\ disposed \in BOOLEAN
  BY DEF RoomInv, TableOK, PeopleOK
<1>2. disposed => consult = NoConsult
  BY <1>1 DEF NothingOutlivesRoom
<1>3. game' = g /\ BroadcastTo(g, order, kind, consult)
  BY DEF Show
<1>4. /\ clock' \in Seats \cup {NoSeat}
      /\ consult' \in {consult, NoConsult}
      /\ clock' # NoSeat => ~Over(g)
      /\ consult' # NoConsult => clock' # NoSeat
      /\ disposed => clock' = NoSeat /\ consult' = NoConsult
  BY <1>1, <1>2, <1>3, BroadcastSafe
<1>5. g # NotStarted
  BY GameAssumption
<1>6. QED
  BY <1>1, <1>3, <1>4, <1>5
  DEF TableOK, ClockOnLiveMatch, ConsultUnderClock, NothingOutlivesRoom, Started, Finished

\* Withdrawing the consult disturbs none of the bookkeeping of its ids.
LEMMA AdviceKept ==
  ASSUME RoomInv, UNCHANGED advice, consult' \in {consult, NoConsult}
  PROVE  AdviceOK'
BY DEF RoomInv, AdviceOK, advice, ConsultsCounted, AnsweredOnce

\* A queue that is not shown anything new stays in order while the match does.
LEMMA QueueKept ==
  ASSUME RoomInv, UNCHANGED chain, Started => Started'
  PROVE  QueueOK'
BY DEF RoomInv, QueueOK

LEMMA QueueGrows ==
  ASSUME RoomInv, NEW t \in Task, chain' = Append(chain, t), Started => Started',
         t.kind = "advance" /\ t.reply # NoReply => Started'
  PROVE  QueueOK'
<1>1. chain \in Seq(Task)
  BY DEF RoomInv, QueueOK
<1>2. /\ chain' \in Seq(Task)
      /\ \A i \in DOMAIN chain' : chain'[i] = t \/ (i \in DOMAIN chain /\ chain'[i] = chain[i])
  BY <1>1
<1>3. QED
  BY <1>2 DEF RoomInv, QueueOK

LEMMA JobKept ==
  ASSUME RoomInv, UNCHANGED job, Started => Started'
  PROVE  JobOK'
BY DEF RoomInv, JobOK, HeldMovesWereLegal

\* A job that moves on and changes nothing else.
LEMMA BecomesSafe ==
  ASSUME RoomInv, NEW j \in Job, Becomes(j), Owing(j) => Started,
         j.at \in {"botTurn", "timeout"} =>
           j.options \subseteq UNION { Legal(h, j.seat) : h \in GameStates },
         j.at = "pause" => j.move \in UNION { SystemMoves(h) : h \in GameStates }
  PROVE  RoomInv'
<1>1. /\ UNCHANGED <<game, order, kind, link, clock, consult, chain, disposed>>
      /\ UNCHANGED advice
      /\ job' = j
  BY DEF Becomes, seating, timing
<1>2. TableOK'
  BY <1>1 DEF RoomInv, TableOK, ClockOnLiveMatch, ConsultUnderClock, NothingOutlivesRoom,
     Started, Finished
<1>3. PeopleOK'
  BY <1>1 DEF RoomInv, PeopleOK
<1>4. Started' = Started
  BY <1>1 DEF Started
<1>5. QueueOK'
  BY <1>1, <1>4, QueueKept
<1>6. JobOK'
  BY <1>1, <1>4 DEF JobOK, HeldMovesWereLegal
<1>7. AdviceOK'
  BY <1>1, AdviceKept
<1>8. QED
  BY <1>2, <1>3, <1>5, <1>6, <1>7 DEF RoomInv

-----------------------------------------------------------------------------
(* Seating. *)

LEMMA JoinSafe == ASSUME RoomInv, NEW s \in Seats, Join(s) PROVE RoomInv'
<1>1. /\ order' \in Seq(Seats)
      /\ PeopleOK'
  BY DEF Join, RoomInv, PeopleOK
<1>2. UNCHANGED <<job, advice, disposed>>
  BY DEF Join
<1>3. CASE Len(order') = SeatCount
  <2>1. /\ game' = FirstState
        /\ BroadcastTo(FirstState, order', kind', consult)
        /\ chain' = Append(chain, Advance(NoReply))
    BY <1>3 DEF Join
  <2>2. /\ clock \in Seats \cup {NoSeat}
        /\ consult \in Consult \cup {NoConsult}
        /\ disposed \in BOOLEAN
        /\ NothingOutlivesRoom
    BY DEF RoomInv, TableOK
  <2>3. disposed => consult = NoConsult
    BY <2>2 DEF NothingOutlivesRoom
  <2>4. FirstState \in GameStates /\ FirstState # NotStarted
    BY GameAssumption
  <2>5. /\ clock' \in Seats \cup {NoSeat}
        /\ consult' \in {consult, NoConsult}
        /\ clock' # NoSeat => ~Over(FirstState)
        /\ consult' # NoConsult => clock' # NoSeat
        /\ disposed => clock' = NoSeat /\ consult' = NoConsult
    BY <1>1, <2>1, <2>2, <2>3, <2>4, BroadcastSafe
  <2>6. TableOK' /\ Started'
    BY <1>2, <2>1, <2>2, <2>4, <2>5
    DEF TableOK, ClockOnLiveMatch, ConsultUnderClock, NothingOutlivesRoom, Started, Finished
  <2>7. Advance(NoReply) \in Task
    BY DEF Advance, Task
  <2>8. QueueOK'
    BY <2>1, <2>6, <2>7, QueueGrows
  <2>9. JobOK' /\ AdviceOK'
    BY <1>2, <2>5, <2>6, JobKept, AdviceKept
  <2>10. QED
    BY <1>1, <2>6, <2>8, <2>9 DEF RoomInv
<1>4. CASE Len(order') # SeatCount
  <2>1. UNCHANGED <<game, clock, consult, chain>>
    BY <1>4 DEF Join, timing
  <2>2. TableOK' /\ Started' = Started
    BY <1>2, <2>1 DEF RoomInv, TableOK, ClockOnLiveMatch, ConsultUnderClock,
       NothingOutlivesRoom, Started, Finished
  <2>3. QueueOK' /\ JobOK' /\ AdviceOK'
    BY <1>2, <2>1, <2>2, QueueKept, JobKept, AdviceKept
  <2>4. QED
    BY <1>1, <2>2, <2>3 DEF RoomInv
<1>5. QED
  BY <1>3, <1>4

LEMMA RewireSafe ==
  ASSUME RoomInv, NEW s \in Seats, NEW from, NEW to \in {"live", "window"}, Rewire(s, from, to)
  PROVE  RoomInv'
<1>1. /\ UNCHANGED <<game, order, kind, clock, consult, chain, job, disposed>>
      /\ UNCHANGED advice
      /\ link' = [link EXCEPT ![s] = to]
  BY DEF Rewire, controllers, timing
<1>2. TableOK' /\ Started' = Started
  BY <1>1 DEF RoomInv, TableOK, ClockOnLiveMatch, ConsultUnderClock, NothingOutlivesRoom,
     Started, Finished
<1>3. PeopleOK'
  BY <1>1 DEF RoomInv, PeopleOK
<1>4. QueueOK' /\ JobOK' /\ AdviceOK'
  BY <1>1, <1>2, QueueKept, JobKept, AdviceKept
<1>5. QED
  BY <1>2, <1>3, <1>4 DEF RoomInv

\* The module's answer to an abandoned seat is a state of the game or a refusal.
LEMMA AbandonedType ==
  ASSUME game \in GameStates \cup {NotStarted}, NEW s \in Seats
  PROVE  Abandoned(s) \in GameStates \cup {Refused}
BY GameAssumption DEF Abandoned, Live, Started

LEMMA TakeOverSafe ==
  ASSUME RoomInv, NEW s \in Seats, TakeOver(s),
         link' \in [Seats -> {"none", "live", "window", "gone"}]
  PROVE  RoomInv'
<1>1. UNCHANGED <<order, job, advice, disposed>>
  BY DEF TakeOver
<1>2. TableOK' /\ consult' \in {consult, NoConsult} /\ (Started => Started')
  <2>1. CASE Abandoned(s) = Refused
    <3>1. UNCHANGED <<game, clock, consult>>
      BY <2>1 DEF TakeOver, timing
    <3>2. QED
      BY <1>1, <3>1 DEF RoomInv, TableOK, ClockOnLiveMatch, ConsultUnderClock,
         NothingOutlivesRoom, Started, Finished
  <2>2. CASE Abandoned(s) # Refused
    <3>1. Abandoned(s) \in GameStates /\ Show(Abandoned(s))
      BY <2>2, AbandonedType DEF TakeOver, RoomInv, TableOK
    <3>2. QED
      BY <1>1, <3>1, ShowSafe
  <2>3. QED
    BY <2>1, <2>2
<1>3. PeopleOK'
  BY <1>1 DEF TakeOver, RoomInv, PeopleOK
<1>4. QueueOK'
  <2>1. CASE chain' = chain
    BY <1>2, <2>1, QueueKept
  <2>2. CASE ~(Finished(game') \/ ~HasBot)
    <3>1. DEFINE asked == IF consult' # NoConsult /\ consult'.partner = s
                            THEN <<[kind |-> "fallback", id |-> consult'.id]>> ELSE <<>>
    <3>2. chain' = chain \o asked \o <<Advance(NoReply)>>
      BY <2>2 DEF TakeOver
    <3>3. asked \in Seq(Task) /\ \A i \in DOMAIN asked : asked[i].kind = "fallback"
      <4>1. CASE consult' # NoConsult /\ consult'.partner = s
        <5>1. consult'.id \in Nat \ {0}
          BY <1>2, <4>1 DEF TableOK, Consult
        <5>2. [kind |-> "fallback", id |-> consult'.id] \in Task
          BY <5>1 DEF Task
        <5>3. QED
          BY <4>1, <5>2
      <4>2. CASE ~(consult' # NoConsult /\ consult'.partner = s)
        BY <4>2
      <4>3. QED
        BY <4>1, <4>2
    <3>4. <<Advance(NoReply)>> \in Seq(Task)
      BY DEF Advance, Task
    <3>5. chain \in Seq(Task)
      BY DEF RoomInv, QueueOK
    <3> HIDE DEF asked
    <3>6. chain' \in Seq(Task)
      BY <3>2, <3>3, <3>4, <3>5
    <3>7. \A i \in DOMAIN chain' :
            \/ i \in DOMAIN chain /\ chain'[i] = chain[i]
            \/ chain'[i].kind = "fallback"
            \/ chain'[i] = Advance(NoReply)
      BY <3>2, <3>3, <3>4, <3>5
    <3>8. QED
      BY <1>2, <3>6, <3>7 DEF RoomInv, QueueOK, Advance
  <2>3. QED
    BY <2>1, <2>2 DEF TakeOver
<1>5. JobOK' /\ AdviceOK'
  BY <1>1, <1>2, JobKept, AdviceKept
<1>6. QED
  BY <1>2, <1>3, <1>4, <1>5 DEF RoomInv

LEMMA WindowExpiresSafe == ASSUME RoomInv, NEW s \in Seats, WindowExpires(s) PROVE RoomInv'
BY TakeOverSafe DEF WindowExpires, RoomInv, PeopleOK

LEMMA QuitSafe == ASSUME RoomInv, NEW s \in Seats, Quit(s) PROVE RoomInv'
BY TakeOverSafe DEF Quit, RoomInv, PeopleOK

LEMMA DisposeSafe == ASSUME RoomInv, Dispose PROVE RoomInv'
<1>1. /\ UNCHANGED <<game, order, kind, chain, job>>
      /\ UNCHANGED advice
      /\ disposed' = TRUE /\ clock' = NoSeat /\ consult' = NoConsult
  BY DEF Dispose, controllers, ClearClock
<1>2. TableOK' /\ Started' = Started
  BY <1>1 DEF RoomInv, TableOK, ClockOnLiveMatch, ConsultUnderClock, NothingOutlivesRoom, Started
<1>3. PeopleOK'
  BY <1>1 DEF Dispose, RoomInv, PeopleOK
<1>4. QueueOK' /\ JobOK' /\ AdviceOK'
  BY <1>1, <1>2, QueueKept, JobKept, AdviceKept
<1>5. QED
  BY <1>2, <1>3, <1>4 DEF RoomInv

-----------------------------------------------------------------------------
(* Messages and timers. *)

LEMMA AcceptSafe ==
  ASSUME RoomInv, NEW s \in Seats, NEW a, NEW reply \in Reply \cup {NoReply},
         Accept(s, a, reply)
  PROVE  RoomInv'
<1>1. /\ UNCHANGED <<order, kind, link, job, disposed>>
      /\ UNCHANGED advice
      /\ chain' = Append(chain, Advance(reply))
  BY DEF Accept, seating
<1>2. game \in GameStates /\ a \in Legal(game, s)
  BY DEF Accept, MayPlay, Started, RoomInv, TableOK
<1>3. Apply(game, a) \in GameStates
  BY <1>2, GameAssumption DEF Accept, MayPlay
<1>4. TableOK' /\ consult' \in {consult, NoConsult} /\ Started'
  BY <1>1, <1>3, ShowSafe DEF Accept
<1>5. Advance(reply) \in Task
  BY DEF Advance, Task
<1>6. QueueOK'
  BY <1>1, <1>4, <1>5, QueueGrows
<1>7. PeopleOK' /\ JobOK' /\ AdviceOK'
  BY <1>1, <1>4, JobKept, AdviceKept DEF RoomInv, PeopleOK
<1>8. QED
  BY <1>4, <1>6, <1>7 DEF RoomInv

LEMMA HandleActionSafe ==
  ASSUME RoomInv, NEW s \in Seats, NEW a \in Actions, HandleAction(s, a)
  PROVE  RoomInv'
BY AcceptSafe DEF HandleAction

LEMMA HandleConsultSafe ==
  ASSUME RoomInv, NEW s \in Seats, NEW a \in PaidQuestion, HandleConsult(s, a)
  PROVE  RoomInv'
<1>1. [asker |-> s, about |-> SubjectOf(a)] \in Reply
  BY DEF Reply, Subjects
<1>2. QED
  BY <1>1, AcceptSafe DEF HandleConsult

\* An answered consult is closed, and its id is never answered again.
LEMMA ResolveSafe ==
  ASSUME RoomInv, consult # NoConsult, Resolve,
         UNCHANGED <<game, consultSeq, opinions, bought, disposed>>
  PROVE  TableOK' /\ AdviceOK'
<1>1. /\ game \in GameStates
      /\ clock \in Seats \cup {NoSeat}
      /\ consult \in Consult
      /\ order \in Seq(Seats)
      /\ NothingOutlivesRoom
      /\ disposed \in BOOLEAN
  BY DEF RoomInv, TableOK, PeopleOK, ClockOnLiveMatch, ConsultUnderClock, Started
<1>2. BroadcastTo(game, order, kind, NoConsult)
  BY DEF Resolve
<1>3. /\ clock' \in Seats \cup {NoSeat}
      /\ consult' = NoConsult
      /\ clock' # NoSeat => ~Over(game)
      /\ disposed => clock' = NoSeat
  BY <1>1, <1>2, BroadcastSafe
<1>4. TableOK'
  BY <1>1, <1>3, GameAssumption
  DEF TableOK, ClockOnLiveMatch, ConsultUnderClock, NothingOutlivesRoom, Started, Finished
<1>5. /\ advised \in Seq(Nat \ {0})
      /\ consultSeq \in Nat
      /\ consult.id \in Nat \ {0}
      /\ consult.id <= consultSeq
      /\ \A i \in DOMAIN advised : advised[i] <= consultSeq /\ advised[i] < consult.id
      /\ AnsweredOnce
  BY <1>1 DEF RoomInv, AdviceOK, ConsultsCounted, Consult
<1>6. ASSUME advised' = advised PROVE AdviceOK'
  BY <1>3, <1>5, <1>6 DEF RoomInv, AdviceOK, ConsultsCounted, AnsweredOnce
<1>7. ASSUME advised' = Append(advised, consult.id) PROVE AdviceOK'
  <2>1. /\ advised' \in Seq(Nat \ {0})
        /\ DOMAIN advised' = 1 .. Len(advised) + 1
        /\ \A i \in 1 .. Len(advised) : advised'[i] = advised[i]
        /\ advised'[Len(advised) + 1] = consult.id
        /\ Len(advised) \in Nat /\ DOMAIN advised = 1 .. Len(advised)
    BY <1>5, <1>7
  <2>2. \A i \in DOMAIN advised' : advised'[i] <= consultSeq
    BY <1>5, <2>1
  <2>3. ASSUME NEW i \in DOMAIN advised', NEW j \in DOMAIN advised', i < j
        PROVE  advised'[i] < advised'[j]
    <3>1. i \in DOMAIN advised
      BY <2>1, <2>3
    <3>2. CASE j = Len(advised) + 1
      BY <1>5, <2>1, <3>1, <3>2
    <3>3. CASE j \in DOMAIN advised
      BY <1>5, <2>1, <2>3, <3>1, <3>3 DEF AnsweredOnce
    <3>4. QED
      BY <2>1, <3>2, <3>3
  <2>4. AnsweredOnce'
    BY <2>3 DEF AnsweredOnce
  <2>5. ConsultsCounted'
    BY <1>3, <2>2 DEF ConsultsCounted
  <2>6. QED
    BY <2>1, <2>4, <2>5 DEF RoomInv, AdviceOK
<1>8. QED
  BY <1>4, <1>6, <1>7 DEF Resolve

LEMMA HandleConsultAnswerSafe ==
  ASSUME RoomInv, NEW s \in Seats, HandleConsultAnswer(s) PROVE RoomInv'
<1>1. /\ UNCHANGED <<game, order, kind, link, chain, job, consultSeq, opinions, bought, disposed>>
      /\ consult # NoConsult /\ Resolve
  BY DEF HandleConsultAnswer, seating
<1>2. TableOK' /\ AdviceOK' /\ Started' = Started
  BY <1>1, ResolveSafe DEF Started
<1>3. PeopleOK' /\ QueueOK' /\ JobOK'
  BY <1>1, <1>2, QueueKept, JobKept DEF RoomInv, PeopleOK
<1>4. QED
  BY <1>2, <1>3 DEF RoomInv

LEMMA OpinionArrivesSafe ==
  ASSUME RoomInv, NEW o \in opinions, OpinionArrives(o) PROVE RoomInv'
<1>1. /\ UNCHANGED <<game, order, kind, link, clock, consult, chain, job, disposed>>
      /\ UNCHANGED <<consultSeq, advised, bought>>
      /\ opinions' = opinions \ {o}
  BY DEF OpinionArrives, seating, timing
<1>2. TableOK' /\ Started' = Started
  BY <1>1 DEF RoomInv, TableOK, ClockOnLiveMatch, ConsultUnderClock, NothingOutlivesRoom,
     Started, Finished
<1>3. AdviceOK'
  BY <1>1 DEF RoomInv, AdviceOK, ConsultsCounted, AnsweredOnce
<1>4. PeopleOK' /\ QueueOK' /\ JobOK'
  BY <1>1, <1>2, QueueKept, JobKept DEF RoomInv, PeopleOK
<1>5. QED
  BY <1>2, <1>3, <1>4 DEF RoomInv

LEMMA TurnExpiresSafe == ASSUME RoomInv, TurnExpires PROVE RoomInv'
<1>1. /\ UNCHANGED <<game, order, kind, link, job, disposed>>
      /\ UNCHANGED advice
      /\ clock' = NoSeat /\ consult' = NoConsult
      /\ clock # NoSeat
      /\ chain' = Append(chain, [kind |-> "timeout", seat |-> clock])
  BY DEF TurnExpires, seating, ClearClock
<1>2. TableOK' /\ Started' = Started
  BY <1>1 DEF RoomInv, TableOK, ClockOnLiveMatch, ConsultUnderClock, NothingOutlivesRoom, Started
<1>3. [kind |-> "timeout", seat |-> clock] \in Task
  BY <1>1 DEF RoomInv, TableOK, Task
<1>4. QueueOK'
  BY <1>1, <1>2, <1>3, QueueGrows
<1>5. PeopleOK' /\ JobOK' /\ AdviceOK'
  BY <1>1, <1>2, JobKept, AdviceKept DEF RoomInv, PeopleOK
<1>6. QED
  BY <1>2, <1>4, <1>5 DEF RoomInv

LEMMA ConsultCapExpiresSafe == ASSUME RoomInv, ConsultCapExpires PROVE RoomInv'
<1>1. /\ UNCHANGED <<game, order, kind, link, clock, job, disposed>>
      /\ UNCHANGED <<consultSeq, opinions, advised, bought>>
      /\ consult # NoConsult
      /\ consult' = [consult EXCEPT !.timer = FALSE]
      /\ chain' = Append(chain, [kind |-> "fallback", id |-> consult.id])
  BY DEF ConsultCapExpires, seating, advice
<1>2. consult \in Consult
  BY <1>1 DEF RoomInv, TableOK
<1>3. consult' \in Consult /\ consult'.id = consult.id /\ consult.id \in Nat \ {0}
  BY <1>1, <1>2 DEF Consult
<1>4. TableOK' /\ Started' = Started
  BY <1>1, <1>3 DEF RoomInv, TableOK, ClockOnLiveMatch, ConsultUnderClock,
     NothingOutlivesRoom, Started, Finished
<1>5. AdviceOK'
  BY <1>1, <1>3 DEF RoomInv, AdviceOK, ConsultsCounted, AnsweredOnce
<1>6. [kind |-> "fallback", id |-> consult.id] \in Task
  BY <1>3 DEF Task
<1>7. QueueOK'
  BY <1>1, <1>4, <1>6, QueueGrows
<1>8. PeopleOK' /\ JobOK'
  BY <1>1, <1>4, JobKept DEF RoomInv, PeopleOK
<1>9. QED
  BY <1>4, <1>5, <1>7, <1>8 DEF RoomInv

-----------------------------------------------------------------------------
(* The running job. *)

\* What the job steps below start from.
LEMMA JobFacts ==
  ASSUME RoomInv
  PROVE  /\ job \in Job /\ chain \in Seq(Task)
         /\ order \in Seq(Seats)
         /\ kind \in [Seats -> {"empty", "human", "bot"}]
         /\ consult \in Consult \cup {NoConsult}
         /\ Owing(job) => game \in GameStates
         /\ Started => game \in GameStates
BY DEF RoomInv, TableOK, PeopleOK, QueueOK, JobOK, Started

\* A job at any step of the loop below the ceiling may go round again.
LEMMA AgainType ==
  ASSUME job \in Job, job.at \in {"botTurn", "buying", "pause"}
  PROVE  /\ Again \in Job
         /\ Owing(Again) => Owing(job)
         /\ Again.at = "loop"
BY RoomAssumption DEF Job, Idle, Again, Loop, Owing

LEMMA SettledType ==
  ASSUME job \in Job, job.at \in {"loop", "botTurn", "pause"}
  PROVE  /\ Settled \in Job
         /\ Owing(Settled) => Owing(job)
         /\ Settled.at \in {"idle", "reply"}
BY DEF Job, Idle, Settled, Owing, NoReply, Reply

LEMMA LoopZeroType ==
  ASSUME NEW r \in Reply \cup {NoReply}
  PROVE  /\ Loop(0, r) \in Job
         /\ Owing(Loop(0, r)) => r # NoReply
         /\ Loop(0, r).at = "loop"
BY RoomAssumption DEF Job, Loop, Owing

LEMMA StartJobSafe == ASSUME RoomInv, StartJob PROVE RoomInv'
<1> DEFINE t == Head(chain)
<1>1. /\ UNCHANGED <<game, order, kind, link, clock, consult, disposed>>
      /\ UNCHANGED advice
      /\ chain # <<>> /\ chain' = Tail(chain)
      /\ job' = Begun(t)
  BY DEF StartJob, seating, timing
<1>2. /\ t \in Task
      /\ t.kind = "advance" /\ t.reply # NoReply => Started
      /\ chain' \in Seq(Task)
      /\ \A i \in DOMAIN chain' : i + 1 \in DOMAIN chain /\ chain'[i] = chain[i + 1]
  BY <1>1, JobFacts DEF RoomInv, QueueOK
<1>3. TableOK' /\ Started' = Started
  BY <1>1 DEF RoomInv, TableOK, ClockOnLiveMatch, ConsultUnderClock, NothingOutlivesRoom,
     Started, Finished
<1>4. QueueOK'
  BY <1>2, <1>3 DEF RoomInv, QueueOK
<1> HIDE DEF t
<1>5. JobOK'
  <2>1. CASE t.kind = "advance"
    <3>1. t.reply \in Reply \cup {NoReply}
      BY <1>2, <2>1 DEF Task
    <3>2. job' = Loop(0, t.reply)
      BY <1>1, <2>1 DEF Begun
    <3>3. QED
      BY <1>2, <1>3, <2>1, <3>1, <3>2, LoopZeroType DEF JobOK, HeldMovesWereLegal
  <2>2. CASE t.kind = "timeout" /\ StillOwes(t.seat)
    <3>1. t.seat \in Seats
      BY <1>2, <2>2 DEF Task
    <3>2. job' = [at |-> "timeout", seat |-> t.seat, options |-> Blocking(game, t.seat)]
      BY <1>1, <2>2 DEF Begun
    <3>3. game \in GameStates /\ Started
      BY <2>2, JobFacts DEF StillOwes, Live
    <3>4. Blocking(game, t.seat) \subseteq Legal(game, t.seat)
      BY DEF Blocking
    <3>5. Legal(game, t.seat) \subseteq Actions
      BY <3>1, <3>3, GameAssumption
    <3>6. job' \in Job
      BY <3>1, <3>2, <3>4, <3>5 DEF Job
    <3>7. HeldMovesWereLegal'
      BY <3>2, <3>3, <3>4 DEF HeldMovesWereLegal
    <3>8. QED
      BY <1>3, <3>3, <3>6, <3>7 DEF JobOK
  <2>3. CASE t.kind = "timeout" /\ ~StillOwes(t.seat)
    <3>1. job' = Loop(0, NoReply)
      BY <1>1, <2>3 DEF Begun
    <3>2. QED
      BY <1>2, <1>3, <3>1, LoopZeroType DEF JobOK, HeldMovesWereLegal
  <2>4. CASE t.kind = "fallback"
    <3>1. job' \in {Idle, [at |-> "fallback", id |-> t.id]} /\ t.id \in Nat \ {0}
      BY <1>1, <1>2, <2>4 DEF Begun, Task
    <3>2. QED
      BY <3>1 DEF JobOK, HeldMovesWereLegal, Job, Idle, Owing
  <2>5. QED
    BY <1>2, <2>1, <2>2, <2>3, <2>4 DEF Task
<1>6. PeopleOK' /\ AdviceOK'
  BY <1>1, AdviceKept DEF RoomInv, PeopleOK
<1>7. QED
  BY <1>3, <1>4, <1>5, <1>6 DEF RoomInv

LEMMA LoopReturnsSafe == ASSUME RoomInv, LoopReturns PROVE RoomInv'
<1>1. job.at = "loop" /\ Becomes(Settled)
  BY DEF LoopReturns
<1>2. job \in Job /\ (Owing(job) => Started)
  BY DEF RoomInv, JobOK
<1>3. QED
  BY <1>1, <1>2, SettledType, BecomesSafe

LEMMA AskBotSafe == ASSUME RoomInv, AskBot PROVE RoomInv'
<1> DEFINE j == [at |-> "botTurn", step |-> job.step, reply |-> job.reply,
                 seat |-> ActingBot, options |-> OwnOptions(ActingBot)]
<1>1. /\ job \in Job /\ job.at = "loop" /\ job.step < MaxSteps
      /\ Live /\ ActingBot # NoSeat /\ Becomes(j)
  BY DEF AskBot, MayStep, RoomInv, JobOK
<1>2. job.step \in 0 .. MaxSteps - 1 /\ job.reply \in Reply \cup {NoReply}
  BY <1>1, RoomAssumption DEF Job, Idle
<1>3. ActingBot \in Seats
  BY <1>1, JobFacts, FirstInType DEF ActingBot
<1>4. game \in GameStates /\ Started
  BY <1>1, JobFacts DEF Live
<1>5. OwnOptions(ActingBot) \subseteq Legal(game, ActingBot)
  BY DEF OwnOptions
<1>6. Legal(game, ActingBot) \subseteq Actions
  BY <1>3, <1>4, GameAssumption
<1>7. j \in Job
  BY <1>2, <1>3, <1>5, <1>6 DEF Job
<1>8. j.options \subseteq UNION { Legal(h, j.seat) : h \in GameStates }
  BY <1>4, <1>5
<1>9. j.at = "botTurn"
  OBVIOUS
<1> HIDE DEF j
<1>10. QED
  BY <1>1, <1>4, <1>7, <1>8, <1>9, BecomesSafe

LEMMA BotThrowsSafe == ASSUME RoomInv, BotThrows PROVE RoomInv'
<1>1. job.at = "botTurn" /\ Becomes(Settled)
  BY DEF BotThrows
<1>2. job \in Job /\ (Owing(job) => Started)
  BY DEF RoomInv, JobOK
<1>3. QED
  BY <1>1, <1>2, SettledType, BecomesSafe

LEMMA TimedOutThrowsSafe == ASSUME RoomInv, TimedOutThrows PROVE RoomInv'
BY LoopZeroType, BecomesSafe DEF TimedOutThrows

LEMMA FallbackSilentSafe == ASSUME RoomInv, FallbackSilent PROVE RoomInv'
<1>1. Idle \in Job /\ ~Owing(Idle) /\ Idle.at = "idle"
  BY DEF Job, Idle, Owing
<1>2. QED
  BY <1>1, BecomesSafe DEF FallbackSilent

LEMMA PlanSystemMoveSafe ==
  ASSUME RoomInv, NEW m \in Actions, PlanSystemMove(m) PROVE RoomInv'
<1> DEFINE j == [at |-> "pause", step |-> job.step, reply |-> job.reply, move |-> m]
<1>1. /\ job \in Job /\ job.at = "loop" /\ job.step < MaxSteps
      /\ Live /\ m \in SystemMoves(game) /\ Becomes(j)
  BY DEF PlanSystemMove, MayStep, RoomInv, JobOK
<1>2. job.step \in 0 .. MaxSteps - 1 /\ job.reply \in Reply \cup {NoReply}
  BY <1>1, RoomAssumption DEF Job, Idle
<1>3. game \in GameStates /\ Started
  BY <1>1, JobFacts DEF Live
<1>4. j \in Job
  BY <1>2 DEF Job
<1>5. j.move \in UNION { SystemMoves(h) : h \in GameStates } /\ j.at = "pause"
  BY <1>1, <1>3
<1> HIDE DEF j
<1>6. QED
  BY <1>1, <1>3, <1>4, <1>5, BecomesSafe

\* A job that goes round the loop again.
LEMMA AgainOK ==
  ASSUME RoomInv, job.at \in {"botTurn", "buying", "pause"}, job' = Again, Started => Started'
  PROVE  JobOK'
<1>1. job \in Job /\ (Owing(job) => Started)
  BY DEF RoomInv, JobOK
<1>2. Again \in Job /\ (Owing(Again) => Owing(job)) /\ Again.at = "loop"
  BY <1>1, AgainType
<1>3. QED
  BY <1>1, <1>2 DEF JobOK, HeldMovesWereLegal

\* The steps of the job that may show the table a new state.
LEMMA ShowingSafe ==
  ASSUME RoomInv, JobOK', NEW g \in GameStates, Show(g),
         UNCHANGED <<order, kind, link, chain, consultSeq, opinions, advised, disposed>>,
         bought' \subseteq Seats
  PROVE  RoomInv'
<1>1. TableOK' /\ consult' \in {consult, NoConsult} /\ Started'
  BY ShowSafe
<1>2. PeopleOK' /\ QueueOK'
  BY <1>1, QueueKept DEF RoomInv, PeopleOK
<1>3. AdviceOK'
  BY <1>1 DEF RoomInv, AdviceOK, ConsultsCounted, AnsweredOnce
<1>4. QED
  BY <1>1, <1>2, <1>3 DEF RoomInv

\* The ones that leave it as it is.
LEMMA StillSafe ==
  ASSUME RoomInv, JobOK',
         UNCHANGED <<game, order, kind, link, clock, consult, chain, disposed>>,
         UNCHANGED advice
  PROVE  RoomInv'
<1>1. TableOK' /\ Started' = Started
  BY DEF RoomInv, TableOK, ClockOnLiveMatch, ConsultUnderClock, NothingOutlivesRoom,
     Started, Finished
<1>2. PeopleOK' /\ QueueOK' /\ AdviceOK'
  BY <1>1, QueueKept, AdviceKept DEF RoomInv, PeopleOK
<1>3. QED
  BY <1>1, <1>2 DEF RoomInv

LEMMA BotMovesSafe ==
  ASSUME RoomInv, NEW a \in Actions, BotMoves(a) PROVE RoomInv'
<1> DEFINE g == Apply(game, a)
<1>1. /\ UNCHANGED <<order, kind, link, chain, consultSeq, opinions, advised, disposed>>
      /\ job.at = "botTurn" /\ a \in job.options
  BY DEF BotMoves, seating
<1>2. job \in Job /\ Owing(job) /\ game \in GameStates /\ Started
  BY <1>1 DEF RoomInv, TableOK, JobOK, Owing, Started
<1>3. g \in GameStates \cup {Refused}
  BY <1>2, GameAssumption
<1>4. CASE g = Refused
  <2>1. job' = Again /\ UNCHANGED <<game, clock, consult, bought>>
    BY <1>4 DEF BotMoves, timing
  <2>2. Started' = Started
    BY <2>1 DEF Started
  <2>3. JobOK'
    BY <1>1, <2>1, <2>2, AgainOK
  <2>4. QED
    BY <1>1, <2>1, <2>3, StillSafe DEF advice
<1>5. CASE g # Refused /\ a \in PaidQuestion
  <2>1. /\ game' = g
        /\ job' = [at |-> "buying", step |-> job.step, reply |-> job.reply, seat |-> job.seat]
        /\ UNCHANGED <<clock, consult, bought>>
    BY <1>5 DEF BotMoves, timing
  <2>2. g \in GameStates /\ g # NotStarted
    BY <1>3, <1>5, GameAssumption
  <2>3. clock # NoSeat => ~Over(game)
    BY <1>2 DEF RoomInv, TableOK, ClockOnLiveMatch, Finished, Started
  <2>4. ~Over(game) => ~Over(g)
    BY <1>2, <1>5, ModuleAssumption
  <2>5. TableOK'
    BY <1>1, <2>1, <2>2, <2>3, <2>4
    DEF RoomInv, TableOK, ClockOnLiveMatch, ConsultUnderClock, NothingOutlivesRoom,
        Started, Finished
  <2>6. Started'
    BY <2>1, <2>2 DEF Started
  <2>7. job' \in Job
    BY <1>1, <1>2, <2>1 DEF Job, Idle
  <2>8. JobOK'
    BY <2>1, <2>6, <2>7 DEF JobOK, HeldMovesWereLegal
  <2>9. PeopleOK' /\ QueueOK' /\ AdviceOK'
    BY <1>1, <2>1, <2>6, QueueKept, AdviceKept DEF RoomInv, PeopleOK, advice
  <2>10. QED
    BY <2>5, <2>8, <2>9 DEF RoomInv
<1>6. CASE g # Refused /\ a \notin PaidQuestion
  <2>1. Show(g) /\ job' = Again /\ bought' \subseteq bought
    BY <1>6 DEF BotMoves
  <2>2. g \in GameStates
    BY <1>3, <1>6
  <2>3. Started'
    BY <2>1, <2>2, GameAssumption DEF Show, Started
  <2>4. JobOK'
    BY <1>1, <2>1, <2>3, AgainOK
  <2>5. bought' \subseteq Seats
    BY <2>1 DEF RoomInv, AdviceOK
  <2> HIDE DEF g
  <2>6. QED
    BY <1>1, <2>1, <2>2, <2>4, <2>5, ShowingSafe
<1>7. QED
  BY <1>4, <1>5, <1>6

LEMMA BotBuysSafe == ASSUME RoomInv, BotBuys PROVE RoomInv'
<1>1. /\ UNCHANGED <<order, kind, link, chain, consultSeq, opinions, advised, disposed>>
      /\ job.at = "buying" /\ job' = Again /\ Show(game)
      /\ bought' = bought \cup {job.seat}
  BY DEF BotBuys, seating
<1>2. job \in Job /\ game \in GameStates /\ Started
  BY <1>1 DEF RoomInv, TableOK, JobOK, Owing, Started
<1>3. job.seat \in Seats
  BY <1>1, <1>2 DEF Job, Idle
<1>4. JobOK'
  BY <1>1, <1>2, AgainOK DEF Show, Started
<1>5. bought' \subseteq Seats
  BY <1>1, <1>3 DEF RoomInv, AdviceOK
<1>6. QED
  BY <1>1, <1>2, <1>4, <1>5, ShowingSafe

LEMMA PauseEndsSafe == ASSUME RoomInv, PauseEnds PROVE RoomInv'
<1> DEFINE g == Apply(game, job.move)
<1>1. /\ UNCHANGED <<order, kind, link, chain, disposed>>
      /\ UNCHANGED advice
      /\ job.at = "pause"
  BY DEF PauseEnds, seating
<1>2. job \in Job /\ Owing(job) /\ game \in GameStates /\ Started
  BY <1>1 DEF RoomInv, TableOK, JobOK, Owing, Started
<1>3. job.move \in Actions
  BY <1>1, <1>2 DEF Job, Idle
<1>4. g \in GameStates \cup {Refused}
  BY <1>2, <1>3, GameAssumption
<1>5. CASE g = Refused
  <2>1. job' = Settled /\ UNCHANGED <<game, clock, consult>>
    BY <1>5 DEF PauseEnds, timing
  <2>2. JobOK'
    BY <1>1, <1>2, <2>1, SettledType DEF JobOK, HeldMovesWereLegal, Started
  <2>3. QED
    BY <1>1, <2>1, <2>2, StillSafe
<1>6. CASE g # Refused
  <2>1. Show(g) /\ job' = Again
    BY <1>6 DEF PauseEnds
  <2>2. g \in GameStates
    BY <1>4, <1>6
  <2>3. Started'
    BY <2>1, <2>2, GameAssumption DEF Show, Started
  <2>4. JobOK'
    BY <1>1, <2>1, <2>3, AgainOK
  <2>5. bought' \subseteq Seats /\ UNCHANGED <<consultSeq, opinions, advised>>
    BY <1>1 DEF RoomInv, AdviceOK, advice
  <2> HIDE DEF g
  <2>6. QED
    BY <1>1, <2>1, <2>2, <2>4, <2>5, ShowingSafe
<1>7. QED
  BY <1>5, <1>6

LEMMA TimedOutMoveSafe ==
  ASSUME RoomInv, NEW a \in Actions, TimedOutMove(a) PROVE RoomInv'
<1> DEFINE g == Apply(game, a)
<1>1. /\ UNCHANGED <<order, kind, link, chain, disposed>>
      /\ UNCHANGED advice
      /\ job.at = "timeout" /\ job' = Loop(0, NoReply)
  BY DEF TimedOutMove, seating
<1>2. game \in GameStates /\ Started
  BY <1>1 DEF RoomInv, TableOK, JobOK, Owing, Started
<1>3. g \in GameStates \cup {Refused}
  BY <1>2, GameAssumption
<1>4. JobOK'
  BY <1>1, LoopZeroType DEF JobOK, HeldMovesWereLegal
<1>5. CASE g = Refused
  <2>1. UNCHANGED <<game, clock, consult>>
    BY <1>5 DEF TimedOutMove, timing
  <2>2. QED
    BY <1>1, <1>4, <2>1, StillSafe
<1>6. CASE g # Refused
  <2>1. Show(g) /\ g \in GameStates
    BY <1>3, <1>6 DEF TimedOutMove
  <2>2. bought' \subseteq Seats /\ UNCHANGED <<consultSeq, opinions, advised>>
    BY <1>1 DEF RoomInv, AdviceOK, advice
  <2> HIDE DEF g
  <2>3. QED
    BY <1>1, <1>4, <2>1, <2>2, ShowingSafe
<1>7. QED
  BY <1>5, <1>6

LEMMA FallbackAnswersSafe == ASSUME RoomInv, FallbackAnswers PROVE RoomInv'
<1>1. /\ UNCHANGED <<game, order, kind, link, chain, consultSeq, opinions, bought, disposed>>
      /\ job.at = "fallback" /\ job' = Idle
  BY DEF FallbackAnswers, seating
<1>2. JobOK'
  BY <1>1 DEF JobOK, HeldMovesWereLegal, Job, Idle, Owing
<1>3. CASE consult.id = job.id
  <2>1. job.id \in Nat \ {0}
    BY <1>1 DEF RoomInv, JobOK, Job, Idle
  <2>2. consult # NoConsult /\ Resolve
    BY <1>3, <2>1 DEF FallbackAnswers, NoConsult
  <2>3. TableOK' /\ AdviceOK'
    BY <1>1, <2>2, ResolveSafe
  <2>4. PeopleOK' /\ QueueOK'
    BY <1>1, QueueKept DEF RoomInv, PeopleOK, Started
  <2>5. QED
    BY <1>2, <2>3, <2>4 DEF RoomInv
<1>4. CASE consult.id # job.id
  <2>1. UNCHANGED <<clock, consult, advised>>
    BY <1>4 DEF FallbackAnswers, timing
  <2>2. QED
    BY <1>1, <1>2, <2>1, StillSafe DEF advice
<1>5. QED
  BY <1>3, <1>4

\* Opening a consult: it is a fresh one, and it has a clock to stand under.
LEMMA OpenSafe ==
  ASSUME RoomInv, consult = NoConsult, clock # NoSeat,
         NEW c \in Consult, c.id = consultSeq + 1, consultSeq' = consultSeq + 1,
         BroadcastTo(game, order, kind, c),
         UNCHANGED <<game, opinions, advised, bought, disposed>>
  PROVE  TableOK' /\ AdviceOK'
<1>1. /\ game \in GameStates
      /\ clock \in Seats \cup {NoSeat}
      /\ order \in Seq(Seats)
      /\ NothingOutlivesRoom
      /\ ~disposed /\ disposed \in BOOLEAN
  BY DEF RoomInv, TableOK, PeopleOK, ClockOnLiveMatch, NothingOutlivesRoom, Started
<1>2. /\ clock' \in Seats \cup {NoSeat}
      /\ consult' \in {c, NoConsult}
      /\ clock' # NoSeat => ~Over(game)
      /\ consult' # NoConsult => clock' # NoSeat
  BY <1>1, BroadcastSafe
<1>3. TableOK'
  BY <1>1, <1>2, GameAssumption
  DEF TableOK, ClockOnLiveMatch, ConsultUnderClock, NothingOutlivesRoom, Started, Finished
<1>4. AdviceOK
  BY DEF RoomInv
<1>5. consultSeq \in Nat /\ advised \in Seq(Nat \ {0})
  BY <1>4 DEF AdviceOK
<1>6. \A i \in DOMAIN advised : advised[i] <= consultSeq /\ advised[i] \in Nat
  BY <1>4, <1>5 DEF AdviceOK, ConsultsCounted
<1>7. ConsultsCounted'
  BY <1>2, <1>5, <1>6 DEF ConsultsCounted
<1>8. AdviceOK'
  BY <1>4, <1>5, <1>7 DEF AdviceOK, AnsweredOnce
<1>9. QED
  BY <1>3, <1>8

LEMMA ConsultReplySafe == ASSUME RoomInv, ConsultReply PROVE RoomInv'
<1> DEFINE asker   == job.reply.asker
           partner == PartnerAsked(game, asker, job.reply.about)
           opens   == /\ consult = NoConsult /\ clock # NoSeat
                      /\ partner # NoSeat /\ kind[partner] = "human"
           record  == [id |-> consultSeq + 1, asker |-> asker, partner |-> partner,
                       about |-> job.reply.about, timer |-> TRUE]
<1>1. /\ UNCHANGED <<game, order, kind, link, chain, advised, bought, disposed>>
      /\ job.at = "reply" /\ job' = Idle
  BY DEF ConsultReply, seating
<1>2. JobOK'
  BY <1>1 DEF JobOK, HeldMovesWereLegal, Job, Idle, Owing
<1>3. PeopleOK' /\ QueueOK'
  BY <1>1, QueueKept DEF RoomInv, PeopleOK, Started
<1>4. game \in GameStates
  BY <1>1 DEF RoomInv, TableOK, JobOK, Owing, Started
<1>5. asker \in Seats /\ job.reply.about \in Subjects
  BY <1>1 DEF RoomInv, JobOK, Job, Idle, Reply
<1>6. partner \in Seats \cup {NoSeat}
  BY <1>4, <1>5, GameAssumption
<1>7. \/ UNCHANGED <<clock, consult, consultSeq, opinions>>
      \/ /\ opens
         /\ consultSeq' = consultSeq + 1
         /\ BroadcastTo(game, order, kind, record)
         /\ UNCHANGED opinions
      \/ /\ opinions' = opinions \cup {[asker |-> asker, partner |-> partner]}
         /\ UNCHANGED <<clock, consult, consultSeq>>
  BY DEF ConsultReply, NextConsultId, timing
<1>8. CASE UNCHANGED <<clock, consult, consultSeq, opinions>>
  BY <1>1, <1>2, <1>8, StillSafe DEF advice
<1>9. CASE /\ opens
           /\ consultSeq' = consultSeq + 1
           /\ BroadcastTo(game, order, kind, record)
           /\ UNCHANGED opinions
  <2>1. partner \in Seats /\ consultSeq + 1 \in Nat \ {0}
    BY <1>6, <1>9 DEF RoomInv, AdviceOK
  <2>2. record \in Consult /\ record.id = consultSeq + 1
    BY <1>5, <2>1 DEF Consult
  <2> HIDE DEF record
  <2>3. TableOK' /\ AdviceOK'
    BY <1>1, <1>9, <2>2, OpenSafe
  <2>4. QED
    BY <1>2, <1>3, <2>3 DEF RoomInv
<1>10. CASE /\ opinions' = opinions \cup {[asker |-> asker, partner |-> partner]}
            /\ UNCHANGED <<clock, consult, consultSeq>>
  <2>1. [asker |-> asker, partner |-> partner] \in Opinion
    BY <1>5, <1>6 DEF Opinion
  <2>2. TableOK'
    BY <1>1, <1>10 DEF RoomInv, TableOK, ClockOnLiveMatch, ConsultUnderClock,
       NothingOutlivesRoom, Started, Finished
  <2>3. AdviceOK'
    BY <1>1, <1>10, <2>1 DEF RoomInv, AdviceOK, ConsultsCounted, AnsweredOnce
  <2>4. QED
    BY <1>2, <1>3, <2>2, <2>3 DEF RoomInv
<1>11. QED
  BY <1>7, <1>8, <1>9, <1>10

-----------------------------------------------------------------------------
(* The invariant of every run. *)

LEMMA Inductive == RoomInv /\ [Next]_vars => RoomInv'
<1> SUFFICES ASSUME RoomInv, [Next]_vars PROVE RoomInv'
  OBVIOUS
<1>1. CASE UNCHANGED vars
  <2>1. /\ UNCHANGED <<game, order, kind, link, clock, consult, chain, job, disposed>>
        /\ UNCHANGED advice
    BY <1>1 DEF vars, seating, timing
  <2>2. JobOK'
    BY <2>1, JobKept DEF Started
  <2>3. QED
    BY <2>1, <2>2, StillSafe
<1>2. CASE Seating
  BY <1>2, JoinSafe, RewireSafe, WindowExpiresSafe, QuitSafe DEF Seating, Drop, Reconnect
<1>3. CASE Messages
  BY <1>3, HandleActionSafe, HandleConsultSafe, HandleConsultAnswerSafe DEF Messages
<1>4. CASE JobStep
  BY <1>4, StartJobSafe, LoopReturnsSafe, AskBotSafe, BotBuysSafe, BotThrowsSafe,
     PauseEndsSafe, TimedOutThrowsSafe, FallbackAnswersSafe, FallbackSilentSafe,
     ConsultReplySafe, BotMovesSafe, PlanSystemMoveSafe, TimedOutMoveSafe
  DEF JobStep
<1>5. CASE Opine
  BY <1>5, OpinionArrivesSafe DEF Opine
<1>6. CASE TurnExpires \/ ConsultCapExpires \/ Dispose
  BY <1>6, TurnExpiresSafe, ConsultCapExpiresSafe, DisposeSafe
<1>7. QED
  BY <1>1, <1>2, <1>3, <1>4, <1>5, <1>6 DEF Next

\* The room's invariant holds throughout: it is the argument behind every
\* theorem below.
THEOREM RoomInvariant == Spec => []RoomInv
BY Initially, Inductive, PTL DEF Spec

\* The room's state keeps the shapes the code declares for it, at any table.
THEOREM TypeCorrect == Spec => []TypeOK
<1>1. RoomInv => TypeOK
  BY DEF RoomInv, TableOK, PeopleOK, QueueOK, JobOK, AdviceOK, TypeOK
<1>2. QED
  BY RoomInvariant, <1>1, PTL

\* No clock runs before a match starts or after it is decided, whichever of the
\* people, the bots, the timers and the system made the last move.
THEOREM ClocksOnlyRunOnLiveMatches == Spec => []ClockOnLiveMatch
<1>1. RoomInv => ClockOnLiveMatch
  BY DEF RoomInv, TableOK
<1>2. QED
  BY RoomInvariant, <1>1, PTL

\* A question to a team-mate never stays open once its turn is over.
THEOREM ConsultsStandUnderAClock == Spec => []ConsultUnderClock
<1>1. RoomInv => ConsultUnderClock
  BY DEF RoomInv, TableOK
<1>2. QED
  BY RoomInvariant, <1>1, PTL

\* A disposed room arms nothing, however late its promises settle.
THEOREM DisposedRoomsAreQuiet == Spec => []NothingOutlivesRoom
<1>1. RoomInv => NothingOutlivesRoom
  BY DEF RoomInv, TableOK
<1>2. QED
  BY RoomInvariant, <1>1, PTL

\* The partner, the cap and a takeover never answer the same question twice.
THEOREM ConsultsAnsweredOnce == Spec => []AnsweredOnce
<1>1. RoomInv => AnsweredOnce
  BY DEF RoomInv, AdviceOK
<1>2. QED
  BY RoomInvariant, <1>1, PTL

-----------------------------------------------------------------------------
(* The room implements Match.  The table is full before the match starts, so *)
(* no join can start it twice.                                               *)

FullWhenStarted == Started => Len(order) >= SeatCount

\* A move somebody was offered in some state, accepted now, is offered now.
LEMMA OfferedPlays ==
  ASSUME game \in GameStates, NEW s \in Seats,
         NEW a \in UNION { Legal(h, s) : h \in GameStates },
         Apply(game, a) # Refused, game' = Apply(game, a)
  PROVE  Table!Next
<1>1. a \in Legal(game, s)
  BY ModuleAssumption
<1>2. ~Over(game)
  BY <1>1, ModuleAssumption
<1>3. game # NotStarted
  BY GameAssumption
<1>4. Table!Offered
  BY <1>1, <1>2, <1>3 DEF Table!Offered, Table!Live, Table!Play
<1>5. QED
  BY <1>4 DEF Table!Next

LEMMA TakeOverPlays ==
  ASSUME NEW s \in Seats, TakeOver(s) PROVE Table!Next \/ game' = game
<1>1. CASE Abandoned(s) # Refused
  <2>1. /\ Started /\ ~Finished(game)
        /\ AbandonedMove(game, s) # NoMove
        /\ Abandoned(s) = Apply(game, AbandonedMove(game, s))
    BY <1>1 DEF Abandoned, Live
  <2>2. game' = Abandoned(s)
    BY <1>1 DEF TakeOver, Show
  <2>3. Table!Abandoned
    BY <1>1, <2>1, <2>2
    DEF Table!Abandoned, Table!Live, Table!Play, Started, Finished
  <2>4. QED
    BY <2>3 DEF Table!Next
<1>2. QED
  BY <1>1 DEF TakeOver

\* Every step but a join leaves the seats in order and is a step of the match,
\* which is then under way, or leaves it alone.
LEMMA OtherStepsPlay ==
  ASSUME RoomInv, [Next]_vars, ~\E s \in Seats : Join(s)
  PROVE  order' = order /\ (game' = game \/ (Table!Next /\ Started))
<1> DEFINE Goal == order' = order /\ (game' = game \/ (Table!Next /\ Started))
<1>0. Started => game \in GameStates
  BY JobFacts
<1>1. CASE UNCHANGED vars
  BY <1>1 DEF vars, seating
<1>2. CASE Seating
  <2>1. PICK s \in Seats : Drop(s) \/ Reconnect(s) \/ WindowExpires(s) \/ Quit(s)
    BY <1>2 DEF Seating
  <2>2. CASE Drop(s) \/ Reconnect(s)
    BY <2>2 DEF Drop, Reconnect, Rewire, controllers
  <2>3. CASE WindowExpires(s) \/ Quit(s)
    <3>1. TakeOver(s)
      BY <2>3 DEF WindowExpires, Quit
    <3>2. order' = order
      BY <3>1 DEF TakeOver
    <3>3. game' = game \/ Started
      BY <3>1 DEF TakeOver, Abandoned, Live
    <3>4. QED
      BY <3>1, <3>2, <3>3, TakeOverPlays
  <2>4. QED
    BY <2>1, <2>2, <2>3
<1>3. CASE Messages
  <2>1. ASSUME NEW s \in Seats, NEW a, NEW r, Accept(s, a, r)
        PROVE  Goal
    <3>1. order' = order /\ Started /\ a \in Legal(game, s)
            /\ Apply(game, a) # Refused /\ game' = Apply(game, a)
      BY <2>1 DEF Accept, MayPlay, Show, seating
    <3>2. QED
      BY <1>0, <3>1, OfferedPlays
  <2>2. ASSUME NEW s \in Seats, HandleConsultAnswer(s)
        PROVE  Goal
    BY <2>2 DEF HandleConsultAnswer, seating
  <2>3. QED
    BY <1>3, <2>1, <2>2 DEF Messages, HandleAction, HandleConsult
<1>4. CASE JobStep
  <2>1. job \in Job /\ HeldMovesWereLegal /\ (Owing(job) => Started)
    BY DEF RoomInv, JobOK
  <2>2. ASSUME NEW a \in Actions, BotMoves(a) PROVE Goal
    <3>1. /\ order' = order /\ job.at = "botTurn" /\ a \in job.options
          /\ game' = game \/ (Apply(game, a) # Refused /\ game' = Apply(game, a))
      BY <2>2 DEF BotMoves, Show, seating
    <3>2. job.seat \in Seats /\ Started
      BY <2>1, <3>1 DEF Job, Idle, Owing
    <3>3. a \in UNION { Legal(h, job.seat) : h \in GameStates }
      BY <2>1, <3>1 DEF HeldMovesWereLegal
    <3>4. QED
      BY <1>0, <3>1, <3>2, <3>3, OfferedPlays
  <2>3. ASSUME NEW a \in Actions, TimedOutMove(a) PROVE Goal
    <3>1. /\ order' = order /\ job.at = "timeout" /\ a \in job.options
          /\ game' = game \/ (Apply(game, a) # Refused /\ game' = Apply(game, a))
      BY <2>3 DEF TimedOutMove, Show, seating
    <3>2. job.seat \in Seats /\ Started
      BY <2>1, <3>1 DEF Job, Idle, Owing
    <3>3. a \in UNION { Legal(h, job.seat) : h \in GameStates }
      BY <2>1, <3>1 DEF HeldMovesWereLegal
    <3>4. QED
      BY <1>0, <3>1, <3>2, <3>3, OfferedPlays
  <2>4. CASE PauseEnds
    <3>1. /\ order' = order /\ job.at = "pause"
          /\ \/ game' = game
             \/ Apply(game, job.move) # Refused /\ game' = Apply(game, job.move)
      BY <2>4 DEF PauseEnds, Show, seating
    <3>2. Started /\ game \in GameStates
      BY <1>0, <2>1, <3>1 DEF Owing
    <3>3. CASE Apply(game, job.move) # Refused /\ game' = Apply(game, job.move)
      <4>1. job.move \in UNION { SystemMoves(h) : h \in GameStates }
        BY <2>1, <3>1 DEF HeldMovesWereLegal
      <4>2. job.move \in SystemMoves(game)
        BY <3>2, <3>3, <4>1, ModuleAssumption
      <4>3. ~Over(game) /\ game # NotStarted
        BY <3>2, <4>2, GameAssumption, ModuleAssumption
      <4>4. Table!System
        BY <3>3, <4>2, <4>3 DEF Table!System, Table!Live, Table!Play
      <4>5. QED
        BY <3>1, <3>2, <4>4 DEF Table!Next
    <3>4. QED
      BY <3>1, <3>3
  <2>5. CASE BotBuys
    BY <2>5 DEF BotBuys, Show, seating
  <2>6. CASE StartJob \/ FallbackAnswers \/ ConsultReply
    BY <2>6 DEF StartJob, FallbackAnswers, ConsultReply, seating
  <2>7. ASSUME NEW j, Becomes(j) PROVE Goal
    BY <2>7 DEF Becomes, seating
  <2>8. CASE LoopReturns \/ AskBot \/ BotThrows \/ TimedOutThrows \/ FallbackSilent
               \/ \E a \in Actions : PlanSystemMove(a)
    BY <2>7, <2>8 DEF LoopReturns, AskBot, BotThrows, TimedOutThrows, FallbackSilent,
                      PlanSystemMove
  <2>9. QED
    BY <1>4, <2>2, <2>3, <2>4, <2>5, <2>6, <2>8 DEF JobStep
<1>5. CASE Opine
  BY <1>5 DEF Opine, OpinionArrives, seating
<1>6. CASE TurnExpires \/ ConsultCapExpires \/ Dispose
  BY <1>6 DEF TurnExpires, ConsultCapExpires, Dispose, seating, controllers
<1>7. QED
  BY <1>1, <1>2, <1>3, <1>4, <1>5, <1>6 DEF Next, Seating

\* The join that fills the table starts a match that had not started.
LEMMA JoinPlays ==
  ASSUME RoomInv, FullWhenStarted, NEW s \in Seats, Join(s)
  PROVE  FullWhenStarted' /\ (Table!Next \/ game' = game)
<1>1. Len(order') = Len(order) + 1 /\ Len(order) \in Nat
  BY DEF Join, RoomInv, PeopleOK
<1>2. CASE Len(order') = SeatCount
  <2>1. game' = FirstState /\ game = NotStarted
    BY <1>1, <1>2, RoomAssumption DEF Join, FullWhenStarted, Started
  <2>2. QED
    BY <1>2, <2>1, RoomAssumption DEF FullWhenStarted, Table!Next, Table!Start
<1>3. CASE Len(order') # SeatCount
  <2>1. game' = game
    BY <1>3 DEF Join
  <2>2. QED
    BY <1>1, <2>1, RoomAssumption DEF FullWhenStarted, Started
<1>4. QED
  BY <1>2, <1>3

LEMMA StepsPlay ==
  RoomInv /\ FullWhenStarted /\ [Next]_vars => FullWhenStarted' /\ [Table!Next]_game
<1> SUFFICES ASSUME RoomInv, FullWhenStarted, [Next]_vars
             PROVE  FullWhenStarted' /\ (Table!Next \/ game' = game)
  OBVIOUS
<1>1. CASE \E s \in Seats : Join(s)
  BY <1>1, JoinPlays
<1>2. CASE ~\E s \in Seats : Join(s)
  BY <1>2, OtherStepsPlay DEF FullWhenStarted, Started
<1>3. QED
  BY <1>1, <1>2

\* Whoever holds the seats and whatever the sockets, clocks and bots do, the
\* match moves only as Match allows: from createMatch, by moves offered to a
\* seat, drawn by the system or answering an abandoned seat, never past its end.
THEOREM RoomIsAuthoritative == Spec => Authoritative
<1>1. Init => Table!Init /\ FullWhenStarted
  BY DEF Init, Table!Init, FullWhenStarted, Started
<1>2. QED
  BY RoomInvariant, <1>1, StepsPlay, PTL DEF Spec, Table!Spec, Authoritative

-----------------------------------------------------------------------------
(* Nobody's turn is left without a clock, at a table whose bots do not throw *)
(* and where no decision that people take first is shared between seats.     *)

\* The port's conformance suite: what is offered is accepted.
OfferedIsAccepted ==
  \A g \in GameStates : \A s \in Seats : \A a \in Legal(g, s) : Apply(g, a) # Refused

\* No seat owes a move of a kind another is offered together with a decision that
\* people take first: the head-to-head games, and none where partners answer a call.
DecisionsAreOnesOwn ==
  \A g \in GameStates : \A s, t \in Seats :
    s # t /\ Legal(g, s) \cap HumanPriority # {} =>
      \A a \in Blocking(g, t) : TypeOf(a) \notin { TypeOf(b) : b \in Legal(g, s) }

SeatsForBots == IF HasBot THEN SeatCount - HumanSeats ELSE 0

\* People fill the table from its first seat up, and `order` lists whoever sits.
SeatsFillUp ==
  /\ \E h \in 0 .. SeatCount - SeatsForBots :
       /\ Len(order) = SeatsForBots + h
       /\ \A s \in Seats : kind[s] = "empty" <=> h <= s /\ s < SeatCount - SeatsForBots
  /\ \A s \in Seats : kind[s] # "empty" => \E i \in DOMAIN order : order[i] = s
  /\ \A s \in Seats : kind[s] = "empty" => link[s] = "none"

\* A clock stands for a move still owed, but while a bot's question is being answered.
ClockIsOwed == clock # NoSeat /\ job.at # "buying" => Blocking(game, clock) # {}

Untimed == /\ Live /\ ~disposed /\ HasBot
           /\ SeatOnTheClock(game, order, kind) # NoSeat /\ clock = NoSeat

\* What will put somebody on a clock: a timeout on its way, a bot that has a move of
\* its own, or a move that is about to be shown.
Timeout(t) == t.kind = "timeout" /\ Blocking(game, t.seat) # {}
Queued  == \E i \in DOMAIN chain : Timeout(chain[i])
Running ==
  \/ job.at = "timeout" /\ job.options \subseteq Blocking(game, job.seat)
  \/ job.at = "loop" /\ job.step < MaxSteps /\ \E s \in Bots : Blocking(game, s) # {}
  \/ job.at = "botTurn" /\ job.options \subseteq Legal(game, job.seat)
  \/ job.at = "buying"

Minded == Untimed => Queued \/ Running

StallInv == SeatsFillUp /\ ClockIsOwed /\ Minded

\* A set of numbers that is not empty has a least one.
LEMMA LeastNumber ==
  ASSUME NEW T \in SUBSET Nat, T # {}
  PROVE  \E m \in T : \A n \in T : m <= n
<1> DEFINE U == { 0 .. i : i \in T }
<1>1. U \subseteq FiniteSubsetsOf(Nat) /\ U # {}
  <2>1. ASSUME NEW i \in T PROVE 0 .. i \in FiniteSubsetsOf(Nat)
    <3>1. i \in Nat /\ 0 \in Int /\ i \in Int
      OBVIOUS
    <3>2. IsFiniteSet(0 .. i)
      BY <3>1, FS_Interval
    <3>3. 0 .. i \subseteq Nat
      BY <3>1
    <3>4. QED
      BY <3>2, <3>3 DEF FiniteSubsetsOf
  <2>2. QED
    BY <2>1
<1>2. IsWellFoundedOn(StrictSubsetOrdering(Nat), FiniteSubsetsOf(Nat))
  BY FS_StrictSubsetOrderingWellFounded
<1>3. PICK X \in U : \A Y \in U : <<Y, X>> \notin StrictSubsetOrdering(Nat)
  <2> HIDE DEF U
  <2>1. QED
    BY <1>1, <1>2, WFMin
<1>4. PICK m \in T : X = 0 .. m
  OBVIOUS
<1>5. ASSUME NEW n \in T, n < m PROVE FALSE
  <2>0. 0 .. n \in U
    OBVIOUS
  <2>4. n \in Nat /\ m \in Nat
    OBVIOUS
  <2>5. 0 .. n \subseteq 0 .. m /\ 0 .. n \subseteq Nat /\ 0 .. m \subseteq Nat
    BY <1>5, <2>4
  <2>6. m \in 0 .. m /\ m \notin 0 .. n
    BY <1>5, <2>4
  <2>1. 0 .. n \in U /\ 0 .. n \subseteq 0 .. m /\ m \in 0 .. m /\ m \notin 0 .. n
          /\ 0 .. n \subseteq Nat /\ 0 .. m \subseteq Nat
    BY <2>0, <2>5, <2>6
  <2>2. <<0 .. n, 0 .. m>> \in StrictSubsetOrdering(Nat)
    BY <2>1 DEF StrictSubsetOrdering
  <2>3. QED
    BY <1>3, <1>4, <2>1, <2>2
<1>6. QED
  BY <1>5

\* FirstIn finds a seat of S when the order lists one.
LEMMA FirstInFinds ==
  ASSUME NEW o \in Seq(Seats), NEW S, NEW i \in DOMAIN o, o[i] \in S
  PROVE  FirstIn(o, S) # NoSeat
<1> DEFINE Leads(j) == o[j] \in S /\ \A k \in 1 .. j - 1 : o[k] \notin S
           T == { j \in DOMAIN o : o[j] \in S }
<1>1. T \in SUBSET Nat /\ T # {}
  OBVIOUS
<1>2. PICK m \in T : \A n \in T : m <= n
  <2> HIDE DEF T
  <2>1. QED
    BY <1>1, LeastNumber
<1>3. m \in DOMAIN o /\ Leads(m)
  <2>0. m \in 1 .. Len(o) /\ DOMAIN o = 1 .. Len(o) /\ Len(o) \in Nat
    OBVIOUS
  <2>1. ASSUME NEW k \in 1 .. m - 1 PROVE o[k] \notin S
    <3>1. k \in DOMAIN o /\ k \in Nat /\ ~(m <= k)
      BY <2>0
    <3>2. QED
      BY <1>2, <3>1
  <2>2. QED
    BY <2>1
<1>4. \E j \in DOMAIN o : Leads(j)
  BY <1>3
<1> DEFINE c == CHOOSE j \in DOMAIN o : Leads(j)
<1>5. c \in DOMAIN o
  <2> HIDE DEF Leads
  <2>1. QED
    BY <1>4, Zenon
<1>6. FirstIn(o, S) = o[c]
  BY <1>4, Zenon DEF FirstIn
<1>7. o[c] \in Seats
  BY <1>5
<1>8. QED
  BY <1>6, <1>7, RoomAssumption DEF Seats, NoSeat

\* The seat due a clock is a person's, and fewer people make nobody new due.
LEMMA DueShrinks ==
  ASSUME NEW g, NEW o \in Seq(Seats), NEW k, NEW l,
         \A s \in Seats : l[s] = "human" => k[s] = "human",
         SeatOnTheClock(g, o, l) # NoSeat
  PROVE  SeatOnTheClock(g, o, k) # NoSeat
<1> DEFINE S(m) == { s \in Seats : m[s] = "human" /\ Blocking(g, s) # {} }
<1>1. FirstIn(o, S(l)) # NoSeat
  BY DEF SeatOnTheClock
<1>2. FirstIn(o, S(l)) \in S(l)
  <2> HIDE DEF S
  <2>1. QED
    BY <1>1, FirstInType
<1>3. PICK j \in DOMAIN o : o[j] \in S(l)
  <2> HIDE DEF S
  <2> DEFINE Leads(j) == o[j] \in S(l) /\ \A n \in 1 .. j - 1 : o[n] \notin S(l)
  <2>1. \E j \in DOMAIN o : Leads(j)
    BY <1>1, Zenon DEF FirstIn
  <2>2. QED
    BY <2>1
<1>4. o[j] \in S(k)
  BY <1>3
<1>5. FirstIn(o, S(k)) # NoSeat
  <2> HIDE DEF S
  <2>1. QED
    BY <1>4, FirstInFinds
<1>6. QED
  BY <1>5 DEF SeatOnTheClock

\* Once the match is under way nobody's seat is empty.
LEMMA TableIsFull ==
  ASSUME RoomInv, FullWhenStarted, SeatsFillUp, Started
  PROVE  \A s \in Seats : kind[s] # "empty"
<1>1. PICK h \in 0 .. SeatCount - SeatsForBots :
        /\ Len(order) = SeatsForBots + h
        /\ \A s \in Seats : kind[s] = "empty" <=> h <= s /\ s < SeatCount - SeatsForBots
  BY DEF SeatsFillUp
<1>2. SeatsForBots \in 0 .. SeatCount
  BY RoomAssumption DEF SeatsForBots
<1>3. h = SeatCount - SeatsForBots
  BY <1>1, <1>2, RoomAssumption DEF FullWhenStarted
<1>4. QED
  BY <1>1, <1>2, <1>3, RoomAssumption DEF Seats

LEMMA SeatsKept ==
  ASSUME SeatsFillUp, order' = order,
         \A s \in Seats : kind'[s] = "empty" <=> kind[s] = "empty",
         \A s \in Seats : kind[s] = "empty" /\ link[s] = "none" => link'[s] = "none"
  PROVE  SeatsFillUp'
BY DEF SeatsFillUp

\* A person takes the lowest free seat, and there is none once all have come.
LEMMA JoinFillsUp ==
  ASSUME RoomInv, SeatsFillUp, NEW s \in Seats, Join(s) PROVE SeatsFillUp'
<1>1. PICK h \in 0 .. SeatCount - SeatsForBots :
        /\ Len(order) = SeatsForBots + h
        /\ \A t \in Seats : kind[t] = "empty" <=> h <= t /\ t < SeatCount - SeatsForBots
  BY DEF SeatsFillUp
<1>2. SeatsForBots \in 0 .. SeatCount
  BY RoomAssumption DEF SeatsForBots
<1>3. /\ kind[s] = "empty"
      /\ \A t \in 0 .. s - 1 : kind[t] # "empty"
      /\ kind' = [kind EXCEPT ![s] = "human"]
      /\ order' = Append(order, s)
      /\ order \in Seq(Seats) /\ kind \in [Seats -> {"empty", "human", "bot"}]
  BY DEF Join, RoomInv, PeopleOK
<1>4. s = h /\ h + 1 \in 0 .. SeatCount - SeatsForBots
  <2>1. h <= s /\ s < SeatCount - SeatsForBots
    BY <1>1, <1>3
  <2>2. CASE h < s
    <3>1. h \in 0 .. s - 1 /\ h \in Seats /\ h < SeatCount - SeatsForBots
      BY <2>1, <2>2, <1>2, RoomAssumption DEF Seats
    <3>2. kind[h] = "empty"
      BY <1>1, <3>1
    <3>3. QED
      BY <1>3, <3>1, <3>2
  <2>3. QED
    BY <2>1, <2>2, <1>2, RoomAssumption DEF Seats
<1>5. Len(order') = SeatsForBots + (h + 1)
  <2>1. Len(order') = Len(order) + 1
    BY <1>3
  <2>2. QED
    BY <1>1, <1>2, <2>1, RoomAssumption
<1>6. \A t \in Seats : kind'[t] = "empty" <=> h + 1 <= t /\ t < SeatCount - SeatsForBots
  BY <1>1, <1>2, <1>3, <1>4, RoomAssumption DEF Seats
<1>7. ASSUME NEW t \in Seats, kind'[t] # "empty" PROVE \E i \in DOMAIN order' : order'[i] = t
  <2>1. CASE t = s
    <3>1. Len(order) + 1 \in DOMAIN order' /\ order'[Len(order) + 1] = s
      BY <1>3
    <3>2. QED
      BY <2>1, <3>1
  <2>2. CASE t # s
    <3>1. PICK i \in DOMAIN order : order[i] = t
      BY <1>3, <1>7, <2>2 DEF SeatsFillUp
    <3>2. i \in DOMAIN order' /\ order'[i] = t
      BY <1>3, <3>1
    <3>3. QED
      BY <3>2
  <2>3. QED
    BY <2>1, <2>2
<1>8. \A t \in Seats : kind'[t] = "empty" => link'[t] = "none"
  BY <1>3 DEF SeatsFillUp, Join, RoomInv, PeopleOK
<1>9. QED
  BY <1>4, <1>5, <1>6, <1>7, <1>8 DEF SeatsFillUp

\* A state that is shown leaves nobody who owes a move without a clock, and no
\* clock on anybody who owes none.
LEMMA ShowingMinds ==
  ASSUME RoomInv, RoomInv', NEW g \in GameStates, NEW k, NEW c, game' = g,
         BroadcastTo(g, order', k, c), disposed' = disposed,
         \A s \in Seats : kind'[s] = "human" => k[s] = "human"
  PROVE  ClockIsOwed' /\ Minded'
<1>1. CASE disposed
  BY <1>1 DEF RoomInv, TableOK, NothingOutlivesRoom, ClockIsOwed, Minded, Untimed
<1>2. CASE ~disposed
  <2>1. clock' = Due(g, order', k) /\ order' \in Seq(Seats)
    BY <1>2, GameAssumption DEF BroadcastTo, Arm, RoomInv, PeopleOK
  <2>2. ASSUME clock' # NoSeat PROVE Blocking(g, clock') # {}
    <3> DEFINE S == { s \in Seats : k[s] = "human" /\ Blocking(g, s) # {} }
    <3>1. clock' = FirstIn(order', S) /\ FirstIn(order', S) # NoSeat
      BY <2>1, <2>2 DEF Due, SeatOnTheClock
    <3>2. FirstIn(order', S) \in S
      <4> HIDE DEF S
      <4>1. QED
        BY <2>1, <3>1, FirstInType
    <3>3. QED
      BY <3>1, <3>2
  <2>3. ClockIsOwed'
    BY <2>2 DEF ClockIsOwed, Blocking
  <2>4. ASSUME Untimed' PROVE FALSE
    <3>1. SeatOnTheClock(g, order', kind') # NoSeat /\ ~Finished(g) /\ HasBot /\ clock' = NoSeat
      BY <2>4 DEF Untimed, Live, SeatOnTheClock, Blocking
    <3>2. SeatOnTheClock(g, order', k) # NoSeat
      BY <2>1, <3>1, DueShrinks
    <3>3. QED
      BY <2>1, <3>1, <3>2 DEF Due
  <2>5. QED
    BY <2>3, <2>4 DEF Minded
<1>3. QED
  BY <1>1, <1>2 DEF RoomInv, TableOK

\* What is left as it is keeps what minds it.
LEMMA QuietMinds ==
  ASSUME RoomInv, ClockIsOwed, Minded, UNCHANGED <<game, order, clock, disposed>>,
         \A s \in Seats : kind'[s] = "human" => kind[s] = "human",
         job.at = "buying" => job'.at = "buying",
         Untimed /\ Queued => Queued' \/ Running',
         Untimed /\ Running => Running'
  PROVE  ClockIsOwed' /\ Minded'
<1>1. ClockIsOwed'
  BY DEF ClockIsOwed, Blocking
<1>2. Untimed' => Untimed
  <2> SUFFICES ASSUME Untimed' PROVE Untimed
    OBVIOUS
  <2>1. SeatOnTheClock(game, order, kind') # NoSeat /\ Live /\ ~disposed /\ HasBot /\ clock = NoSeat
    BY DEF Untimed, Live, SeatOnTheClock, Blocking, Started, Finished
  <2>2. order \in Seq(Seats)
    BY DEF RoomInv, PeopleOK
  <2>3. SeatOnTheClock(game, order, kind) # NoSeat
    BY <2>1, <2>2, DueShrinks
  <2>4. QED
    BY <2>1, <2>3 DEF Untimed
<1>3. QED
  BY <1>1, <1>2 DEF Minded

\* A queue that only grows keeps the timeouts it holds.
LEMMA QueuedKept ==
  ASSUME chain \in Seq(Task), NEW q \in Seq(Task), chain' = chain \o q, game' = game, Queued
  PROVE  Queued'
<1>1. PICK i \in DOMAIN chain : Timeout(chain[i])
  BY DEF Queued
<1>2. i \in DOMAIN chain' /\ chain'[i] = chain[i]
  BY <1>1
<1>3. Timeout(chain[i])'
  BY <1>1, <1>2 DEF Timeout, Blocking
<1>4. QED
  BY <1>2, <1>3 DEF Queued

-----------------------------------------------------------------------------
(* The steps, one lemma per group.  Each takes the room from a state that is *)
(* in order to one that is.                                                  *)

\* A takeover never frees a seat and never makes a person of a bot.
LEMMA TakeOverSeats ==
  ASSUME RoomInv, NEW s \in Seats, kind[s] # "empty", TakeOver(s)
  PROVE  /\ \A t \in Seats : kind'[t] = "human" => kind[t] = "human"
         /\ \A t \in Seats : kind'[t] = "empty" <=> kind[t] = "empty"
         /\ \A t \in Seats : kind[t] = "bot" => kind'[t] = "bot"
BY DEF TakeOver, RoomInv, PeopleOK

LEMMA TakeOverMinds ==
  ASSUME RoomInv, RoomInv', StallInv, NEW s \in Seats, kind[s] # "empty", TakeOver(s),
         \A t \in Seats \ {s} : link'[t] = link[t]
  PROVE  StallInv'
<1>1. /\ UNCHANGED <<order, job, disposed>>
      /\ \A t \in Seats : kind'[t] = "human" => kind[t] = "human"
      /\ \A t \in Seats : kind'[t] = "empty" <=> kind[t] = "empty"
      /\ \A t \in Seats : kind[t] = "bot" => kind'[t] = "bot"
  BY TakeOverSeats DEF TakeOver
<1>2. SeatsFillUp'
  BY <1>1, SeatsKept DEF StallInv
<1>3. CASE Abandoned(s) # Refused
  <2>1. /\ Abandoned(s) \in GameStates /\ game' = Abandoned(s)
        /\ BroadcastTo(Abandoned(s), order', kind, consult)
    BY <1>1, <1>3, AbandonedType DEF TakeOver, Show, RoomInv, TableOK
  <2>2. ClockIsOwed' /\ Minded'
    BY <1>1, <2>1, ShowingMinds
  <2>3. QED
    BY <1>2, <2>2 DEF StallInv
<1>4. CASE Abandoned(s) = Refused
  <2>1. UNCHANGED <<game, clock, consult>>
    BY <1>4 DEF TakeOver, timing
  <2> DEFINE asked == IF consult' # NoConsult /\ consult'.partner = s
                        THEN <<[kind |-> "fallback", id |-> consult'.id]>> ELSE <<>>
             q == asked \o <<Advance(NoReply)>>
  <2>2. consult' # NoConsult => [kind |-> "fallback", id |-> consult'.id] \in Task
    BY DEF RoomInv, TableOK, Consult, Task
  <2>3. asked \in Seq(Task) /\ Advance(NoReply) \in Task
    <3>1. CASE consult' # NoConsult /\ consult'.partner = s
      BY <2>2, <3>1 DEF Advance, Task
    <3>2. CASE ~(consult' # NoConsult /\ consult'.partner = s)
      BY <3>2 DEF Advance, Task
    <3>3. QED
      BY <3>1, <3>2
  <2>4. chain \in Seq(Task)
    BY DEF RoomInv, QueueOK
  <2>5. chain' = chain \/ chain' = chain \o q
    <3>1. chain' = chain \/ chain' = (chain \o asked) \o <<Advance(NoReply)>>
      BY DEF TakeOver
    <3> HIDE DEF asked
    <3>2. <<Advance(NoReply)>> \in Seq(Task)
      BY <2>3
    <3>3. (chain \o asked) \o <<Advance(NoReply)>> = chain \o (asked \o <<Advance(NoReply)>>)
      BY <2>3, <2>4, <3>2
    <3>4. QED
      BY <3>1, <3>3
  <2>6. Queued => Queued'
    <3>1. q \in Seq(Task)
      <4> HIDE DEF asked
      <4>1. QED
        BY <2>3
    <3>2. CASE chain' = chain
      BY <2>1, <3>2 DEF Queued, Timeout, Blocking
    <3>3. CASE chain' = chain \o q
      <4> HIDE DEF q
      <4>1. QED
        BY <2>1, <2>4, <3>1, <3>3, QueuedKept
    <3>4. QED
      BY <2>5, <3>2, <3>3
  <2>7. Running => Running'
    BY <1>1, <2>1 DEF Running, Bots, Blocking
  <2>8. ClockIsOwed' /\ Minded'
    BY <1>1, <2>1, <2>6, <2>7, QuietMinds DEF StallInv
  <2>9. QED
    BY <1>2, <2>8 DEF StallInv
<1>5. QED
  BY <1>3, <1>4

LEMMA JoinMinds ==
  ASSUME RoomInv, RoomInv', FullWhenStarted, StallInv, NEW s \in Seats, Join(s)
  PROVE  StallInv'
<1>1. SeatsFillUp'
  BY JoinFillsUp DEF StallInv
<1>2. ~Started /\ UNCHANGED <<job, disposed>>
  BY TableIsFull DEF Join, StallInv
<1>3. CASE Len(order') = SeatCount
  <2>1. /\ game' = FirstState /\ FirstState \in GameStates
        /\ BroadcastTo(FirstState, order', kind', consult)
    BY <1>3, GameAssumption DEF Join
  <2>2. ClockIsOwed' /\ Minded'
    BY <1>2, <2>1, ShowingMinds
  <2>3. QED
    BY <1>1, <2>2 DEF StallInv
<1>4. CASE Len(order') # SeatCount
  <2>1. game' = game /\ clock' = clock
    BY <1>4 DEF Join, timing
  <2>2. clock = NoSeat /\ ~Started'
    BY <1>2, <2>1 DEF RoomInv, TableOK, ClockOnLiveMatch, Started
  <2>3. QED
    BY <1>1, <2>1, <2>2 DEF StallInv, ClockIsOwed, Minded, Untimed, Live
<1>5. QED
  BY <1>3, <1>4

\* A step that only adds to the queue, sockets, consults and advice apart.
LEMMA AddingMinds ==
  ASSUME RoomInv, StallInv, UNCHANGED <<game, order, kind, clock, job, disposed>>,
         \A s \in Seats : kind[s] # "empty" \/ link'[s] = link[s],
         NEW q \in Seq(Task), chain' = chain \/ chain' = chain \o q
  PROVE  StallInv'
<1>1. SeatsFillUp'
  BY SeatsKept DEF StallInv
<1>2. chain \in Seq(Task)
  BY DEF RoomInv, QueueOK
<1>3. Queued => Queued'
  <2>1. CASE chain' = chain
    BY <2>1 DEF Queued, Timeout, Blocking
  <2>2. CASE chain' = chain \o q
    BY <1>2, <2>2, QueuedKept
  <2>3. QED
    BY <2>1, <2>2
<1>4. Running => Running'
  BY DEF Running, Bots, Blocking
<1>5. ClockIsOwed' /\ Minded'
  BY <1>3, <1>4, QuietMinds DEF StallInv
<1>6. QED
  BY <1>1, <1>5 DEF StallInv

\* A state or an answer that is shown, seats apart.
LEMMA ShownMinds ==
  ASSUME RoomInv, RoomInv', StallInv, UNCHANGED <<order, kind, disposed>>,
         \A s \in Seats : link'[s] = link[s],
         NEW g \in GameStates, NEW c, game' = g, BroadcastTo(g, order, kind, c)
  PROVE  StallInv'
<1>1. SeatsFillUp'
  BY SeatsKept DEF StallInv
<1>2. BroadcastTo(g, order', kind, c)
  OBVIOUS
<1>3. ClockIsOwed' /\ Minded'
  BY <1>2, ShowingMinds
<1>4. QED
  BY <1>1, <1>3 DEF StallInv

LEMMA SeatingMinds ==
  ASSUME RoomInv, RoomInv', FullWhenStarted, StallInv, Seating PROVE StallInv'
<1>1. PICK s \in Seats : Join(s) \/ Drop(s) \/ Reconnect(s) \/ WindowExpires(s) \/ Quit(s)
  BY DEF Seating
<1>2. CASE Join(s)
  BY <1>2, JoinMinds
<1>3. CASE Drop(s) \/ Reconnect(s)
  <2>1. UNCHANGED <<game, order, kind, clock, chain, job, disposed>> /\ <<>> \in Seq(Task)
    BY <1>3 DEF Drop, Reconnect, Rewire, controllers, timing
  <2>2. \A t \in Seats : kind[t] # "empty" \/ link'[t] = link[t]
    BY <1>3 DEF Drop, Reconnect, Rewire, RoomInv, PeopleOK
  <2>3. QED
    BY <2>1, <2>2, AddingMinds
<1>4. CASE WindowExpires(s) \/ Quit(s)
  <2>1. kind[s] # "empty" /\ TakeOver(s)
    BY <1>4 DEF WindowExpires, Quit, StallInv, SeatsFillUp
  <2>2. \A t \in Seats \ {s} : link'[t] = link[t]
    BY <1>4 DEF WindowExpires, Quit, RoomInv, PeopleOK
  <2>3. QED
    BY <2>1, <2>2, TakeOverMinds
<1>5. QED
  BY <1>1, <1>2, <1>3, <1>4

LEMMA MessagesMind ==
  ASSUME RoomInv, RoomInv', StallInv, Messages PROVE StallInv'
<1>1. ASSUME NEW s \in Seats, NEW a \in Actions, NEW r, Accept(s, a, r) PROVE StallInv'
  <2>1. /\ Started /\ Apply(game, a) # Refused
        /\ game' = Apply(game, a) /\ BroadcastTo(Apply(game, a), order, kind, consult)
        /\ UNCHANGED <<order, kind, link, disposed>>
    BY <1>1 DEF Accept, MayPlay, Show, seating
  <2>2. Apply(game, a) \in GameStates
    BY <2>1, JobFacts, GameAssumption
  <2>3. QED
    BY <2>1, <2>2, ShownMinds
<1>2. ASSUME NEW s \in Seats, HandleConsultAnswer(s) PROVE StallInv'
  <2>1. /\ consult # NoConsult /\ BroadcastTo(game, order, kind, NoConsult)
        /\ UNCHANGED <<game, order, kind, link, disposed>>
    BY <1>2 DEF HandleConsultAnswer, Resolve, seating
  <2>2. game \in GameStates
    BY <2>1, JobFacts DEF RoomInv, TableOK, ConsultUnderClock, ClockOnLiveMatch
  <2>3. QED
    BY <2>1, <2>2, ShownMinds
<1>3. QED
  BY <1>1, <1>2, GameAssumption DEF Messages, HandleAction, HandleConsult

LEMMA TurnExpiresMinds ==
  ASSUME RoomInv, RoomInv', StallInv, TurnExpires PROVE StallInv'
<1>1. /\ UNCHANGED <<game, order, kind, link, job, disposed>>
      /\ clock # NoSeat /\ clock' = NoSeat
      /\ chain' = Append(chain, [kind |-> "timeout", seat |-> clock])
      /\ chain \in Seq(Task)
  BY DEF TurnExpires, ClearClock, seating, RoomInv, QueueOK
<1>2. SeatsFillUp'
  BY <1>1, SeatsKept DEF StallInv
<1>3. CASE job.at = "buying"
  BY <1>1, <1>2, <1>3 DEF StallInv, ClockIsOwed, Minded, Running
<1>4. CASE job.at # "buying"
  <2>1. Blocking(game, clock) # {}
    BY <1>1, <1>4 DEF StallInv, ClockIsOwed
  <2>2. /\ Len(chain) + 1 \in DOMAIN chain'
        /\ chain'[Len(chain) + 1] = [kind |-> "timeout", seat |-> clock]
    BY <1>1
  <2>3. PICK i \in DOMAIN chain' : chain'[i] = [kind |-> "timeout", seat |-> clock]
    BY <2>2
  <2>4. Timeout(chain[i])'
    BY <1>1, <2>1, <2>3 DEF Timeout, Blocking
  <2>5. Queued'
    BY <2>3, <2>4 DEF Queued
  <2>6. QED
    BY <1>1, <1>2, <2>5 DEF StallInv, ClockIsOwed, Minded
<1>5. QED
  BY <1>3, <1>4

LEMMA OtherTurnsMind ==
  ASSUME RoomInv, RoomInv', StallInv, ConsultCapExpires \/ Opine \/ Dispose PROVE StallInv'
<1>1. CASE ConsultCapExpires
  <2>1. /\ UNCHANGED <<game, order, kind, link, clock, job, disposed>>
        /\ consult # NoConsult
        /\ chain' = Append(chain, [kind |-> "fallback", id |-> consult.id])
    BY <1>1 DEF ConsultCapExpires, seating
  <2> DEFINE t == [kind |-> "fallback", id |-> consult.id]
  <2>2. t \in Task /\ chain \in Seq(Task)
    BY <2>1 DEF RoomInv, QueueOK, TableOK, Consult, Task
  <2> HIDE DEF t
  <2>3. <<t>> \in Seq(Task) /\ chain' = chain \o <<t>>
    BY <2>1, <2>2 DEF t
  <2>4. QED
    BY <2>1, <2>3, AddingMinds
<1>2. CASE Opine
  <2>1. UNCHANGED <<game, order, kind, link, clock, chain, job, disposed>> /\ <<>> \in Seq(Task)
    BY <1>2 DEF Opine, OpinionArrives, seating, timing
  <2>2. QED
    BY <2>1, AddingMinds
<1>3. CASE Dispose
  <2>1. /\ UNCHANGED <<order, kind>>
        /\ disposed' /\ clock' = NoSeat
        /\ \A s \in Seats : link[s] = "none" => link'[s] = "none"
    BY <1>3 DEF Dispose, ClearClock, controllers, RoomInv, PeopleOK
  <2>2. SeatsFillUp'
    BY <2>1, SeatsKept DEF StallInv
  <2>3. QED
    BY <2>1, <2>2 DEF StallInv, ClockIsOwed, Minded, Untimed
<1>4. QED
  BY <1>1, <1>2, <1>3

-----------------------------------------------------------------------------
(* The running job. *)

\* A step of the job that leaves the table as it is.
LEMMA QuietJob ==
  ASSUME RoomInv, StallInv, UNCHANGED <<game, order, kind, link, clock, disposed>>,
         job.at # "buying",
         Untimed /\ Queued => Queued' \/ Running',
         Untimed /\ Running => Running'
  PROVE  StallInv'
<1>1. SeatsFillUp'
  BY SeatsKept DEF StallInv
<1>2. ClockIsOwed' /\ Minded'
  BY QuietMinds DEF StallInv
<1>3. QED
  BY <1>1, <1>2 DEF StallInv

\* A timeout that comes up finds its seat still owing a move, or finds a bot there.
LEMMA StartJobMinds ==
  ASSUME RoomInv, FullWhenStarted, StallInv, StartJob PROVE StallInv'
<1>1. /\ UNCHANGED <<game, order, kind, link, clock, disposed>>
      /\ job = Idle /\ chain # <<>> /\ chain \in Seq(Task)
      /\ chain' = Tail(chain) /\ job' = Begun(Head(chain))
  BY DEF StartJob, seating, timing, RoomInv, QueueOK
<1>2. ~Running
  BY <1>1 DEF Running, Idle
<1>3. ASSUME Untimed, Queued PROVE Queued' \/ Running'
  <2>1. PICK i \in DOMAIN chain : Timeout(chain[i])
    BY <1>3 DEF Queued
  <2>2. CASE i = 1
    <3> DEFINE t == Head(chain)
    <3>1. t.kind = "timeout" /\ Blocking(game, t.seat) # {} /\ t.seat \in Seats
      <4>1. t = chain[1] /\ t \in Task
        BY <1>1
      <4>2. QED
        BY <2>1, <2>2, <4>1 DEF Timeout, Task
    <3>2. CASE kind[t.seat] = "human"
      <4>1. StillOwes(t.seat)
        BY <1>3, <3>1, <3>2 DEF StillOwes, Untimed
      <4>2. job' = [at |-> "timeout", seat |-> t.seat, options |-> Blocking(game, t.seat)]
        BY <1>1, <3>1, <4>1 DEF Begun
      <4>3. QED
        BY <1>1, <4>2 DEF Running, Blocking
    <3>3. CASE kind[t.seat] # "human"
      <4>1. Started
        BY <1>3 DEF Untimed, Live
      <4>2. t.seat \in Bots
        BY <3>1, <3>3, <4>1, TableIsFull DEF Bots, StallInv, RoomInv, PeopleOK
      <4>3. job' = Loop(0, NoReply)
        BY <1>1, <3>1, <3>3 DEF Begun, StillOwes
      <4>4. job'.at = "loop" /\ job'.step < MaxSteps
        BY <4>3, RoomAssumption DEF Loop
      <4>5. t.seat \in Bots' /\ Blocking(game', t.seat) # {}
        BY <1>1, <3>1, <4>2 DEF Bots
      <4>6. \E s \in Seats : kind'[s] = "bot" /\ Blocking(game', s) # {}
        BY <4>5 DEF Bots
      <4>7. QED
        BY <4>4, <4>6 DEF Running, Bots, Blocking
    <3>4. QED
      BY <3>2, <3>3
  <2>3. CASE i # 1
    <3>1. i - 1 \in DOMAIN chain' /\ chain'[i - 1] = chain[i]
      BY <1>1, <2>3
    <3>2. PICK j \in DOMAIN chain' : chain'[j] = chain[i]
      BY <3>1
    <3>3. Timeout(chain[j])'
      BY <1>1, <2>1, <3>2 DEF Timeout, Blocking
    <3>4. QED
      BY <3>2, <3>3 DEF Queued
  <2>4. QED
    BY <2>2, <2>3
<1>4. job.at # "buying"
  BY <1>1 DEF Idle
<1>5. QED
  BY <1>1, <1>2, <1>3, <1>4, QuietJob

\* A bot that owes a blocking move of its own is found.
LEMMA BotsAreFound ==
  ASSUME RoomInv, StallInv, DecisionsAreOnesOwn, game \in GameStates,
         NEW s \in Bots, Blocking(game, s) # {}
  PROVE  ActingBot # NoSeat
<1>1. s \in Seats /\ kind[s] = "bot" /\ order \in Seq(Seats)
  BY DEF Bots, RoomInv, PeopleOK
<1>2. PICK a \in Blocking(game, s) : TRUE
  OBVIOUS
<1>3. TypeOf(a) \notin HeldTypes
  <2> DEFINE S == { t \in Humans : Legal(game, t) \cap HumanPriority # {} }
             waiting == FirstIn(order, S)
  <2>1. CASE waiting = NoSeat
    BY <2>1 DEF HeldTypes
  <2>2. CASE waiting # NoSeat
    <3>1. waiting \in S
      <4> HIDE DEF S
      <4>1. QED
        BY <1>1, <2>2, FirstInType
    <3>2. waiting \in Seats /\ waiting # s /\ Legal(game, waiting) \cap HumanPriority # {}
      BY <1>1, <3>1 DEF Humans
    <3>3. HeldTypes = { TypeOf(b) : b \in Legal(game, waiting) }
      BY <2>2 DEF HeldTypes
    <3>4. QED
      BY <1>1, <1>2, <3>2, <3>3 DEF DecisionsAreOnesOwn
  <2>3. QED
    BY <2>1, <2>2
<1>4. OwnOptions(s) \ NonBlocking # {}
  BY <1>2, <1>3 DEF OwnOptions, Blocking
<1>5. PICK i \in DOMAIN order : order[i] = s
  BY <1>1 DEF StallInv, SeatsFillUp
<1>6. order[i] \in { t \in Bots : OwnOptions(t) \ NonBlocking # {} }
  BY <1>4, <1>5
<1>7. QED
  BY <1>1, <1>6, FirstInFinds DEF ActingBot

\* Steps of a driven table that leave the table as it is.
LEMMA DrivingMinds ==
  ASSUME RoomInv, StallInv, DecisionsAreOnesOwn, NEW j, Becomes(j), job.at = "loop",
         MayStep => ActingBot = NoSeat
           \/ j = [at |-> "botTurn", step |-> job.step, reply |-> job.reply,
                   seat |-> ActingBot, options |-> OwnOptions(ActingBot)]
  PROVE  StallInv'
<1>1. UNCHANGED <<game, order, kind, link, clock, chain, disposed>> /\ job' = j
  BY DEF Becomes, seating, timing
<1>2. Queued => Queued'
  BY <1>1 DEF Queued, Timeout, Blocking
<1>3. ASSUME Untimed, Running PROVE Running'
  <2>1. job.step < MaxSteps /\ \E s \in Bots : Blocking(game, s) # {}
    BY <1>3 DEF Running
  <2>2. MayStep /\ game \in GameStates
    BY <1>3, <2>1, JobFacts DEF MayStep, Untimed, Live
  <2>3. ActingBot # NoSeat
    BY <2>1, <2>2, BotsAreFound
  <2>4. OwnOptions(ActingBot) \subseteq Legal(game, ActingBot)
    BY DEF OwnOptions
  <2>5. job'.at = "botTurn" /\ job'.seat = ActingBot /\ job'.options = OwnOptions(ActingBot)
    BY <1>1, <2>2, <2>3
  <2>6. job'.options \subseteq Legal(game', job'.seat)
    BY <1>1, <2>4, <2>5
  <2>7. QED
    BY <2>5, <2>6 DEF Running
<1>4. QED
  BY <1>1, <1>2, <1>3, QuietJob

\* What a job that waits was handed is still offered, so it is accepted; what it
\* waited for is shown, or is a question whose answer will be.
LEMMA BotMovesMind ==
  ASSUME RoomInv, RoomInv', StallInv, OfferedIsAccepted, NEW a \in Actions, BotMoves(a)
  PROVE  StallInv'
<1>1. /\ job.at = "botTurn" /\ a \in job.options
      /\ UNCHANGED <<order, kind, link, chain, disposed>>
  BY DEF BotMoves, seating
<1>2. game \in GameStates /\ job.seat \in Seats
  BY <1>1, JobFacts DEF Owing, Job, Idle
<1>3. CASE Apply(game, a) = Refused
  <2>1. UNCHANGED <<game, clock>> /\ job' = Again
    BY <1>3 DEF BotMoves, timing
  <2>2. Queued => Queued'
    BY <1>1, <2>1 DEF Queued, Timeout, Blocking
  <2>3. ~Running
    <3>1. ~(job.options \subseteq Legal(game, job.seat))
      BY <1>1, <1>2, <1>3 DEF OfferedIsAccepted
    <3>2. QED
      BY <1>1, <3>1 DEF Running
  <2>4. QED
    BY <1>1, <2>1, <2>2, <2>3, QuietJob
<1>4. CASE Apply(game, a) # Refused /\ a \in PaidQuestion
  <2>1. job'.at = "buying"
    BY <1>4 DEF BotMoves
  <2>2. SeatsFillUp'
    BY <1>1, SeatsKept DEF StallInv
  <2>3. QED
    BY <2>1, <2>2 DEF StallInv, ClockIsOwed, Minded, Running
<1>5. CASE Apply(game, a) # Refused /\ a \notin PaidQuestion
  <2>1. game' = Apply(game, a) /\ BroadcastTo(Apply(game, a), order, kind, consult)
    BY <1>5 DEF BotMoves, Show
  <2>2. Apply(game, a) \in GameStates
    BY <1>2, <1>5, GameAssumption
  <2>3. QED
    BY <1>1, <2>1, <2>2, ShownMinds
<1>6. QED
  BY <1>3, <1>4, <1>5

LEMMA BotBuysMinds ==
  ASSUME RoomInv, RoomInv', StallInv, BotBuys PROVE StallInv'
<1>1. /\ job.at = "buying" /\ game' = game /\ BroadcastTo(game, order, kind, consult)
      /\ UNCHANGED <<order, kind, link, disposed>>
  BY DEF BotBuys, Show, seating
<1>2. game \in GameStates
  BY <1>1, JobFacts DEF Owing
<1>3. QED
  BY <1>1, <1>2, ShownMinds

LEMMA PauseEndsMinds ==
  ASSUME RoomInv, RoomInv', StallInv, PauseEnds PROVE StallInv'
<1>1. job.at = "pause" /\ UNCHANGED <<order, kind, link, chain, disposed>>
  BY DEF PauseEnds, seating
<1>2. game \in GameStates /\ job.move \in Actions
  BY <1>1, JobFacts DEF Owing, Job, Idle
<1>3. CASE Apply(game, job.move) = Refused
  <2>1. UNCHANGED <<game, clock>>
    BY <1>3, <1>2, GameAssumption DEF PauseEnds, timing, Show
  <2>2. Queued => Queued'
    BY <1>1, <2>1 DEF Queued, Timeout, Blocking
  <2>3. QED
    BY <1>1, <2>1, <2>2, QuietJob DEF Running
<1>4. CASE Apply(game, job.move) # Refused
  <2>1. /\ game' = Apply(game, job.move)
        /\ BroadcastTo(Apply(game, job.move), order, kind, consult)
    BY <1>4 DEF PauseEnds, Show
  <2>2. Apply(game, job.move) \in GameStates
    BY <1>2, <1>4, GameAssumption
  <2>3. QED
    BY <1>1, <2>1, <2>2, ShownMinds
<1>5. QED
  BY <1>3, <1>4

LEMMA TimedOutMoveMinds ==
  ASSUME RoomInv, RoomInv', StallInv, OfferedIsAccepted, NEW a \in Actions, TimedOutMove(a)
  PROVE  StallInv'
<1>1. /\ job.at = "timeout" /\ a \in job.options
      /\ UNCHANGED <<order, kind, link, chain, disposed>>
  BY DEF TimedOutMove, seating
<1>2. game \in GameStates /\ job.seat \in Seats
  BY <1>1, JobFacts DEF Owing, Job, Idle
<1>3. CASE Apply(game, a) = Refused
  <2>1. UNCHANGED <<game, clock>>
    BY <1>2, <1>3, GameAssumption DEF TimedOutMove, timing, Show
  <2>2. Queued => Queued'
    BY <1>1, <2>1 DEF Queued, Timeout, Blocking
  <2>3. ~Running
    <3>1. ~(job.options \subseteq Blocking(game, job.seat))
      BY <1>1, <1>2, <1>3 DEF OfferedIsAccepted, Blocking
    <3>2. QED
      BY <1>1, <3>1 DEF Running
  <2>4. QED
    BY <1>1, <2>1, <2>2, <2>3, QuietJob
<1>4. CASE Apply(game, a) # Refused
  <2>1. game' = Apply(game, a) /\ BroadcastTo(Apply(game, a), order, kind, consult)
    BY <1>4 DEF TimedOutMove, Show
  <2>2. Apply(game, a) \in GameStates
    BY <1>2, <1>4, GameAssumption
  <2>3. QED
    BY <1>1, <2>1, <2>2, ShownMinds
<1>5. QED
  BY <1>3, <1>4

LEMMA FallbackMinds ==
  ASSUME RoomInv, RoomInv', StallInv, FallbackAnswers \/ FallbackSilent PROVE StallInv'
<1>1. job.at = "fallback" /\ UNCHANGED <<game, order, kind, link, chain, disposed>>
  BY DEF FallbackAnswers, FallbackSilent, Becomes, seating
<1>2. CASE UNCHANGED clock
  <2>1. Queued => Queued'
    BY <1>1 DEF Queued, Timeout, Blocking
  <2>2. QED
    BY <1>1, <1>2, <2>1, QuietJob DEF Running
<1>3. CASE consult.id = job.id /\ Resolve
  <2>1. job.id # 0
    BY <1>1, JobFacts DEF Job, Idle
  <2>2. consult # NoConsult
    BY <1>3, <2>1 DEF NoConsult
  <2>3. game \in GameStates
    BY <2>2, JobFacts DEF RoomInv, TableOK, ConsultUnderClock, ClockOnLiveMatch
  <2>4. BroadcastTo(game, order, kind, NoConsult)
    BY <1>3 DEF Resolve
  <2>5. QED
    BY <1>1, <2>3, <2>4, ShownMinds
<1>4. QED
  BY <1>2, <1>3 DEF FallbackAnswers, FallbackSilent, Becomes, timing

LEMMA ConsultReplyMinds ==
  ASSUME RoomInv, RoomInv', StallInv, ConsultReply PROVE StallInv'
<1>1. job.at = "reply" /\ UNCHANGED <<game, order, kind, link, chain, disposed>>
  BY DEF ConsultReply, seating
<1>2. game \in GameStates
  BY <1>1, JobFacts DEF Owing
<1>3. CASE UNCHANGED clock
  <2>1. Queued => Queued'
    BY <1>1 DEF Queued, Timeout, Blocking
  <2>2. QED
    BY <1>1, <1>3, <2>1, QuietJob DEF Running
<1>4. ASSUME NEW c, BroadcastTo(game, order, kind, c) PROVE StallInv'
  BY <1>1, <1>2, <1>4, ShownMinds
<1>5. QED
  BY <1>3, <1>4 DEF ConsultReply, timing

LEMMA JobMinds ==
  ASSUME RoomInv, RoomInv', FullWhenStarted, StallInv,
         ~BotsMayThrow, OfferedIsAccepted, DecisionsAreOnesOwn, JobStep
  PROVE  StallInv'
<1>1. ~BotThrows /\ ~TimedOutThrows
  BY DEF BotThrows, TimedOutThrows
<1>2. CASE LoopReturns
  <2>1. Becomes(Settled) /\ job.at = "loop" /\ (MayStep => ActingBot = NoSeat)
    BY <1>2 DEF LoopReturns
  <2>2. QED
    BY <2>1, DrivingMinds
<1>3. CASE AskBot
  <2>1. job.at = "loop"
    BY <1>3 DEF AskBot, MayStep
  <2>2. QED
    BY <1>3, <2>1, DrivingMinds DEF AskBot
<1>4. ASSUME NEW m, PlanSystemMove(m) PROVE StallInv'
  <2> DEFINE j == [at |-> "pause", step |-> job.step, reply |-> job.reply, move |-> m]
  <2>1. Becomes(j) /\ job.at = "loop" /\ ActingBot = NoSeat
    BY <1>4 DEF PlanSystemMove, MayStep
  <2> HIDE DEF j
  <2>2. QED
    BY <2>1, DrivingMinds
<1>5. QED
  BY <1>1, <1>2, <1>3, <1>4, StartJobMinds, BotBuysMinds, PauseEndsMinds, FallbackMinds,
     ConsultReplyMinds, BotMovesMind, TimedOutMoveMinds DEF JobStep

LEMMA StallInductive ==
  ASSUME RoomInv, RoomInv', FullWhenStarted, StallInv, [Next]_vars,
         ~BotsMayThrow, OfferedIsAccepted, DecisionsAreOnesOwn
  PROVE  StallInv'
<1>1. CASE UNCHANGED vars
  <2>1. UNCHANGED <<game, order, kind, link, clock, chain, job, disposed>> /\ <<>> \in Seq(Task)
    BY <1>1 DEF vars, seating, timing
  <2>2. QED
    BY <2>1, AddingMinds
<1>2. CASE Next
  BY <1>2, SeatingMinds, MessagesMind, JobMinds, TurnExpiresMinds, OtherTurnsMind DEF Next
<1>3. QED
  BY <1>1, <1>2

LEMMA StallInitially == Init => StallInv
<1> SUFFICES ASSUME Init PROVE StallInv
  OBVIOUS
<1>1. SeatsForBots \in 0 .. SeatCount
  BY RoomAssumption DEF SeatsForBots
<1>2. order = [i \in 1 .. SeatsForBots |-> SeatCount - i]
  BY DEF Init, SeatsForBots
<1>3. /\ kind = [s \in Seats |-> IF s >= SeatCount - SeatsForBots THEN "bot" ELSE "empty"]
      /\ link = [s \in Seats |-> "none"]
      /\ clock = NoSeat /\ game = NotStarted
  BY DEF Init, SeatsForBots
<1>4. Len(order) = SeatsForBots + 0
  BY <1>1, <1>2
<1>5. \A s \in Seats : kind[s] = "empty" <=> 0 <= s /\ s < SeatCount - SeatsForBots
  BY <1>1, <1>3, RoomAssumption DEF Seats
<1>6. ASSUME NEW s \in Seats, kind[s] # "empty" PROVE \E i \in DOMAIN order : order[i] = s
  <2>1. s \in Int /\ SeatCount - SeatsForBots <= s /\ s < SeatCount
    BY <1>1, <1>3, <1>6, RoomAssumption DEF Seats
  <2>2. SeatCount - s \in 1 .. SeatsForBots /\ SeatCount - (SeatCount - s) = s
    BY <1>1, <2>1, RoomAssumption
  <2>3. QED
    BY <1>2, <2>2
<1>7. SeatsFillUp
  <2>1. 0 \in 0 .. SeatCount - SeatsForBots
    BY <1>1, RoomAssumption
  <2>2. \A s \in Seats : kind[s] = "empty" => link[s] = "none"
    BY <1>3
  <2>3. QED
    BY <1>4, <1>5, <1>6, <2>1, <2>2 DEF SeatsFillUp
<1>8. QED
  BY <1>3, <1>7 DEF StallInv, ClockIsOwed, Minded, Untimed, Live, Started

\* No table stalls on a person who owes it a decision and is on no clock, at any
\* table whose module accepts what it offers, whose people's decisions are nobody
\* else's too, and whose bots answer.  Drop either of the last two and the code does
\* leave such a person untimed.
THEOREM NobodyIsLeftUntimed ==
  ASSUME ~BotsMayThrow, OfferedIsAccepted, DecisionsAreOnesOwn
  PROVE  Spec => []OwedTurnIsTimed
<1>1. StallInv => OwedTurnIsTimed
  BY DEF StallInv, Minded, OwedTurnIsTimed, Untimed, Queued, Running, Idle
<1>2. Init => FullWhenStarted
  BY DEF Init, FullWhenStarted, Started
<1>3. RoomInv /\ RoomInv' /\ FullWhenStarted /\ StallInv /\ [Next]_vars => StallInv'
  BY StallInductive
<1>4. QED
  BY RoomInvariant, StallInitially, StepsPlay, <1>1, <1>2, <1>3, PTL DEF Spec

-----------------------------------------------------------------------------
(* The first word is people's: no bot is deciding an answer a person is asked  *)
(* for, at any table, where questions go to one side at a time.                *)

\* An answer a bot is deciding is still one that bot is asked for, and no person
\* anywhere is asked for any; or the match was decided meanwhile.
AnswersLeft ==
  job.at = "botTurn" =>
    \A a \in job.options \cap HumanPriority :
      \/ Over(game)
      \/ /\ TypeOf(a) \in PriorityTypes(game, job.seat)
         /\ \A s \in Humans : PriorityTypes(game, s) = {}

\* Only people hold a socket.
SocketsArePeoples == \A s \in Seats : link[s] \in {"live", "window"} => kind[s] = "human"

FirstWordInv == SeatsFillUp /\ SocketsArePeoples /\ AnswersLeft

LEMMA DecidedAsksNobody ==
  ASSUME NEW g \in GameStates, Over(g), NEW s \in Seats
  PROVE  Legal(g, s) = {} /\ PriorityTypes(g, s) = {}
BY ModuleAssumption DEF PriorityTypes

\* What the invariant says is enough.
LEMMA LeftToBots ==
  ASSUME RoomInv, AnswersLeft PROVE PeopleAnswerFirst
<1> SUFFICES ASSUME job.at = "botTurn", NEW a \in job.options \cap HumanPriority, NEW s \in Humans
             PROVE  PriorityTypes(game, s) = {}
  BY DEF PeopleAnswerFirst
<1>1. game \in GameStates /\ s \in Seats
  BY JobFacts DEF Owing, Humans
<1>2. QED
  BY <1>1, DecidedAsksNobody DEF AnswersLeft

\* The first person who is asked is found, and what that person is asked is held back.
LEMMA HeldBack ==
  ASSUME RoomInv, SeatsFillUp, NEW s \in Humans, PriorityTypes(game, s) # {}
  PROVE  \E t \in Humans : /\ PriorityTypes(game, t) # {}
                           /\ PriorityTypes(game, t) \subseteq HeldTypes
<1> DEFINE W == { t \in Humans : Legal(game, t) \cap HumanPriority # {} }
<1>1. order \in Seq(Seats) /\ s \in Seats /\ kind[s] = "human" /\ s \in W
  BY JobFacts DEF Humans, PriorityTypes
<1>2. PICK i \in DOMAIN order : order[i] = s
  BY <1>1 DEF SeatsFillUp
<1>3. FirstIn(order, W) # NoSeat
  BY <1>1, <1>2, FirstInFinds
<1>4. FirstIn(order, W) \in W
  BY <1>1, <1>3, FirstInType
<1>5. HeldTypes = { TypeOf(a) : a \in Legal(game, FirstIn(order, W)) }
  BY <1>3 DEF HeldTypes
<1>6. FirstIn(order, W) \in Humans /\ Legal(game, FirstIn(order, W)) \cap HumanPriority # {}
  BY <1>4
<1>7. PriorityTypes(game, FirstIn(order, W)) # {}
  BY <1>6 DEF PriorityTypes
<1>8. PriorityTypes(game, FirstIn(order, W)) \subseteq HeldTypes
  BY <1>5 DEF PriorityTypes
<1>9. QED
  BY <1>6, <1>7, <1>8

\* Asking a bot leaves it only answers that no person is asked for.
LEMMA AskBotLeaves ==
  ASSUME RoomInv, SeatsFillUp, OneSideIsAsked, AskBot PROVE AnswersLeft'
<1>1. /\ Live /\ ActingBot # NoSeat
      /\ job' = [at |-> "botTurn", step |-> job.step, reply |-> job.reply,
                 seat |-> ActingBot, options |-> OwnOptions(ActingBot)]
      /\ UNCHANGED <<game, kind>>
  BY DEF AskBot, MayStep, Becomes, seating
<1>2. job'.seat = ActingBot /\ job'.options = OwnOptions(ActingBot)
  BY <1>1
<1>3. game \in GameStates
  BY <1>1, JobFacts DEF Live
<1>4. ActingBot \in Seats
  BY <1>1, JobFacts, FirstInType DEF ActingBot, Bots
<1>5. ASSUME NEW a \in OwnOptions(ActingBot), a \in HumanPriority
      PROVE  /\ TypeOf(a) \in PriorityTypes(game, ActingBot)
             /\ \A s \in Humans : PriorityTypes(game, s) = {}
  <2>1. TypeOf(a) \in PriorityTypes(game, ActingBot) /\ TypeOf(a) \notin HeldTypes
    BY <1>5 DEF OwnOptions, PriorityTypes
  <2>2. ASSUME NEW s \in Humans, PriorityTypes(game, s) # {} PROVE FALSE
    <3>1. PICK t \in Humans : /\ PriorityTypes(game, t) # {}
                              /\ PriorityTypes(game, t) \subseteq HeldTypes
      BY <2>2, HeldBack
    <3>2. t \in Seats
      BY DEF Humans
    <3>3. PriorityTypes(game, t) = PriorityTypes(game, ActingBot)
      BY <1>3, <1>4, <2>1, <3>1, <3>2 DEF OneSideIsAsked
    <3>4. QED
      BY <2>1, <3>1, <3>3
  <2>3. QED
    BY <2>1, <2>2
<1>6. Humans' = Humans /\ game' = game
  BY <1>1 DEF Humans
<1>7. QED
  BY <1>2, <1>5, <1>6 DEF AnswersLeft

\* No other step of the chain leaves a bot deciding.
LEMMA NobodyElseIsAsked ==
  ASSUME RoomInv, JobStep, ~AskBot PROVE job'.at # "botTurn"
<1>1. Idle.at # "botTurn"
  BY DEF Idle
<1>2. Settled.at # "botTurn"
  BY <1>1 DEF Settled
<1>3. \A step, reply : Loop(step, reply).at # "botTurn"
  BY DEF Loop
<1>4. Again.at # "botTurn"
  BY <1>3 DEF Again
<1>5. CASE StartJob
  <2>1. job' = Begun(Head(chain)) /\ chain # <<>> /\ chain \in Seq(Task)
    BY <1>5, JobFacts DEF StartJob
  <2>2. Head(chain) \in Task
    BY <2>1
  <2>3. Head(chain).kind \in {"advance", "timeout", "fallback"}
    BY <2>2 DEF Task
  <2>4. QED
    BY <1>1, <1>3, <2>1, <2>3 DEF Begun
<1>6. CASE LoopReturns \/ BotThrows
  BY <1>2, <1>6 DEF LoopReturns, BotThrows, Becomes
<1>7. CASE TimedOutThrows \/ FallbackSilent
  BY <1>1, <1>3, <1>7 DEF TimedOutThrows, FallbackSilent, Becomes
<1>8. CASE BotBuys \/ PauseEnds
  BY <1>2, <1>4, <1>8 DEF BotBuys, PauseEnds
<1>9. CASE FallbackAnswers \/ ConsultReply
  BY <1>1, <1>9 DEF FallbackAnswers, ConsultReply
<1>10. ASSUME NEW a, BotMoves(a) PROVE job'.at # "botTurn"
  BY <1>4, <1>10 DEF BotMoves
<1>11. ASSUME NEW a, PlanSystemMove(a) PROVE job'.at # "botTurn"
  BY <1>11 DEF PlanSystemMove, Becomes
<1>12. ASSUME NEW a, TimedOutMove(a) PROVE job'.at # "botTurn"
  BY <1>3, <1>12 DEF TimedOutMove
<1>13. QED
  BY <1>5, <1>6, <1>7, <1>8, <1>9, <1>10, <1>11, <1>12 DEF JobStep

\* A move of a person's while a bot decides an answer asks nobody anything new.
LEMMA AskedStay ==
  ASSUME RoomInv, OneSideIsAsked, AnswersLeft, job.at = "botTurn",
         NEW a \in job.options \cap HumanPriority, NEW s \in Humans,
         NEW b \in (Legal(game, s) \cup {AbandonedMove(game, s)}) \ {NoMove},
         Apply(game, b) # Refused, ~Over(game)
  PROVE  \/ Over(Apply(game, b))
         \/ \A r \in Seats : PriorityTypes(Apply(game, b), r) = PriorityTypes(game, r)
<1>1. /\ game \in GameStates /\ s \in Seats
      /\ PriorityTypes(game, s) = {} /\ PriorityTypes(game, job.seat) # {}
  BY JobFacts DEF AnswersLeft, Humans, Owing
<1>2. job.seat \in Seats
  BY JobFacts DEF Job, Idle
<1>3. QED
  BY <1>1, <1>2 DEF OneSideIsAsked

\* Nobody new is a person while a bot decides, and what the match becomes is decided
\* or asks the same: then the invariant stays.
LEMMA LeavesAnswers ==
  ASSUME RoomInv, AnswersLeft, job' = job,
         job.at = "botTurn" => Humans' \subseteq Humans,
         \A a \in job.options \cap HumanPriority : job.at = "botTurn" =>
            \/ Over(game')
            \/ ~Over(game) /\ \A r \in Seats : PriorityTypes(game', r) = PriorityTypes(game, r)
  PROVE  AnswersLeft'
<1> SUFFICES ASSUME job.at = "botTurn", NEW a \in job.options \cap HumanPriority, ~Over(game')
             PROVE  /\ TypeOf(a) \in PriorityTypes(game', job.seat)
                    /\ \A s \in Humans' : PriorityTypes(game', s) = {}
  BY DEF AnswersLeft
<1>1. ~Over(game) /\ \A r \in Seats : PriorityTypes(game', r) = PriorityTypes(game, r)
  OBVIOUS
<1>2. job.seat \in Seats /\ Humans \subseteq Seats
  BY JobFacts DEF Job, Idle, Humans
<1>3. TypeOf(a) \in PriorityTypes(game, job.seat) /\ \A s \in Humans : PriorityTypes(game, s) = {}
  BY <1>1 DEF AnswersLeft
<1>4. QED
  BY <1>1, <1>2, <1>3

LEMMA AcceptLeaves ==
  ASSUME RoomInv, OneSideIsAsked, AnswersLeft,
         NEW s \in Seats, NEW a, NEW reply, Accept(s, a, reply)
  PROVE  AnswersLeft'
<1>1. /\ s \in Humans /\ a \in Legal(game, s) /\ Apply(game, a) # Refused /\ Started
      /\ game' = Apply(game, a) /\ job' = job /\ kind' = kind
  BY DEF Accept, MayPlay, Show, seating, Humans
<1>2. game \in GameStates
  BY <1>1, JobFacts
<1>3. ~Over(game) /\ a # NoMove
  BY <1>1, <1>2, DecidedAsksNobody, GameAssumption
<1>4. Humans' = Humans
  BY <1>1 DEF Humans
<1>5. ASSUME NEW b \in job.options \cap HumanPriority, job.at = "botTurn"
      PROVE  Over(game') \/ \A r \in Seats : PriorityTypes(game', r) = PriorityTypes(game, r)
  BY <1>1, <1>3, <1>5, AskedStay
<1>6. QED
  BY <1>1, <1>3, <1>4, <1>5, LeavesAnswers

LEMMA TakeOverLeaves ==
  ASSUME RoomInv, SeatsFillUp, OneSideIsAsked, AnswersLeft,
         NEW s \in Humans, TakeOver(s)
  PROVE  AnswersLeft'
<1>1. job' = job /\ Humans' \subseteq Humans
  BY TakeOverSeats DEF TakeOver, Humans
<1>2. CASE Abandoned(s) = Refused
  <2>1. game' = game
    BY <1>2 DEF TakeOver
  <2>2. QED
    BY <1>1, <2>1, LeavesAnswers
<1>3. CASE Abandoned(s) # Refused
  <2>1. /\ Started /\ ~Over(game) /\ AbandonedMove(game, s) # NoMove
        /\ Abandoned(s) = Apply(game, AbandonedMove(game, s)) /\ game' = Abandoned(s)
    BY <1>3 DEF Abandoned, Live, Finished, Started, TakeOver, Show
  <2>2. QED
    BY <1>1, <1>3, <2>1, AskedStay, LeavesAnswers
<1>4. QED
  BY <1>2, <1>3

\* Whoever leaves is a person, and no longer holds a socket if a bot sits down.
LEMMA LeavingLeaves ==
  ASSUME RoomInv, OneSideIsAsked, FirstWordInv, NEW s \in Seats, WindowExpires(s) \/ Quit(s)
  PROVE  FirstWordInv'
<1>1. TakeOver(s) /\ kind[s] = "human" /\ s \in Humans /\ order' = order
  BY DEF WindowExpires, Quit, FirstWordInv, SocketsArePeoples, TakeOver, Humans
<1>2. /\ kind \in [Seats -> {"empty", "human", "bot"}]
      /\ link \in [Seats -> {"none", "live", "window", "gone"}]
  BY DEF RoomInv, PeopleOK
<1>3. /\ \A t \in Seats \ {s} : link'[t] = link[t] /\ kind'[t] = kind[t]
      /\ kind'[s] \in {"human", "bot"}
      /\ link'[s] \in {"live", "window"} => kind'[s] = "human"
  BY <1>1, <1>2 DEF WindowExpires, Quit, TakeOver
<1>4. SocketsArePeoples'
  BY <1>3 DEF FirstWordInv, SocketsArePeoples
<1>5. SeatsFillUp'
  BY <1>1, <1>3, SeatsKept DEF FirstWordInv
<1>6. QED
  BY <1>1, <1>4, <1>5, TakeOverLeaves DEF FirstWordInv

\* Nobody joins once the match is under way.
LEMMA JoinLeaves ==
  ASSUME RoomInv, FullWhenStarted, FirstWordInv, NEW s \in Seats, Join(s)
  PROVE  FirstWordInv'
<1>1. SeatsFillUp'
  BY JoinFillsUp DEF FirstWordInv
<1>2. ~Started /\ job' = job
  BY TableIsFull DEF Join, FirstWordInv
<1>3. job'.at # "botTurn"
  BY <1>2 DEF RoomInv, JobOK, Owing
<1>4. SocketsArePeoples'
  BY DEF Join, FirstWordInv, SocketsArePeoples, RoomInv, PeopleOK
<1>5. QED
  BY <1>1, <1>3, <1>4 DEF FirstWordInv, AnswersLeft

\* A step that leaves the seats and the match alone, and the bot that decides.
LEMMA StillLeaves ==
  ASSUME RoomInv, FirstWordInv, UNCHANGED <<game, order, kind, job>>,
         \A s \in Seats : link'[s] = link[s] \/ kind[s] = "human" \/ link'[s] \in {"none", "gone"},
         \A s \in Seats : link[s] = "none" => link'[s] = "none"
  PROVE  FirstWordInv'
<1>1. SeatsFillUp'
  BY SeatsKept DEF FirstWordInv
<1>2. SocketsArePeoples'
  BY DEF FirstWordInv, SocketsArePeoples
<1>3. AnswersLeft'
  BY DEF FirstWordInv, AnswersLeft, Humans
<1>4. QED
  BY <1>1, <1>2, <1>3 DEF FirstWordInv

LEMMA FirstWordInductive ==
  ASSUME RoomInv, FullWhenStarted, OneSideIsAsked, FirstWordInv, [Next]_vars
  PROVE  FirstWordInv'
<1>1. ASSUME NEW s \in Seats, Join(s) PROVE FirstWordInv'
  BY <1>1, JoinLeaves
<1>2. ASSUME NEW s \in Seats, Drop(s) \/ Reconnect(s) PROVE FirstWordInv'
  <2>1. /\ link[s] \in {"live", "window"} /\ kind[s] = "human"
        /\ UNCHANGED <<game, order, kind, job>>
        /\ \E to : link' = [link EXCEPT ![s] = to]
    BY <1>2 DEF Drop, Reconnect, Rewire, controllers
  <2>2. link \in [Seats -> {"none", "live", "window", "gone"}]
    BY DEF RoomInv, PeopleOK
  <2>3. QED
    BY <2>1, <2>2, StillLeaves
<1>3. ASSUME NEW s \in Seats, WindowExpires(s) \/ Quit(s) PROVE FirstWordInv'
  BY <1>3, LeavingLeaves
<1>4. ASSUME NEW s \in Seats, NEW a, NEW reply, Accept(s, a, reply) PROVE FirstWordInv'
  <2>1. order' = order /\ kind' = kind /\ link' = link
    BY <1>4 DEF Accept, seating
  <2>2. SeatsFillUp' /\ SocketsArePeoples'
    BY <2>1, SeatsKept DEF FirstWordInv, SocketsArePeoples
  <2>3. QED
    BY <1>4, <2>2, AcceptLeaves DEF FirstWordInv
<1>5. ASSUME NEW s \in Seats, HandleConsultAnswer(s) PROVE FirstWordInv'
  BY <1>5, StillLeaves DEF HandleConsultAnswer, seating
<1>6. CASE Messages
  BY <1>4, <1>5, <1>6 DEF Messages, HandleAction, HandleConsult
<1>7. CASE Dispose
  <2>1. /\ UNCHANGED <<game, order, kind, job>>
        /\ link' = [s \in Seats |-> IF link[s] = "none" THEN "none" ELSE "gone"]
    BY <1>7 DEF Dispose, controllers
  <2>2. QED
    BY <2>1, StillLeaves
<1>8. CASE Opine \/ TurnExpires \/ ConsultCapExpires
  <2>1. UNCHANGED <<game, order, kind, link, job>>
    BY <1>8 DEF Opine, OpinionArrives, TurnExpires, ConsultCapExpires, seating
  <2>2. QED
    BY <2>1, StillLeaves
<1>9. CASE JobStep
  <2>1. order' = order /\ kind' = kind /\ link' = link
    BY <1>9 DEF JobStep, StartJob, LoopReturns, AskBot, BotBuys, BotThrows, PauseEnds, TimedOutThrows,
       FallbackAnswers, FallbackSilent, ConsultReply, BotMoves, PlanSystemMove, TimedOutMove, Becomes, seating
  <2>2. SeatsFillUp' /\ SocketsArePeoples'
    BY <2>1, SeatsKept DEF FirstWordInv, SocketsArePeoples
  <2>3. AnswersLeft'
    BY <1>9, AskBotLeaves, NobodyElseIsAsked DEF FirstWordInv, AnswersLeft
  <2>4. QED
    BY <2>2, <2>3 DEF FirstWordInv
<1>10. CASE UNCHANGED vars
  <2>1. UNCHANGED <<game, order, kind, link, job>>
    BY <1>10 DEF vars, seating
  <2>2. QED
    BY <2>1, StillLeaves
<1>11. CASE Seating
  BY <1>1, <1>2, <1>3, <1>11 DEF Seating
<1>12. QED
  BY <1>6, <1>7, <1>8, <1>9, <1>10, <1>11 DEF Next

\* People answer first, at a table of any size with any number of them, whoever drops,
\* quits or is taken over while a bot decides: findActingBot looks at one person and at
\* one moment (match-room.ts:1411-1450, 1497-1509), and that is enough for every game
\* whose questions go to one side at a time. Such a game is truco, for two and for four
\* (OnlyTheAskedGoOn), and any without such questions, as the other three.
THEOREM PeopleAnswerBeforeBots ==
  ASSUME OneSideIsAsked
  PROVE  Spec => []PeopleAnswerFirst
<1>1. Init => FullWhenStarted /\ FirstWordInv
  <2> SUFFICES ASSUME Init PROVE FullWhenStarted /\ FirstWordInv
    OBVIOUS
  <2>1. FullWhenStarted /\ SocketsArePeoples
    BY DEF Init, FullWhenStarted, Started, SocketsArePeoples
  <2>2. AnswersLeft
    BY DEF Init, Idle, AnswersLeft
  <2>3. QED
    BY <2>1, <2>2, StallInitially DEF FirstWordInv, StallInv
<1>2. RoomInv /\ FullWhenStarted /\ FirstWordInv /\ [Next]_vars => FirstWordInv'
  BY FirstWordInductive
<1>3. RoomInv /\ FirstWordInv => PeopleAnswerFirst
  BY LeftToBots DEF FirstWordInv
<1>4. QED
  BY RoomInvariant, StepsPlay, <1>1, <1>2, <1>3, PTL DEF Spec
=============================================================================
