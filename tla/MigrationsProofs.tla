--------------------------- MODULE MigrationsProofs ---------------------------
(***************************************************************************)
(* The schema grows in order, for any number of runners, panels and files. *)
(*                                                                         *)
(* A runner past pg_advisory_lock is the one that holds it (LockHeld), so  *)
(* what it read of schema_migrations stays true but for what it commits    *)
(* itself (KnowsApplied); a file that is neither read nor committed by it  *)
(* is then the next one, and applied by nobody.                            *)
(***************************************************************************)
EXTENDS Migrations, TLAPS

Busy(r)   == runner[r].at \in {"locked", "tracking", "between", "inside", "recorded"}
Going(r)  == runner[r].at \in {"between", "inside", "recorded"}
Inside(r) == runner[r].at \in {"inside", "recorded"}

LockHeld == \A r \in Runners : Busy(r) <=> mlock = r

KnowsApplied ==
  \A r \in Runners : Going(r) => applied = runner[r].already \cup 1 .. (runner[r].file - 1)

WorksOnNext ==
  \A r \in Runners : Inside(r) =>
    runner[r].file \in File /\ runner[r].file \notin runner[r].already

InOrder  == \E n \in 0 .. Files : applied = 1 .. n
RanOnce  == \A f \in File : ran[f] = IF f \in applied THEN 1 ELSE 0
Complete == \A p \in booted : 1 .. bundle[p] \subseteq applied

SchemaIInv ==
  /\ MigrationsTypeOK /\ LockHeld /\ KnowsApplied /\ WorksOnNext
  /\ InOrder /\ RanOnce /\ Complete

-----------------------------------------------------------------------------
\* A step that commits nothing leaves what is about the schema alone.
Quiet == applied' = applied /\ ran' = ran /\ bundle' = bundle

\* The schema as it was is in order as it was.
LEMMA QuietKeeps ==
  ASSUME InOrder, RanOnce, Quiet
  PROVE  InOrder' /\ RanOnce'
  BY DEF InOrder, RanOnce, Quiet, File

\* What a stage is made of.
LEMMA StageShape ==
  ASSUME MigrationsTypeOK, NEW r \in Runners, Going(r)
  PROVE  /\ runner[r].already \subseteq File
         /\ runner[r].file \in 1 .. Files + 1
         /\ runner[r] \in [at : {"between", "inside", "recorded"}, already : SUBSET File,
                           file : 1 .. Files + 1]
  BY DEF MigrationsTypeOK, Stage, Idle, Going

\* The other runners stand where they stood.
LEMMA OthersStay ==
  ASSUME MigrationsTypeOK, NEW r \in Runners, NEW to, Moves(r, to)
  PROVE  /\ runner'[r] = to
         /\ \A q \in Runners : q # r => runner'[q] = runner[q]
         /\ to \in Stage => runner' \in [Runners -> Stage]
  BY DEF MigrationsTypeOK, Moves

\* An empty database, with nobody running.
THEOREM SchemaInitInv == MigrationsInit => SchemaIInv
<1> SUFFICES ASSUME MigrationsInit PROVE SchemaIInv
  OBVIOUS
<1> USE MigrationsAssumption
<1>1. MigrationsTypeOK
  BY DEF MigrationsInit, MigrationsTypeOK, Stage, File
<1>2. LockHeld /\ KnowsApplied /\ WorksOnNext
  BY DEF MigrationsInit, LockHeld, KnowsApplied, WorksOnNext, Busy, Going, Inside, Idle
<1>3. applied = 1 .. 0 /\ 0 \in 0 .. Files
  BY DEF MigrationsInit
<1>4. InOrder /\ RanOnce /\ Complete
  BY <1>3 DEF MigrationsInit, InOrder, RanOnce, Complete
<1>5. QED
  BY <1>1, <1>2, <1>4 DEF SchemaIInv

-----------------------------------------------------------------------------
(* One lemma for each way a runner moves. *)

\* Without the lock: it starts to wait.
LEMMA StartKeeps ==
  ASSUME SchemaIInv, NEW r \in Runners, Start(r)
  PROVE  SchemaIInv'
<1> DEFINE to == [at |-> "asked"]
<1>1. Moves(r, to) /\ to \in Stage /\ ~Busy(r)
  BY DEF Start, Stage, Busy, At, Idle
<1>2. MigrationsTypeOK'
  BY <1>1, OthersStay DEF SchemaIInv, Start, MigrationsTypeOK
<1>3. LockHeld' /\ KnowsApplied' /\ WorksOnNext'
  BY <1>1, OthersStay
     DEF SchemaIInv, Start, LockHeld, KnowsApplied, WorksOnNext, Busy, Going, Inside
<1>4. InOrder' /\ RanOnce' /\ Complete'
  BY QuietKeeps DEF SchemaIInv, Start, Quiet, Complete
<1>5. QED
  BY <1>2, <1>3, <1>4 DEF SchemaIInv

\* pg_advisory_lock, given to one runner only.
LEMMA LockKeeps ==
  ASSUME SchemaIInv, NEW r \in Runners, TakeMigrationsLock(r)
  PROVE  SchemaIInv'
<1> DEFINE to == [at |-> "locked"]
<1>1. Moves(r, to) /\ to \in Stage /\ mlock = NoRunner /\ mlock' = r
  BY DEF TakeMigrationsLock, Stage
<1>2. \A q \in Runners : ~Busy(q)
  BY <1>1, MigrationsAssumption DEF SchemaIInv, LockHeld
<1>3. MigrationsTypeOK'
  BY <1>1, OthersStay DEF SchemaIInv, TakeMigrationsLock, MigrationsTypeOK
<1>4. LockHeld' /\ KnowsApplied' /\ WorksOnNext'
  BY <1>1, <1>2, OthersStay
     DEF SchemaIInv, TakeMigrationsLock, LockHeld, KnowsApplied, WorksOnNext, Busy, Going, Inside
<1>5. InOrder' /\ RanOnce' /\ Complete'
  BY QuietKeeps DEF SchemaIInv, TakeMigrationsLock, Quiet, Complete
<1>6. QED
  BY <1>3, <1>4, <1>5 DEF SchemaIInv

\* With the lock and before the first file.
LEMMA ReadKeeps ==
  ASSUME SchemaIInv, NEW r \in Runners, Track(r) \/ ReadApplied(r)
  PROVE  SchemaIInv'
<1> USE MigrationsAssumption
<1> DEFINE to == IF At(r, "locked") THEN [at |-> "tracking"]
                 ELSE [at |-> "between", already |-> applied, file |-> 1]
<1>1. /\ Moves(r, to) /\ mlock' = mlock /\ booted' = booted /\ bundle' = bundle
      /\ applied' = applied /\ ran' = ran /\ tracked' \in BOOLEAN /\ Busy(r)
  BY DEF Track, ReadApplied, At, Busy, SchemaIInv, MigrationsTypeOK
<1>2. to \in Stage
  BY DEF SchemaIInv, MigrationsTypeOK, Stage
<1>3. MigrationsTypeOK'
  BY <1>1, <1>2, OthersStay DEF SchemaIInv, MigrationsTypeOK
<1>4. LockHeld' /\ WorksOnNext'
  BY <1>1, OthersStay DEF SchemaIInv, LockHeld, WorksOnNext, Busy, Inside, At
<1>5. KnowsApplied'
  BY <1>1, OthersStay DEF SchemaIInv, KnowsApplied, Going, At
<1>6. InOrder' /\ RanOnce' /\ Complete'
  BY <1>1, QuietKeeps DEF SchemaIInv, Quiet, Complete
<1>7. QED
  BY <1>3, <1>4, <1>5, <1>6 DEF SchemaIInv

\* On the way through the files, but for the commit.
LEMMA WalkKeeps ==
  ASSUME SchemaIInv, NEW r \in Runners, Skip(r) \/ Execute(r) \/ Record(r)
  PROVE  SchemaIInv'
<1> USE MigrationsAssumption
<1>1. Going(r) /\ Busy(r)
  BY DEF Skip, Execute, Record, At, Going, Busy
<1>2. /\ runner[r].already \subseteq File /\ runner[r].file \in 1 .. Files + 1
      /\ runner[r] \in [at : {"between", "inside", "recorded"}, already : SUBSET File,
                        file : 1 .. Files + 1]
  BY <1>1, StageShape DEF SchemaIInv
<1>3. bundle[r] \in 0 .. Files
  BY DEF SchemaIInv, MigrationsTypeOK
<1>4. PICK to : /\ Moves(r, to)
                /\ to = IF Skip(r) THEN [runner[r] EXCEPT !.file = @ + 1]
                        ELSE IF Execute(r) THEN [runner[r] EXCEPT !.at = "inside"]
                        ELSE [runner[r] EXCEPT !.at = "recorded"]
  BY DEF Skip, Execute, Record
<1>5. /\ mlock' = mlock /\ booted' = booted /\ bundle' = bundle
      /\ applied' = applied /\ ran' = ran /\ tracked' = tracked
  BY DEF Skip, Execute, Record
<1>6. /\ to \in [at : {"between", "inside", "recorded"}, already : SUBSET File,
                 file : 1 .. Files + 1]
      /\ to.already = runner[r].already
      /\ to.file = IF Skip(r) THEN runner[r].file + 1 ELSE runner[r].file
  BY <1>2, <1>3, <1>4 DEF Skip, Execute, Record, At
<1>7. MigrationsTypeOK'
  BY <1>4, <1>5, <1>6, OthersStay DEF SchemaIInv, MigrationsTypeOK, Stage
<1>8. LockHeld'
  BY <1>1, <1>4, <1>5, <1>6, OthersStay DEF SchemaIInv, LockHeld, Busy
<1>9. KnowsApplied'
  <2>1. applied = to.already \cup 1 .. (to.file - 1)
    BY <1>1, <1>2, <1>6 DEF SchemaIInv, KnowsApplied, Skip
  <2>2. QED
    BY <1>4, <1>5, <2>1, OthersStay DEF SchemaIInv, KnowsApplied, Going
<1>10. WorksOnNext'
  <2>1. to.at \in {"inside", "recorded"} => to.file \in File /\ to.file \notin to.already
    BY <1>2, <1>3, <1>4, <1>6
       DEF SchemaIInv, WorksOnNext, Inside, Skip, Execute, Record, At, File
  <2>2. QED
    BY <1>4, <1>5, <2>1, OthersStay DEF SchemaIInv, WorksOnNext, Inside
<1>11. InOrder' /\ RanOnce' /\ Complete'
  BY <1>5, QuietKeeps DEF SchemaIInv, Quiet, Complete
<1>12. QED
  BY <1>7, <1>8, <1>9, <1>10, <1>11 DEF SchemaIInv

\* The commit of a file.
LEMMA CommitKeeps ==
  ASSUME SchemaIInv, NEW r \in Runners, CommitFile(r)
  PROVE  SchemaIInv'
<1> USE MigrationsAssumption
<1> DEFINE f == runner[r].file
           to == [at |-> "between", already |-> runner[r].already, file |-> f + 1]
<1>1. Going(r) /\ Busy(r) /\ Inside(r)
  BY DEF CommitFile, At, Going, Busy, Inside
<1>2. /\ f \in File /\ f \notin runner[r].already /\ runner[r].already \subseteq File
      /\ runner[r] \in [at : {"between", "inside", "recorded"}, already : SUBSET File,
                        file : 1 .. Files + 1]
  BY <1>1, StageShape DEF SchemaIInv, WorksOnNext
<1>3. /\ Moves(r, to) /\ mlock' = mlock /\ booted' = booted /\ bundle' = bundle
      /\ applied' = applied \cup {f} /\ ran' = [ran EXCEPT ![f] = @ + 1] /\ tracked' = tracked
  BY DEF CommitFile
<1>4. to \in [at : {"between", "inside", "recorded"}, already : SUBSET File,
              file : 1 .. Files + 1]
  <2>1. f + 1 \in 1 .. Files + 1
    BY <1>2 DEF File
  <2>2. QED
    BY <1>2, <2>1
<1>5. applied = runner[r].already \cup 1 .. (f - 1)
  BY <1>1 DEF SchemaIInv, KnowsApplied
<1>6. f \notin applied
  BY <1>2, <1>5 DEF File
<1>7. applied = 1 .. f - 1
  <2>1. PICK n \in 0 .. Files : applied = 1 .. n
    BY DEF SchemaIInv, InOrder
  <2>2. f \in 1 .. Files /\ f \notin 1 .. n
    BY <1>2, <1>6, <2>1 DEF File
  <2>3. f - 1 \in 1 .. f - 1 => f - 1 \in 1 .. n
    BY <1>5, <2>1
  <2>4. n = f - 1
    BY <2>2, <2>3
  <2>5. QED
    BY <2>1, <2>4
<1>8. \A q \in Runners : q # r => ~Busy(q)
  BY <1>1 DEF SchemaIInv, LockHeld
<1>9. MigrationsTypeOK'
  <2>1. runner' \in [Runners -> Stage]
    BY <1>3, <1>4, OthersStay DEF SchemaIInv, Stage
  <2>2. applied' \subseteq File /\ ran' \in [File -> Nat]
    BY <1>2, <1>3 DEF SchemaIInv, MigrationsTypeOK
  <2>3. QED
    BY <1>3, <2>1, <2>2 DEF SchemaIInv, MigrationsTypeOK
<1>10. LockHeld'
  BY <1>1, <1>3, <1>4, OthersStay DEF SchemaIInv, LockHeld, Busy
<1>11. KnowsApplied'
  <2>1. applied' = to.already \cup 1 .. (to.file - 1)
    BY <1>2, <1>3, <1>4, <1>5 DEF File
  <2>2. QED
    BY <1>3, <1>8, <2>1, OthersStay DEF SchemaIInv, KnowsApplied, Going, Busy
<1>12. WorksOnNext'
  BY <1>3, <1>4, <1>8, OthersStay DEF SchemaIInv, WorksOnNext, Inside, Busy
<1>13. InOrder'
  <2>1. applied' = 1 .. f
    BY <1>2, <1>3, <1>7 DEF File
  <2>2. QED
    BY <1>2, <2>1 DEF InOrder, File
<1>14. RanOnce'
  BY <1>2, <1>3, <1>6 DEF SchemaIInv, RanOnce, MigrationsTypeOK
<1>15. Complete'
  BY <1>3 DEF SchemaIInv, Complete
<1>16. QED
  BY <1>9, <1>10, <1>11, <1>12, <1>13, <1>14, <1>15 DEF SchemaIInv

\* The end of a run, whatever ends it.
LEMMA EndKeeps ==
  ASSUME SchemaIInv, NEW r \in Runners, Finish(r) \/ Crash(r)
  PROVE  SchemaIInv'
<1> USE MigrationsAssumption
<1>1. PICK to : Moves(r, to) /\ to \in {Idle, [at |-> "over"]}
  BY DEF Finish, Crash
<1>2. to \in Stage /\ to.at \in {"idle", "over"}
  BY <1>1 DEF Stage, Idle
<1>3. /\ mlock' = IF mlock = r THEN NoRunner ELSE mlock
      /\ booted' = booted /\ bundle' = bundle
      /\ applied' = applied /\ ran' = ran /\ tracked' = tracked
  BY DEF Finish, Crash, Release
<1>4. MigrationsTypeOK'
  BY <1>1, <1>2, <1>3, OthersStay DEF SchemaIInv, MigrationsTypeOK
<1>5. LockHeld' /\ KnowsApplied' /\ WorksOnNext'
  BY <1>1, <1>2, <1>3, OthersStay
     DEF SchemaIInv, LockHeld, KnowsApplied, WorksOnNext, Busy, Going, Inside
<1>6. InOrder' /\ RanOnce' /\ Complete'
  BY <1>3, QuietKeeps DEF SchemaIInv, Quiet, Complete
<1>7. QED
  BY <1>4, <1>5, <1>6 DEF SchemaIInv

\* A panel serves only once every file it was built with is applied.
LEMMA BootKeeps ==
  ASSUME SchemaIInv, NEW p \in Panels, Boot(p)
  PROVE  SchemaIInv'
  BY QuietKeeps
     DEF SchemaIInv, Boot, UpToDate, MigrationsTypeOK, LockHeld, KnowsApplied, WorksOnNext,
         Busy, Going, Inside, Quiet, Complete

\* Nothing happens.
LEMMA StutterKeeps ==
  ASSUME SchemaIInv, UNCHANGED migrationVars
  PROVE  SchemaIInv'
  BY QuietKeeps
     DEF SchemaIInv, migrationVars, MigrationsTypeOK, LockHeld, KnowsApplied, WorksOnNext,
         Busy, Going, Inside, Quiet, Complete

\* Every step of a runner, a death or a panel's boot keeps the schema in order.
THEOREM SchemaStepInv == SchemaIInv /\ [MigrationsNext]_migrationVars => SchemaIInv'
<1> SUFFICES ASSUME SchemaIInv, [MigrationsNext]_migrationVars PROVE SchemaIInv'
  OBVIOUS
<1>1. ASSUME NEW r \in Runners,
             Start(r) \/ TakeMigrationsLock(r) \/ Track(r) \/ ReadApplied(r) \/ Skip(r)
             \/ Execute(r) \/ Record(r) \/ CommitFile(r) \/ Finish(r) \/ Crash(r)
      PROVE  SchemaIInv'
  BY <1>1, StartKeeps, LockKeeps, ReadKeeps, WalkKeeps, CommitKeeps, EndKeeps
<1>2. QED
  BY <1>1, BootKeeps, StutterKeeps DEF MigrationsNext

\* The invariant says what a reader wants to know of the schema.
LEMMA SchemaInvOrders == SchemaIInv => SchemaGrowsInOrder
<1> SUFFICES ASSUME SchemaIInv PROVE SchemaGrowsInOrder
  OBVIOUS
<1>1. \A r \in Runners : At(r, "inside") \/ At(r, "recorded") =>
        runner[r].file \notin applied
  BY MigrationsAssumption
     DEF SchemaIInv, KnowsApplied, WorksOnNext, Going, Inside, At, File
<1>2. \A r \in Runners : Holds(r) => runner[r] # Idle /\ ~At(r, "over")
  BY DEF SchemaIInv, LockHeld, Busy, Holds, At, Idle
<1>3. QED
  BY <1>1, <1>2 DEF SchemaIInv, InOrder, RanOnce, Complete, SchemaGrowsInOrder

\* For any number of runners, panels and files, of builds of any age, and wherever a
\* run fails or dies, the schema grows file by file and each file is committed once.
THEOREM SchemaOrdered == MigrationsSpec => []SchemaGrowsInOrder
BY SchemaInitInv, SchemaInvOrders, SchemaStepInv, PTL DEF MigrationsSpec
=============================================================================
