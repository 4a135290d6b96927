------------------------------ MODULE Migrations ------------------------------
(***************************************************************************)
(* The runner of packages/platform-core/src/postgres-migrations.ts:        *)
(* several processes may run their bundled files against one database at   *)
(* once, each file in its own transaction, all of them under one advisory  *)
(* lock of the session; and the admin panel, which runs none and refuses   *)
(* to boot on a schema that is behind its own bundle.                      *)
(***************************************************************************)
EXTENDS Naturals

CONSTANTS
  Runners,   \* processes that run migrations
  Panels,    \* processes of the admin panel
  Files,     \* how many files the newest build bundles, by number
  NoRunner

ASSUME MigrationsAssumption == Files \in Nat /\ NoRunner \notin Runners

VARIABLES
  bundle,       \* how many of the files each process was built with
  mlock,        \* who holds advisory lock 4011
  tracked,      \* is there a table schema_migrations?
  applied,      \* its rows
  ran,          \* how often the statements of a file were committed
  runner,       \* where each runner stands
  booted,       \* the panels that serve
  restartsLeft  \* bound: runs still to be started

migrationVars == <<bundle, mlock, tracked, applied, ran, runner, booted, restartsLeft>>

File  == 1 .. Files
Idle  == [at |-> "idle"]
Stage == {Idle} \cup [at : {"asked", "locked", "tracking", "over"}]
         \cup [at : {"between", "inside", "recorded"}, already : SUBSET File, file : 1 .. Files + 1]

MigrationsTypeOK ==
  /\ bundle \in [Runners \cup Panels -> 0 .. Files]
  /\ mlock \in Runners \cup {NoRunner} /\ tracked \in BOOLEAN
  /\ applied \subseteq File /\ ran \in [File -> Nat]
  /\ runner \in [Runners -> Stage] /\ booted \subseteq Panels

\* A fresh database, and builds of different age.
MigrationsInit ==
  /\ bundle \in [Runners \cup Panels -> 0 .. Files]
  /\ mlock = NoRunner /\ tracked = FALSE /\ applied = {}
  /\ ran = [f \in File |-> 0]
  /\ runner = [r \in Runners |-> Idle]
  /\ booted = {}

At(r, stage) == runner[r].at = stage
Holds(r) == mlock = r
Release(r) == mlock' = IF mlock = r THEN NoRunner ELSE mlock
Moves(r, to) == runner' = [runner EXCEPT ![r] = to]

-----------------------------------------------------------------------------
(* runMigrations. *)

\* A connection of its own
Start(r) ==
  /\ runner[r] = Idle \/ At(r, "over")
  /\ restartsLeft > 0 /\ restartsLeft' = restartsLeft - 1
  /\ Moves(r, [at |-> "asked"])
  /\ UNCHANGED <<bundle, mlock, tracked, applied, ran, booted>>

\* Seeded fault: no lock; each file is a transaction already.
StartUnlocked(r) ==
  /\ At(r, "asked")
  /\ Moves(r, [at |-> "locked"])
  /\ UNCHANGED <<bundle, mlock, tracked, applied, ran, booted, restartsLeft>>
\* pg_advisory_lock: waits for as long as another session holds it
TakeMigrationsLock(r) ==
  /\ At(r, "asked") /\ mlock = NoRunner
  /\ mlock' = r /\ Moves(r, [at |-> "locked"])
  /\ UNCHANGED <<bundle, tracked, applied, ran, booted, restartsLeft>>

\* CREATE TABLE IF NOT EXISTS
Track(r) ==
  /\ At(r, "locked")
  /\ tracked' = TRUE /\ Moves(r, [at |-> "tracking"])
  /\ UNCHANGED <<bundle, mlock, applied, ran, booted, restartsLeft>>

ReadApplied(r) ==
  /\ At(r, "tracking")
  /\ Moves(r, [at |-> "between", already |-> applied, file |-> 1])
  /\ UNCHANGED <<bundle, mlock, tracked, applied, ran, booted, restartsLeft>>

Skip(r) ==
  /\ At(r, "between") /\ runner[r].file <= bundle[r] /\ runner[r].file \in runner[r].already
  /\ Moves(r, [runner[r] EXCEPT !.file = @ + 1])
  /\ UNCHANGED <<bundle, mlock, tracked, applied, ran, booted, restartsLeft>>

\* BEGIN and the file's statements, which may fail.  They cannot run twice: each
\* creates or alters something that is then there.
Execute(r) ==
  /\ At(r, "between") /\ runner[r].file <= bundle[r] /\ runner[r].file \notin runner[r].already
  /\ Moves(r, [runner[r] EXCEPT !.at = "inside"])
  /\ UNCHANGED <<bundle, mlock, tracked, applied, ran, booted, restartsLeft>>

\* The INSERT of its version waits for, and then fails on, the same key.
Record(r) ==
  /\ At(r, "inside") /\ runner[r].file \notin applied
  /\ \A q \in Runners \ {r} : At(q, "recorded") => runner[q].file # runner[r].file
  /\ Moves(r, [runner[r] EXCEPT !.at = "recorded"])
  /\ UNCHANGED <<bundle, mlock, tracked, applied, ran, booted, restartsLeft>>

CommitFile(r) ==
  /\ At(r, "recorded")
  /\ LET f == runner[r].file IN
       /\ applied' = applied \cup {f} /\ ran' = [ran EXCEPT ![f] = @ + 1]
       /\ Moves(r, [at |-> "between", already |-> runner[r].already, file |-> f + 1])
  /\ UNCHANGED <<bundle, mlock, tracked, booted, restartsLeft>>

\* The end of the files, or a statement that fails, with ROLLBACK inside a file:
\* either way the lock is given back before the connection is.
Finish(r) ==
  /\ \/ At(r, "between") /\ runner[r].file > bundle[r]
     \/ runner[r].at \in {"locked", "tracking", "inside", "recorded"}
  /\ Release(r) /\ Moves(r, [at |-> "over"])
  /\ UNCHANGED <<bundle, tracked, applied, ran, booted, restartsLeft>>

\* The process dies: the database rolls its transaction back and frees its lock.
Crash(r) ==
  /\ runner[r] # Idle /\ ~At(r, "over")
  /\ Release(r) /\ Moves(r, Idle)
  /\ UNCHANGED <<bundle, tracked, applied, ran, booted, restartsLeft>>

-----------------------------------------------------------------------------
(* assertSchemaUpToDate, at the panel's boot: it takes no lock. *)

UpToDate(p) == tracked /\ 1 .. bundle[p] \subseteq applied

Boot(p) ==
  /\ p \notin booted /\ UpToDate(p)
  /\ booted' = booted \cup {p}
  /\ UNCHANGED <<bundle, mlock, tracked, applied, ran, runner, restartsLeft>>

MigrationsNext ==
  \/ \E r \in Runners :
       Start(r) \/ TakeMigrationsLock(r) \/ Track(r) \/ ReadApplied(r) \/ Skip(r)
       \/ Execute(r) \/ Record(r) \/ CommitFile(r) \/ Finish(r) \/ Crash(r)
  \/ \E p \in Panels : Boot(p)

MigrationsSpec == MigrationsInit /\ [][MigrationsNext]_migrationVars

-----------------------------------------------------------------------------
(* Properties. *)

\* Whoever starts, fails or dies, and whatever build each is of, the schema grows file
\* by file in the order of their names.  A file's statements are committed once, with
\* its version; nobody starts on a file that another has applied since it looked; a
\* runner that is over has given the lock back; and a panel that serves finds all it
\* was built with.
SchemaGrowsInOrder ==
  /\ \E n \in 0 .. Files : applied = 1 .. n
  /\ \A f \in File : ran[f] = IF f \in applied THEN 1 ELSE 0
  /\ \A r \in Runners : At(r, "inside") \/ At(r, "recorded") =>
       runner[r].file \notin applied
  /\ \A r \in Runners : Holds(r) => runner[r] # Idle /\ ~At(r, "over")
  /\ \A p \in booted : 1 .. bundle[p] \subseteq applied
=============================================================================
