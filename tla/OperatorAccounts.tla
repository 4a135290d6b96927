--------------------------- MODULE OperatorAccounts ---------------------------
(***************************************************************************)
(* The accounts of the admin panel and the guard that keeps somebody able  *)
(* to manage them: packages/platform-core/src/last-account-manager.ts and  *)
(* the writers around it.                                                  *)
(*                                                                         *)
(* Every write is a Postgres transaction at READ COMMITTED: a statement    *)
(* sees what is committed and what its own transaction wrote, a row        *)
(* written by an open transaction makes another writer wait, and nothing   *)
(* else does.  The steps of concurrent calls interleave statement by       *)
(* statement.  Of the permissions, only operators.manage is kept: the      *)
(* guard counts nothing else; a password hash is changed by writing its    *)
(* account's row, and what it is does not matter here.                     *)
(***************************************************************************)
CONSTANTS
  Operators,   \* usernames
  Root,        \* the account bootstrapOperator created
  Calls,       \* HTTP requests (and CLI runs) in flight at once
  Logins,      \* login requests, and the sessions they open
  NoCall, NoOperator

ASSUME AccountsAssumption ==
  /\ Root \in Operators
  /\ NoCall \notin Calls
  /\ NoOperator \notin Operators

VARIABLES
  known,      \* rows of `operators`
  enabled,    \* operators.enabled
  managers,   \* operator_permissions rows that say operators.manage
  sessions,   \* rows of `operator_sessions`
  lock,       \* the transaction holding advisory lock 4021
  call,       \* where each call's transaction stands
  login       \* whose login is between its password check and its INSERT

tables == <<known, enabled, managers, sessions>>
vars   == <<tables, lock, call, login>>

Guarded == {"disable", "revoke"}
Writers == Guarded \cup {"create", "enable", "grant", "password", "reset"}

Session == [id : Logins, op : Operators]
Idle    == [at |-> "idle"]

\* `wrote` is false when ON CONFLICT DO NOTHING left the grant's row alone;
\* `gone` is what the transaction's own DELETE of sessions found.
Call == {Idle}
  \cup [at : {"begun", "locked"}, kind : Writers, target : Operators]
  \cup [at : {"written", "counted"}, kind : Writers, target : Operators,
        wrote : BOOLEAN, gone : SUBSET Session]

TypeOK ==
  /\ known \subseteq Operators
  /\ enabled \in [Operators -> BOOLEAN]
  /\ managers \subseteq known
  /\ sessions \subseteq { s \in Session : s.op \in known }
  /\ lock \in Calls \cup {NoCall}
  /\ call \in [Calls -> Call]
  /\ login \in [Logins -> known \cup {NoOperator}]

Init ==
  /\ known = {Root}
  /\ enabled = [o \in Operators |-> TRUE]
  /\ managers = {Root}
  /\ sessions = {}
  /\ lock = NoCall
  /\ call = [c \in Calls |-> Idle]
  /\ login = [l \in Logins |-> NoOperator]

-----------------------------------------------------------------------------
(* Who may ask. *)

HasSession(o) == \E s \in sessions : s.op = o

\* authorize: a live session, an enabled account, the route's permission
Authorized(o) == HasSession(o) /\ enabled[o] /\ o \in managers

\* A panel request passes the checkpoint, or the operator shell runs a reset.
Request(c, kind, target) ==
  /\ call[c] = Idle
  /\ CASE kind = "password" -> HasSession(target) /\ enabled[target]
       [] kind = "reset"    -> TRUE
       [] OTHER             -> \E o \in known : Authorized(o)
  /\ call' = [call EXCEPT ![c] = [at |-> "begun", kind |-> kind, target |-> target]]
  /\ UNCHANGED <<tables, lock, login>>

-----------------------------------------------------------------------------
(* The transaction. *)

\* The rows an open transaction has written, and keeps others from writing.
RowsOf(c) ==
  IF call[c].at \notin {"written", "counted"} THEN {}
  ELSE CASE call[c].kind \in {"grant", "revoke"} ->
              IF call[c].wrote THEN {<<"permission", call[c].target>>} ELSE {}
         [] OTHER -> {<<"operator", call[c].target>>}

Row(c) == IF call[c].kind \in {"grant", "revoke"}
            THEN <<"permission", call[c].target>> ELSE <<"operator", call[c].target>>

\* An UPDATE or a DELETE does not see a row still being inserted; an INSERT waits
\* to learn whether its key is taken.
Inserts == {"create", "grant"}
Waits(c) == \E d \in Calls \ {c} :
              /\ Row(c) \in RowsOf(d)
              /\ call[d].kind \in Inserts => call[c].kind \in Inserts

\* Seeded fault: the lock is session-scoped, and a refusal returns without it.
LeakedBy(c) == lock
\* COMMIT and ROLLBACK both release a transaction-scoped lock.
LockWithout(c) == IF lock = c THEN NoCall ELSE lock

RollBack(c) ==
  /\ call' = [call EXCEPT ![c] = Idle]
  /\ lock' = LockWithout(c)
  /\ UNCHANGED <<tables, login>>

\* Seeded fault: no lock, only the row locks the statements take.
UnlockedStart(c) ==
  /\ call[c].at = "begun" /\ call[c].kind \in Guarded
  /\ call' = [call EXCEPT ![c].at = "locked"]
  /\ UNCHANGED <<tables, lock, login>>

\* pg_advisory_xact_lock, first thing in a guarded transaction
TakeLock(c) ==
  /\ call[c].at = "begun" /\ call[c].kind \in Guarded
  /\ lock = NoCall
  /\ lock' = c
  /\ call' = [call EXCEPT ![c].at = "locked"]
  /\ UNCHANGED <<tables, login>>

\* Seeded fault: a grant to an account that does not exist is let through.
LaxNothingToDo(kind, target) ==
  CASE kind = "create" -> target \in known
    [] kind = "revoke" -> target \notin managers
    [] kind = "grant"  -> FALSE
    [] OTHER           -> target \notin known

\* The statement finds no row to write, or a constraint refuses it.
NothingToDo(kind, target) ==
  CASE kind = "create" -> target \in known
    [] kind = "revoke" -> target \notin managers
    [] OTHER           -> target \notin known

\* mutate: the caller's own statements
Mutate(c) ==
  /\ \/ call[c].at = "locked"
     \/ call[c].at = "begun" /\ call[c].kind \notin Guarded
  /\ ~Waits(c)
  /\ LET kind   == call[c].kind
         target == call[c].target
     IN
        IF NothingToDo(kind, target)
          THEN RollBack(c)
          ELSE /\ call' = [call EXCEPT ![c] =
                    [at |-> "written", kind |-> kind, target |-> target,
                     wrote |-> kind = "grant" => target \notin managers,
                     gone |-> IF kind \in {"disable", "reset"}
                                THEN { s \in sessions : s.op = target } ELSE {}]]
               /\ UNCHANGED <<tables, lock, login>>

Holders == { o \in managers : enabled[o] }

\* Who would still manage accounts, for the transaction that is about to commit:
\* its one write laid over what the others have committed by now.
HoldersSeenBy(c) ==
  IF call[c].kind \in Guarded THEN Holders \ {call[c].target} ELSE Holders

HoldersLeft(c) == HoldersSeenBy(c) # {}

\* The guard's count(*), after the mutation
Count(c) ==
  /\ call[c].at = "written" /\ call[c].kind \in Guarded
  /\ IF HoldersLeft(c)
       THEN /\ call' = [call EXCEPT ![c].at = "counted"]
            /\ UNCHANGED <<tables, lock, login>>
       ELSE RollBack(c)

\* The audit witness has run on the same client; COMMIT.
Commit(c) ==
  /\ \/ call[c].at = "counted"
     \/ call[c].at = "written" /\ call[c].kind \notin Guarded
  /\ LET kind   == call[c].kind
         target == call[c].target
     IN  /\ known' = IF kind = "create" THEN known \cup {target} ELSE known
         /\ enabled' = IF kind \in {"enable", "disable"}
                         THEN [enabled EXCEPT ![target] = (kind = "enable")] ELSE enabled
         /\ managers' = CASE kind = "grant" /\ call[c].wrote -> managers \cup {target}
                          [] kind = "revoke" -> managers \ {target}
                          [] OTHER -> managers
  /\ sessions' = sessions \ call[c].gone
  /\ call' = [call EXCEPT ![c] = Idle]
  /\ lock' = LockWithout(c)
  /\ UNCHANGED login

\* A statement or the witness throws, or the process or its connection dies.
Fail(c) == call[c] # Idle /\ RollBack(c)

-----------------------------------------------------------------------------
(* Sessions: autocommitted, outside any of these transactions. *)

\* handleLoginRequest reads the account and checks the password against it.
Verify(l, o) ==
  /\ login[l] = NoOperator /\ \A s \in sessions : s.id # l
  /\ o \in known /\ enabled[o]
  /\ login' = [login EXCEPT ![l] = o]
  /\ UNCHANGED <<tables, lock, call>>

\* sessions.create, after another round trip
OpenSession(l) ==
  /\ login[l] # NoOperator
  /\ sessions' = sessions \cup {[id |-> l, op |-> login[l]]}
  /\ login' = [login EXCEPT ![l] = NoOperator]
  /\ UNCHANGED <<known, enabled, managers, lock, call>>

\* deleteByTokenHash waits for a transaction that is deleting the same row.
Logout(s) ==
  /\ \A c \in Calls : call[c].at \in {"written", "counted"} => s \notin call[c].gone
  /\ sessions' = sessions \ {s}
  /\ UNCHANGED <<known, enabled, managers, lock, call, login>>

-----------------------------------------------------------------------------

Step(c) == TakeLock(c) \/ Mutate(c) \/ Count(c) \/ Commit(c)

Next ==
  \/ \E c \in Calls : \/ \E kind \in Writers, target \in Operators : Request(c, kind, target)
                      \/ Step(c)
                      \/ Fail(c)
  \/ \E l \in Logins : OpenSession(l) \/ \E o \in Operators : Verify(l, o)
  \/ \E s \in sessions : Logout(s)

Spec == Init /\ [][Next]_vars

\* Postgres queues the waiters of a lock, so that a statement whose lock is
\* released again and again is not passed over for ever.
FairSpec == Spec /\ \A c \in Calls : SF_vars(Step(c))

-----------------------------------------------------------------------------
(* Properties. *)

\* Some enabled account always holds operators.manage, although revoking a grant
\* and disabling an account write different tables and neither sees the other's
\* uncommitted write.
SomeoneAdministers == Holders # {}

\* Every call ends: neither the guard's lock nor a row lock is ever kept by a
\* transaction that is over, and no two transactions wait for each other.
CallsEnd == \A c \in Calls : call[c] # Idle ~> call[c] = Idle

\* Enabling an account again brings no session back to life.
NothingResurrected ==
  [][\A o \in Operators : ~enabled[o] /\ enabled'[o] =>
       \A s \in sessions : s.op # o]_vars
=============================================================================
